------------------------ MODULE PriceLevelListProofs ------------------------
(***************************************************************************)
(* Proofs about PriceLevelList and its MemPool, for every set of prices    *)
(* and every number of blocks.                                             *)
(*                                                                         *)
(* The invariant names the list behind the pointers: of each side there    *)
(* are a length m and an enumeration r of its levels in use, from best to  *)
(* worst, that the links follow around the ring (Listed).  addOrdersAtPrice*)
(* then is an insertion into r behind the levels that are better, which is *)
(* where the search ends, and removeOrdersAtPrice takes one element out.   *)
(* That a fresh block is on neither list comes from the pool: allocate     *)
(* hands out a free one (PoolInv).  That no price is met twice comes from  *)
(* price_orders_at_price_ (Indexed).                                       *)
(*                                                                         *)
(* Listed lasts until a head is lost.  What lasts for good is Mirrored:    *)
(* blocks in use are linked with each other in rings, free ones with       *)
(* nothing.  So a head of a freed level is known by its next_entry_, and   *)
(* whatever ring a search goes through, a level is linked between two      *)
(* neighbours of it.                                                       *)
(***************************************************************************)
EXTENDS PriceLevelList, FiniteSetTheorems, FunctionTheorems, WellFoundedInduction, TLAPS

-----------------------------------------------------------------------------
(* The pool.  PoolExhaustedOnlyWhenFull is inductive with the type         *)
(* invariant: deallocate can only free more, and allocate ends by looking  *)
(* for a free block or finding that there is none.                         *)

PoolInv == PoolTypeOK /\ PoolExhaustedOnlyWhenFull

(* A new pool has only free blocks. *)
LEMMA InitiallyAllFree == PoolInit => PoolInv
<1>1. 0 \in Blocks
  BY NumElemsAssumption DEF Blocks
<1>2. PoolInit => is_free_ \in [Blocks -> BOOLEAN] /\ is_free_[next_free_index_] /\ ~out_of_space
  BY <1>1, Zenon DEF PoolInit
<1> QED
  BY <1>1, <1>2 DEF PoolInit, PoolInv, PoolTypeOK, PoolExhaustedOnlyWhenFull

(* allocate ends at a free block, or with none left. *)
LEMMA AllocatePreserves == PoolInv /\ allocate => PoolInv'
<1> SUFFICES ASSUME PoolInv, allocate PROVE PoolInv'
  OBVIOUS
<1>1. is_free_' \in [Blocks -> BOOLEAN]
  BY DEF PoolInv, PoolTypeOK, allocate
<1>2. CASE \A b \in Blocks : ~is_free_'[b]
  BY <1>1, <1>2 DEF PoolInv, PoolTypeOK, PoolExhaustedOnlyWhenFull, allocate, updateNextFreeIndex
<1>3. CASE ~(\A b \in Blocks : ~is_free_'[b])
  <2>1. next_free_index_' \in Blocks /\ is_free_'[next_free_index_'] /\ ~out_of_space'
    BY <1>3 DEF PoolInv, PoolTypeOK, allocate, updateNextFreeIndex
  <2> QED
    BY <1>1, <2>1 DEF PoolInv, PoolTypeOK, PoolExhaustedOnlyWhenFull, allocate, updateNextFreeIndex
<1> QED
  BY <1>2, <1>3

(* deallocate only frees. *)
LEMMA DeallocatePreserves ==
  ASSUME NEW b \in Blocks
  PROVE  PoolInv /\ deallocate(b) => PoolInv'
BY DEF PoolInv, PoolTypeOK, PoolExhaustedOnlyWhenFull, deallocate

(* Every operation of the pool keeps the invariant. *)
LEMMA PoolInvInductive == PoolInv /\ [PoolNext]_poolVars => PoolInv'
<1> SUFFICES ASSUME PoolInv, [PoolNext]_poolVars PROVE PoolInv'
  OBVIOUS
<1>1. CASE allocate
  BY <1>1, AllocatePreserves
<1>2. CASE \E b \in Blocks : deallocate(b)
  BY <1>2, DeallocatePreserves
<1>3. CASE UNCHANGED poolVars
  BY <1>3 DEF PoolInv, PoolTypeOK, PoolExhaustedOnlyWhenFull, poolVars
<1> QED
  BY <1>1, <1>2, <1>3 DEF PoolNext

(* The ASSERTs of mem_pool.h never fire early: for every size of the pool  *)
(* and every history of allocate and deallocate, the block about to be     *)
(* handed out is free, and the pool reports to be out of space only when   *)
(* it has handed out its last block.                                       *)
THEOREM PoolNeverFailsEarly == PoolSpec => []PoolExhaustedOnlyWhenFull
<1>1. PoolInv => PoolExhaustedOnlyWhenFull
  BY DEF PoolInv
<1> QED
  BY <1>1, InitiallyAllFree, PoolInvInductive, PTL DEF PoolSpec

-----------------------------------------------------------------------------
(* The inductive invariant *)

Links == Nodes \cup {Null}

TypeOK ==
  /\ price_orders_at_price_ \in [Prices -> Links]
  /\ head \in [Side -> Links]
  /\ side_ \in [Nodes -> Side \cup {"INVALID"}]
  /\ price_ \in [Nodes -> Nat]
  /\ prev_entry_ \in [Nodes -> Links]
  /\ next_entry_ \in [Nodes -> Links]
  /\ order_sides \in [Prices -> SUBSET Side]
  /\ headLost \in BOOLEAN

(* a level has orders *)
Manned == \A p \in Prices : order_sides[p] # {} => price_orders_at_price_[p] # Null

(* links lead from a level in use to another and back; a free block has none *)
Mirrored ==
  /\ \A n \in Nodes : ~is_free_[n] =>
       /\ next_entry_[n] \in Nodes /\ ~is_free_[next_entry_[n]] /\ prev_entry_[next_entry_[n]] = n
       /\ prev_entry_[n] \in Nodes /\ ~is_free_[prev_entry_[n]] /\ next_entry_[prev_entry_[n]] = n
  /\ \A n \in Nodes : is_free_[n] => next_entry_[n] = Null /\ prev_entry_[n] = Null

(* the table knows the levels in use, each under its own price *)
Indexed ==
  /\ \A p \in Prices : price_orders_at_price_[p] # Null =>
       /\ ~is_free_[price_orders_at_price_[p]]
       /\ price_[price_orders_at_price_[p]] = p
  /\ \A n \in Nodes : ~is_free_[n] =>
       /\ side_[n] \in Side
       /\ price_[n] \in Prices
       /\ price_orders_at_price_[price_[n]] = n

(* r enumerates the nodes of the set U, each once *)
Enumerates(r, m, U) ==
  /\ r \in [1 .. m -> U]
  /\ \A i, j \in 1 .. m : r[i] = r[j] => i = j
  /\ \A n \in U : \E i \in 1 .. m : r[i] = n

(* the place behind place i, around a ring of m nodes *)
Following(m, i) == IF i = m THEN 1 ELSE i + 1

(* the links next and prev lead around r, forwards and backwards *)
Ring(r, m, next, prev) ==
  \A i \in 1 .. m : next[r[i]] = r[Following(m, i)] /\ prev[r[Following(m, i)]] = r[i]

(* a price p comes before a price q on the side s *)
Before(s, p, q) == IF s = "SELL" THEN p < q ELSE p > q

Sorted(s, r, m, price) == \A i, j \in 1 .. m : i < j => Before(s, price[r[i]], price[r[j]])

InUse(s) == { n \in Nodes : ~is_free_[n] /\ side_[n] = s }

(* the list of the side s is r *)
IsList(s, r, m) ==
  /\ Enumerates(r, m, InUse(s))
  /\ head[s] = IF m = 0 THEN Null ELSE r[1]
  /\ Ring(r, m, next_entry_, prev_entry_)
  /\ Sorted(s, r, m, price_)

Listed == \A s \in Side : \E m \in Nat : \E r : IsList(s, r, m)

Linked == PoolInv /\ TypeOK /\ Indexed /\ Manned /\ Mirrored

IInv == Linked /\ (~headLost => Listed)

-----------------------------------------------------------------------------
(* Enumerations and rings *)

Less == { pair \in Nat \X Nat : pair[1] < pair[2] }

(* Every set of naturals has a least element: claims about the search and  *)
(* the walk are proved from the first node at which they fail.             *)
LEMMA LeastElement ==
  ASSUME NEW T \in SUBSET Nat, T # {}
  PROVE  \E n \in T : \A m \in T : n <= m
<1>1. IsWellFoundedOn(Less, Nat)
  BY NatLessThanWellFounded DEF OpToRel, Less
<1>2. PICK n \in T : \A m \in T : ~(<<m, n>> \in Less)
  BY <1>1, WFMin, Zenon
<1>3. ASSUME NEW m \in T, m < n PROVE FALSE
  <2>1. <<m, n>> \in Nat \X Nat
    OBVIOUS
  <2>2. <<m, n>>[1] < <<m, n>>[2]
    BY <1>3
  <2> QED BY <2>1, <2>2, <1>2 DEF Less
<1> QED BY <1>3

(* An enumeration of nodes is no longer than the pool. *)
LEMMA EnumerationFits ==
  ASSUME NEW m \in Nat, NEW U \in SUBSET Nodes, NEW r, Enumerates(r, m, U)
  PROVE  m <= NumElems
<1>1. r \in Injection(1 .. m, Nodes)
  BY DEF Enumerates, Injection, IsInjective
<1>2. IsFiniteSet(Nodes) /\ Cardinality(Nodes) = NumElems
  BY FS_Interval, NumElemsAssumption DEF Nodes, Blocks
<1>3. Cardinality(1 .. m) = m
  BY FS_Interval
<1> QED BY <1>1, <1>2, <1>3, FS_Injection

(* r with the node n put in at the place q *)
Inserted(r, m, q, n) ==
  [i \in 1 .. m + 1 |-> IF i < q THEN r[i] ELSE IF i = q THEN n ELSE r[i - 1]]

(* r without its place q *)
Without(r, m, q) == [i \in 1 .. m - 1 |-> IF i < q THEN r[i] ELSE r[i + 1]]

(* A new node put in anywhere is enumerated with the others. *)
LEMMA InsertedEnumerates ==
  ASSUME NEW m \in Nat, NEW U, NEW r, Enumerates(r, m, U), NEW n, n \notin U, NEW q \in 1 .. m + 1
  PROVE  Enumerates(Inserted(r, m, q, n), m + 1, U \cup {n})
<1> DEFINE r2 == Inserted(r, m, q, n)
<1>1. r \in [1 .. m -> U] /\ (\A i, j \in 1 .. m : r[i] = r[j] => i = j)
      /\ (\A x \in U : \E i \in 1 .. m : r[i] = x)
  BY DEF Enumerates
<1>2. \A i \in 1 .. m + 1 : r2[i] = IF i < q THEN r[i] ELSE IF i = q THEN n ELSE r[i - 1]
  BY DEF Inserted
<1>3. r2 \in [1 .. m + 1 -> U \cup {n}]
  BY <1>1 DEF Inserted
<1>4. ASSUME NEW i \in 1 .. m + 1, NEW j \in 1 .. m + 1, r2[i] = r2[j] PROVE i = j
  <2> HIDE DEF r2
  <2>1. \A k \in 1 .. m + 1 : k < q => k \in 1 .. m /\ r2[k] = r[k] /\ r2[k] \in U
    BY <1>1, <1>2
  <2>2. \A k \in 1 .. m + 1 : k > q => k - 1 \in 1 .. m /\ r2[k] = r[k - 1] /\ r2[k] \in U
    BY <1>1, <1>2
  <2>3. r2[q] = n
    BY <1>2
  <2> QED BY <1>1, <1>4, <2>1, <2>2, <2>3
<1>5. ASSUME NEW x \in U \cup {n} PROVE \E i \in 1 .. m + 1 : r2[i] = x
  <2> HIDE DEF r2
  <2>1. CASE x = n
    BY <2>1, <1>2
  <2>2. CASE x \in U
    <3>1. PICK i \in 1 .. m : r[i] = x
      BY <2>2, <1>1
    <3>2. CASE i < q
      BY <3>1, <3>2, <1>2
    <3>3. CASE i >= q
      <4>1. i + 1 \in 1 .. m + 1 /\ r2[i + 1] = r[i]
        BY <3>3, <1>2
      <4> QED BY <4>1, <3>1
    <3> QED BY <3>2, <3>3
  <2> QED BY <2>1, <2>2
<1> QED BY <1>3, <1>4, <1>5 DEF Enumerates

(* The others are enumerated when one is taken out. *)
LEMMA WithoutEnumerates ==
  ASSUME NEW m \in Nat, NEW U, NEW r, Enumerates(r, m, U), NEW q \in 1 .. m
  PROVE  Enumerates(Without(r, m, q), m - 1, U \ {r[q]})
<1> DEFINE r2 == Without(r, m, q)
<1>1. r \in [1 .. m -> U] /\ (\A i, j \in 1 .. m : r[i] = r[j] => i = j)
      /\ (\A x \in U : \E i \in 1 .. m : r[i] = x)
  BY DEF Enumerates
<1>2. \A i \in 1 .. m - 1 : r2[i] = IF i < q THEN r[i] ELSE r[i + 1]
  BY DEF Without
<1>3. r2 \in [1 .. m - 1 -> U \ {r[q]}]
  <2>1. ASSUME NEW i \in 1 .. m - 1 PROVE (IF i < q THEN r[i] ELSE r[i + 1]) \in U \ {r[q]}
    BY <1>1
  <2> QED BY <2>1, Zenon DEF Without
<1>4. ASSUME NEW i \in 1 .. m - 1, NEW j \in 1 .. m - 1, r2[i] = r2[j] PROVE i = j
  <2> HIDE DEF r2
  <2> QED BY <1>1, <1>2, <1>4
<1>5. ASSUME NEW x \in U \ {r[q]} PROVE \E i \in 1 .. m - 1 : r2[i] = x
  <2> HIDE DEF r2
  <2>1. PICK i \in 1 .. m : r[i] = x
    BY <1>1
  <2>2. CASE i < q
    BY <2>1, <2>2, <1>2
  <2>3. CASE i > q
    <3>1. i - 1 \in 1 .. m - 1 /\ r2[i - 1] = r[i]
      BY <2>3, <1>2
    <3> QED BY <3>1, <2>1
  <2> QED BY <2>1, <2>2, <2>3
<1> QED BY <1>3, <1>4, <1>5 DEF Enumerates

(* A level put in behind those before it and in front of the others keeps  *)
(* the order.                                                              *)
LEMMA InsertedSorted ==
  ASSUME NEW s, NEW m \in Nat, NEW r, NEW n, NEW q \in 1 .. m + 1, NEW price, NEW price2,
         Sorted(s, r, m, price),
         \A i \in 1 .. m : price2[r[i]] = price[r[i]],
         \A i \in 1 .. m : i < q => Before(s, price[r[i]], price2[n]),
         \A i \in 1 .. m : i >= q => Before(s, price2[n], price[r[i]])
  PROVE  Sorted(s, Inserted(r, m, q, n), m + 1, price2)
<1> DEFINE r2 == Inserted(r, m, q, n)
<1>1. \A i \in 1 .. m + 1 : r2[i] = IF i < q THEN r[i] ELSE IF i = q THEN n ELSE r[i - 1]
  BY DEF Inserted
<1> HIDE DEF r2
<1>2. ASSUME NEW i \in 1 .. m + 1, NEW j \in 1 .. m + 1, i < j
      PROVE  Before(s, price2[r2[i]], price2[r2[j]])
  <2>1. CASE j < q
    <3>1. i \in 1 .. m /\ j \in 1 .. m /\ r2[i] = r[i] /\ r2[j] = r[j]
      BY <2>1, <1>2, <1>1
    <3> QED BY <3>1, <1>2 DEF Sorted
  <2>2. CASE j = q
    <3>1. i \in 1 .. m /\ i < q /\ r2[i] = r[i] /\ r2[j] = n
      BY <2>2, <1>2, <1>1
    <3> QED BY <3>1
  <2>3. CASE j > q /\ i < q
    <3>1. i \in 1 .. m /\ j - 1 \in 1 .. m /\ i < j - 1 /\ r2[i] = r[i] /\ r2[j] = r[j - 1]
      BY <2>3, <1>2, <1>1
    <3> QED BY <3>1, <1>2 DEF Sorted
  <2>4. CASE j > q /\ i = q
    <3>1. j - 1 \in 1 .. m /\ j - 1 >= q /\ r2[i] = n /\ r2[j] = r[j - 1]
      BY <2>4, <1>2, <1>1
    <3> QED BY <3>1
  <2>5. CASE i > q
    <3>1. i - 1 \in 1 .. m /\ j - 1 \in 1 .. m /\ i - 1 < j - 1 /\ r2[i] = r[i - 1] /\ r2[j] = r[j - 1]
      BY <2>5, <1>2, <1>1
    <3> QED BY <3>1, <1>2 DEF Sorted
  <2> QED BY <2>1, <2>2, <2>3, <2>4, <2>5
<1> QED BY <1>2 DEF Sorted, r2

(* Taking a level out keeps the order. *)
LEMMA WithoutSorted ==
  ASSUME NEW s, NEW m \in Nat, NEW r, NEW q \in 1 .. m, NEW price, Sorted(s, r, m, price)
  PROVE  Sorted(s, Without(r, m, q), m - 1, price)
<1> DEFINE r2 == Without(r, m, q)
<1>1. \A i \in 1 .. m - 1 : r2[i] = IF i < q THEN r[i] ELSE r[i + 1]
  BY DEF Without
<1> HIDE DEF r2
<1>2. ASSUME NEW i \in 1 .. m - 1, NEW j \in 1 .. m - 1, i < j
      PROVE  Before(s, price[r2[i]], price[r2[j]])
  <2>1. PICK a \in 1 .. m : r2[i] = r[a] /\ a = IF i < q THEN i ELSE i + 1
    BY <1>1
  <2>2. PICK b \in 1 .. m : r2[j] = r[b] /\ b = IF j < q THEN j ELSE j + 1
    BY <1>1
  <2>3. a < b
    BY <2>1, <2>2, <1>2
  <2> QED BY <2>1, <2>2, <2>3 DEF Sorted
<1> QED BY <1>2 DEF Sorted, r2

(* The two assignments to each kind of link put n between a and b, whose   *)
(* places in the ring are next to each other.                              *)
LEMMA InsertedRing ==
  ASSUME NEW m \in Nat \ {0}, NEW U \in SUBSET Nodes, NEW r, Enumerates(r, m, U),
         NEW n \in Nodes, n \notin U, NEW q \in 1 .. m + 1,
         NEW next \in [Nodes -> Links], NEW prev \in [Nodes -> Links], Ring(r, m, next, prev)
  PROVE  LET a == r[IF q = 1 THEN m ELSE q - 1]
             b == r[IF q = m + 1 THEN 1 ELSE q]
         IN  Ring(Inserted(r, m, q, n), m + 1,
                  [next EXCEPT ![n] = b, ![a] = n], [prev EXCEPT ![n] = a, ![b] = n])
<1> DEFINE ia == IF q = 1 THEN m ELSE q - 1
           ib == IF q = m + 1 THEN 1 ELSE q
           a == r[ia]
           b == r[ib]
           next2 == [next EXCEPT ![n] = b, ![a] = n]
           prev2 == [prev EXCEPT ![n] = a, ![b] = n]
           r2 == Inserted(r, m, q, n)
<1>1. r \in [1 .. m -> U] /\ (\A i, j \in 1 .. m : r[i] = r[j] => i = j)
  BY DEF Enumerates
<1>2. \A i \in 1 .. m + 1 : r2[i] = IF i < q THEN r[i] ELSE IF i = q THEN n ELSE r[i - 1]
  BY DEF Inserted
<1>3. ia \in 1 .. m /\ ib \in 1 .. m /\ ib = Following(m, ia)
  BY DEF Following
<1>4. a \in Nodes /\ b \in Nodes /\ a # n /\ b # n
  BY <1>1, <1>3
<1>5. \A x \in Nodes : next2[x] = IF x = a THEN n ELSE IF x = n THEN b ELSE next[x]
  BY <1>4
<1>6. \A x \in Nodes : prev2[x] = IF x = b THEN n ELSE IF x = n THEN a ELSE prev[x]
  BY <1>4
<1>7. \A i \in 1 .. m : r[i] \in Nodes /\ r[i] # n
  BY <1>1
<1>8. \A i \in 1 .. m : /\ Following(m, i) \in 1 .. m
                        /\ next[r[i]] = r[Following(m, i)] /\ prev[r[Following(m, i)]] = r[i]
  BY DEF Ring, Following
<1> HIDE DEF next2, prev2, r2, a, b
<1>9. ASSUME NEW i \in 1 .. m + 1
      PROVE  next2[r2[i]] = r2[Following(m + 1, i)] /\ prev2[r2[Following(m + 1, i)]] = r2[i]
  <2>1. CASE i = q
    <3>1. Following(m + 1, i) \in 1 .. m + 1 /\ r2[i] = n /\ r2[Following(m + 1, i)] = b
      BY <2>1, <1>2 DEF Following, b
    <3> QED BY <3>1, <1>4, <1>5, <1>6
  <2>2. CASE Following(m + 1, i) = q
    <3>1. r2[i] = a /\ r2[q] = n
      BY <2>2, <1>2 DEF Following, a
    <3> QED BY <2>2, <3>1, <1>4, <1>5, <1>6
  <2>3. CASE i # q /\ Following(m + 1, i) # q
    <3>1. PICK k \in 1 .. m : k = IF i < q THEN i ELSE i - 1
      BY <2>3
    <3>2. k # ia /\ r2[i] = r[k] /\ r2[Following(m + 1, i)] = r[Following(m, k)]
      BY <2>3, <3>1, <1>2 DEF Following
    <3>3. Following(m, k) # ib
      BY <3>2, <1>3 DEF Following
    <3>4. r[k] # a /\ r[Following(m, k)] # b
      BY <3>2, <3>3, <1>1, <1>3, <1>8 DEF a, b
    <3>5. next2[r[k]] = next[r[k]] /\ prev2[r[Following(m, k)]] = prev[r[Following(m, k)]]
      BY <3>4, <1>5, <1>6, <1>7, <1>8
    <3> QED BY <3>2, <3>5, <1>8
  <2> QED BY <2>1, <2>2, <2>3
<1> QED BY <1>9 DEF Ring, next2, prev2, r2, a, b

(* The two assignments to each kind of link close the ring behind the node *)
(* that is taken out.                                                      *)
LEMMA WithoutRing ==
  ASSUME NEW m \in Nat, m > 1, NEW U \in SUBSET Nodes, NEW r, Enumerates(r, m, U), NEW q \in 1 .. m,
         NEW next \in [Nodes -> Links], NEW prev \in [Nodes -> Links], Ring(r, m, next, prev)
  PROVE  LET n == r[q]
             a == prev[n]
             b == next[n]
         IN  Ring(Without(r, m, q), m - 1,
                  [next EXCEPT ![a] = b, ![n] = Null], [prev EXCEPT ![b] = a, ![n] = Null])
<1> DEFINE ia == IF q = 1 THEN m ELSE q - 1
           ib == IF q = m THEN 1 ELSE q + 1
           n == r[q]
           a == prev[n]
           b == next[n]
           next2 == [next EXCEPT ![a] = b, ![n] = Null]
           prev2 == [prev EXCEPT ![b] = a, ![n] = Null]
           r2 == Without(r, m, q)
<1>1. r \in [1 .. m -> U] /\ (\A i, j \in 1 .. m : r[i] = r[j] => i = j)
  BY DEF Enumerates
<1>2. \A i \in 1 .. m - 1 : r2[i] = IF i < q THEN r[i] ELSE r[i + 1]
  BY DEF Without
<1>3. ia \in 1 .. m /\ ib \in 1 .. m /\ ia # q /\ ib # q /\ Following(m, ia) = q /\ Following(m, q) = ib
  BY DEF Following
<1>4. \A i \in 1 .. m : /\ Following(m, i) \in 1 .. m
                        /\ next[r[i]] = r[Following(m, i)] /\ prev[r[Following(m, i)]] = r[i]
  BY DEF Ring, Following
<1>5. a = r[ia] /\ b = r[ib]
  BY <1>3, <1>4
<1>6. \A i \in 1 .. m : r[i] \in Nodes
  BY <1>1
<1>7. a \in Nodes /\ b \in Nodes /\ n \in Nodes /\ a # n /\ b # n
  BY <1>5, <1>6, <1>3, <1>1
<1>8. \A x \in Nodes : x # n => next2[x] = IF x = a THEN b ELSE next[x]
  BY <1>7
<1>9. \A x \in Nodes : x # n => prev2[x] = IF x = b THEN a ELSE prev[x]
  BY <1>7
<1> HIDE DEF next2, prev2, r2, a, b, n
<1>10. ASSUME NEW i \in 1 .. m - 1
       PROVE  next2[r2[i]] = r2[Following(m - 1, i)] /\ prev2[r2[Following(m - 1, i)]] = r2[i]
  <2>1. PICK k \in 1 .. m : k = IF i < q THEN i ELSE i + 1
    OBVIOUS
  <2>2. k # q /\ r2[i] = r[k] /\ r[k] # n
    BY <2>1, <1>1, <1>2 DEF n
  <2>3. CASE k = ia
    <3>1. r2[Following(m - 1, i)] = b
      BY <2>1, <2>3, <1>2, <1>5 DEF Following
    <3> QED BY <2>2, <2>3, <3>1, <1>5, <1>7, <1>8, <1>9
  <2>4. CASE k # ia
    <3>1. r2[Following(m - 1, i)] = r[Following(m, k)] /\ Following(m, k) # q /\ Following(m, k) # ib
      BY <2>1, <2>2, <2>4, <1>2 DEF Following
    <3>2. r[k] # a /\ r[Following(m, k)] # b /\ r[Following(m, k)] # n
      BY <3>1, <2>4, <1>1, <1>3, <1>4, <1>5 DEF n
    <3>3. next2[r[k]] = next[r[k]] /\ prev2[r[Following(m, k)]] = prev[r[Following(m, k)]]
      BY <2>2, <3>2, <1>4, <1>6, <1>8, <1>9
    <3> QED BY <2>2, <3>1, <3>3, <1>4
  <2> QED BY <2>3, <2>4
<1> QED BY <1>10 DEF Ring, next2, prev2, r2, a, b, n

(* A ring is left alone by what happens to the links of other nodes. *)
LEMMA RingApart ==
  ASSUME NEW m \in Nat, NEW r, NEW next, NEW prev, NEW next2, NEW prev2, Ring(r, m, next, prev),
         \A i \in 1 .. m : next2[r[i]] = next[r[i]] /\ prev2[r[i]] = prev[r[i]]
  PROVE  Ring(r, m, next2, prev2)
BY DEF Ring, Following

-----------------------------------------------------------------------------
(* The search and the walk *)

(* The levels in front of which p does not belong come first. *)
LEMMA PlaceExists ==
  ASSUME NEW s \in Side, NEW p \in Nat, NEW m \in Nat, NEW r \in [1 .. m -> Nodes], TypeOK,
         Sorted(s, r, m, price_), \A i \in 1 .. m : price_[r[i]] # p
  PROVE  \E j \in 0 .. m : \A i \in 1 .. m :
           /\ i <= j => Before(s, price_[r[i]], p) /\ Worse(s, p, r[i]) /\ ~Better(s, p, r[i])
           /\ i > j => Before(s, p, price_[r[i]]) /\ ~Worse(s, p, r[i]) /\ Better(s, p, r[i])
<1> DEFINE T == {i \in 1 .. m + 1 : i = m + 1 \/ ~Worse(s, p, r[i])}
<1>1. T \in SUBSET Nat /\ T # {}
  OBVIOUS
<1>2. PICK t \in T : \A i \in T : t <= i
  BY <1>1, LeastElement
<1>3. \A i \in 1 .. m : price_[r[i]] \in Nat /\ price_[r[i]] # p
  BY DEF TypeOK
<1>4. ASSUME NEW i \in 1 .. m, i <= t - 1
      PROVE  Before(s, price_[r[i]], p) /\ Worse(s, p, r[i]) /\ ~Better(s, p, r[i])
  <2>1. i \notin T
    BY <1>2, <1>4
  <2>2. Worse(s, p, r[i])
    BY <2>1
  <2> QED BY <2>2, <1>3 DEF Worse, Better, Before
<1>5. ASSUME NEW i \in 1 .. m, i > t - 1
      PROVE  Before(s, p, price_[r[i]]) /\ ~Worse(s, p, r[i]) /\ Better(s, p, r[i])
  <2>1. t \in 1 .. m /\ ~Worse(s, p, r[t])
    BY <1>2, <1>5
  <2>2. t = i \/ Before(s, price_[r[t]], price_[r[i]])
    BY <2>1, <1>5 DEF Sorted
  <2> QED BY <2>1, <2>2, <1>3 DEF Worse, Better, Before
<1>6. t - 1 \in 0 .. m
  BY <1>2
<1> QED BY <1>4, <1>5, <1>6

(* what iteration i of the search holds when it is over: the first node    *)
(* behind the place j, or the head again                                   *)
Reached(r, m, j, k) ==
  LET t == IF k + 2 <= j + 1 THEN k + 2 ELSE j + 1 IN
  [target |-> r[IF t = m + 1 THEN 1 ELSE t], add_after |-> t <= j \/ j = m \/ (k >= 1 /\ k = j - 1)]

(* a list with the place for the price p behind its place j *)
HasPlace(s, p, r, m, j) ==
  /\ r \in [1 .. m -> Nodes]
  /\ \A i, k \in 1 .. m : r[i] = r[k] => i = k
  /\ head[s] = r[1]
  /\ Ring(r, m, next_entry_, prev_entry_)
  /\ \A i \in 1 .. m : Worse(s, p, r[i]) <=> i <= j

(* The loop of addOrdersAtPrice ends, within as many iterations as there   *)
(* are blocks, at the first level behind the new one, or, with add_after,  *)
(* at the head when there is none.                                         *)
LEMMA SearchEnds ==
  ASSUME NEW m \in Nat \ {0}, m <= NumElems, NEW j \in 0 .. m, NEW s, NEW p, NEW r,
         HasPlace(s, p, r, m, j)
  PROVE  search(s, p).target = r[IF j = m THEN 1 ELSE j + 1] /\ (search(s, p).add_after <=> j = m)
<1> DEFINE best == head[s]
           first == Worse(s, p, best)
           second == next_entry_[best]
           start == IF first THEN [target |-> second, add_after |-> Worse(s, p, second)]
                             ELSE [target |-> best, add_after |-> FALSE]
           iterate(w) ==
             IF ~w.add_after \/ w.target = best THEN w
             ELSE [target |-> IF Worse(s, p, w.target) THEN next_entry_[w.target] ELSE w.target,
                   add_after |-> Worse(s, p, w.target)]
           F(g) == [k \in 0 .. NumElems |-> IF k = 0 THEN start ELSE iterate(g[k - 1])]
           it == CHOOSE g : g = F(g)
           last == [target |-> r[IF j = m THEN 1 ELSE j + 1], add_after |-> (j = m)]
           G(k) == IF j = 0 THEN last ELSE Reached(r, m, j, k)
           gs == [k \in 0 .. NumElems |-> G(k)]
<1>0. /\ r \in [1 .. m -> Nodes]
      /\ \A i, k \in 1 .. m : r[i] = r[k] => i = k
      /\ head[s] = r[1]
      /\ Ring(r, m, next_entry_, prev_entry_)
      /\ \A i \in 1 .. m : Worse(s, p, r[i]) <=> i <= j
  BY DEF HasPlace
<1> USE <1>0
<1>1. NumElems \in Nat \ {0}
  BY NumElemsAssumption
<1>2. \A i \in 1 .. m : Following(m, i) \in 1 .. m /\ next_entry_[r[i]] = r[Following(m, i)]
  BY DEF Ring, Following
<1>3. start = G(0)
  <2>1. CASE j = 0
    <3>1. ~first /\ best = r[1]
      BY <2>1
    <3>2. start = [target |-> r[1], add_after |-> FALSE]
      BY <3>1
    <3>3. last = [target |-> r[1], add_after |-> FALSE]
      <4>1. (j = m) = FALSE /\ (IF j = m THEN 1 ELSE j + 1) = 1
        BY <2>1
      <4> QED BY <4>1, Zenon
    <3> QED BY <2>1, <3>2, <3>3
  <2>2. CASE j > 0
    <3>1. first /\ second = r[Following(m, 1)] /\ (Worse(s, p, second) <=> Following(m, 1) <= j)
      BY <2>2, <1>2
    <3>2. PICK x : x = r[Following(m, 1)]
      OBVIOUS
    <3>2a. PICK add \in BOOLEAN : add <=> Following(m, 1) <= j
      OBVIOUS
    <3>3. start = [target |-> x, add_after |-> add]
      <4>1. Worse(s, p, second) = add
        BY <3>1, <3>2a DEF Worse
      <4> QED BY <4>1, <3>1, <3>2
    <3>4. Reached(r, m, j, 0) = [target |-> x, add_after |-> add]
      BY <3>2, <3>2a, <2>2 DEF Reached, Following
    <3> QED BY <3>3, <3>4, <2>2
  <2> QED BY <2>1, <2>2
<1>4. ASSUME NEW k \in 1 .. NumElems PROVE iterate(G(k - 1)) = G(k)
  <2>1. CASE j = 0
    BY <2>1
  <2>2. CASE j > 0
    <3>1. PICK t \in 2 .. m + 1 : t = IF k + 1 <= j + 1 THEN k + 1 ELSE j + 1
      BY <2>2
    <3>2. PICK add \in BOOLEAN : add <=> (t <= j \/ j = m \/ (k - 1 >= 1 /\ k - 1 = j - 1))
      OBVIOUS
    <3>3. PICK target : target = r[IF t = m + 1 THEN 1 ELSE t]
      OBVIOUS
    <3>4. G(k - 1) = [target |-> target, add_after |-> add]
      BY <2>2, <3>1, <3>2, <3>3 DEF Reached
    <3>5. CASE ~add \/ target = best
      <4>1. iterate(G(k - 1)) = G(k - 1)
        <5> HIDE DEF G
        <5> QED BY <3>4, <3>5
      <4>2. t = j + 1 /\ k >= j
        <5>1. CASE ~add
          BY <5>1, <3>1, <3>2
        <5>2. CASE target = best
          <6>1. ASSUME t <= m PROVE FALSE
            <7>1. r[t] = r[1] /\ t \in 1 .. m /\ 1 \in 1 .. m
              BY <6>1, <5>2, <3>1, <3>3
            <7> QED BY <7>1, <3>1
          <6>2. t = m + 1
            BY <6>1, <3>1
          <6> QED BY <6>2, <3>1
        <5> QED BY <5>1, <5>2, <3>5
      <4>3. add <=> j = m
        BY <3>2, <3>5, <3>3, <4>2
      <4> QED BY <2>2, <4>1, <4>2, <4>3, <3>2, <3>3, <3>4 DEF Reached
    <3>6. CASE add /\ target # best
      <4>0. t # m + 1
        BY <3>3, <3>6
      <4>1. t \in 2 .. m /\ target = r[t] /\ (Worse(s, p, target) <=> t <= j)
            /\ next_entry_[target] = r[Following(m, t)]
        <5>1. t \in 2 .. m /\ t \in 1 .. m /\ target = r[t]
          BY <4>0, <3>1, <3>3
        <5> QED BY <5>1, <1>2
      <4>2. iterate(G(k - 1)) = [target |-> IF t <= j THEN r[Following(m, t)] ELSE r[t], add_after |-> t <= j]
        <5>0. PICK w : w = G(k - 1) /\ w.add_after = TRUE /\ w.target = target
          BY <3>4, <3>6
        <5> HIDE DEF G
        <5>1. CASE t <= j
          <6>1. Worse(s, p, target) = TRUE /\ (t <= j) = TRUE
            BY <5>1, <4>1 DEF Worse
          <6>2. iterate(G(k - 1)) = [target |-> r[Following(m, t)], add_after |-> TRUE]
            BY <5>0, <6>1, <4>1, <3>6, Zenon
          <6> QED BY <6>1, <6>2
        <5>2. CASE ~(t <= j)
          <6>1. Worse(s, p, target) = FALSE /\ (t <= j) = FALSE
            BY <5>2, <4>1 DEF Worse
          <6>2. iterate(G(k - 1)) = [target |-> r[t], add_after |-> FALSE]
            BY <5>0, <6>1, <4>1, <3>6, Zenon
          <6> QED BY <6>1, <6>2
        <5> QED BY <5>1, <5>2
      <4>3. CASE t <= j
        BY <4>1, <4>2, <4>3, <3>1, <2>2 DEF Reached, Following
      <4>4. CASE t > j
        BY <4>1, <4>2, <4>4, <3>1, <2>2 DEF Reached, Following
      <4> QED BY <4>3, <4>4, <4>1
    <3> QED BY <3>5, <3>6
  <2> QED BY <2>1, <2>2
<1> HIDE DEF start, iterate, G
<1>5. gs = F(gs)
  <2>1. ASSUME NEW k \in 0 .. NumElems PROVE G(k) = IF k = 0 THEN start ELSE iterate(gs[k - 1])
    <3>1. CASE k = 0
      BY <3>1, <1>3
    <3>2. CASE k # 0
      <4>1. k \in 1 .. NumElems /\ k - 1 \in 0 .. NumElems
        BY <3>2, <1>1
      <4>2. gs[k - 1] = G(k - 1)
        BY <4>1
      <4> QED BY <3>2, <4>1, <4>2, <1>4
    <3> QED BY <3>1, <3>2
  <2> QED BY <2>1
<1>6. it = F(it)
  <2> HIDE DEF F, gs
  <2> QED BY <1>5
<1>7. search(s, p) = it[NumElems]
  BY DEF search, start, iterate
<1>8. it[0] = start /\ \A k \in 1 .. NumElems : it[k] = iterate(it[k - 1])
  <2> HIDE DEF it
  <2>1. \A k \in 0 .. NumElems : it[k] = IF k = 0 THEN start ELSE iterate(it[k - 1])
    BY <1>6, Zenon
  <2> QED BY <2>1, <1>1
<1> DEFINE T == {k \in 0 .. NumElems : it[k] # G(k)}
<1> HIDE DEF it
<1>9. ASSUME T # {} PROVE FALSE
  <2>1. T \in SUBSET Nat
    OBVIOUS
  <2>2. PICK k \in T : \A i \in T : k <= i
    BY <2>1, <1>9, LeastElement
  <2>3. k # 0
    BY <1>8, <1>3
  <2>4. k - 1 \in 0 .. NumElems /\ k - 1 \notin T
    BY <2>2, <2>3, <1>1
  <2>5. k \in 1 .. NumElems /\ it[k - 1] = G(k - 1)
    BY <2>3, <2>4
  <2> QED BY <2>5, <1>8, <1>4
<1>10. it[NumElems] = G(NumElems)
  BY <1>9, <1>1
<1>11. G(NumElems) = last
  BY <1>1 DEF G, Reached
<1>12. search(s, p) = last
  BY <1>7, <1>10, <1>11
<1>13. PICK add \in BOOLEAN : add <=> j = m
  OBVIOUS
<1>14. last = [target |-> r[IF j = m THEN 1 ELSE j + 1], add_after |-> add]
  <2>1. (j = m) = add
    BY <1>13
  <2> QED BY <2>1
<1> HIDE DEF last
<1> QED BY <1>12, <1>13, <1>14

(* the nodes met on the first n steps from x along f *)
Path(u, x, f, n) == u = [i \in 0 .. n |-> IF i = 0 THEN x ELSE f[u[i - 1]]]

(* A path can be followed for any number of steps. *)
LEMMA PathExists ==
  ASSUME NEW x, NEW f, NEW n \in Nat
  PROVE  \E u : Path(u, x, f, n)
<1> DEFINE T == {k \in Nat : ~ \E u : Path(u, x, f, k)}
<1> SUFFICES ASSUME T # {} PROVE FALSE
  OBVIOUS
<1>1. PICK k \in T : \A m \in T : k <= m
  BY LeastElement
<1>2. CASE k = 0
  <2>1. Path([i \in 0 .. 0 |-> x], x, f, 0)
    BY DEF Path
  <2> QED BY <2>1, <1>1, <1>2
<1>3. CASE k # 0
  <2>1. k - 1 \in Nat /\ k - 1 \notin T
    BY <1>1, <1>3
  <2>2. PICK u : Path(u, x, f, k - 1)
    BY <2>1
  <2>3. \A i \in 0 .. k - 1 : u[i] = IF i = 0 THEN x ELSE f[u[i - 1]]
    BY <2>2, Zenon DEF Path
  <2> DEFINE v == [i \in 0 .. k |-> IF i = k THEN f[u[k - 1]] ELSE u[i]]
  <2>4. ASSUME NEW i \in 0 .. k PROVE v[i] = IF i = 0 THEN x ELSE f[v[i - 1]]
    <3>1. CASE i = k
      <4>1. k - 1 \in 0 .. k /\ k - 1 # k
        BY <1>3
      <4>2. v[k] = f[u[k - 1]] /\ v[k - 1] = u[k - 1]
        BY <4>1
      <4> QED BY <4>2, <3>1, <1>3
    <3>2. CASE i # k
      <4>1. i \in 0 .. k - 1 /\ v[i] = u[i]
        BY <3>2
      <4>2. i # 0 => v[i - 1] = u[i - 1]
        BY <4>1
      <4> QED BY <4>1, <4>2, <2>3
    <3> QED BY <3>1, <3>2
  <2>5. v = [i \in 0 .. k |-> v[i]]
    OBVIOUS
  <2>6. Path(v, x, f, k)
    <3> HIDE DEF v
    <3> QED BY <2>4, <2>5 DEF Path
  <2> QED BY <2>6, <1>1
<1> QED BY <1>2, <1>3

(* Following next_entry_ from the head meets the list, once around. *)
LEMMA WalkIsList ==
  ASSUME NEW s \in Side, NEW m \in Nat, NEW r, IsList(s, r, m), m <= NumElems
  PROVE  walk(s) = r
<1> DEFINE F(g) == [k \in 0 .. NumElems |-> IF k = 0 THEN head[s] ELSE next_entry_[g[k - 1]]]
           node == CHOOSE g : g = F(g)
           Around(k) == /\ node[k] = head[s]
                        /\ \A j \in 1 .. k - 1 : node[j] # head[s]
           length == IF head[s] = Null THEN 0 ELSE CHOOSE k \in 1 .. NumElems : Around(k)
<1>1. NumElems \in Nat
  BY NumElemsAssumption
<1>2. /\ r \in [1 .. m -> InUse(s)]
      /\ \A i, j \in 1 .. m : r[i] = r[j] => i = j
      /\ head[s] = IF m = 0 THEN Null ELSE r[1]
      /\ \A i \in 1 .. m : next_entry_[r[i]] = r[Following(m, i)]
  BY DEF IsList, Enumerates, Ring
<1>3. walk(s) = [k \in 1 .. length |-> node[k - 1]]
  BY DEF walk
<1>4. PICK u : Path(u, head[s], next_entry_, NumElems)
  BY <1>1, PathExists
<1>5. u = F(u)
  BY <1>4 DEF Path
<1>6. node = F(node)
  <2> HIDE DEF F
  <2> QED BY <1>5
<1> HIDE DEF node
<1>7. \A k \in 0 .. NumElems : node[k] = IF k = 0 THEN head[s] ELSE next_entry_[node[k - 1]]
  BY <1>6, Zenon
<1>8. CASE m = 0
  <2>1. length = 0
    BY <1>2, <1>8
  <2>2. walk(s) = [k \in 1 .. 0 |-> node[k - 1]]
    BY <1>3, <2>1
  <2> QED BY <2>2, <1>2, <1>8
<1>9. CASE m # 0
  <2>1. head[s] = r[1] /\ head[s] # Null
    BY <1>2, <1>9, NullAssumption DEF InUse
  <2> DEFINE T == {k \in 0 .. m : node[k] # r[IF k = m THEN 1 ELSE k + 1]}
  <2>2. ASSUME T # {} PROVE FALSE
    <3>1. T \in SUBSET Nat
      OBVIOUS
    <3>2. PICK k \in T : \A i \in T : k <= i
      BY <3>1, <2>2, LeastElement
    <3>3. k # 0
      BY <1>7, <1>9, <1>1, <2>1
    <3>4. k - 1 \in 0 .. m /\ k - 1 \notin T
      BY <3>2, <3>3
    <3>5. k \in 1 .. m /\ k \in 0 .. NumElems /\ node[k - 1] = r[k]
      BY <3>3, <3>4, <1>1
    <3>6. node[k] = r[Following(m, k)]
      BY <3>5, <1>2, <1>7
    <3> QED BY <3>6 DEF Following
  <2>3. \A k \in 0 .. m : node[k] = r[IF k = m THEN 1 ELSE k + 1]
    BY <2>2
  <2>4. m \in 1 .. NumElems /\ Around(m)
    <3>1. ASSUME NEW j \in 1 .. m - 1 PROVE node[j] # head[s]
      <4>1. node[j] = r[j + 1] /\ j + 1 \in 1 .. m
        BY <2>3
      <4> QED BY <4>1, <1>2, <2>1, <1>9
    <3>2. node[m] = r[1]
      BY <2>3
    <3> QED BY <3>1, <3>2, <2>1, <1>1, <1>9
  <2>5. ASSUME NEW k \in 1 .. NumElems, Around(k) PROVE k = m
    <3>1. CASE k < m
      <4>1. node[k] = r[k + 1] /\ k + 1 \in 1 .. m
        BY <2>3, <3>1
      <4>2. r[k + 1] = r[1] /\ 1 \in 1 .. m
        BY <4>1, <2>1, <1>9, <2>5
      <4> QED BY <4>1, <4>2, <1>2
    <3>2. CASE k > m
      <4>1. m \in 1 .. k - 1
        BY <3>2, <1>9
      <4>2. node[m] = head[s]
        BY <2>4
      <4> QED BY <4>1, <4>2, <2>5
    <3> QED BY <3>1, <3>2
  <2>6. (CHOOSE k \in 1 .. NumElems : Around(k)) = m
    <3> HIDE DEF Around
    <3> QED BY <2>4, <2>5
  <2>7. length = m
    BY <2>6, <2>1
  <2>8. walk(s) = [k \in 1 .. m |-> node[k - 1]]
    BY <2>7, <1>3
  <2>9. \A k \in 1 .. m : node[k - 1] = r[k]
    BY <2>3
  <2> QED BY <2>8, <2>9, <1>2
<1> QED BY <1>8, <1>9

(* Whatever the ring behind the head, the search stays on it, and does not *)
(* leave a head that the new level overtakes.                              *)
LEMMA SearchStays ==
  ASSUME NEW s \in Side, NEW p \in Prices, TypeOK, Mirrored,
         head[s] \in Nodes, ~is_free_[head[s]]
  PROVE  /\ search(s, p).target \in Nodes
         /\ ~is_free_[search(s, p).target]
         /\ Better(s, p, head[s]) => search(s, p).target = head[s] /\ ~search(s, p).add_after
<1> DEFINE best == head[s]
           first == Worse(s, p, best)
           second == next_entry_[best]
           start == IF first THEN [target |-> second, add_after |-> Worse(s, p, second)]
                             ELSE [target |-> best, add_after |-> FALSE]
           iterate(w) ==
             IF ~w.add_after \/ w.target = best THEN w
             ELSE [target |-> IF Worse(s, p, w.target) THEN next_entry_[w.target] ELSE w.target,
                   add_after |-> Worse(s, p, w.target)]
           F(g) == [k \in 0 .. NumElems |-> IF k = 0 THEN start ELSE iterate(g[k - 1])]
           it == CHOOSE g : g = F(g)
           W == [target : {n \in Nodes : ~is_free_[n]}, add_after : BOOLEAN]
           Stays == {w \in W : Better(s, p, best) => w.target = best /\ ~w.add_after}
           f == [w \in Stays |-> iterate(w)]
<1>1. NumElems \in Nat
  BY NumElemsAssumption
<1>2. \A n \in Nodes : ~is_free_[n] => next_entry_[n] \in Nodes /\ ~is_free_[next_entry_[n]]
  BY DEF Mirrored
<1>3. Better(s, p, best) => ~first
  <2>1. price_[best] \in Nat /\ p \in Nat
    BY PricesAssumption DEF TypeOK
  <2> QED BY <2>1 DEF Better, Worse
<1>4. \A n \in Nodes : Worse(s, p, n) \in BOOLEAN
  <2>1. p \in Nat /\ price_ \in [Nodes -> Nat]
    BY PricesAssumption DEF TypeOK
  <2>2. CASE s = "SELL"
    BY <2>1, <2>2 DEF Worse
  <2>3. CASE s # "SELL"
    BY <2>1, <2>3 DEF Worse
  <2> QED BY <2>2, <2>3
<1>5. start \in Stays
  <2>1. CASE first
    BY <2>1, <1>2, <1>3, <1>4
  <2>2. CASE ~first
    BY <2>2
  <2> QED BY <2>1, <2>2
<1>6. ASSUME NEW w \in Stays PROVE iterate(w) \in Stays
  <2>1. w \in W /\ (Better(s, p, best) => w.target = best /\ ~w.add_after)
    OBVIOUS
  <2>2. CASE ~w.add_after \/ w.target = best
    BY <2>2
  <2>3. CASE ~(~w.add_after \/ w.target = best)
    <3>1. ~Better(s, p, best)
      BY <2>1, <2>3
    <3>2. w.target \in Nodes /\ ~is_free_[w.target]
      BY <2>1
    <3>3. iterate(w) = [target |-> IF Worse(s, p, w.target) THEN next_entry_[w.target] ELSE w.target,
                        add_after |-> Worse(s, p, w.target)]
      BY <2>3
    <3>4. iterate(w) \in W
      BY <3>2, <3>3, <1>2, <1>4
    <3> QED BY <3>1, <3>4
  <2> QED BY <2>2, <2>3
<1> HIDE DEF start, iterate, W, Stays
<1>7. PICK u : Path(u, start, f, NumElems)
  BY <1>1, PathExists
<1>8. \A k \in 0 .. NumElems : u[k] = IF k = 0 THEN start ELSE f[u[k - 1]]
  BY <1>7, Zenon DEF Path
<1> DEFINE T == {k \in 0 .. NumElems : u[k] \notin Stays}
<1>9. ASSUME T # {} PROVE FALSE
  <2>1. T \in SUBSET Nat
    OBVIOUS
  <2>2. PICK k \in T : \A i \in T : k <= i
    BY <2>1, <1>9, LeastElement
  <2>3. k # 0
    BY <1>8, <1>5, <1>1
  <2>4. k - 1 \in 0 .. NumElems /\ k - 1 \notin T
    BY <1>1, <2>2, <2>3
  <2>5. u[k - 1] \in Stays /\ u[k] = f[u[k - 1]]
    BY <2>3, <2>4, <1>8
  <2> QED BY <2>5, <1>6
<1>10. \A k \in 0 .. NumElems : u[k] \in Stays
  BY <1>9
<1>11. u = F(u)
  <2>1. ASSUME NEW k \in 0 .. NumElems
        PROVE  (IF k = 0 THEN start ELSE f[u[k - 1]]) = (IF k = 0 THEN start ELSE iterate(u[k - 1]))
    <3>1. CASE k = 0
      BY <3>1
    <3>2. CASE k # 0
      <4>1. u[k - 1] \in Stays
        BY <1>1, <3>2, <1>10
      <4> QED BY <4>1
    <3> QED BY <3>1, <3>2
  <2>2. u = [k \in 0 .. NumElems |-> IF k = 0 THEN start ELSE f[u[k - 1]]]
    BY <1>7 DEF Path
  <2> HIDE DEF f
  <2> QED BY <2>1, <2>2
<1>12. it = F(it)
  <2> HIDE DEF F
  <2> QED BY <1>11
<1>13. search(s, p) = it[NumElems]
  BY DEF search, start, iterate
<1>14. \A k \in 0 .. NumElems : it[k] = IF k = 0 THEN start ELSE iterate(it[k - 1])
  <2> HIDE DEF it
  <2> QED BY <1>12, Zenon
<1> DEFINE T2 == {k \in 0 .. NumElems : it[k] \notin Stays}
<1> HIDE DEF it
<1>15. ASSUME T2 # {} PROVE FALSE
  <2>1. T2 \in SUBSET Nat
    OBVIOUS
  <2>2. PICK k \in T2 : \A i \in T2 : k <= i
    BY <2>1, <1>15, LeastElement
  <2>3. k # 0
    BY <1>14, <1>5, <1>1
  <2>4. k - 1 \in 0 .. NumElems /\ k - 1 \notin T2
    BY <1>1, <2>2, <2>3
  <2>5. it[k - 1] \in Stays /\ it[k] = iterate(it[k - 1])
    BY <2>3, <2>4, <1>14
  <2> QED BY <2>5, <1>6
<1>16. search(s, p) \in Stays
  BY <1>13, <1>15, <1>1
<1> QED BY <1>16 DEF Stays, W

-----------------------------------------------------------------------------
(* Adding a level *)

(* The links of n are set between a and b, at the place q of the list. *)
LinkedAt(s, n, r, m, q, a, b) ==
  /\ head' = [head EXCEPT ![s] = IF q = 1 THEN n ELSE @]
  /\ next_entry_' = [next_entry_ EXCEPT ![n] = b, ![a] = n]
  /\ prev_entry_' = [prev_entry_ EXCEPT ![n] = a, ![b] = n]
  /\ m = 0 => a = n /\ b = n
  /\ m # 0 => a = r[IF q = 1 THEN m ELSE q - 1] /\ b = r[IF q = m + 1 THEN 1 ELSE q]

Placed(s, p, n, r, m) ==
  \E q \in 1 .. m + 1 : \E a, b \in Nodes :
    /\ \A i \in 1 .. m : i < q => Before(s, price_[r[i]], p)
    /\ \A i \in 1 .. m : i >= q => Before(s, p, price_[r[i]])
    /\ LinkedAt(s, n, r, m, q, a, b)

(* Whichever of its ways addOrdersAtPrice takes, the new level is linked   *)
(* behind the better ones.  The second assignment to the next_entry_ of a  *)
(* head that is overtaken changes nothing.                                 *)
LEMMA LinksPlaced ==
  ASSUME NEW s \in Side, NEW p \in Prices, NEW m \in Nat, NEW r, IsList(s, r, m), TypeOK,
         is_free_[next_free_index_], next_free_index_ \in Nodes,
         \A i \in 1 .. m : price_[r[i]] # p,
         addOrdersAtPrice(s, p)
  PROVE  Placed(s, p, next_free_index_, r, m)
<1>0. PICK n \in Nodes : n = next_free_index_
  OBVIOUS
<1>1. /\ r \in [1 .. m -> InUse(s)]
      /\ \A i, j \in 1 .. m : r[i] = r[j] => i = j
      /\ head[s] = IF m = 0 THEN Null ELSE r[1]
      /\ Ring(r, m, next_entry_, prev_entry_)
      /\ Sorted(s, r, m, price_)
  BY DEF IsList, Enumerates
<1>2. r \in [1 .. m -> Nodes] /\ \A i \in 1 .. m : r[i] # n
  BY <1>0, <1>1 DEF InUse
<1>3. m <= NumElems
  <2>1. Enumerates(r, m, InUse(s)) /\ InUse(s) \in SUBSET Nodes
    BY DEF IsList, InUse
  <2> QED BY <2>1, EnumerationFits
<1>4. head \in [Side -> Links] /\ next_entry_ \in [Nodes -> Links] /\ prev_entry_ \in [Nodes -> Links]
  BY DEF TypeOK
<1>5. IF head[s] = Null \/ next_entry_[head[s]] = Null
      THEN LinkFirst(s, n)
      ELSE IF search(s, p).add_after THEN LinkAfter(s, n, search(s, p).target)
                                     ELSE LinkBefore(s, p, n, search(s, p).target)
  BY <1>0, Zenon DEF addOrdersAtPrice
<1>6. CASE m = 0
  <2>1. LinkFirst(s, n)
    BY <1>1, <1>5, <1>6
  <2>2. LinkedAt(s, n, r, m, 1, n, n)
    BY <2>1, <1>4, <1>6 DEF LinkFirst, LinkedAt
  <2> QED BY <2>2, <1>0, <1>6 DEF Placed
<1>7. CASE m # 0
  <2>1. PICK j \in 0 .. m : \A i \in 1 .. m :
          /\ i <= j => Before(s, price_[r[i]], p) /\ Worse(s, p, r[i]) /\ ~Better(s, p, r[i])
          /\ i > j => Before(s, p, price_[r[i]]) /\ ~Worse(s, p, r[i]) /\ Better(s, p, r[i])
    <3>1. p \in Nat
      BY PricesAssumption
    <3> QED BY <3>1, <1>1, <1>2, PlaceExists
  <2>2. \A i \in 1 .. m : Worse(s, p, r[i]) <=> i <= j
    BY <2>1
  <2>3. search(s, p).target = r[IF j = m THEN 1 ELSE j + 1] /\ (search(s, p).add_after <=> j = m)
    <3>1. m \in Nat \ {0} /\ head[s] = r[1] /\ p \in Nat
      BY <1>1, <1>7, PricesAssumption
    <3>2. HasPlace(s, p, r, m, j)
      BY <3>1, <1>1, <1>2, <2>2 DEF HasPlace
    <3> QED BY <3>1, <3>2, <1>3, SearchEnds, Zenon
  <2>4. \A i \in 1 .. m : /\ Following(m, i) \in 1 .. m
                          /\ next_entry_[r[i]] = r[Following(m, i)]
                          /\ prev_entry_[r[Following(m, i)]] = r[i]
    BY <1>1 DEF Ring, Following
  <2>5. head[s] = r[1] /\ r[1] \in Nodes /\ 1 \in 1 .. m /\ m \in 1 .. m
    BY <1>1, <1>2, <1>7
  <2>6. head[s] # Null /\ next_entry_[head[s]] # Null
    BY <2>4, <2>5, <1>2, NullAssumption
  <2>7. prev_entry_[r[1]] = r[m] /\ next_entry_[r[m]] = r[1]
    BY <2>4, <2>5 DEF Following
  <2>8. CASE j = m
    <3>1. search(s, p).add_after /\ search(s, p).target = head[s]
      BY <2>3, <2>5, <2>8
    <3>2. LinkAfter(s, n, head[s])
      BY <3>1, <2>6, <1>5, Zenon
    <3>3. /\ prev_entry_' = [prev_entry_ EXCEPT ![n] = r[m], ![r[1]] = n]
          /\ next_entry_' = [next_entry_ EXCEPT ![n] = r[1], ![r[m]] = n]
          /\ head' = head
      BY <3>2, <2>5, <2>7 DEF LinkAfter
    <3>4. PICK q \in 1 .. m + 1 : q = m + 1
      OBVIOUS
    <3>5. head' = [head EXCEPT ![s] = IF q = 1 THEN n ELSE @]
      BY <3>3, <3>4, <1>4, <1>7
    <3>6. LinkedAt(s, n, r, m, q, r[m], r[1])
      <4>1. m = (IF q = 1 THEN m ELSE q - 1) /\ 1 = (IF q = m + 1 THEN 1 ELSE q)
        BY <3>4, <1>7
      <4>2. r[m] = r[IF q = 1 THEN m ELSE q - 1] /\ r[1] = r[IF q = m + 1 THEN 1 ELSE q]
        BY <4>1
      <4> QED BY <4>2, <3>3, <3>5, <1>7, Zenon DEF LinkedAt
    <3>7. r[m] \in Nodes /\ \A i \in 1 .. m : i <= j /\ i < q /\ ~(i >= q)
      BY <2>5, <2>8, <3>4, <1>2
    <3> QED BY <3>6, <3>7, <2>1, <2>5, <1>0 DEF Placed
  <2>9. CASE j < m
    <3>1. PICK q \in 1 .. m : q = j + 1
      BY <2>9
    <3>2. ~search(s, p).add_after /\ search(s, p).target = r[q]
      BY <2>3, <2>9, <3>1
    <3>3. LinkBefore(s, p, n, r[q])
      BY <3>2, <2>6, <1>5, Zenon
    <3>4. PICK ia \in 1 .. m : ia = IF q = 1 THEN m ELSE q - 1
      BY <3>1, <2>5
    <3>5. prev_entry_[r[q]] = r[ia] /\ r[ia] \in Nodes /\ r[q] \in Nodes
      BY <3>4, <2>4, <1>2 DEF Following
    <3>6. prev_entry_' = [prev_entry_ EXCEPT ![n] = r[ia], ![r[q]] = n]
      BY <3>3, <3>5 DEF LinkBefore
    <3> DEFINE next == [next_entry_ EXCEPT ![n] = r[q], ![r[ia]] = n]
    <3>7. IF Better(s, p, r[1])
          THEN /\ next_entry_' = [next EXCEPT ![r[q]] = IF @ = r[1] THEN n ELSE @]
               /\ head' = [head EXCEPT ![s] = n]
          ELSE next_entry_' = next /\ head' = head
      BY <3>3, <3>5, <2>5 DEF LinkBefore
    <3>8. Better(s, p, r[1]) <=> q = 1
      BY <2>1, <2>5, <3>1
    <3>9. next_entry_' = next /\ head' = [head EXCEPT ![s] = IF q = 1 THEN n ELSE @]
      <4>1. CASE q = 1
        <5>1. next[r[q]] # r[1]
          <6>1. next[r[1]] = IF r[1] = r[m] THEN n ELSE next_entry_[r[1]]
            BY <4>1, <3>4, <2>5, <1>2, <1>4
          <6>2. CASE m = 1
            BY <6>1, <6>2, <4>1, <1>2, <2>5
          <6>3. CASE m # 1
            <7>1. next_entry_[r[1]] = r[2] /\ 2 \in 1 .. m
              BY <6>3, <2>4, <2>5 DEF Following
            <7> QED BY <6>1, <6>3, <7>1, <4>1, <1>1, <1>2, <2>5
          <6> QED BY <6>2, <6>3
        <5>2. next \in [Nodes -> Links]
          BY <1>4, <3>5 DEF Links
        <5> HIDE DEF next
        <5>3. [next EXCEPT ![r[q]] = IF @ = r[1] THEN n ELSE @] = next
          BY <5>1, <5>2
        <5> QED BY <5>3, <4>1, <3>7, <3>8
      <4>2. CASE q # 1
        <5>1. head' = head /\ next_entry_' = next
          BY <4>2, <3>7, <3>8
        <5> QED BY <5>1, <4>2, <1>4
      <4> QED BY <4>1, <4>2
    <3>10. LinkedAt(s, n, r, m, q, r[ia], r[q])
      BY <3>9, <3>6, <3>4, <1>7 DEF LinkedAt
    <3>11. q \in 1 .. m + 1 /\ (\A i \in 1 .. m : i < q => i <= j) /\ (\A i \in 1 .. m : i >= q => i > j)
      BY <3>1
    <3> QED BY <3>5, <3>10, <3>11, <2>1, <1>0 DEF Placed
  <2> QED BY <2>8, <2>9
<1> QED BY <1>6, <1>7

(* The invariant holds of two empty lists over a new pool. *)
LEMMA InitIInv == Init => IInv
<1> SUFFICES ASSUME Init PROVE IInv
  OBVIOUS
<1>1. PoolInv
  BY InitiallyAllFree DEF Init
<1>2. TypeOK
  BY Zenon DEF Init, TypeOK, Links, Side
<1>3. \A n \in Nodes : is_free_[n] = TRUE
  BY Zenon DEF Init, PoolInit, Nodes
<1>4. Indexed
  <2>1. \A p \in Prices : price_orders_at_price_[p] = Null
    BY DEF Init
  <2> QED BY <2>1, <1>3 DEF Indexed
<1>4a. Manned /\ Mirrored
  <2>1. \A p \in Prices : order_sides[p] = {}
    BY DEF Init
  <2>2. \A n \in Nodes : next_entry_[n] = Null /\ prev_entry_[n] = Null
    BY DEF Init
  <2> QED BY <2>1, <2>2, <1>3 DEF Manned, Mirrored
<1>5. ASSUME NEW s \in Side PROVE \E m \in Nat : \E r : IsList(s, r, m)
  <2>1. InUse(s) = {}
    BY <1>3 DEF InUse
  <2>2. head[s] = Null
    BY DEF Init
  <2> DEFINE r == [i \in 1 .. 0 |-> Null]
  <2>3. r \in [1 .. 0 -> {}]
    OBVIOUS
  <2> HIDE DEF r
  <2>4. IsList(s, r, 0)
    BY <2>1, <2>2, <2>3 DEF IsList, Enumerates, Ring, Sorted
  <2> QED BY <2>4
<1> QED BY <1>1, <1>2, <1>4, <1>4a, <1>5 DEF IInv, Linked, Listed

(* Levels of two sides are different nodes. *)
LEMMA SidesApart ==
  ASSUME NEW s \in Side, NEW o \in Side, o # s, NEW x \in InUse(s)
  PROVE  x \notin InUse(o)
BY DEF InUse

(* Whichever way addOrdersAtPrice takes, and whatever ring the head is on, *)
(* the level is linked between two neighbours, or with itself alone.       *)
LEMMA AddLinks ==
  ASSUME Linked, NEW s \in Side, NEW p \in Prices, addOrdersAtPrice(s, p),
         NEW n \in Nodes, n = next_free_index_, is_free_[n]
  PROVE  \E a, b \in Nodes :
           /\ \/ a = n /\ b = n
              \/ ~is_free_[a] /\ ~is_free_[b] /\ b = next_entry_[a]
           /\ next_entry_' = [next_entry_ EXCEPT ![n] = b, ![a] = n]
           /\ prev_entry_' = [prev_entry_ EXCEPT ![n] = a, ![b] = n]
           /\ head' \in {head, [head EXCEPT ![s] = n]}
<1> USE DEF Linked
<1>1. IF head[s] = Null \/ next_entry_[head[s]] = Null
      THEN LinkFirst(s, n)
      ELSE IF search(s, p).add_after THEN LinkAfter(s, n, search(s, p).target)
                                     ELSE LinkBefore(s, p, n, search(s, p).target)
  BY Zenon DEF addOrdersAtPrice
<1>2. head \in [Side -> Links] /\ next_entry_ \in [Nodes -> Links] /\ prev_entry_ \in [Nodes -> Links]
  BY DEF TypeOK
<1>3. CASE head[s] = Null \/ next_entry_[head[s]] = Null
  <2>1. LinkFirst(s, n)
    BY <1>1, <1>3
  <2>2. /\ next_entry_' = [next_entry_ EXCEPT ![n] = n, ![n] = n]
        /\ prev_entry_' = [prev_entry_ EXCEPT ![n] = n, ![n] = n]
        /\ head' = [head EXCEPT ![s] = n]
    BY <2>1, <1>2 DEF LinkFirst
  <2> QED BY <2>2
<1>4. CASE ~(head[s] = Null \/ next_entry_[head[s]] = Null)
  <2>1. PICK best \in Nodes : best = head[s] /\ ~is_free_[best]
    BY <1>2, <1>4 DEF Mirrored, Links
  <2>2. PICK found \in Nodes : /\ found = search(s, p).target /\ ~is_free_[found]
                               /\ Better(s, p, best) => found = best /\ ~search(s, p).add_after
    BY <2>1, SearchStays
  <2>3. CASE search(s, p).add_after
    <3>1. LinkAfter(s, n, found)
      BY <1>1, <1>4, <2>2, <2>3
    <3>2. PICK target \in Nodes : target = (IF found = best THEN prev_entry_[best] ELSE found) /\ ~is_free_[target]
      BY <2>1, <2>2 DEF Mirrored
    <3>3. PICK b \in Nodes : b = next_entry_[target] /\ ~is_free_[b]
      BY <3>2 DEF Mirrored
    <3>4. /\ next_entry_' = [next_entry_ EXCEPT ![n] = b, ![target] = n]
          /\ prev_entry_' = [prev_entry_ EXCEPT ![n] = target, ![b] = n]
          /\ head' = head
      BY <3>1, <3>2, <3>3, <2>1 DEF LinkAfter
    <3> QED BY <3>2, <3>3, <3>4
  <2>4. CASE ~search(s, p).add_after
    <3>1. LinkBefore(s, p, n, found)
      BY <1>1, <1>4, <2>2, <2>4
    <3>2. PICK a \in Nodes : a = prev_entry_[found] /\ ~is_free_[a] /\ found = next_entry_[a]
      BY <2>2 DEF Mirrored
    <3> DEFINE next == [next_entry_ EXCEPT ![n] = found, ![a] = n]
    <3>3. /\ prev_entry_' = [prev_entry_ EXCEPT ![n] = a, ![found] = n]
          /\ IF Better(s, p, best)
             THEN /\ next_entry_' = [next EXCEPT ![found] = IF @ = best THEN n ELSE @]
                  /\ head' = [head EXCEPT ![s] = n]
             ELSE next_entry_' = next /\ head' = head
      BY <3>1, <3>2, <2>1 DEF LinkBefore
    <3>4. next \in [Nodes -> Links]
      BY <1>2 DEF Links
    <3>5. ASSUME Better(s, p, best) PROVE next[found] # best
      <4>1. found = best /\ best # n
        BY <3>5, <2>1, <2>2
      <4>2. next[best] = IF a = best THEN n ELSE next_entry_[best]
        BY <4>1, <1>2
      <4>3. next_entry_[best] = best => prev_entry_[best] = best
        BY <2>1 DEF Mirrored
      <4> QED BY <4>1, <4>2, <4>3, <3>2
    <3>6. next_entry_' = next /\ head' \in {head, [head EXCEPT ![s] = n]}
      <4> HIDE DEF next
      <4>1. CASE Better(s, p, best)
        BY <4>1, <3>3, <3>4, <3>5
      <4>2. CASE ~Better(s, p, best)
        BY <4>2, <3>3
      <4> QED BY <4>1, <4>2
    <3> QED BY <3>2, <3>3, <3>6, <2>2
  <2> QED BY <2>3, <2>4
<1> QED BY <1>3, <1>4

(* What every new level leaves true, whatever became of the heads. *)
LEMMA AddKeepsLinks ==
  ASSUME Linked, NEW s \in Side, NEW p \in Prices, addOrdersAtPrice(s, p)
  PROVE  Linked'
<1> USE DEF Linked
<1>1. PICK n \in Nodes : n = next_free_index_
  BY DEF PoolInv, PoolTypeOK, Nodes
<1>2. is_free_ \in [Nodes -> BOOLEAN] /\ is_free_[n] /\ ~out_of_space
  <2>1. ~out_of_space
    BY DEF addOrdersAtPrice, allocate
  <2> QED BY <2>1, <1>1 DEF PoolInv, PoolTypeOK, PoolExhaustedOnlyWhenFull, Nodes
<1>3. /\ price_orders_at_price_[p] = Null
      /\ is_free_' = [is_free_ EXCEPT ![n] = FALSE]
      /\ side_' = [side_ EXCEPT ![n] = s]
      /\ price_' = [price_ EXCEPT ![n] = p]
      /\ price_orders_at_price_' = [price_orders_at_price_ EXCEPT ![p] = n]
      /\ order_sides' = [order_sides EXCEPT ![p] = {s}]
      /\ headLost' = headLost
  BY <1>1 DEF addOrdersAtPrice, allocate
<1>4. PoolInv'
  BY AllocatePreserves DEF addOrdersAtPrice
<1>5. PICK a \in Nodes, b \in Nodes :
         /\ \/ a = n /\ b = n
            \/ ~is_free_[a] /\ ~is_free_[b] /\ b = next_entry_[a]
         /\ next_entry_' = [next_entry_ EXCEPT ![n] = b, ![a] = n]
         /\ prev_entry_' = [prev_entry_ EXCEPT ![n] = a, ![b] = n]
         /\ head' \in {head, [head EXCEPT ![s] = n]}
  BY <1>1, <1>2, AddLinks
<1>7. ASSUME NEW x \in Nodes, ~is_free_[x] PROVE price_[x] # p /\ x # n
  BY <1>2, <1>3, <1>7, NullAssumption DEF Indexed
<1>13. TypeOK'
  <2>1. p \in Nat
    BY PricesAssumption
  <2>2. head' \in [Side -> Links]
    BY <1>5 DEF TypeOK, Links
  <2>3. next_entry_' \in [Nodes -> Links] /\ prev_entry_' \in [Nodes -> Links]
    BY <1>5 DEF TypeOK, Links
  <2>4. side_' \in [Nodes -> Side \cup {"INVALID"}] /\ price_' \in [Nodes -> Nat]
    BY <2>1, <1>3 DEF TypeOK
  <2>5. price_orders_at_price_' \in [Prices -> Links]
    BY <1>3 DEF TypeOK, Links
  <2>6. order_sides' \in [Prices -> SUBSET Side] /\ headLost' \in BOOLEAN
    BY <1>3 DEF TypeOK
  <2> QED BY <2>2, <2>3, <2>4, <2>5, <2>6 DEF TypeOK
<1>14. \A x \in Nodes : /\ is_free_'[x] = IF x = n THEN FALSE ELSE is_free_[x]
                        /\ side_'[x] = IF x = n THEN s ELSE side_[x]
                        /\ price_'[x] = IF x = n THEN p ELSE price_[x]
  <2>1. side_ \in [Nodes -> Side \cup {"INVALID"}] /\ price_ \in [Nodes -> Nat]
    BY DEF TypeOK
  <2> QED BY <1>2, <1>3, <2>1
<1>15. Indexed'
  <2>1. \A x \in Prices : price_orders_at_price_'[x] = IF x = p THEN n ELSE price_orders_at_price_[x]
    BY <1>3 DEF TypeOK
  <2>2. ASSUME NEW x \in Prices, price_orders_at_price_'[x] # Null
        PROVE  ~is_free_'[price_orders_at_price_'[x]] /\ price_'[price_orders_at_price_'[x]] = x
    <3>1. CASE x = p
      BY <3>1, <2>1, <1>14
    <3>2. CASE x # p
      <4>1. PICK y : y = price_orders_at_price_[x]
        OBVIOUS
      <4>2. y # Null /\ y \in Nodes /\ ~is_free_[y] /\ price_[y] = x
        BY <3>2, <4>1, <2>1, <2>2 DEF Indexed, TypeOK, Links
      <4>3. y # n
        BY <4>2, <1>7
      <4> QED BY <4>1, <4>2, <4>3, <3>2, <2>1, <1>14
    <3> QED BY <3>1, <3>2
  <2>3. ASSUME NEW x \in Nodes, ~is_free_'[x]
        PROVE  side_'[x] \in Side /\ price_'[x] \in Prices /\ price_orders_at_price_'[price_'[x]] = x
    <3>1. CASE x = n
      BY <3>1, <2>1, <1>14
    <3>2. CASE x # n
      <4>1. ~is_free_[x]
        BY <3>2, <2>3, <1>14
      <4>2. side_[x] \in Side /\ price_[x] \in Prices /\ price_orders_at_price_[price_[x]] = x /\ price_[x] # p
        BY <4>1, <1>7 DEF Indexed
      <4> QED BY <4>2, <3>2, <2>1, <1>14
    <3> QED BY <3>1, <3>2
  <2> QED BY <2>2, <2>3 DEF Indexed
<1>16. Manned'
  <2>1. ASSUME NEW x \in Prices, order_sides'[x] # {} PROVE price_orders_at_price_'[x] # Null
    <3>1. CASE x = p
      BY <3>1, <1>3, NullAssumption DEF TypeOK
    <3>2. CASE x # p
      BY <2>1, <3>2, <1>3 DEF TypeOK, Manned
    <3> QED BY <3>1, <3>2
  <2> QED BY <2>1 DEF Manned
<1>17. Mirrored'
  <2>1. next_entry_ \in [Nodes -> Links] /\ prev_entry_ \in [Nodes -> Links]
    BY DEF TypeOK
  <2>2. \A x \in Nodes : next_entry_'[x] = IF x = a THEN n ELSE IF x = n THEN b ELSE next_entry_[x]
    BY <2>1, <1>5
  <2>3. \A x \in Nodes : prev_entry_'[x] = IF x = b THEN n ELSE IF x = n THEN a ELSE prev_entry_[x]
    BY <2>1, <1>5
  <2>4. ASSUME NEW x \in Nodes, ~is_free_'[x]
        PROVE  /\ next_entry_'[x] \in Nodes /\ ~is_free_'[next_entry_'[x]] /\ prev_entry_'[next_entry_'[x]] = x
               /\ prev_entry_'[x] \in Nodes /\ ~is_free_'[prev_entry_'[x]] /\ next_entry_'[prev_entry_'[x]] = x
    <3>1. CASE a = n /\ b = n
      <4>1. CASE x = n
        BY <4>1, <3>1, <2>2, <2>3, <1>14
      <4>2. CASE x # n
        <5>1. ~is_free_[x]
          BY <4>2, <2>4, <1>14
        <5>2. PICK y \in Nodes : y = next_entry_[x] /\ ~is_free_[y] /\ prev_entry_[y] = x
          BY <5>1 DEF Mirrored
        <5>3. PICK z \in Nodes : z = prev_entry_[x] /\ ~is_free_[z] /\ next_entry_[z] = x
          BY <5>1 DEF Mirrored
        <5>4. y # n /\ z # n
          BY <5>2, <5>3, <1>2
        <5> QED BY <3>1, <4>2, <5>2, <5>3, <5>4, <2>2, <2>3, <1>14
      <4> QED BY <4>1, <4>2
    <3>2. CASE ~is_free_[a] /\ ~is_free_[b] /\ b = next_entry_[a]
      <4>1. a # n /\ b # n /\ prev_entry_[b] = a
        BY <3>2, <1>2 DEF Mirrored
      <4>2. CASE x = n
        BY <4>1, <4>2, <3>2, <2>2, <2>3, <1>14
      <4>3. CASE x # n
        <5>1. ~is_free_[x]
          BY <4>3, <2>4, <1>14
        <5>2. PICK y \in Nodes : y = next_entry_[x] /\ ~is_free_[y] /\ prev_entry_[y] = x
          BY <5>1 DEF Mirrored
        <5>3. PICK z \in Nodes : z = prev_entry_[x] /\ ~is_free_[z] /\ next_entry_[z] = x
          BY <5>1 DEF Mirrored
        <5>4. y # n /\ z # n
          BY <5>2, <5>3, <1>2
        <5>5. (x = a <=> y = b) /\ (x = b <=> z = a)
          BY <4>1, <5>2, <5>3, <3>2
        <5>6. next_entry_'[x] = (IF x = a THEN n ELSE y) /\ prev_entry_'[x] = (IF x = b THEN n ELSE z)
          BY <4>3, <5>2, <5>3, <2>2, <2>3
        <5>7. next_entry_'[n] = b /\ prev_entry_'[n] = a /\ ~is_free_'[n]
          BY <4>1, <2>2, <2>3, <1>14
        <5>8. y # b => prev_entry_'[y] = x
          BY <5>2, <5>4, <2>3
        <5>9. z # a => next_entry_'[z] = x
          BY <5>3, <5>4, <2>2
        <5> QED BY <5>2, <5>3, <5>4, <5>5, <5>6, <5>7, <5>8, <5>9, <1>14
      <4> QED BY <4>2, <4>3
    <3> QED BY <3>1, <3>2, <1>5
  <2>5. ASSUME NEW x \in Nodes, is_free_'[x] PROVE next_entry_'[x] = Null /\ prev_entry_'[x] = Null
    <3>1. x # n /\ is_free_[x]
      BY <2>5, <1>14
    <3>2. x # a /\ x # b
      BY <3>1, <1>5
    <3>3. next_entry_[x] = Null /\ prev_entry_[x] = Null
      BY <3>1 DEF Mirrored
    <3> QED BY <3>1, <3>2, <3>3, <2>2, <2>3
  <2> QED BY <2>4, <2>5 DEF Mirrored
<1> QED BY <1>4, <1>13, <1>15, <1>16, <1>17

(* addOrdersAtPrice puts a free block into the list of its side. *)
LEMMA AddKeepsLists ==
  ASSUME Linked, Listed, NEW s \in Side, NEW p \in Prices, addOrdersAtPrice(s, p)
  PROVE  Listed'
<1> USE DEF Linked
<1>1. PICK n \in Nodes : n = next_free_index_
  BY DEF PoolInv, PoolTypeOK, Nodes
<1>2. is_free_ \in [Nodes -> BOOLEAN] /\ is_free_[n] /\ ~out_of_space
  <2>1. ~out_of_space
    BY DEF addOrdersAtPrice, allocate
  <2> QED BY <2>1, <1>1 DEF PoolInv, PoolTypeOK, PoolExhaustedOnlyWhenFull, Nodes
<1>3. /\ price_orders_at_price_[p] = Null
      /\ is_free_' = [is_free_ EXCEPT ![n] = FALSE]
      /\ side_' = [side_ EXCEPT ![n] = s]
      /\ price_' = [price_ EXCEPT ![n] = p]
      /\ price_orders_at_price_' = [price_orders_at_price_ EXCEPT ![p] = n]
  BY <1>1 DEF addOrdersAtPrice, allocate
<1>5. PICK m \in Nat : \E r : IsList(s, r, m)
  BY DEF Listed
<1>6. PICK r : IsList(s, r, m)
  BY <1>5
<1>7. ASSUME NEW x \in Nodes, ~is_free_[x] PROVE price_[x] # p /\ x # n
  BY <1>2, <1>3, <1>7, NullAssumption DEF Indexed
<1>8. Enumerates(r, m, InUse(s)) /\ r \in [1 .. m -> InUse(s)] /\ \A i \in 1 .. m : r[i] \in Nodes /\ ~is_free_[r[i]]
  BY <1>6 DEF IsList, Enumerates, InUse
<1>9. Placed(s, p, n, r, m)
  <2>1. \A i \in 1 .. m : price_[r[i]] # p
    BY <1>7, <1>8
  <2> QED BY <2>1, <1>1, <1>2, <1>6, LinksPlaced
<1>10. PICK q \in 1 .. m + 1 : \E a, b \in Nodes :
         /\ \A i \in 1 .. m : i < q => Before(s, price_[r[i]], p)
         /\ \A i \in 1 .. m : i >= q => Before(s, p, price_[r[i]])
         /\ LinkedAt(s, n, r, m, q, a, b)
  BY <1>9 DEF Placed
<1>11. PICK a \in Nodes, b \in Nodes :
         /\ \A i \in 1 .. m : i < q => Before(s, price_[r[i]], p)
         /\ \A i \in 1 .. m : i >= q => Before(s, p, price_[r[i]])
         /\ LinkedAt(s, n, r, m, q, a, b)
  BY <1>10
<1>12. /\ head' = [head EXCEPT ![s] = IF q = 1 THEN n ELSE @]
       /\ next_entry_' = [next_entry_ EXCEPT ![n] = b, ![a] = n]
       /\ prev_entry_' = [prev_entry_ EXCEPT ![n] = a, ![b] = n]
       /\ m = 0 => a = n /\ b = n
       /\ m # 0 => a = r[IF q = 1 THEN m ELSE q - 1] /\ b = r[IF q = m + 1 THEN 1 ELSE q]
  BY <1>11 DEF LinkedAt
<1>14. \A x \in Nodes : /\ is_free_'[x] = IF x = n THEN FALSE ELSE is_free_[x]
                        /\ side_'[x] = IF x = n THEN s ELSE side_[x]
                        /\ price_'[x] = IF x = n THEN p ELSE price_[x]
  <2>1. side_ \in [Nodes -> Side \cup {"INVALID"}] /\ price_ \in [Nodes -> Nat]
    BY DEF TypeOK
  <2> QED BY <1>2, <1>3, <2>1
<1>16. InUse(s)' = InUse(s) \cup {n} /\ \A o \in Side : o # s => InUse(o)' = InUse(o)
  BY <1>2, <1>14 DEF InUse
<1>17. n \notin InUse(s)
  BY <1>2 DEF InUse
<1>18. next_entry_ \in [Nodes -> Links] /\ prev_entry_ \in [Nodes -> Links] /\ head \in [Side -> Links]
  BY DEF TypeOK
<1>19. IsList(s, Inserted(r, m, q, n), m + 1)'
  <2>1. Enumerates(Inserted(r, m, q, n), m + 1, InUse(s)')
    BY <1>8, <1>16, <1>17, InsertedEnumerates
  <2>2. head'[s] = Inserted(r, m, q, n)[1]
    <3>1. head'[s] = IF q = 1 THEN n ELSE head[s]
      BY <1>12, <1>18
    <3>2. Inserted(r, m, q, n)[1] = IF q = 1 THEN n ELSE r[1]
      BY DEF Inserted
    <3>3. q # 1 => head[s] = r[1]
      BY <1>6 DEF IsList
    <3> QED BY <3>1, <3>2, <3>3
  <2>3. Ring(Inserted(r, m, q, n), m + 1, next_entry_', prev_entry_')
    <3>1. CASE m = 0
      <4>1. q = 1 /\ a = n /\ b = n
        BY <3>1, <1>12
      <4>2. next_entry_'[n] = n /\ prev_entry_'[n] = n
        BY <4>1, <1>12, <1>18
      <4>3. Inserted(r, m, q, n)[1] = n
        BY <4>1, <3>1 DEF Inserted
      <4> QED BY <3>1, <4>2, <4>3 DEF Ring, Following
    <3>2. CASE m # 0
      <4>1. m \in Nat \ {0} /\ InUse(s) \in SUBSET Nodes /\ Ring(r, m, next_entry_, prev_entry_)
        BY <3>2, <1>6 DEF IsList, InUse
      <4> QED BY <4>1, <3>2, <1>8, <1>12, <1>17, <1>18, InsertedRing
    <3> QED BY <3>1, <3>2
  <2>4. Sorted(s, Inserted(r, m, q, n), m + 1, price_')
    <3>1. price_'[n] = p /\ \A i \in 1 .. m : price_'[r[i]] = price_[r[i]]
      BY <1>7, <1>8, <1>14
    <3>2. Sorted(s, r, m, price_)
      BY <1>6 DEF IsList
    <3> QED BY <3>1, <3>2, <1>11, InsertedSorted
  <2> QED BY <2>1, <2>2, <2>3, <2>4 DEF IsList
<1>20. ASSUME NEW o \in Side, o # s PROVE \E m2 \in Nat : \E r2 : IsList(o, r2, m2)'
  <2>1. PICK m2 \in Nat : \E r2 : IsList(o, r2, m2)
    BY DEF Listed
  <2>2. PICK r2 : IsList(o, r2, m2)
    BY <2>1
  <2>3. r2 \in [1 .. m2 -> InUse(o)] /\ InUse(o)' = InUse(o)
    BY <2>2, <1>16, <1>20 DEF IsList, Enumerates
  <2>4. a \notin InUse(o) /\ b \notin InUse(o) /\ n \notin InUse(o)
    <3>1. n \notin InUse(o)
      BY <1>2 DEF InUse
    <3>2. CASE m = 0
      BY <3>1, <3>2, <1>12
    <3>3. CASE m # 0
      <4>1. a \in InUse(s) /\ b \in InUse(s)
        BY <3>3, <1>8, <1>12
      <4> QED BY <4>1, <3>1, <1>20, SidesApart
    <3> QED BY <3>2, <3>3
  <2>5. \A i \in 1 .. m2 : /\ next_entry_'[r2[i]] = next_entry_[r2[i]]
                           /\ prev_entry_'[r2[i]] = prev_entry_[r2[i]]
                           /\ price_'[r2[i]] = price_[r2[i]]
    <3>1. ASSUME NEW x \in InUse(o)
          PROVE  next_entry_'[x] = next_entry_[x] /\ prev_entry_'[x] = prev_entry_[x] /\ price_'[x] = price_[x]
      <4>1. x \in Nodes /\ x # a /\ x # b /\ x # n
        BY <2>4 DEF InUse
      <4> QED BY <4>1, <1>12, <1>14, <1>18
    <3> QED BY <3>1, <2>3
  <2>6. Ring(r2, m2, next_entry_', prev_entry_')
    BY <2>2, <2>5, RingApart DEF IsList
  <2>7. Sorted(o, r2, m2, price_')
    BY <2>2, <2>5 DEF IsList, Sorted
  <2>8. head'[o] = head[o]
    BY <1>12, <1>18, <1>20
  <2>9. IsList(o, r2, m2)'
    BY <2>2, <2>3, <2>6, <2>7, <2>8 DEF IsList
  <2> QED BY <2>9
<1>21. Listed'
  <2>1. ASSUME NEW o \in Side PROVE \E m2 \in Nat : \E r2 : IsList(o, r2, m2)'
    <3>1. CASE o = s
      BY <3>1, <1>19
    <3> QED BY <3>1, <1>20
  <2> QED BY <2>1 DEF Listed
<1> QED BY <1>21

(* Together: a new level keeps the invariant.                              *)
LEMMA AddKeeps ==
  ASSUME IInv, NEW s \in Side, NEW p \in Prices, addOrdersAtPrice(s, p)
  PROVE  IInv'
<1>1. headLost' = headLost
  BY DEF addOrdersAtPrice
<1> QED BY <1>1, AddKeepsLinks, AddKeepsLists DEF IInv

(* Orders that come to a level and leave it again change none of this.     *)
LEMMA JoinKeeps ==
  ASSUME IInv, NEW s \in Side, NEW p \in Prices, joinLevel(s, p) \/ leaveLevel(s, p)
  PROVE  IInv'
<1> USE DEF joinLevel, leaveLevel
<1>1. UNCHANGED <<price_orders_at_price_, head, side_, price_, prev_entry_, next_entry_, headLost, poolVars>>
  OBVIOUS
<1>2. order_sides' \in [Prices -> SUBSET Side]
  BY DEF IInv, Linked, TypeOK
<1>3. TypeOK' /\ PoolInv' /\ Indexed' /\ Mirrored'
  BY <1>1, <1>2 DEF IInv, Linked, TypeOK, PoolInv, PoolTypeOK, PoolExhaustedOnlyWhenFull, poolVars,
                    Indexed, Mirrored
<1>4. Manned'
  <2>1. price_orders_at_price_[p] # Null
    <3>1. CASE joinLevel(s, p)
      BY <3>1
    <3>2. CASE leaveLevel(s, p)
      <4>1. order_sides[p] # {}
        BY <3>2 DEF Side
      <4> QED BY <4>1 DEF IInv, Linked, Manned
    <3> QED BY <3>1, <3>2
  <2>2. \A x \in Prices : x # p => order_sides'[x] = order_sides[x]
    BY DEF IInv, Linked, TypeOK
  <2> QED BY <2>1, <2>2, <1>1 DEF IInv, Linked, Manned
<1>5. ~headLost => Listed'
  BY <1>1 DEF IInv, Listed, IsList, InUse, poolVars
<1> QED BY <1>1, <1>3, <1>4, <1>5 DEF IInv, Linked

-----------------------------------------------------------------------------
(* Removing a level *)

(* removeOrdersAtPrice takes a node out of the ring it is in, whoever asks. *)
LEMMA RemoveKeepsLinks ==
  ASSUME Linked, NEW s \in Side, NEW p \in Prices, removeOrdersAtPrice(s, p)
  PROVE  Linked'
<1> USE DEF Linked
<1>1. PICK n \in Nodes : n = price_orders_at_price_[p] /\ ~is_free_[n] /\ price_[n] = p
  <2>1. price_orders_at_price_[p] # Null
    BY DEF removeOrdersAtPrice, Manned
  <2> QED BY <2>1 DEF Indexed, TypeOK, Links
<1>2. PICK a \in Nodes : a = prev_entry_[n] /\ ~is_free_[a] /\ next_entry_[a] = n
  BY <1>1 DEF Mirrored
<1>3. PICK b \in Nodes : b = next_entry_[n] /\ ~is_free_[b] /\ prev_entry_[b] = n
  BY <1>1 DEF Mirrored
<1>4. /\ head' = [head EXCEPT ![s] = IF b = n THEN Null ELSE IF n = @ THEN b ELSE @]
      /\ next_entry_' = [next_entry_ EXCEPT ![a] = b, ![n] = Null]
      /\ prev_entry_' = [prev_entry_ EXCEPT ![b] = a, ![n] = Null]
      /\ price_orders_at_price_' = [price_orders_at_price_ EXCEPT ![p] = Null]
      /\ order_sides' = [order_sides EXCEPT ![p] = {}]
      /\ deallocate(n)
      /\ side_' = side_ /\ price_' = price_
  BY <1>1, <1>2, <1>3 DEF removeOrdersAtPrice
<1>5. PoolInv'
  BY <1>4, DeallocatePreserves DEF Nodes
<1>6. is_free_ \in [Nodes -> BOOLEAN] /\ is_free_' = [is_free_ EXCEPT ![n] = TRUE]
  BY <1>4 DEF deallocate, PoolInv, PoolTypeOK, Nodes
<1>7. \A x \in Nodes : is_free_'[x] = IF x = n THEN TRUE ELSE is_free_[x]
  BY <1>6
<1>8. next_entry_ \in [Nodes -> Links] /\ prev_entry_ \in [Nodes -> Links] /\ head \in [Side -> Links]
  BY DEF TypeOK
<1>9. headLost' \in BOOLEAN
  <2>1. headLost' = (headLost \/ (side_[n] # s /\ n = head[side_[n]]))
    BY <1>1 DEF removeOrdersAtPrice
  <2> QED BY <2>1, Zenon
<1>16. TypeOK'
  <2>1. head' \in [Side -> Links]
    BY <1>4, <1>8 DEF Links
  <2>2. next_entry_' \in [Nodes -> Links] /\ prev_entry_' \in [Nodes -> Links]
    BY <1>4, <1>8 DEF Links
  <2>3. price_orders_at_price_' \in [Prices -> Links]
    BY <1>4 DEF TypeOK, Links
  <2>4. order_sides' \in [Prices -> SUBSET Side]
    BY <1>4 DEF TypeOK
  <2>5. side_' \in [Nodes -> Side \cup {"INVALID"}] /\ price_' \in [Nodes -> Nat]
    BY <1>4 DEF TypeOK
  <2> QED BY <2>1, <2>2, <2>3, <2>4, <2>5, <1>9 DEF TypeOK
<1>17. Indexed'
  <2>1. \A x \in Prices : price_orders_at_price_'[x] = IF x = p THEN Null ELSE price_orders_at_price_[x]
    BY <1>4 DEF TypeOK
  <2>2. ASSUME NEW x \in Prices, price_orders_at_price_'[x] # Null
        PROVE  ~is_free_'[price_orders_at_price_'[x]] /\ price_'[price_orders_at_price_'[x]] = x
    <3>1. PICK y : y = price_orders_at_price_[x]
      OBVIOUS
    <3>2. x # p /\ price_orders_at_price_'[x] = y /\ y # Null
      BY <3>1, <2>1, <2>2
    <3>3. y \in Nodes /\ ~is_free_[y] /\ price_[y] = x
      BY <3>1, <3>2 DEF Indexed, TypeOK, Links
    <3>4. y # n
      BY <3>2, <3>3, <1>1
    <3> QED BY <3>2, <3>3, <3>4, <1>4, <1>7
  <2>3. ASSUME NEW x \in Nodes, ~is_free_'[x]
        PROVE  side_'[x] \in Side /\ price_'[x] \in Prices /\ price_orders_at_price_'[price_'[x]] = x
    <3>1. ~is_free_[x] /\ x # n
      BY <2>3, <1>7
    <3>2. side_[x] \in Side /\ price_[x] \in Prices /\ price_orders_at_price_[price_[x]] = x
      BY <3>1 DEF Indexed
    <3>3. price_[x] # p
      BY <3>1, <3>2, <1>1
    <3> QED BY <3>2, <3>3, <2>1, <1>4
  <2> QED BY <2>2, <2>3 DEF Indexed
<1>18. Manned'
  BY <1>4 DEF Manned, TypeOK
<1>19. Mirrored'
  <2>1. \A x \in Nodes : next_entry_'[x] = IF x = n THEN Null ELSE IF x = a THEN b ELSE next_entry_[x]
    BY <1>4, <1>8
  <2>2. \A x \in Nodes : prev_entry_'[x] = IF x = n THEN Null ELSE IF x = b THEN a ELSE prev_entry_[x]
    BY <1>4, <1>8
  <2>3. ASSUME NEW x \in Nodes, ~is_free_'[x]
        PROVE  /\ next_entry_'[x] \in Nodes /\ ~is_free_'[next_entry_'[x]] /\ prev_entry_'[next_entry_'[x]] = x
               /\ prev_entry_'[x] \in Nodes /\ ~is_free_'[prev_entry_'[x]] /\ next_entry_'[prev_entry_'[x]] = x
    <3>1. x # n /\ ~is_free_[x]
      BY <2>3, <1>7
    <3>2. PICK y \in Nodes : y = next_entry_[x] /\ ~is_free_[y] /\ prev_entry_[y] = x
      BY <3>1 DEF Mirrored
    <3>3. PICK z \in Nodes : z = prev_entry_[x] /\ ~is_free_[z] /\ next_entry_[z] = x
      BY <3>1 DEF Mirrored
    <3>4. (x = a <=> y = n) /\ (x = b <=> z = n)
      BY <3>2, <3>3, <1>2, <1>3
    <3>5. b = n => a = n
      BY <1>2, <1>3
    <3>6. a = n => b = n
      BY <1>2, <1>3
    <3>7. next_entry_'[x] \in Nodes /\ ~is_free_'[next_entry_'[x]] /\ prev_entry_'[next_entry_'[x]] = x
      <4>1. CASE x = a
        BY <4>1, <3>1, <3>5, <2>1, <2>2, <1>3, <1>7
      <4>2. CASE x # a
        <5>1. y # n /\ y # b
          BY <4>2, <3>1, <3>2, <3>4, <1>3
        <5> QED BY <4>2, <5>1, <3>1, <3>2, <2>1, <2>2, <1>7
      <4> QED BY <4>1, <4>2
    <3>8. prev_entry_'[x] \in Nodes /\ ~is_free_'[prev_entry_'[x]] /\ next_entry_'[prev_entry_'[x]] = x
      <4>1. CASE x = b
        BY <4>1, <3>1, <3>6, <2>1, <2>2, <1>2, <1>7
      <4>2. CASE x # b
        <5>1. z # n /\ z # a
          BY <4>2, <3>1, <3>3, <3>4, <1>2
        <5> QED BY <4>2, <5>1, <3>1, <3>3, <2>1, <2>2, <1>7
      <4> QED BY <4>1, <4>2
    <3> QED BY <3>7, <3>8
  <2>4. ASSUME NEW x \in Nodes, is_free_'[x] PROVE next_entry_'[x] = Null /\ prev_entry_'[x] = Null
    <3>1. CASE x = n
      BY <3>1, <2>1, <2>2
    <3>2. CASE x # n
      <4>1. is_free_[x]
        BY <3>2, <2>4, <1>7
      <4>2. x # a /\ x # b /\ next_entry_[x] = Null /\ prev_entry_[x] = Null
        BY <4>1, <1>2, <1>3 DEF Mirrored
      <4> QED BY <3>2, <4>2, <2>1, <2>2
    <3> QED BY <3>1, <3>2
  <2> QED BY <2>3, <2>4 DEF Mirrored
<1> QED BY <1>5, <1>16, <1>17, <1>18, <1>19

(* As long as no head is lost, it takes the node out of the list of the    *)
(* level's side, also when the order was of the other side.                *)
LEMMA RemoveKeepsLists ==
  ASSUME Linked, Listed, NEW t \in Side, NEW p \in Prices, removeOrdersAtPrice(t, p), ~headLost'
  PROVE  Listed'
<1> USE DEF Linked
<1>1. PICK n \in Nodes : n = price_orders_at_price_[p] /\ ~is_free_[n] /\ price_[n] = p
  <2>1. price_orders_at_price_[p] # Null
    BY DEF removeOrdersAtPrice, Manned
  <2> QED BY <2>1 DEF Indexed, TypeOK, Links
<1>2. PICK a : a = prev_entry_[n]
  OBVIOUS
<1>3. PICK b : b = next_entry_[n]
  OBVIOUS
<1>31. PICK s \in Side : s = side_[n]
  BY <1>1 DEF Indexed
<1>32. /\ head' = [head EXCEPT ![t] = IF b = n THEN Null ELSE IF n = @ THEN b ELSE @]
      /\ next_entry_' = [next_entry_ EXCEPT ![a] = b, ![n] = Null]
      /\ prev_entry_' = [prev_entry_ EXCEPT ![b] = a, ![n] = Null]
      /\ price_orders_at_price_' = [price_orders_at_price_ EXCEPT ![p] = Null]
      /\ deallocate(n)
      /\ side_' = side_ /\ price_' = price_
  BY <1>1, <1>2, <1>3 DEF removeOrdersAtPrice
<1>33. t = s \/ n # head[s]
  <2>1. headLost' = (headLost \/ (side_[n] # t /\ n = head[side_[n]]))
    BY <1>1 DEF removeOrdersAtPrice
  <2> QED BY <2>1, <1>31, Zenon
<1>6. is_free_ \in [Nodes -> BOOLEAN] /\ is_free_' = [is_free_ EXCEPT ![n] = TRUE]
  BY <1>32 DEF deallocate, PoolInv, PoolTypeOK, Nodes
<1>7. \A x \in Nodes : is_free_'[x] = IF x = n THEN TRUE ELSE is_free_[x]
  BY <1>6
<1>8. next_entry_ \in [Nodes -> Links] /\ prev_entry_ \in [Nodes -> Links] /\ head \in [Side -> Links]
  BY DEF TypeOK
<1>9. PICK m \in Nat : \E r : IsList(s, r, m)
  BY DEF Listed
<1>10. PICK r : IsList(s, r, m)
  BY <1>9
<1>11. /\ Enumerates(r, m, InUse(s))
       /\ r \in [1 .. m -> InUse(s)]
       /\ \A i, j \in 1 .. m : r[i] = r[j] => i = j
       /\ \A x \in InUse(s) : \E i \in 1 .. m : r[i] = x
       /\ head[s] = IF m = 0 THEN Null ELSE r[1]
       /\ Ring(r, m, next_entry_, prev_entry_)
       /\ Sorted(s, r, m, price_)
  BY <1>10 DEF IsList, Enumerates
<1>12. PICK q \in 1 .. m : r[q] = n
  BY <1>1, <1>11, <1>31 DEF InUse
<1>13. \A i \in 1 .. m : /\ Following(m, i) \in 1 .. m
                         /\ next_entry_[r[i]] = r[Following(m, i)]
                         /\ prev_entry_[r[Following(m, i)]] = r[i]
  BY <1>11 DEF Ring, Following
<1>14. a = r[IF q = 1 THEN m ELSE q - 1] /\ b = r[IF q = m THEN 1 ELSE q + 1]
  <2>1. PICK ia \in 1 .. m : ia = IF q = 1 THEN m ELSE q - 1
    OBVIOUS
  <2>2. Following(m, ia) = q /\ Following(m, q) = IF q = m THEN 1 ELSE q + 1
    BY <2>1 DEF Following
  <2> QED BY <2>1, <2>2, <1>2, <1>3, <1>12, <1>13
<1>15. a \in InUse(s) /\ b \in InUse(s) /\ n \in InUse(s) /\ a \in Nodes /\ b \in Nodes
  BY <1>11, <1>12, <1>14 DEF InUse
<1>4. /\ head' = [head EXCEPT ![s] = IF b = n THEN Null ELSE IF n = @ THEN b ELSE @]
      /\ next_entry_' = [next_entry_ EXCEPT ![a] = b, ![n] = Null]
      /\ prev_entry_' = [prev_entry_ EXCEPT ![b] = a, ![n] = Null]
      /\ side_' = side_ /\ price_' = price_
  <2>1. CASE t = s
    BY <2>1, <1>32
  <2>2. CASE t # s
    <3>1. n # head[s]
      BY <2>2, <1>33
    <3>2. m # 1 /\ q # 1
      BY <3>1, <1>11, <1>12
    <3>3. b # n
      BY <3>2, <1>11, <1>12, <1>14
    <3>4. head[t] # n
      <4>1. PICK m2 \in Nat : \E r2 : IsList(t, r2, m2)
        BY DEF Listed
      <4>2. PICK r2 : IsList(t, r2, m2)
        BY <4>1
      <4>3. head[t] = Null \/ head[t] \in InUse(t)
        BY <4>2 DEF IsList, Enumerates
      <4>4. n \notin InUse(t)
        BY <2>2, <1>31 DEF InUse
      <4> QED BY <4>3, <4>4, NullAssumption
    <3>5. head' = head
      BY <3>3, <3>4, <1>8, <1>32
    <3>6. [head EXCEPT ![s] = IF b = n THEN Null ELSE IF n = @ THEN b ELSE @] = head
      BY <3>1, <3>3, <1>8
    <3> QED BY <3>5, <3>6, <1>32
  <2> QED BY <2>1, <2>2
<1>18. InUse(s)' = InUse(s) \ {n} /\ \A o \in Side : o # s => InUse(o)' = InUse(o)
  BY <1>31, <1>4, <1>7 DEF InUse
<1>19. IsList(s, Without(r, m, q), m - 1)'
  <2>1. Enumerates(Without(r, m, q), m - 1, InUse(s)')
    BY <1>11, <1>12, <1>18, WithoutEnumerates
  <2>2. head'[s] = IF b = n THEN Null ELSE IF n = r[1] THEN b ELSE r[1]
    BY <1>4, <1>8, <1>11
  <2>3. head'[s] = IF m - 1 = 0 THEN Null ELSE Without(r, m, q)[1]
    <3>1. CASE m = 1
      BY <3>1, <2>2, <1>12, <1>14
    <3>2. CASE m # 1
      <4>1. b # n /\ (n = r[1] <=> q = 1)
        BY <3>2, <1>11, <1>12, <1>14
      <4>2. Without(r, m, q)[1] = IF q = 1 THEN r[2] ELSE r[1]
        BY <3>2 DEF Without
      <4>3. q = 1 => b = r[2]
        BY <3>2, <1>14
      <4> QED BY <3>2, <2>2, <4>1, <4>2, <4>3
    <3> QED BY <3>1, <3>2
  <2>4. Ring(Without(r, m, q), m - 1, next_entry_', prev_entry_')
    <3>1. CASE m = 1
      BY <3>1 DEF Ring
    <3>2. CASE m # 1
      <4>1. m > 1 /\ InUse(s) \in SUBSET Nodes
        BY <3>2 DEF InUse
      <4> QED BY <4>1, <1>2, <1>3, <1>4, <1>8, <1>11, <1>12, WithoutRing
    <3> QED BY <3>1, <3>2
  <2>5. Sorted(s, Without(r, m, q), m - 1, price_')
    BY <1>4, <1>11, WithoutSorted
  <2> QED BY <2>1, <2>3, <2>4, <2>5 DEF IsList
<1>20. ASSUME NEW o \in Side, o # s PROVE \E m2 \in Nat : \E r2 : IsList(o, r2, m2)'
  <2>1. PICK m2 \in Nat : \E r2 : IsList(o, r2, m2)
    BY DEF Listed
  <2>2. PICK r2 : IsList(o, r2, m2)
    BY <2>1
  <2>3. r2 \in [1 .. m2 -> InUse(o)] /\ InUse(o)' = InUse(o)
    BY <2>2, <1>18, <1>20 DEF IsList, Enumerates
  <2>4. a \notin InUse(o) /\ b \notin InUse(o) /\ n \notin InUse(o)
    BY <1>15, <1>20, SidesApart
  <2>5. \A i \in 1 .. m2 : /\ next_entry_'[r2[i]] = next_entry_[r2[i]]
                           /\ prev_entry_'[r2[i]] = prev_entry_[r2[i]]
    <3>1. ASSUME NEW x \in InUse(o)
          PROVE  next_entry_'[x] = next_entry_[x] /\ prev_entry_'[x] = prev_entry_[x]
      <4>1. x \in Nodes /\ x # a /\ x # b /\ x # n
        BY <2>4 DEF InUse
      <4> QED BY <4>1, <1>4, <1>8
    <3> QED BY <3>1, <2>3
  <2>6. Ring(r2, m2, next_entry_', prev_entry_')
    BY <2>2, <2>5, RingApart DEF IsList
  <2>7. head'[o] = head[o]
    BY <1>4, <1>8, <1>20
  <2>8. IsList(o, r2, m2)'
    BY <2>2, <2>3, <2>6, <2>7, <1>4 DEF IsList
  <2> QED BY <2>8
<1>21. Listed'
  <2>1. ASSUME NEW o \in Side PROVE \E m2 \in Nat : \E r2 : IsList(o, r2, m2)'
    <3>1. CASE o = s
      <4>1. m - 1 \in Nat
        BY <1>12
      <4> QED BY <4>1, <3>1, <1>19
    <3> QED BY <3>1, <1>20
  <2> QED BY <2>1 DEF Listed
<1> QED BY <1>21

(* Together: a level less keeps the invariant.                             *)
LEMMA RemoveKeeps ==
  ASSUME IInv, NEW s \in Side, NEW p \in Prices, removeOrdersAtPrice(s, p)
  PROVE  IInv'
<1>1. headLost => headLost'
  <2>1. PICK c \in BOOLEAN : headLost' = (headLost \/ c)
    BY Zenon DEF removeOrdersAtPrice
  <2> QED BY <2>1, Zenon
<1>2. Linked'
  BY RemoveKeepsLinks DEF IInv
<1>3. ASSUME ~headLost' PROVE Listed'
  BY <1>1, <1>3, RemoveKeepsLists DEF IInv
<1> QED BY <1>2, <1>3 DEF IInv

-----------------------------------------------------------------------------
(* The theorems *)

(* Every step keeps the invariant. *)
LEMMA IInvInductive == IInv /\ [Next]_vars => IInv'
<1> SUFFICES ASSUME IInv, [Next]_vars PROVE IInv'
  OBVIOUS
<1>1. ASSUME NEW s \in Side, NEW p \in Prices, addOrdersAtPrice(s, p) PROVE IInv'
  BY <1>1, AddKeeps
<1>2. ASSUME NEW s \in Side, NEW p \in Prices, joinLevel(s, p) \/ leaveLevel(s, p) PROVE IInv'
  BY <1>2, JoinKeeps
<1>3. ASSUME NEW s \in Side, NEW p \in Prices, removeOrdersAtPrice(s, p) PROVE IInv'
  BY <1>3, RemoveKeeps
<1>4. CASE UNCHANGED vars
  <2> USE <1>4 DEF vars, poolVars, sideVars
  <2>1. Linked'
    BY DEF IInv, Linked, PoolInv, PoolTypeOK, PoolExhaustedOnlyWhenFull, TypeOK, Indexed, Manned, Mirrored
  <2>2. ~headLost => Listed'
    BY DEF IInv, Listed, IsList, InUse
  <2> QED BY <2>1, <2>2 DEF IInv
<1> QED BY <1>1, <1>2, <1>3, <1>4 DEF Next

(* The list behind the pointers is what the walk from the head meets. *)
LEMMA ListsAreWalked == IInv => ListsHoldLevels
<1> SUFFICES ASSUME Linked, Listed, NEW s \in Side
             PROVE  /\ Range(walk(s)) = InUse(s)
                    /\ \A i, j \in DOMAIN walk(s) : i < j => Better(s, price_[walk(s)[i]], walk(s)[j])
  BY DEF ListsHoldLevels, InUse, IInv
<1>1. PICK m \in Nat : \E r : IsList(s, r, m)
  BY DEF Listed
<1>2. PICK r : IsList(s, r, m)
  BY <1>1
<1>3. Enumerates(r, m, InUse(s)) /\ Sorted(s, r, m, price_)
  BY <1>2 DEF IsList
<1>4. m <= NumElems
  <2>1. InUse(s) \in SUBSET Nodes
    BY DEF InUse
  <2> QED BY <2>1, <1>3, EnumerationFits
<1>5. walk(s) = r
  BY <1>2, <1>4, WalkIsList
<1>6. DOMAIN r = 1 .. m /\ Range(r) = InUse(s)
  BY <1>3 DEF Enumerates, Range
<1>7. \A i, j \in 1 .. m : i < j => Better(s, price_[r[i]], r[j])
  BY <1>3 DEF Sorted, Before, Better
<1> QED BY <1>5, <1>6, <1>7

(* Mirrored says it of every ring. *)
LEMMA RingsMirror == IInv => BackLinksMirror
BY NullAssumption DEF IInv, Linked, Mirrored, BackLinksMirror

(* Both order books' price levels, for any prices and any size of the pool *)
(* and after any history of levels added, joined by crossing orders, left  *)
(* and removed: the list of a side, followed from its head, holds exactly  *)
(* the levels of that side in use, from the best price to the worst.  So   *)
(* match() finds the best level at the head, and the search of             *)
(* addOrdersAtPrice always ends in the right place.  The one way out is    *)
(* for an order to be the last to leave the best level of the other side;  *)
(* where orders never cross there is none.                                 *)
THEOREM ListsAlwaysHoldLevels == Spec => []ListsHoldLevels
BY InitIInv, IInvInductive, ListsAreWalked, PTL DEF Spec

(* The back links, which the removal of a level and the append at the end  *)
(* rely on, always mirror the forward links, whichever side a reused block *)
(* was on before, and also after a head has been lost.                     *)
THEOREM LinksAlwaysMirror == Spec => []BackLinksMirror
BY InitIInv, IInvInductive, RingsMirror, PTL DEF Spec

(* The same holds of the pool as the books use it: the block that the next *)
(* level gets is free, or every block holds a level.                       *)
THEOREM LevelsExhaustPoolOnlyWhenFull == Spec => []PoolExhaustedOnlyWhenFull
<1>1. IInv => PoolExhaustedOnlyWhenFull
  BY DEF IInv, Linked, PoolInv
<1> QED BY <1>1, InitIInv, IInvInductive, PTL DEF Spec
=============================================================================
