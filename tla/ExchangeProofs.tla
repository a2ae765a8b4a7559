--------------------------- MODULE ExchangeProofs ---------------------------
(***************************************************************************)
(* Proofs about MEOrderBook and Exchange, for any clients, ids, prices and *)
(* quantities.  First the book: it is never crossed, its price-only level  *)
(* index is never shared by the two sides, no dangling pointer is kept for *)
(* cancel(), and fills follow price-time priority.  Then, on top of the    *)
(* book's invariant, what leaves the engine: the snapshot built from the   *)
(* market updates is always the book, and what the responses tell each     *)
(* client is always what the book holds for it.                            *)
(***************************************************************************)
EXTENDS Exchange, SequenceTheorems, TLAPS

-----------------------------------------------------------------------------
(* The matching engine's book *)

(* Market order ids are handed out in increasing order, and the order      *)
(* being handled is younger than every resting one.                        *)
IdsBounded ==
  \A p \in Prices : \A i \in DOMAIN Level(p) :
    /\ Level(p)[i].market_order_id_ < next_market_order_id_
    /\ aggressor # Idle => Level(p)[i].market_order_id_ < aggressor.market_order_id_
AggressorBounded ==
  aggressor # Idle =>
    /\ aggressor.market_order_id_ # None
    /\ aggressor.market_order_id_ < next_market_order_id_

(* The inductive invariant. *)
IInv ==
  /\ TypeOK
  /\ LevelsConsistent
  /\ NotCrossed
  /\ PrioritiesFollowTime
  /\ IdsBounded
  /\ AggressorBounded
  /\ NoDanglingOrder

-----------------------------------------------------------------------------
(* Removing the i-th element leaves the others, in order. *)
LEMMA RemoveAtProperties ==
  ASSUME NEW S, NEW s \in Seq(S), NEW i \in 1 .. Len(s)
  PROVE  /\ RemoveAt(s, i) \in Seq(S)
         /\ Len(RemoveAt(s, i)) = Len(s) - 1
         /\ \A k \in 1 .. Len(s) - 1 :
              RemoveAt(s, i)[k] = IF k < i THEN s[k] ELSE s[k + 1]
<1>1. Len(s) \in Nat /\ s \in [1 .. Len(s) -> S]
  OBVIOUS
<1> DEFINE front == SubSeq(s, 1, i - 1)
           back == SubSeq(s, i + 1, Len(s))
<1>2. /\ front \in Seq(S) /\ Len(front) = i - 1
      /\ \A k \in 1 .. i - 1 : front[k] = s[k]
  BY <1>1, SubSeqProperties
<1>3. /\ back \in Seq(S) /\ Len(back) = Len(s) - i
      /\ \A k \in 1 .. Len(s) - i : back[k] = s[k + i]
  <2>1. i + 1 \in Int /\ Len(s) \in Int /\ \A j \in (i + 1) .. Len(s) : s[j] \in S
    BY <1>1
  <2>2. /\ back \in Seq(S)
        /\ Len(back) = IF i + 1 <= Len(s) THEN Len(s) - (i + 1) + 1 ELSE 0
        /\ \A k \in 1 .. Len(s) - (i + 1) + 1 : back[k] = s[(i + 1) + k - 1]
    BY <2>1, SubSeqProperties
  <2> HIDE DEF back
  <2>3. Len(s) - (i + 1) + 1 = Len(s) - i
    BY <1>1
  <2>4. \A k \in 1 .. Len(s) - i : (i + 1) + k - 1 = k + i
    BY <1>1
  <2>5. Len(back) = Len(s) - i
    <3>1. CASE i + 1 <= Len(s)
      BY <2>2, <2>3, <3>1
    <3>2. CASE ~(i + 1 <= Len(s))
      <4>1. Len(back) = 0
        BY <2>2, <3>2
      <4>2. Len(s) - i = 0
        <5>1. Len(s) \in Nat /\ i \in Nat /\ i <= Len(s)
          BY <1>1
        <5> QED
          BY <5>1, <3>2
      <4> QED
        BY <4>1, <4>2
    <3> QED
      BY <3>1, <3>2
  <2>6. \A k \in 1 .. Len(s) - i : back[k] = s[k + i]
    BY <2>2, <2>3, <2>4
  <2> QED
    BY <2>2, <2>5, <2>6
<1>4. RemoveAt(s, i) = front \o back
  BY DEF RemoveAt
<1> HIDE DEF front, back
<1>5. /\ front \o back \in Seq(S)
      /\ Len(front \o back) = Len(front) + Len(back)
      /\ \A k \in 1 .. Len(front) + Len(back) :
           (front \o back)[k] = IF k <= Len(front) THEN front[k] ELSE back[k - Len(front)]
  BY <1>2, <1>3, ConcatProperties
<1>6. Len(front) + Len(back) = Len(s) - 1
  BY <1>1, <1>2, <1>3
<1>7. ASSUME NEW k \in 1 .. Len(s) - 1
      PROVE  (front \o back)[k] = IF k < i THEN s[k] ELSE s[k + 1]
  <2>1. CASE k < i
    BY <1>1, <1>2, <1>5, <1>6, <2>1
  <2>2. CASE ~(k < i)
    <3>1. k - Len(front) \in 1 .. Len(s) - i /\ (k - Len(front)) + i = k + 1
      BY <1>1, <1>2, <2>2
    <3>2. (front \o back)[k] = back[k - Len(front)]
      BY <1>1, <1>2, <1>5, <1>6, <2>2
    <3>3. back[k - Len(front)] = s[(k - Len(front)) + i]
      BY <1>3, <3>1
    <3> QED
      BY <3>1, <3>2, <3>3, <2>2
  <2> QED
    BY <2>1, <2>2
<1> QED
  BY <1>4, <1>5, <1>6, <1>7

-----------------------------------------------------------------------------
(* What the type invariant says of a level and of its orders. *)
LEMMA LevelType ==
  ASSUME TypeOK, NEW p \in Prices
  PROVE  /\ Level(p) \in Seq(MEOrder)
         /\ Len(Level(p)) \in Nat
         /\ DOMAIN Level(p) = 1 .. Len(Level(p))
         /\ \A i \in DOMAIN Level(p) : Level(p)[i] \in MEOrder
         /\ Level(p) = << >> <=> Len(Level(p)) = 0
BY DEF TypeOK, Level

(* removeOrder, cell by cell: every order but one is still there, and the  *)
(* level is unlinked exactly when it was the last one.                     *)
LEMMA RemoveOrderEffect ==
  ASSUME TypeOK, NEW p \in Prices, NEW i \in DOMAIN Level(p), removeOrder(p, i)
  PROVE  /\ price_orders_at_price_' \in [Prices -> Seq(MEOrder)]
         /\ by_price_' \in [Side -> SUBSET Prices]
         /\ cid_oid_to_order_' \in [Clients -> [OrderIds -> Nat]]
         /\ \A q \in Prices : q # p => price_orders_at_price_'[q] = Level(q)
         /\ DOMAIN price_orders_at_price_'[p] = 1 .. Len(Level(p)) - 1
         /\ \A k \in 1 .. Len(Level(p)) - 1 :
              price_orders_at_price_'[p][k] =
                IF k < i THEN Level(p)[k] ELSE Level(p)[k + 1]
         /\ price_orders_at_price_'[p] = << >> <=> Len(Level(p)) = 1
<1>1. /\ Level(p) \in Seq(MEOrder) /\ Len(Level(p)) \in Nat
      /\ i \in 1 .. Len(Level(p)) /\ Level(p)[i] \in MEOrder
  BY LevelType
<1>2. price_orders_at_price_' = [price_orders_at_price_ EXCEPT ![p] = RemoveAt(Level(p), i)]
  BY DEF removeOrder, Level
<1>3. /\ RemoveAt(Level(p), i) \in Seq(MEOrder)
      /\ Len(RemoveAt(Level(p), i)) = Len(Level(p)) - 1
      /\ \A k \in 1 .. Len(Level(p)) - 1 :
           RemoveAt(Level(p), i)[k] = IF k < i THEN Level(p)[k] ELSE Level(p)[k + 1]
  BY <1>1, RemoveAtProperties
<1>4. price_orders_at_price_' \in [Prices -> Seq(MEOrder)]
  BY <1>2, <1>3 DEF TypeOK
<1>5. price_orders_at_price_'[p] = RemoveAt(Level(p), i)
  BY <1>2 DEF TypeOK
<1>6. \A q \in Prices : q # p => price_orders_at_price_'[q] = Level(q)
  BY <1>2 DEF TypeOK, Level
<1>7. by_price_' \in [Side -> SUBSET Prices]
  BY <1>1 DEF removeOrder, TypeOK, MEOrder
<1>8. cid_oid_to_order_' \in [Clients -> [OrderIds -> Nat]]
  BY <1>1 DEF removeOrder, TypeOK, MEOrder, None
<1>9. DOMAIN price_orders_at_price_'[p] = 1 .. Len(Level(p)) - 1
  BY <1>3, <1>5
<1>10. price_orders_at_price_'[p] = << >> <=> Len(Level(p)) = 1
  BY <1>1, <1>3, <1>5
<1> QED
  BY <1>3, <1>4, <1>5, <1>6, <1>7, <1>8, <1>9, <1>10

(* A handler that removes one order keeps the invariant, whether match()   *)
(* exhausts the order or cancel() takes it out.                            *)
LEMMA RemoveKeeps ==
  ASSUME IInv, NEW p \in Prices, NEW i \in DOMAIN Level(p), removeOrder(p, i),
         next_market_order_id_' = next_market_order_id_, used' = used,
         aggressor' \in Aggressor \cup {Idle},
         aggressor' = Idle <=> aggressor = Idle,
         aggressor # Idle => aggressor'.market_order_id_ = aggressor.market_order_id_
  PROVE  IInv'
<1> DEFINE NewLevel(q) == price_orders_at_price_'[q]
<1>t. /\ TypeOK /\ LevelsConsistent /\ NotCrossed /\ PrioritiesFollowTime
      /\ IdsBounded /\ AggressorBounded /\ NoDanglingOrder
  BY DEF IInv
<1>l. /\ Len(Level(p)) \in Nat /\ i \in 1 .. Len(Level(p)) /\ DOMAIN Level(p) = 1 .. Len(Level(p))
      /\ \A k \in DOMAIN Level(p) : Level(p)[k] \in MEOrder
  BY <1>t, LevelType
<1>e. /\ price_orders_at_price_' \in [Prices -> Seq(MEOrder)]
      /\ by_price_' \in [Side -> SUBSET Prices]
      /\ cid_oid_to_order_' \in [Clients -> [OrderIds -> Nat]]
      /\ \A q \in Prices : q # p => NewLevel(q) = Level(q)
      /\ DOMAIN NewLevel(p) = 1 .. Len(Level(p)) - 1
      /\ \A k \in 1 .. Len(Level(p)) - 1 :
           NewLevel(p)[k] = IF k < i THEN Level(p)[k] ELSE Level(p)[k + 1]
      /\ NewLevel(p) = << >> <=> Len(Level(p)) = 1
  BY <1>t, RemoveOrderEffect
<1> HIDE DEF NewLevel
(* each order of a new level is an order of the old one, further down it   *)
<1>s. ASSUME NEW q \in Prices, NEW k \in DOMAIN NewLevel(q)
      PROVE  \E j \in DOMAIN Level(q) :
               /\ NewLevel(q)[k] = Level(q)[j]
               /\ j = IF q = p /\ k >= i THEN k + 1 ELSE k
  <2>1. CASE q # p
    BY <1>e, <2>1
  <2>2. CASE q = p /\ k < i
    BY <1>e, <1>l, <2>2
  <2>3. CASE q = p /\ ~(k < i)
    <3>1. k \in 1 .. Len(Level(p)) - 1 /\ k + 1 \in DOMAIN Level(p) /\ k >= i
      BY <1>e, <1>l, <2>3
    <3> QED
      BY <1>e, <3>1, <2>3
  <2> QED
    BY <2>1, <2>2, <2>3
<1>1. TypeOK'
  BY <1>t, <1>e DEF TypeOK
<1>2. /\ \A s \in Side : by_price_'[s] \subseteq by_price_[s]
      /\ \A s \in Side : \A q \in by_price_[s] : q # p => q \in by_price_'[s]
      /\ Len(Level(p)) # 1 => by_price_' = by_price_
      /\ Len(Level(p)) = 1 => p \notin by_price_'[Level(p)[i].side_]
  BY <1>t, <1>l DEF removeOrder, TypeOK, MEOrder
<1>3. LevelsConsistent'
  <2>1. ASSUME NEW q \in Prices, NEW k \in DOMAIN NewLevel(q)
        PROVE  /\ NewLevel(q)[k].price_ = q
               /\ NewLevel(q)[k].qty_ > 0
               /\ \A s \in Side : q \in by_price_'[s] <=> s = NewLevel(q)[k].side_
    <3>1. PICK j \in DOMAIN Level(q) : NewLevel(q)[k] = Level(q)[j]
      BY <1>s, <2>1
    <3>2. q = p => Len(Level(p)) # 1
      BY <1>e, <1>l, <2>1
    <3>3. \A s \in Side : q \in by_price_'[s] <=> q \in by_price_[s]
      BY <1>2, <3>2
    <3> QED
      BY <1>t, <3>1, <3>3 DEF LevelsConsistent
  <2>2. ASSUME NEW s \in Side, NEW q \in by_price_'[s]
        PROVE  NewLevel(q) # << >>
    <3>1. q \in by_price_[s] /\ q \in Prices
      BY <1>t, <1>2, <2>2 DEF TypeOK
    <3>2. CASE q # p
      BY <1>t, <1>e, <3>1, <3>2 DEF LevelsConsistent
    <3>3. CASE q = p
      <4>1. s = Level(p)[i].side_
        BY <1>t, <3>1, <3>3 DEF LevelsConsistent
      <4> QED
        BY <1>2, <1>e, <2>2, <3>3, <4>1
    <3> QED
      BY <3>2, <3>3
  <2> QED
    BY <2>1, <2>2 DEF LevelsConsistent, Level, NewLevel
<1>4. NotCrossed'
  BY <1>t, <1>2 DEF NotCrossed, Side
<1>5. PrioritiesFollowTime'
  <2> SUFFICES ASSUME NEW q \in Prices, NEW k \in DOMAIN NewLevel(q),
                      NEW m \in DOMAIN NewLevel(q), k < m
               PROVE  /\ NewLevel(q)[k].priority_ < NewLevel(q)[m].priority_
                      /\ NewLevel(q)[k].market_order_id_ < NewLevel(q)[m].market_order_id_
    BY DEF PrioritiesFollowTime, Level, NewLevel
  <2>1. PICK j \in DOMAIN Level(q) :
          NewLevel(q)[k] = Level(q)[j] /\ j = IF q = p /\ k >= i THEN k + 1 ELSE k
    BY <1>s
  <2>2. PICK n \in DOMAIN Level(q) :
          NewLevel(q)[m] = Level(q)[n] /\ n = IF q = p /\ m >= i THEN m + 1 ELSE m
    BY <1>s
  <2>3. DOMAIN Level(q) \subseteq Nat /\ DOMAIN NewLevel(q) \subseteq Nat
    BY <1>t, <1>e, <1>l, LevelType
  <2>4. j < n
    BY <1>l, <2>1, <2>2, <2>3
  <2> QED
    BY <1>t, <2>1, <2>2, <2>4 DEF PrioritiesFollowTime
<1>6. IdsBounded' /\ AggressorBounded'
  <2>1. AggressorBounded'
    BY <1>t DEF AggressorBounded
  <2>2. ASSUME NEW q \in Prices, NEW k \in DOMAIN NewLevel(q)
        PROVE  /\ NewLevel(q)[k].market_order_id_ < next_market_order_id_'
               /\ aggressor' # Idle => NewLevel(q)[k].market_order_id_ < aggressor'.market_order_id_
    <3>1. PICK j \in DOMAIN Level(q) : NewLevel(q)[k] = Level(q)[j]
      BY <1>s, <2>2
    <3> QED
      BY <1>t, <3>1 DEF IdsBounded
  <2> QED
    BY <2>1, <2>2 DEF IdsBounded, Level, NewLevel
<1>7. NoDanglingOrder'
  <2> DEFINE gone == Level(p)[i]
  <2> SUFFICES ASSUME NEW c \in Clients, NEW o \in OrderIds, cid_oid_to_order_'[c][o] # None
               PROVE  \E q \in Prices : \E k \in DOMAIN NewLevel(q) :
                        /\ NewLevel(q)[k].market_order_id_ = cid_oid_to_order_'[c][o]
                        /\ NewLevel(q)[k].client_id_ = c
                        /\ NewLevel(q)[k].client_order_id_ = o
    BY DEF NoDanglingOrder, Level, NewLevel
  <2>1. gone \in MEOrder
    BY <1>l
  <2>2. cid_oid_to_order_'[c][o] = cid_oid_to_order_[c][o]
        /\ ~(c = gone.client_id_ /\ o = gone.client_order_id_)
    BY <1>t, <2>1 DEF removeOrder, TypeOK, MEOrder
  <2>q. PICK q \in Prices : \E j \in DOMAIN Level(q) :
          /\ Level(q)[j].market_order_id_ = cid_oid_to_order_[c][o]
          /\ Level(q)[j].client_id_ = c
          /\ Level(q)[j].client_order_id_ = o
    BY <1>t, <2>2 DEF NoDanglingOrder
  <2>3. PICK j \in DOMAIN Level(q) :
          /\ Level(q)[j].market_order_id_ = cid_oid_to_order_[c][o]
          /\ Level(q)[j].client_id_ = c
          /\ Level(q)[j].client_order_id_ = o
    BY <2>q
  <2>4. CASE q # p
    BY <1>e, <2>2, <2>3, <2>4
  <2>5. CASE q = p
    <3>1. j # i /\ j \in 1 .. Len(Level(p))
      BY <1>l, <2>2, <2>3, <2>5
    <3>2. CASE j < i
      <4>1. j \in DOMAIN NewLevel(p) /\ NewLevel(p)[j] = Level(p)[j]
        BY <1>e, <1>l, <3>1, <3>2
      <4> QED
        BY <2>2, <2>3, <2>5, <4>1
    <3>3. CASE j > i
      <4>1. /\ j - 1 \in DOMAIN NewLevel(p) /\ ~(j - 1 < i) /\ (j - 1) + 1 = j
            /\ j - 1 \in 1 .. Len(Level(p)) - 1
        BY <1>e, <1>l, <3>1, <3>3
      <4>2. NewLevel(p)[j - 1] = Level(p)[j]
        BY <1>e, <4>1
      <4> QED
        BY <2>2, <2>3, <2>5, <4>1, <4>2
    <3> QED
      BY <1>l, <3>1, <3>2, <3>3
  <2> QED
    BY <2>4, <2>5
<1> QED
  BY <1>1, <1>3, <1>4, <1>5, <1>6, <1>7 DEF IInv

(* A handler that leaves the book alone keeps the invariant if it keeps    *)
(* the ids in order.                                                       *)
LEMMA BookUnchangedKeeps ==
  ASSUME IInv, UNCHANGED book, next_market_order_id_' \in Nat \ {None},
         next_market_order_id_' >= next_market_order_id_,
         used' \subseteq Clients \X OrderIds,
         aggressor' \in Aggressor \cup {Idle},
         aggressor' # Idle =>
           \/ /\ aggressor'.market_order_id_ = next_market_order_id_
              /\ next_market_order_id_ < next_market_order_id_'
           \/ aggressor' = aggressor
  PROVE  IInv'
<1>t. /\ TypeOK /\ LevelsConsistent /\ NotCrossed /\ PrioritiesFollowTime
      /\ IdsBounded /\ AggressorBounded /\ NoDanglingOrder
  BY DEF IInv
<1>1. TypeOK'
  BY <1>t DEF TypeOK, book
<1>2. LevelsConsistent' /\ NotCrossed' /\ PrioritiesFollowTime' /\ NoDanglingOrder'
  BY <1>t DEF book, LevelsConsistent, NotCrossed, PrioritiesFollowTime, NoDanglingOrder, Level
<1>3. next_market_order_id_ \in Nat \ {None}
  BY <1>t DEF TypeOK
<1>4. aggressor # Idle => aggressor.market_order_id_ \in Nat
  BY <1>t DEF TypeOK, Aggressor
<1>5. AggressorBounded'
  BY <1>t, <1>3, <1>4 DEF AggressorBounded, None
<1>6. IdsBounded'
  <2> SUFFICES ASSUME NEW p \in Prices, NEW i \in DOMAIN Level(p)
               PROVE  /\ Level(p)[i].market_order_id_ < next_market_order_id_'
                      /\ aggressor' # Idle =>
                           Level(p)[i].market_order_id_ < aggressor'.market_order_id_
    BY DEF IdsBounded, Level, book
  <2>1. Level(p)[i].market_order_id_ \in Nat
    BY <1>t, LevelType DEF MEOrder
  <2> QED
    BY <1>t, <1>3, <1>4, <2>1 DEF IdsBounded
<1> QED
  BY <1>1, <1>2, <1>5, <1>6 DEF IInv

(* match() that leaves something of the passive order keeps the invariant: *)
(* only a quantity changes, and it stays positive.                         *)
LEMMA PartialKeeps ==
  ASSUME IInv, NEW p \in Prices, Level(p) # << >>, NEW qty \in Nat \ {0},
         price_orders_at_price_' = [price_orders_at_price_ EXCEPT ![p][1].qty_ = qty],
         UNCHANGED <<by_price_, cid_oid_to_order_, next_market_order_id_, used>>,
         aggressor # Idle,
         aggressor' \in Aggressor,
         aggressor'.market_order_id_ = aggressor.market_order_id_
  PROVE  IInv'
<1> DEFINE NewLevel(q) == price_orders_at_price_'[q]
<1>t. /\ TypeOK /\ LevelsConsistent /\ NotCrossed /\ PrioritiesFollowTime
      /\ IdsBounded /\ AggressorBounded /\ NoDanglingOrder
  BY DEF IInv
<1>l. /\ Level(p) \in Seq(MEOrder) /\ Len(Level(p)) \in Nat /\ 1 \in DOMAIN Level(p)
      /\ DOMAIN Level(p) = 1 .. Len(Level(p)) /\ Level(p)[1] \in MEOrder
  BY <1>t, LevelType
<1> DEFINE new == [Level(p)[1] EXCEPT !.qty_ = qty]
<1>n. new \in MEOrder
  BY <1>l DEF MEOrder
<1>f. /\ new.qty_ = qty /\ new.price_ = Level(p)[1].price_ /\ new.side_ = Level(p)[1].side_
      /\ new.market_order_id_ = Level(p)[1].market_order_id_
      /\ new.client_id_ = Level(p)[1].client_id_
      /\ new.client_order_id_ = Level(p)[1].client_order_id_
      /\ new.priority_ = Level(p)[1].priority_
  BY <1>l DEF MEOrder
<1>p. price_orders_at_price_' =
        [price_orders_at_price_ EXCEPT ![p] = [Level(p) EXCEPT ![1] = new]]
  BY DEF Level
<1> HIDE DEF new
<1>1. price_orders_at_price_' \in [Prices -> Seq(MEOrder)]
  <2>1. [Level(p) EXCEPT ![1] = new] \in Seq(MEOrder)
    BY <1>l, <1>n
  <2> QED
    BY <1>t, <1>p, <2>1 DEF TypeOK
<1>2. NewLevel(p) = [Level(p) EXCEPT ![1] = new]
  BY <1>t, <1>p DEF TypeOK
<1>3. \A q \in Prices : q # p => NewLevel(q) = Level(q)
  BY <1>t, <1>p DEF TypeOK, Level
<1>4. \A q \in Prices : DOMAIN NewLevel(q) = DOMAIN Level(q)
  BY <1>2, <1>3
<1>5. ASSUME NEW q \in Prices, NEW k \in DOMAIN Level(q)
      PROVE  /\ NewLevel(q)[k].market_order_id_ = Level(q)[k].market_order_id_
             /\ NewLevel(q)[k].client_id_ = Level(q)[k].client_id_
             /\ NewLevel(q)[k].client_order_id_ = Level(q)[k].client_order_id_
             /\ NewLevel(q)[k].side_ = Level(q)[k].side_
             /\ NewLevel(q)[k].price_ = Level(q)[k].price_
             /\ NewLevel(q)[k].priority_ = Level(q)[k].priority_
             /\ NewLevel(q)[k].qty_ > 0
  <2>1. CASE q = p /\ k = 1
    <3>1. NewLevel(q)[k] = new
      BY <1>2, <1>l, <2>1
    <3> HIDE DEF NewLevel
    <3> QED
      BY <1>f, <2>1, <3>1
  <2>2. CASE ~(q = p /\ k = 1)
    <3>1. NewLevel(q)[k] = Level(q)[k]
      BY <1>2, <1>3, <1>5, <1>l, <2>2
    <3> QED
      BY <3>1, <1>t DEF LevelsConsistent
  <2> QED
    BY <2>1, <2>2
<1>6. \A q \in Prices : NewLevel(q) = << >> <=> Level(q) = << >>
  <2>1. NewLevel(p) # << >>
    <3>1. 1 \in DOMAIN NewLevel(p)
      BY <1>4, <1>l
    <3>2. 1 \notin DOMAIN << >>
      OBVIOUS
    <3> QED
      BY <3>1, <3>2
  <2> QED
    BY <1>3, <2>1
<1> HIDE DEF NewLevel
<1>7. TypeOK'
  BY <1>t, <1>1 DEF TypeOK
<1>8. LevelsConsistent'
  <2>1. ASSUME NEW q \in Prices, NEW k \in DOMAIN NewLevel(q)
        PROVE  /\ NewLevel(q)[k].price_ = q
               /\ NewLevel(q)[k].qty_ > 0
               /\ \A s \in Side : q \in by_price_'[s] <=> s = NewLevel(q)[k].side_
    BY <1>t, <1>4, <1>5, <2>1 DEF LevelsConsistent
  <2>2. \A s \in Side : \A q \in by_price_'[s] : NewLevel(q) # << >>
    BY <1>t, <1>6 DEF LevelsConsistent, TypeOK
  <2> QED
    BY <2>1, <2>2 DEF LevelsConsistent, Level, NewLevel
<1>9. NotCrossed'
  BY <1>t DEF NotCrossed
<1>10. PrioritiesFollowTime'
  <2>1. \A q \in Prices : \A k, m \in DOMAIN NewLevel(q) :
          k < m => /\ NewLevel(q)[k].priority_ < NewLevel(q)[m].priority_
                   /\ NewLevel(q)[k].market_order_id_ < NewLevel(q)[m].market_order_id_
    BY <1>t, <1>4, <1>5 DEF PrioritiesFollowTime
  <2> QED
    BY <2>1 DEF PrioritiesFollowTime, Level, NewLevel
<1>11. IdsBounded' /\ AggressorBounded'
  <2>1. aggressor' # Idle => aggressor # Idle
    OBVIOUS
  <2>2. \A q \in Prices : \A k \in DOMAIN NewLevel(q) :
          /\ NewLevel(q)[k].market_order_id_ < next_market_order_id_'
          /\ aggressor' # Idle => NewLevel(q)[k].market_order_id_ < aggressor'.market_order_id_
    BY <1>t, <1>4, <1>5 DEF IdsBounded
  <2>3. AggressorBounded'
    BY <1>t DEF AggressorBounded
  <2> QED
    BY <2>2, <2>3 DEF IdsBounded, Level, NewLevel
<1>12. NoDanglingOrder'
  <2>1. \A c \in Clients, o \in OrderIds :
          cid_oid_to_order_'[c][o] # None =>
            \E q \in Prices : \E k \in DOMAIN NewLevel(q) :
              /\ NewLevel(q)[k].market_order_id_ = cid_oid_to_order_'[c][o]
              /\ NewLevel(q)[k].client_id_ = c
              /\ NewLevel(q)[k].client_order_id_ = o
    BY <1>t, <1>4, <1>5 DEF NoDanglingOrder
  <2> QED
    BY <2>1 DEF NoDanglingOrder, Level, NewLevel
<1> QED
  BY <1>7, <1>8, <1>9, <1>10, <1>11, <1>12 DEF IInv

(* Resting the remainder keeps the invariant.  The loop of checkForMatch   *)
(* has stopped, so the price is not reached by the other side: the level   *)
(* it joins is of its own side, and the book stays uncrossed.              *)
LEMMA RestKeeps ==
  ASSUME IInv, Rest
  PROVE  IInv'
<1> DEFINE NewLevel(q) == price_orders_at_price_'[q]
           p == aggressor.price_
           side == aggressor.side_
<1> USE PricesAssumption
<1>t. /\ TypeOK /\ LevelsConsistent /\ NotCrossed /\ PrioritiesFollowTime
      /\ IdsBounded /\ AggressorBounded /\ NoDanglingOrder
  BY DEF IInv
<1>a. /\ aggressor \in Aggressor /\ aggressor.leaves_ > 0 /\ p \in Prices /\ side \in Side
      /\ aggressor.leaves_ \in Nat /\ aggressor.market_order_id_ \in Nat
      /\ aggressor.client_id_ \in Clients /\ aggressor.client_order_id_ \in OrderIds
  BY <1>t DEF Rest, TypeOK, Aggressor
<1>l. /\ Level(p) \in Seq(MEOrder) /\ Len(Level(p)) \in Nat
      /\ DOMAIN Level(p) = 1 .. Len(Level(p))
      /\ \A k \in DOMAIN Level(p) : Level(p)[k] \in MEOrder
      /\ Level(p) = << >> <=> Len(Level(p)) = 0
  BY <1>a, <1>t, LevelType
<1>g. getNextPriority(p) \in Nat
  <2>1. CASE Level(p) = << >>
    BY <2>1 DEF getNextPriority
  <2>2. CASE Level(p) # << >>
    <3>1. Level(p)[Len(Level(p))] \in MEOrder
      BY <1>l, <2>2
    <3>2. Level(p)[Len(Level(p))].priority_ \in Nat
      BY <3>1 DEF MEOrder
    <3> QED
      BY <2>2, <3>2 DEF getNextPriority
  <2> QED
    BY <2>1, <2>2
<1> DEFINE order == [market_order_id_ |-> aggressor.market_order_id_,
                     client_id_ |-> aggressor.client_id_,
                     client_order_id_ |-> aggressor.client_order_id_,
                     side_ |-> side, price_ |-> p,
                     qty_ |-> aggressor.leaves_, priority_ |-> getNextPriority(p)]
<1>o. order \in MEOrder
  BY <1>a, <1>g DEF MEOrder
<1>f. /\ order.market_order_id_ = aggressor.market_order_id_
      /\ order.client_id_ = aggressor.client_id_
      /\ order.client_order_id_ = aggressor.client_order_id_
      /\ order.side_ = side /\ order.price_ = p /\ order.qty_ = aggressor.leaves_
      /\ order.priority_ = getNextPriority(p)
  OBVIOUS
<1>h. /\ addOrder(order) /\ aggressor' = Idle
      /\ next_market_order_id_' = next_market_order_id_ /\ used' = used
      /\ \/ by_price_[Opposite(side)] = {}
         \/ \E q \in Prices : IsBest(Opposite(side), q) /\ ~Marketable(q)
  BY DEF Rest
<1> HIDE DEF order
<1>1. /\ price_orders_at_price_' = [price_orders_at_price_ EXCEPT ![p] = Append(Level(p), order)]
      /\ by_price_' = IF Level(p) = << >> THEN [by_price_ EXCEPT ![side] = @ \cup {p}] ELSE by_price_
      /\ cid_oid_to_order_' = [cid_oid_to_order_ EXCEPT ![aggressor.client_id_][aggressor.client_order_id_] =
                                 aggressor.market_order_id_]
  BY <1>h, <1>f DEF addOrder, Level
<1>2. /\ Append(Level(p), order) \in Seq(MEOrder)
      /\ Len(Append(Level(p), order)) = Len(Level(p)) + 1
      /\ \A k \in 1 .. Len(Level(p)) : Append(Level(p), order)[k] = Level(p)[k]
      /\ Append(Level(p), order)[Len(Level(p)) + 1] = order
  BY <1>l, <1>o, AppendProperties
<1>3. /\ NewLevel(p) = Append(Level(p), order)
      /\ \A q \in Prices : q # p => NewLevel(q) = Level(q)
      /\ price_orders_at_price_' \in [Prices -> Seq(MEOrder)]
  BY <1>t, <1>a, <1>1, <1>2 DEF TypeOK, Level
<1>4. /\ DOMAIN NewLevel(p) = 1 .. Len(Level(p)) + 1
      /\ \A k \in 1 .. Len(Level(p)) : NewLevel(p)[k] = Level(p)[k]
      /\ NewLevel(p)[Len(Level(p)) + 1] = order
      /\ NewLevel(p) # << >>
  BY <1>2, <1>3, <1>l
<1> HIDE DEF NewLevel
(* every order of a new level is an old one in its place, or the new one   *)
<1>s. ASSUME NEW q \in Prices, NEW k \in DOMAIN NewLevel(q)
      PROVE  \/ k \in DOMAIN Level(q) /\ NewLevel(q)[k] = Level(q)[k]
             \/ q = p /\ k = Len(Level(p)) + 1 /\ NewLevel(q)[k] = order
  <2>1. CASE q # p
    BY <1>s, <1>3, <2>1
  <2>2. CASE q = p
    <3>1. Len(Level(p)) \in Nat /\ DOMAIN Level(p) = 1 .. Len(Level(p))
      BY <1>l
    <3>2. k \in 1 .. Len(Level(p)) + 1
      BY <1>s, <1>4, <2>2
    <3>3. k \in 1 .. Len(Level(p)) \/ k = Len(Level(p)) + 1
      BY <3>1, <3>2
    <3> QED
      BY <1>4, <2>2, <3>1, <3>3, Zenon
  <2> QED
    BY <2>1, <2>2
(* no opposite level is reached by the aggressor's price                   *)
<1>5. \A q \in by_price_[Opposite(side)] : IF side = "BUY" THEN p < q ELSE p > q
  <2>1. CASE by_price_[Opposite(side)] = {}
    BY <2>1
  <2>2. ASSUME NEW q \in Prices, IsBest(Opposite(side), q), ~Marketable(q),
               NEW r \in by_price_[Opposite(side)]
        PROVE  IF side = "BUY" THEN p < r ELSE p > r
    <3>1. r \in Int /\ q \in Int /\ p \in Int
      BY <1>a, <1>t DEF TypeOK, Opposite, Side
    <3>2. side = "BUY" \/ side = "SELL"
      BY <1>a DEF Side
    <3> QED
      BY <2>2, <3>1, <3>2 DEF IsBest, Marketable, Better, Opposite
  <2> QED
    BY <1>h, <2>1, <2>2
<1>6. p \notin by_price_[Opposite(side)]
  <2>1. p \in Int /\ ~(p < p) /\ ~(p > p)
    <3>1. p \in Int
      BY <1>a
    <3>2. \A x \in Int : ~(x < x) /\ ~(x > x)
      OBVIOUS
    <3> QED
      BY <3>1, <3>2
  <2>2. CASE side = "BUY"
    <3>1. \A q \in by_price_[Opposite(side)] : p < q
      BY <1>5, <2>2
    <3> QED
      BY <2>1, <3>1
  <2>3. CASE side = "SELL"
    <3>1. \A q \in by_price_[Opposite(side)] : p > q
      BY <1>5, <2>3
    <3> QED
      BY <2>1, <3>1
  <2> QED
    BY <1>a, <2>2, <2>3 DEF Side
<1>7. \A k \in DOMAIN Level(p) : Level(p)[k].side_ = side
  <2> TAKE k \in DOMAIN Level(p)
  <2>1. Level(p)[k].side_ \in Side /\ p \in by_price_[Level(p)[k].side_]
    BY <1>t, <1>a, <1>l DEF LevelsConsistent, MEOrder
  <2> QED
    BY <1>6, <1>a, <2>1 DEF Opposite, Side
<1>8. /\ by_price_' \in [Side -> SUBSET Prices]
      /\ by_price_'[side] = by_price_[side] \cup {p}
      /\ \A s \in Side : s # side => by_price_'[s] = by_price_[s]
  <2>1. CASE Level(p) = << >>
    BY <1>t, <1>a, <1>1, <2>1 DEF TypeOK
  <2>2. CASE Level(p) # << >>
    <3>1. 1 \in DOMAIN Level(p)
      BY <1>l, <2>2
    <3>2. p \in by_price_[side]
      <4>1. Level(p)[1].side_ = side
        BY <1>7, <3>1
      <4>2. \A s \in Side : p \in by_price_[s] <=> s = Level(p)[1].side_
        BY <1>t, <1>a, <3>1 DEF LevelsConsistent
      <4> QED
        BY <1>a, <4>1, <4>2
    <3> QED
      BY <1>t, <1>1, <2>2, <3>2 DEF TypeOK
  <2> QED
    BY <2>1, <2>2
<1>9. TypeOK'
  <2>1. cid_oid_to_order_' \in [Clients -> [OrderIds -> Nat]]
    BY <1>t, <1>a, <1>1 DEF TypeOK
  <2> QED
    BY <1>t, <1>h, <1>3, <1>8, <2>1 DEF TypeOK
<1>10. LevelsConsistent'
  <2>1. ASSUME NEW q \in Prices, NEW k \in DOMAIN NewLevel(q)
        PROVE  /\ NewLevel(q)[k].price_ = q
               /\ NewLevel(q)[k].qty_ > 0
               /\ \A s \in Side : q \in by_price_'[s] <=> s = NewLevel(q)[k].side_
    <3>1. CASE q = p /\ k = Len(Level(p)) + 1 /\ NewLevel(q)[k] = order
      <4>1. \A s \in Side : s # side => s = Opposite(side)
        BY <1>a DEF Side, Opposite
      <4> QED
        BY <1>a, <1>f, <1>6, <1>8, <3>1, <4>1
    <3>2. CASE k \in DOMAIN Level(q) /\ NewLevel(q)[k] = Level(q)[k]
      <4>1. /\ Level(q)[k].price_ = q /\ Level(q)[k].qty_ > 0
            /\ \A s \in Side : q \in by_price_[s] <=> s = Level(q)[k].side_
        BY <1>t, <3>2 DEF LevelsConsistent
      <4>2. \A s \in Side : q \in by_price_'[s] <=> q \in by_price_[s]
        BY <1>7, <1>8, <1>a, <3>2, <4>1
      <4> QED
        BY <3>2, <4>1, <4>2
    <3> QED
      BY <1>s, <2>1, <3>1, <3>2
  <2>2. ASSUME NEW s \in Side, NEW q \in by_price_'[s]
        PROVE  NewLevel(q) # << >>
    <3>1. q = p \/ q \in by_price_[s]
      BY <1>8, <2>2
    <3>2. q \in Prices
      BY <1>8, <2>2
    <3> QED
      BY <1>t, <1>3, <1>4, <3>1, <3>2 DEF LevelsConsistent
  <2> QED
    BY <2>1, <2>2 DEF LevelsConsistent, Level, NewLevel
<1>11. NotCrossed'
  <2> SUFFICES ASSUME NEW b \in by_price_'["BUY"], NEW a \in by_price_'["SELL"]
               PROVE  b < a
    BY DEF NotCrossed
  <2>1. CASE side = "BUY"
    <3>1. Opposite(side) = "SELL" /\ by_price_'["SELL"] = by_price_["SELL"]
          /\ by_price_'["BUY"] = by_price_["BUY"] \cup {p}
      BY <1>8, <2>1 DEF Opposite, Side
    <3> QED
      BY <1>t, <1>5, <2>1, <3>1 DEF NotCrossed
  <2>2. CASE side = "SELL"
    <3>1. Opposite(side) = "BUY" /\ by_price_'["BUY"] = by_price_["BUY"]
          /\ by_price_'["SELL"] = by_price_["SELL"] \cup {p}
      BY <1>8, <2>2 DEF Opposite, Side
    <3>2. by_price_["BUY"] \subseteq Int /\ p \in Int
      BY <1>t, <1>a DEF TypeOK, Side
    <3>3. CASE a = p
      BY <1>5, <2>2, <3>1, <3>2, <3>3
    <3>4. CASE a # p
      BY <1>t, <3>1, <3>4 DEF NotCrossed
    <3> QED
      BY <3>3, <3>4
  <2> QED
    BY <1>a, <2>1, <2>2 DEF Side
<1>12. PrioritiesFollowTime'
  <2> SUFFICES ASSUME NEW q \in Prices, NEW k \in DOMAIN NewLevel(q),
                      NEW m \in DOMAIN NewLevel(q), k < m
               PROVE  /\ NewLevel(q)[k].priority_ < NewLevel(q)[m].priority_
                      /\ NewLevel(q)[k].market_order_id_ < NewLevel(q)[m].market_order_id_
    BY DEF PrioritiesFollowTime, Level, NewLevel
  <2>1. CASE m \in DOMAIN Level(q) /\ NewLevel(q)[m] = Level(q)[m]
    <3>1. k \in DOMAIN Level(q) /\ NewLevel(q)[k] = Level(q)[k]
      BY <1>s, <1>l, <2>1
    <3> QED
      BY <1>t, <2>1, <3>1 DEF PrioritiesFollowTime
  <2>2. CASE q = p /\ m = Len(Level(p)) + 1 /\ NewLevel(q)[m] = order
    <3>1. k \in 1 .. Len(Level(p)) /\ NewLevel(q)[k] = Level(p)[k] /\ Len(Level(p)) \in 1 .. Len(Level(p))
      BY <1>4, <1>l, <2>2
    <3> DEFINE last == Level(p)[Len(Level(p))]
    <3>2. getNextPriority(p) = last.priority_ + 1
      BY <1>l, <3>1 DEF getNextPriority
    <3>3. Level(p)[k].priority_ \in Nat /\ last.priority_ \in Nat
      BY <1>l, <3>1 DEF MEOrder
    <3>4. k = Len(Level(p)) \/ Level(p)[k].priority_ < last.priority_
      <4>1. k = Len(Level(p)) \/ k < Len(Level(p))
        BY <1>l, <3>1
      <4>2. k \in DOMAIN Level(p) /\ Len(Level(p)) \in DOMAIN Level(p)
        BY <1>l, <3>1
      <4>3. k < Len(Level(p)) => Level(p)[k].priority_ < last.priority_
        BY <1>t, <1>a, <4>2 DEF PrioritiesFollowTime
      <4> QED
        BY <4>1, <4>3
    <3>5. Level(p)[k].priority_ < getNextPriority(p)
      BY <3>2, <3>3, <3>4
    <3>6. Level(p)[k].market_order_id_ < aggressor.market_order_id_
      BY <1>t, <1>a, <1>l, <3>1 DEF IdsBounded, Rest
    <3> QED
      BY <1>f, <2>2, <3>1, <3>5, <3>6
  <2> QED
    BY <1>s, <2>1, <2>2
<1>13. IdsBounded' /\ AggressorBounded'
  <2>1. ASSUME NEW q \in Prices, NEW k \in DOMAIN NewLevel(q)
        PROVE  NewLevel(q)[k].market_order_id_ < next_market_order_id_
    <3>1. aggressor.market_order_id_ < next_market_order_id_
      BY <1>t DEF AggressorBounded, Rest
    <3> QED
      BY <1>s, <1>t, <1>f, <2>1, <3>1 DEF IdsBounded
  <2> QED
    BY <1>h, <2>1 DEF IdsBounded, AggressorBounded, Level, NewLevel
<1>14. NoDanglingOrder'
  <2> SUFFICES ASSUME NEW c \in Clients, NEW o \in OrderIds, cid_oid_to_order_'[c][o] # None
               PROVE  \E q \in Prices : \E k \in DOMAIN NewLevel(q) :
                        /\ NewLevel(q)[k].market_order_id_ = cid_oid_to_order_'[c][o]
                        /\ NewLevel(q)[k].client_id_ = c
                        /\ NewLevel(q)[k].client_order_id_ = o
    BY DEF NoDanglingOrder, Level, NewLevel
  <2>1. CASE c = aggressor.client_id_ /\ o = aggressor.client_order_id_
    <3>1. cid_oid_to_order_'[c][o] = aggressor.market_order_id_
      BY <1>t, <1>1, <2>1 DEF TypeOK
    <3>2. Len(Level(p)) + 1 \in DOMAIN NewLevel(p)
      BY <1>4, <1>l
    <3> QED
      BY <1>a, <1>4, <1>f, <2>1, <3>1, <3>2
  <2>2. CASE ~(c = aggressor.client_id_ /\ o = aggressor.client_order_id_)
    <3>1. cid_oid_to_order_'[c][o] = cid_oid_to_order_[c][o]
      BY <1>t, <1>1, <2>2 DEF TypeOK
    <3>2. PICK q \in Prices : \E j \in DOMAIN Level(q) :
            /\ Level(q)[j].market_order_id_ = cid_oid_to_order_[c][o]
            /\ Level(q)[j].client_id_ = c
            /\ Level(q)[j].client_order_id_ = o
      BY <1>t, <3>1 DEF NoDanglingOrder
    <3>3. \A j \in DOMAIN Level(q) : j \in DOMAIN NewLevel(q) /\ NewLevel(q)[j] = Level(q)[j]
      <4>1. CASE q = p
        <5>1. \A j \in 1 .. Len(Level(p)) : j \in 1 .. Len(Level(p)) + 1
          BY <1>l
        <5> QED
          BY <1>4, <1>l, <4>1, <5>1
      <4>2. CASE q # p
        BY <1>3, <4>2
      <4> QED
        BY <4>1, <4>2
    <3> QED
      BY <3>1, <3>2, <3>3
  <2> QED
    BY <2>1, <2>2
<1> QED
  BY <1>9, <1>10, <1>11, <1>12, <1>13, <1>14 DEF IInv
-----------------------------------------------------------------------------
(* The initial state satisfies the invariant. *)
LEMMA InitIInv == Init => IInv
<1> SUFFICES ASSUME Init PROVE IInv
  OBVIOUS
<1>1. TypeOK
  BY DEF Init, TypeOK, None, Idle
<1>2. /\ \A p \in Prices : DOMAIN Level(p) = {} /\ Level(p) = << >>
      /\ by_price_["BUY"] = {} /\ by_price_["SELL"] = {}
      /\ \A s \in Side : by_price_[s] = {}
  BY DEF Init, Level, Side
<1>3. LevelsConsistent /\ NotCrossed /\ PrioritiesFollowTime
  BY <1>2 DEF LevelsConsistent, NotCrossed, PrioritiesFollowTime
<1>4. IdsBounded /\ AggressorBounded
  BY <1>2 DEF Init, IdsBounded, AggressorBounded
<1>5. NoDanglingOrder
  BY DEF Init, NoDanglingOrder
<1> QED
  BY <1>1, <1>3, <1>4, <1>5 DEF IInv

(* What match() computes from the aggressor and the first order of p. *)
LEMMA MatchFacts ==
  ASSUME IInv, NEW p \in Prices, Match(p)
  PROVE  /\ aggressor \in Aggressor /\ Level(p) # << >> /\ 1 \in DOMAIN Level(p)
         /\ Head(Level(p)) = Level(p)[1] /\ Level(p)[1].qty_ \in Nat \ {0}
         /\ aggressor.leaves_ \in Nat \ {0}
         /\ \E fill \in Nat \ {0} :
              /\ fill = IF aggressor.leaves_ <= Level(p)[1].qty_
                        THEN aggressor.leaves_ ELSE Level(p)[1].qty_
              /\ fill <= aggressor.leaves_ /\ fill <= Level(p)[1].qty_
              /\ aggressor.leaves_ - fill \in Nat
              /\ Level(p)[1].qty_ - fill \in Nat
<1>t. TypeOK /\ LevelsConsistent
  BY DEF IInv
<1>1. aggressor \in Aggressor /\ aggressor.leaves_ > 0
  BY <1>t DEF Match, TypeOK
<1>2. aggressor.leaves_ \in Nat \ {0} /\ aggressor.side_ \in Side
  BY <1>1 DEF Aggressor
<1>3. p \in by_price_[Opposite(aggressor.side_)] /\ Opposite(aggressor.side_) \in Side
  BY <1>2 DEF Match, Marketable, IsBest, Opposite, Side
<1>4. Level(p) # << >>
  BY <1>t, <1>3 DEF LevelsConsistent
<1>5. /\ Level(p) \in Seq(MEOrder) /\ Len(Level(p)) \in Nat /\ Len(Level(p)) # 0
      /\ DOMAIN Level(p) = 1 .. Len(Level(p))
      /\ \A i \in DOMAIN Level(p) : Level(p)[i] \in MEOrder
  BY <1>t, <1>4, LevelType
<1>6. 1 \in DOMAIN Level(p)
  BY <1>5
<1>7. Level(p)[1].qty_ \in Nat /\ Level(p)[1].qty_ > 0
  BY <1>t, <1>5, <1>6 DEF LevelsConsistent, MEOrder
<1>8. Head(Level(p)) = Level(p)[1]
  BY <1>4, <1>5
<1>9. ASSUME NEW a \in Nat \ {0}, NEW b \in Nat \ {0}
      PROVE  \E fill \in Nat \ {0} :
               /\ fill = IF a <= b THEN a ELSE b
               /\ fill <= a /\ fill <= b
               /\ a - fill \in Nat /\ b - fill \in Nat
  <2>1. CASE a <= b
    BY <2>1
  <2>2. CASE ~(a <= b)
    BY <2>2
  <2> QED
    BY <2>1, <2>2
<1> QED
  BY <1>1, <1>2, <1>4, <1>6, <1>7, <1>8, <1>9

(* A step of match() keeps the invariant. *)
LEMMA MatchKeeps ==
  ASSUME IInv, NEW p \in Prices, Match(p)
  PROVE  IInv'
<1>1. /\ aggressor \in Aggressor /\ Level(p) # << >> /\ 1 \in DOMAIN Level(p)
      /\ Head(Level(p)) = Level(p)[1]
      /\ aggressor # Idle
  BY MatchFacts DEF Match, fillQty
<1>2. PICK fill \in Nat \ {0} :
        /\ fill = IF aggressor.leaves_ <= Level(p)[1].qty_
                  THEN aggressor.leaves_ ELSE Level(p)[1].qty_
        /\ aggressor.leaves_ - fill \in Nat
        /\ Level(p)[1].qty_ - fill \in Nat
  BY MatchFacts
<1>3. /\ aggressor' = [aggressor EXCEPT !.leaves_ = aggressor.leaves_ - fill]
      /\ next_market_order_id_' = next_market_order_id_ /\ used' = used
  BY <1>1, <1>2 DEF Match, fillQty
<1>4. /\ aggressor' \in Aggressor
      /\ aggressor'.market_order_id_ = aggressor.market_order_id_
  BY <1>1, <1>2, <1>3 DEF Aggressor
<1>5. aggressor' # Idle
  <2>1. aggressor.market_order_id_ # None
    BY <1>1 DEF IInv, AggressorBounded
  <2> QED
    BY <1>4, <2>1 DEF Idle
<1>6. \/ removeOrder(p, 1)
      \/ /\ Level(p)[1].qty_ - fill # 0
         /\ price_orders_at_price_' = [price_orders_at_price_ EXCEPT
                                         ![p][1].qty_ = Level(p)[1].qty_ - fill]
         /\ UNCHANGED <<by_price_, cid_oid_to_order_>>
  BY <1>1, <1>2 DEF Match, fillQty
<1>7. CASE removeOrder(p, 1)
  BY <1>1, <1>3, <1>4, <1>5, <1>7, RemoveKeeps
<1>8. CASE /\ Level(p)[1].qty_ - fill # 0
           /\ price_orders_at_price_' = [price_orders_at_price_ EXCEPT
                                           ![p][1].qty_ = Level(p)[1].qty_ - fill]
           /\ UNCHANGED <<by_price_, cid_oid_to_order_>>
  <2>1. Level(p)[1].qty_ - fill \in Nat \ {0}
    BY <1>2, <1>8
  <2> QED
    BY <1>1, <1>3, <1>4, <1>8, <2>1, PartialKeeps
<1> QED
  BY <1>6, <1>7, <1>8

(* add() taking on a request. *)
LEMMA AcceptKeeps ==
  ASSUME IInv, NEW c \in Clients, NEW o \in OrderIds, NEW side \in Side,
         NEW price \in Prices, NEW qty \in Quantities, Accept(c, o, side, price, qty)
  PROVE  IInv'
<1>1. next_market_order_id_ \in Nat \ {None} /\ used \subseteq Clients \X OrderIds
  BY DEF IInv, TypeOK
<1>2. /\ aggressor' = [market_order_id_ |-> next_market_order_id_, client_id_ |-> c,
                       client_order_id_ |-> o, side_ |-> side, price_ |-> price,
                       leaves_ |-> qty]
      /\ next_market_order_id_' = next_market_order_id_ + 1
      /\ used' = used \cup {<<c, o>>} /\ UNCHANGED book
  BY DEF Accept
<1>3. aggressor' \in Aggressor /\ aggressor'.market_order_id_ = next_market_order_id_
  BY <1>1, <1>2, QuantitiesAssumption DEF Aggressor
<1>4. /\ next_market_order_id_' \in Nat \ {None}
      /\ next_market_order_id_' >= next_market_order_id_
      /\ next_market_order_id_ < next_market_order_id_'
  BY <1>1, <1>2 DEF None
<1>5. used' \subseteq Clients \X OrderIds
  BY <1>1, <1>2
<1> QED
  BY <1>2, <1>3, <1>4, <1>5, BookUnchangedKeeps

(* The inductive step: one case per handler. *)
LEMMA StepIInv == IInv /\ [Next]_vars => IInv'
<1> SUFFICES ASSUME IInv, [Next]_vars PROVE IInv'
  OBVIOUS
<1>t. /\ next_market_order_id_ \in Nat \ {None} /\ used \subseteq Clients \X OrderIds
      /\ aggressor \in Aggressor \cup {Idle}
      /\ next_market_order_id_ >= next_market_order_id_
  BY DEF IInv, TypeOK
<1>1. ASSUME NEW c \in Clients, NEW o \in OrderIds, NEW side \in Side,
             NEW price \in Prices, NEW qty \in Quantities, Accept(c, o, side, price, qty)
      PROVE  IInv'
  BY <1>1, AcceptKeeps
<1>2. ASSUME NEW p \in Prices, Match(p) PROVE IInv'
  BY <1>2, MatchKeeps
<1>3. CASE Rest
  BY <1>3, RestKeeps
<1>4. CASE FullyFilled
  BY <1>t, <1>4, BookUnchangedKeeps DEF FullyFilled
<1>5. ASSUME NEW c \in Clients, NEW o \in OrderIds, CancelRejected(c, o) PROVE IInv'
  BY <1>t, <1>5, BookUnchangedKeeps DEF CancelRejected
<1>6. ASSUME NEW c \in Clients, NEW o \in OrderIds, Cancel(c, o) PROVE IInv'
  <2>1. PICK p \in Prices : \E i \in DOMAIN Level(p) : removeOrder(p, i)
    BY <1>6 DEF Cancel
  <2>2. PICK i \in DOMAIN Level(p) : removeOrder(p, i)
    BY <2>1
  <2>3. /\ next_market_order_id_' = next_market_order_id_ /\ used' = used
        /\ aggressor' = aggressor
    BY <1>6 DEF Cancel
  <2> QED
    BY <1>t, <2>2, <2>3, RemoveKeeps
<1>7. CASE UNCHANGED vars
  BY <1>t, <1>7, BookUnchangedKeeps DEF vars
<1> QED
  BY <1>1, <1>2, <1>3, <1>4, <1>5, <1>6, <1>7 DEF Next, HandleRequest, EngineStep

(* The inductive invariant holds in every reachable state of the book.     *)
THEOREM Invariance == Spec => []IInv
BY InitIInv, StepIInv, PTL DEF Spec

(* Every variable of the book keeps its type, for any set of prices.       *)
THEOREM TypeCorrect == Spec => []TypeOK
<1>1. IInv => TypeOK
  BY DEF IInv
<1> QED
  BY <1>1, Invariance, PTL

(* checkForMatch and addOrder never leave the book crossed or locked.      *)
THEOREM NeverCrossed == Spec => []NotCrossed
<1>1. IInv => NotCrossed
  BY DEF IInv
<1> QED
  BY <1>1, Invariance, PTL

(* The price-only index price_orders_at_price_ is never shared by the two  *)
(* sides, holds no exhausted order, and no empty level stays linked.       *)
THEOREM LevelsAreConsistent == Spec => []LevelsConsistent
<1>1. IInv => LevelsConsistent
  BY DEF IInv
<1> QED
  BY <1>1, Invariance, PTL

(* cancel() never dereferences an order given back to order_pool_, whether *)
(* or not clients reuse their order ids.                                   *)
THEOREM NeverDangling == Spec => []NoDanglingOrder
<1>1. IInv => NoDanglingOrder
  BY DEF IInv
<1> QED
  BY <1>1, Invariance, PTL

(* getNextPriority numbers the FIFO of every level in order of arrival.    *)
THEOREM PrioritiesOrdered == Spec => []PrioritiesFollowTime
<1>1. IInv => PrioritiesFollowTime
  BY DEF IInv
<1> QED
  BY <1>1, Invariance, PTL
-----------------------------------------------------------------------------
(* An order other than the first of the matched level is left as it is.    *)
LEMMA OnlyHeadTraded ==
  ASSUME IInv, Next, NEW p \in Prices, NEW i \in DOMAIN Level(p), TradedWith(p, i)
  PROVE  Match(p) /\ i = 1
<1>t. TypeOK /\ aggressor # Idle
  BY DEF IInv, TradedWith
<1>l. /\ Level(p) \in Seq(MEOrder) /\ Len(Level(p)) \in Nat
      /\ DOMAIN Level(p) = 1 .. Len(Level(p)) /\ i \in 1 .. Len(Level(p))
  BY <1>t, LevelType
<1>n. \A j \in DOMAIN price_orders_at_price_'[p] : price_orders_at_price_'[p][j] # Level(p)[i]
  BY DEF TradedWith
<1>u. price_orders_at_price_'[p] # Level(p)
  BY <1>n
<1>1. (\E q \in Prices : Match(q)) \/ Rest
  <2>1. ~FullyFilled
    BY <1>u DEF FullyFilled, book, Level
  <2> QED
    BY <1>t, <2>1 DEF Next, HandleRequest, EngineStep, Accept, CancelRejected, Cancel
<1>2. ~Rest
  <2> SUFFICES ASSUME Rest PROVE FALSE
    OBVIOUS
  <2>1. PICK order : addOrder(order) /\ order \in MEOrder
    <3>1. /\ aggressor \in Aggressor /\ aggressor.price_ \in Prices
          /\ aggressor.leaves_ \in Nat
      BY <1>t DEF Rest, TypeOK, Aggressor
    <3>2. getNextPriority(aggressor.price_) \in Nat
      <4> DEFINE l == Level(aggressor.price_)
      <4>1. CASE l = << >>
        BY <4>1 DEF getNextPriority
      <4>2. CASE l # << >>
        <5>1. l[Len(l)] \in MEOrder
          BY <1>t, <3>1, <4>2, LevelType
        <5>2. l[Len(l)].priority_ \in Nat
          BY <5>1 DEF MEOrder
        <5> QED
          BY <4>2, <5>2 DEF getNextPriority
      <4> QED
        BY <4>1, <4>2
    <3> DEFINE o == [market_order_id_ |-> aggressor.market_order_id_,
                     client_id_ |-> aggressor.client_id_,
                     client_order_id_ |-> aggressor.client_order_id_,
                     side_ |-> aggressor.side_, price_ |-> aggressor.price_,
                     qty_ |-> aggressor.leaves_,
                     priority_ |-> getNextPriority(aggressor.price_)]
    <3>3. o \in MEOrder
      BY <3>1, <3>2 DEF Aggressor, MEOrder
    <3>4. addOrder(o)
      BY DEF Rest
    <3> QED
      BY <3>3, <3>4
  <2>2. price_orders_at_price_' =
          [price_orders_at_price_ EXCEPT ![order.price_] = Append(Level(order.price_), order)]
    BY <2>1 DEF addOrder, Level
  <2>3. order.price_ = p
    BY <1>t, <1>u, <2>2 DEF TypeOK, Level
  <2>4. price_orders_at_price_'[p] = Append(Level(p), order)
    BY <1>t, <2>2, <2>3 DEF TypeOK
  <2>5. /\ Len(Append(Level(p), order)) = Len(Level(p)) + 1
        /\ DOMAIN Append(Level(p), order) = 1 .. Len(Level(p)) + 1
        /\ Append(Level(p), order)[i] = Level(p)[i]
    BY <1>l, <2>1, AppendProperties
  <2>6. i \in 1 .. Len(Level(p)) + 1
    BY <1>l
  <2> QED
    BY <1>n, <2>4, <2>5, <2>6
<1>3. PICK q \in Prices : Match(q)
  BY <1>1, <1>2
<1>4. 1 \in DOMAIN Level(q) /\ Level(q)[1].qty_ \in Nat
  BY <1>3, MatchFacts
<1>5. \/ removeOrder(q, 1)
      \/ \E qty : price_orders_at_price_' = [price_orders_at_price_ EXCEPT ![q][1].qty_ = qty]
  BY <1>3 DEF Match, fillQty
<1>6. CASE removeOrder(q, 1)
  <2>1. /\ \A r \in Prices : r # q => price_orders_at_price_'[r] = Level(r)
        /\ DOMAIN price_orders_at_price_'[q] = 1 .. Len(Level(q)) - 1
        /\ \A k \in 1 .. Len(Level(q)) - 1 :
             price_orders_at_price_'[q][k] =
               IF k < 1 THEN Level(q)[k] ELSE Level(q)[k + 1]
    BY <1>t, <1>4, <1>6, RemoveOrderEffect
  <2>2. q = p
    BY <1>u, <2>1
  <2>3. ASSUME i # 1 PROVE FALSE
    <3>1. i - 1 \in 1 .. Len(Level(p)) - 1 /\ ~(i - 1 < 1) /\ (i - 1) + 1 = i
      BY <1>l, <2>3
    <3>2. price_orders_at_price_'[p][i - 1] = Level(p)[(i - 1) + 1]
      BY <2>1, <2>2, <3>1
    <3> QED
      BY <1>n, <2>1, <2>2, <3>1, <3>2
  <2> QED
    BY <1>3, <2>2, <2>3
<1>7. ASSUME NEW qty, price_orders_at_price_' = [price_orders_at_price_ EXCEPT ![q][1].qty_ = qty]
      PROVE  Match(p) /\ i = 1
  <2>1. \A r \in Prices : r # q => price_orders_at_price_'[r] = Level(r)
    BY <1>t, <1>7 DEF TypeOK, Level
  <2>2. q = p
    BY <1>u, <2>1
  <2>3. /\ DOMAIN price_orders_at_price_'[p] = DOMAIN Level(p)
        /\ \A k \in DOMAIN Level(p) : k # 1 => price_orders_at_price_'[p][k] = Level(p)[k]
    BY <1>t, <1>7, <2>2 DEF TypeOK, Level
  <2> QED
    BY <1>n, <1>3, <2>2, <2>3
<1> QED
  BY <1>5, <1>6, <1>7

(* match() trades in price-time priority: whatever order a step trades     *)
(* with, no order of its side had a better price or came earlier.          *)
THEOREM PriceTimePriorityHolds == Spec => PriceTimePriority
<1> DEFINE Prior(p, i) ==
      \A q \in Prices : \A j \in DOMAIN Level(q) :
        LET passive == Level(p)[i]
            other == Level(q)[j]
        IN  other.side_ = passive.side_ /\ other # passive =>
              \/ Better(passive.side_, p, q)
              \/ p = q /\ passive.market_order_id_ < other.market_order_id_
<1>1. ASSUME IInv, Next, NEW p \in Prices, NEW i \in DOMAIN Level(p), TradedWith(p, i)
      PROVE  Prior(p, i)
  <2>1. Match(p) /\ i = 1
    BY <1>1, OnlyHeadTraded
  <2> SUFFICES ASSUME NEW q \in Prices, NEW j \in DOMAIN Level(q),
                      Level(q)[j].side_ = Level(p)[1].side_, Level(q)[j] # Level(p)[1]
               PROVE  \/ Better(Level(p)[1].side_, p, q)
                      \/ p = q /\ Level(p)[1].market_order_id_ < Level(q)[j].market_order_id_
    BY <2>1
  <2>2. TypeOK /\ LevelsConsistent /\ PrioritiesFollowTime
    BY <1>1 DEF IInv
  <2>3. 1 \in DOMAIN Level(p) /\ aggressor \in Aggressor /\ aggressor.side_ \in Side
    BY <1>1, <2>1, MatchFacts DEF Aggressor
  <2>4. IsBest(Opposite(aggressor.side_), p) /\ Opposite(aggressor.side_) \in Side
    BY <2>1, <2>3 DEF Match, Marketable, Opposite, Side
  <2>5. Level(p)[1].side_ = Opposite(aggressor.side_)
    BY <2>2, <2>3, <2>4 DEF LevelsConsistent, IsBest
  <2>6. q \in by_price_[Level(p)[1].side_]
    BY <2>2, <2>4, <2>5 DEF LevelsConsistent
  <2>7. CASE q # p
    BY <2>4, <2>5, <2>6, <2>7 DEF IsBest
  <2>8. CASE q = p
    <3>1. j \in 1 .. Len(Level(p)) /\ Len(Level(p)) \in Nat /\ j # 1
      BY <2>2, <2>8, LevelType
    <3>2. 1 < j
      BY <3>1
    <3> QED
      BY <2>2, <2>3, <2>8, <3>2 DEF PrioritiesFollowTime
  <2> QED
    BY <2>7, <2>8
<1>2. IInv /\ [Next]_vars =>
        [\A p \in Prices : \A i \in DOMAIN Level(p) : TradedWith(p, i) => Prior(p, i)]_vars
  BY <1>1
<1>3. Spec => [][Next]_vars
  BY DEF Spec
<1> QED
  BY <1>2, <1>3, Invariance, PTL DEF PriceTimePriority

-----------------------------------------------------------------------------
(* A step sends at most two messages, and a fold over them applies the     *)
(* first and then the second.                                              *)

(* The sets of positions of one and of two messages, as FoldLeft walks them. *)
LEMMA Maxima ==
  /\ Max({1}) = 1 /\ Max({2}) = 2 /\ Max({1, 2}) = 2
  /\ {1, 2} \ {2} = {1} /\ {1} \ {1} = {} /\ {2} \ {2} = {}
  /\ \A s \in SUBSET {1, 2} : s = {} \/ s = {1} \/ s = {2} \/ s = {1, 2}
  /\ \A s \in SUBSET {1} : s = {} \/ s = {1}
<1>1. Max({1}) = 1
  BY DEF Max
<1>2. Max({2}) = 2
  BY DEF Max
<1>3. Max({1, 2}) = 2
  <2>1. 2 \in {1, 2} /\ \A y \in {1, 2} : 2 >= y
    OBVIOUS
  <2>2. \A x \in {1, 2} : (\A y \in {1, 2} : x >= y) => x = 2
    OBVIOUS
  <2> QED BY <2>1, <2>2 DEF Max
<1>4. {1, 2} \ {2} = {1} /\ {1} \ {1} = {} /\ {2} \ {2} = {}
  OBVIOUS
<1>5. \A s \in SUBSET {1, 2} : s = {} \/ s = {1} \/ s = {2} \/ s = {1, 2}
  OBVIOUS
<1>6. \A s \in SUBSET {1} : s = {} \/ s = {1}
  OBVIOUS
<1> QED BY <1>1, <1>2, <1>3, <1>4, <1>5, <1>6

(* Without an update the snapshot stays as it is. *)
LEMMA SnapshotOfNone ==
  ASSUME NEW t
  PROVE  FoldLeft(addToSnapshot, t, << >>) = t
<1> DEFINE F(g) == [s \in SUBSET {} |-> IF s = {} THEN t
                      ELSE LET x == Max(s) IN addToSnapshot(g[s \ {x}], << >>[x])]
           it == CHOOSE h : h = F(h)
<1>1. [s \in SUBSET {} |-> t] = F([s \in SUBSET {} |-> t])
  OBVIOUS
<1>2. it = F(it)
  <2> HIDE DEF F
  <2> QED BY <1>1
<1>3. it[{}] = t
  <2>1. F(it)[{}] = t
    <3> HIDE DEF it
    <3> QED OBVIOUS
  <2> HIDE DEF it, F
  <2> QED BY <2>1, <1>2
<1>4. DOMAIN << >> = {}
  OBVIOUS
<1>5. FoldLeft(addToSnapshot, t, << >>) = it[{}]
  BY <1>4, Zenon DEF FoldLeft, MapThenFoldSet
<1> QED BY <1>3, <1>5, Zenon

(* One update is applied by one addToSnapshot. *)
LEMMA SnapshotOfOne ==
  ASSUME NEW t, NEW q, NEW u, DOMAIN q = {1}, q[1] = u
  PROVE  FoldLeft(addToSnapshot, t, q) = addToSnapshot(t, u)
<1> DEFINE F(g) == [s \in SUBSET {1} |-> IF s = {} THEN t
                      ELSE LET x == Max(s) IN addToSnapshot(g[s \ {x}], q[x])]
           it == CHOOSE h : h = F(h)
           g0 == [s \in SUBSET {1} |-> IF s = {} THEN t ELSE addToSnapshot(t, u)]
<1>0. q[1] = u /\ DOMAIN q = {1}
  OBVIOUS
<1>1. g0 = F(g0)
  <2>1. \A s \in SUBSET {1} : F(g0)[s] = g0[s]
    <3> SUFFICES ASSUME NEW s \in SUBSET {1} PROVE F(g0)[s] = g0[s]
      OBVIOUS
    <3>1. CASE s = {}
      BY <3>1
    <3>2. CASE s = {1}
      BY <3>2, <1>0, Maxima
    <3> QED BY <3>1, <3>2, Maxima
  <2> QED BY <2>1
<1>2. it = F(it)
  <2> HIDE DEF F
  <2> QED BY <1>1
<1>3. it[{}] = t /\ it[{1}] = addToSnapshot(t, u)
  <2>1. F(it)[{}] = t /\ F(it)[{1}] = addToSnapshot(it[{}], u)
    <3> HIDE DEF it
    <3> QED BY <1>0, Maxima
  <2> HIDE DEF it, F
  <2> QED BY <2>1, <1>2
<1>4. FoldLeft(addToSnapshot, t, q) = it[DOMAIN q]
  BY <1>0, Zenon DEF FoldLeft, MapThenFoldSet
<1> QED BY <1>0, <1>3, <1>4, Zenon

IsPair(q) == DOMAIN q = {1, 2}

(* Two updates are applied one after the other. *)
LEMMA SnapshotOfTwo ==
  ASSUME NEW t, NEW q, IsPair(q)
  PROVE  FoldLeft(addToSnapshot, t, q) = addToSnapshot(addToSnapshot(t, q[1]), q[2])
<1> DEFINE u == q[1]
           v == q[2]
           F(g) == [s \in SUBSET {1, 2} |-> IF s = {} THEN t
                      ELSE LET x == Max(s) IN addToSnapshot(g[s \ {x}], q[x])]
           it == CHOOSE h : h = F(h)
           g0 == [s \in SUBSET {1, 2} |-> IF s = {} THEN t
                    ELSE IF s = {1} THEN addToSnapshot(t, u)
                    ELSE IF s = {2} THEN addToSnapshot(t, v)
                    ELSE addToSnapshot(addToSnapshot(t, u), v)]
<1>0. q[1] = u /\ q[2] = v /\ DOMAIN q = {1, 2}
  BY DEF IsPair
<1> HIDE DEF u, v
<1>1. g0 = F(g0)
  <2>1. \A s \in SUBSET {1, 2} : F(g0)[s] = g0[s]
    <3> SUFFICES ASSUME NEW s \in SUBSET {1, 2} PROVE F(g0)[s] = g0[s]
      OBVIOUS
    <3>1. CASE s = {}
      BY <3>1
    <3>2. CASE s = {1}
      BY <3>2, <1>0, Maxima
    <3>3. CASE s = {2}
      BY <3>3, <1>0, Maxima
    <3>4. CASE s = {1, 2}
      BY <3>4, <1>0, Maxima
    <3> QED BY <3>1, <3>2, <3>3, <3>4, Maxima
  <2> QED BY <2>1
<1>2. it = F(it)
  <2> HIDE DEF F
  <2> QED BY <1>1
<1>3. it[{}] = t /\ it[{1}] = addToSnapshot(t, u) /\ it[{1, 2}] = addToSnapshot(addToSnapshot(t, u), v)
  <2>1. F(it)[{}] = t /\ F(it)[{1}] = addToSnapshot(it[{}], u) /\ F(it)[{1, 2}] = addToSnapshot(it[{1}], v)
    <3> HIDE DEF it
    <3> QED BY <1>0, Maxima
  <2> HIDE DEF it, F
  <2> QED BY <2>1, <1>2
<1>4. FoldLeft(addToSnapshot, t, q) = it[DOMAIN q]
  BY <1>0, Zenon DEF FoldLeft, MapThenFoldSet
<1> QED BY <1>0, <1>3, <1>4, Zenon DEF u, v

(* Without a response the ledger stays as it is. *)
LEMMA LedgerOfNone ==
  ASSUME NEW t
  PROVE  FoldLeft(applyResponse, t, << >>) = t
<1> DEFINE F(g) == [s \in SUBSET {} |-> IF s = {} THEN t
                      ELSE LET x == Max(s) IN applyResponse(g[s \ {x}], << >>[x])]
           it == CHOOSE h : h = F(h)
<1>1. [s \in SUBSET {} |-> t] = F([s \in SUBSET {} |-> t])
  OBVIOUS
<1>2. it = F(it)
  <2> HIDE DEF F
  <2> QED BY <1>1
<1>3. it[{}] = t
  <2>1. F(it)[{}] = t
    <3> HIDE DEF it
    <3> QED OBVIOUS
  <2> HIDE DEF it, F
  <2> QED BY <2>1, <1>2
<1>4. DOMAIN << >> = {}
  OBVIOUS
<1>5. FoldLeft(applyResponse, t, << >>) = it[{}]
  BY <1>4, Zenon DEF FoldLeft, MapThenFoldSet
<1> QED BY <1>3, <1>5, Zenon

(* One response is entered by one applyResponse. *)
LEMMA LedgerOfOne ==
  ASSUME NEW t, NEW q, NEW u, DOMAIN q = {1}, q[1] = u
  PROVE  FoldLeft(applyResponse, t, q) = applyResponse(t, u)
<1> DEFINE F(g) == [s \in SUBSET {1} |-> IF s = {} THEN t
                      ELSE LET x == Max(s) IN applyResponse(g[s \ {x}], q[x])]
           it == CHOOSE h : h = F(h)
           g0 == [s \in SUBSET {1} |-> IF s = {} THEN t ELSE applyResponse(t, u)]
<1>0. q[1] = u /\ DOMAIN q = {1}
  OBVIOUS
<1>1. g0 = F(g0)
  <2>1. \A s \in SUBSET {1} : F(g0)[s] = g0[s]
    <3> SUFFICES ASSUME NEW s \in SUBSET {1} PROVE F(g0)[s] = g0[s]
      OBVIOUS
    <3>1. CASE s = {}
      BY <3>1
    <3>2. CASE s = {1}
      BY <3>2, <1>0, Maxima
    <3> QED BY <3>1, <3>2, Maxima
  <2> QED BY <2>1
<1>2. it = F(it)
  <2> HIDE DEF F
  <2> QED BY <1>1
<1>3. it[{}] = t /\ it[{1}] = applyResponse(t, u)
  <2>1. F(it)[{}] = t /\ F(it)[{1}] = applyResponse(it[{}], u)
    <3> HIDE DEF it
    <3> QED BY <1>0, Maxima
  <2> HIDE DEF it, F
  <2> QED BY <2>1, <1>2
<1>4. FoldLeft(applyResponse, t, q) = it[DOMAIN q]
  BY <1>0, Zenon DEF FoldLeft, MapThenFoldSet
<1> QED BY <1>0, <1>3, <1>4, Zenon

(* Two responses, of the two sides of a fill, are entered in order. *)
LEMMA LedgerOfTwo ==
  ASSUME NEW t, NEW q, IsPair(q)
  PROVE  FoldLeft(applyResponse, t, q) = applyResponse(applyResponse(t, q[1]), q[2])
<1> DEFINE u == q[1]
           v == q[2]
           F(g) == [s \in SUBSET {1, 2} |-> IF s = {} THEN t
                      ELSE LET x == Max(s) IN applyResponse(g[s \ {x}], q[x])]
           it == CHOOSE h : h = F(h)
           g0 == [s \in SUBSET {1, 2} |-> IF s = {} THEN t
                    ELSE IF s = {1} THEN applyResponse(t, u)
                    ELSE IF s = {2} THEN applyResponse(t, v)
                    ELSE applyResponse(applyResponse(t, u), v)]
<1>0. q[1] = u /\ q[2] = v /\ DOMAIN q = {1, 2}
  BY DEF IsPair
<1> HIDE DEF u, v
<1>1. g0 = F(g0)
  <2>1. \A s \in SUBSET {1, 2} : F(g0)[s] = g0[s]
    <3> SUFFICES ASSUME NEW s \in SUBSET {1, 2} PROVE F(g0)[s] = g0[s]
      OBVIOUS
    <3>1. CASE s = {}
      BY <3>1
    <3>2. CASE s = {1}
      BY <3>2, <1>0, Maxima
    <3>3. CASE s = {2}
      BY <3>3, <1>0, Maxima
    <3>4. CASE s = {1, 2}
      BY <3>4, <1>0, Maxima
    <3> QED BY <3>1, <3>2, <3>3, <3>4, Maxima
  <2> QED BY <2>1
<1>2. it = F(it)
  <2> HIDE DEF F
  <2> QED BY <1>1
<1>3. it[{}] = t /\ it[{1}] = applyResponse(t, u) /\ it[{1, 2}] = applyResponse(applyResponse(t, u), v)
  <2>1. F(it)[{}] = t /\ F(it)[{1}] = applyResponse(it[{}], u) /\ F(it)[{1, 2}] = applyResponse(it[{1}], v)
    <3> HIDE DEF it
    <3> QED BY <1>0, Maxima
  <2> HIDE DEF it, F
  <2> QED BY <2>1, <1>2
<1>4. FoldLeft(applyResponse, t, q) = it[DOMAIN q]
  BY <1>0, Zenon DEF FoldLeft, MapThenFoldSet
<1> QED BY <1>0, <1>3, <1>4, Zenon DEF u, v

-----------------------------------------------------------------------------
(* The inductive invariant: about the set R of resting orders, the order a *)
(* being handled, a snapshot t and a ledger l.                             *)

Unique(R) == \A o, p \in R : o.market_order_id_ = p.market_order_id_ => o = p

(* The entry of an order in the snapshot. *)
Row(o) == Update("ADD", o.market_order_id_, o.side_, o.price_, o.qty_, o.priority_)

Snap(R, t) ==
  /\ DOMAIN t = {o.market_order_id_ : o \in R}
  /\ \A o \in R : t[o.market_order_id_] = Row(o)

Entry == [side : Side, limit : Prices, qty : Nat, executed : Nat, open : Nat, canceled : Nat]

(* The entry e is of a live order with this side and price, and qty to go. *)
Owes(e, side, price, qty) == 
  e.side = side /\ e.limit = price /\ e.open = qty /\ e.canceled = 0

Told(R, a, l) ==
  /\ \A m \in DOMAIN l : l[m] \in Entry /\ l[m].executed + l[m].open + l[m].canceled = l[m].qty
  /\ \A o \in R : /\ o.market_order_id_ \in DOMAIN l
                  /\ Owes(l[o.market_order_id_], o.side_, o.price_, o.qty_)
  /\ a # Idle => /\ a.market_order_id_ \in DOMAIN l
                 /\ Owes(l[a.market_order_id_], a.side_, a.price_, a.leaves_)
  /\ \A m \in DOMAIN l : \/ l[m].open = 0
                         \/ \E o \in R : o.market_order_id_ = m
                         \/ a # Idle /\ a.market_order_id_ = m

(* Ledger ids were handed out before, so that the next one is new. *)
LedgerIds == \A m \in DOMAIN ledger : m \in Nat /\ m < next_market_order_id_

FillsWithinLimits ==
  \A i \in DOMAIN sent_responses : sent_responses[i].type_ = "FILLED" => WithinLimit(sent_responses[i])

XInv ==
  /\ IInv
  /\ assert_failed = FALSE
  /\ Unique(Resting)
  /\ Snap(Resting, ticker_orders_)
  /\ Told(Resting, aggressor, ledger)
  /\ LedgerIds
  /\ FillsWithinLimits

-----------------------------------------------------------------------------
(* The updates of add, match and cancel keep the snapshot *)

(* The ADD of an order that comes to rest adds it to the snapshot. *)
LEMMA SnapAdd ==
  ASSUME NEW R, NEW t, Snap(R, t), NEW o, \A p \in R : p.market_order_id_ # o.market_order_id_
  PROVE  /\ Snap(R \cup {o}, addToSnapshot(t, Row(o)))
         /\ SnapshotAsserts(t, Row(o))
<1>1. /\ Row(o).type_ = "ADD" /\ Row(o).order_id_ = o.market_order_id_
  BY DEF Row, Update
<1>2. addToSnapshot(t, Row(o)) =
        [m \in DOMAIN t \cup {o.market_order_id_} |-> IF m = o.market_order_id_ THEN Row(o) ELSE t[m]]
  BY <1>1 DEF addToSnapshot
<1>3. o.market_order_id_ \notin DOMAIN t
  BY DEF Snap
<1> HIDE DEF Row
<1>4. Snap(R \cup {o}, addToSnapshot(t, Row(o)))
  BY <1>2 DEF Snap
<1> QED BY <1>1, <1>3, <1>4 DEF SnapshotAsserts

(* The MODIFY of match changes the quantity of the passive order alone. *)
LEMMA SnapModify ==
  ASSUME NEW R, NEW t, Snap(R, t), Unique(R), NEW o \in R, NEW qty,
         o \in MEOrder
  PROVE  LET u == Update("MODIFY", o.market_order_id_, o.side_, o.price_, qty, o.priority_)
         IN  /\ Snap((R \ {o}) \cup {[o EXCEPT !.qty_ = qty]}, addToSnapshot(t, u))
             /\ SnapshotAsserts(t, u)
<1> DEFINE u == Update("MODIFY", o.market_order_id_, o.side_, o.price_, qty, o.priority_)
           n == [o EXCEPT !.qty_ = qty]
           id == o.market_order_id_
<1>1. /\ u.type_ = "MODIFY" /\ u.order_id_ = id /\ u.qty_ = qty /\ u.price_ = o.price_ /\ u.side_ = o.side_
  BY DEF Update
<1>2. /\ n.market_order_id_ = id /\ n.side_ = o.side_ /\ n.price_ = o.price_ /\ n.qty_ = qty
      /\ n.priority_ = o.priority_
  BY DEF MEOrder
<1>3. id \in DOMAIN t /\ t[id] = Row(o) /\ DOMAIN t = {p.market_order_id_ : p \in R}
      /\ \A p \in R : t[p.market_order_id_] = Row(p)
  BY DEF Snap
<1> HIDE DEF u, n
<1>4. addToSnapshot(t, u) = [t EXCEPT ![id].qty_ = u.qty_, ![id].price_ = u.price_]
  BY <1>1, <1>3 DEF addToSnapshot
<1>5. /\ DOMAIN addToSnapshot(t, u) = DOMAIN t
      /\ addToSnapshot(t, u)[id] = [[Row(o) EXCEPT !.qty_ = qty] EXCEPT !.price_ = o.price_]
      /\ \A m \in DOMAIN t : m # id => addToSnapshot(t, u)[m] = t[m]
  BY <1>1, <1>3, <1>4
<1>6. [[Row(o) EXCEPT !.qty_ = qty] EXCEPT !.price_ = o.price_] = Row(n)
  <2> DEFINE r == [type_ |-> "ADD", order_id_ |-> id, side_ |-> o.side_, price_ |-> o.price_,
                   qty_ |-> qty, priority_ |-> o.priority_]
  <2>1. [Row(o) EXCEPT !.qty_ = qty] = r
    BY DEF Row, Update
  <2>2. [r EXCEPT !.price_ = o.price_] = r
    OBVIOUS
  <2>3. Row(n) = r
    BY <1>2 DEF Row, Update
  <2> QED BY <2>1, <2>2, <2>3
<1>7. \A p \in R \ {o} : p.market_order_id_ # id
  BY DEF Unique
<1>8. Snap((R \ {o}) \cup {n}, addToSnapshot(t, u))
  <2>1. {p.market_order_id_ : p \in (R \ {o}) \cup {n}} = {p.market_order_id_ : p \in R}
    BY <1>2
  <2>2. ASSUME NEW p \in (R \ {o}) \cup {n} PROVE addToSnapshot(t, u)[p.market_order_id_] = Row(p)
    <3>1. CASE p = n
      BY <3>1, <1>2, <1>5, <1>6
    <3>2. CASE p \in R \ {o}
      <4>1. p.market_order_id_ \in DOMAIN t /\ p.market_order_id_ # id /\ t[p.market_order_id_] = Row(p)
        BY <3>2, <1>3, <1>7
      <4> QED BY <4>1, <1>5
    <3> QED BY <3>1, <3>2
  <2> QED BY <2>1, <2>2, <1>3, <1>5 DEF Snap
<1>9. SnapshotAsserts(t, u)
  BY <1>1, <1>3 DEF SnapshotAsserts, Row, Update
<1> QED BY <1>8, <1>9 DEF u, n

(* The CANCEL of an order that is filled or canceled takes it out. *)
LEMMA SnapCancel ==
  ASSUME NEW R, NEW t, Snap(R, t), Unique(R), NEW o \in R, NEW qty, NEW priority
  PROVE  LET u == Update("CANCEL", o.market_order_id_, o.side_, o.price_, qty, priority)
         IN  /\ Snap(R \ {o}, addToSnapshot(t, u))
             /\ SnapshotAsserts(t, u)
<1> DEFINE u == Update("CANCEL", o.market_order_id_, o.side_, o.price_, qty, priority)
           id == o.market_order_id_
<1>1. /\ u.type_ = "CANCEL" /\ u.order_id_ = id /\ u.side_ = o.side_
  BY DEF Update
<1>3. id \in DOMAIN t /\ t[id] = Row(o) /\ DOMAIN t = {p.market_order_id_ : p \in R}
      /\ \A p \in R : t[p.market_order_id_] = Row(p)
  BY DEF Snap
<1> HIDE DEF u
<1>4. addToSnapshot(t, u) = [m \in DOMAIN t \ {id} |-> t[m]]
  BY <1>1 DEF addToSnapshot, Restrict
<1>7. \A p \in R \ {o} : p.market_order_id_ # id
  BY DEF Unique
<1>8. Snap(R \ {o}, addToSnapshot(t, u))
  <2>1. {p.market_order_id_ : p \in R \ {o}} = DOMAIN t \ {id}
    BY <1>3, <1>7
  <2>2. ASSUME NEW p \in R \ {o} PROVE addToSnapshot(t, u)[p.market_order_id_] = Row(p)
    BY <2>1, <1>3, <1>4
  <2> QED BY <2>1, <2>2, <1>4 DEF Snap
<1>9. SnapshotAsserts(t, u)
  BY <1>1, <1>3 DEF SnapshotAsserts, Row, Update
<1> QED BY <1>8, <1>9 DEF u

-----------------------------------------------------------------------------
(* The responses of add, match and cancel keep the ledger *)

(* ACCEPTED opens an entry for the order about to be matched. *)
LEMMA ToldAccept ==
  ASSUME NEW R, NEW l, Told(R, Idle, l), NEW id \in Nat \ {None}, id \notin DOMAIN l,
         NEW c \in Clients, NEW o \in OrderIds, NEW side \in Side, NEW price \in Prices, NEW qty \in Nat
  PROVE  LET a == [market_order_id_ |-> id, client_id_ |-> c, client_order_id_ |-> o,
                   side_ |-> side, price_ |-> price, leaves_ |-> qty]
             r == Response("ACCEPTED", c, o, id, side, price, 0, qty)
         IN  /\ Told(R, a, applyResponse(l, r))
             /\ DOMAIN applyResponse(l, r) = DOMAIN l \cup {id}
<1> DEFINE a == [market_order_id_ |-> id, client_id_ |-> c, client_order_id_ |-> o,
                 side_ |-> side, price_ |-> price, leaves_ |-> qty]
           r == Response("ACCEPTED", c, o, id, side, price, 0, qty)
           e == [side |-> side, limit |-> price, qty |-> qty, executed |-> 0, open |-> qty, canceled |-> 0]
           n == [m \in DOMAIN l \cup {id} |-> IF m = id THEN e ELSE l[m]]
<1>1. applyResponse(l, r) = n
  BY DEF applyResponse, Response
<1>2. a # Idle /\ a.market_order_id_ = id
  BY DEF Idle, None
<1>3. /\ DOMAIN n = DOMAIN l \cup {id} /\ n[id] = e
      /\ \A m \in DOMAIN l : m # id /\ n[m] = l[m]
  OBVIOUS
<1>4. /\ e \in Entry /\ e.executed + e.open + e.canceled = e.qty
      /\ Owes(e, a.side_, a.price_, a.leaves_)
  BY DEF Entry, Owes
<1> HIDE DEF n, e, a
<1>5. Told(R, a, n)
  <2>1. \A m \in DOMAIN n : n[m] \in Entry /\ n[m].executed + n[m].open + n[m].canceled = n[m].qty
    BY <1>3, <1>4 DEF Told
  <2>2. \A p \in R : /\ p.market_order_id_ \in DOMAIN n
                     /\ Owes(n[p.market_order_id_], p.side_, p.price_, p.qty_)
    BY <1>3 DEF Told
  <2>3. /\ a.market_order_id_ \in DOMAIN n
        /\ Owes(n[a.market_order_id_], a.side_, a.price_, a.leaves_)
    BY <1>2, <1>3, <1>4
  <2>4. \A m \in DOMAIN n : \/ n[m].open = 0
                            \/ \E p \in R : p.market_order_id_ = m
                            \/ a # Idle /\ a.market_order_id_ = m
    BY <1>2, <1>3 DEF Told
  <2> QED BY <2>1, <2>2, <2>3, <2>4 DEF Told
<1> QED BY <1>1, <1>3, <1>5 DEF a

(* One response changes one entry. *)
AfterFill(l, n, id, left) ==
  /\ DOMAIN n = DOMAIN l
  /\ \A m \in DOMAIN l : m # id => n[m] = l[m]
  /\ n[id] \in Entry /\ Owes(n[id], l[id].side, l[id].limit, left)
  /\ n[id].executed + n[id].open + n[id].canceled = n[id].qty
AfterCancel(l, n, id) ==
  /\ DOMAIN n = DOMAIN l
  /\ \A m \in DOMAIN l : m # id => n[m] = l[m]
  /\ n[id] \in Entry /\ n[id].open = 0
  /\ n[id].executed + n[id].open + n[id].canceled = n[id].qty

(* FILLED moves the executed part of an entry from open to executed. *)
LEMMA FilledEntry ==
  ASSUME NEW l, NEW id \in DOMAIN l, l[id] \in Entry, NEW fill \in Nat, NEW left \in Nat,
         l[id].open = fill + left, l[id].canceled = 0,
         l[id].executed + l[id].open + l[id].canceled = l[id].qty,
         NEW c, NEW o, NEW side, NEW price
  PROVE  AfterFill(l, applyResponse(l, Response("FILLED", c, o, id, side, price, fill, left)), id, left)
<1> DEFINE r == Response("FILLED", c, o, id, side, price, fill, left)
           e1 == [l[id] EXCEPT !.executed = @ + fill]
           e == [e1 EXCEPT !.open = left]
           n == applyResponse(l, r)
<1>1. n = [l EXCEPT ![id].executed = @ + fill, ![id].open = left]
  BY DEF applyResponse, Response
<1>2. /\ DOMAIN n = DOMAIN l /\ \A m \in DOMAIN l : m # id => n[m] = l[m]
      /\ n[id] = e
  BY <1>1
<1>3. /\ l[id].executed \in Nat /\ l[id].open \in Nat /\ l[id].canceled \in Nat /\ l[id].qty \in Nat
      /\ l[id].executed + fill \in Nat
  BY DEF Entry
<1>4. e = [side |-> l[id].side, limit |-> l[id].limit, qty |-> l[id].qty,
           executed |-> l[id].executed + fill, open |-> left, canceled |-> l[id].canceled]
  <2>1. e1 =
          [side |-> l[id].side, limit |-> l[id].limit, qty |-> l[id].qty,
           executed |-> l[id].executed + fill, open |-> l[id].open, canceled |-> l[id].canceled]
    BY DEF Entry
  <2> HIDE DEF e1
  <2> QED BY <2>1
<1>5. e \in Entry
  BY <1>3, <1>4 DEF Entry
<1>6. /\ e.executed = l[id].executed + fill /\ e.open = left /\ e.canceled = l[id].canceled
      /\ e.qty = l[id].qty /\ e.side = l[id].side /\ e.limit = l[id].limit
  BY <1>4
<1> HIDE DEF e, n
<1>7. n[id].executed + n[id].open + n[id].canceled = n[id].qty
  BY <1>2, <1>3, <1>6
<1>8. AfterFill(l, n, id, left)
  BY <1>2, <1>5, <1>6, <1>7 DEF Owes, AfterFill
<1> QED BY <1>8 DEF n, r

(* CANCELED moves what was open to canceled. *)
LEMMA CanceledEntry ==
  ASSUME NEW l, NEW id \in DOMAIN l, l[id] \in Entry, l[id].canceled = 0,
         l[id].executed + l[id].open + l[id].canceled = l[id].qty,
         NEW c, NEW o, NEW side, NEW price
  PROVE  AfterCancel(l, applyResponse(l, Response("CANCELED", c, o, id, side, price, Invalid, l[id].open)), id)
<1> DEFINE r == Response("CANCELED", c, o, id, side, price, Invalid, l[id].open)
           e1 == [l[id] EXCEPT !.canceled = l[id].open]
           e == [e1 EXCEPT !.open = 0]
           n == applyResponse(l, r)
<1>1. n = [l EXCEPT ![id].canceled = l[id].open, ![id].open = 0]
  BY DEF applyResponse, Response
<1>2. /\ DOMAIN n = DOMAIN l /\ \A m \in DOMAIN l : m # id => n[m] = l[m]
      /\ n[id] = e
  BY <1>1
<1>3. l[id].executed \in Nat /\ l[id].open \in Nat /\ l[id].canceled \in Nat /\ l[id].qty \in Nat
  BY DEF Entry
<1>4. e = [side |-> l[id].side, limit |-> l[id].limit, qty |-> l[id].qty,
           executed |-> l[id].executed, open |-> 0, canceled |-> l[id].open]
  <2>1. e1 =
          [side |-> l[id].side, limit |-> l[id].limit, qty |-> l[id].qty,
           executed |-> l[id].executed, open |-> l[id].open, canceled |-> l[id].open]
    BY DEF Entry
  <2> HIDE DEF e1
  <2> QED BY <2>1
<1>5. e \in Entry
  BY <1>3, <1>4 DEF Entry
<1>6. e.executed = l[id].executed /\ e.open = 0 /\ e.canceled = l[id].open /\ e.qty = l[id].qty
  BY <1>4
<1> HIDE DEF e, n
<1>7. n[id].executed + n[id].open + n[id].canceled = n[id].qty
  BY <1>2, <1>3, <1>6
<1>8. AfterCancel(l, n, id)
  BY <1>2, <1>5, <1>6, <1>7 DEF AfterCancel
<1> QED BY <1>8 DEF n, r

(* The ledger n after a trade of a, then b, with the resting order o. *)
ToldAfter(S, a, o, b, l, n) ==
  /\ DOMAIN n = DOMAIN l
  /\ Told(S, b, n)
  /\ n[a.market_order_id_].side = a.side_ /\ n[a.market_order_id_].limit = a.price_
  /\ n[o.market_order_id_].side = o.side_ /\ n[o.market_order_id_].limit = o.price_
  /\ a.market_order_id_ \in DOMAIN n /\ o.market_order_id_ \in DOMAIN n

(* match(): the aggressor is told, then the owner of the passive order. *)
LEMMA ToldMatch ==
  ASSUME NEW R, NEW a \in Aggressor, NEW l, Told(R, a, l), Unique(R), a # Idle,
         NEW o \in R, o \in MEOrder, o.market_order_id_ # a.market_order_id_,
         NEW fill \in Nat, fill <= a.leaves_, fill <= o.qty_, NEW price,
         NEW S,
         \A p \in S : \/ p \in R \ {o}
                      \/ /\ p.market_order_id_ = o.market_order_id_ /\ p.side_ = o.side_
                         /\ p.price_ = o.price_ /\ p.qty_ = o.qty_ - fill,
         R \ {o} \subseteq S,
         o.qty_ - fill # 0 => \E p \in S : p.market_order_id_ = o.market_order_id_,
         \A p \in R : p.market_order_id_ # a.market_order_id_
  PROVE  LET r == Response("FILLED", a.client_id_, a.client_order_id_, a.market_order_id_,
                           a.side_, price, fill, a.leaves_ - fill)
             s == Response("FILLED", o.client_id_, o.client_order_id_, o.market_order_id_,
                           o.side_, price, fill, o.qty_ - fill)
             n == applyResponse(applyResponse(l, r), s)
         IN  ToldAfter(S, a, o, [a EXCEPT !.leaves_ = a.leaves_ - fill], l, n)
<1> DEFINE r == Response("FILLED", a.client_id_, a.client_order_id_, a.market_order_id_,
                         a.side_, price, fill, a.leaves_ - fill)
           s == Response("FILLED", o.client_id_, o.client_order_id_, o.market_order_id_,
                         o.side_, price, fill, o.qty_ - fill)
           k == applyResponse(l, r)
           n == applyResponse(k, s)
           i == a.market_order_id_
           j == o.market_order_id_
           b == [a EXCEPT !.leaves_ = a.leaves_ - fill]
<1>1. a.leaves_ \in Nat /\ o.qty_ \in Nat /\ a.leaves_ - fill \in Nat /\ o.qty_ - fill \in Nat
  BY DEF Aggressor, MEOrder
<1>2. /\ i \in DOMAIN l /\ Owes(l[i], a.side_, a.price_, a.leaves_) /\ l[i] \in Entry
      /\ l[i].executed + l[i].open + l[i].canceled = l[i].qty
      /\ j \in DOMAIN l /\ Owes(l[j], o.side_, o.price_, o.qty_) /\ l[j] \in Entry
      /\ l[j].executed + l[j].open + l[j].canceled = l[j].qty
  BY DEF Told
<1>3. /\ l[i].open = fill + (a.leaves_ - fill) /\ l[i].canceled = 0
      /\ l[i].side = a.side_ /\ l[i].limit = a.price_
      /\ l[j].open = fill + (o.qty_ - fill) /\ l[j].canceled = 0
      /\ l[j].side = o.side_ /\ l[j].limit = o.price_
  BY <1>1, <1>2 DEF Owes
<1>4. /\ DOMAIN k = DOMAIN l
      /\ \A m \in DOMAIN l : m # i => k[m] = l[m]
      /\ k[i] \in Entry /\ Owes(k[i], a.side_, a.price_, a.leaves_ - fill)
      /\ k[i].executed + k[i].open + k[i].canceled = k[i].qty
  <2>1. PICK left \in Nat : left = a.leaves_ - fill
    BY <1>1
  <2>2. /\ i \in DOMAIN l /\ l[i] \in Entry /\ l[i].open = fill + left /\ l[i].canceled = 0
        /\ l[i].executed + l[i].open + l[i].canceled = l[i].qty
    BY <2>1, <1>2, <1>3
  <2> DEFINE x == applyResponse(l, Response("FILLED", a.client_id_, a.client_order_id_, i, a.side_, price, fill, left))
  <2>3. AfterFill(l, x, i, left)
    BY <2>2, FilledEntry, Zenon
  <2>4. x = k
    BY <2>1, Zenon
  <2> HIDE DEF x, k
  <2> QED BY <2>1, <2>3, <2>4, <1>3 DEF AfterFill
<1>5. k[j] = l[j] /\ j \in DOMAIN k
  BY <1>2, <1>4
<1> HIDE DEF k
<1>6. /\ DOMAIN n = DOMAIN k
      /\ \A m \in DOMAIN k : m # j => n[m] = k[m]
      /\ n[j] \in Entry /\ Owes(n[j], o.side_, o.price_, o.qty_ - fill)
      /\ n[j].executed + n[j].open + n[j].canceled = n[j].qty
  <2>1. PICK left \in Nat : left = o.qty_ - fill
    BY <1>1
  <2>2. /\ j \in DOMAIN k /\ k[j] \in Entry /\ k[j].open = fill + left /\ k[j].canceled = 0
        /\ k[j].executed + k[j].open + k[j].canceled = k[j].qty
    BY <2>1, <1>2, <1>3, <1>5
  <2> DEFINE x == applyResponse(k, Response("FILLED", o.client_id_, o.client_order_id_, j, o.side_, price, fill, left))
  <2>3. AfterFill(k, x, j, left)
    BY <2>2, FilledEntry, Zenon
  <2>4. x = n
    BY <2>1, Zenon
  <2> HIDE DEF x, n
  <2> QED BY <2>1, <2>3, <2>4, <1>3, <1>5 DEF AfterFill
<1>7. /\ DOMAIN n = DOMAIN l
      /\ \A m \in DOMAIN l : m # i /\ m # j => n[m] = l[m]
      /\ n[i] = k[i]
  BY <1>2, <1>4, <1>6
<1>8. b.market_order_id_ = i /\ b.side_ = a.side_ /\ b.price_ = a.price_ /\ b.leaves_ = a.leaves_ - fill
  BY DEF Aggressor
<1>9. b # Idle
  <2>1. "leaves_" \in DOMAIN b /\ "leaves_" \notin DOMAIN Idle
    BY DEF Aggressor, Idle
  <2> QED BY <2>1
<1> HIDE DEF n, b
<1>10. \A m \in DOMAIN n : n[m] \in Entry /\ n[m].executed + n[m].open + n[m].canceled = n[m].qty
  <2> SUFFICES ASSUME NEW m \in DOMAIN n
               PROVE  n[m] \in Entry /\ n[m].executed + n[m].open + n[m].canceled = n[m].qty
    OBVIOUS
  <2>1. CASE m = i
    BY <2>1, <1>4, <1>7
  <2>2. CASE m = j
    BY <2>2, <1>6
  <2>3. CASE m # i /\ m # j
    BY <2>3, <1>7 DEF Told
  <2> QED BY <2>1, <2>2, <2>3
<1>11. ASSUME NEW p \in S
       PROVE  /\ p.market_order_id_ \in DOMAIN n
              /\ Owes(n[p.market_order_id_], p.side_, p.price_, p.qty_)
  <2>1. CASE p \in R \ {o}
    <3>1. p.market_order_id_ # j /\ p.market_order_id_ # i
      BY <2>1 DEF Unique
    <3>2. p.market_order_id_ \in DOMAIN l /\ Owes(l[p.market_order_id_], p.side_, p.price_, p.qty_)
      BY <2>1 DEF Told
    <3> QED BY <3>1, <3>2, <1>7
  <2>2. CASE /\ p.market_order_id_ = j /\ p.side_ = o.side_
             /\ p.price_ = o.price_ /\ p.qty_ = o.qty_ - fill
    BY <2>2, <1>5, <1>6
  <2> QED BY <2>1, <2>2
<1>12. i \in DOMAIN n /\ Owes(n[i], b.side_, b.price_, b.leaves_)
  BY <1>2, <1>4, <1>7, <1>8
<1>13. ASSUME NEW m \in DOMAIN n
       PROVE  \/ n[m].open = 0
              \/ \E p \in S : p.market_order_id_ = m
              \/ b # Idle /\ b.market_order_id_ = m
  <2>1. CASE m = i
    BY <2>1, <1>8, <1>9
  <2>2. CASE m = j
    BY <2>2, <1>6 DEF Owes
  <2>3. CASE m # i /\ m # j
    <3>1. m \in DOMAIN l /\ n[m] = l[m]
      BY <2>3, <1>7
    <3>2. l[m].open = 0 \/ \E p \in R : p.market_order_id_ = m
      BY <2>3, <3>1 DEF Told
    <3>3. ASSUME NEW p \in R, p.market_order_id_ = m PROVE \E q \in S : q.market_order_id_ = m
      BY <2>3, <3>3
    <3> QED BY <3>1, <3>2, <3>3
  <2> QED BY <2>1, <2>2, <2>3
<1>14. Told(S, b, n)
  BY <1>8, <1>10, <1>11, <1>12, <1>13 DEF Told
<1>15. n[i].side = a.side_ /\ n[i].limit = a.price_ /\ n[j].side = o.side_ /\ n[j].limit = o.price_
  BY <1>4, <1>6, <1>7 DEF Owes
<1>16. DOMAIN n = DOMAIN l /\ i \in DOMAIN n /\ j \in DOMAIN n
  BY <1>2, <1>7
<1>17. ToldAfter(S, a, o, b, l, n)
  BY <1>14, <1>15, <1>16 DEF ToldAfter
<1> QED BY <1>17 DEF n, k, b

ToldCanceled(R, o, l, n) == Told(R \ {o}, Idle, n) /\ DOMAIN n = DOMAIN l

(* The CANCELED of a resting order closes its entry. *)
LEMMA ToldCancel ==
  ASSUME NEW R, NEW l, Told(R, Idle, l), Unique(R), NEW o \in R, NEW c, NEW oid
  PROVE  ToldCanceled(R, o, l, applyResponse(l, Response("CANCELED", c, oid, o.market_order_id_,
                                                         o.side_, o.price_, Invalid, o.qty_)))
<1> DEFINE n == applyResponse(l, Response("CANCELED", c, oid, o.market_order_id_, o.side_,
                                          o.price_, Invalid, o.qty_))
           j == o.market_order_id_
<1>1. /\ j \in DOMAIN l /\ Owes(l[j], o.side_, o.price_, o.qty_) /\ l[j] \in Entry
      /\ l[j].executed + l[j].open + l[j].canceled = l[j].qty
  BY DEF Told
<1>2. l[j].open = o.qty_ /\ l[j].canceled = 0
  BY <1>1 DEF Owes
<1>3. /\ DOMAIN n = DOMAIN l
      /\ \A m \in DOMAIN l : m # j => n[m] = l[m]
      /\ n[j] \in Entry /\ n[j].open = 0
      /\ n[j].executed + n[j].open + n[j].canceled = n[j].qty
  <2> DEFINE k == applyResponse(l, Response("CANCELED", c, oid, j, o.side_, o.price_, Invalid, l[j].open))
  <2>1. AfterCancel(l, k, j)
    BY <1>1, <1>2, CanceledEntry, Zenon
  <2>2. k = n
    BY <1>2, Zenon
  <2> HIDE DEF k, n
  <2> QED BY <2>1, <2>2 DEF AfterCancel
<1> HIDE DEF n
<1>4. \A m \in DOMAIN n : n[m] \in Entry /\ n[m].executed + n[m].open + n[m].canceled = n[m].qty
  BY <1>3 DEF Told
<1>5. \A p \in R \ {o} : /\ p.market_order_id_ \in DOMAIN n
                         /\ Owes(n[p.market_order_id_], p.side_, p.price_, p.qty_)
  BY <1>3 DEF Told, Unique
<1>6. \A m \in DOMAIN n : n[m].open = 0 \/ \E p \in R \ {o} : p.market_order_id_ = m
  BY <1>3 DEF Told
<1>7. Told(R \ {o}, Idle, n)
  BY <1>4, <1>5, <1>6 DEF Told
<1>8. ToldCanceled(R, o, l, n)
  BY <1>3, <1>7 DEF ToldCanceled
<1> QED BY <1>8, Zenon DEF n

(* add() ends: what is left of the order rests, or nothing is left. *)
LEMMA ToldRest ==
  ASSUME NEW R, NEW a, NEW l, Told(R, a, l), a # Idle, NEW o,
         o.market_order_id_ = a.market_order_id_, o.side_ = a.side_, o.price_ = a.price_,
         o.qty_ = a.leaves_
  PROVE  Told(R \cup {o}, Idle, l)
BY DEF Told

(* An aggressor without leaves owes nothing when matching ends. *)
LEMMA ToldFullyFilled ==
  ASSUME NEW R, NEW a, NEW l, Told(R, a, l), a # Idle => a.leaves_ = 0
  PROVE  Told(R, Idle, l)
BY DEF Told, Owes

-----------------------------------------------------------------------------
(* What the steps of MEOrderBook do to the set of resting orders *)

(* The resting orders are those of the levels, before and after a step. *)
LEMMA InResting ==
  /\ \A x : x \in Resting <=> \E p \in Prices : \E i \in DOMAIN Level(p) : x = Level(p)[i]
  /\ \A x : x \in Resting' <=> \E p \in Prices : \E i \in DOMAIN price_orders_at_price_'[p] :
                                 x = price_orders_at_price_'[p][i]
<1>1. \A x : x \in Resting <=> \E p \in Prices : \E i \in DOMAIN Level(p) : x = Level(p)[i]
  BY DEF Resting
<1>2. Resting' = UNION { { price_orders_at_price_'[p][i] : i \in DOMAIN price_orders_at_price_'[p] } : p \in Prices }
  BY DEF Resting, Level
<1>3. \A x : x \in Resting' <=> \E p \in Prices : \E i \in DOMAIN price_orders_at_price_'[p] :
                                 x = price_orders_at_price_'[p][i]
  BY <1>2
<1> QED BY <1>1, <1>3

(* No order is at two places of the book. *)
LEMMA DistinctOrders ==
  ASSUME IInv, NEW p \in Prices, NEW q \in Prices, NEW i \in DOMAIN Level(p), NEW j \in DOMAIN Level(q),
         Level(p)[i] = Level(q)[j]
  PROVE  p = q /\ i = j
<1>1. p = q
  <2>1. Level(p)[i].price_ = p /\ Level(q)[j].price_ = q
    BY DEF IInv, LevelsConsistent
  <2> QED BY <2>1
<1>2. /\ DOMAIN Level(p) = 1 .. Len(Level(p)) /\ Level(p)[i] \in MEOrder
  BY LevelType DEF IInv
<1>3. Level(p)[i].market_order_id_ \in Nat
  BY <1>2 DEF MEOrder
<1>4. ~(i < j) /\ ~(j < i)
  BY <1>1, <1>3 DEF IInv, PrioritiesFollowTime
<1> QED BY <1>1, <1>2, <1>4

(* A resting order is typed, not exhausted, and older than the aggressor. *)
LEMMA RestingFacts ==
  ASSUME IInv, NEW o \in Resting
  PROVE  /\ o \in MEOrder /\ o.qty_ > 0 /\ o.market_order_id_ < next_market_order_id_
         /\ aggressor # Idle => o.market_order_id_ < aggressor.market_order_id_
<1>1. PICK p, i : p \in Prices /\ i \in DOMAIN Level(p) /\ o = Level(p)[i]
  BY InResting
<1>2. o \in MEOrder
  BY <1>1, LevelType DEF IInv
<1> QED BY <1>1, <1>2 DEF IInv, LevelsConsistent, IdsBounded

(* removeOrder takes one order out of the book. *)
LEMMA RemoveResting ==
  ASSUME IInv, NEW p \in Prices, NEW i \in DOMAIN Level(p), removeOrder(p, i)
  PROVE  Resting' = Resting \ {Level(p)[i]} /\ Level(p)[i] \in Resting
<1>1. /\ \A q \in Prices : q # p => price_orders_at_price_'[q] = Level(q)
      /\ DOMAIN price_orders_at_price_'[p] = 1 .. Len(Level(p)) - 1
      /\ \A k \in 1 .. Len(Level(p)) - 1 :
           price_orders_at_price_'[p][k] = IF k < i THEN Level(p)[k] ELSE Level(p)[k + 1]
  BY RemoveOrderEffect DEF IInv
<1>2. DOMAIN Level(p) = 1 .. Len(Level(p)) /\ Len(Level(p)) \in Nat
  BY LevelType DEF IInv
<1>3. ASSUME NEW x \in Resting' PROVE x \in Resting /\ x # Level(p)[i]
  <2>1. PICK q, k : q \in Prices /\ k \in DOMAIN price_orders_at_price_'[q] /\ x = price_orders_at_price_'[q][k]
    BY <1>3, InResting
  <2>2. \E j \in DOMAIN Level(q) : x = Level(q)[j] /\ ~(q = p /\ j = i)
    <3>1. CASE q # p
      BY <3>1, <2>1, <1>1
    <3>2. CASE q = p /\ k < i
      <4>1. k \in 1 .. Len(Level(p)) - 1 /\ k \in DOMAIN Level(p)
        BY <3>2, <2>1, <1>1, <1>2
      <4>2. x = Level(p)[k] /\ k # i
        BY <3>2, <4>1, <2>1, <1>1, <1>2
      <4> QED BY <3>2, <4>1, <4>2
    <3>3. CASE q = p /\ ~(k < i)
      <4>1. k \in 1 .. Len(Level(p)) - 1 /\ k + 1 \in DOMAIN Level(p)
        BY <3>3, <2>1, <1>1, <1>2
      <4>2. x = Level(p)[k + 1]
        BY <3>3, <4>1, <2>1, <1>1
      <4>3. k + 1 # i
        BY <3>3, <4>1, <1>2
      <4> QED BY <3>3, <4>1, <4>2, <4>3
    <3> QED BY <3>1, <3>2, <3>3
  <2>3. PICK j \in DOMAIN Level(q) : x = Level(q)[j] /\ ~(q = p /\ j = i)
    BY <2>2
  <2> QED BY <2>1, <2>3, InResting, DistinctOrders
<1>4. ASSUME NEW x \in Resting, x # Level(p)[i] PROVE x \in Resting'
  <2>1. PICK q, j : q \in Prices /\ j \in DOMAIN Level(q) /\ x = Level(q)[j]
    BY <1>4, InResting
  <2>2. CASE q # p
    BY <2>1, <2>2, <1>1, InResting
  <2>3. CASE q = p /\ j < i
    <3>1. j \in 1 .. Len(Level(p)) - 1
      BY <2>1, <2>3, <1>2
    <3>2. price_orders_at_price_'[p][j] = x /\ j \in DOMAIN price_orders_at_price_'[p]
      BY <3>1, <2>1, <2>3, <1>1
    <3> QED BY <3>2, InResting
  <2>4. CASE q = p /\ ~(j < i)
    <3>1. j # i
      BY <2>1, <2>4, <1>4
    <3>2. j - 1 \in 1 .. Len(Level(p)) - 1 /\ ~(j - 1 < i) /\ (j - 1) + 1 = j
      BY <2>1, <2>4, <3>1, <1>2
    <3>3. price_orders_at_price_'[p][j - 1] = x /\ j - 1 \in DOMAIN price_orders_at_price_'[p]
      BY <3>2, <2>1, <2>4, <1>1
    <3> QED BY <3>3, InResting
  <2> QED BY <2>2, <2>3, <2>4
<1>5. Level(p)[i] \in Resting
  BY InResting
<1> QED BY <1>3, <1>4, <1>5

(* A partial fill of match replaces the first order of its level. *)
LEMMA PartialResting ==
  ASSUME IInv, NEW p \in Prices, 1 \in DOMAIN Level(p), NEW qty,
         price_orders_at_price_' = [price_orders_at_price_ EXCEPT ![p][1].qty_ = qty]
  PROVE  Resting' = (Resting \ {Level(p)[1]}) \cup {[Level(p)[1] EXCEPT !.qty_ = qty]}
<1> DEFINE new == [Level(p)[1] EXCEPT !.qty_ = qty]
<1>0. price_orders_at_price_ \in [Prices -> Seq(MEOrder)]
  BY DEF IInv, TypeOK
<1>1. price_orders_at_price_' = [price_orders_at_price_ EXCEPT ![p] = [Level(p) EXCEPT ![1] = new]]
  BY DEF Level
<1> HIDE DEF new
<1>2. /\ \A q \in Prices : q # p => price_orders_at_price_'[q] = Level(q)
      /\ price_orders_at_price_'[p] = [Level(p) EXCEPT ![1] = new]
  BY <1>0, <1>1 DEF Level
<1>3. /\ DOMAIN price_orders_at_price_'[p] = DOMAIN Level(p)
      /\ price_orders_at_price_'[p][1] = new
      /\ \A j \in DOMAIN Level(p) : j # 1 => price_orders_at_price_'[p][j] = Level(p)[j]
  BY <1>2
<1>4. ASSUME NEW x \in Resting' PROVE x = new \/ (x \in Resting /\ x # Level(p)[1])
  <2>1. PICK q, k : q \in Prices /\ k \in DOMAIN price_orders_at_price_'[q] /\ x = price_orders_at_price_'[q][k]
    BY <1>4, InResting
  <2>2. CASE q = p /\ k = 1
    BY <2>1, <2>2, <1>3
  <2>3. CASE ~(q = p /\ k = 1)
    <3>1. k \in DOMAIN Level(q) /\ x = Level(q)[k]
      BY <2>1, <2>3, <1>2, <1>3
    <3> QED BY <2>1, <2>3, <3>1, InResting, DistinctOrders
  <2> QED BY <2>2, <2>3
<1>5. new \in Resting'
  BY <1>3, InResting
<1>6. ASSUME NEW x \in Resting, x # Level(p)[1] PROVE x \in Resting'
  <2>1. PICK q, j : q \in Prices /\ j \in DOMAIN Level(q) /\ x = Level(q)[j]
    BY <1>6, InResting
  <2>2. j \in DOMAIN price_orders_at_price_'[q] /\ price_orders_at_price_'[q][j] = x
    BY <2>1, <1>2, <1>3, <1>6
  <2> QED BY <2>1, <2>2, InResting
<1>7. Resting' = (Resting \ {Level(p)[1]}) \cup {new}
  BY <1>4, <1>5, <1>6
<1> QED BY <1>7 DEF new

(* addOrder adds one order to the book. *)
LEMMA AddResting ==
  ASSUME IInv, NEW order \in MEOrder, addOrder(order)
  PROVE  Resting' = Resting \cup {order}
<1>0. /\ price_orders_at_price_ \in [Prices -> Seq(MEOrder)] /\ order.price_ \in Prices
  BY DEF IInv, TypeOK, MEOrder
<1> DEFINE p == order.price_
           L == Level(p)
<1>1. /\ L \in Seq(MEOrder) /\ Len(L) \in Nat /\ DOMAIN L = 1 .. Len(L)
  BY <1>0, LevelType DEF IInv
<1>2. /\ \A q \in Prices : q # p => price_orders_at_price_'[q] = Level(q)
      /\ price_orders_at_price_'[p] = Append(L, order)
  BY <1>0 DEF addOrder, Level
<1>3. /\ DOMAIN Append(L, order) = 1 .. Len(L) + 1
      /\ \A k \in 1 .. Len(L) : Append(L, order)[k] = L[k]
      /\ Append(L, order)[Len(L) + 1] = order
  BY <1>1, AppendProperties
<1>4. ASSUME NEW x \in Resting' PROVE x = order \/ x \in Resting
  <2>1. PICK q, k : q \in Prices /\ k \in DOMAIN price_orders_at_price_'[q] /\ x = price_orders_at_price_'[q][k]
    BY <1>4, InResting
  <2>2. CASE q # p
    BY <2>1, <2>2, <1>2, InResting
  <2>3. CASE q = p
    <3>1. k \in 1 .. Len(L) + 1
      BY <2>1, <2>3, <1>2, <1>3
    <3>2. k = Len(L) + 1 \/ k \in DOMAIN L
      BY <3>1, <1>1
    <3> QED BY <2>1, <2>3, <3>2, <1>0, <1>1, <1>2, <1>3, InResting
  <2> QED BY <2>2, <2>3
<1>5. order \in Resting'
  <2>1. Len(L) + 1 \in DOMAIN price_orders_at_price_'[p]
    BY <1>1, <1>2, <1>3
  <2> QED BY <2>1, <1>0, <1>2, <1>3, InResting
<1>6. ASSUME NEW x \in Resting PROVE x \in Resting'
  <2>1. PICK q, j : q \in Prices /\ j \in DOMAIN Level(q) /\ x = Level(q)[j]
    BY <1>6, InResting
  <2>2. CASE q # p
    BY <2>1, <2>2, <1>2, InResting
  <2>3. CASE q = p
    <3>1. j \in 1 .. Len(L) /\ j \in 1 .. Len(L) + 1
      BY <2>1, <2>3, <1>1
    <3>2. j \in DOMAIN price_orders_at_price_'[q] /\ price_orders_at_price_'[q][j] = x
      BY <3>1, <2>1, <2>3, <1>2, <1>3
    <3> QED BY <2>1, <3>2, InResting
  <2> QED BY <2>2, <2>3
<1> QED BY <1>4, <1>5, <1>6

-----------------------------------------------------------------------------
(* The invariant is preserved *)

(* What ExchangeNext adds to a step with no, one or two market updates. *)
LEMMA NoUpdate ==
  ASSUME ExchangeNext, sent_updates' = << >>
  PROVE  assert_failed' = FALSE /\ ticker_orders_' = ticker_orders_
<1>1. ticker_orders_' = ticker_orders_
  BY SnapshotOfNone DEF ExchangeNext
<1>2. DOMAIN sent_updates' = {}
  OBVIOUS
<1>3. assert_failed' = \E i \in DOMAIN sent_updates' :
                        ~SnapshotAsserts(snapshotBefore(sent_updates', i), sent_updates'[i])
  BY DEF ExchangeNext
<1> QED BY <1>1, <1>2, <1>3

(* A step that sends one update makes the synthesizer apply it. *)
LEMMA OneUpdate ==
  ASSUME ExchangeNext, NEW u, sent_updates' = <<u>>, SnapshotAsserts(ticker_orders_, u)
  PROVE  assert_failed' = FALSE /\ ticker_orders_' = addToSnapshot(ticker_orders_, u)
<1>2. DOMAIN sent_updates' = {1} /\ sent_updates'[1] = u
  OBVIOUS
<1>1. ticker_orders_' = addToSnapshot(ticker_orders_, u)
  BY <1>2, SnapshotOfOne, Zenon DEF ExchangeNext
<1>3. snapshotBefore(sent_updates', 1) = ticker_orders_
  <2>1. SubSeq(sent_updates', 1, 1 - 1) = << >>
    OBVIOUS
  <2> QED BY <2>1, SnapshotOfNone DEF snapshotBefore
<1>4. assert_failed' = \E i \in DOMAIN sent_updates' :
                        ~SnapshotAsserts(snapshotBefore(sent_updates', i), sent_updates'[i])
  BY DEF ExchangeNext
<1>5. \A i \in DOMAIN sent_updates' :
        SnapshotAsserts(snapshotBefore(sent_updates', i), sent_updates'[i])
  BY <1>2, <1>3
<1> QED BY <1>1, <1>4, <1>5

(* A TRADE is not applied to the snapshot. *)
LEMMA TradeThenUpdate ==
  ASSUME ExchangeNext, NEW t, NEW u, sent_updates' = <<t, u>>, t.type_ = "TRADE",
         SnapshotAsserts(ticker_orders_, u)
  PROVE  assert_failed' = FALSE /\ ticker_orders_' = addToSnapshot(ticker_orders_, u)
<1>0. addToSnapshot(ticker_orders_, t) = ticker_orders_ /\ SnapshotAsserts(ticker_orders_, t)
  BY DEF addToSnapshot, SnapshotAsserts
<1>1. ticker_orders_' = addToSnapshot(ticker_orders_, u)
  <2>1. ticker_orders_' = FoldLeft(addToSnapshot, ticker_orders_, sent_updates')
    BY DEF ExchangeNext
  <2>2. DOMAIN sent_updates' = {1, 2} /\ sent_updates'[1] = t /\ sent_updates'[2] = u
    OBVIOUS
  <2>3. PICK q : q = sent_updates'
    OBVIOUS
  <2>4. DOMAIN q = {1, 2} /\ q[1] = t /\ q[2] = u
    BY <2>2, <2>3
  <2>5. FoldLeft(addToSnapshot, ticker_orders_, q) = addToSnapshot(addToSnapshot(ticker_orders_, t), u)
    BY <2>4, SnapshotOfTwo, Zenon DEF IsPair
  <2> QED BY <2>1, <2>3, <2>5, <1>0, Zenon
<1>2. DOMAIN sent_updates' = {1, 2} /\ sent_updates'[1] = t /\ sent_updates'[2] = u
  OBVIOUS
<1>3. snapshotBefore(sent_updates', 1) = ticker_orders_
  <2>1. SubSeq(sent_updates', 1, 1 - 1) = << >>
    OBVIOUS
  <2> QED BY <2>1, SnapshotOfNone DEF snapshotBefore
<1>4. snapshotBefore(sent_updates', 2) = ticker_orders_
  <2> DEFINE q == SubSeq(sent_updates', 1, 2 - 1)
  <2>1. /\ q \in Seq({t, u})
        /\ Len(q) = IF 1 <= 2 - 1 THEN (2 - 1) - 1 + 1 ELSE 0
        /\ \A i \in 1 .. (2 - 1) - 1 + 1 : q[i] = sent_updates'[1 + i - 1]
    <3>1. \A i \in 1 .. 2 - 1 : sent_updates'[i] \in {t, u}
      BY <1>2
    <3> QED BY <3>1, SubSeqProperties
  <2> HIDE DEF q
  <2>2. DOMAIN q = {1} /\ q[1] = t
    <3>1. Len(q) = 1 /\ 1 \in 1 .. (2 - 1) - 1 + 1 /\ 1 + 1 - 1 = 1
      BY <2>1
    <3>2. q[1] = t
      BY <3>1, <2>1, <1>2
    <3>3. DOMAIN q = 1 .. 1
      BY <3>1, <2>1
    <3> QED BY <3>2, <3>3
  <2>3. FoldLeft(addToSnapshot, ticker_orders_, q) = addToSnapshot(ticker_orders_, t)
    BY <2>2, SnapshotOfOne, Zenon
  <2> QED BY <2>3, <1>0, Zenon DEF snapshotBefore, q
<1>5. assert_failed' = \E i \in DOMAIN sent_updates' :
                        ~SnapshotAsserts(snapshotBefore(sent_updates', i), sent_updates'[i])
  BY DEF ExchangeNext
<1>6. \A i \in DOMAIN sent_updates' :
        SnapshotAsserts(snapshotBefore(sent_updates', i), sent_updates'[i])
  BY <1>0, <1>2, <1>3, <1>4
<1> QED BY <1>1, <1>5, <1>6

(* Steps that leave the levels alone leave the resting orders alone. *)
LEMMA BookUnchangedResting ==
  ASSUME UNCHANGED book
  PROVE  Resting' = Resting
BY DEF book, Resting, Level

(* No response of the step is a fill. *)
LEMMA NoFills ==
  ASSUME \A i \in DOMAIN sent_responses' : sent_responses'[i].type_ # "FILLED"
  PROVE  FillsWithinLimits'
BY DEF FillsWithinLimits

(* add() accepts a request: a new entry, an unchanged snapshot. *)
LEMMA AcceptX ==
  ASSUME XInv, ExchangeNext, NEW c \in Clients, NEW o \in OrderIds, NEW side \in Side,
         NEW price \in Prices, NEW qty \in Quantities, Accept(c, o, side, price, qty)
  PROVE  XInv'
<1>1. IInv'
  BY AcceptKeeps DEF XInv
<1>2. Resting' = Resting
  BY BookUnchangedResting DEF Accept
<1>3. assert_failed' = FALSE /\ ticker_orders_' = ticker_orders_
  BY NoUpdate DEF Accept
<1> DEFINE r == Response("ACCEPTED", c, o, next_market_order_id_, side, price, 0, qty)
           a == [market_order_id_ |-> next_market_order_id_, client_id_ |-> c, client_order_id_ |-> o,
                 side_ |-> side, price_ |-> price, leaves_ |-> qty]
<1>4. /\ aggressor' = a /\ sent_responses' = <<r>> /\ aggressor = Idle
      /\ next_market_order_id_' = next_market_order_id_ + 1
  BY DEF Accept
<1>5. ledger' = applyResponse(ledger, r)
  <2> HIDE DEF r
  <2>1. DOMAIN sent_responses' = {1} /\ sent_responses'[1] = r
    BY <1>4
  <2> QED BY <2>1, LedgerOfOne, Zenon DEF ExchangeNext
<1>6. next_market_order_id_ \in Nat \ {None} /\ qty \in Nat
  BY QuantitiesAssumption DEF XInv, IInv, TypeOK
<1>7. next_market_order_id_ \notin DOMAIN ledger
  BY <1>6 DEF XInv, LedgerIds
<1>8. /\ Told(Resting, a, applyResponse(ledger, r))
      /\ DOMAIN applyResponse(ledger, r) = DOMAIN ledger \cup {next_market_order_id_}
  <2>1. Told(Resting, Idle, ledger)
    BY <1>4 DEF XInv
  <2> QED BY <2>1, <1>6, <1>7, ToldAccept
<1>9. r.type_ # "FILLED"
  BY DEF Response
<1> HIDE DEF r, a
<1>10. LedgerIds'
  BY <1>4, <1>5, <1>6, <1>8 DEF LedgerIds, XInv
<1>11. FillsWithinLimits'
  BY <1>4, <1>9, NoFills
<1> QED BY <1>1, <1>2, <1>3, <1>4, <1>5, <1>8, <1>10, <1>11 DEF XInv

(* match(): two fills, and the MODIFY or CANCEL of the passive order. *)
LEMMA MatchX ==
  ASSUME XInv, ExchangeNext, NEW p \in Prices, Match(p)
  PROVE  XInv'
<1>0. IInv
  BY DEF XInv
<1>1. IInv'
  BY <1>0, MatchKeeps
<1>2. /\ aggressor \in Aggressor /\ 1 \in DOMAIN Level(p) /\ Level(p) # << >>
      /\ Head(Level(p)) = Level(p)[1] /\ aggressor # Idle
  BY <1>0, MatchFacts DEF Match
<1>3. PICK fill \in Nat \ {0} :
        /\ fill = IF aggressor.leaves_ <= Level(p)[1].qty_
                  THEN aggressor.leaves_ ELSE Level(p)[1].qty_
        /\ fill <= aggressor.leaves_ /\ fill <= Level(p)[1].qty_
        /\ aggressor.leaves_ - fill \in Nat
        /\ Level(p)[1].qty_ - fill \in Nat
  BY <1>0, MatchFacts
<1>4. PICK o : o = Level(p)[1]
  OBVIOUS
<1>5. o \in Resting /\ o \in MEOrder /\ o.qty_ \in Nat /\ o.price_ = p
  <2>1. o \in Resting
    BY <1>2, <1>4, InResting
  <2>2. o.price_ = p
    BY <1>0, <1>2, <1>4 DEF IInv, LevelsConsistent
  <2> QED BY <2>1, <2>2, <1>0, RestingFacts DEF MEOrder
<1>6. PICK left, qty : left = aggressor.leaves_ - fill /\ qty = o.qty_ - fill
  OBVIOUS
<1>7. fillQty(o) = fill
  BY <1>3, <1>4 DEF fillQty
<1>8. /\ aggressor' = [aggressor EXCEPT !.leaves_ = left]
      /\ sent_responses' = fillResponses(o, fill, left, qty)
      /\ sent_updates' = <<Update("TRADE", None, aggressor.side_, p, fill, Invalid), passiveUpdate(o, qty)>>
      /\ \/ qty = 0 /\ removeOrder(p, 1)
         \/ qty # 0 /\ price_orders_at_price_' = [price_orders_at_price_ EXCEPT ![p][1].qty_ = qty]
      /\ next_market_order_id_' = next_market_order_id_
  BY <1>2, <1>4, <1>6, <1>7 DEF Match
<1> DEFINE n == [o EXCEPT !.qty_ = qty]
<1>9. Resting' = IF qty = 0 THEN Resting \ {o} ELSE (Resting \ {o}) \cup {n}
  <2>1. CASE qty = 0
    <3>1. removeOrder(p, 1)
      BY <2>1, <1>8
    <3> QED BY <2>1, <3>1, <1>0, <1>2, <1>4, RemoveResting
  <2>2. CASE qty # 0
    <3>1. price_orders_at_price_' = [price_orders_at_price_ EXCEPT ![p][1].qty_ = qty]
      BY <2>2, <1>8
    <3> QED BY <2>2, <3>1, <1>0, <1>2, <1>4, PartialResting
  <2> QED BY <2>1, <2>2
<1>10. /\ n.market_order_id_ = o.market_order_id_ /\ n.side_ = o.side_ /\ n.price_ = o.price_ /\ n.qty_ = qty
  BY <1>5 DEF MEOrder
<1>11. Unique(Resting) /\ Snap(Resting, ticker_orders_) /\ Told(Resting, aggressor, ledger)
  BY DEF XInv
<1>12. Unique(Resting')
  <2>1. PICK S : S = Resting'
    OBVIOUS
  <2>2. \A x \in S : x \in Resting \ {o} \/ (x = n /\ x.market_order_id_ = o.market_order_id_)
    <3> HIDE DEF n
    <3> QED BY <2>1, <1>9, <1>10
  <2>3. Unique(S)
    BY <2>2, <1>5, <1>11 DEF Unique
  <2> QED BY <2>1, <2>3
<1>13. /\ Snap(Resting', addToSnapshot(ticker_orders_, passiveUpdate(o, qty)))
       /\ SnapshotAsserts(ticker_orders_, passiveUpdate(o, qty))
  <2>1. CASE qty = 0
    BY <2>1, <1>5, <1>9, <1>11, SnapCancel DEF passiveUpdate
  <2>2. CASE qty # 0
    BY <2>2, <1>5, <1>9, <1>11, SnapModify DEF passiveUpdate
  <2> QED BY <2>1, <2>2
<1>14. assert_failed' = FALSE /\ ticker_orders_' = addToSnapshot(ticker_orders_, passiveUpdate(o, qty))
  <2>1. Update("TRADE", None, aggressor.side_, p, fill, Invalid).type_ = "TRADE"
    BY DEF Update
  <2> QED BY <2>1, <1>8, <1>13, TradeThenUpdate
<1> DEFINE r == Response("FILLED", aggressor.client_id_, aggressor.client_order_id_,
                         aggressor.market_order_id_, aggressor.side_, p, fill, left)
           s == Response("FILLED", o.client_id_, o.client_order_id_, o.market_order_id_,
                         o.side_, p, fill, qty)
<1>15. sent_responses' = <<r, s>>
  BY <1>5, <1>8 DEF fillResponses
<1>16. ledger' = applyResponse(applyResponse(ledger, r), s)
  <2> HIDE DEF r, s
  <2>1. DOMAIN sent_responses' = {1, 2} /\ sent_responses'[1] = r /\ sent_responses'[2] = s
    BY <1>15
  <2>2. PICK q : q = sent_responses'
    OBVIOUS
  <2>3. DOMAIN q = {1, 2} /\ q[1] = r /\ q[2] = s
    BY <2>1, <2>2
  <2>4. FoldLeft(applyResponse, ledger, q) = applyResponse(applyResponse(ledger, r), s)
    BY <2>3, LedgerOfTwo, Zenon DEF IsPair
  <2> QED BY <2>2, <2>4, Zenon DEF ExchangeNext
<1>17. \A q \in Resting : q.market_order_id_ # aggressor.market_order_id_
  <2> SUFFICES ASSUME NEW q \in Resting PROVE q.market_order_id_ # aggressor.market_order_id_
    OBVIOUS
  <2>1. q \in MEOrder /\ q.market_order_id_ < aggressor.market_order_id_
    BY <1>0, <1>2, RestingFacts
  <2> QED BY <2>1, <1>2 DEF MEOrder, Aggressor
<1>18. /\ DOMAIN ledger' = DOMAIN ledger
       /\ Told(Resting', [aggressor EXCEPT !.leaves_ = left], ledger')
       /\ ledger'[aggressor.market_order_id_].side = aggressor.side_
       /\ ledger'[aggressor.market_order_id_].limit = aggressor.price_
       /\ ledger'[o.market_order_id_].side = o.side_ /\ ledger'[o.market_order_id_].limit = o.price_
       /\ aggressor.market_order_id_ \in DOMAIN ledger' /\ o.market_order_id_ \in DOMAIN ledger'
  <2>1. PICK S : S = Resting'
    OBVIOUS
  <2>2. \A q \in S : \/ q \in Resting \ {o}
                     \/ /\ q.market_order_id_ = o.market_order_id_ /\ q.side_ = o.side_
                        /\ q.price_ = o.price_ /\ q.qty_ = o.qty_ - fill
    <3> HIDE DEF n
    <3> QED BY <2>1, <1>6, <1>9, <1>10
  <2>3. Resting \ {o} \subseteq S
    BY <2>1, <1>9
  <2>4. o.qty_ - fill # 0 => \E q \in S : q.market_order_id_ = o.market_order_id_
    <3> HIDE DEF n
    <3> QED BY <2>1, <1>6, <1>9, <1>10
  <2>5. o.market_order_id_ # aggressor.market_order_id_
    BY <1>5, <1>17
  <2>6. fill \in Nat /\ fill <= aggressor.leaves_ /\ fill <= o.qty_
    BY <1>3, <1>4
  <2> DEFINE r0 == Response("FILLED", aggressor.client_id_, aggressor.client_order_id_,
                            aggressor.market_order_id_, aggressor.side_, p, fill, aggressor.leaves_ - fill)
             s0 == Response("FILLED", o.client_id_, o.client_order_id_, o.market_order_id_,
                            o.side_, p, fill, o.qty_ - fill)
             b0 == [aggressor EXCEPT !.leaves_ = aggressor.leaves_ - fill]
  <2> HIDE DEF n
  <2>7. ToldAfter(S, aggressor, o, b0, ledger, applyResponse(applyResponse(ledger, r0), s0))
    BY <2>2, <2>3, <2>4, <2>5, <2>6, <1>2, <1>5, <1>11, <1>17, ToldMatch, Zenon
  <2>8. r0 = r /\ s0 = s /\ b0 = [aggressor EXCEPT !.leaves_ = left]
    BY <1>6, Zenon
  <2> HIDE DEF r0, s0, b0, r, s
  <2> QED BY <2>1, <2>7, <2>8, <1>16 DEF ToldAfter
<1>19. FillsWithinLimits'
  <2>1. aggressor.side_ \in Side /\ (IF aggressor.side_ = "BUY" THEN p <= aggressor.price_ ELSE p >= aggressor.price_)
    BY <1>2, PricesAssumption DEF Match, Marketable, Aggressor
  <2>2. r.market_order_id_ = aggressor.market_order_id_ /\ r.price_ = p
        /\ s.market_order_id_ = o.market_order_id_ /\ s.price_ = p
    BY DEF Response
  <2> HIDE DEF r, s
  <2>3. DOMAIN sent_responses' = {1, 2} /\ sent_responses'[1] = r /\ sent_responses'[2] = s
    BY <1>15
  <2> DEFINE Within(x) == IF ledger'[x.market_order_id_].side = "BUY"
                          THEN x.price_ <= ledger'[x.market_order_id_].limit
                          ELSE x.price_ >= ledger'[x.market_order_id_].limit
  <2>4. Within(r)
    BY <2>1, <2>2, <1>18
  <2>5. Within(s)
    <3>1. p <= p /\ p >= p
      BY PricesAssumption
    <3> QED BY <3>1, <2>2, <1>5, <1>18
  <2>6. \A i \in DOMAIN sent_responses' : Within(sent_responses'[i])
    <3> HIDE DEF Within
    <3> QED BY <2>3, <2>4, <2>5
  <2> QED BY <2>6 DEF FillsWithinLimits, WithinLimit
<1>20. LedgerIds'
  BY <1>8, <1>18 DEF LedgerIds, XInv
<1> QED BY <1>1, <1>8, <1>12, <1>13, <1>14, <1>18, <1>19, <1>20 DEF XInv

(* add() ends with an order that rests and its ADD. *)
LEMMA RestX ==
  ASSUME XInv, ExchangeNext, Rest
  PROVE  XInv'
<1>0. IInv /\ aggressor # Idle
  BY DEF XInv, Rest
<1>1. IInv'
  BY <1>0, RestKeeps
<1>2. aggressor \in Aggressor /\ aggressor.price_ \in Prices
  BY <1>0 DEF IInv, TypeOK, Aggressor
<1>3. getNextPriority(aggressor.price_) \in Nat
  <2> DEFINE L == Level(aggressor.price_)
  <2>1. /\ L \in Seq(MEOrder) /\ Len(L) \in Nat /\ DOMAIN L = 1 .. Len(L)
        /\ \A i \in DOMAIN L : L[i] \in MEOrder
        /\ L = << >> <=> Len(L) = 0
    BY <1>0, <1>2, LevelType DEF IInv
  <2>2. CASE L = << >>
    BY <2>2 DEF getNextPriority
  <2>3. CASE L # << >>
    <3>1. Len(L) \in DOMAIN L
      BY <2>1, <2>3
    <3>2. L[Len(L)].priority_ \in Nat
      BY <2>1, <3>1 DEF MEOrder
    <3> QED BY <2>3, <3>2 DEF getNextPriority
  <2> QED BY <2>2, <2>3
<1> DEFINE order == [market_order_id_ |-> aggressor.market_order_id_,
                     client_id_ |-> aggressor.client_id_,
                     client_order_id_ |-> aggressor.client_order_id_,
                     side_ |-> aggressor.side_, price_ |-> aggressor.price_,
                     qty_ |-> aggressor.leaves_, priority_ |-> getNextPriority(aggressor.price_)]
<1>4. order \in MEOrder
  BY <1>2, <1>3 DEF MEOrder, Aggressor
<1>5. /\ addOrder(order) /\ sent_responses' = << >> /\ sent_updates' = <<Row(order)>>
      /\ aggressor' = Idle /\ next_market_order_id_' = next_market_order_id_
  BY DEF Rest, Row
<1>6. /\ order.market_order_id_ = aggressor.market_order_id_ /\ order.side_ = aggressor.side_
      /\ order.price_ = aggressor.price_ /\ order.qty_ = aggressor.leaves_
  OBVIOUS
<1>11. PICK o : o = order
  OBVIOUS
<1> HIDE DEF order
<1>7. Resting' = Resting \cup {o}
  BY <1>0, <1>4, <1>5, <1>11, AddResting
<1>8. \A q \in Resting : q.market_order_id_ # o.market_order_id_
  <2> SUFFICES ASSUME NEW q \in Resting PROVE q.market_order_id_ # aggressor.market_order_id_
    BY <1>6, <1>11
  <2>1. q \in MEOrder /\ q.market_order_id_ < aggressor.market_order_id_
    BY <1>0, RestingFacts
  <2> QED BY <2>1, <1>2 DEF MEOrder, Aggressor
<1>9. Unique(Resting) /\ Snap(Resting, ticker_orders_) /\ Told(Resting, aggressor, ledger)
  BY DEF XInv
<1>10. Unique(Resting')
  BY <1>7, <1>8, <1>9 DEF Unique
<1>12. Snap(Resting', addToSnapshot(ticker_orders_, Row(o))) /\ SnapshotAsserts(ticker_orders_, Row(o))
  BY <1>7, <1>8, <1>9, SnapAdd
<1>13. assert_failed' = FALSE /\ ticker_orders_' = addToSnapshot(ticker_orders_, Row(o))
  BY <1>5, <1>11, <1>12, OneUpdate
<1>14. ledger' = ledger
  BY <1>5, LedgerOfNone DEF ExchangeNext
<1>15. Told(Resting', Idle, ledger)
  BY <1>0, <1>6, <1>7, <1>9, <1>11, ToldRest
<1>16. FillsWithinLimits'
  BY <1>5, NoFills
<1>17. LedgerIds'
  BY <1>5, <1>14 DEF LedgerIds, XInv
<1> QED BY <1>1, <1>5, <1>10, <1>12, <1>13, <1>14, <1>15, <1>16, <1>17 DEF XInv

(* add() ends with nothing left to rest. *)
LEMMA FullyFilledX ==
  ASSUME XInv, ExchangeNext, FullyFilled
  PROVE  XInv'
<1>1. IInv'
  <2>1. IInv /\ [Next]_vars
    BY DEF XInv, Next, EngineStep
  <2> QED BY <2>1, StepIInv
<1>2. Resting' = Resting
  BY BookUnchangedResting DEF FullyFilled
<1>3. assert_failed' = FALSE /\ ticker_orders_' = ticker_orders_
  BY NoUpdate DEF FullyFilled
<1>4. /\ aggressor' = Idle /\ sent_responses' = << >> /\ aggressor.leaves_ = 0
      /\ next_market_order_id_' = next_market_order_id_
  BY DEF FullyFilled
<1>5. ledger' = ledger
  BY <1>4, LedgerOfNone DEF ExchangeNext
<1>6. Told(Resting, Idle, ledger)
  BY <1>4, ToldFullyFilled DEF XInv
<1>7. FillsWithinLimits'
  BY <1>4, NoFills
<1>8. LedgerIds'
  BY <1>4, <1>5 DEF LedgerIds, XInv
<1> QED BY <1>1, <1>2, <1>3, <1>4, <1>5, <1>6, <1>7, <1>8 DEF XInv

(* cancel() of an order that is not there changes nothing. *)
LEMMA CancelRejectedX ==
  ASSUME XInv, ExchangeNext, NEW c \in Clients, NEW o \in OrderIds, CancelRejected(c, o)
  PROVE  XInv'
<1>1. IInv'
  <2>1. IInv /\ [Next]_vars
    BY DEF XInv, Next, HandleRequest
  <2> QED BY <2>1, StepIInv
<1>2. Resting' = Resting
  BY BookUnchangedResting DEF CancelRejected
<1>3. assert_failed' = FALSE /\ ticker_orders_' = ticker_orders_
  BY NoUpdate DEF CancelRejected
<1> DEFINE r == Response("CANCEL_REJECTED", c, o, None, "INVALID", Invalid, Invalid, Invalid)
<1>4. /\ aggressor' = aggressor /\ sent_responses' = <<r>>
      /\ next_market_order_id_' = next_market_order_id_
  BY DEF CancelRejected
<1>5. r.type_ # "FILLED" /\ applyResponse(ledger, r) = ledger
  BY DEF Response, applyResponse
<1> HIDE DEF r
<1>6. ledger' = ledger
  <2>1. DOMAIN sent_responses' = {1} /\ sent_responses'[1] = r
    BY <1>4
  <2>2. ledger' = applyResponse(ledger, r)
    BY <2>1, LedgerOfOne, Zenon DEF ExchangeNext
  <2> QED BY <2>2, <1>5
<1>7. FillsWithinLimits'
  BY <1>4, <1>5, NoFills
<1>8. LedgerIds'
  BY <1>4, <1>6 DEF LedgerIds, XInv
<1> QED BY <1>1, <1>2, <1>3, <1>4, <1>6, <1>7, <1>8 DEF XInv

(* cancel() of a resting order. *)
LEMMA CancelX ==
  ASSUME XInv, ExchangeNext, NEW c \in Clients, NEW oid \in OrderIds, Cancel(c, oid)
  PROVE  XInv'
<1>0. IInv
  BY DEF XInv
<1>1. IInv'
  <2>1. IInv /\ [Next]_vars
    BY <1>0 DEF Next, HandleRequest
  <2> QED BY <2>1, StepIInv
<1>2. PICK p \in Prices : \E i \in DOMAIN Level(p) :
        LET order == Level(p)[i] IN
        /\ order.market_order_id_ = cid_oid_to_order_[c][oid]
        /\ removeOrder(p, i)
        /\ sent_updates' = << Update("CANCEL", order.market_order_id_, order.side_,
                                     order.price_, 0, order.priority_) >>
        /\ sent_responses' = << Response("CANCELED", c, oid, order.market_order_id_,
                                         order.side_, order.price_, Invalid, order.qty_) >>
  BY DEF Cancel
<1>3. PICK i \in DOMAIN Level(p) :
        LET order == Level(p)[i] IN
        /\ order.market_order_id_ = cid_oid_to_order_[c][oid]
        /\ removeOrder(p, i)
        /\ sent_updates' = << Update("CANCEL", order.market_order_id_, order.side_,
                                     order.price_, 0, order.priority_) >>
        /\ sent_responses' = << Response("CANCELED", c, oid, order.market_order_id_,
                                         order.side_, order.price_, Invalid, order.qty_) >>
  BY <1>2
<1>4. PICK o : o = Level(p)[i]
  OBVIOUS
<1>5. /\ Resting' = Resting \ {o} /\ o \in Resting
  BY <1>0, <1>3, <1>4, RemoveResting
<1> DEFINE u == Update("CANCEL", o.market_order_id_, o.side_, o.price_, 0, o.priority_)
           r == Response("CANCELED", c, oid, o.market_order_id_, o.side_, o.price_, Invalid, o.qty_)
<1>6. /\ sent_updates' = <<u>> /\ sent_responses' = <<r>>
  BY <1>3, <1>4
<1>7. aggressor = Idle /\ aggressor' = Idle /\ next_market_order_id_' = next_market_order_id_
  BY DEF Cancel
<1>8. Unique(Resting) /\ Snap(Resting, ticker_orders_) /\ Told(Resting, Idle, ledger)
  BY <1>7 DEF XInv
<1>9. Unique(Resting')
  BY <1>5, <1>8 DEF Unique
<1>10. Snap(Resting \ {o}, addToSnapshot(ticker_orders_, u)) /\ SnapshotAsserts(ticker_orders_, u)
  BY <1>5, <1>8, SnapCancel
<1>11. Told(Resting \ {o}, Idle, applyResponse(ledger, r)) /\ DOMAIN applyResponse(ledger, r) = DOMAIN ledger
  <2>1. ToldCanceled(Resting, o, ledger, applyResponse(ledger, r))
    BY <1>5, <1>8, ToldCancel, Zenon
  <2> QED BY <2>1, Zenon DEF ToldCanceled
<1>12. r.type_ # "FILLED"
  BY DEF Response
<1> HIDE DEF u, r
<1>13. assert_failed' = FALSE /\ ticker_orders_' = addToSnapshot(ticker_orders_, u)
  BY <1>6, <1>10, OneUpdate
<1>14. ledger' = applyResponse(ledger, r)
  <2>1. DOMAIN sent_responses' = {1} /\ sent_responses'[1] = r
    BY <1>6
  <2> QED BY <2>1, LedgerOfOne, Zenon DEF ExchangeNext
<1>15. FillsWithinLimits'
  BY <1>6, <1>12, NoFills
<1>16. LedgerIds'
  BY <1>7, <1>11, <1>14 DEF LedgerIds, XInv
<1> QED BY <1>1, <1>5, <1>7, <1>9, <1>10, <1>11, <1>13, <1>14, <1>15, <1>16 DEF XInv

(* An empty book, snapshot and ledger fit. *)
LEMMA InitX == ExchangeInit => XInv
<1> SUFFICES ASSUME ExchangeInit PROVE XInv
  OBVIOUS
<1>1. IInv
  BY InitIInv DEF ExchangeInit
<1>2. Resting = {}
  <2>1. \A p \in Prices : Level(p) = << >>
    BY DEF ExchangeInit, Init, Level
  <2> QED BY <2>1 DEF Resting
<1>3. /\ aggressor = Idle /\ sent_responses = << >> /\ assert_failed = FALSE
      /\ DOMAIN ticker_orders_ = {} /\ DOMAIN ledger = {}
  BY DEF ExchangeInit, Init, NoOrders
<1>4. Unique(Resting) /\ Snap(Resting, ticker_orders_) /\ Told(Resting, aggressor, ledger) /\ LedgerIds
  BY <1>2, <1>3 DEF Unique, Snap, Told, LedgerIds
<1>5. FillsWithinLimits
  BY <1>3 DEF FillsWithinLimits
<1> QED BY <1>1, <1>3, <1>4, <1>5 DEF XInv

(* Every step of the exchange keeps the invariant. *)
LEMMA NextX == XInv /\ [ExchangeNext]_exchangeVars => XInv'
<1> SUFFICES ASSUME XInv, [ExchangeNext]_exchangeVars PROVE XInv'
  OBVIOUS
<1>1. CASE ExchangeNext
  <2>1. Next
    BY <1>1 DEF ExchangeNext
  <2>2. ASSUME NEW c \in Clients, NEW o \in OrderIds, NEW side \in Side, NEW price \in Prices,
               NEW qty \in Quantities, Accept(c, o, side, price, qty)
        PROVE  XInv'
    BY <1>1, <2>2, AcceptX
  <2>3. ASSUME NEW c \in Clients, NEW o \in OrderIds, CancelRejected(c, o) PROVE XInv'
    BY <1>1, <2>3, CancelRejectedX
  <2>4. ASSUME NEW c \in Clients, NEW o \in OrderIds, Cancel(c, o) PROVE XInv'
    BY <1>1, <2>4, CancelX
  <2>5. ASSUME NEW p \in Prices, Match(p) PROVE XInv'
    BY <1>1, <2>5, MatchX
  <2>6. CASE Rest
    BY <1>1, <2>6, RestX
  <2>7. CASE FullyFilled
    BY <1>1, <2>7, FullyFilledX
  <2> QED BY <2>1, <2>2, <2>3, <2>4, <2>5, <2>6, <2>7 DEF Next, HandleRequest, EngineStep
<1>2. CASE UNCHANGED exchangeVars
  <2>1. /\ UNCHANGED vars /\ ticker_orders_' = ticker_orders_ /\ assert_failed' = assert_failed
        /\ ledger' = ledger
    BY <1>2 DEF exchangeVars
  <2>2. /\ UNCHANGED book /\ aggressor' = aggressor /\ sent_responses' = sent_responses
        /\ next_market_order_id_' = next_market_order_id_
    BY <2>1 DEF vars, sent
  <2>3. IInv'
    BY <2>1, StepIInv DEF XInv
  <2>4. Resting' = Resting
    BY <2>2, BookUnchangedResting
  <2>5. LedgerIds' /\ FillsWithinLimits'
    BY <2>1, <2>2 DEF XInv, LedgerIds, FillsWithinLimits, WithinLimit
  <2> QED BY <2>1, <2>2, <2>3, <2>4, <2>5 DEF XInv
<1> QED BY <1>1, <1>2

-----------------------------------------------------------------------------
(* The theorems *)

(* The inductive invariant holds in every state of the exchange. *)
THEOREM ExchangeInvariance == ExchangeSpec => []XInv
<1>1. ExchangeInit => XInv
  BY InitX
<1>2. XInv /\ [ExchangeNext]_exchangeVars => XInv'
  BY NextX
<1> QED BY <1>1, <1>2, PTL DEF ExchangeSpec

(* SnapshotSynthesizer::addToSnapshot, fed with the updates of add, match  *)
(* and cancel, always holds the matching engine's book, and none of its    *)
(* ASSERTs ever fails, whatever requests the clients send.                 *)
THEOREM SnapshotIsBook == ExchangeSpec => []SnapshotMirrorsBook
<1>1. XInv => SnapshotMirrorsBook
  <2> SUFFICES ASSUME XInv PROVE SnapshotMirrorsBook
    OBVIOUS
  <2>1. Snap(Resting, ticker_orders_) /\ assert_failed = FALSE
    BY DEF XInv
  <2> DEFINE Flat(o) == [id |-> o.market_order_id_, side |-> o.side_, price |-> o.price_,
                         qty |-> o.qty_, priority |-> o.priority_]
             Entries(m) == [id |-> m, side |-> ticker_orders_[m].side_, price |-> ticker_orders_[m].price_,
                            qty |-> ticker_orders_[m].qty_, priority |-> ticker_orders_[m].priority_]
  <2>2. \A o \in Resting : o.market_order_id_ \in DOMAIN ticker_orders_ /\ Entries(o.market_order_id_) = Flat(o)
    <3> SUFFICES ASSUME NEW o \in Resting
                 PROVE  o.market_order_id_ \in DOMAIN ticker_orders_ /\ Entries(o.market_order_id_) = Flat(o)
      OBVIOUS
    <3>1. o.market_order_id_ \in DOMAIN ticker_orders_ /\ ticker_orders_[o.market_order_id_] = Row(o)
      BY <2>1 DEF Snap
    <3>2. /\ Row(o).side_ = o.side_ /\ Row(o).price_ = o.price_
          /\ Row(o).qty_ = o.qty_ /\ Row(o).priority_ = o.priority_
      BY DEF Row, Update
    <3> QED BY <3>1, <3>2
  <2>3. \A m \in DOMAIN ticker_orders_ : \E o \in Resting : m = o.market_order_id_
    BY <2>1 DEF Snap
  <2>4. SnapshotOrders = {Entries(m) : m \in DOMAIN ticker_orders_}
    BY DEF SnapshotOrders
  <2>5. BookOrders = {Flat(o) : o \in Resting}
    BY DEF BookOrders
  <2> HIDE DEF Flat, Entries
  <2>6. SnapshotOrders = BookOrders
    BY <2>2, <2>3, <2>4, <2>5
  <2> QED BY <2>1, <2>6 DEF SnapshotMirrorsBook
<1> QED BY <1>1, ExchangeInvariance, PTL

(* The responses of MatchingEngine account for every order: what a client  *)
(* was told is open is what rests or is being matched, nothing executed is *)
(* lost or invented, and no fill is worse than the limit.                  *)
THEOREM LedgerIsExact == ExchangeSpec => []LedgerExact
<1>1. XInv => LedgerExact
  <2> SUFFICES ASSUME XInv PROVE LedgerExact
    OBVIOUS
  <2>0. Told(Resting, aggressor, ledger) /\ Unique(Resting) /\ IInv /\ FillsWithinLimits
    BY DEF XInv
  <2>1. ASSUME NEW m \in DOMAIN ledger
        PROVE  ledger[m].open =
                 IF \E o \in Resting : o.market_order_id_ = m
                 THEN (CHOOSE o \in Resting : o.market_order_id_ = m).qty_
                 ELSE IF aggressor # Idle /\ aggressor.market_order_id_ = m
                 THEN aggressor.leaves_ ELSE 0
    <3>1. ASSUME NEW o \in Resting, o.market_order_id_ = m
          PROVE  /\ (CHOOSE x \in Resting : x.market_order_id_ = m) = o
                 /\ ledger[m].open = o.qty_
      <4>1. \A x \in Resting : x.market_order_id_ = m => x = o
        BY <2>0, <3>1 DEF Unique
      <4>2. (CHOOSE x \in Resting : x.market_order_id_ = m) = o
        BY <3>1, <4>1
      <4>3. ledger[m].open = o.qty_
        BY <2>0, <3>1 DEF Told, Owes
      <4> QED BY <4>2, <4>3
    <3>2. CASE \E o \in Resting : o.market_order_id_ = m
      <4>1. PICK o \in Resting : o.market_order_id_ = m
        BY <3>2
      <4>2. (CHOOSE x \in Resting : x.market_order_id_ = m) = o /\ ledger[m].open = o.qty_
        BY <3>1, <4>1
      <4> QED BY <3>2, <4>2, Zenon
    <3>3. CASE ~\E o \in Resting : o.market_order_id_ = m
      <4>1. ledger[m].open = IF aggressor # Idle /\ aggressor.market_order_id_ = m
                             THEN aggressor.leaves_ ELSE 0
        BY <2>0, <2>1, <3>3 DEF Told, Owes
      <4> QED BY <3>3, <4>1, Zenon
    <3> QED BY <3>2, <3>3
  <2>2. \A m \in DOMAIN ledger :
          ledger[m].executed + ledger[m].open + ledger[m].canceled = ledger[m].qty
    BY <2>0 DEF Told
  <2> QED BY <2>0, <2>1, <2>2, Zenon DEF LedgerExact, FillsWithinLimits
<1> QED BY <1>1, ExchangeInvariance, PTL
=============================================================================
