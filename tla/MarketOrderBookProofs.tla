------------------------ MODULE MarketOrderBookProofs ------------------------
(***************************************************************************)
(* Proofs about the client's MarketOrderBook, for any prices, quantities   *)
(* and numbers of orders and recoveries.  The inductive invariant tells    *)
(* the live orders of the levels from those a CLEAR has freed: the live    *)
(* ones are exactly the orders of the feed, each level in the order of     *)
(* their ids (Held).  Until an order joins orders of the other side, the   *)
(* lists from the best price link exactly the levels that hold live orders *)
(* only, each on its side, no head leads to a freed level and none is on   *)
(* no list (Good).  That in a live client none ever joins the other side   *)
(* rests on the exchange's book, and the snapshot of it, never being       *)
(* crossed.                                                                *)
(***************************************************************************)
EXTENDS MarketOrderBook, WellFoundedInduction, SequenceTheorems, TLAPS

Order == [side_ : Side, price_ : Prices, qty_ : Quantities]
Orders(f) == DOMAIN f \subseteq OrderIds /\ \A o \in DOMAIN f : f[o] \in Order

(* The orders of f and those of g at one price are of one side. *)
OneSide(f, g) ==
  \A o \in DOMAIN f, x \in DOMAIN g : f[o].price_ = g[x].price_ => f[o].side_ = g[x].side_

(* Every order of the levels P that is not freed is one of the feed f ... *)
Listed(P, f) ==
  \A p \in Prices : \A i \in DOMAIN P[p] : ~P[p][i].freed =>
    LET o == P[p][i] IN
    /\ o.order_id_ \in DOMAIN f
    /\ f[o.order_id_] = [side_ |-> o.side_, price_ |-> p, qty_ |-> o.qty_]

(* ... and every order of the feed is at its price. *)
Present(P, f) ==
  \A o \in DOMAIN f : \E i \in DOMAIN P[f[o].price_] :
    P[f[o].price_][i].order_id_ = o /\ ~P[f[o].price_][i].freed

Ordered(P) ==
  \A p \in Prices : \A i, j \in DOMAIN P[p] :
    i < j /\ ~P[p][i].freed /\ ~P[p][j].freed => P[p][i].order_id_ < P[p][j].order_id_

Pointers(t, f) ==
  \A o \in OrderIds : t[o] = IF o \in DOMAIN f THEN f[o].price_ ELSE Invalid

(* The lists link the levels without a freed order, on their side. *)
Linked(P, L) ==
  \A s \in Side, p \in Prices :
    p \in L[s] <=> P[p] # << >> /\ \A i \in DOMAIN P[p] : ~P[p][i].freed /\ P[p][i].side_ = s

(* The lists lead to live orders only. *)
Reached(P, L) ==
  \A s \in Side : \A p \in L[s] : P[p] # << >> /\ \A i \in DOMAIN P[p] : ~P[p][i].freed

(* The levels P and the pointers t hold the orders of f ... *)
Held(P, L, t, f) ==
  /\ P \in [Prices -> Seq(MarketOrder)]
  /\ L \in [Side -> SUBSET Prices]
  /\ t \in [OrderIds -> Prices \cup {Invalid}]
  /\ Orders(f)
  /\ Listed(P, f) /\ Present(P, f) /\ Ordered(P)
  /\ Pointers(t, f) /\ Reached(P, L)

(* ... with one side at each price, and linked on the list L of that side. *)
Book(P, L, t, f) == Held(P, L, t, f) /\ OneSide(f, f) /\ Linked(P, L)

NoneFreed(P) == \A p \in Prices : \A i \in DOMAIN P[p] : ~P[p][i].freed

(* The prices of S have an upper bound: there is a best bid. *)
Bounded(S) == \E B \in Nat : \A p \in S : p <= B

(* Each side of the BBO is the top of the book or invalid. *)
BBOExact(P, L, b) ==
  \A s \in Side : \/ b[s] = topOfBook(s, P, L[s], NoLevel)
                  \/ b[s] = NoLevel

(* The book after n CLEARs. *)
Good(P, L, t, f, b, n) ==
  /\ Book(P, L, t, f)
  /\ \A s \in Side : Bounded(L[s])
  /\ n = 0 => NoneFreed(P) /\ BBOExact(P, L, b)

(* What a CLEAR took away and a snapshot may bring back. *)
ClearedOrders ==
  /\ Orders(cleared)
  /\ OneSide(cleared, cleared) /\ OneSide(cleared, feed)
  /\ \A x \in DOMAIN cleared : x < next_id
  /\ \A o \in DOMAIN feed, x \in DOMAIN cleared : o < x

(* No head leads to a freed level, no level is on no list. *)
NoneLost == freed_head = [s \in Side |-> NoLevel] /\ lost = {}

BInv ==
  /\ Held(price_orders_at_price_, by_price_, oid_to_order_, feed)
  /\ ~mixed => /\ Good(price_orders_at_price_, by_price_, oid_to_order_, feed, bbo_, clears)
               /\ NoneLost
  /\ mixed => replay_mode_
  /\ ClearedOrders
  /\ next_id \in Nat \ {0} /\ clears \in Nat
  /\ \A o \in DOMAIN feed : o < next_id

-----------------------------------------------------------------------------
(* Sequences, and the best of a set of prices *)

(* Removing the i-th element leaves the others, in order. *)
LEMMA RemoveAtProperties ==
  ASSUME NEW S, NEW s \in Seq(S), NEW i \in 1 .. Len(s)
  PROVE  /\ RemoveAt(s, i) \in Seq(S)
         /\ Len(RemoveAt(s, i)) = Len(s) - 1
         /\ \A k \in 1 .. Len(s) - 1 :
              RemoveAt(s, i)[k] = IF k < i THEN s[k] ELSE s[k + 1]
<1>1. Len(s) \in Nat /\ s \in [1 .. Len(s) -> S]
  OBVIOUS
<1> DEFINE front == SubSeq(s, 1, i - 1)
           back == SubSeq(s, i + 1, Len(s))
<1>2. /\ front \in Seq(S) /\ Len(front) = i - 1
      /\ \A k \in 1 .. i - 1 : front[k] = s[k]
  BY <1>1, SubSeqProperties
<1>3. /\ back \in Seq(S) /\ Len(back) = Len(s) - i
      /\ \A k \in 1 .. Len(s) - i : back[k] = s[k + i]
  <2>1. i + 1 \in Int /\ Len(s) \in Int /\ \A j \in (i + 1) .. Len(s) : s[j] \in S
    BY <1>1
  <2>2. /\ back \in Seq(S)
        /\ Len(back) = IF i + 1 <= Len(s) THEN Len(s) - (i + 1) + 1 ELSE 0
        /\ \A k \in 1 .. Len(s) - (i + 1) + 1 : back[k] = s[(i + 1) + k - 1]
    BY <2>1, SubSeqProperties
  <2> HIDE DEF back
  <2>3. Len(s) - (i + 1) + 1 = Len(s) - i
    BY <1>1
  <2>4. \A k \in 1 .. Len(s) - i : (i + 1) + k - 1 = k + i
    BY <1>1
  <2>5. Len(back) = Len(s) - i
    <3>1. CASE i + 1 <= Len(s)
      BY <2>2, <2>3, <3>1
    <3>2. CASE ~(i + 1 <= Len(s))
      <4>1. Len(back) = 0
        BY <2>2, <3>2
      <4>2. Len(s) - i = 0
        <5>1. Len(s) \in Nat /\ i \in Nat /\ i <= Len(s)
          BY <1>1
        <5> QED
          BY <5>1, <3>2
      <4> QED
        BY <4>1, <4>2
    <3> QED
      BY <3>1, <3>2
  <2>6. \A k \in 1 .. Len(s) - i : back[k] = s[k + i]
    BY <2>2, <2>3, <2>4
  <2> QED
    BY <2>2, <2>5, <2>6
<1>4. RemoveAt(s, i) = front \o back
  BY DEF RemoveAt
<1> HIDE DEF front, back
<1>5. /\ front \o back \in Seq(S)
      /\ Len(front \o back) = Len(front) + Len(back)
      /\ \A k \in 1 .. Len(front) + Len(back) :
           (front \o back)[k] = IF k <= Len(front) THEN front[k] ELSE back[k - Len(front)]
  BY <1>2, <1>3, ConcatProperties
<1>6. Len(front) + Len(back) = Len(s) - 1
  BY <1>1, <1>2, <1>3
<1>7. ASSUME NEW k \in 1 .. Len(s) - 1
      PROVE  (front \o back)[k] = IF k < i THEN s[k] ELSE s[k + 1]
  <2>1. CASE k < i
    BY <1>1, <1>2, <1>5, <1>6, <2>1
  <2>2. CASE ~(k < i)
    <3>1. k - Len(front) \in 1 .. Len(s) - i /\ (k - Len(front)) + i = k + 1
      BY <1>1, <1>2, <2>2
    <3>2. (front \o back)[k] = back[k - Len(front)]
      BY <1>1, <1>2, <1>5, <1>6, <2>2
    <3>3. back[k - Len(front)] = s[(k - Len(front)) + i]
      BY <1>3, <3>1
    <3> QED
      BY <3>1, <3>2, <3>3, <2>2
  <2> QED
    BY <2>1, <2>2
<1> QED
  BY <1>4, <1>5, <1>6, <1>7

(* < on the natural numbers as a set of pairs *)
Less == {p \in Nat \X Nat : p[1] < p[2]}

(* Every set of naturals has a least element. *)
LEMMA LeastElement ==
  ASSUME NEW T \in SUBSET Nat, T # {}
  PROVE  \E n \in T : \A m \in T : n <= m
<1>1. IsWellFoundedOn(Less, Nat)
  BY NatLessThanWellFounded DEF OpToRel, Less
<1>2. PICK n \in T : \A m \in T : ~(<<m, n>> \in Less)
  BY <1>1, WFMin, Zenon
<1>3. ASSUME NEW m \in T, m < n PROVE FALSE
  <2>1. <<m, n>> \in Nat \X Nat
    OBVIOUS
  <2>2. <<m, n>>[1] < <<m, n>>[2]
    BY <1>3
  <2> QED BY <2>1, <2>2, <1>2 DEF Less
<1> QED BY <1>3

Best(s, S, b) == b \in S /\ \A q \in S \ {b} : Better(s, b, q)

(* A side that links a level has a best price. *)
LEMMA BestExists ==
  ASSUME NEW s \in Side, NEW S \in SUBSET Nat, S # {}, Bounded(S)
  PROVE  \E b : Best(s, S, b)
<1>1. CASE s = "SELL"
  <2>1. PICK b \in S : \A m \in S : b <= m
    BY LeastElement
  <2> QED BY <2>1, <1>1 DEF Best, Better
<1>2. CASE s = "BUY"
  <2>1. PICK B \in Nat : \A p \in S : p <= B
    BY DEF Bounded
  <2> DEFINE T == {B - p : p \in S}
  <2>2. T \in SUBSET Nat /\ T # {}
    <3>1. ASSUME NEW p \in S PROVE B - p \in Nat
      <4>1. p \in Nat /\ p <= B
        BY <2>1
      <4> QED BY <4>1
    <3> QED BY <3>1
  <2>3. PICK n \in T : \A m \in T : n <= m
    BY <2>2, LeastElement
  <2>4. PICK b \in S : n = B - b
    OBVIOUS
  <2>5. ASSUME NEW q \in S PROVE q <= b
    <3>1. B - b <= B - q
      BY <2>3, <2>4
    <3>2. b \in Nat /\ q \in Nat /\ B \in Nat
      OBVIOUS
    <3> HIDE DEF T
    <3> QED BY <3>1, <3>2
  <2> QED BY <2>5, <1>2 DEF Best, Better
<1> QED BY <1>1, <1>2 DEF Side

(* updateBBO takes the best price with the sum of the quantities there. *)
LEMMA TopOfBest ==
  ASSUME NEW s \in Side, NEW S \in SUBSET Nat, NEW b, Best(s, S, b), NEW P
  PROVE  topOfBook(s, P, S, NoLevel) =
           [price_ |-> b, qty_ |-> FoldLeft(LAMBDA sum, o : sum + o.qty_, 0, P[b])]
<1>1. (CHOOSE p \in S : BestOf(s, p, S)) = b
  <2>1. ASSUME NEW p \in S, BestOf(s, p, S), p # b PROVE FALSE
    BY <2>1 DEF Best, BestOf, Better
  <2>2. b \in S /\ BestOf(s, b, S)
    BY DEF Best, BestOf
  <2> QED BY <2>1, <2>2
<1>2. S # {}
  BY DEF Best
<1> QED BY <1>1, <1>2, Zenon DEF topOfBook

(* The top of a side is not changed by what happens to other levels, ... *)
LEMMA SameTop ==
  ASSUME NEW s \in Side, NEW S \in SUBSET Nat, Bounded(S), NEW P, NEW R,
         \A q \in S : R[q] = P[q]
  PROVE  topOfBook(s, R, S, NoLevel) = topOfBook(s, P, S, NoLevel)
<1>1. CASE S = {}
  BY <1>1, Zenon DEF topOfBook
<1>2. CASE S # {}
  <2>1. PICK b : Best(s, S, b)
    BY <1>2, BestExists
  <2>2. R[b] = P[b]
    BY <2>1 DEF Best
  <2>3. /\ topOfBook(s, P, S, NoLevel) = [price_ |-> b, qty_ |-> FoldLeft(LAMBDA sum, o : sum + o.qty_, 0, P[b])]
        /\ topOfBook(s, R, S, NoLevel) = [price_ |-> b, qty_ |-> FoldLeft(LAMBDA sum, o : sum + o.qty_, 0, R[b])]
    BY <2>1, TopOfBest
  <2> QED BY <2>2, <2>3, Zenon
<1> QED BY <1>1, <1>2

(* ... nor by what happens to a price worse than the best. *)
LEMMA SameTopAbove ==
  ASSUME NEW s \in Side, NEW S \in SUBSET Nat, NEW V \in SUBSET Nat, Bounded(S), NEW P, NEW R,
         NEW p \in Nat, S \ {p} = V \ {p}, \A q \in S : q # p => R[q] = P[q],
         \E q \in S : Better(s, q, p)
  PROVE  topOfBook(s, R, V, NoLevel) = topOfBook(s, P, S, NoLevel)
<1>1. PICK b : Best(s, S, b)
  BY BestExists
<1>2. b # p /\ b \in Nat /\ Better(s, b, p)
  BY <1>1 DEF Best, Better
<1>3. Best(s, V, b)
  BY <1>1, <1>2 DEF Best
<1>4. R[b] = P[b]
  BY <1>1, <1>2 DEF Best
<1>5. /\ topOfBook(s, P, S, NoLevel) = [price_ |-> b, qty_ |-> FoldLeft(LAMBDA sum, o : sum + o.qty_, 0, P[b])]
      /\ topOfBook(s, R, V, NoLevel) = [price_ |-> b, qty_ |-> FoldLeft(LAMBDA sum, o : sum + o.qty_, 0, R[b])]
  BY <1>1, <1>3, TopOfBest
<1> QED BY <1>4, <1>5, Zenon

(* One more price leaves the prices bounded. *)
LEMMA BoundedAdd ==
  ASSUME NEW S \in SUBSET Nat, Bounded(S), NEW p \in Nat
  PROVE  Bounded(S \cup {p})
<1>1. PICK B \in Nat : \A q \in S : q <= B
  BY DEF Bounded
<1>2. \A q \in S \cup {p} : q <= B + p
  BY <1>1
<1> QED BY <1>2 DEF Bounded

(* Fewer prices are still bounded. *)
LEMMA BoundedSubset ==
  ASSUME NEW S, Bounded(S), NEW V \in SUBSET S
  PROVE  Bounded(V)
BY DEF Bounded

-----------------------------------------------------------------------------
(* What an ADD, a MODIFY and a CANCEL make of a book *)

(* An order with a new, larger id. *)
Addable(f, id, order) ==
  /\ id \in OrderIds /\ order \in Order
  /\ \A o \in DOMAIN f : o < id

(* The orders at its price are of its side. *)
SameSide(f, order) == \A o \in DOMAIN f : f[o].price_ = order.price_ => f[o].side_ = order.side_

Stored(id, order) ==
  [order_id_ |-> id, side_ |-> order.side_, qty_ |-> order.qty_, freed |-> FALSE]

Added(P, L, t, id, order, R, M, u) ==
  /\ R = [P EXCEPT ![order.price_] = Append(@, Stored(id, order))]
  /\ M = IF P[order.price_] = << >> THEN [L EXCEPT ![order.side_] = @ \cup {order.price_}] ELSE L
  /\ u = [t EXCEPT ![id] = order.price_]

(* ADD puts the order at the end of its level and links the level. *)
LEMMA AddBook ==
  ASSUME NEW P, NEW L, NEW t, NEW f, Held(P, L, t, f), NEW id, NEW order, Addable(f, id, order),
         NEW R, NEW M, NEW u, Added(P, L, t, id, order, R, M, u)
  PROVE  /\ Held(R, M, u, With(f, id, order))
         /\ Book(P, L, t, f) /\ SameSide(f, order) => Book(R, M, u, With(f, id, order))
<1> USE DEF Added
<1> DEFINE p == order.price_
           g == With(f, id, order)
<1>1. /\ p \in Prices /\ order.side_ \in Side /\ order.qty_ \in Quantities
      /\ id \in OrderIds /\ id \notin DOMAIN f /\ id \in Nat
  BY DEF Addable, Order, OrderIds
<1>2. /\ DOMAIN g = DOMAIN f \cup {id} /\ g[id] = order
      /\ \A o \in DOMAIN f : o # id /\ g[o] = f[o]
  BY <1>1 DEF With
<1>3. /\ P \in [Prices -> Seq(MarketOrder)] /\ L \in [Side -> SUBSET Prices]
      /\ t \in [OrderIds -> Prices \cup {Invalid}]
  BY DEF Held
<1>4. Stored(id, order) \in MarketOrder
  BY <1>1 DEF Stored, MarketOrder
<1>5. /\ Stored(id, order).order_id_ = id /\ Stored(id, order).side_ = order.side_
      /\ Stored(id, order).qty_ = order.qty_ /\ Stored(id, order).freed = FALSE
  BY DEF Stored
<1> HIDE DEF g
<1>6. /\ R \in [Prices -> Seq(MarketOrder)]
      /\ \A q \in Prices : q # p => R[q] = P[q]
      /\ R[p] = Append(P[p], Stored(id, order))
  BY <1>1, <1>3, <1>4
<1>7. /\ P[p] \in Seq(MarketOrder) /\ Len(P[p]) \in Nat /\ DOMAIN P[p] = 1 .. Len(P[p])
      /\ Len(R[p]) = Len(P[p]) + 1 /\ DOMAIN R[p] = 1 .. Len(P[p]) + 1
      /\ \A i \in DOMAIN P[p] : i \in DOMAIN R[p] /\ R[p][i] = P[p][i]
      /\ R[p][Len(P[p]) + 1] = Stored(id, order)
      /\ \A i \in DOMAIN R[p] : i \in DOMAIN P[p] \/ i = Len(P[p]) + 1
  BY <1>1, <1>3, <1>4, <1>6
<1>8. M \in [Side -> SUBSET Prices] /\ u \in [OrderIds -> Prices \cup {Invalid}]
  BY <1>1, <1>3
<1>9. Orders(g)
  BY <1>1, <1>2 DEF Held, Orders, Addable
<1>10. Listed(R, g)
  <2> SUFFICES ASSUME NEW q \in Prices, NEW i \in DOMAIN R[q], ~R[q][i].freed
               PROVE  /\ R[q][i].order_id_ \in DOMAIN g
                      /\ g[R[q][i].order_id_] =
                           [side_ |-> R[q][i].side_, price_ |-> q, qty_ |-> R[q][i].qty_]
    BY DEF Listed
  <2>1. CASE i \in DOMAIN P[q] /\ R[q][i] = P[q][i]
    <3>1. /\ P[q][i].order_id_ \in DOMAIN f
          /\ f[P[q][i].order_id_] = [side_ |-> P[q][i].side_, price_ |-> q, qty_ |-> P[q][i].qty_]
      BY <2>1 DEF Held, Listed
    <3> QED BY <1>2, <2>1, <3>1
  <2>2. CASE q = p /\ i = Len(P[p]) + 1
    <3>1. order = [side_ |-> order.side_, price_ |-> p, qty_ |-> order.qty_]
      BY DEF Addable, Order
    <3> QED BY <1>2, <1>5, <1>7, <2>2, <3>1
  <2> QED BY <1>6, <1>7, <2>1, <2>2
<1>11. Present(R, g)
  <2> SUFFICES ASSUME NEW o \in DOMAIN g
               PROVE  \E i \in DOMAIN R[g[o].price_] :
                        R[g[o].price_][i].order_id_ = o /\ ~R[g[o].price_][i].freed
    BY DEF Present
  <2>1. CASE o \in DOMAIN f
    <3>1. PICK i \in DOMAIN P[f[o].price_] : P[f[o].price_][i].order_id_ = o /\ ~P[f[o].price_][i].freed
      BY <2>1 DEF Held, Present
    <3>2. f[o].price_ \in Prices /\ g[o] = f[o]
      BY <1>2, <2>1 DEF Held, Orders, Order
    <3> QED BY <1>6, <1>7, <3>1, <3>2
  <2>2. CASE o = id
    BY <1>2, <1>5, <1>7, <2>2
  <2> QED BY <1>2, <2>1, <2>2
<1>12. Ordered(R)
  <2> SUFFICES ASSUME NEW q \in Prices, NEW i \in DOMAIN R[q], NEW j \in DOMAIN R[q], i < j,
                      ~R[q][i].freed, ~R[q][j].freed
               PROVE  R[q][i].order_id_ < R[q][j].order_id_
    BY DEF Ordered
  <2>1. CASE q # p \/ j \in DOMAIN P[p]
    <3>1. i \in DOMAIN P[q] /\ j \in DOMAIN P[q] /\ R[q][i] = P[q][i] /\ R[q][j] = P[q][j]
      BY <1>6, <1>7, <2>1
    <3> QED BY <3>1 DEF Held, Ordered
  <2>2. CASE q = p /\ j = Len(P[p]) + 1
    <3>1. i \in DOMAIN P[p] /\ R[p][i] = P[p][i] /\ R[p][j].order_id_ = id
      BY <1>5, <1>7, <2>2
    <3>2. P[p][i].order_id_ \in DOMAIN f
      BY <1>1, <2>2, <3>1 DEF Held, Listed
    <3> QED BY <2>2, <3>1, <3>2 DEF Addable
  <2> QED BY <1>7, <2>1, <2>2
<1>13. Pointers(u, g)
  BY <1>1, <1>2, <1>3 DEF Held, Pointers
<1>14. Reached(R, M)
  <2> SUFFICES ASSUME NEW s \in Side, NEW q \in M[s]
               PROVE  R[q] # << >> /\ \A i \in DOMAIN R[q] : ~R[q][i].freed
    BY DEF Reached
  <2>1. q \in Prices
    BY <1>8
  <2>2. CASE q \in L[s]
    <3>1. P[q] # << >> /\ \A i \in DOMAIN P[q] : ~P[q][i].freed
      BY <2>2 DEF Held, Reached
    <3>2. CASE q = p
      <4>1. R[q] # << >>
        BY <1>7, <3>2
      <4> QED BY <1>5, <1>7, <3>1, <3>2, <4>1
    <3> QED BY <1>6, <2>1, <3>1, <3>2
  <2>3. CASE q \notin L[s]
    <3>1. q = p /\ P[p] = << >>
      BY <1>1, <1>3, <2>3
    <3>2. DOMAIN R[p] = {1} /\ R[p][1] = Stored(id, order) /\ R[p] # << >>
      BY <1>7, <3>1
    <3> QED BY <1>5, <3>1, <3>2
  <2> QED BY <2>2, <2>3
<1>15. ASSUME Book(P, L, t, f), SameSide(f, order) PROVE Linked(R, M)
  <2> SUFFICES ASSUME NEW s \in Side, NEW q \in Prices
               PROVE  q \in M[s] <=> R[q] # << >> /\ \A i \in DOMAIN R[q] : ~R[q][i].freed /\ R[q][i].side_ = s
    BY DEF Linked
  <2>0. q \in L[s] <=> P[q] # << >> /\ \A i \in DOMAIN P[q] : ~P[q][i].freed /\ P[q][i].side_ = s
    BY <1>15 DEF Book, Linked
  <2>1. CASE q # p
    <3>1. q \in M[s] <=> q \in L[s]
      BY <1>1, <1>3, <2>1
    <3> QED BY <1>6, <2>0, <2>1, <3>1
  <2>2. CASE q = p /\ P[p] = << >>
    <3>1. q \in M[s] <=> s = order.side_
      BY <1>1, <1>3, <2>0, <2>2
    <3>2. DOMAIN R[p] = {1} /\ R[p][1] = Stored(id, order) /\ R[p] # << >>
      BY <1>7, <2>2
    <3> QED BY <1>5, <2>2, <3>1, <3>2
  <2>3. CASE q = p /\ P[p] # << >>
    <3>1. M = L /\ R[p] # << >>
      BY <1>7, <2>3
    <3>2. ASSUME q \in L[s] PROVE s = order.side_
      <4>1. 1 \in DOMAIN P[p] /\ ~P[p][1].freed /\ P[p][1].side_ = s
        BY <1>7, <2>0, <2>3, <3>2
      <4>2. P[p][1].order_id_ \in DOMAIN f /\ f[P[p][1].order_id_].side_ = s /\ f[P[p][1].order_id_].price_ = p
        <5>1. /\ P[p][1].order_id_ \in DOMAIN f
              /\ f[P[p][1].order_id_] = [side_ |-> P[p][1].side_, price_ |-> p, qty_ |-> P[p][1].qty_]
          BY <1>1, <4>1 DEF Held, Listed
        <5> QED BY <4>1, <5>1
      <4> QED BY <4>2, <1>15 DEF SameSide
    <3>3. ASSUME \A i \in DOMAIN R[q] : ~R[q][i].freed /\ R[q][i].side_ = s PROVE q \in L[s]
      BY <1>7, <2>0, <2>3, <3>3
    <3>4. ASSUME q \in L[s], NEW i \in DOMAIN R[q] PROVE ~R[q][i].freed /\ R[q][i].side_ = s
      BY <1>5, <1>7, <2>0, <2>3, <3>2, <3>4
    <3> QED BY <2>3, <3>1, <3>3, <3>4
  <2> QED BY <2>1, <2>2, <2>3
<1>16. ASSUME OneSide(f, f), SameSide(f, order) PROVE OneSide(g, g)
  BY <1>2, <1>16 DEF OneSide, SameSide
<1>17. Held(R, M, u, g)
  BY <1>6, <1>8, <1>9, <1>10, <1>11, <1>12, <1>13, <1>14 DEF Held
<1> QED BY <1>15, <1>16, <1>17 DEF Book, g

(* Where the pointer of an order leads. *)
At(P, f, id, i) ==
  /\ i \in DOMAIN P[f[id].price_]
  /\ P[f[id].price_][i].order_id_ = id /\ ~P[f[id].price_][i].freed

(* An order of the feed is at exactly one place of its level. *)
LEMMA OneAt ==
  ASSUME NEW P, NEW L, NEW t, NEW f, Held(P, L, t, f), NEW id \in DOMAIN f
  PROVE  \E i : At(P, f, id, i) /\ \A j : At(P, f, id, j) => j = i
<1>1. PICK i \in DOMAIN P[f[id].price_] : At(P, f, id, i)
  BY DEF Held, Present, At
<1>2. f[id].price_ \in Prices /\ P[f[id].price_] \in Seq(MarketOrder) /\ id \in Nat
  BY DEF Held, Orders, Order, OrderIds
<1>3. ASSUME NEW j, At(P, f, id, j), j # i PROVE FALSE
  <2>1. i \in Nat /\ j \in Nat /\ j \in DOMAIN P[f[id].price_]
    BY <1>1, <1>2, <1>3 DEF At
  <2>2. i < j => id < id
    BY <1>1, <1>2, <1>3, <2>1 DEF At, Held, Ordered
  <2>3. j < i => id < id
    BY <1>1, <1>2, <1>3, <2>1 DEF At, Held, Ordered
  <2> QED BY <1>2, <1>3, <2>1, <2>2, <2>3
<1> QED BY <1>1, <1>3

Modified(P, f, id, i, qty, R, g) ==
  /\ R = [P EXCEPT ![f[id].price_][i].qty_ = qty]
  /\ g = [f EXCEPT ![id].qty_ = qty]

(* MODIFY changes the quantity of that one order. *)
LEMMA ModifyBook ==
  ASSUME NEW P, NEW L, NEW t, NEW f, Held(P, L, t, f), NEW id \in DOMAIN f, NEW qty \in Quantities,
         NEW i, At(P, f, id, i), NEW R, NEW g, Modified(P, f, id, i, qty, R, g)
  PROVE  /\ Held(R, L, t, g)
         /\ Book(P, L, t, f) => Book(R, L, t, g)
<1> USE DEF Modified
<1> DEFINE p == f[id].price_
<1>1. /\ P \in [Prices -> Seq(MarketOrder)] /\ p \in Prices /\ f[id] \in Order
      /\ P[p] \in Seq(MarketOrder) /\ i \in DOMAIN P[p] /\ P[p][i].order_id_ = id /\ ~P[p][i].freed
      /\ id \in OrderIds /\ id \in Nat
  BY DEF Held, Orders, Order, At, OrderIds
<1>2. P[p][i] \in MarketOrder
  BY <1>1
<1> DEFINE e == [P[p][i] EXCEPT !.qty_ = qty]
<1>3. /\ e \in MarketOrder /\ e.order_id_ = id /\ e.freed = P[p][i].freed
      /\ e.side_ = P[p][i].side_ /\ e.qty_ = qty
  BY <1>1, <1>2 DEF MarketOrder
<1>4. R = [P EXCEPT ![p] = [P[p] EXCEPT ![i] = e]]
  OBVIOUS
<1> HIDE DEF e
<1>5. /\ R \in [Prices -> Seq(MarketOrder)]
      /\ \A q \in Prices : q # p => R[q] = P[q]
      /\ R[p] = [P[p] EXCEPT ![i] = e]
  <2>1. [P[p] EXCEPT ![i] = e] \in Seq(MarketOrder)
    BY <1>1, <1>3, ExceptSeq
  <2>2. PICK q : q = [P[p] EXCEPT ![i] = e]
    OBVIOUS
  <2>3. R = [P EXCEPT ![p] = q]
    BY <1>4, <2>2
  <2>4. R \in [Prices -> Seq(MarketOrder)] /\ R[p] = q /\ \A r \in Prices : r # p => R[r] = P[r]
    BY <1>1, <2>1, <2>2, <2>3
  <2> QED BY <2>2, <2>4
<1>6. /\ \A q \in Prices : DOMAIN R[q] = DOMAIN P[q] /\ (R[q] = << >> <=> P[q] = << >>)
      /\ R[p][i] = e
      /\ \A q \in Prices : \A j \in DOMAIN P[q] : q # p \/ j # i => R[q][j] = P[q][j]
  <2>1. DOMAIN R[p] = DOMAIN P[p] /\ R[p] # << >> /\ P[p] # << >> /\ R[p][i] = e
    BY <1>1, <1>3, <1>5
  <2>2. \A j \in DOMAIN P[p] : j # i => R[p][j] = P[p][j]
    BY <1>1, <1>5
  <2> QED BY <1>5, <2>1, <2>2
<1>7. \A q \in Prices : \A j \in DOMAIN P[q] :
        /\ R[q][j].order_id_ = P[q][j].order_id_
        /\ R[q][j].side_ = P[q][j].side_
        /\ R[q][j].freed = P[q][j].freed
  BY <1>1, <1>3, <1>6
<1> DEFINE n == [f[id] EXCEPT !.qty_ = qty]
<1>8. n \in Order /\ n.side_ = f[id].side_ /\ n.price_ = p /\ n.qty_ = qty
      /\ n = [side_ |-> f[id].side_, price_ |-> p, qty_ |-> qty]
  BY <1>1 DEF Order
<1>9. g = [f EXCEPT ![id] = n]
  OBVIOUS
<1> HIDE DEF n
<1>10. /\ DOMAIN g = DOMAIN f /\ g[id] = n
       /\ \A o \in DOMAIN f : o # id => g[o] = f[o]
  BY <1>9
<1>11. \A o \in DOMAIN f : g[o].side_ = f[o].side_ /\ g[o].price_ = f[o].price_ /\ g[o] \in Order
  BY <1>8, <1>10 DEF Held, Orders
<1>12. Orders(g) /\ (OneSide(f, f) => OneSide(g, g))
  <2>1. Orders(g)
    BY <1>10, <1>11 DEF Held, Orders
  <2>2. OneSide(f, f) => OneSide(g, g)
    BY <1>10, <1>11 DEF OneSide
  <2> QED BY <2>1, <2>2
<1>13. Listed(R, g)
  <2> SUFFICES ASSUME NEW q \in Prices, NEW j \in DOMAIN R[q], ~R[q][j].freed
               PROVE  /\ R[q][j].order_id_ \in DOMAIN g
                      /\ g[R[q][j].order_id_] =
                           [side_ |-> R[q][j].side_, price_ |-> q, qty_ |-> R[q][j].qty_]
    BY DEF Listed
  <2>1. /\ j \in DOMAIN P[q] /\ P[q][j].order_id_ \in DOMAIN f
        /\ f[P[q][j].order_id_] = [side_ |-> P[q][j].side_, price_ |-> q, qty_ |-> P[q][j].qty_]
    BY <1>6, <1>7 DEF Held, Listed
  <2>2. CASE q = p /\ j = i
    <3>1. R[q][j].side_ = f[id].side_
      BY <1>1, <1>7, <2>1, <2>2
    <3> QED BY <1>1, <1>3, <1>6, <1>8, <1>10, <2>1, <2>2, <3>1
  <2>3. CASE ~(q = p /\ j = i)
    <3>1. R[q][j] = P[q][j]
      BY <1>6, <2>1, <2>3
    <3>2. P[q][j].order_id_ # id
      <4>1. ASSUME P[q][j].order_id_ = id PROVE FALSE
        <5>1. q = p
          BY <2>1, <4>1
        <5>2. At(P, f, id, j)
          BY <2>1, <4>1, <5>1, <3>1 DEF At
        <5> QED BY <2>3, <5>1, <5>2, OneAt
      <4> QED BY <4>1
    <3> QED BY <1>10, <2>1, <3>1, <3>2
  <2> QED BY <2>2, <2>3
<1>14. Present(R, g)
  <2> SUFFICES ASSUME NEW o \in DOMAIN g
               PROVE  \E j \in DOMAIN R[g[o].price_] :
                        R[g[o].price_][j].order_id_ = o /\ ~R[g[o].price_][j].freed
    BY DEF Present
  <2>1. PICK j \in DOMAIN P[f[o].price_] : P[f[o].price_][j].order_id_ = o /\ ~P[f[o].price_][j].freed
    BY <1>10 DEF Held, Present
  <2>2. g[o].price_ = f[o].price_ /\ f[o].price_ \in Prices
    BY <1>10, <1>11 DEF Held, Orders, Order
  <2> QED BY <1>6, <1>7, <2>1, <2>2
<1>15. Ordered(R)
  BY <1>6, <1>7 DEF Held, Ordered
<1>16. Pointers(t, g)
  BY <1>10, <1>11 DEF Held, Pointers
<1>17. Linked(P, L) => Linked(R, L)
  <2> SUFFICES ASSUME Linked(P, L), NEW s \in Side, NEW q \in Prices
               PROVE  q \in L[s] <=> R[q] # << >> /\ \A j \in DOMAIN R[q] : ~R[q][j].freed /\ R[q][j].side_ = s
    BY DEF Linked
  <2>1. q \in L[s] <=> P[q] # << >> /\ \A j \in DOMAIN P[q] : ~P[q][j].freed /\ P[q][j].side_ = s
    BY DEF Linked
  <2> QED BY <1>6, <1>7, <2>1
<1>18. Reached(R, L)
  <2> SUFFICES ASSUME NEW s \in Side, NEW q \in L[s]
               PROVE  R[q] # << >> /\ \A j \in DOMAIN R[q] : ~R[q][j].freed
    BY DEF Reached
  <2>1. q \in Prices /\ P[q] # << >> /\ \A j \in DOMAIN P[q] : ~P[q][j].freed
    BY DEF Held, Reached
  <2> QED BY <1>6, <1>7, <2>1
<1>19. Held(R, L, t, g)
  BY <1>5, <1>12, <1>13, <1>14, <1>15, <1>16, <1>18 DEF Held
<1> QED BY <1>12, <1>17, <1>19 DEF Book

(* What every CANCEL does to the lists, and what one of a book does.       *)
Removed(P, L, t, f, id, i, R, M, u) ==
  /\ R = [P EXCEPT ![f[id].price_] = RemoveAt(@, i)]
  /\ M \in [Side -> SUBSET Prices] /\ \A s \in Side : M[s] \subseteq L[s]
  /\ Len(P[f[id].price_]) = 1 => \A s \in Side : f[id].price_ \notin M[s]
  /\ u = [t EXCEPT ![id] = Invalid]

Unlinked(P, L, f, id, i, M) ==
  M = IF Len(P[f[id].price_]) = 1
      THEN [L EXCEPT ![P[f[id].price_][i].side_] = @ \ {f[id].price_}] ELSE L

(* CANCEL takes the order out, and the level with its last order. *)
LEMMA RemoveBook ==
  ASSUME NEW P, NEW L, NEW t, NEW f, Held(P, L, t, f), NEW id \in DOMAIN f,
         NEW i, At(P, f, id, i), NEW R, NEW M, NEW u, Removed(P, L, t, f, id, i, R, M, u)
  PROVE  /\ Held(R, M, u, Only(f, OrderIds \ {id}))
         /\ Book(P, L, t, f) /\ Unlinked(P, L, f, id, i, M) => Book(R, M, u, Only(f, OrderIds \ {id}))
<1> USE DEF Removed
<1> DEFINE p == f[id].price_
           g == Only(f, OrderIds \ {id})
<1>1. /\ P \in [Prices -> Seq(MarketOrder)] /\ p \in Prices /\ f[id] \in Order
      /\ L \in [Side -> SUBSET Prices] /\ t \in [OrderIds -> Prices \cup {Invalid}]
      /\ P[p] \in Seq(MarketOrder) /\ i \in DOMAIN P[p] /\ P[p][i].order_id_ = id /\ ~P[p][i].freed
      /\ id \in OrderIds /\ id \in Nat
  BY DEF Held, Orders, Order, At, OrderIds
<1>2. i \in 1 .. Len(P[p]) /\ Len(P[p]) \in Nat /\ DOMAIN P[p] = 1 .. Len(P[p]) /\ P[p][i] \in MarketOrder
  BY <1>1
<1>3. /\ RemoveAt(P[p], i) \in Seq(MarketOrder)
      /\ Len(RemoveAt(P[p], i)) = Len(P[p]) - 1
      /\ \A k \in 1 .. Len(P[p]) - 1 :
           RemoveAt(P[p], i)[k] = IF k < i THEN P[p][k] ELSE P[p][k + 1]
  BY <1>1, <1>2, RemoveAtProperties
<1>4. /\ R \in [Prices -> Seq(MarketOrder)]
      /\ \A q \in Prices : q # p => R[q] = P[q]
      /\ R[p] = RemoveAt(P[p], i)
  BY <1>1, <1>3
<1> DEFINE old(k) == IF k < i THEN k ELSE k + 1
<1>5. /\ DOMAIN R[p] = 1 .. Len(P[p]) - 1
      /\ \A k \in DOMAIN R[p] : old(k) \in DOMAIN P[p] /\ old(k) # i /\ R[p][k] = P[p][old(k)]
      /\ \A j, k \in DOMAIN R[p] : j < k => old(j) < old(k)
  BY <1>2, <1>3, <1>4
<1>6. \A j \in DOMAIN P[p] : j # i => \E k \in DOMAIN R[p] : old(k) = j
  <2> SUFFICES ASSUME NEW j \in DOMAIN P[p], j # i PROVE \E k \in DOMAIN R[p] : old(k) = j
    OBVIOUS
  <2>1. CASE j < i
    BY <1>2, <1>5, <2>1
  <2>2. CASE ~(j < i)
    <3>1. j - 1 \in 1 .. Len(P[p]) - 1 /\ ~(j - 1 < i) /\ (j - 1) + 1 = j
      BY <1>2, <2>2
    <3> QED BY <1>5, <3>1
  <2> QED BY <2>1, <2>2
<1> HIDE DEF old
<1>7. /\ DOMAIN g = DOMAIN f \ {id}
      /\ \A o \in DOMAIN g : o \in DOMAIN f /\ o # id /\ g[o] = f[o]
  BY DEF Only, Held, Orders
<1> HIDE DEF g
<1>8. M \in [Side -> SUBSET Prices] /\ u \in [OrderIds -> Prices \cup {Invalid}]
  BY <1>1
<1>9. Orders(g) /\ (OneSide(f, f) => OneSide(g, g))
  BY <1>7 DEF Held, Orders, OneSide
<1>10. Listed(R, g)
  <2> SUFFICES ASSUME NEW q \in Prices, NEW k \in DOMAIN R[q], ~R[q][k].freed
               PROVE  /\ R[q][k].order_id_ \in DOMAIN g
                      /\ g[R[q][k].order_id_] =
                           [side_ |-> R[q][k].side_, price_ |-> q, qty_ |-> R[q][k].qty_]
    BY DEF Listed
  <2>1. PICK j : j \in DOMAIN P[q] /\ R[q][k] = P[q][j] /\ (q # p \/ j # i)
    BY <1>4, <1>5
  <2>2. /\ P[q][j].order_id_ \in DOMAIN f
        /\ f[P[q][j].order_id_] = [side_ |-> P[q][j].side_, price_ |-> q, qty_ |-> P[q][j].qty_]
    BY <2>1 DEF Held, Listed
  <2>3. P[q][j].order_id_ # id
    <3>1. ASSUME P[q][j].order_id_ = id PROVE FALSE
      <4>1. q = p
        BY <2>2, <3>1
      <4>2. At(P, f, id, j)
        BY <2>1, <3>1, <4>1 DEF At
      <4> QED BY <2>1, <4>1, <4>2, OneAt
    <3> QED BY <3>1
  <2> QED BY <1>7, <2>1, <2>2, <2>3
<1>11. Present(R, g)
  <2> SUFFICES ASSUME NEW o \in DOMAIN g
               PROVE  \E k \in DOMAIN R[g[o].price_] :
                        R[g[o].price_][k].order_id_ = o /\ ~R[g[o].price_][k].freed
    BY DEF Present
  <2>1. PICK j \in DOMAIN P[f[o].price_] : P[f[o].price_][j].order_id_ = o /\ ~P[f[o].price_][j].freed
    BY <1>7 DEF Held, Present
  <2>2. g[o] = f[o] /\ f[o].price_ \in Prices /\ o # id
    BY <1>7 DEF Held, Orders, Order
  <2>3. CASE f[o].price_ # p
    BY <1>4, <2>1, <2>2, <2>3
  <2>4. CASE f[o].price_ = p
    <3>1. j # i
      BY <1>1, <2>1, <2>2, <2>4
    <3>2. PICK k \in DOMAIN R[p] : old(k) = j
      BY <1>6, <2>1, <2>4, <3>1
    <3>3. R[p][k] = P[p][j]
      BY <1>5, <3>2
    <3> QED BY <2>1, <2>2, <2>4, <3>2, <3>3
  <2> QED BY <2>3, <2>4
<1>12. Ordered(R)
  <2> SUFFICES ASSUME NEW q \in Prices, NEW j \in DOMAIN R[q], NEW k \in DOMAIN R[q], j < k,
                      ~R[q][j].freed, ~R[q][k].freed
               PROVE  R[q][j].order_id_ < R[q][k].order_id_
    BY DEF Ordered
  <2>1. CASE q # p
    BY <1>4, <2>1 DEF Held, Ordered
  <2>2. CASE q = p
    <3>1. /\ old(j) \in DOMAIN P[p] /\ old(k) \in DOMAIN P[p] /\ old(j) < old(k)
          /\ R[p][j] = P[p][old(j)] /\ R[p][k] = P[p][old(k)]
      BY <1>5, <2>2
    <3> QED BY <1>1, <2>2, <3>1 DEF Held, Ordered
  <2> QED BY <2>1, <2>2
<1>13. Pointers(u, g)
  BY <1>1, <1>7 DEF Held, Pointers
<1>14. Reached(R, M)
  <2> SUFFICES ASSUME NEW s \in Side, NEW q \in M[s]
               PROVE  R[q] # << >> /\ \A k \in DOMAIN R[q] : ~R[q][k].freed
    BY DEF Reached
  <2>1. q \in L[s] /\ q \in Prices
    BY <1>1, <1>8
  <2>2. P[q] # << >> /\ \A k \in DOMAIN P[q] : ~P[q][k].freed
    BY <2>1 DEF Held, Reached
  <2>3. CASE q # p
    BY <1>4, <2>1, <2>2, <2>3
  <2>4. CASE q = p
    <3>1. Len(P[p]) # 1
      BY <2>4
    <3>2. 1 \in DOMAIN R[p]
      <4>1. PICK n \in Nat : n = Len(P[p])
        BY <1>2
      <4>2. n # 0 /\ n # 1
        BY <1>2, <3>1, <4>1
      <4>3. 1 \in 1 .. n - 1
        BY <4>2
      <4> QED BY <1>5, <4>1, <4>3
    <3>3. R[p] # << >>
      BY <3>2
    <3> QED BY <1>5, <2>2, <2>4, <3>3
  <2> QED BY <2>3, <2>4
<1>15. ASSUME Book(P, L, t, f), Unlinked(P, L, f, id, i, M) PROVE Linked(R, M)
  <2> USE DEF Unlinked
  <2> SUFFICES ASSUME NEW s \in Side, NEW q \in Prices
               PROVE  q \in M[s] <=> R[q] # << >> /\ \A k \in DOMAIN R[q] : ~R[q][k].freed /\ R[q][k].side_ = s
    BY DEF Linked
  <2>0. q \in L[s] <=> P[q] # << >> /\ \A k \in DOMAIN P[q] : ~P[q][k].freed /\ P[q][k].side_ = s
    BY <1>15 DEF Book, Linked
  <2>1. CASE q # p
    <3>1. q \in M[s] <=> q \in L[s]
      BY <1>1, <1>2, <1>15, <2>1 DEF MarketOrder
    <3> QED BY <1>4, <2>0, <2>1, <3>1
  <2>2. CASE q = p /\ Len(P[p]) = 1
    <3>1. R[p] = << >> /\ i = 1 /\ DOMAIN P[p] = {1}
      BY <1>2, <1>3, <1>4, <2>2
    <3>2. P[p][i].side_ \in Side
      BY <1>2 DEF MarketOrder
    <3>3. q \notin M[s]
      BY <1>1, <1>15, <2>0, <2>2, <3>1, <3>2
    <3> QED BY <2>2, <3>1, <3>3
  <2>3. CASE q = p /\ Len(P[p]) # 1
    <3>1. M = L /\ R[p] # << >> /\ P[p] # << >> /\ 1 \in DOMAIN R[p]
      <4>1. M = L
        BY <1>15, <2>3
      <4>2. Len(P[p]) > 1
        <5>1. PICK n \in Nat : n = Len(P[p])
          BY <1>2
        <5>2. n # 0 /\ n # 1
          BY <1>2, <2>3, <5>1
        <5>3. n > 1
          BY <5>2
        <5> QED BY <5>1, <5>3
      <4>3. 1 \in DOMAIN R[p]
        BY <1>2, <1>5, <4>2
      <4> QED BY <1>2, <4>1, <4>3
    <3>2. ASSUME q \in L[s], NEW k \in DOMAIN R[q] PROVE ~R[q][k].freed /\ R[q][k].side_ = s
      BY <1>5, <2>0, <2>3, <3>2
    <3>3. ASSUME \A k \in DOMAIN R[q] : ~R[q][k].freed /\ R[q][k].side_ = s PROVE q \in L[s]
      <4>1. ~P[p][i].freed /\ P[p][i].side_ = s
        <5>1. PICK j : j = old(1) /\ j \in DOMAIN P[p] /\ R[p][1] = P[p][j]
          BY <1>5, <3>1
        <5>2. ~P[p][j].freed /\ P[p][j].side_ = s
          BY <2>3, <3>1, <3>3, <5>1
        <5>3. /\ P[p][j].order_id_ \in DOMAIN f
              /\ f[P[p][j].order_id_] = [side_ |-> s, price_ |-> p, qty_ |-> P[p][j].qty_]
          BY <1>1, <5>1, <5>2 DEF Held, Listed
        <5>4. /\ id \in DOMAIN f
              /\ f[id] = [side_ |-> P[p][i].side_, price_ |-> p, qty_ |-> P[p][i].qty_]
          <6>1. Listed(P, f)
            BY DEF Held
          <6>2. P[p][i].order_id_ = id /\ i \in DOMAIN P[p] /\ ~P[p][i].freed /\ p \in Prices
            BY <1>1
          <6> HIDE DEF p
          <6> QED BY <6>1, <6>2 DEF Listed
        <5>5. f[id].side_ = P[p][i].side_ /\ f[id].price_ = p
          BY <5>4
        <5>6. f[P[p][j].order_id_].side_ = s /\ f[P[p][j].order_id_].price_ = p
          BY <5>3
        <5> QED BY <1>1, <1>15, <5>3, <5>5, <5>6 DEF Book, OneSide
      <4>2. ASSUME NEW j \in DOMAIN P[p] PROVE ~P[p][j].freed /\ P[p][j].side_ = s
        <5>1. CASE j = i
          BY <4>1, <5>1
        <5>2. CASE j # i
          <6>1. PICK k \in DOMAIN R[p] : old(k) = j
            BY <1>6, <5>2
          <6> QED BY <1>5, <2>3, <3>3, <6>1
        <5> QED BY <5>1, <5>2
      <4> QED BY <2>0, <2>3, <3>1, <4>2
    <3> QED BY <2>3, <3>1, <3>2, <3>3
  <2> QED BY <2>1, <2>2, <2>3
<1>16. Held(R, M, u, g)
  BY <1>4, <1>8, <1>9, <1>10, <1>11, <1>12, <1>13, <1>14 DEF Held
<1> QED BY <1>9, <1>15, <1>16 DEF Book, g

-----------------------------------------------------------------------------
(* updateBBO after the level at one price p of one side s has changed: the *)
(* side is refreshed unless a better level was there before.               *)
Refreshed(P, L, R, M, s, p, b, c) ==
  /\ \A x \in Side : x # s => M[x] = L[x] /\ p \notin L[x]
  /\ L[s] \ {p} = M[s] \ {p}
  /\ \A q \in Prices : q # p => R[q] = P[q]
  /\ \A x \in Side : c[x] = IF x = s /\ L[x] # {} /\ \A q \in L[x] : ~Better(x, q, p)
                            THEN topOfBook(x, R, M[x], NoLevel) ELSE b[x]

(* Looking at a side only when its top may change keeps the BBO exact. *)
LEMMA BBOKept ==
  ASSUME NEW P, NEW L \in [Side -> SUBSET Prices], \A x \in Side : Bounded(L[x]),
         NEW b, BBOExact(P, L, b),
         NEW R, NEW M \in [Side -> SUBSET Prices], NEW s \in Side, NEW p \in Prices,
         NEW c, Refreshed(P, L, R, M, s, p, b, c)
  PROVE  BBOExact(R, M, c)
<1> USE DEF Refreshed
<1> SUFFICES ASSUME NEW x \in Side
             PROVE  \/ c[x] = topOfBook(x, R, M[x], NoLevel)
                    \/ c[x] = NoLevel
  BY DEF BBOExact
<1>0. L[x] \in SUBSET Nat /\ M[x] \in SUBSET Nat /\ p \in Nat /\ L[x] \in SUBSET Prices
  BY PricesAssumption
<1>b. b[x] = topOfBook(x, P, L[x], NoLevel) \/ b[x] = NoLevel
  BY DEF BBOExact
<1>1. CASE x = s /\ L[x] # {} /\ \A q \in L[x] : ~Better(x, q, p)
  BY <1>1
<1>2. CASE x # s
  <2>1. \A q \in L[x] : R[q] = P[q]
    BY <1>0, <1>2
  <2>2. topOfBook(x, R, L[x], NoLevel) = topOfBook(x, P, L[x], NoLevel)
    BY <1>0, <2>1, SameTop
  <2>3. c[x] = b[x] /\ M[x] = L[x]
    BY <1>2
  <2> QED BY <1>b, <2>2, <2>3
<1>3. CASE x = s /\ L[x] = {}
  <2>1. topOfBook(x, P, L[x], NoLevel) = NoLevel
    BY <1>3, Zenon DEF topOfBook
  <2>2. c[x] = b[x]
    BY <1>3
  <2> QED BY <1>b, <2>1, <2>2
<1>4. CASE x = s /\ \E q \in L[x] : Better(x, q, p)
  <2>1. /\ L[x] \ {p} = M[x] \ {p}
        /\ \A q \in L[x] : q # p => R[q] = P[q]
        /\ \E q \in L[x] : Better(x, q, p)
    BY <1>0, <1>4
  <2>2. topOfBook(x, R, M[x], NoLevel) = topOfBook(x, P, L[x], NoLevel)
    BY <1>0, <2>1, SameTopAbove
  <2>3. c[x] = b[x]
    BY <1>4
  <2> QED BY <1>b, <2>2, <2>3
<1> QED BY <1>1, <1>2, <1>3, <1>4

(* A step that keeps the book and refreshes the BBO keeps the invariant. *)
LEMMA GoodStep ==
  ASSUME NEW P, NEW L, NEW t, NEW f, NEW b, NEW n, Good(P, L, t, f, b, n),
         NEW R, NEW M, NEW u, NEW g, NEW c, Book(R, M, u, g),
         NEW s \in Side, NEW p \in Prices, Refreshed(P, L, R, M, s, p, b, c),
         NoneFreed(P) => NoneFreed(R)
  PROVE  Good(R, M, u, g, c, n)
<1>1. L \in [Side -> SUBSET Prices] /\ M \in [Side -> SUBSET Prices] /\ \A x \in Side : Bounded(L[x])
  BY DEF Good, Book, Held
<1>2. ASSUME NEW x \in Side PROVE Bounded(M[x])
  <2>1. CASE x # s
    BY <1>1, <2>1 DEF Refreshed
  <2>2. CASE x = s
    <3>1. L[s] \in SUBSET Nat /\ p \in Nat /\ Bounded(L[s])
      BY <1>1, PricesAssumption
    <3>2. Bounded(L[s] \cup {p})
      BY <3>1, BoundedAdd
    <3>3. M[s] \in SUBSET (L[s] \cup {p})
      BY DEF Refreshed
    <3> QED BY <2>2, <3>2, <3>3, BoundedSubset
  <2> QED BY <2>1, <2>2
<1>3. ASSUME n = 0 PROVE NoneFreed(R) /\ BBOExact(R, M, c)
  <2>1. NoneFreed(P) /\ BBOExact(P, L, b)
    BY <1>3 DEF Good
  <2>2. BBOExact(R, M, c)
    BY <1>1, <2>1, BBOKept
  <2> QED BY <2>1, <2>2
<1> QED BY <1>2, <1>3 DEF Good

-----------------------------------------------------------------------------
(* onMarketUpdate, by type of update *)

(* The decision of updateBBO, read off the update. *)
LEMMA UpdateBBO ==
  ASSUME NoneLost, NEW type, NEW id, NEW order \in Order, updateBBO(update(type, id, order)), NoneLost',
         NEW x \in Side
  PROVE  bbo_'[x] = IF /\ x = order.side_ /\ by_price_[x] # {}
                       /\ \A q \in by_price_[x] : ~Better(x, q, order.price_)
                    THEN topOfBook(x, price_orders_at_price_', by_price_'[x], NoLevel) ELSE bbo_[x]
<1> DEFINE u == update(type, id, order)
<1>1. u.side_ = order.side_ /\ u.price_ = order.price_
  BY DEF update
<1>2. freed_head[x] = NoLevel /\ freed_head'[x] = NoLevel
  BY DEF NoneLost
<1>3. bbo_'[x] = IF sideUpdated(x, u) THEN topOfBook(x, price_orders_at_price_', by_price_'[x], freed_head'[x])
                                      ELSE bbo_[x]
  BY Zenon DEF updateBBO
<1>4. listed(x) = by_price_[x]
  BY <1>2 DEF listed, NoLevel
<1>5. sideUpdated(x, u) <=> /\ x = order.side_ /\ by_price_[x] # {}
                            /\ \A q \in by_price_[x] : ~Better(x, q, order.price_)
  BY <1>1, <1>4 DEF sideUpdated
<1> QED BY <1>2, <1>3, <1>5, Zenon

(* onMarketUpdate with an ADD, of any book ... *)
LEMMA AddHeld ==
  ASSUME BInv, NEW id, NEW order, Addable(feed, id, order), onMarketUpdate(update("ADD", id, order))
  PROVE  /\ addOrder(update("ADD", id, order)) /\ updateBBO(update("ADD", id, order))
         /\ Added(price_orders_at_price_, by_price_, oid_to_order_, id, order,
                  price_orders_at_price_', by_price_', oid_to_order_')
         /\ Held(price_orders_at_price_', by_price_', oid_to_order_', With(feed, id, order))
<1> DEFINE w == update("ADD", id, order)
<1>1. /\ w.type_ = "ADD" /\ w.order_id_ = id /\ w.side_ = order.side_ /\ w.price_ = order.price_
      /\ w.qty_ = order.qty_
  BY DEF update
<1>2. addOrder(w) /\ updateBBO(w)
  BY <1>1 DEF onMarketUpdate
<1> HIDE DEF w
<1>3. Added(price_orders_at_price_, by_price_, oid_to_order_, id, order,
            price_orders_at_price_', by_price_', oid_to_order_')
  <2>1. by_price_' = IF price_orders_at_price_[order.price_] = << >>
                     THEN [by_price_ EXCEPT ![order.side_] = @ \cup {order.price_}] ELSE by_price_
    BY <1>1, <1>2 DEF addOrder, addOrdersAtPrice, Level
  <2> QED BY <1>1, <1>2, <2>1 DEF addOrder, Stored, Level, Added
<1>4. Held(price_orders_at_price_', by_price_', oid_to_order_', With(feed, id, order))
  BY <1>3, AddBook DEF BInv
<1> QED BY <1>2, <1>3, <1>4 DEF w

(* ... and of one without mixed levels, at a price where its side rests.   *)
LEMMA AddGood ==
  ASSUME BInv, ~mixed, NEW id, NEW order, Addable(feed, id, order), SameSide(feed, order),
         onMarketUpdate(update("ADD", id, order))
  PROVE  /\ Good(price_orders_at_price_', by_price_', oid_to_order_', With(feed, id, order), bbo_', clears)
         /\ NoneLost'
<1> DEFINE w == update("ADD", id, order)
<1>1. /\ w.type_ = "ADD" /\ w.order_id_ = id /\ w.side_ = order.side_ /\ w.price_ = order.price_
      /\ w.qty_ = order.qty_
  BY DEF update
<1>2. addOrder(w) /\ updateBBO(w)
  BY AddHeld
<1> HIDE DEF w
<1>20. NoneLost /\ NoneLost'
  <2>1. NoneLost
    BY DEF BInv
  <2>2. lost' = lost
    BY <1>2 DEF addOrder, addOrdersAtPrice
  <2>3. freed_head' = [freed_head EXCEPT ![w.side_] = NoLevel] \/ freed_head' = freed_head
    BY <1>2 DEF addOrder, addOrdersAtPrice
  <2> QED BY <2>1, <2>2, <2>3 DEF NoneLost
<1> PICK P, L, t : P = price_orders_at_price_ /\ L = by_price_ /\ t = oid_to_order_
  OBVIOUS
<1> PICK R, M, u, c : R = price_orders_at_price_' /\ M = by_price_' /\ u = oid_to_order_' /\ c = bbo_'
  OBVIOUS
<1> DEFINE p == order.price_
           s == order.side_
<1>3. /\ R = [P EXCEPT ![p] = Append(@, Stored(id, order))]
      /\ M = IF P[p] = << >> THEN [L EXCEPT ![s] = @ \cup {p}] ELSE L
      /\ u = [t EXCEPT ![id] = p]
  BY AddHeld DEF Added
<1>4. Good(P, L, t, feed, bbo_, clears)
  BY DEF BInv
<1>5. Book(P, L, t, feed)
  BY <1>4 DEF Good
<1>6. Book(R, M, u, With(feed, id, order))
  <2>1. Added(P, L, t, id, order, R, M, u)
    BY <1>3 DEF Added
  <2>2. Held(P, L, t, feed)
    BY <1>5 DEF Book
  <2> QED BY <1>5, <2>1, <2>2, AddBook, Zenon
<1>7. order \in Order /\ s \in Side /\ p \in Prices
  BY DEF Addable, Order
<1>8. /\ P \in [Prices -> Seq(MarketOrder)] /\ L \in [Side -> SUBSET Prices] /\ P[p] \in Seq(MarketOrder)
  BY <1>5, <1>7 DEF Book, Held
<1>9. /\ \A q \in Prices : q # p => R[q] = P[q]
      /\ R[p] = Append(P[p], Stored(id, order))
      /\ L[s] \ {p} = M[s] \ {p}
      /\ \A x \in Side : x # s => M[x] = L[x]
  BY <1>3, <1>7, <1>8
<1>10. Stored(id, order).side_ = s /\ ~Stored(id, order).freed
  BY DEF Stored
<1>11. /\ DOMAIN P[p] = 1 .. Len(P[p]) /\ Len(P[p]) + 1 \in DOMAIN R[p]
       /\ R[p][Len(P[p]) + 1] = Stored(id, order)
       /\ \A i \in DOMAIN R[p] : i = Len(P[p]) + 1 \/ (i \in DOMAIN P[p] /\ R[p][i] = P[p][i])
  BY <1>8, <1>9
<1>12. ASSUME NEW x \in Side, x # s PROVE p \notin L[x]
  <2>1. p \in M[x] => R[p][Len(P[p]) + 1].side_ = x
    BY <1>6, <1>7, <1>11 DEF Book, Linked
  <2> QED BY <1>9, <1>10, <1>11, <1>12, <2>1
<1>13. \A x \in Side : c[x] = IF x = s /\ L[x] # {} /\ \A q \in L[x] : ~Better(x, q, p)
                              THEN topOfBook(x, R, M[x], NoLevel) ELSE bbo_[x]
  BY <1>2, <1>7, <1>20, UpdateBBO, Zenon DEF w
<1>14. Refreshed(P, L, R, M, s, p, bbo_, c)
  BY <1>9, <1>12, <1>13, Zenon DEF Refreshed
<1>15. NoneFreed(P) => NoneFreed(R)
  BY <1>9, <1>10, <1>11 DEF NoneFreed
<1>16. Good(R, M, u, With(feed, id, order), c, clears)
  BY <1>4, <1>6, <1>7, <1>14, <1>15, GoodStep
<1> QED BY <1>16, <1>20

(* indexOf follows the pointer to the one live order with the id. *)
LEMMA IndexOf ==
  ASSUME BInv, NEW id \in DOMAIN feed
  PROVE  /\ oid_to_order_[id] = feed[id].price_
         /\ At(price_orders_at_price_, feed, id, indexOf(id))
<1>1. Held(price_orders_at_price_, by_price_, oid_to_order_, feed)
  BY DEF BInv
<1>2. oid_to_order_[id] = feed[id].price_
  BY <1>1 DEF Held, Orders, Pointers
<1>3. \E i \in DOMAIN Level(oid_to_order_[id]) :
        /\ Level(oid_to_order_[id])[i].order_id_ = id
        /\ ~Level(oid_to_order_[id])[i].freed
  BY <1>1, <1>2 DEF Held, Present, Level
<1>4. /\ indexOf(id) \in DOMAIN Level(oid_to_order_[id])
      /\ Level(oid_to_order_[id])[indexOf(id)].order_id_ = id
      /\ ~Level(oid_to_order_[id])[indexOf(id)].freed
  BY <1>3 DEF indexOf
<1> QED BY <1>2, <1>4 DEF At, Level

(* What is said of the order an update is about. *)
LEMMA OrderAt ==
  ASSUME NEW P, NEW L, NEW t, NEW f, Held(P, L, t, f), NEW id \in DOMAIN f, NEW i, At(P, f, id, i)
  PROVE  /\ f[id] \in Order /\ f[id].side_ \in Side /\ f[id].price_ \in Prices
         /\ P[f[id].price_] \in Seq(MarketOrder) /\ i \in DOMAIN P[f[id].price_]
         /\ P[f[id].price_][i].side_ = f[id].side_
         /\ Linked(P, L) => \A x \in Side : x # f[id].side_ => f[id].price_ \notin L[x]
<1>1. f[id] \in Order /\ f[id].side_ \in Side /\ f[id].price_ \in Prices
  BY DEF Held, Orders, Order
<1>2. P[f[id].price_] \in Seq(MarketOrder) /\ i \in DOMAIN P[f[id].price_]
  BY <1>1 DEF Held, At
<1>3. P[f[id].price_][i].side_ = f[id].side_
  <2>1. f[id] = [side_ |-> P[f[id].price_][i].side_, price_ |-> f[id].price_, qty_ |-> P[f[id].price_][i].qty_]
    BY <1>1 DEF Held, At, Listed
  <2> QED BY <2>1
<1>4. Linked(P, L) => \A x \in Side : f[id].price_ \in L[x] => P[f[id].price_][i].side_ = x
  BY <1>1, <1>2 DEF Linked
<1> QED BY <1>1, <1>2, <1>3, <1>4

(* onMarketUpdate with a MODIFY. *)
LEMMA ModifyGood ==
  ASSUME BInv, NEW id \in DOMAIN feed, NEW qty \in Quantities,
         onMarketUpdate(update("MODIFY", id, [feed[id] EXCEPT !.qty_ = qty]))
  PROVE  /\ Held(price_orders_at_price_', by_price_', oid_to_order_', [feed EXCEPT ![id].qty_ = qty])
         /\ ~mixed => /\ Good(price_orders_at_price_', by_price_', oid_to_order_',
                              [feed EXCEPT ![id].qty_ = qty], bbo_', clears)
                      /\ NoneLost'
<1> PICK P, L, t : P = price_orders_at_price_ /\ L = by_price_ /\ t = oid_to_order_
  OBVIOUS
<1> PICK R, M, u, c : R = price_orders_at_price_' /\ M = by_price_' /\ u = oid_to_order_' /\ c = bbo_'
  OBVIOUS
<1>1. PICK order, i, g : order = [feed[id] EXCEPT !.qty_ = qty] /\ i = indexOf(id)
                         /\ g = [feed EXCEPT ![id].qty_ = qty]
  OBVIOUS
<1>2. /\ Held(P, L, t, feed)
      /\ ~mixed => Good(P, L, t, feed, bbo_, clears) /\ Book(P, L, t, feed) /\ NoneLost
  BY DEF BInv, Good
<1>3. t[id] = feed[id].price_ /\ At(P, feed, id, i)
  BY <1>1, IndexOf
<1>4. /\ feed[id] \in Order /\ feed[id].side_ \in Side /\ feed[id].price_ \in Prices
      /\ P[feed[id].price_] \in Seq(MarketOrder) /\ i \in DOMAIN P[feed[id].price_]
      /\ Linked(P, L) => \A x \in Side : x # feed[id].side_ => feed[id].price_ \notin L[x]
  BY <1>2, <1>3, OrderAt
<1>5. order \in Order /\ order.side_ = feed[id].side_ /\ order.price_ = feed[id].price_ /\ order.qty_ = qty
  BY <1>1, <1>4 DEF Order
<1> DEFINE w == update("MODIFY", id, order)
<1>6. w.type_ = "MODIFY" /\ w.order_id_ = id /\ w.qty_ = qty
  BY <1>5 DEF update
<1>7. modifyOrder(w) /\ updateBBO(w)
  BY <1>1, <1>6 DEF onMarketUpdate
<1>8. R = [P EXCEPT ![feed[id].price_][i].qty_ = qty] /\ M = L /\ u = t
  BY <1>1, <1>3, <1>6, <1>7 DEF modifyOrder
<1>9. Modified(P, feed, id, i, qty, R, g)
  BY <1>1, <1>8 DEF Modified
<1>10. Held(R, M, u, g) /\ (Book(P, L, t, feed) => Book(R, M, u, g))
  BY <1>2, <1>3, <1>8, <1>9, ModifyBook
<1> DEFINE p == feed[id].price_
           s == feed[id].side_
<1>11. /\ \A q \in Prices : q # p => R[q] = P[q]
       /\ DOMAIN R[p] = DOMAIN P[p]
       /\ \A j \in DOMAIN P[p] : R[p][j].freed = P[p][j].freed
  <2>1. PICK e : e = [P[p] EXCEPT ![i].qty_ = qty]
    OBVIOUS
  <2>2. R = [P EXCEPT ![p] = e] /\ P \in [Prices -> Seq(MarketOrder)]
    BY <1>2, <1>8, <2>1 DEF Held
  <2>3. DOMAIN e = DOMAIN P[p] /\ \A j \in DOMAIN P[p] : e[j].freed = P[p][j].freed
    <3>1. PICK m : m = [P[p][i] EXCEPT !.qty_ = qty]
      OBVIOUS
    <3>2. e = [P[p] EXCEPT ![i] = m]
      BY <2>1, <3>1
    <3>3. P[p][i] \in MarketOrder
      BY <1>4
    <3>4. m.freed = P[p][i].freed
      BY <3>1, <3>3 DEF MarketOrder
    <3> QED BY <1>4, <3>2, <3>4
  <2> QED BY <1>4, <2>2, <2>3
<1>12. ASSUME ~mixed PROVE Good(R, M, u, g, c, clears) /\ NoneLost'
  <2>1. NoneLost /\ NoneLost'
    BY <1>2, <1>7, <1>12 DEF modifyOrder, NoneLost
  <2>2. \A x \in Side : c[x] = IF x = order.side_ /\ L[x] # {} /\ \A q \in L[x] : ~Better(x, q, order.price_)
                               THEN topOfBook(x, R, M[x], NoLevel) ELSE bbo_[x]
    BY <1>5, <1>7, <2>1, UpdateBBO, Zenon DEF w
  <2>3. \A x \in Side : c[x] = IF x = s /\ L[x] # {} /\ \A q \in L[x] : ~Better(x, q, p)
                               THEN topOfBook(x, R, M[x], NoLevel) ELSE bbo_[x]
    BY <1>5, <2>2, Zenon
  <2>4. \A x \in Side : x # s => p \notin L[x]
    BY <1>2, <1>4, <1>12 DEF Book
  <2>5. Refreshed(P, L, R, M, s, p, bbo_, c)
    BY <1>8, <1>11, <2>3, <2>4, Zenon DEF Refreshed
  <2>6. NoneFreed(P) => NoneFreed(R)
    BY <1>11 DEF NoneFreed
  <2>7. Good(R, M, u, g, c, clears)
    BY <1>2, <1>4, <1>10, <1>12, <2>5, <2>6, GoodStep
  <2> QED BY <2>1, <2>7
<1> QED BY <1>1, <1>10, <1>12

(* onMarketUpdate with a CANCEL. *)
LEMMA CancelGood ==
  ASSUME BInv, NEW id \in DOMAIN feed, onMarketUpdate(update("CANCEL", id, feed[id]))
  PROVE  /\ Held(price_orders_at_price_', by_price_', oid_to_order_', Only(feed, OrderIds \ {id}))
         /\ ~mixed => /\ Good(price_orders_at_price_', by_price_', oid_to_order_',
                              Only(feed, OrderIds \ {id}), bbo_', clears)
                      /\ NoneLost'
<1> PICK P, L, t : P = price_orders_at_price_ /\ L = by_price_ /\ t = oid_to_order_
  OBVIOUS
<1> PICK R, M, u, c : R = price_orders_at_price_' /\ M = by_price_' /\ u = oid_to_order_' /\ c = bbo_'
  OBVIOUS
<1>1. PICK i : i = indexOf(id)
  OBVIOUS
<1>2. /\ Held(P, L, t, feed)
      /\ ~mixed => Good(P, L, t, feed, bbo_, clears) /\ Book(P, L, t, feed) /\ NoneLost
  BY DEF BInv, Good
<1>3. t[id] = feed[id].price_ /\ At(P, feed, id, i)
  BY <1>1, IndexOf
<1>4. /\ feed[id] \in Order /\ feed[id].side_ \in Side /\ feed[id].price_ \in Prices
      /\ P[feed[id].price_] \in Seq(MarketOrder) /\ i \in DOMAIN P[feed[id].price_]
      /\ P[feed[id].price_][i].side_ = feed[id].side_
      /\ Linked(P, L) => \A x \in Side : x # feed[id].side_ => feed[id].price_ \notin L[x]
  BY <1>2, <1>3, OrderAt
<1> DEFINE w == update("CANCEL", id, feed[id])
           p == feed[id].price_
           s == feed[id].side_
<1>5. w.type_ = "CANCEL" /\ w.order_id_ = id
  BY DEF update
<1>6. removeOrder(w) /\ updateBBO(w)
  BY <1>5 DEF onMarketUpdate
<1>70. /\ P \in [Prices -> Seq(MarketOrder)] /\ L \in [Side -> SUBSET Prices]
  BY <1>2 DEF Held
<1>71. /\ R = [P EXCEPT ![p] = RemoveAt(@, i)] /\ u = [t EXCEPT ![id] = Invalid]
       /\ IF Len(P[p]) = 1 THEN removeOrdersAtPrice(s, p, P[p][i].qty_)
                           ELSE UNCHANGED <<by_price_, freed_head, lost>>
  BY <1>1, <1>3, <1>4, <1>5, <1>6 DEF removeOrder, Level
<1>7. Removed(P, L, t, feed, id, i, R, M, u)
  <2>1. CASE Len(P[p]) = 1
    <3>1. removeOrdersAtPrice(s, p, P[p][i].qty_)
      BY <1>71, <2>1
    <3>2. PICK dropped : M = [x \in Side |-> IF x \in dropped THEN {} ELSE L[x] \ {p}]
      <4> DEFINE alone == {p} \in {by_price_[x] : x \in Side} \cup lost
                 keepsHead(x) == x # s /\ BestOf(x, p, by_price_[x])
                 D == {x \in Side : (x = s /\ alone) \/ keepsHead(x)}
      <4>1. M = [x \in Side |-> IF (x = s /\ alone) \/ keepsHead(x) THEN {} ELSE L[x] \ {p}]
        BY <3>1 DEF removeOrdersAtPrice
      <4>2. \A x \in Side : x \in D <=> (x = s /\ alone) \/ keepsHead(x)
        OBVIOUS
      <4> HIDE DEF D, alone, keepsHead
      <4>3. M = [x \in Side |-> IF x \in D THEN {} ELSE L[x] \ {p}]
        BY <4>1, <4>2
      <4> QED BY <4>3
    <3>3. M \in [Side -> SUBSET Prices] /\ \A x \in Side : M[x] \subseteq L[x] /\ p \notin M[x]
      BY <1>70, <3>2
    <3> QED BY <1>71, <3>3 DEF Removed
  <2>2. CASE Len(P[p]) # 1
    BY <1>70, <1>71, <2>2 DEF Removed
  <2> QED BY <2>1, <2>2
<1>8. /\ Held(R, M, u, Only(feed, OrderIds \ {id}))
      /\ Book(P, L, t, feed) /\ Unlinked(P, L, feed, id, i, M) => Book(R, M, u, Only(feed, OrderIds \ {id}))
  BY <1>2, <1>3, <1>7, RemoveBook
<1>10. R[p] = RemoveAt(P[p], i) /\ \A q \in Prices : q # p => R[q] = P[q]
  BY <1>4, <1>7, <1>70 DEF Removed
<1>11. NoneFreed(P) => NoneFreed(R)
  <2>1. /\ R[p] \in Seq(MarketOrder)
        /\ Len(R[p]) = Len(P[p]) - 1
        /\ \A k \in 1 .. Len(P[p]) - 1 : R[p][k] = IF k < i THEN P[p][k] ELSE P[p][k + 1]
    <3>1. P[p] \in Seq(MarketOrder) /\ i \in 1 .. Len(P[p])
      BY <1>4
    <3>2. /\ RemoveAt(P[p], i) \in Seq(MarketOrder)
          /\ Len(RemoveAt(P[p], i)) = Len(P[p]) - 1
          /\ \A k \in 1 .. Len(P[p]) - 1 :
               RemoveAt(P[p], i)[k] = IF k < i THEN P[p][k] ELSE P[p][k + 1]
      BY <3>1, RemoveAtProperties, Zenon
    <3> QED BY <1>10, <3>2
  <2>2. \A k \in DOMAIN R[p] : \E j \in DOMAIN P[p] : R[p][k] = P[p][j]
    BY <1>4, <2>1
  <2> QED BY <1>10, <2>2 DEF NoneFreed
<1>12. ASSUME ~mixed PROVE Good(R, M, u, Only(feed, OrderIds \ {id}), c, clears) /\ NoneLost'
  <2>0. /\ Good(P, L, t, feed, bbo_, clears) /\ Book(P, L, t, feed)
        /\ freed_head = [x \in Side |-> NoLevel] /\ lost = {}
    BY <1>2, <1>12 DEF NoneLost
  <2>1. \A x \in Side : x # s => p \notin L[x]
    BY <1>4, <2>0 DEF Book
  <2>2. Unlinked(P, L, feed, id, i, M) /\ NoneLost'
    <3>1. CASE Len(P[p]) = 1
      <4>1. removeOrdersAtPrice(s, p, P[p][i].qty_)
        BY <1>71, <3>1
      <4> DEFINE alone == {p} \in {by_price_[x] : x \in Side} \cup lost
                 keepsHead(x) == x # s /\ BestOf(x, p, by_price_[x])
                 dropped(x) == (x = s /\ alone) \/ keepsHead(x)
      <4>2. /\ M = [x \in Side |-> IF dropped(x) THEN {} ELSE L[x] \ {p}]
            /\ freed_head' = [x \in Side |-> IF keepsHead(x) THEN [price_ |-> p, qty_ |-> P[p][i].qty_]
                                             ELSE IF dropped(x) THEN NoLevel ELSE freed_head[x]]
            /\ lost' = {Q \ {p} : Q \in lost \cup {by_price_[x] : x \in {y \in Side : dropped(y)}}} \ {{}}
        BY <4>1 DEF removeOrdersAtPrice
      <4>3. \A x \in Side : ~keepsHead(x)
        BY <2>1 DEF BestOf
      <4>4. alone => L[s] = {p}
        BY <2>0, <2>1
      <4>5. \A x \in Side : dropped(x) => x = s /\ L[x] = {p}
        BY <4>3, <4>4
      <4> HIDE DEF dropped, keepsHead
      <4>6. M = [x \in Side |-> IF x = s THEN L[s] \ {p} ELSE L[x]]
        <5>1. \A x \in Side : (IF dropped(x) THEN {} ELSE L[x] \ {p}) = IF x = s THEN L[s] \ {p} ELSE L[x]
          BY <2>1, <4>5
        <5> QED BY <4>2, <5>1
      <4>7. Unlinked(P, L, feed, id, i, M)
        <5>1. M = [L EXCEPT ![s] = @ \ {p}]
          BY <1>4, <1>70, <4>6
        <5>2. P[p][i].side_ = s
          BY <1>4
        <5> HIDE DEF p, s
        <5>3. M = [L EXCEPT ![P[p][i].side_] = @ \ {p}]
          BY <5>1, <5>2
        <5> QED BY <3>1, <5>3, Zenon DEF Unlinked, p
      <4>8. freed_head' = [x \in Side |-> NoLevel]
        BY <2>0, <4>2, <4>3
      <4>9. lost' = {}
        BY <2>0, <4>2, <4>5
      <4> QED BY <4>7, <4>8, <4>9 DEF NoneLost
    <3>2. CASE Len(P[p]) # 1
      BY <1>71, <2>0, <3>2 DEF Unlinked, NoneLost
    <3> QED BY <3>1, <3>2
  <2>3. L[s] \ {p} = M[s] \ {p} /\ \A x \in Side : x # s => M[x] = L[x]
    BY <1>4, <1>70, <2>2 DEF Unlinked
  <2>4. NoneLost
    BY <2>0 DEF NoneLost
  <2>5. \A x \in Side : c[x] = IF x = s /\ L[x] # {} /\ \A q \in L[x] : ~Better(x, q, p)
                               THEN topOfBook(x, R, M[x], NoLevel) ELSE bbo_[x]
    BY <1>4, <1>6, <2>2, <2>4, UpdateBBO, Zenon
  <2>6. Refreshed(P, L, R, M, s, p, bbo_, c)
    BY <1>10, <2>1, <2>3, <2>5, Zenon DEF Refreshed
  <2>7. Good(R, M, u, Only(feed, OrderIds \ {id}), c, clears)
    BY <1>4, <1>8, <1>11, <2>0, <2>2, <2>6, GoodStep
  <2> QED BY <2>2, <2>7
<1> QED BY <1>8, <1>12

(* onMarketUpdate with a CLEAR: every order freed, nothing linked. *)
LEMMA ClearGood ==
  ASSUME BInv, NEW w, w.type_ = "CLEAR", onMarketUpdate(w), NEW n, n # 0
  PROVE  /\ Good(price_orders_at_price_', by_price_', oid_to_order_', << >>, bbo_', n)
         /\ freed_head' = freed_head /\ lost' = lost
<1>1. clearBook
  BY DEF onMarketUpdate
<1> PICK P : P = price_orders_at_price_
  OBVIOUS
<1> PICK R, M, u, c : R = price_orders_at_price_' /\ M = by_price_' /\ u = oid_to_order_' /\ c = bbo_'
  OBVIOUS
<1>2. /\ R = [p \in Prices |-> [i \in DOMAIN P[p] |-> [P[p][i] EXCEPT !.freed = TRUE]]]
      /\ M = [s \in Side |-> {}] /\ u = [o \in OrderIds |-> Invalid]
  BY <1>1 DEF clearBook, Level
<1>3. P \in [Prices -> Seq(MarketOrder)]
  BY DEF BInv, Held
<1>4. ASSUME NEW p \in Prices
      PROVE  R[p] \in Seq(MarketOrder) /\ \A i \in DOMAIN R[p] : R[p][i].freed
  <2>1. P[p] \in Seq(MarketOrder) /\ Len(P[p]) \in Nat /\ DOMAIN P[p] = 1 .. Len(P[p])
    BY <1>3
  <2>2. ASSUME NEW i \in DOMAIN P[p]
        PROVE  [P[p][i] EXCEPT !.freed = TRUE] \in MarketOrder /\ [P[p][i] EXCEPT !.freed = TRUE].freed
    <3>1. P[p][i] \in MarketOrder
      BY <2>1, <2>2
    <3> QED BY <3>1 DEF MarketOrder
  <2>3. R[p] = [i \in 1 .. Len(P[p]) |-> [P[p][i] EXCEPT !.freed = TRUE]]
    BY <1>2, <2>1
  <2> QED BY <2>1, <2>2, <2>3
<1>5. R \in [Prices -> Seq(MarketOrder)] /\ \A p \in Prices : \A i \in DOMAIN R[p] : R[p][i].freed
  BY <1>2, <1>4
<1>6. M \in [Side -> SUBSET Prices] /\ u \in [OrderIds -> Prices \cup {Invalid}]
  BY <1>2
<1>7. Listed(R, << >>) /\ Ordered(R)
  BY <1>5 DEF Listed, Ordered
<1>8. Present(R, << >>) /\ Orders(<< >>) /\ OneSide(<< >>, << >>)
  BY DEF Present, Orders, OneSide
<1>9. Pointers(u, << >>)
  BY <1>2 DEF Pointers
<1>10. Linked(R, M)
  <2> SUFFICES ASSUME NEW s \in Side, NEW p \in Prices, R[p] # << >>,
                      \A i \in DOMAIN R[p] : ~R[p][i].freed
               PROVE  FALSE
    BY <1>2 DEF Linked
  <2>1. 1 \in DOMAIN R[p]
    BY <1>5
  <2> QED BY <1>5, <2>1
<1>11. Book(R, M, u, << >>)
  <2>1. Reached(R, M)
    BY <1>2 DEF Reached
  <2> QED BY <1>5, <1>6, <1>7, <1>8, <1>9, <1>10, <2>1 DEF Book, Held
<1>12. \A s \in Side : Bounded(M[s])
  BY <1>2 DEF Bounded
<1>13. freed_head' = freed_head /\ lost' = lost
  BY <1>1 DEF clearBook
<1> QED BY <1>11, <1>12, <1>13 DEF Good

-----------------------------------------------------------------------------
(* The invariant *)

(* The empty book fits. *)
LEMMA InitB == Init => BInv
<1> SUFFICES ASSUME Init PROVE BInv
  OBVIOUS
<1> USE DEF Init
<1>1. feed = << >> /\ DOMAIN feed = {} /\ DOMAIN cleared = {} /\ next_id = 1 /\ clears = 0
  OBVIOUS
<1>2. \A p \in Prices : price_orders_at_price_[p] = << >> /\ DOMAIN price_orders_at_price_[p] = {}
  OBVIOUS
<1>3. /\ price_orders_at_price_ \in [Prices -> Seq(MarketOrder)]
      /\ by_price_ \in [Side -> SUBSET Prices]
      /\ oid_to_order_ \in [OrderIds -> Prices \cup {Invalid}]
      /\ \A s \in Side : by_price_[s] = {}
  OBVIOUS
<1>4. Orders(feed) /\ OneSide(feed, feed) /\ Present(price_orders_at_price_, feed)
  BY <1>1 DEF Orders, OneSide, Present
<1>5. Listed(price_orders_at_price_, feed) /\ Ordered(price_orders_at_price_) /\ NoneFreed(price_orders_at_price_)
  BY <1>2 DEF Listed, Ordered, NoneFreed
<1>6. Linked(price_orders_at_price_, by_price_) /\ Reached(price_orders_at_price_, by_price_)
  BY <1>2, <1>3 DEF Linked, Reached
<1>7. Pointers(oid_to_order_, feed)
  BY <1>1 DEF Pointers
<1>8. BBOExact(price_orders_at_price_, by_price_, bbo_) /\ \A s \in Side : Bounded(by_price_[s])
  BY <1>3 DEF BBOExact, Bounded
<1>9. ClearedOrders
  BY <1>1 DEF ClearedOrders, Orders, OneSide
<1>10. NoneLost /\ mixed = FALSE
  BY DEF NoneLost
<1>11. Held(price_orders_at_price_, by_price_, oid_to_order_, feed)
  BY <1>3, <1>4, <1>5, <1>6, <1>7 DEF Held
<1>12. Good(price_orders_at_price_, by_price_, oid_to_order_, feed, bbo_, clears)
  BY <1>4, <1>5, <1>6, <1>8, <1>11 DEF Good, Book
<1> QED BY <1>1, <1>9, <1>10, <1>11, <1>12 DEF BInv

(* An order that joins none of the other side is of the side of its price. *)
LEMMA JoinsNone ==
  ASSUME BInv, NEW order \in Order, ~JoinsOther(order)
  PROVE  SameSide(feed, order)
<1> SUFFICES ASSUME NEW o \in DOMAIN feed, feed[o].price_ = order.price_
             PROVE  feed[o].side_ = order.side_
  BY DEF SameSide
<1> DEFINE P == price_orders_at_price_
<1>1. PICK i \in DOMAIN P[feed[o].price_] :
        P[feed[o].price_][i].order_id_ = o /\ ~P[feed[o].price_][i].freed
  BY DEF BInv, Held, Present
<1>2. order.price_ \in Prices
  BY DEF Order
<1>3. feed[o] = [side_ |-> P[order.price_][i].side_, price_ |-> order.price_,
                 qty_ |-> P[order.price_][i].qty_]
  <2>1. Listed(P, feed)
    BY DEF BInv, Held
  <2>2. i \in DOMAIN P[order.price_] /\ ~P[order.price_][i].freed /\ P[order.price_][i].order_id_ = o
    BY <1>1
  <2> HIDE DEF P
  <2> QED BY <1>2, <2>1, <2>2 DEF Listed
<1>4. P[order.price_][i].side_ = order.side_
  BY <1>1 DEF JoinsOther, Level
<1> QED BY <1>3, <1>4

(* The exchange's book is not crossed: its orders never join the other side. *)
LEMMA LiveJoinsNone ==
  ASSUME BInv, NEW order \in Order, NotCrossing(order)
  PROVE  ~JoinsOther(order)
<1> SUFFICES ASSUME JoinsOther(order) PROVE FALSE
  OBVIOUS
<1> DEFINE P == price_orders_at_price_
<1>1. PICK i \in DOMAIN P[order.price_] :
        ~P[order.price_][i].freed /\ P[order.price_][i].side_ # order.side_
  BY DEF JoinsOther, Level
<1>2. order.price_ \in Prices /\ order.price_ \in Nat
  BY PricesAssumption DEF Order
<1>3. PICK o : o = P[order.price_][i].order_id_
  OBVIOUS
<1>4. /\ o \in DOMAIN feed
      /\ feed[o] = [side_ |-> P[order.price_][i].side_, price_ |-> order.price_,
                    qty_ |-> P[order.price_][i].qty_]
  BY <1>1, <1>2, <1>3 DEF BInv, Held, Listed
<1>5. feed[o].side_ # order.side_ /\ feed[o].price_ = order.price_
  BY <1>1, <1>4
<1>6. Better(order.side_, order.price_, order.price_)
  BY <1>4, <1>5 DEF NotCrossing
<1> QED BY <1>2, <1>6 DEF Better

(* A new order of the exchange, or of the file. *)
LEMMA FeedAddKeeps ==
  ASSUME BInv, NEW order \in Order, FeedAdd(order)
  PROVE  BInv'
<1>0. /\ Orders(feed) /\ next_id \in Nat \ {0} /\ clears \in Nat /\ \A o \in DOMAIN feed : o < next_id
  BY DEF BInv, Held
<1>1. next_id \in OrderIds
  BY <1>0, BoundsAssumption DEF FeedAdd, OrderIds
<1>2. Addable(feed, next_id, order)
  BY <1>0, <1>1 DEF Addable
<1>3. /\ onMarketUpdate(update("ADD", next_id, order))
      /\ feed' = With(feed, next_id, order) /\ cleared' = << >> /\ next_id' = next_id + 1
      /\ clears' = clears /\ replay_mode_' = replay_mode_
      /\ replay_mode_ \/ NotCrossing(order)
  BY Zenon DEF FeedAdd
<1>4. mixed' = (mixed \/ JoinsOther(order))
  BY Zenon DEF FeedAdd
<1>5. Held(price_orders_at_price_, by_price_, oid_to_order_, feed)'
  BY <1>2, <1>3, AddHeld
<1>6. ASSUME ~mixed'
      PROVE  /\ Good(price_orders_at_price_, by_price_, oid_to_order_, feed, bbo_, clears)'
             /\ NoneLost'
  <2>1. ~mixed /\ ~JoinsOther(order)
    BY <1>4, <1>6, Zenon
  <2>2. SameSide(feed, order)
    BY <2>1, JoinsNone
  <2> QED BY <1>2, <1>3, <2>1, <2>2, AddGood
<1>7. mixed' => replay_mode_'
  <2>1. mixed => replay_mode_
    BY DEF BInv
  <2>2. JoinsOther(order) => replay_mode_
    BY <1>3, LiveJoinsNone
  <2> QED BY <1>3, <1>4, <2>1, <2>2, Zenon
<1>8. \A o \in DOMAIN feed' : o < next_id'
  <2>1. DOMAIN With(feed, next_id, order) = DOMAIN feed \cup {next_id}
    BY DEF With
  <2>2. \A o \in DOMAIN feed : o \in Nat
    BY <1>0 DEF Orders, OrderIds
  <2> QED BY <1>0, <1>3, <2>1, <2>2
<1>9. ClearedOrders'
  <2>1. DOMAIN << >> = {}
    OBVIOUS
  <2> QED BY <1>3, <2>1 DEF ClearedOrders, Orders, OneSide
<1>10. next_id' \in Nat \ {0} /\ clears' \in Nat
  BY <1>0, <1>3
<1> QED BY <1>5, <1>6, <1>7, <1>8, <1>9, <1>10 DEF BInv

(* An order of the snapshot after a CLEAR. *)
LEMMA FeedSnapshotAddKeeps ==
  ASSUME BInv, NEW id \in DOMAIN cleared, FeedSnapshotAdd(id)
  PROVE  BInv'
<1>0. /\ Orders(feed) /\ ClearedOrders /\ next_id \in Nat \ {0} /\ clears \in Nat
      /\ \A o \in DOMAIN feed : o < next_id
  BY DEF BInv, Held
<1>1. PICK order : order = cleared[id]
  OBVIOUS
<1>2. id \in OrderIds /\ order \in Order /\ id < next_id
  BY <1>0, <1>1 DEF ClearedOrders, Orders
<1>3. Addable(feed, id, order) /\ SameSide(feed, order)
  BY <1>0, <1>1, <1>2 DEF Addable, ClearedOrders, OneSide, SameSide
<1>4. /\ onMarketUpdate(update("ADD", id, order))
      /\ feed' = With(feed, id, order) /\ cleared' = Only(cleared, {o \in OrderIds : o > id})
      /\ next_id' = next_id /\ clears' = clears /\ mixed' = mixed /\ replay_mode_' = replay_mode_
  BY <1>1 DEF FeedSnapshotAdd
<1>5. Held(price_orders_at_price_, by_price_, oid_to_order_, feed)'
  BY <1>3, <1>4, AddHeld
<1>6. ~mixed' => /\ Good(price_orders_at_price_, by_price_, oid_to_order_, feed, bbo_, clears)'
                 /\ NoneLost'
  BY <1>3, <1>4, AddGood
<1>7. PICK f, g : f = feed' /\ g = cleared'
  OBVIOUS
<1>8. /\ DOMAIN f = DOMAIN feed \cup {id} /\ f[id] = order
      /\ \A o \in DOMAIN feed : o # id => f[o] = feed[o]
      /\ \A x \in DOMAIN g : x \in DOMAIN cleared /\ x > id /\ g[x] = cleared[x]
  BY <1>4, <1>7 DEF With, Only
<1>9. Orders(g) /\ OneSide(g, g)
  BY <1>0, <1>8 DEF ClearedOrders, Orders, OneSide
<1>10. OneSide(g, f)
  <2> SUFFICES ASSUME NEW x \in DOMAIN g, NEW o \in DOMAIN f, g[x].price_ = f[o].price_
               PROVE  g[x].side_ = f[o].side_
    BY DEF OneSide
  <2>1. CASE o = id
    BY <1>0, <1>1, <1>8, <2>1 DEF ClearedOrders, OneSide
  <2>2. CASE o # id
    BY <1>0, <1>8, <2>2 DEF ClearedOrders, OneSide
  <2> QED BY <2>1, <2>2
<1>11. \A x \in DOMAIN g : x < next_id
  BY <1>0, <1>8 DEF ClearedOrders
<1>12. \A o \in DOMAIN f, x \in DOMAIN g : o < x
  <2> SUFFICES ASSUME NEW o \in DOMAIN f, NEW x \in DOMAIN g PROVE o < x
    OBVIOUS
  <2>1. x \in Nat /\ id \in Nat /\ x > id /\ x \in DOMAIN cleared
    BY <1>0, <1>2, <1>8 DEF ClearedOrders, Orders, OrderIds
  <2> QED BY <1>0, <1>8, <2>1 DEF ClearedOrders
<1>13. ClearedOrders'
  BY <1>4, <1>7, <1>9, <1>10, <1>11, <1>12 DEF ClearedOrders
<1>14. \A o \in DOMAIN feed' : o < next_id'
  BY <1>0, <1>2, <1>4, <1>7, <1>8
<1>15. mixed' => replay_mode_'
  BY <1>4 DEF BInv
<1> QED BY <1>0, <1>4, <1>5, <1>6, <1>13, <1>14, <1>15 DEF BInv

(* Every update keeps the invariant. *)
LEMMA NextB == BInv /\ [Next]_vars => BInv'
<1> SUFFICES ASSUME BInv, [Next]_vars PROVE BInv'
  OBVIOUS
<1>0. /\ Orders(feed) /\ ClearedOrders
      /\ next_id \in Nat \ {0} /\ clears \in Nat /\ \A o \in DOMAIN feed : o < next_id
      /\ mixed => replay_mode_
  BY DEF BInv, Held
<1>n. DOMAIN << >> = {}
  OBVIOUS
<1>1. ASSUME NEW s \in Side, NEW p \in Prices, NEW q \in Quantities,
             FeedAdd([side_ |-> s, price_ |-> p, qty_ |-> q])
      PROVE  BInv'
  <2>1. PICK order : order = [side_ |-> s, price_ |-> p, qty_ |-> q]
    OBVIOUS
  <2>2. FeedAdd(order) /\ order \in Order
    BY <1>1, <2>1 DEF Order
  <2> QED BY <2>2, FeedAddKeeps
<1>2. ASSUME NEW id \in DOMAIN cleared, FeedSnapshotAdd(id) PROVE BInv'
  BY <1>2, FeedSnapshotAddKeeps
<1>3. ASSUME NEW id \in DOMAIN feed, NEW qty \in Quantities, FeedModify(id, qty) PROVE BInv'
  <2>1. /\ onMarketUpdate(update("MODIFY", id, [feed[id] EXCEPT !.qty_ = qty]))
        /\ feed' = [feed EXCEPT ![id].qty_ = qty] /\ cleared' = << >>
        /\ next_id' = next_id /\ clears' = clears /\ mixed' = mixed /\ replay_mode_' = replay_mode_
    BY <1>3 DEF FeedModify
  <2>2. /\ Held(price_orders_at_price_, by_price_, oid_to_order_, feed)'
        /\ ~mixed' => /\ Good(price_orders_at_price_, by_price_, oid_to_order_, feed, bbo_, clears)'
                      /\ NoneLost'
    BY <2>1, ModifyGood
  <2>3. \A o \in DOMAIN feed' : o < next_id'
    BY <1>0, <2>1
  <2>4. ClearedOrders'
    BY <1>n, <2>1 DEF ClearedOrders, Orders, OneSide
  <2> QED BY <1>0, <2>1, <2>2, <2>3, <2>4 DEF BInv
<1>4. ASSUME NEW id \in DOMAIN feed, FeedCancel(id) PROVE BInv'
  <2>1. /\ onMarketUpdate(update("CANCEL", id, feed[id]))
        /\ feed' = Only(feed, OrderIds \ {id}) /\ cleared' = << >>
        /\ next_id' = next_id /\ clears' = clears /\ mixed' = mixed /\ replay_mode_' = replay_mode_
    BY <1>4 DEF FeedCancel
  <2>2. /\ Held(price_orders_at_price_, by_price_, oid_to_order_, feed)'
        /\ ~mixed' => /\ Good(price_orders_at_price_, by_price_, oid_to_order_, feed, bbo_, clears)'
                      /\ NoneLost'
    BY <2>1, CancelGood
  <2>3. \A o \in DOMAIN feed' : o < next_id'
    BY <1>0, <2>1 DEF Only
  <2>4. ClearedOrders'
    BY <1>n, <2>1 DEF ClearedOrders, Orders, OneSide
  <2> QED BY <1>0, <2>1, <2>2, <2>3, <2>4 DEF BInv
<1>5. ASSUME FeedClear PROVE BInv'
  <2>1. PICK w : w = [type_ |-> "CLEAR", order_id_ |-> Invalid, side_ |-> "INVALID",
                      price_ |-> Invalid, qty_ |-> Invalid]
    OBVIOUS
  <2>2. w.type_ = "CLEAR" /\ onMarketUpdate(w)
    BY <1>5, <2>1 DEF FeedClear
  <2>3. /\ feed' = << >> /\ cleared' = feed /\ next_id' = next_id /\ clears' = clears + 1
        /\ mixed' = mixed /\ replay_mode_' = replay_mode_ /\ ~replay_mode_
    BY <1>5 DEF FeedClear
  <2>4. clears + 1 # 0 /\ clears + 1 \in Nat /\ ~mixed
    BY <1>0, <2>3
  <2>5. /\ Good(price_orders_at_price_, by_price_, oid_to_order_, feed, bbo_, clears)'
        /\ freed_head' = freed_head /\ lost' = lost
    <3>1. PICK n : n = clears + 1
      OBVIOUS
    <3>2. /\ Good(price_orders_at_price_', by_price_', oid_to_order_', << >>, bbo_', n)
          /\ freed_head' = freed_head /\ lost' = lost
      BY <2>2, <2>4, <3>1, ClearGood
    <3> QED BY <2>3, <3>1, <3>2
  <2>6. NoneLost'
    BY <2>4, <2>5 DEF BInv, NoneLost
  <2>7. OneSide(feed, feed)
    BY <2>4 DEF BInv, Good, Book
  <2>8. ClearedOrders'
    BY <1>0, <1>n, <2>3, <2>7 DEF ClearedOrders, OneSide
  <2>9. \A o \in DOMAIN feed' : o < next_id'
    BY <1>n, <2>3
  <2>10. Held(price_orders_at_price_, by_price_, oid_to_order_, feed)'
    BY <2>5 DEF Good, Book
  <2> QED BY <1>0, <2>3, <2>4, <2>5, <2>6, <2>8, <2>9, <2>10 DEF BInv
<1>6. CASE FeedTrade \/ UNCHANGED vars
  <2>1. UNCHANGED vars
    BY <1>6 DEF FeedTrade, onMarketUpdate, vars
  <2> QED BY <2>1 DEF vars, bookVars, BInv, ClearedOrders, NoneLost
<1> QED BY <1>1, <1>2, <1>3, <1>4, <1>5, <1>6 DEF Next

(* The invariant holds of every behaviour of the client's book. *)
THEOREM BookInvariance == Spec => []BInv
<1> QED BY InitB, NextB, PTL DEF Spec

(* No update makes MarketOrderBook::onMarketUpdate follow a pointer to     *)
(* nothing or to a freed order, however often the book was cleared and     *)
(* whoever rests at a price; and the lists from the best price lead to     *)
(* live orders only, those of their side until an order has joined the     *)
(* other side, which in a live client none does.                           *)
THEOREM NoDangling == Spec => []NoFreedOrderReached
<1>1. BInv => NoFreedOrderReached
  <2> SUFFICES ASSUME BInv PROVE NoFreedOrderReached
    OBVIOUS
  <2>0. Held(price_orders_at_price_, by_price_, oid_to_order_, feed)
    BY DEF BInv
  <2>1. ASSUME NEW o \in OrderIds PROVE Findable(o)
    <3>1. CASE o \in DOMAIN feed
      <4>1. oid_to_order_[o] = feed[o].price_
        BY <2>0, <3>1 DEF Held, Pointers
      <4>2. PICK i : At(price_orders_at_price_, feed, o, i)
                     /\ \A j : At(price_orders_at_price_, feed, o, j) => j = i
        BY <2>0, <3>1, OneAt
      <4>3. /\ i \in DOMAIN Level(feed[o].price_)
            /\ \A j \in DOMAIN Level(feed[o].price_) :
                 Level(feed[o].price_)[j].order_id_ = o /\ ~Level(feed[o].price_)[j].freed <=> j = i
        BY <4>2 DEF At, Level
      <4> QED BY <3>1, <4>1, <4>3 DEF Findable
    <3>2. CASE o \notin DOMAIN feed
      BY <2>0, <3>2 DEF Held, Pointers, Findable
    <3> QED BY <3>1, <3>2
  <2>2. ASSUME NEW s \in Side, NEW p \in by_price_[s]
        PROVE  Level(p) # << >> /\ \A i \in DOMAIN Level(p) : ~Level(p)[i].freed
    BY <2>0 DEF Held, Reached, Level
  <2>3. mixed => replay_mode_
    BY DEF BInv
  <2>4. ASSUME ~mixed, NEW s \in Side
        PROVE  /\ freed_head[s] = NoLevel
               /\ \A p \in by_price_[s] : \A i \in DOMAIN Level(p) : Level(p)[i].side_ = s
    <3>1. /\ Book(price_orders_at_price_, by_price_, oid_to_order_, feed) /\ NoneLost
      BY <2>4 DEF BInv, Good
    <3>2. by_price_[s] \subseteq Prices
      BY <2>0 DEF Held
    <3> QED BY <3>1, <3>2 DEF Book, Linked, NoneLost, Level
  <2> QED BY <2>1, <2>2, <2>3, <2>4 DEF NoFreedOrderReached
<1> QED BY <1>1, BookInvariance, PTL

(* Until the first CLEAR, and in replay mode until an order joins orders   *)
(* of the other side, the BBO that the strategies trade on is the top of   *)
(* the book or marked invalid, although updateBBO decides whether to look  *)
(* before the update is applied.                                           *)
THEOREM BBOIsTop == Spec => []BBOExactOrInvalid
<1>1. BInv => BBOExactOrInvalid
  <2> SUFFICES ASSUME BInv, clears = 0, ~mixed, NEW s \in Side
               PROVE  bbo_[s] \in {topOfBook(s, price_orders_at_price_, by_price_[s], freed_head[s]), NoLevel}
    BY DEF BBOExactOrInvalid
  <2>1. BBOExact(price_orders_at_price_, by_price_, bbo_) /\ NoneLost
    BY DEF BInv, Good
  <2>2. freed_head[s] = NoLevel
    BY <2>1 DEF NoneLost
  <2> QED BY <2>1, <2>2 DEF BBOExact
<1> QED BY <1>1, BookInvariance, PTL

(* At every price whose level no CLEAR has freed, the client's book holds  *)
(* the orders the updates have announced, in the order of their ids, with  *)
(* their sides and quantities; and until an order has joined the other     *)
(* side it is linked on a side exactly when there are any of that side.    *)
THEOREM MirrorsFeed == Spec => []MirrorsFeedWhereNotFreed
<1>1. BInv => MirrorsFeedWhereNotFreed
  <2> SUFFICES ASSUME BInv, NEW p \in Prices, \A i \in DOMAIN Level(p) : ~Level(p)[i].freed
               PROVE  HeldAt(p) /\ (~mixed => LinkedAt(p))
    BY DEF MirrorsFeedWhereNotFreed
  <2> PICK P, L : P = price_orders_at_price_ /\ L = by_price_
    OBVIOUS
  <2>0. Held(P, L, oid_to_order_, feed) /\ Level(p) = P[p]
    BY DEF BInv, Level
  <2> DEFINE told == {x \in DOMAIN feed : feed[x].price_ = p}
             shown(o) == [order_id_ |-> o, side_ |-> feed[o].side_, qty_ |-> feed[o].qty_, freed |-> FALSE]
  <2>1. P[p] \in Seq(MarketOrder)
    BY <2>0 DEF Held
  <2>2. ASSUME NEW i \in DOMAIN P[p]
        PROVE  /\ ~P[p][i].freed /\ P[p][i] \in MarketOrder
               /\ P[p][i].order_id_ \in DOMAIN feed
               /\ feed[P[p][i].order_id_].side_ = P[p][i].side_
               /\ feed[P[p][i].order_id_].price_ = p
               /\ feed[P[p][i].order_id_].qty_ = P[p][i].qty_
    <3>1. ~P[p][i].freed /\ P[p][i] \in MarketOrder
      BY <2>0, <2>1
    <3>2. /\ P[p][i].order_id_ \in DOMAIN feed
          /\ feed[P[p][i].order_id_] = [side_ |-> P[p][i].side_, price_ |-> p, qty_ |-> P[p][i].qty_]
      BY <2>0, <3>1 DEF Held, Listed
    <3> QED BY <3>1, <3>2
  <2>3. ASSUME NEW o \in told PROVE \E i \in DOMAIN P[p] : P[p][i].order_id_ = o
    BY <2>0, <2>3 DEF Held, Present
  <2>4. \A i, j \in DOMAIN P[p] : i < j => P[p][i].order_id_ < P[p][j].order_id_
    BY <2>0, <2>2 DEF Held, Ordered
  <2>5. {P[p][i] : i \in DOMAIN P[p]} = {shown(o) : o \in told}
    <3>1. ASSUME NEW i \in DOMAIN P[p]
          PROVE  P[p][i].order_id_ \in told /\ P[p][i] = shown(P[p][i].order_id_)
      <4>1. P[p][i].freed = FALSE
        BY <2>2 DEF MarketOrder
      <4>2. P[p][i] = [order_id_ |-> P[p][i].order_id_, side_ |-> P[p][i].side_, qty_ |-> P[p][i].qty_,
                       freed |-> P[p][i].freed]
        BY <2>2 DEF MarketOrder
      <4> QED BY <2>2, <4>1, <4>2
    <3> HIDE DEF told, shown
    <3> QED BY <2>3, <3>1
  <2>6. HeldAt(p)
    BY <2>0, <2>4, <2>5 DEF HeldAt
  <2>7. ASSUME ~mixed, NEW s \in Side
        PROVE  p \in by_price_[s] <=> \E o \in DOMAIN feed : feed[o].side_ = s /\ feed[o].price_ = p
    <3>1. Book(P, L, oid_to_order_, feed)
      BY <2>7 DEF BInv, Good
    <3>2. p \in L[s] <=> P[p] # << >> /\ \A i \in DOMAIN P[p] : ~P[p][i].freed /\ P[p][i].side_ = s
      BY <3>1 DEF Book, Linked
    <3>3. ASSUME p \in L[s] PROVE \E o \in DOMAIN feed : feed[o].side_ = s /\ feed[o].price_ = p
      <4>1. 1 \in DOMAIN P[p] /\ P[p][1].side_ = s
        BY <2>1, <3>2, <3>3
      <4> QED BY <2>2, <4>1
    <3>4. ASSUME NEW o \in DOMAIN feed, feed[o].side_ = s, feed[o].price_ = p PROVE p \in L[s]
      <4>1. P[p] # << >>
        BY <2>3, <3>4
      <4>2. ASSUME NEW i \in DOMAIN P[p] PROVE ~P[p][i].freed /\ P[p][i].side_ = s
        BY <2>2, <3>1, <3>4, <4>2 DEF Book, OneSide
      <4> QED BY <3>2, <4>1, <4>2
    <3> QED BY <3>3, <3>4
  <2>8. ~mixed => LinkedAt(p)
    BY <2>7 DEF LinkedAt
  <2> QED BY <2>6, <2>8
<1> QED BY <1>1, BookInvariance, PTL
=============================================================================
