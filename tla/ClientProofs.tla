----------------------------- MODULE ClientProofs -----------------------------
(***************************************************************************)
(* Proofs about the trading client: what its MarketDataConsumer receives,  *)
(* and what its PositionKeeper and EquityRecorder make of the fills.       *)
(*                                                                         *)
(* The feed.  For any number of updates, and up to two datagrams lost or   *)
(* repeated, the book that the consumer passes on is the exchange's of one *)
(* earlier moment.  The invariant follows one snapshot through the streams *)
(* (Pipe): what the client has queued is the beginning of it (Fresh), or   *)
(* is left over from an earlier cycle (Stale), which takes both faults, so *)
(* that nothing of the next cycle is lost and its START clears the queue.  *)
(*                                                                         *)
(* The profit, for any prices, quantities, limits and numbers of fills.    *)
(* The realized part is the cash and the cost of the open position, up to  *)
(* the error of the first fill (Realized).  A reduction divides that cost  *)
(* by the position, so the proof also needs that costs can be divided by   *)
(* as many positions as there are fills to come (Divisible).               *)
(*                                                                         *)
(* The summary, for any numbers of samples.  The loop of finalize keeps,   *)
(* of every sample, the peak and the largest fall up to it; that is proved *)
(* from the first sample at which it fails.                                *)
(***************************************************************************)
EXTENDS MarketDataFeed, EquityRecorder, WellFoundedInduction, SequenceTheorems, FiniteSetTheorems, TLAPS

Less == { pair \in Nat \X Nat : pair[1] < pair[2] }

(* Every set of naturals has a least element: claims about the loops of    *)
(* the code are proved from the first round at which they fail.            *)
LEMMA LeastElement ==
  ASSUME NEW T \in SUBSET Nat, T # {}
  PROVE  \E n \in T : \A m \in T : n <= m
<1>1. IsWellFoundedOn(Less, Nat)
  BY NatLessThanWellFounded DEF OpToRel, Less
<1>2. PICK n \in T : \A m \in T : ~(<<m, n>> \in Less)
  BY <1>1, WFMin, Zenon
<1>3. ASSUME NEW m \in T, m < n PROVE FALSE
  <2>1. <<m, n>> \in Nat \X Nat
    OBVIOUS
  <2>2. <<m, n>>[1] < <<m, n>>[2]
    BY <1>3
  <2> QED BY <2>1, <2>2, <1>2 DEF Less
<1> QED BY <1>3

-----------------------------------------------------------------------------
(* Loops *)

(* u holds the states of a loop that starts at x, after each of n rounds *)
Rounds(u, x, f, S, n) ==
  /\ u \in [0 .. n -> S]
  /\ u[0] = x
  /\ \A i \in 1 .. n : u[i] = f[<<i, u[i - 1]>>]

(* The states of a loop exist. *)
LEMMA RoundsExist ==
  ASSUME NEW S, NEW x \in S, NEW f, \A i \in Nat, y \in S : f[<<i, y>>] \in S, NEW n \in Nat
  PROVE  \E u : Rounds(u, x, f, S, n)
<1> DEFINE T == {k \in Nat : ~ \E u : Rounds(u, x, f, S, k)}
<1> SUFFICES ASSUME T # {} PROVE FALSE
  OBVIOUS
<1>1. PICK k \in T : \A m \in T : k <= m
  BY LeastElement
<1>2. CASE k = 0
  <2>1. Rounds([i \in 0 .. 0 |-> x], x, f, S, 0)
    BY DEF Rounds
  <2> QED BY <2>1, <1>1, <1>2
<1>3. CASE k # 0
  <2>1. k - 1 \in Nat /\ k - 1 \notin T
    BY <1>1, <1>3
  <2>2. PICK u : Rounds(u, x, f, S, k - 1)
    BY <2>1
  <2>3. /\ u \in [0 .. k - 1 -> S] /\ u[0] = x
        /\ \A i \in 1 .. k - 1 : u[i] = f[<<i, u[i - 1]>>]
    BY <2>2 DEF Rounds
  <2>4. PICK y \in S : y = f[<<k, u[k - 1]>>]
    BY <2>1, <2>3
  <2> DEFINE v == [i \in 0 .. k |-> IF i = k THEN y ELSE u[i]]
  <2>5. v \in [0 .. k -> S]
    BY <2>3
  <2>6. v[0] = x
    BY <2>3, <1>3
  <2>7. ASSUME NEW i \in 1 .. k PROVE v[i] = f[<<i, v[i - 1]>>]
    <3>1. v[i - 1] = u[i - 1]
      OBVIOUS
    <3>2. CASE i = k
      BY <3>1, <3>2, <2>4
    <3>3. CASE i # k
      <4>1. i \in 1 .. k - 1 /\ v[i] = u[i]
        BY <3>3
      <4> QED BY <4>1, <3>1, <2>3
    <3> QED BY <3>2, <3>3
  <2>8. Rounds(v, x, f, S, k)
    <3> HIDE DEF v
    <3> QED BY <2>5, <2>6, <2>7 DEF Rounds
  <2> QED BY <2>8, <1>1
<1> QED BY <1>2, <1>3

-----------------------------------------------------------------------------
(* Books *)

(* the engine's updates, the orders of a book, and what a consumer forwards *)
Update == [type_ : {"ADD", "MODIFY", "CANCEL"}, order_id_ : 1 .. MaxUpdates, side_ : {"BUY"},
           price_ : {1}, qty_ : 0 .. 2]
Order == [type_ : {"ADD"}, order_id_ : 1 .. MaxUpdates, side_ : {"BUY"}, price_ : {1}, qty_ : 0 .. 2]
Clear == MEMarketUpdate("CLEAR", 0, 0)
Forwarded == Update \cup {Clear}

(* the books: each order under its own id *)
Books == { b \in UNION { [D -> Order] : D \in SUBSET (1 .. MaxUpdates) } :
             \A id \in DOMAIN b : b[id].order_id_ = id }

(* What a book is. *)
LEMMA BookIs ==
  /\ \A b \in Books : /\ DOMAIN b \subseteq 1 .. MaxUpdates /\ b = [id \in DOMAIN b |-> b[id]]
                      /\ \A id \in DOMAIN b : b[id] \in Order /\ b[id].order_id_ = id
  /\ \A D \in SUBSET (1 .. MaxUpdates) : \A f \in [D -> Order] :
       (\A id \in D : f[id].order_id_ = id) => f \in Books
BY DEF Books

(* No orders are a book. *)
LEMMA NoOrdersIsBook == NoOrders \in Books /\ DOMAIN NoOrders = {}
<1>1. NoOrders \in [{} -> Order] /\ DOMAIN NoOrders = {}
  BY DEF NoOrders
<1> QED BY <1>1, BookIs

(* addToSnapshot makes books of books. *)
LEMMA AddToBook ==
  ASSUME NEW b \in Books, NEW u \in Update
  PROVE  addToSnapshot(b, u) \in Books
<1> DEFINE id == u.order_id_
<1>1. /\ DOMAIN b \subseteq 1 .. MaxUpdates /\ b = [m \in DOMAIN b |-> b[m]]
      /\ \A m \in DOMAIN b : b[m] \in Order /\ b[m].order_id_ = m
  BY BookIs
<1>2. id \in 1 .. MaxUpdates
  BY DEF Update
<1>3. CASE u.type_ = "ADD"
  <2>1. addToSnapshot(b, u) = [m \in DOMAIN b \cup {id} |-> IF m = id THEN u ELSE b[m]]
    BY <1>3 DEF addToSnapshot
  <2>2. u \in Order
    BY <1>3 DEF Update, Order
  <2>3. addToSnapshot(b, u) \in [DOMAIN b \cup {id} -> Order]
    BY <1>1, <2>1, <2>2
  <2>4. \A m \in DOMAIN b \cup {id} : addToSnapshot(b, u)[m].order_id_ = m
    BY <1>1, <2>1
  <2>5. DOMAIN b \cup {id} \in SUBSET (1 .. MaxUpdates)
    BY <1>1, <1>2
  <2> QED BY ONLY <2>3, <2>4, <2>5, BookIs
<1>4. CASE u.type_ = "MODIFY" /\ id \in DOMAIN b
  <2>1. addToSnapshot(b, u) = [b EXCEPT ![id].qty_ = u.qty_, ![id].price_ = u.price_]
    BY <1>4 DEF addToSnapshot
  <2>2. PICK o : o = [[b[id] EXCEPT !.qty_ = u.qty_] EXCEPT !.price_ = u.price_]
    OBVIOUS
  <2>3. o \in Order /\ o.order_id_ = id
    BY <1>1, <1>4, <2>2 DEF Order, Update
  <2>4. addToSnapshot(b, u) = [m \in DOMAIN b |-> IF m = id THEN o ELSE b[m]]
    BY <1>1, <1>4, <2>1, <2>2
  <2>5. addToSnapshot(b, u) \in [DOMAIN b -> Order]
    BY <1>1, <2>3, <2>4
  <2> QED BY <1>1, <2>3, <2>4, <2>5, BookIs
<1>5. CASE u.type_ = "CANCEL"
  <2>1. addToSnapshot(b, u) = [m \in DOMAIN b \ {id} |-> b[m]]
    BY <1>5 DEF addToSnapshot, Restrict
  <2>2. addToSnapshot(b, u) \in [DOMAIN b \ {id} -> Order]
    BY <1>1, <2>1
  <2> QED BY <1>1, <2>1, <2>2, BookIs
<1>6. CASE u.type_ = "MODIFY" /\ id \notin DOMAIN b
  BY <1>6 DEF addToSnapshot
<1> QED BY <1>3, <1>4, <1>5, <1>6 DEF Update

(* applied too. *)
LEMMA AppliedToBook ==
  ASSUME NEW b \in Books, NEW u \in Forwarded
  PROVE  /\ applied(b, u) \in Books
         /\ u \in Update => applied(b, u) = addToSnapshot(b, u)
         /\ u = Clear => applied(b, u) = NoOrders
<1>1. CASE u \in Update
  <2>1. applied(b, u) = addToSnapshot(b, u) /\ u # Clear
    BY <1>1 DEF applied, Update, Clear, MEMarketUpdate
  <2> QED BY <2>1, <1>1, AddToBook
<1>2. CASE u = Clear
  <2>1. applied(b, u) = NoOrders /\ u \notin Update
    BY <1>2 DEF applied, Update, Clear, MEMarketUpdate
  <2> QED BY <2>1, <1>2, NoOrdersIsBook
<1> QED BY <1>1, <1>2 DEF Forwarded

-----------------------------------------------------------------------------
(* The engine's book after each update *)

BookOf(q, n) ==
  LET book[i \in 0 .. n] ==
        IF i = 0 THEN NoOrders ELSE addToSnapshot(book[i - 1], q[i])
  IN  book[n]

(* the books after 0, 1, ... n updates *)
BookChain(t, q, n) ==
  /\ t \in [0 .. n -> Books]
  /\ t[0] = NoOrders
  /\ \A i \in 1 .. n : t[i] = addToSnapshot(t[i - 1], q[i])

(* They exist. *)
LEMMA BookChainExists ==
  ASSUME NEW q \in Seq(Update), NEW n \in 0 .. Len(q)
  PROVE  \E t : BookChain(t, q, n)
<1> DEFINE g(i, y) == IF i \in 1 .. n THEN addToSnapshot(y, q[i]) ELSE y
           f == [z \in Nat \X Books |-> g(z[1], z[2])]
<1>1. ASSUME NEW i \in Nat, NEW y \in Books
      PROVE  f[<<i, y>>] \in Books /\ (i \in 1 .. n => f[<<i, y>>] = addToSnapshot(y, q[i]))
  <2>1. g(i, y) \in Books
    <3>1. CASE i \in 1 .. n
      <4>1. q[i] \in Update
        BY <3>1
      <4> QED BY <4>1, <3>1, AddToBook
    <3>2. CASE i \notin 1 .. n
      BY <3>2
    <3> QED BY <3>1, <3>2
  <2>2. f[<<i, y>>] = g(i, y)
    <3> HIDE DEF g
    <3> QED OBVIOUS
  <2> QED BY <2>1, <2>2
<1>2. PICK t : Rounds(t, NoOrders, f, Books, n)
  <2> HIDE DEF f
  <2> QED BY <1>1, NoOrdersIsBook, RoundsExist
<1>3. \A i \in 1 .. n : t[i - 1] \in Books /\ i \in Nat
  BY <1>2 DEF Rounds
<1> HIDE DEF f
<1> QED BY <1>1, <1>2, <1>3 DEF Rounds, BookChain

(* BookOf is the last of them. *)
LEMMA BookOfIs ==
  ASSUME NEW q, NEW n \in Nat, NEW t, BookChain(t, q, n)
  PROVE  BookOf(q, n) = t[n]
<1> DEFINE F(g) == [i \in 0 .. n |-> IF i = 0 THEN NoOrders ELSE addToSnapshot(g[i - 1], q[i])]
           it == CHOOSE g : g = F(g)
<1>1. BookOf(q, n) = it[n]
  BY DEF BookOf
<1>2. t = F(t)
  BY DEF BookChain
<1>3. it = F(it)
  <2> HIDE DEF F
  <2> QED BY <1>2
<1>4. \A i \in 0 .. n : it[i] = IF i = 0 THEN NoOrders ELSE addToSnapshot(it[i - 1], q[i])
  BY <1>3, Zenon
<1> HIDE DEF it
<1> DEFINE T == {i \in 0 .. n : it[i] # t[i]}
<1>5. ASSUME T # {} PROVE FALSE
  <2>1. PICK k \in T : \A i \in T : k <= i
    <3>1. T \in SUBSET Nat
      OBVIOUS
    <3> QED BY <3>1, <1>5, LeastElement
  <2>2. k # 0
    BY <1>4 DEF BookChain
  <2>3. k - 1 \in 0 .. n /\ it[k - 1] = t[k - 1] /\ k \in 1 .. n
    BY <2>1, <2>2
  <2> QED BY <2>2, <2>3, <1>4 DEF BookChain
<1> QED BY <1>1, <1>5

(* One update, one addToSnapshot. *)
LEMMA BookOfNext ==
  ASSUME NEW q \in Seq(Update), NEW n \in 0 .. Len(q)
  PROVE  /\ BookOf(q, n) \in Books
         /\ n = 0 => BookOf(q, n) = NoOrders
         /\ n # 0 => BookOf(q, n) = addToSnapshot(BookOf(q, n - 1), q[n])
<1>1. PICK t : BookChain(t, q, n)
  BY BookChainExists
<1>2. BookOf(q, n) = t[n]
  BY <1>1, BookOfIs
<1>3. ASSUME n # 0 PROVE BookOf(q, n - 1) = t[n - 1]
  <2> DEFINE u == [i \in 0 .. n - 1 |-> t[i]]
  <2>1. BookChain(u, q, n - 1) /\ u[n - 1] = t[n - 1] /\ n - 1 \in Nat
    BY <1>1, <1>3 DEF BookChain
  <2> HIDE DEF u
  <2> QED BY <2>1, BookOfIs
<1> QED BY <1>1, <1>2, <1>3 DEF BookChain

(* Later updates do not change earlier books. *)
LEMMA BookOfStable ==
  ASSUME NEW q \in Seq(Update), NEW u \in Update, NEW n \in 0 .. Len(q)
  PROVE  BookOf(Append(q, u), n) = BookOf(q, n)
<1>1. PICK t : BookChain(t, q, n)
  BY BookChainExists
<1>2. BookChain(t, Append(q, u), n)
  BY <1>1 DEF BookChain
<1> QED BY <1>1, <1>2, BookOfIs

-----------------------------------------------------------------------------
(* What the client's book becomes *)

(* the books after 0, 1, ... of the messages forwarded *)
ReplayChain(t, b, q) ==
  /\ t \in [0 .. Len(q) -> Books]
  /\ t[0] = b
  /\ \A i \in 1 .. Len(q) : t[i] = applied(t[i - 1], q[i])

(* They exist, and the last is what the client has. *)
LEMMA ReplayedIs ==
  ASSUME NEW b \in Books, NEW q \in Seq(Forwarded)
  PROVE  \E t : ReplayChain(t, b, q) /\ replayed(b, q) = t[Len(q)]
<1> DEFINE n == Len(q)
           g(i, y) == IF i \in 1 .. n THEN applied(y, q[i]) ELSE y
           f == [z \in Nat \X Books |-> g(z[1], z[2])]
<1>0. n \in Nat
  OBVIOUS
<1>1. ASSUME NEW i \in Nat, NEW y \in Books
      PROVE  f[<<i, y>>] \in Books /\ (i \in 1 .. n => f[<<i, y>>] = applied(y, q[i]))
  <2>1. g(i, y) \in Books
    <3>1. CASE i \in 1 .. n
      <4>1. q[i] \in Forwarded
        BY <3>1
      <4> QED BY <4>1, <3>1, AppliedToBook
    <3>2. CASE i \notin 1 .. n
      BY <3>2
    <3> QED BY <3>1, <3>2
  <2>2. f[<<i, y>>] = g(i, y)
    <3> HIDE DEF g
    <3> QED OBVIOUS
  <2> QED BY <2>1, <2>2
<1>2. PICK t : Rounds(t, b, f, Books, n)
  <2> HIDE DEF f, n
  <2> QED BY <1>0, <1>1, RoundsExist
<1>3. \A i \in 1 .. n : t[i - 1] \in Books /\ i \in Nat
  BY <1>2 DEF Rounds
<1>4. ReplayChain(t, b, q)
  <2> HIDE DEF f
  <2> QED BY <1>1, <1>2, <1>3 DEF Rounds, ReplayChain
<1> HIDE DEF f
<1> DEFINE F(h) == [i \in 0 .. n |-> IF i = 0 THEN b ELSE applied(h[i - 1], q[i])]
           it == CHOOSE h : h = F(h)
<1>5. replayed(b, q) = it[n]
  BY DEF replayed
<1>6. t = F(t)
  BY <1>4 DEF ReplayChain
<1>7. it = F(it)
  <2> HIDE DEF F
  <2> QED BY <1>6
<1>8. \A i \in 0 .. n : it[i] = IF i = 0 THEN b ELSE applied(it[i - 1], q[i])
  BY <1>7, Zenon
<1> HIDE DEF it
<1> DEFINE T == {i \in 0 .. n : it[i] # t[i]}
<1>9. ASSUME T # {} PROVE FALSE
  <2>1. PICK k \in T : \A i \in T : k <= i
    <3>1. T \in SUBSET Nat
      OBVIOUS
    <3> QED BY <3>1, <1>9, LeastElement
  <2>2. k # 0
    BY <1>4, <1>8 DEF ReplayChain
  <2>3. k - 1 \in 0 .. n /\ it[k - 1] = t[k - 1] /\ k \in 1 .. n
    BY <2>1, <2>2
  <2> QED BY <2>2, <2>3, <1>4, <1>8 DEF ReplayChain
<1>10. it[n] = t[n]
  BY <1>0, <1>9
<1> QED BY <1>4, <1>5, <1>10

(* One update. *)
LEMMA ReplayedOne ==
  ASSUME NEW b \in Books, NEW u \in Update
  PROVE  replayed(b, <<u>>) = addToSnapshot(b, u)
<1>1. <<u>> \in Seq(Forwarded) /\ Len(<<u>>) = 1 /\ <<u>>[1] = u
  BY DEF Forwarded
<1>2. PICK t : ReplayChain(t, b, <<u>>) /\ replayed(b, <<u>>) = t[1]
  BY <1>1, ReplayedIs
<1>3. t[1] = applied(b, u)
  BY <1>1, <1>2 DEF ReplayChain
<1> QED BY <1>2, <1>3, AppliedToBook DEF Forwarded

-----------------------------------------------------------------------------
(* Snapshots *)

(* q holds each order of the book with an id up to n once *)
Lists(q, orders, n) ==
  /\ q \in Seq(Order)
  /\ \A i \in 1 .. Len(q) : q[i].order_id_ \in DOMAIN orders /\ q[i].order_id_ <= n /\ orders[q[i].order_id_] = q[i]
  /\ \A i, j \in 1 .. Len(q) : q[i].order_id_ = q[j].order_id_ => i = j
  /\ \A id \in DOMAIN orders : id <= n => \E i \in 1 .. Len(q) : q[i].order_id_ = id

AddsOf(orders) ==
  LET adds[id \in 0 .. MaxUpdates] ==
        IF id = 0 THEN << >>
        ELSE IF id \in DOMAIN orders THEN Append(adds[id - 1], orders[id]) ELSE adds[id - 1]
  IN  adds[MaxUpdates]

(* publishSnapshot's loop over the ids finds every order once. *)
LEMMA AddsList ==
  ASSUME NEW orders \in Books
  PROVE  Lists(AddsOf(orders), orders, MaxUpdates)
<1> DEFINE n == MaxUpdates
           g(i, y) == IF i \in DOMAIN orders THEN Append(y, orders[i]) ELSE y
           f == [z \in Nat \X Seq(Order) |-> g(z[1], z[2])]
<1>0. n \in Nat
  BY BoundsAssumption
<1>1. /\ DOMAIN orders \subseteq 1 .. n
      /\ \A id \in DOMAIN orders : orders[id] \in Order /\ orders[id].order_id_ = id
  BY BookIs
<1>2. ASSUME NEW i \in Nat, NEW y \in Seq(Order)
      PROVE  f[<<i, y>>] \in Seq(Order) /\ f[<<i, y>>] = g(i, y)
  <2>1. g(i, y) \in Seq(Order)
    BY <1>1
  <2>2. f[<<i, y>>] = g(i, y)
    <3> HIDE DEF g
    <3> QED OBVIOUS
  <2> QED BY <2>1, <2>2
<1>3. PICK t : Rounds(t, << >>, f, Seq(Order), n)
  <2>1. << >> \in Seq(Order)
    OBVIOUS
  <2> HIDE DEF f, n
  <2> QED BY <1>0, <1>2, <2>1, RoundsExist
<1>4. t \in [0 .. n -> Seq(Order)] /\ t[0] = << >> /\ \A i \in 1 .. n : t[i] = g(i, t[i - 1])
  <2>1. t \in [0 .. n -> Seq(Order)] /\ t[0] = << >> /\ \A i \in 1 .. n : t[i] = f[<<i, t[i - 1]>>]
    BY <1>3 DEF Rounds
  <2> HIDE DEF f, g
  <2>2. ASSUME NEW i \in 1 .. n PROVE i \in Nat /\ t[i - 1] \in Seq(Order)
    <3>1. i - 1 \in 0 .. n
      BY <1>0
    <3> QED BY <2>1, <3>1
  <2> QED BY <2>1, <2>2, <1>2
<1> DEFINE F(h) == [id \in 0 .. n |-> IF id = 0 THEN << >> ELSE g(id, h[id - 1])]
           it == CHOOSE h : h = F(h)
<1>5. AddsOf(orders) = it[n]
  BY DEF AddsOf
<1>6. t = F(t)
  <2> HIDE DEF g
  <2> QED BY <1>4
<1>7. it = F(it)
  <2> HIDE DEF F
  <2> QED BY <1>6
<1>8. \A i \in 0 .. n : it[i] = IF i = 0 THEN << >> ELSE g(i, it[i - 1])
  BY <1>7, Zenon
<1> HIDE DEF it, f, F
<1> DEFINE Good(i) == Lists(it[i], orders, i)
           T == {i \in 0 .. n : ~Good(i)}
<1>9. Good(0)
  <2>1. it[0] = << >>
    BY <1>0, <1>8
  <2>2. << >> \in Seq(Order) /\ Len(<< >>) = 0
    OBVIOUS
  <2>3. \A id \in DOMAIN orders : ~(id <= 0)
    BY <1>1
  <2> QED BY <2>1, <2>2, <2>3 DEF Lists
<1>10. ASSUME NEW i \in 1 .. n, Good(i - 1) PROVE Good(i)
  <2>1. it[i] = g(i, it[i - 1])
    BY <1>8
  <2> DEFINE q == it[i - 1]
  <2>2. /\ q \in Seq(Order)
        /\ \A k \in 1 .. Len(q) : /\ q[k].order_id_ \in DOMAIN orders /\ q[k].order_id_ <= i - 1
                                  /\ orders[q[k].order_id_] = q[k]
        /\ \A k, l \in 1 .. Len(q) : q[k].order_id_ = q[l].order_id_ => k = l
        /\ \A id \in DOMAIN orders : id <= i - 1 => \E k \in 1 .. Len(q) : q[k].order_id_ = id
    BY <1>10 DEF Lists
  <2> HIDE DEF q
  <2>3. CASE i \in DOMAIN orders
    <3> DEFINE r == Append(q, orders[i])
    <3>1. it[i] = r
      BY <2>1, <2>3 DEF q
    <3>2. orders[i] \in Order /\ orders[i].order_id_ = i
      BY <2>3, <1>1
    <3>3. /\ r \in Seq(Order) /\ Len(r) = Len(q) + 1
          /\ \A k \in 1 .. Len(q) : r[k] = q[k]
          /\ r[Len(q) + 1] = orders[i]
      BY <2>2, <3>2
    <3> HIDE DEF r
    <3>0. ASSUME NEW k \in 1 .. Len(r)
          PROVE  \/ /\ k \in 1 .. Len(q) /\ r[k] = q[k] /\ q[k].order_id_ \in 1 .. n
                    /\ q[k].order_id_ <= i - 1 /\ q[k].order_id_ # i
                 \/ k = Len(q) + 1 /\ r[k] = orders[i] /\ r[k].order_id_ = i
      <4>1. CASE k = Len(q) + 1
        BY <4>1, <3>2, <3>3
      <4>2. CASE k # Len(q) + 1
        <5>1. k \in 1 .. Len(q)
          BY <4>2, <2>2, <3>3
        <5>2. q[k].order_id_ \in 1 .. n /\ q[k].order_id_ <= i - 1
          BY <5>1, <1>1, <2>2
        <5> QED BY <5>1, <5>2, <3>3, <1>0
      <4> QED BY <4>1, <4>2
    <3>4. ASSUME NEW k \in 1 .. Len(r)
          PROVE  r[k].order_id_ \in DOMAIN orders /\ r[k].order_id_ <= i /\ orders[r[k].order_id_] = r[k]
      <4>1. CASE k \in 1 .. Len(q) /\ r[k] = q[k] /\ q[k].order_id_ \in 1 .. n /\ q[k].order_id_ <= i - 1
        BY <4>1, <2>2, <1>0
      <4>2. CASE k = Len(q) + 1 /\ r[k] = orders[i] /\ r[k].order_id_ = i
        BY <4>2, <2>3, <3>2, <1>0
      <4> QED BY <4>1, <4>2, <3>0
    <3>5. \A k, l \in 1 .. Len(r) : r[k].order_id_ = r[l].order_id_ => k = l
      <4> SUFFICES ASSUME NEW k \in 1 .. Len(r), NEW l \in 1 .. Len(r), r[k].order_id_ = r[l].order_id_
                   PROVE  k = l
        OBVIOUS
      <4> QED BY <3>0, <2>2
    <3>6. \A id \in DOMAIN orders : id <= i => \E k \in 1 .. Len(r) : r[k].order_id_ = id
      <4> SUFFICES ASSUME NEW id \in DOMAIN orders, id <= i PROVE \E k \in 1 .. Len(r) : r[k].order_id_ = id
        OBVIOUS
      <4>1. CASE id = i
        BY <4>1, <2>2, <3>2, <3>3
      <4>2. CASE id # i
        <5>1. id <= i - 1
          BY <4>2, <1>1
        <5>2. PICK k \in 1 .. Len(q) : q[k].order_id_ = id
          BY <5>1, <2>2
        <5> QED BY <5>2, <3>3, <2>2
      <4> QED BY <4>1, <4>2
    <3> QED BY <3>1, <3>3, <3>4, <3>5, <3>6 DEF Lists
  <2>4. CASE i \notin DOMAIN orders
    <3>1. it[i] = q
      BY <2>1, <2>4 DEF q
    <3>2. \A k \in 1 .. Len(q) : q[k].order_id_ <= i
      <4> SUFFICES ASSUME NEW k \in 1 .. Len(q) PROVE q[k].order_id_ <= i
        OBVIOUS
      <4>1. q[k].order_id_ \in 1 .. n /\ q[k].order_id_ <= i - 1
        BY <1>1, <2>2
      <4> QED BY <4>1, <1>0
    <3>3. \A id \in DOMAIN orders : id <= i => id <= i - 1
      BY <1>1, <2>4
    <3> QED BY <2>2, <3>1, <3>2, <3>3 DEF Lists
  <2> QED BY <2>3, <2>4
<1> HIDE DEF Good
<1>11. ASSUME T # {} PROVE FALSE
  <2>1. PICK k \in T : \A i \in T : k <= i
    <3>1. T \in SUBSET Nat
      OBVIOUS
    <3> QED BY <3>1, <1>11, LeastElement
  <2>2. k # 0
    BY <2>1, <1>9
  <2>3. k \in 1 .. n /\ k - 1 \in 0 .. n /\ k - 1 \notin T
    BY <2>1, <2>2, <1>0
  <2>4. Good(k - 1)
    BY <2>3
  <2> QED BY <2>1, <2>3, <2>4, <1>10
<1>12. Good(n)
  BY <1>0, <1>11
<1> QED BY <1>5, <1>12 DEF Good

(* Forwarding CLEAR and then every order of a book makes that book, from   *)
(* whatever there was before.                                              *)
LEMMA ListReplayed ==
  ASSUME NEW orders \in Books, NEW list, Lists(list, orders, MaxUpdates),
         NEW b \in Books, NEW q \in Seq(Forwarded), Len(list) + 1 <= Len(q),
         q[1] = Clear, \A i \in 1 .. Len(list) : q[i + 1] = list[i],
         NEW t, ReplayChain(t, b, q)
  PROVE  t[Len(list) + 1] = orders
<1> DEFINE K == Len(list)
           Good(k) == /\ DOMAIN t[k + 1] = { list[i].order_id_ : i \in 1 .. k }
                      /\ \A id \in DOMAIN t[k + 1] : t[k + 1][id] = orders[id]
           T == {k \in 0 .. K : ~Good(k)}
<1>1. /\ list \in Seq(Order) /\ K \in Nat
      /\ \A i \in 1 .. K : list[i] \in Order /\ list[i].order_id_ \in DOMAIN orders /\ orders[list[i].order_id_] = list[i]
      /\ \A i, j \in 1 .. K : list[i].order_id_ = list[j].order_id_ => i = j
  BY DEF Lists
<1>2. \A id \in DOMAIN orders : \E i \in 1 .. K : list[i].order_id_ = id
  <2>1. \A id \in DOMAIN orders : id \in 1 .. MaxUpdates /\ id <= MaxUpdates
    BY BookIs, BoundsAssumption
  <2> QED BY <2>1 DEF Lists
<1>3. t \in [0 .. Len(q) -> Books] /\ \A i \in 1 .. Len(q) : t[i] = applied(t[i - 1], q[i])
  BY DEF ReplayChain
<1>4. Good(0)
  <2>1. t[0] \in Books /\ 1 \in 1 .. Len(q) /\ t[1] = applied(t[0], Clear)
    BY <1>1, <1>3
  <2>2. t[1] = NoOrders
    BY <2>1, AppliedToBook DEF Forwarded
  <2> QED BY <2>2, NoOrdersIsBook
<1>5. ASSUME NEW k \in 1 .. K, Good(k - 1) PROVE Good(k)
  <2>1. k + 1 \in 1 .. Len(q) /\ k \in 0 .. Len(q) /\ q[k + 1] = list[k] /\ list[k] \in Order
    BY <1>1
  <2>2. t[k] \in Books /\ t[k + 1] = applied(t[k], list[k])
    <3>1. k + 1 - 1 = k
      OBVIOUS
    <3>2. t[k + 1] = applied(t[k], q[k + 1])
      BY ONLY <2>1, <1>3, <3>1
    <3> QED BY <2>1, <1>3, <3>2
  <2>3. list[k] \in Update /\ list[k].type_ = "ADD"
    BY <2>1 DEF Order, Update
  <2> DEFINE id == list[k].order_id_
  <2>4. t[k + 1] = [m \in DOMAIN t[k] \cup {id} |-> IF m = id THEN list[k] ELSE t[k][m]]
    <3>1. t[k + 1] = addToSnapshot(t[k], list[k])
      BY <2>2, <2>3, AppliedToBook DEF Forwarded
    <3> QED BY <3>1, <2>3 DEF addToSnapshot
  <2>5. /\ DOMAIN t[k] = { list[i].order_id_ : i \in 1 .. k - 1 }
        /\ \A m \in DOMAIN t[k] : t[k][m] = orders[m]
    BY <1>5
  <2>6. DOMAIN t[k + 1] = { list[i].order_id_ : i \in 1 .. k }
    <3>1. DOMAIN t[k + 1] = { list[i].order_id_ : i \in 1 .. k - 1 } \cup {id}
      BY <2>4, <2>5
    <3>2. \A i \in 1 .. k : i \in 1 .. k - 1 \/ i = k
      OBVIOUS
    <3>3. k \in 1 .. k /\ \A i \in 1 .. k - 1 : i \in 1 .. k
      OBVIOUS
    <3> QED BY <3>1, <3>2, <3>3
  <2>7. \A m \in DOMAIN t[k + 1] : t[k + 1][m] = orders[m]
    BY <2>4, <2>5, <1>1
  <2> QED BY <2>6, <2>7
<1> HIDE DEF Good
<1>6. ASSUME T # {} PROVE FALSE
  <2>1. PICK k \in T : \A i \in T : k <= i
    <3>1. T \in SUBSET Nat
      OBVIOUS
    <3> QED BY <3>1, <1>6, LeastElement
  <2>2. k # 0
    BY <2>1, <1>4
  <2>3. k \in 1 .. K /\ k - 1 \in 0 .. K /\ k - 1 \notin T
    BY <2>1, <2>2, <1>1
  <2>4. Good(k - 1)
    BY <2>3
  <2> QED BY <2>1, <2>3, <2>4, <1>5
<1>7. Good(K)
  BY <1>1, <1>6
<1>8. DOMAIN t[K + 1] = DOMAIN orders
  <2>1. DOMAIN t[K + 1] = { list[i].order_id_ : i \in 1 .. K }
    BY <1>7 DEF Good
  <2>2. \A id \in DOMAIN orders : id \in DOMAIN t[K + 1]
    BY <2>1, <1>2
  <2>3. \A id \in DOMAIN t[K + 1] : id \in DOMAIN orders
    BY <2>1, <1>1
  <2> QED BY <2>2, <2>3
<1>9. t[K + 1] \in Books
  BY <1>1, <1>3
<1>10. t[K + 1] = [id \in DOMAIN t[K + 1] |-> t[K + 1][id]] /\ orders = [id \in DOMAIN orders |-> orders[id]]
  BY <1>9, BookIs
<1> QED BY <1>7, <1>8, <1>10 DEF Good

(* Forwarding updates that follow a book makes the book they lead to. *)
LEMMA UpdatesReplayed ==
  ASSUME NEW q \in Seq(Update), NEW b, NEW sent \in Seq(Forwarded), NEW t, ReplayChain(t, b, sent),
         NEW m \in 0 .. Len(sent), NEW c \in Nat, c + Len(sent) - m <= Len(q),
         t[m] = BookOf(q, c), \A i \in 1 .. Len(sent) - m : sent[m + i] = q[c + i]
  PROVE  t[Len(sent)] = BookOf(q, c + Len(sent) - m)
<1> DEFINE Good(i) == t[m + i] = BookOf(q, c + i)
           n == Len(sent) - m
           T == {i \in 0 .. n : ~Good(i)}
<1>1. n \in Nat /\ m \in Nat /\ m + n = Len(sent) /\ Len(q) \in Nat /\ c + n = c + Len(sent) - m /\ c + n <= Len(q)
  OBVIOUS
<1>2. Good(0)
  OBVIOUS
<1>3. ASSUME NEW i \in 1 .. n, Good(i - 1) PROVE Good(i)
  <2>1. m + i \in 1 .. Len(sent) /\ m + i - 1 = m + (i - 1) /\ m + (i - 1) \in 0 .. Len(sent)
    BY <1>1
  <2>2. c + i \in 0 .. Len(q) /\ c + i # 0 /\ c + i - 1 = c + (i - 1) /\ c + i \in 1 .. Len(q) /\ c + (i - 1) \in 0 .. Len(q)
    BY <1>1
  <2>3. t[m + i] = applied(t[m + (i - 1)], q[c + i])
    BY <2>1 DEF ReplayChain
  <2>4. q[c + i] \in Update /\ BookOf(q, c + (i - 1)) \in Books
    BY <2>2, BookOfNext
  <2>5. t[m + i] = addToSnapshot(BookOf(q, c + (i - 1)), q[c + i])
    BY <2>3, <2>4, <1>3, AppliedToBook DEF Forwarded
  <2> QED BY <2>2, <2>5, BookOfNext
<1> HIDE DEF Good, n
<1>4. ASSUME T # {} PROVE FALSE
  <2>1. PICK k \in T : \A i \in T : k <= i
    <3>1. T \in SUBSET Nat
      BY <1>1
    <3> QED BY <3>1, <1>4, LeastElement
  <2>2. k # 0
    BY <2>1, <1>2
  <2>3. k \in 1 .. n /\ k - 1 \in 0 .. n /\ k - 1 \notin T
    BY <2>1, <2>2, <1>1
  <2>4. Good(k - 1)
    BY <2>3
  <2> QED BY <2>1, <2>3, <2>4, <1>3
<1>5. Good(n)
  BY <1>1, <1>4
<1> QED BY <1>1, <1>5 DEF Good

(* The messages of a snapshot of a book, numbered from 0: START, CLEAR, an *)
(* ADD for every order once, END, which tells the last update in the book. *)
MessagesOf(last) ==
  [seq_num_ : Nat, update : Forwarded \cup {MEMarketUpdate("SNAPSHOT_START", last, 0),
                                            MEMarketUpdate("SNAPSHOT_END", last, 0)}]

SnapshotOf(M, orders, last) ==
  /\ M \in Seq(MessagesOf(last))
  /\ Len(M) >= 3
  /\ \A i \in 1 .. Len(M) : M[i].seq_num_ = i - 1
  /\ M[1].update = MEMarketUpdate("SNAPSHOT_START", last, 0)
  /\ M[2].update = Clear
  /\ \A i \in 3 .. Len(M) - 1 : M[i].update \in Order
  /\ M[Len(M)].update = MEMarketUpdate("SNAPSHOT_END", last, 0)
  /\ \E list : /\ Lists(list, orders, MaxUpdates)
                /\ Len(list) = Len(M) - 3
                /\ \A i \in 1 .. Len(list) : M[i + 2].update = list[i]

(* snapshotMessages makes such messages. *)
LEMMA SnapshotIs ==
  ASSUME NEW orders \in Books, NEW last \in Nat
  PROVE  SnapshotOf(snapshotMessages(orders, last), orders, last)
<1> DEFINE M == snapshotMessages(orders, last)
           start == MEMarketUpdate("SNAPSHOT_START", last, 0)
           end == MEMarketUpdate("SNAPSHOT_END", last, 0)
           list == AddsOf(orders)
           K == Len(list)
           S == Forwarded \cup {start, end}
           all == <<start, Clear>> \o list \o <<end>>
<1>1. Lists(list, orders, MaxUpdates) /\ list \in Seq(Order) /\ K \in Nat
  <2>1. Lists(list, orders, MaxUpdates)
    BY AddsList
  <2> HIDE DEF list
  <2>2. list \in Seq(Order)
    BY <2>1 DEF Lists
  <2> QED BY <2>1, <2>2
<1>2. M = [i \in DOMAIN all |-> MDPMarketUpdate(i - 1, all[i])]
  BY DEF snapshotMessages, AddsOf, Clear
<1> HIDE DEF M, list, start, end
<1>3. Order \subseteq S /\ Clear \in S /\ start \in S /\ end \in S
  BY DEF Order, Update, Forwarded
<1> HIDE DEF S
<1>4. list \in Seq(S)
  BY <1>1, <1>3
<1>5. /\ all \in Seq(S) /\ Len(all) = K + 3
      /\ all[1] = start /\ all[2] = Clear /\ all[K + 3] = end
      /\ \A i \in 1 .. K : all[i + 2] = list[i]
  BY <1>1, <1>3, <1>4
<1> HIDE DEF all
<1>6. /\ Len(M) = K + 3 /\ M \in Seq([seq_num_ : Nat, update : S])
      /\ \A i \in 1 .. K + 3 : M[i] = [seq_num_ |-> i - 1, update |-> all[i]]
  <2>1. DOMAIN all = 1 .. K + 3 /\ \A i \in 1 .. K + 3 : all[i] \in S
    BY <1>5, <1>1
  <2>2. M = [i \in 1 .. K + 3 |-> [seq_num_ |-> i - 1, update |-> all[i]]]
    BY <1>2, <2>1 DEF MDPMarketUpdate
  <2>3. K + 3 \in Nat /\ \A i \in 1 .. K + 3 : [seq_num_ |-> i - 1, update |-> all[i]] \in [seq_num_ : Nat, update : S]
    BY <1>1, <2>1
  <2> QED BY <2>2, <2>3
<1>7. \A i \in 1 .. K : M[i + 2].update = list[i] /\ list[i] \in Order
  BY <1>1, <1>5, <1>6
<1>8. ASSUME NEW i \in 3 .. Len(M) - 1 PROVE M[i].update \in Order
  <2>1. i - 2 \in 1 .. K /\ (i - 2) + 2 = i
    BY <1>1, <1>6
  <2> QED BY <2>1, <1>7
<1>9. /\ Len(M) >= 3 /\ M[1].update = start /\ M[2].update = Clear /\ M[Len(M)].update = end
      /\ \A i \in 1 .. Len(M) : M[i].seq_num_ = i - 1
  <2>1. 1 \in 1 .. K + 3 /\ 2 \in 1 .. K + 3 /\ K + 3 \in 1 .. K + 3 /\ K + 3 >= 3
    BY <1>1
  <2>2. M[1].update = all[1] /\ M[2].update = all[2] /\ M[K + 3].update = all[K + 3]
    BY <2>1, <1>6
  <2> QED BY <2>1, <2>2, <1>5, <1>6
<1>10. SnapshotOf(M, orders, last)
  BY <1>1, <1>6, <1>7, <1>8, <1>9 DEF SnapshotOf, MessagesOf, S, start, end
<1> QED BY <1>10 DEF M

-----------------------------------------------------------------------------
(* Parts of sequences, datagrams *)

(* A part of a sequence, its head and its tail. *)
LEMMA PartIs ==
  ASSUME NEW S, NEW M \in Seq(S), NEW b \in 0 .. Len(M), NEW a \in 0 .. b
  PROVE  /\ SubSeq(M, a + 1, b) \in Seq(S)
         /\ Len(SubSeq(M, a + 1, b)) = b - a
         /\ SubSeq(M, a + 1, b) = << >> <=> a = b
         /\ a # b => /\ Head(SubSeq(M, a + 1, b)) = M[a + 1]
                     /\ Tail(SubSeq(M, a + 1, b)) = SubSeq(M, a + 1 + 1, b)
<1> DEFINE q == SubSeq(M, a + 1, b)
<1>1. /\ q \in Seq(S) /\ Len(q) = b - a
      /\ \A i \in 1 .. b - a : q[i] = M[a + i]
  OBVIOUS
<1>2. ASSUME a # b PROVE Head(q) = M[a + 1] /\ Tail(q) = SubSeq(M, a + 1 + 1, b)
  <2> DEFINE r == SubSeq(M, a + 1 + 1, b)
  <2>1. r \in Seq(S) /\ Len(r) = b - a - 1 /\ \A i \in 1 .. b - a - 1 : r[i] = M[a + 1 + i]
    BY <1>2
  <2> HIDE DEF q, r
  <2>2. q # << >> /\ 1 \in 1 .. b - a
    BY <1>1, <1>2
  <2>3. Tail(q) \in Seq(S) /\ Len(Tail(q)) = b - a - 1 /\ \A i \in 1 .. b - a - 1 : Tail(q)[i] = q[i + 1]
    BY <1>1, <2>2
  <2>4. \A i \in 1 .. b - a - 1 : i + 1 \in 1 .. b - a /\ a + (i + 1) = a + 1 + i
    OBVIOUS
  <2>5. Tail(q) = r
    BY <1>1, <2>1, <2>3, <2>4, SeqEqual
  <2> QED BY <2>2, <2>5, <1>1 DEF r
<1> HIDE DEF q
<1>3. q = << >> <=> a = b
  BY <1>1
<1> QED BY <1>1, <1>2, <1>3 DEF q

(* the elements of M after the a-th up to the b-th, and parts of that as   *)
(* terms that the provers do not rewrite                                   *)
Part(M, a, b) == SubSeq(M, a + 1, b)
At(M, i) == M[i]
First(q) == Head(q)
Rest(q) == Tail(q)

(* The same of them. *)
LEMMA PartOf ==
  ASSUME NEW S, NEW M \in Seq(S), NEW b \in 0 .. Len(M), NEW a \in 0 .. b
  PROVE  /\ Part(M, a, b) \in Seq(S)
         /\ Len(Part(M, a, b)) = b - a
         /\ Part(M, a, b) = << >> <=> a = b
         /\ a # b => First(Part(M, a, b)) = At(M, a + 1) /\ Rest(Part(M, a, b)) = Part(M, a + 1, b)
BY PartIs DEF Part, At, First, Rest

(* the number of the first message that is not in the first j datagrams *)
Unsent(j) == IF j = 0 THEN 0 ELSE j + 2

(* The datagrams of a cycle are its messages, part by part. *)
LEMMA DatagramsAre ==
  ASSUME NEW S, NEW M \in Seq(S), Len(M) >= 3
  PROVE  /\ datagrams(M) \in Seq(Seq(S))
         /\ Len(datagrams(M)) = Len(M) - 2
         /\ \A i \in 1 .. Len(M) - 2 : datagrams(M)[i] = SubSeq(M, Unsent(i - 1) + 1, Unsent(i))
<1> DEFINE first == SubSeq(M, 1, 3)
           others == [i \in 1 .. Len(M) - 3 |-> <<M[i + 3]>>]
<1>1. datagrams(M) = <<first>> \o others
  BY DEF datagrams
<1>2. first \in Seq(S)
  BY PartIs, 0 + 1 = 1
<1>3. Len(M) - 3 \in Nat /\ \A i \in 1 .. Len(M) - 3 : <<M[i + 3]>> \in Seq(S)
  OBVIOUS
<1>4. others \in Seq(Seq(S)) /\ Len(others) = Len(M) - 3 /\ \A i \in 1 .. Len(M) - 3 : others[i] = <<M[i + 3]>>
  BY <1>3
<1> HIDE DEF first, others
<1>5. /\ datagrams(M) \in Seq(Seq(S)) /\ Len(datagrams(M)) = Len(M) - 2
      /\ datagrams(M)[1] = first /\ \A i \in 2 .. Len(M) - 2 : datagrams(M)[i] = others[i - 1]
  BY <1>1, <1>2, <1>4
<1>6. ASSUME NEW i \in 1 .. Len(M) - 2 PROVE datagrams(M)[i] = SubSeq(M, Unsent(i - 1) + 1, Unsent(i))
  <2>1. CASE i = 1
    <3>1. Unsent(i - 1) + 1 = 1 /\ Unsent(i) = 3
      BY <2>1 DEF Unsent
    <3> QED BY <3>1, <2>1, <1>5 DEF first
  <2>2. CASE i # 1
    <3>1. i \in 2 .. Len(M) - 2 /\ i - 1 \in 1 .. Len(M) - 3 /\ i - 1 + 3 = i + 2
      BY <2>2
    <3>2. datagrams(M)[i] = <<M[i + 2]>>
      BY <3>1, <1>4, <1>5
    <3>3. Unsent(i - 1) + 1 = i + 2 /\ Unsent(i) = i + 2
      BY <2>2 DEF Unsent
    <3>4. i + 2 \in 1 .. Len(M)
      OBVIOUS
    <3>5. SubSeq(M, i + 2, i + 2) = <<M[i + 2]>>
      <4>1. PICK k \in 1 .. Len(M) : k = i + 2
        BY <3>4
      <4>2. PICK q : q = SubSeq(M, k, k)
        OBVIOUS
      <4>3. q \in Seq(S) /\ Len(q) = 1 /\ q[1] = M[k]
        BY <4>2
      <4>4. <<M[k]>> \in Seq(S) /\ Len(<<M[k]>>) = 1 /\ <<M[k]>>[1] = M[k]
        OBVIOUS
      <4>5. q = <<M[k]>>
        BY <4>3, <4>4, SeqEqual
      <4> QED BY <4>1, <4>2, <4>5
    <3> QED BY <3>2, <3>3, <3>5
  <2> QED BY <2>1, <2>2
<1> QED BY <1>5, <1>6

-----------------------------------------------------------------------------
(* The consumer's queues *)

(* the first k messages of a snapshot, without its END *)
Prefix(Q, M, k) ==
  /\ k \in 0 .. Len(M) - 1
  /\ DOMAIN Q = 0 .. k - 1
  /\ \A n \in 0 .. k - 1 : Q[n] = M[n + 1].update

(* incrementals of the engine, under their numbers *)
Incrementals(I, q) == DOMAIN I \subseteq 1 .. Len(q) /\ \A n \in DOMAIN I : I[n] = q[n]

(* the consumer goes on waiting *)
Waits(Q, I) == waitInRecovery(Q, I) /\ UNCHANGED next_exp_inc_seq_num_

(* How many numbers there are. *)
LEMMA IntervalSize ==
  ASSUME NEW k \in Nat
  PROVE  IsFiniteSet(0 .. k - 1) /\ Cardinality(0 .. k - 1) = k
<1>1. k - 1 \in Int
  OBVIOUS
<1>2. Cardinality(0 .. k - 1) = IF 0 > k - 1 THEN 0 ELSE k - 1 - 0 + 1
  BY <1>1, FS_Interval
<1>3. IsFiniteSet(0 .. k - 1)
  BY <1>1, FS_Interval
<1> QED BY <1>2, <1>3

(* A snapshot of which the END is missing lets the consumer wait. *)
LEMMA PrefixWaits ==
  ASSUME NEW M, NEW orders, NEW last \in Nat, SnapshotOf(M, orders, last),
         NEW k, NEW Q, Prefix(Q, M, k), NEW I, checkSnapshotSync(Q, I)
  PROVE  Waits(Q, I)
<1>1. k \in 0 .. Len(M) - 1 /\ DOMAIN Q = 0 .. k - 1 /\ Len(M) \in Nat
  BY DEF Prefix, SnapshotOf
<1>2. Cardinality(DOMAIN Q) = k
  <2>1. k \in Nat
    BY <1>1
  <2> QED BY <2>1, <1>1, IntervalSize
<1>3. CASE k = 0
  BY <1>2, <1>3 DEF checkSnapshotSync, Waits
<1>4. CASE k # 0
  <2>1. Min(DOMAIN Q) = 0
    <3>1. 0 \in DOMAIN Q /\ \A y \in DOMAIN Q : 0 <= y
      BY <1>1, <1>4
    <3>2. Min(DOMAIN Q) \in DOMAIN Q /\ \A y \in DOMAIN Q : Min(DOMAIN Q) <= y
      BY <3>1 DEF Min
    <3> QED BY <3>1, <3>2, <1>1
  <2>2. Q[0] = M[1].update /\ Q[k - 1] = M[k].update
    BY <1>1, <1>4 DEF Prefix
  <2>3. M[1].update.type_ = "SNAPSHOT_START"
    BY DEF SnapshotOf, MEMarketUpdate
  <2>4. M[k].update.type_ # "SNAPSHOT_END"
    <3>1. CASE k = 1
      BY <3>1, <2>3
    <3>2. CASE k = 2
      BY <3>2 DEF SnapshotOf, Clear, MEMarketUpdate
    <3>3. CASE k \in 3 .. Len(M) - 1
      BY <3>3 DEF SnapshotOf, Order
    <3> QED BY <3>1, <3>2, <3>3, <1>1, <1>4
  <2> QED BY <1>1, <1>2, <1>4, <2>1, <2>2, <2>3, <2>4 DEF checkSnapshotSync, Waits
<1> QED BY <1>3, <1>4

(* The queue after the next message of the snapshot, unless that is END. *)
LEMMA PrefixGrows ==
  ASSUME NEW M, NEW orders, NEW last \in Nat, SnapshotOf(M, orders, last),
         NEW k, NEW Q, Prefix(Q, M, k)
  PROVE  /\ DOMAIN queuedWith(Q, M[k + 1]) = 0 .. k
         /\ \A n \in 0 .. k : queuedWith(Q, M[k + 1])[n] = M[n + 1].update
         /\ k # Len(M) - 1 => Prefix(queuedWith(Q, M[k + 1]), M, k + 1)
<1>1. k \in 0 .. Len(M) - 1 /\ DOMAIN Q = 0 .. k - 1 /\ Len(M) \in Nat
  BY DEF Prefix, SnapshotOf
<1>2. M[k + 1].seq_num_ = k
  BY <1>1 DEF SnapshotOf
<1>3. 0 .. k - 1 \cup {k} = 0 .. k
  BY <1>1
<1>4. queuedWith(Q, M[k + 1]) = [n \in 0 .. k |-> IF n = k THEN M[k + 1].update ELSE Q[n]]
  BY <1>1, <1>2, <1>3 DEF queuedWith
<1>5. \A n \in 0 .. k : n # k => n \in 0 .. k - 1
  BY <1>1
<1>6. \A n \in 0 .. k : queuedWith(Q, M[k + 1])[n] = M[n + 1].update
  BY <1>4, <1>5 DEF Prefix
<1> QED BY <1>1, <1>4, <1>6 DEF Prefix

(* A message further on throws away what was queued of the snapshot. *)
LEMMA GapWaits ==
  ASSUME NEW M, NEW orders, NEW last \in Nat, SnapshotOf(M, orders, last),
         NEW k, NEW Q, Prefix(Q, M, k), NEW a \in k + 1 .. Len(M) - 1,
         NEW I, checkSnapshotSync(queuedWith(Q, M[a + 1]), I)
  PROVE  Waits(NoMessages, I)
<1>1. k \in 0 .. Len(M) - 1 /\ DOMAIN Q = 0 .. k - 1 /\ Len(M) \in Nat
  BY DEF Prefix, SnapshotOf
<1>2. M[a + 1].seq_num_ = a
  BY <1>1 DEF SnapshotOf
<1> DEFINE R == queuedWith(Q, M[a + 1])
<1>3. DOMAIN R = (0 .. k - 1) \cup {a}
  BY <1>1, <1>2 DEF queuedWith
<1>4. Cardinality(DOMAIN R) = k + 1
  <2>1. k \in Nat /\ a \notin 0 .. k - 1
    BY <1>1
  <2>2. IsFiniteSet(0 .. k - 1) /\ Cardinality(0 .. k - 1) = k
    BY <2>1, IntervalSize
  <2>3. Cardinality((0 .. k - 1) \cup {a}) = k + 1
    BY <2>1, <2>2, FS_AddElement
  <2> QED BY <2>3, <1>3
<1>5. DOMAIN R # 0 .. (k + 1) - 1
  <2>1. a \in DOMAIN R /\ a \notin 0 .. (k + 1) - 1
    BY <1>1, <1>3
  <2> QED BY <2>1
<1> HIDE DEF R
<1>6. Cardinality(DOMAIN R) # 0
  BY <1>1, <1>4
<1>7. checkSnapshotSync(R, I)
  BY DEF R
<1> QED BY <1>4, <1>5, <1>6, <1>7 DEF checkSnapshotSync, Waits

(* The START of another cycle replaces what was queued. *)
LEMMA StartWaits ==
  ASSUME NEW M, NEW orders, NEW last \in Nat, SnapshotOf(M, orders, last),
         NEW I, checkSnapshotSync(queuedWith(NoMessages, M[1]), I)
  PROVE  Waits(queuedWith(NoMessages, M[1]), I) /\ Prefix(queuedWith(NoMessages, M[1]), M, 1)
<1>1. Prefix(NoMessages, M, 0)
  <2>1. DOMAIN NoMessages = 0 .. 0 - 1
    BY DEF NoMessages
  <2> QED BY <2>1 DEF Prefix, SnapshotOf
<1>2. Len(M) >= 3 /\ Len(M) \in Nat
  BY DEF SnapshotOf
<1>3. Prefix(queuedWith(NoMessages, M[1]), M, 1)
  <2>1. 0 + 1 = 1 /\ 0 # Len(M) - 1
    <3>1. PICK n \in Nat : n = Len(M) /\ n >= 3
      BY <1>2
    <3>2. 0 # n - 1
      BY <3>1
    <3> QED BY <3>1, <3>2
  <2> QED BY <1>1, <2>1, PrefixGrows
<1> QED BY <1>3, PrefixWaits

(* With the whole snapshot of the first c updates the consumer goes on     *)
(* waiting for incrementals, or its book becomes that of a later update.   *)
Synced(c, q, I) ==
  /\ in_recovery_' = FALSE
  /\ snapshot_queued_msgs_' = NoMessages /\ incremental_queued_msgs_' = NoMessages
  /\ next_exp_inc_seq_num_' \in c + 1 .. Len(q) + 1
  /\ position' = next_exp_inc_seq_num_' - 1
  /\ forwarded' = BookOf(q, next_exp_inc_seq_num_' - 1)
  /\ \A n \in c + 1 .. next_exp_inc_seq_num_' - 1 : n \in DOMAIN I
  /\ \A n \in DOMAIN I : n <= next_exp_inc_seq_num_'

(* what it forwards: the snapshot, and the updates that follow it *)
Recovery(M, q, c, next, recovered, newer) ==
  /\ recovered = [i \in 1 .. Len(M) - 2 |-> M[i + 1].update]
  /\ newer = [i \in 1 .. next - 1 - c |-> q[c + i]]

(* What two sequences hold when they are joined. *)
LEMMA Joined ==
  ASSUME NEW S, NEW r \in Seq(S), NEW w \in Seq(S)
  PROVE  /\ r \o w \in Seq(S) /\ Len(r \o w) = Len(r) + Len(w)
         /\ \A i \in 1 .. Len(r) : (r \o w)[i] = r[i]
         /\ \A i \in 1 .. Len(w) : (r \o w)[Len(r) + i] = w[i]
OBVIOUS

(* The snapshot of the first c updates and the updates that follow it lead *)
(* to the book of the last of them.                                        *)
LEMMA Recovered ==
  ASSUME NEW q \in Seq(Update), NEW c \in 0 .. Len(q), NEW b \in Books,
         NEW M, SnapshotOf(M, BookOf(q, c), c), NEW next \in c + 1 .. Len(q) + 1,
         NEW recovered, NEW newer, Recovery(M, q, c, next, recovered, newer)
  PROVE  replayed(b, recovered \o newer) = BookOf(q, next - 1)
<1> DEFINE sent == recovered \o newer
           m == Len(M) - 2
           n == next - 1 - c
           orders == BookOf(q, c)
<1>1. m \in Nat /\ m >= 1 /\ n \in Nat /\ Len(M) = m + 2 /\ c + n = next - 1 /\ c \in Nat /\ c + n <= Len(q)
  BY DEF SnapshotOf
<1>2. PICK list : /\ Lists(list, orders, MaxUpdates) /\ Len(list) = m - 1
                  /\ \A i \in 1 .. m - 1 : M[i + 2].update = list[i]
  <2>1. Len(M) - 3 = m - 1
    BY <1>1
  <2> QED BY <2>1 DEF SnapshotOf
<1>3. M[2].update = Clear /\ \A i \in 1 .. m - 1 : list[i] \in Order
  BY <1>2 DEF SnapshotOf, Lists
<1> HIDE DEF m, n
<1>4. recovered \in Seq(Forwarded) /\ Len(recovered) = m /\ recovered[1] = Clear
      /\ \A i \in 1 .. m - 1 : recovered[i + 1] = list[i]
  <2>1. recovered = [i \in 1 .. m |-> M[i + 1].update]
    BY DEF m, Recovery
  <2>2. \A i \in 1 .. m - 1 : i + 1 \in 1 .. m /\ i + 1 + 1 = i + 2
    BY <1>1
  <2>3. \A i \in 1 .. m : i = 1 \/ (i - 1 \in 1 .. m - 1 /\ i - 1 + 2 = i + 1)
    BY <1>1
  <2>4. Clear \in Forwarded /\ Order \subseteq Forwarded
    BY DEF Forwarded, Order, Update
  <2>5. 1 \in 1 .. m /\ 1 + 1 = 2
    BY <1>1
  <2>6. recovered[1] = Clear
    BY <2>1, <2>5, <1>3
  <2>7. ASSUME NEW i \in 1 .. m - 1 PROVE recovered[i + 1] = list[i]
    BY <2>1, <2>2, <1>2
  <2>8. ASSUME NEW i \in 1 .. m PROVE M[i + 1].update \in Forwarded
    <3>1. CASE i = 1
      BY <3>1, <2>4, <2>5, <1>3
    <3>2. CASE i - 1 \in 1 .. m - 1 /\ i - 1 + 2 = i + 1
      BY <3>2, <2>4, <1>2, <1>3
    <3> QED BY <3>1, <3>2, <2>3
  <2>9. recovered \in Seq(Forwarded) /\ Len(recovered) = m
    BY <1>1, <2>1, <2>8
  <2> QED BY <2>6, <2>7, <2>9
<1>5. newer \in Seq(Update) /\ Len(newer) = n /\ \A i \in 1 .. n : newer[i] = q[c + i]
  <2>1. newer = [i \in 1 .. n |-> q[c + i]]
    BY DEF n, Recovery
  <2>2. ASSUME NEW i \in 1 .. n PROVE q[c + i] \in Update
    <3>1. c + i \in 1 .. Len(q)
      BY <1>1
    <3> QED BY <3>1
  <2> QED BY <1>1, <2>1, <2>2
<1>6. newer \in Seq(Forwarded)
  BY <1>5 DEF Forwarded
<1>7. /\ sent \in Seq(Forwarded) /\ Len(sent) = m + n
      /\ \A i \in 1 .. m : sent[i] = recovered[i]
      /\ \A i \in 1 .. n : sent[m + i] = newer[i]
  <2>1. recovered \in Seq(Forwarded) /\ newer \in Seq(Forwarded) /\ Len(recovered) = m /\ Len(newer) = n
    BY <1>4, <1>5, <1>6
  <2>2. /\ sent \in Seq(Forwarded) /\ Len(sent) = Len(recovered) + Len(newer)
        /\ \A i \in 1 .. Len(recovered) : sent[i] = recovered[i]
        /\ \A i \in 1 .. Len(newer) : sent[Len(recovered) + i] = newer[i]
    <3>1. recovered \in Seq(Forwarded) /\ newer \in Seq(Forwarded)
      BY <2>1
    <3>2. sent = recovered \o newer
      OBVIOUS
    <3> HIDE DEF sent, m, n
    <3> QED BY ONLY <3>1, <3>2, Joined
  <2> HIDE DEF sent, m, n
  <2> QED BY ONLY <2>1, <2>2
<1> HIDE DEF sent
<1>8. PICK t : ReplayChain(t, b, sent) /\ replayed(b, sent) = t[Len(sent)]
  BY <1>7, ReplayedIs
<1>9. orders \in Books
  BY BookOfNext
<1> HIDE DEF orders
<1>10. t[m] = orders
  <2>1. Len(list) + 1 = m /\ Len(list) + 1 <= Len(sent)
    BY <1>1, <1>2, <1>7
  <2>2. sent[1] = Clear
    BY <1>1, <1>4, <1>7
  <2>3. \A i \in 1 .. Len(list) : sent[i + 1] = list[i]
    <3>1. \A i \in 1 .. m - 1 : i + 1 \in 1 .. m
      BY <1>1
    <3> QED BY <3>1, <1>2, <1>4, <1>7
  <2>4. Lists(list, orders, MaxUpdates) /\ sent \in Seq(Forwarded) /\ ReplayChain(t, b, sent)
    BY <1>2, <1>7, <1>8
  <2>5. t[Len(list) + 1] = orders
    <3>1. orders \in Books /\ b \in Books
      BY <1>9
    <3> QED BY ONLY <3>1, <2>1, <2>2, <2>3, <2>4, ListReplayed
  <2> QED BY <2>1, <2>5
<1>11. m \in 0 .. Len(sent) /\ Len(sent) - m = n /\ c + Len(sent) - m = c + n /\ c + n <= Len(q)
  <2>1. PICK l \in Nat : l = Len(sent) /\ l = m + n
    BY <1>1, <1>7
  <2>2. m \in 0 .. l /\ l - m = n /\ c + l - m = c + n
    BY <2>1, <1>1
  <2> QED BY <2>1, <2>2, <1>1
<1>12. \A i \in 1 .. Len(sent) - m : sent[m + i] = q[c + i]
  BY <1>5, <1>7, <1>11
<1>13. t[Len(sent)] = BookOf(q, c + Len(sent) - m)
  <2>1. t[m] = BookOf(q, c)
    BY <1>10 DEF orders
  <2>2. sent \in Seq(Forwarded) /\ ReplayChain(t, b, sent) /\ c \in Nat /\ c + Len(sent) - m <= Len(q)
    BY <1>1, <1>7, <1>8, <1>11
  <2> QED BY <1>11, <1>12, <2>1, <2>2, UpdatesReplayed
<1> QED BY <1>1, <1>8, <1>11, <1>13 DEF sent

(* checkSnapshotSync with a whole snapshot. *)
LEMMA WholeSnapshot ==
  ASSUME updates \in Seq(Update), Len(updates) <= MaxUpdates, NEW c \in 0 .. Len(updates), forwarded \in Books,
         NEW M, SnapshotOf(M, BookOf(updates, c), c),
         NEW Q, DOMAIN Q = 0 .. Len(M) - 1, \A n \in 0 .. Len(M) - 1 : Q[n] = M[n + 1].update,
         NEW I, Incrementals(I, updates), checkSnapshotSync(Q, I)
  PROVE  \/ waitInRecovery(NoMessages, I) /\ next_exp_inc_seq_num_' \in 1 .. Len(updates) + 1
         \/ Synced(c, updates, I)
<1> DEFINE size == Len(M)
<1>1. size \in Nat /\ size >= 3 /\ c \in Nat
  BY DEF SnapshotOf
<1>2. Cardinality(DOMAIN Q) = size
  <2>1. Cardinality(0 .. size - 1) = size
    BY <1>1, IntervalSize
  <2> QED BY <2>1
<1>3. Min(DOMAIN Q) = 0
  <2> DEFINE D == DOMAIN Q
  <2>1. 0 \in D /\ \A y \in D : y \in Nat
    BY <1>1
  <2> HIDE DEF D
  <2>2. Min(D) \in D /\ Min(D) <= 0
    BY <2>1 DEF Min
  <2> QED BY <2>1, <2>2 DEF D
<1>4. Q[0] = M[1].update /\ Q[size - 1] = M[size].update
  BY <1>1
<1>5. /\ Q[0].type_ = "SNAPSHOT_START"
      /\ Q[size - 1].type_ = "SNAPSHOT_END" /\ Q[size - 1].order_id_ = c
  BY <1>4 DEF SnapshotOf, MEMarketUpdate
<1>6. synchronize(Q, I)
  <2> HIDE DEF size
  <2>1. DOMAIN Q = 0 .. size - 1 /\ size # 0
    BY <1>1 DEF size
  <2> QED BY <1>2, <1>3, <1>5, <2>1 DEF checkSnapshotSync
<1> DEFINE gaps == {n \in c + 1 .. MaxUpdates + 1 : n \notin DOMAIN I}
           next == Min(gaps)
           recovered == [i \in 1 .. size - 2 |-> Q[i]]
           newer == [i \in 1 .. next - 1 - c |-> I[c + i]]
<1>7. /\ next_exp_inc_seq_num_' = next
      /\ \/ waitInRecovery(NoMessages, I)
         \/ /\ ~ \E n \in DOMAIN I : n > next
            /\ forward(recovered \o newer, next - 1)
            /\ in_recovery_' = FALSE
            /\ snapshot_queued_msgs_' = NoMessages
            /\ incremental_queued_msgs_' = NoMessages
  BY <1>2, <1>5, <1>6 DEF synchronize
<1>8. DOMAIN I \subseteq 1 .. Len(updates) /\ Len(updates) \in Nat /\ MaxUpdates \in Nat
      /\ \A n \in DOMAIN I : I[n] = updates[n]
  BY BoundsAssumption DEF Incrementals
<1>9. /\ next \in c + 1 .. Len(updates) + 1 /\ next \notin DOMAIN I
      /\ \A n \in c + 1 .. next - 1 : n \in DOMAIN I
  <2>1. Len(updates) + 1 \in gaps /\ gaps \in SUBSET Nat
    BY <1>1, <1>8
  <2> HIDE DEF gaps
  <2>2. PICK l \in gaps : \A n \in gaps : l <= n
    BY <2>1, LeastElement
  <2>3. next \in gaps /\ \A n \in gaps : next <= n
    BY <2>2 DEF Min
  <2>4. next \in c + 1 .. Len(updates) + 1 /\ next \notin DOMAIN I
    BY <2>1, <2>3, <1>1, <1>8 DEF gaps
  <2> HIDE DEF next
  <2>5. ASSUME NEW n \in c + 1 .. next - 1, n \notin DOMAIN I PROVE FALSE
    <3>1. n \in gaps
      BY <2>4, <2>5, <1>1, <1>8 DEF gaps
    <3>2. next <= n
      BY <3>1, <2>3
    <3> QED BY <3>2, <2>4, <2>5, <1>1, <1>8
  <2> QED BY <2>4, <2>5
<1> HIDE DEF next, gaps
<1>10. replayed(forwarded, recovered \o newer) = BookOf(updates, next - 1)
  <2>1. recovered = [i \in 1 .. Len(M) - 2 |-> M[i + 1].update]
    <3>1. \A i \in 1 .. size - 2 : i \in 0 .. Len(M) - 1
      BY <1>1
    <3>2. \A i \in 1 .. size - 2 : Q[i] = M[i + 1].update
      BY <3>1
    <3> QED BY <3>2
  <2>2. newer = [i \in 1 .. next - 1 - c |-> updates[c + i]]
    <3>1. ASSUME NEW i \in 1 .. next - 1 - c PROVE I[c + i] = updates[c + i]
      <4>1. c + i \in c + 1 .. next - 1
        BY <1>1, <1>8, <1>9
      <4> QED BY <4>1, <1>8, <1>9
    <3> QED BY <3>1
  <2>3. PICK r, w : r = recovered /\ w = newer
    OBVIOUS
  <2> HIDE DEF recovered, newer
  <2>4. replayed(forwarded, r \o w) = BookOf(updates, next - 1)
    <3>1. Recovery(M, updates, c, next, r, w)
      BY <2>1, <2>2, <2>3 DEF Recovery
    <3>2. /\ updates \in Seq(Update) /\ c \in 0 .. Len(updates) /\ forwarded \in Books
          /\ SnapshotOf(M, BookOf(updates, c), c) /\ next \in c + 1 .. Len(updates) + 1
      BY <1>9
    <3> QED BY ONLY <3>1, <3>2, Recovered
  <2> QED BY <2>3, <2>4
<1> HIDE DEF recovered, newer
<1>11. CASE waitInRecovery(NoMessages, I)
  <2>1. next \in 1 .. Len(updates) + 1
    BY <1>1, <1>8, <1>9
  <2> QED BY <1>7, <1>11, <2>1
<1>12. CASE /\ ~ \E n \in DOMAIN I : n > next
            /\ forward(recovered \o newer, next - 1)
            /\ in_recovery_' = FALSE
            /\ snapshot_queued_msgs_' = NoMessages
            /\ incremental_queued_msgs_' = NoMessages
  <2>1. forwarded' = BookOf(updates, next - 1) /\ position' = next - 1
    BY <1>10, <1>12 DEF forward
  <2>2. \A n \in DOMAIN I : n <= next
    <3>1. next \in Nat /\ \A n \in DOMAIN I : n \in Nat
      BY <1>1, <1>8, <1>9
    <3> QED BY <3>1, <1>12
  <2> QED BY <1>7, <1>9, <1>12, <2>1, <2>2 DEF Synced
<1> QED BY <1>7, <1>11, <1>12

-----------------------------------------------------------------------------
(* The invariant *)

Total == faults.lost + faults.repeated

FeedTyped ==
  /\ replay_mode_ \in BOOLEAN /\ in_recovery_ \in BOOLEAN
  /\ updates \in Seq(Update) /\ Len(updates) <= MaxUpdates
  /\ last_inc_seq_num_ \in 0 .. Len(updates)
  /\ faults \in [lost : Nat, repeated : Nat] /\ Total <= MaxFaults
  /\ incremental_net \in Seq([seq_num_ : Nat, update : Update])
  /\ position \in 0 .. Len(updates)
  /\ next_exp_inc_seq_num_ \in 1 .. Len(updates) + 1
  /\ replay_mode_ => Total = 0 /\ cycle = << >>
  /\ ~in_recovery_ => /\ snapshot_queued_msgs_ = NoMessages /\ incremental_queued_msgs_ = NoMessages
                      /\ snapshot_net = << >> /\ inbound = << >>

(* What arrives on the incremental stream are updates of the engine, and   *)
(* before the first fault each of them once, in order.                     *)
OnlySent ==
  /\ \A i \in 1 .. Len(incremental_net) :
       /\ incremental_net[i].seq_num_ \in 1 .. Len(updates)
       /\ incremental_net[i].update = updates[incremental_net[i].seq_num_]
  /\ Incrementals(incremental_queued_msgs_, updates)
  /\ Total = 0 =>
       /\ ~in_recovery_
       /\ Len(incremental_net) = Len(updates) + 1 - next_exp_inc_seq_num_
       /\ \A i \in 1 .. Len(incremental_net) :
            incremental_net[i].seq_num_ = next_exp_inc_seq_num_ + i - 1

(* The client's book is the exchange's of an earlier moment. *)
BookIsOne ==
  /\ forwarded = BookOf(updates, position)
  /\ ~in_recovery_ => position = next_exp_inc_seq_num_ - 1

(* The snapshot M on its way: j of its datagrams are sent, those with the  *)
(* numbers g are on the network, h is the last one the client has read,    *)
(* and it has looked at the messages numbered below a.                     *)
Pipe(M, j, h, a, g) ==
  /\ j \in 0 .. Len(M) - 2 /\ h \in 0 .. j /\ a \in 0 .. Unsent(h)
  /\ cycle = SubSeq(datagrams(M), j + 1, Len(M) - 2)
  /\ inbound = SubSeq(M, a + 1, Unsent(h))
  /\ g \in Seq(Nat)
  /\ \A i \in 1 .. Len(g) : g[i] \in h + 1 .. j
  /\ \A i, l \in 1 .. Len(g) : i < l => g[i] < g[l]
  /\ snapshot_net = [i \in 1 .. Len(g) |-> datagrams(M)[g[i]]]

(* Nothing sent since the client read datagram h is missing. *)
Whole(j, h, g) == Len(g) = j - h /\ \A i \in 1 .. Len(g) : g[i] = h + i

(* What is queued are the first k messages of M; before the second fault   *)
(* the client misses none of a cycle that it follows.                      *)
Fresh(M, j, h, a, g, k) ==
  /\ Prefix(snapshot_queued_msgs_, M, k)
  /\ k <= a
  /\ Total < 2 => Whole(j, h, g) /\ (k > 0 => k = a)

(* What is queued is left over from an earlier cycle, of which the END was *)
(* lost; then both faults have happened, and the START of M will come.     *)
Stale(j, h, a, g) ==
  /\ \E c, M, k : /\ c \in 0 .. last_inc_seq_num_ /\ SnapshotOf(M, BookOf(updates, c), c)
                  /\ Prefix(snapshot_queued_msgs_, M, k) /\ k > 0
  /\ Total >= 2 /\ a = 0 /\ Whole(j, h, g)

(* As long as no datagram is repeated: what arrives is newer than what is  *)
(* queued, and a snapshot of the first c updates cannot take the client    *)
(* back: its book is not newer, or it is not going to be replaced before   *)
(* the client has queued an incremental that lies behind a gap.            *)
Back(c) ==
  faults.repeated = 0 =>
    /\ \A i, l \in 1 .. Len(incremental_net) :
         i < l => incremental_net[i].seq_num_ < incremental_net[l].seq_num_
    /\ \A n \in DOMAIN incremental_queued_msgs_ : \A i \in 1 .. Len(incremental_net) :
         n < incremental_net[i].seq_num_
    /\ \/ position <= c
       \/ ~in_recovery_ /\ \A i \in 1 .. Len(incremental_net) : incremental_net[i].seq_num_ > position
       \/ in_recovery_ /\ \E n \in DOMAIN incremental_queued_msgs_ : n > position + 1

Snapshot(c, M) == c \in 0 .. last_inc_seq_num_ /\ SnapshotOf(M, BookOf(updates, c), c)

Follows(M) ==
  \E j, h, a, g : /\ Pipe(M, j, h, a, g)
                  /\ (\E k : Fresh(M, j, h, a, g, k)) \/ Stale(j, h, a, g)

Following == \E c, M : Snapshot(c, M) /\ Back(c) /\ Follows(M)

FeedInv == FeedTyped /\ OnlySent /\ BookIsOne /\ Following

-----------------------------------------------------------------------------
(* What the parts of the invariant say, and how they are established *)

(* A snapshot, its messages and datagrams. *)
LEMMA SnapshotParts ==
  ASSUME NEW c, NEW M, Snapshot(c, M)
  PROVE  /\ M \in Seq(MessagesOf(c)) /\ Len(M) \in Nat /\ Len(M) >= 3
         /\ datagrams(M) \in Seq(Seq(MessagesOf(c))) /\ Len(datagrams(M)) = Len(M) - 2
         /\ \A i \in 1 .. Len(M) - 2 : datagrams(M)[i] = SubSeq(M, Unsent(i - 1) + 1, Unsent(i))
         /\ \A i \in 1 .. Len(M) : M[i].seq_num_ = i - 1
<1>1. M \in Seq(MessagesOf(c)) /\ Len(M) >= 3 /\ \A i \in 1 .. Len(M) : M[i].seq_num_ = i - 1
  BY DEF Snapshot, SnapshotOf
<1> QED BY <1>1, DatagramsAre

(* A snapshot stays one when the engine goes on. *)
LEMMA SnapshotStays ==
  ASSUME FeedTyped, NEW c, NEW M, Snapshot(c, M),
         last_inc_seq_num_' \in last_inc_seq_num_ .. Len(updates),
         updates' = updates \/ \E u \in Update : updates' = Append(updates, u)
  PROVE  Snapshot(c, M)'
<1>1. c \in 0 .. last_inc_seq_num_ /\ SnapshotOf(M, BookOf(updates, c), c)
  BY DEF Snapshot
<1>2. c \in 0 .. Len(updates) /\ c \in 0 .. last_inc_seq_num_'
  BY <1>1 DEF FeedTyped
<1>3. BookOf(updates', c) = BookOf(updates, c)
  BY <1>2, BookOfStable DEF FeedTyped
<1> QED BY <1>1, <1>2, <1>3 DEF Snapshot

(* Nothing on the network, nothing inbound, nothing queued. *)
LEMMA NothingMissed ==
  ASSUME NEW S, NEW M \in Seq(S), Len(M) >= 3, NEW j \in 0 .. Len(M) - 2, NEW g, g = << >>
  PROVE  /\ Unsent(j) \in 0 .. Len(M) /\ SubSeq(M, Unsent(j) + 1, Unsent(j)) = << >>
         /\ g \in Seq(Nat) /\ Len(g) = 0 /\ [i \in 1 .. Len(g) |-> datagrams(M)[g[i]]] = << >>
         /\ Prefix(NoMessages, M, 0)
<1>1. Unsent(j) \in 0 .. Len(M)
  BY DEF Unsent
<1>2. SubSeq(M, Unsent(j) + 1, Unsent(j)) = << >>
  BY <1>1, PartIs
<1>3. DOMAIN NoMessages = 0 .. 0 - 1
  BY DEF NoMessages
<1>4. Len(g) = 0 /\ g \in Seq(Nat)
  OBVIOUS
<1>5. [i \in 1 .. Len(g) |-> datagrams(M)[g[i]]] = << >>
  BY <1>4
<1> QED BY <1>1, <1>2, <1>3, <1>4, <1>5 DEF Prefix

(* When the client does not listen to the snapshot stream, it has missed   *)
(* nothing of it.                                                          *)
LEMMA NotListening ==
  ASSUME NEW c, NEW M, Snapshot(c, M)', NEW j \in 0 .. Len(M) - 2,
         cycle' = SubSeq(datagrams(M), j + 1, Len(M) - 2),
         snapshot_net' = << >>, inbound' = << >>, snapshot_queued_msgs_' = NoMessages
  PROVE  Follows(M)'
<1>1. Len(M) \in Nat /\ Len(M) >= 3 /\ M \in Seq(MessagesOf(c))
  BY DEF Snapshot, SnapshotOf
<1>2. PICK g : g = << >>
  OBVIOUS
<1>3. /\ Unsent(j) \in 0 .. Len(M) /\ SubSeq(M, Unsent(j) + 1, Unsent(j)) = << >>
      /\ g \in Seq(Nat) /\ Len(g) = 0 /\ [i \in 1 .. Len(g) |-> datagrams(M)[g[i]]] = << >>
      /\ Prefix(NoMessages, M, 0)
  BY <1>1, <1>2, NothingMissed
<1>4. Pipe(M, j, j, Unsent(j), g)'
  BY <1>3 DEF Pipe
<1>5. Fresh(M, j, j, Unsent(j), g, 0)'
  BY <1>3 DEF Fresh, Whole
<1> QED BY <1>4, <1>5 DEF Follows

(* The datagrams on the network, one by one. *)
LEMMA NetParts ==
  ASSUME NEW c, NEW M, Snapshot(c, M), NEW j, NEW h, NEW a, NEW g, Pipe(M, j, h, a, g)
  PROVE  /\ j \in 0 .. Len(M) - 2 /\ h \in 0 .. j /\ Unsent(h) \in 0 .. Len(M) /\ a \in 0 .. Unsent(h)
         /\ snapshot_net \in Seq(Seq(MessagesOf(c))) /\ Len(snapshot_net) = Len(g)
         /\ \A i \in 1 .. Len(g) : g[i] \in 1 .. Len(M) - 2 /\ snapshot_net[i] = datagrams(M)[g[i]]
<1>1. /\ Len(M) \in Nat /\ Len(M) >= 3
      /\ datagrams(M) \in Seq(Seq(MessagesOf(c))) /\ Len(datagrams(M)) = Len(M) - 2
  BY SnapshotParts
<1>2. /\ j \in 0 .. Len(M) - 2 /\ h \in 0 .. j /\ a \in 0 .. Unsent(h)
      /\ g \in Seq(Nat) /\ \A i \in 1 .. Len(g) : g[i] \in h + 1 .. j
      /\ snapshot_net = [i \in 1 .. Len(g) |-> datagrams(M)[g[i]]]
  BY DEF Pipe
<1>3. Unsent(h) \in 0 .. Len(M)
  BY <1>1, <1>2 DEF Unsent
<1>4. \A i \in 1 .. Len(g) : g[i] \in 1 .. Len(M) - 2
  BY <1>1, <1>2
<1>5. \A i \in 1 .. Len(g) : datagrams(M)[g[i]] \in Seq(MessagesOf(c))
  BY <1>1, <1>4
<1> QED BY <1>2, <1>3, <1>4, <1>5

-----------------------------------------------------------------------------
(* The steps of the exchange *)

(* Nothing has been sent. *)
LEMMA FeedInitially == Init => FeedInv
<1> SUFFICES ASSUME Init PROVE FeedInv
  OBVIOUS
<1>1. /\ updates = << >> /\ incremental_net = << >> /\ snapshot_net = << >> /\ inbound = << >> /\ cycle = << >>
      /\ last_inc_seq_num_ = 0 /\ position = 0 /\ next_exp_inc_seq_num_ = 1 /\ in_recovery_ = FALSE
      /\ faults = [lost |-> 0, repeated |-> 0] /\ replay_mode_ \in BOOLEAN
      /\ snapshot_queued_msgs_ = NoMessages /\ incremental_queued_msgs_ = NoMessages /\ forwarded = NoOrders
  BY ModesAssumption DEF Init
<1>2. Len(updates) = 0 /\ updates \in Seq(Update) /\ Len(incremental_net) = 0
      /\ incremental_net \in Seq([seq_num_ : Nat, update : Update]) /\ DOMAIN NoMessages = {}
  BY <1>1 DEF NoMessages
<1>3. Total = 0
  BY <1>1 DEF Total
<1>4. FeedTyped
  <2>1. faults \in [lost : Nat, repeated : Nat]
    BY <1>1
  <2>2. replay_mode_ \in BOOLEAN /\ in_recovery_ \in BOOLEAN
    BY <1>1
  <2>3. Total <= MaxFaults /\ Len(updates) <= MaxUpdates
    BY <1>2, <1>3, BoundsAssumption
  <2>4. /\ last_inc_seq_num_ \in 0 .. Len(updates) /\ position \in 0 .. Len(updates)
        /\ next_exp_inc_seq_num_ \in 1 .. Len(updates) + 1
    BY <1>1, <1>2
  <2> QED BY <1>1, <1>2, <1>3, <2>1, <2>2, <2>3, <2>4 DEF FeedTyped
<1>5. OnlySent
  BY <1>1, <1>2 DEF OnlySent, Incrementals
<1>6. BookOf(updates, 0) = NoOrders /\ BookOf(updates, 0) \in Books
  <2>1. 0 \in 0 .. Len(updates)
    BY <1>2
  <2> QED BY <1>2, <2>1, BookOfNext
<1>7. BookIsOne
  BY <1>1, <1>6 DEF BookIsOne
<1> DEFINE M == snapshotMessages(BookOf(updates, 0), 0)
<1>8. Snapshot(0, M)
  BY <1>1, <1>6, SnapshotIs DEF Snapshot
<1>9. Back(0)
  BY <1>1, <1>2 DEF Back
<1> HIDE DEF M
<1>10. Follows(M)
  <2>1. Len(M) \in Nat /\ Len(M) >= 3 /\ datagrams(M) \in Seq(Seq(MessagesOf(0))) /\ Len(datagrams(M)) = Len(M) - 2
    BY <1>8, SnapshotParts
  <2>2. PICK j \in 0 .. Len(M) - 2 : j = Len(M) - 2
    BY <2>1
  <2>3. cycle = SubSeq(datagrams(M), j + 1, Len(M) - 2)
    BY <1>1, <2>1, <2>2, PartIs
  <2>4. PICK g : g = << >>
    OBVIOUS
  <2>5. /\ Unsent(j) \in 0 .. Len(M) /\ SubSeq(M, Unsent(j) + 1, Unsent(j)) = << >>
        /\ g \in Seq(Nat) /\ Len(g) = 0 /\ [i \in 1 .. Len(g) |-> datagrams(M)[g[i]]] = << >>
        /\ Prefix(NoMessages, M, 0)
    <3>1. M \in Seq(MessagesOf(0))
      BY <1>8, SnapshotParts
    <3> QED BY <2>1, <2>4, <3>1, NothingMissed
  <2>6. Pipe(M, j, j, Unsent(j), g)
    BY <1>1, <2>3, <2>5 DEF Pipe
  <2>7. Fresh(M, j, j, Unsent(j), g, 0)
    BY <1>1, <2>5 DEF Fresh, Whole
  <2> QED BY <2>6, <2>7 DEF Follows
<1> QED BY <1>4, <1>5, <1>7, <1>8, <1>9, <1>10 DEF FeedInv, Following

(* What the engine publishes is an update. *)
LEMMA PossibleUpdate ==
  ASSUME FeedTyped, Len(updates) < MaxUpdates, NEW u \in PossibleUpdates
  PROVE  u \in Update
<1>1. updates \in Seq(Update) /\ Len(updates) \in Nat /\ MaxUpdates \in Nat
  BY BoundsAssumption DEF FeedTyped
<1> DEFINE book == bookAfter(Len(updates))
<1>2. book = BookOf(updates, Len(updates))
  BY DEF bookAfter, BookOf
<1> HIDE DEF book
<1>3. book \in Books
  BY <1>1, <1>2, BookOfNext
<1>4. DOMAIN book \subseteq 1 .. MaxUpdates
  BY <1>3, BookIs
<1>5. \/ u = MEMarketUpdate("ADD", Len(updates) + 1, 2)
      \/ \E id \in DOMAIN book : u = MEMarketUpdate("MODIFY", id, 1) \/ u = MEMarketUpdate("CANCEL", id, 0)
  BY DEF PossibleUpdates, book
<1>6. Len(updates) + 1 \in 1 .. MaxUpdates
  BY <1>1
<1> QED BY <1>4, <1>5, <1>6 DEF MEMarketUpdate, Update

(* Nothing of the snapshot stream changes. *)
LEMMA FollowsStays ==
  ASSUME FeedTyped, NEW c, NEW M, Snapshot(c, M), Follows(M),
         last_inc_seq_num_' \in last_inc_seq_num_ .. Len(updates),
         updates' = updates \/ \E u \in Update : updates' = Append(updates, u),
         UNCHANGED <<cycle, inbound, snapshot_net, snapshot_queued_msgs_>>,
         Total' \in Nat, Total' >= Total, Total = 0 => ~in_recovery_
  PROVE  Follows(M)'
<1>1. CASE in_recovery_
  <2>1. PICK j, h, a, g : Pipe(M, j, h, a, g) /\ ((\E k : Fresh(M, j, h, a, g, k)) \/ Stale(j, h, a, g))
    BY DEF Follows
  <2>2. Pipe(M, j, h, a, g)'
    BY <2>1 DEF Pipe
  <2>3. Total \in Nat /\ (Total' < 2 => Total < 2)
    BY DEF Total, FeedTyped
  <2>4. ASSUME NEW k, Fresh(M, j, h, a, g, k) PROVE Fresh(M, j, h, a, g, k)'
    BY <2>3, <2>4 DEF Fresh
  <2>5. ASSUME Stale(j, h, a, g) PROVE Stale(j, h, a, g)'
    <3>1. PICK c1, M1, k : /\ c1 \in 0 .. last_inc_seq_num_ /\ SnapshotOf(M1, BookOf(updates, c1), c1)
                           /\ Prefix(snapshot_queued_msgs_, M1, k) /\ k > 0
      BY <2>5 DEF Stale
    <3>2. Snapshot(c1, M1)
      BY <3>1 DEF Snapshot
    <3>3. Snapshot(c1, M1)'
      BY <3>2, SnapshotStays
    <3>4. Total >= 2 /\ a = 0 /\ Whole(j, h, g)
      BY <2>5 DEF Stale
    <3>5. Total' >= 2
      BY <2>3, <3>4
    <3> QED BY <3>1, <3>3, <3>4, <3>5 DEF Stale, Snapshot
  <2> QED BY <2>1, <2>2, <2>4, <2>5 DEF Follows
<1>2. CASE ~in_recovery_
  <2>1. PICK j, h, a, g : Pipe(M, j, h, a, g)
    BY DEF Follows
  <2>2. j \in 0 .. Len(M) - 2 /\ cycle' = SubSeq(datagrams(M), j + 1, Len(M) - 2)
    BY <2>1 DEF Pipe
  <2>3. snapshot_net' = << >> /\ inbound' = << >> /\ snapshot_queued_msgs_' = NoMessages
    BY <1>2 DEF FeedTyped
  <2>4. Snapshot(c, M)'
    BY SnapshotStays
  <2> QED BY <2>2, <2>3, <2>4, NotListening
<1> QED BY <1>1, <1>2

(* MarketDataPublisher numbers and sends an update. *)
LEMMA PublishKeeps ==
  ASSUME FeedInv, NEW update \in PossibleUpdates, Publish(update)
  PROVE  FeedInv'
<1>1. FeedTyped /\ OnlySent /\ BookIsOne /\ Following
  BY DEF FeedInv
<1>2. /\ updates \in Seq(Update) /\ Len(updates) < MaxUpdates /\ Len(updates) \in Nat
      /\ incremental_net \in Seq([seq_num_ : Nat, update : Update]) /\ Len(incremental_net) \in Nat
      /\ last_inc_seq_num_ \in 0 .. Len(updates) /\ position \in 0 .. Len(updates)
      /\ next_exp_inc_seq_num_ \in 1 .. Len(updates) + 1
      /\ faults \in [lost : Nat, repeated : Nat] /\ MaxUpdates \in Nat /\ MaxFaults \in Nat
      /\ Total \in Nat
  <2>1. Len(updates) < MaxUpdates
    BY DEF Publish
  <2>2. faults \in [lost : Nat, repeated : Nat]
    BY <1>1 DEF FeedTyped
  <2>3. Total \in Nat
    BY <2>2 DEF Total
  <2>4. /\ updates \in Seq(Update) /\ incremental_net \in Seq([seq_num_ : Nat, update : Update])
        /\ last_inc_seq_num_ \in 0 .. Len(updates) /\ position \in 0 .. Len(updates)
        /\ next_exp_inc_seq_num_ \in 1 .. Len(updates) + 1
    BY <1>1 DEF FeedTyped
  <2> QED BY <2>1, <2>2, <2>3, <2>4, BoundsAssumption
<1>3. update \in Update
  BY <1>1, <1>2, PossibleUpdate
<1> DEFINE m == MDPMarketUpdate(Len(updates) + 1, update)
<1>4. m \in [seq_num_ : Nat, update : Update] /\ m.seq_num_ = Len(updates) + 1 /\ m.update = update
  BY <1>2, <1>3 DEF MDPMarketUpdate
<1>5. /\ updates' = Append(updates, update)
      /\ \/ incremental_net' = Append(incremental_net, m) /\ faults' = faults
         \/ /\ ~replay_mode_ /\ MayFail /\ faults' = [faults EXCEPT !.lost = @ + 1]
            /\ incremental_net' = incremental_net
      /\ UNCHANGED <<replay_mode_, last_inc_seq_num_, cycle, snapshot_net, next_exp_inc_seq_num_, in_recovery_,
                     snapshot_queued_msgs_, incremental_queued_msgs_, forwarded, position, inbound>>
  BY DEF Publish, consumer, queued
<1> HIDE DEF m
<1>6. /\ updates' \in Seq(Update) /\ Len(updates') = Len(updates) + 1
      /\ \A i \in 1 .. Len(updates) : updates'[i] = updates[i]
      /\ updates'[Len(updates) + 1] = update
  BY <1>2, <1>3, <1>5
<1>7. \/ faults' = faults /\ Total' = Total
      \/ /\ ~replay_mode_ /\ Total < MaxFaults /\ Total' = Total + 1 /\ faults' \in [lost : Nat, repeated : Nat]
         /\ faults'.repeated = faults.repeated
  <2>1. ASSUME faults' = [faults EXCEPT !.lost = @ + 1], MayFail
        PROVE  /\ Total < MaxFaults /\ Total' = Total + 1 /\ faults' \in [lost : Nat, repeated : Nat]
               /\ faults'.repeated = faults.repeated
    <3>1. PICK x \in Nat, y \in Nat : faults = [lost |-> x, repeated |-> y]
      BY <1>2
    <3>2. faults' = [lost |-> x + 1, repeated |-> y]
      BY <2>1, <3>1
    <3>3. x + y < MaxFaults /\ Total = x + y
      BY <2>1, <3>1 DEF MayFail, Total
    <3>4. Total' = x + 1 + y
      BY <3>2 DEF Total
    <3> QED BY <3>1, <3>2, <3>3, <3>4
  <2> QED BY <1>5, <2>1 DEF Total
<1>8. \/ incremental_net' = incremental_net /\ Total' = Total + 1
      \/ /\ Total' = Total /\ incremental_net' \in Seq([seq_num_ : Nat, update : Update])
         /\ Len(incremental_net') = Len(incremental_net) + 1
         /\ \A i \in 1 .. Len(incremental_net) : incremental_net'[i] = incremental_net[i]
         /\ incremental_net'[Len(incremental_net) + 1] = m
  <2>1. CASE incremental_net' = Append(incremental_net, m) /\ faults' = faults
    BY <2>1, <1>2, <1>4 DEF Total
  <2>2. CASE MayFail /\ faults' = [faults EXCEPT !.lost = @ + 1] /\ incremental_net' = incremental_net
    BY <2>2, <1>2 DEF Total
  <2> QED BY <1>5, <2>1, <2>2
<1>9. FeedTyped'
  <2>1. faults' \in [lost : Nat, repeated : Nat] /\ Total' <= MaxFaults /\ (replay_mode_ => Total' = 0)
    BY <1>1, <1>2, <1>7 DEF FeedTyped
  <2>2. incremental_net' \in Seq([seq_num_ : Nat, update : Update])
    BY <1>2, <1>8
  <2>3. /\ last_inc_seq_num_ \in 0 .. Len(updates') /\ position \in 0 .. Len(updates')
        /\ next_exp_inc_seq_num_ \in 1 .. Len(updates') + 1 /\ Len(updates') <= MaxUpdates
    BY <1>2, <1>6
  <2> QED BY <1>1, <1>5, <1>6, <2>1, <2>2, <2>3 DEF FeedTyped
<1>10. OnlySent'
  <2>1. \A i \in 1 .. Len(incremental_net') :
          /\ incremental_net'[i].seq_num_ \in 1 .. Len(updates')
          /\ incremental_net'[i].update = updates'[incremental_net'[i].seq_num_]
    <3> SUFFICES ASSUME NEW i \in 1 .. Len(incremental_net')
                 PROVE  /\ incremental_net'[i].seq_num_ \in 1 .. Len(updates')
                        /\ incremental_net'[i].update = updates'[incremental_net'[i].seq_num_]
      OBVIOUS
    <3>1. CASE i \in 1 .. Len(incremental_net) /\ incremental_net'[i] = incremental_net[i]
      <4>1. /\ incremental_net[i].seq_num_ \in 1 .. Len(updates)
            /\ incremental_net[i].update = updates[incremental_net[i].seq_num_]
        BY <1>1, <3>1 DEF OnlySent
      <4>2. PICK n \in 1 .. Len(updates) : n = incremental_net[i].seq_num_
        BY <4>1
      <4>3. updates'[n] = updates[n] /\ n \in 1 .. Len(updates')
        <5>1. updates'[n] = updates[n]
          BY <4>2, <1>6
        <5>2. Len(updates') = Len(updates) + 1 /\ Len(updates) \in Nat
          BY <1>2, <1>6
        <5> QED BY ONLY <5>1, <5>2, n \in 1 .. Len(updates)
      <4> QED BY <3>1, <4>1, <4>2, <4>3
    <3>2. CASE incremental_net'[i] = m
      BY <3>2, <1>2, <1>4, <1>6
    <3>3. \/ i \in 1 .. Len(incremental_net) /\ incremental_net'[i] = incremental_net[i]
          \/ incremental_net'[i] = m
      <4>1. CASE incremental_net' = incremental_net
        BY <4>1
      <4>2. CASE /\ Len(incremental_net') = Len(incremental_net) + 1
                 /\ \A k \in 1 .. Len(incremental_net) : incremental_net'[k] = incremental_net[k]
                 /\ incremental_net'[Len(incremental_net) + 1] = m
        <5>1. i \in 1 .. Len(incremental_net) \/ i = Len(incremental_net) + 1
          BY <4>2, <1>2
        <5> QED BY <5>1, <4>2
      <4> QED BY <4>1, <4>2, <1>8
    <3> QED BY <3>1, <3>2, <3>3
  <2>2. Incrementals(incremental_queued_msgs_, updates)'
    <3>1. /\ DOMAIN incremental_queued_msgs_ \subseteq 1 .. Len(updates)
          /\ \A n \in DOMAIN incremental_queued_msgs_ : incremental_queued_msgs_[n] = updates[n]
      BY <1>1 DEF OnlySent, Incrementals
    <3> QED BY <1>2, <1>5, <1>6, <3>1 DEF Incrementals
  <2>3. ASSUME Total' = 0
        PROVE  /\ ~in_recovery_'
               /\ Len(incremental_net') = Len(updates') + 1 - next_exp_inc_seq_num_'
               /\ \A i \in 1 .. Len(incremental_net') :
                    incremental_net'[i].seq_num_ = next_exp_inc_seq_num_' + i - 1
    <3>1. Total = 0 /\ Total' = Total
      BY <2>3, <1>2, <1>8
    <3>2. /\ Len(incremental_net') = Len(incremental_net) + 1
          /\ \A i \in 1 .. Len(incremental_net) : incremental_net'[i] = incremental_net[i]
          /\ incremental_net'[Len(incremental_net) + 1] = m
      BY <3>1, <1>2, <1>8
    <3>3. /\ ~in_recovery_
          /\ Len(incremental_net) = Len(updates) + 1 - next_exp_inc_seq_num_
          /\ \A i \in 1 .. Len(incremental_net) :
               incremental_net[i].seq_num_ = next_exp_inc_seq_num_ + i - 1
      BY <3>1, <1>1 DEF OnlySent
    <3>4. Len(incremental_net') = Len(updates') + 1 - next_exp_inc_seq_num_
      BY <3>2, <3>3, <1>2, <1>6
    <3>5. ASSUME NEW i \in 1 .. Len(incremental_net')
          PROVE  incremental_net'[i].seq_num_ = next_exp_inc_seq_num_ + i - 1
      <4>1. CASE i \in 1 .. Len(incremental_net)
        BY <4>1, <3>2, <3>3
      <4>2. CASE i = Len(incremental_net) + 1
        BY <4>2, <3>2, <3>3, <1>2, <1>4
      <4> QED BY <4>1, <4>2, <3>2, <1>2
    <3> QED BY <3>3, <3>4, <3>5, <1>5
  <2> QED BY <2>1, <2>2, <2>3 DEF OnlySent
<1>11. BookIsOne'
  <2>1. BookOf(updates', position) = BookOf(updates, position)
    BY <1>2, <1>3, <1>5, BookOfStable
  <2> QED BY <1>1, <1>5, <2>1 DEF BookIsOne
<1>12. Following'
  <2>1. PICK c, M : Snapshot(c, M) /\ Back(c) /\ Follows(M)
    BY <1>1 DEF Following
  <2>2. last_inc_seq_num_' \in last_inc_seq_num_ .. Len(updates)
    BY <1>2, <1>5
  <2>3. Snapshot(c, M)'
    BY <2>1, <2>2, <1>1, <1>3, <1>5, SnapshotStays
  <2>4. Follows(M)'
    <3>1. Total' \in Nat /\ Total' >= Total
      BY <1>2, <1>7
    <3>2. Total = 0 => ~in_recovery_
      BY <1>1 DEF OnlySent
    <3> QED BY <2>1, <2>2, <3>1, <3>2, <1>1, <1>3, <1>5, FollowsStays
  <2>5. Back(c)'
    <3> SUFFICES ASSUME faults'.repeated = 0 PROVE Back(c)'
      BY DEF Back
    <3>1. faults.repeated = 0
      BY <1>7
    <3>2. /\ \A i, l \in 1 .. Len(incremental_net) :
               i < l => incremental_net[i].seq_num_ < incremental_net[l].seq_num_
          /\ \A n \in DOMAIN incremental_queued_msgs_ : \A i \in 1 .. Len(incremental_net) :
               n < incremental_net[i].seq_num_
          /\ \/ position <= c
             \/ ~in_recovery_ /\ \A i \in 1 .. Len(incremental_net) : incremental_net[i].seq_num_ > position
             \/ in_recovery_ /\ \E n \in DOMAIN incremental_queued_msgs_ : n > position + 1
      BY <2>1, <3>1 DEF Back
    <3>3. CASE incremental_net' = incremental_net
      BY <3>2, <3>3, <1>5 DEF Back
    <3>4. CASE /\ Len(incremental_net') = Len(incremental_net) + 1
               /\ \A i \in 1 .. Len(incremental_net) : incremental_net'[i] = incremental_net[i]
               /\ incremental_net'[Len(incremental_net) + 1] = m
      <4>1. \A i \in 1 .. Len(incremental_net) : incremental_net[i].seq_num_ \in 1 .. Len(updates)
        BY <1>1 DEF OnlySent
      <4>2. DOMAIN incremental_queued_msgs_ \subseteq 1 .. Len(updates)
        BY <1>1 DEF OnlySent, Incrementals
      <4>0. ASSUME NEW i \in 1 .. Len(incremental_net)
            PROVE  incremental_net[i].seq_num_ < Len(updates) + 1
        <5>1. PICK n \in 1 .. Len(updates) : n = incremental_net[i].seq_num_
          BY <4>1
        <5>2. n < Len(updates) + 1
          BY <1>2
        <5> QED BY <5>1, <5>2
      <4>3. ASSUME NEW i \in 1 .. Len(incremental_net')
            PROVE  \/ i \in 1 .. Len(incremental_net) /\ incremental_net'[i] = incremental_net[i]
                   \/ i = Len(incremental_net) + 1 /\ incremental_net'[i].seq_num_ = Len(updates) + 1
        BY <3>4, <1>2, <1>4
      <4>4. \A i, l \in 1 .. Len(incremental_net') :
              i < l => incremental_net'[i].seq_num_ < incremental_net'[l].seq_num_
        <5> SUFFICES ASSUME NEW i \in 1 .. Len(incremental_net'), NEW l \in 1 .. Len(incremental_net'), i < l
                     PROVE  incremental_net'[i].seq_num_ < incremental_net'[l].seq_num_
          OBVIOUS
        <5>1. i \in 1 .. Len(incremental_net) /\ incremental_net'[i] = incremental_net[i]
          BY <4>3, <3>4, <1>2
        <5>2. CASE l \in 1 .. Len(incremental_net) /\ incremental_net'[l] = incremental_net[l]
          BY <5>1, <5>2, <3>2
        <5>3. CASE incremental_net'[l].seq_num_ = Len(updates) + 1
          BY <5>1, <5>3, <4>0
        <5> QED BY <5>2, <5>3, <4>3
      <4>5. \A n \in DOMAIN incremental_queued_msgs_ : \A i \in 1 .. Len(incremental_net') :
              n < incremental_net'[i].seq_num_
        <5> SUFFICES ASSUME NEW n \in DOMAIN incremental_queued_msgs_, NEW i \in 1 .. Len(incremental_net')
                     PROVE  n < incremental_net'[i].seq_num_
          OBVIOUS
        <5>1. n \in 1 .. Len(updates)
          BY <4>2
        <5>2. n < Len(updates) + 1
          BY <5>1, <1>2
        <5>3. CASE i \in 1 .. Len(incremental_net) /\ incremental_net'[i] = incremental_net[i]
          BY <5>3, <3>2
        <5>4. CASE incremental_net'[i].seq_num_ = Len(updates) + 1
          BY <5>2, <5>4
        <5> QED BY <5>3, <5>4, <4>3
      <4>6. ASSUME \A i \in 1 .. Len(incremental_net) : incremental_net[i].seq_num_ > position
            PROVE  \A i \in 1 .. Len(incremental_net') : incremental_net'[i].seq_num_ > position
        <5> SUFFICES ASSUME NEW i \in 1 .. Len(incremental_net') PROVE incremental_net'[i].seq_num_ > position
          OBVIOUS
        <5>1. Len(updates) + 1 > position
          BY <1>2
        <5>2. CASE i \in 1 .. Len(incremental_net) /\ incremental_net'[i] = incremental_net[i]
          BY <5>2, <4>6
        <5>3. CASE incremental_net'[i].seq_num_ = Len(updates) + 1
          BY <5>1, <5>3
        <5> QED BY <5>2, <5>3, <4>3
      <4> QED BY <4>4, <4>5, <4>6, <3>2, <1>5 DEF Back
    <3> QED BY <3>3, <3>4, <1>8
  <2> QED BY <2>3, <2>4, <2>5 DEF Following
<1> QED BY <1>9, <1>10, <1>11, <1>12 DEF FeedInv

(* A message arrives once more. *)
LEMMA RepeatKeeps ==
  ASSUME FeedInv, NEW seq \in DOMAIN updates, Repeat(seq)
  PROVE  FeedInv'
<1>1. FeedTyped /\ OnlySent /\ BookIsOne /\ Following
  BY DEF FeedInv
<1>2. /\ updates \in Seq(Update) /\ Len(updates) \in Nat
      /\ incremental_net \in Seq([seq_num_ : Nat, update : Update]) /\ Len(incremental_net) \in Nat
      /\ last_inc_seq_num_ \in 0 .. Len(updates)
      /\ faults \in [lost : Nat, repeated : Nat]
  BY <1>1 DEF FeedTyped
<1> DEFINE m == MDPMarketUpdate(seq, updates[seq])
<1>3. seq \in 1 .. Len(updates) /\ updates[seq] \in Update
  BY <1>2
<1>4. m \in [seq_num_ : Nat, update : Update] /\ m.seq_num_ = seq /\ m.update = updates[seq]
  BY <1>3 DEF MDPMarketUpdate
<1>5. /\ ~replay_mode_ /\ incremental_net' = Append(incremental_net, m)
      /\ MayFail /\ faults' = [faults EXCEPT !.repeated = @ + 1]
      /\ UNCHANGED <<replay_mode_, updates, last_inc_seq_num_, cycle, snapshot_net, next_exp_inc_seq_num_,
                     in_recovery_, snapshot_queued_msgs_, incremental_queued_msgs_, forwarded, position, inbound>>
  BY DEF Repeat, exchange, consumer, queued
<1> HIDE DEF m
<1>6. PICK x \in Nat, y \in Nat : faults = [lost |-> x, repeated |-> y]
  BY <1>2
<1>7. /\ faults' \in [lost : Nat, repeated : Nat] /\ faults'.repeated = y + 1
      /\ Total = x + y /\ Total' = x + y + 1 /\ x + y < MaxFaults
  <2>1. faults' = [lost |-> x, repeated |-> y + 1]
    BY <1>5, <1>6
  <2>2. Total = x + y /\ x + y < MaxFaults
    BY <1>5, <1>6 DEF Total, MayFail
  <2>3. Total' = x + (y + 1)
    BY <2>1 DEF Total
  <2> QED BY <2>1, <2>2, <2>3
<1>8. FeedTyped'
  <2>1. incremental_net' \in Seq([seq_num_ : Nat, update : Update])
    BY <1>2, <1>4, <1>5
  <2>2. Total' <= MaxFaults
    BY <1>7, BoundsAssumption
  <2> QED BY <1>1, <1>5, <1>7, <2>1, <2>2 DEF FeedTyped
<1>9. OnlySent'
  <2>1. \A i \in 1 .. Len(incremental_net') :
          /\ incremental_net'[i].seq_num_ \in 1 .. Len(updates)
          /\ incremental_net'[i].update = updates[incremental_net'[i].seq_num_]
    <3> SUFFICES ASSUME NEW i \in 1 .. Len(incremental_net')
                 PROVE  /\ incremental_net'[i].seq_num_ \in 1 .. Len(updates)
                        /\ incremental_net'[i].update = updates[incremental_net'[i].seq_num_]
      OBVIOUS
    <3>1. CASE i \in 1 .. Len(incremental_net) /\ incremental_net'[i] = incremental_net[i]
      BY <3>1, <1>1 DEF OnlySent
    <3>2. CASE incremental_net'[i] = m
      BY <3>2, <1>3, <1>4
    <3> QED BY <1>2, <1>4, <1>5, <3>1, <3>2
  <2>2. Total' # 0
    BY <1>7
  <2> QED BY <1>1, <1>5, <2>1, <2>2 DEF OnlySent, Incrementals
<1>10. BookIsOne'
  BY <1>1, <1>5 DEF BookIsOne
<1>11. Following'
  <2>1. PICK c, M : Snapshot(c, M) /\ Back(c) /\ Follows(M)
    BY <1>1 DEF Following
  <2>2. last_inc_seq_num_' \in last_inc_seq_num_ .. Len(updates)
    BY <1>2, <1>5
  <2>3. Snapshot(c, M)'
    BY <2>1, <2>2, <1>1, <1>5, SnapshotStays
  <2>4. Follows(M)'
    <3>1. Total' \in Nat /\ Total' >= Total
      BY <1>7
    <3>2. Total = 0 => ~in_recovery_
      BY <1>1 DEF OnlySent
    <3> QED BY <2>1, <2>2, <3>1, <3>2, <1>1, <1>5, FollowsStays
  <2>5. Back(c)'
    BY <1>7 DEF Back
  <2> QED BY <2>3, <2>4, <2>5 DEF Following
<1> QED BY <1>8, <1>9, <1>10, <1>11 DEF FeedInv

(* Everything but the snapshot stream stays as it is. *)
LEMMA ExchangeKeeps ==
  ASSUME FeedInv, last_inc_seq_num_' \in last_inc_seq_num_ .. Len(updates),
         UNCHANGED <<replay_mode_, updates, incremental_net, next_exp_inc_seq_num_, in_recovery_,
                     snapshot_queued_msgs_, incremental_queued_msgs_, forwarded, position>>,
         in_recovery_ \/ (snapshot_net' = << >> /\ inbound' = << >>), replay_mode_ => cycle' = << >>,
         \/ faults' = faults
         \/ /\ ~replay_mode_ /\ in_recovery_ /\ faults' \in [lost : Nat, repeated : Nat]
            /\ faults'.repeated = faults.repeated /\ Total' \in Total .. MaxFaults,
         Following'
  PROVE  FeedInv'
<1>1. FeedTyped /\ OnlySent /\ BookIsOne
  BY DEF FeedInv
<1>2. FeedTyped'
  BY <1>1 DEF FeedTyped, Total
<1>3. OnlySent'
  <2>1. Total' = 0 => Total = 0
    <3>1. CASE faults' = faults
      BY <3>1 DEF Total
    <3>2. CASE Total' \in Total .. MaxFaults
      BY <3>2, <1>1 DEF FeedTyped, Total
    <3> QED BY <3>1, <3>2
  <2> QED BY <1>1, <2>1 DEF OnlySent, Incrementals
<1>4. BookIsOne'
  BY <1>1 DEF BookIsOne
<1> QED BY <1>2, <1>3, <1>4 DEF FeedInv

(* The synthesizer applies an update. *)
LEMMA AddKeeps == FeedInv /\ addToSnapshotStep => FeedInv'
<1> SUFFICES ASSUME FeedInv, addToSnapshotStep PROVE FeedInv'
  OBVIOUS
<1>1. FeedTyped /\ OnlySent /\ BookIsOne /\ Following
  BY DEF FeedInv
<1>2. /\ last_inc_seq_num_' = last_inc_seq_num_ + 1 /\ last_inc_seq_num_ < Len(updates)
      /\ UNCHANGED <<replay_mode_, updates, cycle, incremental_net, snapshot_net, faults, next_exp_inc_seq_num_,
                     in_recovery_, snapshot_queued_msgs_, incremental_queued_msgs_, forwarded, position, inbound>>
  BY DEF addToSnapshotStep, consumer, queued
<1>3. last_inc_seq_num_' \in last_inc_seq_num_ .. Len(updates)
  BY <1>1, <1>2 DEF FeedTyped
<1>4. Following'
  <2>1. PICK c, M : Snapshot(c, M) /\ Back(c) /\ Follows(M)
    BY <1>1 DEF Following
  <2>2. Snapshot(c, M)'
    BY <2>1, <1>1, <1>2, <1>3, SnapshotStays
  <2>3. Follows(M)'
    <3>1. Total' \in Nat /\ Total' >= Total
      BY <1>1, <1>2 DEF Total, FeedTyped
    <3>2. Total = 0 => ~in_recovery_
      BY <1>1 DEF OnlySent
    <3> QED BY <2>1, <3>1, <3>2, <1>1, <1>2, <1>3, FollowsStays
  <2>4. Back(c)'
    BY <2>1, <1>2 DEF Back
  <2> QED BY <2>2, <2>3, <2>4 DEF Following
<1>5. in_recovery_ \/ (snapshot_net' = << >> /\ inbound' = << >>)
  BY <1>1, <1>2 DEF FeedTyped
<1>6. replay_mode_ => cycle' = << >>
  BY <1>1, <1>2 DEF FeedTyped
<1> QED BY <1>2, <1>3, <1>4, <1>5, <1>6, ExchangeKeeps

(* The synthesizer starts the next cycle. *)
LEMMA PublishSnapshotKeeps == FeedInv /\ publishSnapshot => FeedInv'
<1> SUFFICES ASSUME FeedInv, publishSnapshot PROVE FeedInv'
  OBVIOUS
<1>1. FeedTyped /\ OnlySent /\ BookIsOne /\ Following
  BY DEF FeedInv
<1>2. PICK d0 : d0 = last_inc_seq_num_
  OBVIOUS
<1>3. PICK N0 : N0 = snapshotMessages(BookOf(updates, d0), d0)
  OBVIOUS
<1>4. /\ ~replay_mode_ /\ cycle = << >> /\ d0 = Len(updates) /\ snapshot_net = << >> /\ inbound = << >>
      /\ UNCHANGED <<replay_mode_, updates, last_inc_seq_num_, incremental_net, snapshot_net, faults,
                     next_exp_inc_seq_num_, in_recovery_, snapshot_queued_msgs_, incremental_queued_msgs_,
                     forwarded, position, inbound>>
  BY <1>2 DEF publishSnapshot, consumer, queued
<1>5. cycle' = datagrams(N0)
  <2>1. bookAfter(last_inc_seq_num_) = BookOf(updates, last_inc_seq_num_)
    BY DEF bookAfter, BookOf
  <2> QED BY <2>1, <1>2, <1>3 DEF publishSnapshot
<1>6. updates \in Seq(Update) /\ d0 \in 0 .. Len(updates) /\ d0 \in Nat /\ faults \in [lost : Nat, repeated : Nat]
      /\ Total \in Nat /\ position \in 0 .. Len(updates)
  BY <1>1, <1>2 DEF FeedTyped, Total
<1>7. SnapshotOf(N0, BookOf(updates, d0), d0)
  <2>1. BookOf(updates, d0) \in Books
    BY <1>6, BookOfNext
  <2> QED BY <1>3, <1>6, <2>1, SnapshotIs
<1>8. Snapshot(d0, N0) /\ Snapshot(d0, N0)'
  <2>1. d0 \in 0 .. last_inc_seq_num_ /\ d0 \in 0 .. last_inc_seq_num_'
    BY <1>2, <1>4, <1>6
  <2> QED BY <1>4, <1>7, <2>1 DEF Snapshot
<1>9. /\ N0 \in Seq(MessagesOf(d0)) /\ Len(N0) \in Nat /\ Len(N0) >= 3
      /\ datagrams(N0) \in Seq(Seq(MessagesOf(d0))) /\ Len(datagrams(N0)) = Len(N0) - 2
  BY <1>8, SnapshotParts
<1>10. PICK c, M : Snapshot(c, M) /\ Back(c) /\ Follows(M)
  BY <1>1 DEF Following
<1>11. PICK j, h, a, g : Pipe(M, j, h, a, g) /\ ((\E k : Fresh(M, j, h, a, g, k)) \/ Stale(j, h, a, g))
  BY <1>10 DEF Follows
<1>12. /\ M \in Seq(MessagesOf(c)) /\ Len(M) \in Nat /\ Len(M) >= 3
       /\ datagrams(M) \in Seq(Seq(MessagesOf(c))) /\ Len(datagrams(M)) = Len(M) - 2
  BY <1>10, SnapshotParts
<1>13. /\ j \in 0 .. Len(M) - 2 /\ h \in 0 .. j /\ Unsent(h) \in 0 .. Len(M) /\ a \in 0 .. Unsent(h)
       /\ Len(snapshot_net) = Len(g)
  BY <1>10, <1>11, NetParts
<1>14. j = Len(M) - 2 /\ a = Unsent(h) /\ Len(g) = 0
  <2>1. cycle = SubSeq(datagrams(M), j + 1, Len(M) - 2) /\ inbound = SubSeq(M, a + 1, Unsent(h))
    BY <1>11 DEF Pipe
  <2>2. j = Len(M) - 2
    <3>1. PICK D, n : D = datagrams(M) /\ n = Len(M) - 2
      OBVIOUS
    <3>2. D \in Seq(Seq(MessagesOf(c))) /\ n \in 0 .. Len(D) /\ j \in 0 .. n /\ SubSeq(D, j + 1, n) = << >>
      BY <3>1, <2>1, <1>4, <1>12, <1>13
    <3>3. j = n
      <4>1. Len(SubSeq(D, j + 1, n)) = n - j
        BY ONLY <3>2
      <4> QED BY <4>1, <3>2
    <3> QED BY <3>1, <3>3
  <2>3. a = Unsent(h)
    <3>1. PICK u : u = Unsent(h)
      OBVIOUS
    <3>2. u \in 0 .. Len(M) /\ a \in 0 .. u /\ SubSeq(M, a + 1, u) = << >>
      BY <3>1, <2>1, <1>4, <1>13
    <3>3. a = u
      <4>1. Len(SubSeq(M, a + 1, u)) = u - a
        BY ONLY <3>2, <1>12
      <4> QED BY <4>1, <3>2
    <3> QED BY <3>1, <3>3
  <2>4. Len(g) = 0
    <3>1. Len(snapshot_net) = 0
      BY <1>4
    <3> QED BY <3>1, <1>13
  <2> QED BY <2>2, <2>3, <2>4
<1>15. Whole(j, h, g) => a = Len(M) /\ a # 0
  <2>1. ASSUME Whole(j, h, g) PROVE h = j
    BY <2>1, <1>13, <1>14 DEF Whole
  <2>2. h = j => a = Len(M) /\ a # 0
    <3>1. PICK n \in Nat : n = Len(M) /\ n >= 3
      BY <1>12
    <3>2. j = n - 2 /\ j # 0 /\ j + 2 = n
      BY <1>14, <3>1
    <3> QED BY <1>14, <3>1, <3>2 DEF Unsent
  <2> QED BY <2>1, <2>2
<1>16. PICK k : Fresh(M, j, h, a, g, k)
  BY <1>11, <1>15 DEF Stale
<1>17. k \in 0 .. Len(M) - 1 /\ Prefix(snapshot_queued_msgs_, M, k) /\ (Total < 2 => k = 0)
  <2>1. k \in 0 .. Len(M) - 1 /\ Prefix(snapshot_queued_msgs_, M, k)
    BY <1>16 DEF Fresh, Prefix
  <2>2. ASSUME Total < 2 PROVE k = 0
    BY <2>1, <2>2, <1>12, <1>15, <1>16 DEF Fresh
  <2> QED BY <2>1, <2>2
<1>18. PICK g0 : g0 = << >>
  OBVIOUS
<1>19. /\ g0 \in Seq(Nat) /\ Len(g0) = 0 /\ [i \in 1 .. Len(g0) |-> datagrams(N0)[g0[i]]] = << >>
       /\ SubSeq(N0, 0 + 1, Unsent(0)) = << >> /\ Unsent(0) = 0 /\ 0 \in 0 .. Len(N0) - 2
  <2>1. 0 \in 0 .. Len(N0) - 2 /\ Unsent(0) = 0
    BY <1>9 DEF Unsent
  <2> QED BY <2>1, <1>9, <1>18, NothingMissed
<1>20. Pipe(N0, 0, 0, 0, g0)'
  <2>1. cycle' = SubSeq(datagrams(N0), 0 + 1, Len(N0) - 2)
    <3>1. PICK D : D = datagrams(N0)
      OBVIOUS
    <3>2. D \in Seq(Seq(MessagesOf(d0))) /\ Len(N0) - 2 = Len(D)
      BY <1>9, <3>1
    <3>3. SubSeq(D, 0 + 1, Len(D)) = D
      BY <3>2, SeqEqual
    <3> QED BY <1>5, <3>1, <3>2, <3>3
  <2> QED BY <2>1, <1>4, <1>19 DEF Pipe
<1>21. (\E i : Fresh(N0, 0, 0, 0, g0, i)') \/ Stale(0, 0, 0, g0)'
  <2>1. Whole(0, 0, g0)
    BY <1>19 DEF Whole
  <2>2. CASE k = 0
    <3>1. Prefix(snapshot_queued_msgs_, N0, 0)
      BY <1>9, <1>17, <2>2 DEF Prefix
    <3> QED BY <1>4, <2>1, <3>1 DEF Fresh
  <2>3. CASE k # 0
    <3>1. k > 0 /\ Total >= 2
      BY <1>6, <1>17, <2>3
    <3>2. Snapshot(c, M)'
      BY <1>4, <1>10 DEF Snapshot
    <3>3. Total' >= 2
      BY <3>1, <1>4 DEF Total
    <3> QED BY <1>4, <1>17, <2>1, <3>1, <3>2, <3>3 DEF Stale, Snapshot
  <2> QED BY <2>2, <2>3
<1>22. Back(d0)'
  <2>1. c \in 0 .. d0
    BY <1>2, <1>10 DEF Snapshot
  <2>2. position <= c => position <= d0
    BY <2>1, <1>6
  <2>3. Back(d0)
    BY <2>2, <1>10 DEF Back
  <2> QED BY <2>3, <1>4 DEF Back
<1>23. Following'
  <2>1. Follows(N0)'
    BY <1>20, <1>21 DEF Follows
  <2> QED BY <1>8, <1>22, <2>1 DEF Following
<1>24. last_inc_seq_num_' \in last_inc_seq_num_ .. Len(updates)
  <2>1. last_inc_seq_num_' = last_inc_seq_num_ /\ last_inc_seq_num_ \in 0 .. Len(updates)
    BY <1>1, <1>4 DEF FeedTyped
  <2> QED BY <2>1
<1>25. replay_mode_ => cycle' = << >>
  BY <1>4
<1> QED BY <1>4, <1>23, <1>24, <1>25, ExchangeKeeps

(* Two datagrams at most are lost, or repeated on the incremental stream. *)
FewFaults == MaxFaults <= 2

(* Another datagram of the cycle is on the network. *)
LEMMA NetGrows ==
  ASSUME NEW c, NEW M, Snapshot(c, M), NEW j, NEW h, NEW a, NEW g, Pipe(M, j, h, a, g), j # Len(M) - 2,
         cycle' = Tail(cycle), inbound' = inbound
  PROVE  /\ j + 1 \in 0 .. Len(M) - 2 /\ cycle' = SubSeq(datagrams(M), j + 1 + 1, Len(M) - 2)
         /\ snapshot_net' = snapshot_net => Pipe(M, j + 1, h, a, g)'
         /\ snapshot_net' = Append(snapshot_net, Head(cycle)) =>
              /\ Pipe(M, j + 1, h, a, Append(g, j + 1))'
              /\ Whole(j, h, g) => Whole(j + 1, h, Append(g, j + 1))
<1>1. PICK D, n : D = datagrams(M) /\ n = Len(M) - 2
  OBVIOUS
<1>2. n \in Nat /\ n >= 1 /\ D \in Seq(Seq(MessagesOf(c))) /\ Len(D) = n
  BY <1>1, SnapshotParts
<1>3. /\ j \in 0 .. n /\ j # n /\ h \in 0 .. j /\ a \in 0 .. Unsent(h)
      /\ cycle = SubSeq(D, j + 1, n) /\ inbound = SubSeq(M, a + 1, Unsent(h)) /\ g \in Seq(Nat)
      /\ \A i \in 1 .. Len(g) : g[i] \in h + 1 .. j
      /\ \A i, l \in 1 .. Len(g) : i < l => g[i] < g[l]
      /\ snapshot_net = [i \in 1 .. Len(g) |-> D[g[i]]]
  BY <1>1 DEF Pipe
<1>4. n \in 0 .. Len(D) /\ Head(cycle) = D[j + 1] /\ Tail(cycle) = SubSeq(D, j + 1 + 1, n)
  <2>1. n \in 0 .. Len(D)
    BY <1>2
  <2>2. cycle = Part(D, j, n)
    BY <1>3 DEF Part
  <2>3. Head(cycle) = D[j + 1] /\ Tail(cycle) = Part(D, j + 1, n)
    <3>1. D \in Seq(Seq(MessagesOf(c))) /\ j \in 0 .. n /\ j # n
      BY <1>2, <1>3
    <3>2. First(Part(D, j, n)) = At(D, j + 1)
      BY ONLY <3>1, <2>1, PartOf
    <3>3. Rest(Part(D, j, n)) = Part(D, j + 1, n)
      BY ONLY <3>1, <2>1, PartOf
    <3> QED BY <2>2, <3>2, <3>3 DEF At, First, Rest
  <2> QED BY <2>1, <2>3 DEF Part
<1>5. j + 1 \in 0 .. n /\ j \in Nat /\ h \in Nat /\ h \in 0 .. j + 1
  BY <1>2, <1>3
<1>6. \A i \in 1 .. Len(g) : g[i] \in h + 1 .. j + 1
  BY <1>3, <1>5
<1>7. snapshot_net' = snapshot_net => Pipe(M, j + 1, h, a, g)'
  BY <1>1, <1>3, <1>4, <1>5, <1>6 DEF Pipe
<1>8. ASSUME snapshot_net' = Append(snapshot_net, Head(cycle))
      PROVE  /\ Pipe(M, j + 1, h, a, Append(g, j + 1))'
             /\ Whole(j, h, g) => Whole(j + 1, h, Append(g, j + 1))
  <2>1. PICK e, G : e = Append(g, j + 1) /\ G = Len(g)
    OBVIOUS
  <2>2. /\ e \in Seq(Nat) /\ Len(e) = G + 1 /\ G \in Nat
        /\ \A i \in 1 .. G : e[i] = g[i] /\ g[i] \in Nat
        /\ e[G + 1] = j + 1
    BY <2>1, <1>3, <1>5
  <2>3. \A i \in 1 .. Len(e) : i \in 1 .. G \/ i = G + 1
    BY <2>2
  <2>4. \A i \in 1 .. Len(e) : e[i] \in h + 1 .. j + 1
    <3> SUFFICES ASSUME NEW i \in 1 .. Len(e) PROVE e[i] \in h + 1 .. j + 1
      OBVIOUS
    <3>1. CASE i \in 1 .. G
      <4>1. g[i] \in h + 1 .. j + 1 /\ e[i] = g[i]
        BY <3>1, <2>1, <2>2, <1>6
      <4> QED BY <4>1
    <3>2. CASE i = G + 1
      BY <3>2, <2>2, <1>3, <1>5
    <3> QED BY <3>1, <3>2, <2>3
  <2>5. \A i, l \in 1 .. Len(e) : i < l => e[i] < e[l]
    <3> SUFFICES ASSUME NEW i \in 1 .. Len(e), NEW l \in 1 .. Len(e), i < l PROVE e[i] < e[l]
      OBVIOUS
    <3>1. i \in 1 .. G /\ g[i] \in h + 1 .. j
      BY <2>1, <2>2, <2>3, <1>3
    <3>2. CASE l \in 1 .. G
      BY <3>1, <3>2, <2>1, <2>2, <1>3
    <3>3. CASE l = G + 1
      BY <3>1, <3>3, <2>2, <1>5
    <3> QED BY <3>2, <3>3, <2>3
  <2>6. snapshot_net' = [i \in 1 .. Len(e) |-> D[e[i]]]
    <3>1. snapshot_net \in Seq(Seq(MessagesOf(c))) /\ Len(snapshot_net) = G
          /\ \A i \in 1 .. G : snapshot_net[i] = D[g[i]]
      <4>1. \A i \in 1 .. G : g[i] \in 1 .. n
        <5>1. \A i \in 1 .. G : g[i] \in h + 1 .. j
          BY <2>1, <1>3
        <5>2. j <= n /\ h + 1 >= 1 /\ j \in Nat /\ h \in Nat /\ n \in Nat
          BY <1>2, <1>3, <1>5
        <5>3. \A y \in h + 1 .. j : y \in 1 .. n
          BY ONLY <5>2
        <5> QED BY <5>1, <5>3
      <4>2. \A i \in 1 .. G : D[g[i]] \in Seq(MessagesOf(c))
        BY <4>1, <1>2
      <4> QED BY <4>2, <2>1, <2>2, <1>3
    <3>2. D[j + 1] \in Seq(MessagesOf(c))
      BY <1>2, <1>3
    <3>3. PICK s : s = snapshot_net' /\ s = Append(snapshot_net, D[j + 1])
      BY <1>4, <1>8
    <3>4. /\ s \in Seq(Seq(MessagesOf(c))) /\ Len(s) = G + 1 /\ \A i \in 1 .. G : s[i] = D[g[i]]
          /\ s[G + 1] = D[j + 1]
      BY <3>1, <3>2, <3>3, <2>2
    <3>5. \A i \in 1 .. Len(e) : s[i] = D[e[i]]
      BY <3>4, <2>2, <2>3
    <3>6. s = [i \in 1 .. Len(e) |-> D[e[i]]]
      BY <3>4, <3>5, <2>2
    <3> QED BY <3>3, <3>6
  <2>7. Pipe(M, j + 1, h, a, e)'
    BY <2>2, <2>4, <2>5, <2>6, <1>1, <1>3, <1>4, <1>5 DEF Pipe
  <2>8. ASSUME Whole(j, h, g) PROVE Whole(j + 1, h, e)
    <3>1. G = j - h /\ \A i \in 1 .. G : g[i] = h + i
      BY <2>1, <2>8 DEF Whole
    <3>2. G + 1 = (j + 1) - h /\ h + (G + 1) = j + 1
      BY <3>1, <1>5
    <3> QED BY <3>1, <3>2, <2>2, <2>3 DEF Whole
  <2> QED BY <2>1, <2>7, <2>8
<1> QED BY <1>1, <1>4, <1>5, <1>7, <1>8

(* The synthesizer sends a datagram of its snapshot. *)
LEMMA SendSnapshotKeeps == FewFaults /\ FeedInv /\ SendSnapshot => FeedInv'
<1> SUFFICES ASSUME FewFaults, FeedInv, SendSnapshot PROVE FeedInv'
  OBVIOUS
<1>1. FeedTyped /\ OnlySent /\ BookIsOne /\ Following
  BY DEF FeedInv
<1>2. /\ cycle # << >> /\ cycle' = Tail(cycle)
      /\ \/ /\ snapshot_net' = IF in_recovery_ THEN Append(snapshot_net, Head(cycle)) ELSE snapshot_net
            /\ faults' = faults
         \/ /\ in_recovery_ /\ MayFail /\ faults' = [faults EXCEPT !.lost = @ + 1]
            /\ snapshot_net' = snapshot_net
      /\ UNCHANGED <<replay_mode_, updates, last_inc_seq_num_, incremental_net, next_exp_inc_seq_num_,
                     in_recovery_, snapshot_queued_msgs_, incremental_queued_msgs_, forwarded, position, inbound>>
  BY DEF SendSnapshot, consumer, queued
<1>3. PICK x \in Nat, y \in Nat : faults = [lost |-> x, repeated |-> y]
  BY <1>1 DEF FeedTyped
<1>4. Total = x + y /\ MaxFaults \in Nat /\ MaxFaults <= 2 /\ x + y <= MaxFaults /\ last_inc_seq_num_ \in 0 .. Len(updates)
  BY <1>1, <1>3, BoundsAssumption DEF Total, FeedTyped, FewFaults
<1>5. ASSUME MayFail, faults' = [faults EXCEPT !.lost = @ + 1]
      PROVE  /\ faults' \in [lost : Nat, repeated : Nat] /\ faults'.repeated = faults.repeated
             /\ Total < MaxFaults /\ Total' = Total + 1 /\ Total' \in Total .. MaxFaults
  <2>1. faults' = [lost |-> x + 1, repeated |-> y]
    BY <1>3, <1>5
  <2>2. x + y < MaxFaults
    BY <1>3, <1>5 DEF MayFail
  <2>3. Total' = x + 1 + y
    BY <2>1 DEF Total
  <2> QED BY <2>1, <2>2, <2>3, <1>3, <1>4
<1>6. PICK c, M : Snapshot(c, M) /\ Back(c) /\ Follows(M)
  BY <1>1 DEF Following
<1>7. PICK j, h, a, g : Pipe(M, j, h, a, g) /\ ((\E k : Fresh(M, j, h, a, g, k)) \/ Stale(j, h, a, g))
  BY <1>6 DEF Follows
<1>8. j # Len(M) - 2
  <2>1. /\ datagrams(M) \in Seq(Seq(MessagesOf(c))) /\ Len(datagrams(M)) = Len(M) - 2
        /\ Len(M) \in Nat /\ Len(M) >= 3
    BY <1>6, SnapshotParts
  <2>2. cycle = SubSeq(datagrams(M), j + 1, Len(M) - 2)
    BY <1>7 DEF Pipe
  <2>3. j = Len(M) - 2 => SubSeq(datagrams(M), j + 1, Len(M) - 2) = << >>
    BY <2>1, PartIs
  <2> QED BY <2>2, <2>3, <1>2
<1>9. /\ j + 1 \in 0 .. Len(M) - 2 /\ cycle' = SubSeq(datagrams(M), j + 1 + 1, Len(M) - 2)
      /\ snapshot_net' = snapshot_net => Pipe(M, j + 1, h, a, g)'
      /\ snapshot_net' = Append(snapshot_net, Head(cycle)) =>
           /\ Pipe(M, j + 1, h, a, Append(g, j + 1))'
           /\ Whole(j, h, g) => Whole(j + 1, h, Append(g, j + 1))
  BY <1>2, <1>6, <1>7, <1>8, NetGrows
<1>10. last_inc_seq_num_' \in last_inc_seq_num_ .. Len(updates)
  BY <1>2, <1>4
<1>11. Snapshot(c, M)'
  BY <1>1, <1>2, <1>6, <1>10, SnapshotStays
<1>12. faults'.repeated = faults.repeated /\ Back(c)'
  <2>1. faults'.repeated = faults.repeated
    BY <1>2, <1>5
  <2> QED BY <2>1, <1>2, <1>6 DEF Back
<1>13. Follows(M)'
  <2>1. CASE ~in_recovery_
    <3>1. snapshot_net' = << >> /\ inbound' = << >> /\ snapshot_queued_msgs_' = NoMessages
      BY <2>1, <1>1, <1>2 DEF FeedTyped
    <3> QED BY <3>1, <1>9, <1>11, NotListening
  <2>2. CASE in_recovery_ /\ snapshot_net' = Append(snapshot_net, Head(cycle)) /\ faults' = faults
    <3>1. Total' = Total
      BY <2>2 DEF Total
    <3>2. ASSUME NEW k, Fresh(M, j, h, a, g, k) PROVE Fresh(M, j + 1, h, a, Append(g, j + 1), k)'
      BY <3>1, <3>2, <2>2, <1>2, <1>9 DEF Fresh
    <3>3. ASSUME Stale(j, h, a, g) PROVE Stale(j + 1, h, a, Append(g, j + 1))'
      BY <3>1, <3>3, <2>2, <1>2, <1>9 DEF Stale
    <3> QED BY <3>2, <3>3, <2>2, <1>7, <1>9 DEF Follows
  <2>3. CASE in_recovery_ /\ MayFail /\ faults' = [faults EXCEPT !.lost = @ + 1] /\ snapshot_net' = snapshot_net
    <3>1. Total # 0
      BY <2>3, <1>1 DEF OnlySent
    <3>2. Total' >= 2 /\ Total < 2 /\ ~(Total' < 2) /\ ~(Total >= 2)
      BY <3>1, <2>3, <1>3, <1>4, <1>5
    <3>3. PICK k : Fresh(M, j, h, a, g, k)
      BY <3>2, <1>7 DEF Stale
    <3>4. Fresh(M, j + 1, h, a, g, k)'
      BY <3>2, <3>3, <1>2 DEF Fresh
    <3> QED BY <3>4, <2>3, <1>9 DEF Follows
  <2> QED BY <2>1, <2>2, <2>3, <1>2
<1>14. Following'
  BY <1>11, <1>12, <1>13 DEF Following
<1>15. in_recovery_ \/ (snapshot_net' = << >> /\ inbound' = << >>)
  BY <1>1, <1>2 DEF FeedTyped
<1>16. ~replay_mode_
  BY <1>1, <1>2 DEF FeedTyped
<1>17. \/ faults' = faults
       \/ /\ ~replay_mode_ /\ in_recovery_ /\ faults' \in [lost : Nat, repeated : Nat]
          /\ faults'.repeated = faults.repeated /\ Total' \in Total .. MaxFaults
  BY <1>2, <1>5, <1>16
<1> QED BY <1>2, <1>10, <1>14, <1>15, <1>16, <1>17, ExchangeKeeps

-----------------------------------------------------------------------------
(* The steps of the client *)

(* The next update makes the client's book that of the next moment. *)
LEMMA ForwardNext ==
  ASSUME FeedTyped, BookIsOne, NEW n \in 1 .. Len(updates), n = position + 1
  PROVE  replayed(forwarded, <<updates[n]>>) = BookOf(updates, n)
<1>1. updates \in Seq(Update) /\ position \in 0 .. Len(updates)
  BY DEF FeedTyped
<1>2. n \in 0 .. Len(updates) /\ n # 0 /\ n - 1 = position /\ updates[n] \in Update
  BY <1>1
<1>3. forwarded = BookOf(updates, position) /\ BookOf(updates, position) \in Books
  BY <1>1, BookOfNext DEF BookIsOne
<1> QED BY <1>1, <1>2, <1>3, BookOfNext, ReplayedOne

(* What one message of the incremental stream does: it is forwarded, ...   *)
Passed(m) ==
  /\ ~in_recovery_ /\ m.seq_num_ = next_exp_inc_seq_num_
  /\ next_exp_inc_seq_num_' = next_exp_inc_seq_num_ + 1
  /\ forwarded' = replayed(forwarded, <<m.update>>) /\ position' = m.seq_num_
  /\ UNCHANGED <<in_recovery_, snapshot_queued_msgs_, incremental_queued_msgs_>>

(* ... or queued. *)
Queued(m) ==
  /\ ~in_recovery_ => m.seq_num_ # next_exp_inc_seq_num_
  /\ in_recovery_' = TRUE
  /\ incremental_queued_msgs_' = queuedWith(incremental_queued_msgs_, m)
  /\ UNCHANGED <<snapshot_queued_msgs_, next_exp_inc_seq_num_, forwarded, position>>

(* The messages of the incremental stream, the first and the others. *)
LEMMA IncrementalParts ==
  ASSUME FeedTyped, OnlySent, incremental_net # << >>, NEW m, m = Head(incremental_net),
         NEW e, e = Tail(incremental_net)
  PROVE  /\ e \in Seq([seq_num_ : Nat, update : Update]) /\ Len(incremental_net) = Len(e) + 1 /\ Len(e) \in Nat
         /\ m = incremental_net[1] /\ 1 \in 1 .. Len(incremental_net)
         /\ \A i \in 1 .. Len(e) : e[i] = incremental_net[i + 1] /\ i + 1 \in 1 .. Len(incremental_net)
         /\ m.seq_num_ \in 1 .. Len(updates) /\ m.update = updates[m.seq_num_]
         /\ m \in [seq_num_ : Nat, update : Update]
<1>1. incremental_net \in Seq([seq_num_ : Nat, update : Update])
  BY DEF FeedTyped
<1>2. /\ e \in Seq([seq_num_ : Nat, update : Update]) /\ Len(incremental_net) = Len(e) + 1 /\ Len(e) \in Nat
      /\ m = incremental_net[1] /\ 1 \in 1 .. Len(incremental_net)
      /\ \A i \in 1 .. Len(e) : e[i] = incremental_net[i + 1] /\ i + 1 \in 1 .. Len(incremental_net)
  BY <1>1
<1>3. m.seq_num_ \in 1 .. Len(updates) /\ m.update = updates[m.seq_num_]
  BY <1>2 DEF OnlySent
<1>4. m \in [seq_num_ : Nat, update : Update]
  <2>1. incremental_net[1] \in [seq_num_ : Nat, update : Update]
    <3>1. PICK T : T = [seq_num_ : Nat, update : Update]
      OBVIOUS
    <3>2. incremental_net \in Seq(T) /\ 1 \in 1 .. Len(incremental_net)
      BY <3>1, <1>1, <1>2
    <3>3. incremental_net[1] \in T
      BY ONLY <3>2
    <3> QED BY <3>1, <3>3
  <2> QED BY <2>1, <1>2
<1> QED BY <1>2, <1>3, <1>4

(* Either keeps the invariant. *)
LEMMA IncrementalKeeps ==
  ASSUME FeedInv, incremental_net # << >>, Passed(Head(incremental_net)) \/ Queued(Head(incremental_net)),
         incremental_net' = Tail(incremental_net),
         UNCHANGED <<replay_mode_, updates, last_inc_seq_num_, cycle, snapshot_net, faults, inbound>>
  PROVE  FeedInv' /\ position' >= position
<1>1. FeedTyped /\ OnlySent /\ BookIsOne /\ Following
  BY DEF FeedInv
<1>2. PICK m, e : m = Head(incremental_net) /\ e = Tail(incremental_net)
  OBVIOUS
<1>3. PICK N, p, x, G : N = Len(updates) /\ p = position /\ x = next_exp_inc_seq_num_ /\ G = Len(e)
  OBVIOUS
<1>4. /\ e \in Seq([seq_num_ : Nat, update : Update]) /\ Len(incremental_net) = G + 1 /\ G \in Nat
      /\ m = incremental_net[1] /\ 1 \in 1 .. Len(incremental_net)
      /\ \A i \in 1 .. G : e[i] = incremental_net[i + 1] /\ i + 1 \in 1 .. Len(incremental_net)
      /\ m.seq_num_ \in 1 .. N /\ m.update = updates[m.seq_num_]
      /\ incremental_net' = e
  BY <1>1, <1>2, <1>3, IncrementalParts
<1>5. N \in Nat /\ p \in 0 .. N /\ x \in 1 .. N + 1 /\ updates \in Seq(Update)
  BY <1>1, <1>3 DEF FeedTyped
<1>6. Passed(m) \/ Queued(m)
  BY <1>2
<1>7. \/ Passed(m) /\ in_recovery_' = in_recovery_ /\ ~in_recovery_ /\ x = p + 1 /\ m.seq_num_ = x /\ position' = x
         /\ next_exp_inc_seq_num_' = x + 1
      \/ Queued(m) /\ in_recovery_' = TRUE /\ position' = p /\ next_exp_inc_seq_num_' = x
  BY <1>1, <1>3, <1>5, <1>6 DEF Passed, Queued, BookIsOne
<1>8. Total' = Total
  BY DEF Total
<1>9. FeedTyped'
  <2>1. position' \in 0 .. N /\ next_exp_inc_seq_num_' \in 1 .. N + 1 /\ in_recovery_' \in BOOLEAN
    <3>1. CASE in_recovery_' = in_recovery_ /\ m.seq_num_ = x /\ position' = x /\ next_exp_inc_seq_num_' = x + 1
      <4>1. x \in 1 .. N
        BY <3>1, <1>4
      <4>2. x \in 0 .. N /\ x + 1 \in 1 .. N + 1
        BY <4>1, <1>5
      <4>3. in_recovery_' \in BOOLEAN
        BY <3>1, <1>1 DEF FeedTyped
      <4> QED BY <3>1, <4>2, <4>3
    <3>2. CASE in_recovery_' = TRUE /\ position' = p /\ next_exp_inc_seq_num_' = x
      BY <3>2, <1>5
    <3> QED BY <3>1, <3>2, <1>7
  <2>2. ASSUME ~in_recovery_'
        PROVE  /\ snapshot_queued_msgs_' = NoMessages /\ incremental_queued_msgs_' = NoMessages
               /\ snapshot_net' = << >> /\ inbound' = << >>
    BY <2>2, <1>1, <1>7 DEF Passed, FeedTyped
  <2> QED BY <2>1, <2>2, <1>1, <1>3, <1>4, <1>8 DEF FeedTyped
<1>10. OnlySent'
  <2>1. \A i \in 1 .. Len(e) : e[i].seq_num_ \in 1 .. Len(updates) /\ e[i].update = updates[e[i].seq_num_]
    BY <1>1, <1>3, <1>4 DEF OnlySent
  <2>2. Incrementals(incremental_queued_msgs_', updates)
    <3>1. Incrementals(incremental_queued_msgs_, updates)
      BY <1>1 DEF OnlySent
    <3>2. CASE Passed(m)
      BY <3>1, <3>2 DEF Passed
    <3>3. CASE Queued(m)
      <4>1. incremental_queued_msgs_' = queuedWith(incremental_queued_msgs_, m)
        BY <3>3 DEF Queued
      <4> QED BY <3>1, <4>1, <1>3, <1>4 DEF queuedWith, Incrementals
    <3> QED BY <3>2, <3>3, <1>6
  <2>3. ASSUME Total = 0
        PROVE  /\ ~in_recovery_' /\ Len(e) = Len(updates) + 1 - next_exp_inc_seq_num_'
               /\ \A i \in 1 .. Len(e) : e[i].seq_num_ = next_exp_inc_seq_num_' + i - 1
    <3>1. /\ ~in_recovery_ /\ G + 1 = N + 1 - x
          /\ \A i \in 1 .. G + 1 : incremental_net[i].seq_num_ = x + i - 1
      BY <2>3, <1>1, <1>3, <1>4 DEF OnlySent
    <3>2. m.seq_num_ = x
      BY <3>1, <1>4, <1>5
    <3>3. Passed(m) /\ next_exp_inc_seq_num_' = x + 1 /\ ~in_recovery_'
      BY <3>1, <3>2, <1>3, <1>7 DEF Queued
    <3>4. ASSUME NEW i \in 1 .. G PROVE e[i].seq_num_ = x + 1 + i - 1
      <4>1. incremental_net[i + 1].seq_num_ = x + (i + 1) - 1 /\ e[i] = incremental_net[i + 1]
        BY <3>1, <1>4
      <4> QED BY <4>1, <1>5
    <3>5. G = N + 1 - (x + 1)
      BY <3>1, <1>4, <1>5
    <3> QED BY <3>3, <3>4, <3>5, <1>3
  <2> QED BY <2>1, <2>2, <2>3, <1>4, <1>8 DEF OnlySent
<1>11. BookIsOne'
  <2>1. CASE Passed(m) /\ x = p + 1 /\ m.seq_num_ = x /\ position' = x /\ next_exp_inc_seq_num_' = x + 1
    <3>1. x \in 1 .. Len(updates) /\ x = position + 1
      BY <2>1, <1>3, <1>4
    <3>2. replayed(forwarded, <<updates[x]>>) = BookOf(updates, x)
      BY <3>1, <1>1, ForwardNext
    <3>3. forwarded' = BookOf(updates, x)
      BY <2>1, <3>2, <1>4 DEF Passed
    <3> QED BY <2>1, <3>3, <1>5 DEF BookIsOne
  <2>2. CASE Queued(m) /\ in_recovery_' = TRUE
    BY <2>2, <1>1 DEF Queued, BookIsOne
  <2> QED BY <2>1, <2>2, <1>7
<1>12. Following'
  <2>1. PICK c, M : Snapshot(c, M) /\ Back(c) /\ Follows(M)
    BY <1>1 DEF Following
  <2>2. last_inc_seq_num_' \in last_inc_seq_num_ .. Len(updates)
    BY <1>1 DEF FeedTyped
  <2>3. Snapshot(c, M)'
    BY <2>1, <2>2, <1>1, SnapshotStays
  <2>4. Follows(M)'
    <3>1. Total' \in Nat /\ Total' >= Total
      BY <1>1, <1>8 DEF Total, FeedTyped
    <3>2. Total = 0 => ~in_recovery_
      BY <1>1 DEF OnlySent
    <3>3. snapshot_queued_msgs_' = snapshot_queued_msgs_
      BY <1>6 DEF Passed, Queued
    <3> QED BY <2>1, <2>2, <3>1, <3>2, <3>3, <1>1, FollowsStays
  <2>5. Back(c)'
    <3> SUFFICES ASSUME faults'.repeated = 0 PROVE Back(c)'
      BY DEF Back
    <3>1. /\ \A i, l \in 1 .. G + 1 :
               i < l => incremental_net[i].seq_num_ < incremental_net[l].seq_num_
          /\ \A n \in DOMAIN incremental_queued_msgs_ : \A i \in 1 .. G + 1 :
               n < incremental_net[i].seq_num_
          /\ \/ p <= c
             \/ ~in_recovery_ /\ \A i \in 1 .. G + 1 : incremental_net[i].seq_num_ > p
             \/ in_recovery_ /\ \E n \in DOMAIN incremental_queued_msgs_ : n > p + 1
      BY <2>1, <1>3, <1>4 DEF Back
    <3>2. \A i, l \in 1 .. G : i < l => e[i].seq_num_ < e[l].seq_num_
      <4> SUFFICES ASSUME NEW i \in 1 .. G, NEW l \in 1 .. G, i < l PROVE e[i].seq_num_ < e[l].seq_num_
        OBVIOUS
      <4>1. i + 1 \in 1 .. G + 1 /\ l + 1 \in 1 .. G + 1 /\ i + 1 < l + 1
        BY <1>4
      <4> QED BY <4>1, <3>1, <1>4
    <3>3. \A i \in 1 .. G : e[i].seq_num_ > m.seq_num_ /\ e[i].seq_num_ \in 1 .. N
      <4> SUFFICES ASSUME NEW i \in 1 .. G PROVE e[i].seq_num_ > m.seq_num_ /\ e[i].seq_num_ \in 1 .. N
        OBVIOUS
      <4>1. 1 \in 1 .. G + 1 /\ i + 1 \in 1 .. G + 1 /\ 1 < i + 1
        BY <1>4
      <4>2. m.seq_num_ < e[i].seq_num_
        BY <4>1, <3>1, <1>4
      <4>3. e[i].seq_num_ \in 1 .. N
        BY <1>1, <1>3, <1>4 DEF OnlySent
      <4> QED BY <4>2, <4>3, <1>4
    <3>4. CASE Passed(m) /\ ~in_recovery_' /\ position' = m.seq_num_
      <4>1. DOMAIN incremental_queued_msgs_' = {}
        BY <3>4, <1>1 DEF Passed, FeedTyped, NoMessages
      <4> QED BY <3>2, <3>3, <3>4, <4>1, <1>3, <1>4 DEF Back
    <3>5. CASE Queued(m) /\ in_recovery_' = TRUE /\ position' = p
      <4>1. DOMAIN incremental_queued_msgs_' = DOMAIN incremental_queued_msgs_ \cup {m.seq_num_}
        BY <3>5 DEF Queued, queuedWith
      <4>2. \A n \in DOMAIN incremental_queued_msgs_' : \A i \in 1 .. G : n < e[i].seq_num_
        <5> SUFFICES ASSUME NEW n \in DOMAIN incremental_queued_msgs_', NEW i \in 1 .. G PROVE n < e[i].seq_num_
          OBVIOUS
        <5>1. CASE n = m.seq_num_
          BY <5>1, <3>3, <1>4
        <5>2. CASE n \in DOMAIN incremental_queued_msgs_
          BY <5>2, <3>1, <1>4
        <5> QED BY <5>1, <5>2, <4>1
      <4>3. p <= c \/ \E n \in DOMAIN incremental_queued_msgs_' : n > p + 1
        <5>1. ASSUME ~in_recovery_, \A i \in 1 .. G + 1 : incremental_net[i].seq_num_ > p
              PROVE  \E n \in DOMAIN incremental_queued_msgs_' : n > p + 1
          <6>1. m.seq_num_ > p
            BY <5>1, <1>4
          <6>2. m.seq_num_ # x /\ x = p + 1
            BY <5>1, <3>5, <1>1, <1>3, <1>5 DEF Queued, BookIsOne
          <6>3. m.seq_num_ > p + 1
            BY <6>1, <6>2, <1>4, <1>5
          <6> QED BY <6>3, <4>1
        <5>2. (\E n \in DOMAIN incremental_queued_msgs_ : n > p + 1)
                => \E n \in DOMAIN incremental_queued_msgs_' : n > p + 1
          BY <4>1
        <5> QED BY <5>1, <5>2, <3>1
      <4> QED BY <3>2, <3>5, <4>2, <4>3, <1>3, <1>4 DEF Back
    <3> QED BY <3>4, <3>5, <1>7
  <2> QED BY <2>3, <2>4, <2>5 DEF Following
<1>13. position' >= position
  BY <1>3, <1>5, <1>7
<1> QED BY <1>9, <1>10, <1>11, <1>12, <1>13 DEF FeedInv

(* What is queued of the snapshot stream is the beginning of a snapshot. *)
LEMMA QueuedPrefix ==
  ASSUME FeedInv
  PROVE  \E c, M, k : c \in Nat /\ SnapshotOf(M, BookOf(updates, c), c) /\ Prefix(snapshot_queued_msgs_, M, k)
<1>1. FeedTyped /\ Following
  BY DEF FeedInv
<1>2. PICK c, M : Snapshot(c, M) /\ Follows(M)
  BY <1>1 DEF Following
<1>3. PICK j, h, a, g : (\E k : Fresh(M, j, h, a, g, k)) \/ Stale(j, h, a, g)
  BY <1>2 DEF Follows
<1>4. last_inc_seq_num_ \in Nat
  BY <1>1 DEF FeedTyped
<1>5. CASE \E k : Fresh(M, j, h, a, g, k)
  BY <1>2, <1>4, <1>5 DEF Fresh, Snapshot
<1>6. CASE Stale(j, h, a, g)
  BY <1>4, <1>6 DEF Stale
<1> QED BY <1>3, <1>5, <1>6

(* A datagram of the incremental stream. *)
LEMMA RecvIncrementalKeeps ==
  ASSUME FeedInv, RecvIncremental
  PROVE  FeedInv' /\ position' >= position
<1>1. FeedTyped /\ OnlySent /\ BookIsOne /\ Following
  BY DEF FeedInv
<1>2. PICK m : m = Head(incremental_net)
  OBVIOUS
<1>3. /\ incremental_net # << >> /\ recvMessage(FALSE, m) /\ incremental_net' = Tail(incremental_net)
      /\ snapshot_net' = IF in_recovery_ /\ ~in_recovery_' THEN << >> ELSE snapshot_net
      /\ UNCHANGED <<replay_mode_, updates, last_inc_seq_num_, cycle, faults, inbound>>
  BY <1>2 DEF RecvIncremental, LeaveOr, exchange
<1>4. PICK c, M, k : c \in Nat /\ SnapshotOf(M, BookOf(updates, c), c) /\ Prefix(snapshot_queued_msgs_, M, k)
  BY QueuedPrefix
<1>5. Passed(m) \/ Queued(m)
  <2>1. CASE in_recovery_
    <3>1. checkSnapshotSync(snapshot_queued_msgs_, queuedWith(incremental_queued_msgs_, m))
      BY <2>1, <1>3 DEF recvMessage, queueMessage
    <3>2. Waits(snapshot_queued_msgs_, queuedWith(incremental_queued_msgs_, m))
      BY <3>1, <1>4, PrefixWaits
    <3> QED BY <2>1, <3>2 DEF Waits, waitInRecovery, Queued
  <2>2. CASE ~in_recovery_ /\ m.seq_num_ # next_exp_inc_seq_num_
    <3>1. snapshot_queued_msgs_ = NoMessages /\ incremental_queued_msgs_ = NoMessages
      BY <2>2, <1>1 DEF FeedTyped
    <3>2. checkSnapshotSync(snapshot_queued_msgs_, queuedWith(incremental_queued_msgs_, m))
      BY <2>2, <3>1, <1>3 DEF recvMessage, queueMessage
    <3>3. Waits(snapshot_queued_msgs_, queuedWith(incremental_queued_msgs_, m))
      BY <3>2, <1>4, PrefixWaits
    <3> QED BY <2>2, <3>3 DEF Waits, waitInRecovery, Queued
  <2>3. CASE ~in_recovery_ /\ m.seq_num_ = next_exp_inc_seq_num_
    BY <2>3, <1>3 DEF recvMessage, forward, queued, Passed
  <2> QED BY <2>1, <2>2, <2>3
<1>6. snapshot_net' = snapshot_net
  BY <1>3, <1>5 DEF Passed, Queued
<1> QED BY <1>2, <1>3, <1>5, <1>6, IncrementalKeeps

(* A message of a replay. *)
LEMMA ReplayMessageKeeps ==
  ASSUME FeedInv, ReplayMessage
  PROVE  FeedInv' /\ position' >= position
<1>1. FeedTyped /\ OnlySent /\ BookIsOne /\ Following
  BY DEF FeedInv
<1>2. PICK m : m = Head(incremental_net)
  OBVIOUS
<1>3. /\ replay_mode_ /\ incremental_net # << >> /\ incremental_net' = Tail(incremental_net)
      /\ next_exp_inc_seq_num_' = m.seq_num_ + 1
      /\ forwarded' = replayed(forwarded, <<m.update>>) /\ position' = m.seq_num_
      /\ UNCHANGED <<replay_mode_, updates, last_inc_seq_num_, cycle, snapshot_net, faults, inbound,
                     in_recovery_, snapshot_queued_msgs_, incremental_queued_msgs_>>
  BY <1>2 DEF ReplayMessage, forward, exchange, queued
<1>4. Total = 0
  BY <1>1, <1>3 DEF FeedTyped
<1>5. ~in_recovery_ /\ m.seq_num_ = next_exp_inc_seq_num_
  <2>1. m = incremental_net[1] /\ 1 \in 1 .. Len(incremental_net)
    BY <1>1, <1>2, <1>3, IncrementalParts
  <2>2. ~in_recovery_ /\ incremental_net[1].seq_num_ = next_exp_inc_seq_num_ + 1 - 1
    BY <2>1, <1>1, <1>4 DEF OnlySent
  <2>3. next_exp_inc_seq_num_ \in Nat
    BY <1>1 DEF FeedTyped
  <2> QED BY <2>1, <2>2, <2>3
<1>6. Passed(m)
  BY <1>3, <1>5 DEF Passed
<1> QED BY <1>2, <1>3, <1>6, IncrementalKeeps

(* The first message of a datagram counts after those of the ones before. *)
LEMMA UnsentGrows ==
  ASSUME NEW i \in Nat, NEW l \in Nat, i < l
  PROVE  /\ Unsent(i) \in Nat /\ Unsent(l) \in Nat /\ Unsent(i) <= Unsent(l - 1) /\ Unsent(l - 1) < Unsent(l)
         /\ Unsent(l - 1) \in Nat /\ (l = i + 1 => Unsent(l - 1) = Unsent(i)) /\ (Unsent(i) = 0 => i = 0)
BY DEF Unsent

(* The client reads a datagram of the snapshot stream. *)
LEMMA RecvSnapshotKeeps == FeedInv /\ RecvSnapshot => FeedInv'
<1> SUFFICES ASSUME FeedInv, RecvSnapshot PROVE FeedInv'
  OBVIOUS
<1>1. FeedTyped /\ OnlySent /\ BookIsOne /\ Following
  BY DEF FeedInv
<1>2. /\ inbound = << >> /\ snapshot_net # << >> /\ inbound' = Head(snapshot_net) /\ snapshot_net' = Tail(snapshot_net)
      /\ UNCHANGED <<replay_mode_, updates, last_inc_seq_num_, cycle, incremental_net, faults, next_exp_inc_seq_num_,
                     in_recovery_, snapshot_queued_msgs_, incremental_queued_msgs_, forwarded, position>>
  BY DEF RecvSnapshot, exchange, consumer, queued
<1>3. in_recovery_
  BY <1>1, <1>2 DEF FeedTyped
<1>4. PICK c, M : Snapshot(c, M) /\ Back(c) /\ Follows(M)
  BY <1>1 DEF Following
<1>5. PICK j, h, a, g : Pipe(M, j, h, a, g) /\ ((\E k : Fresh(M, j, h, a, g, k)) \/ Stale(j, h, a, g))
  BY <1>4 DEF Follows
<1>6. PICK D, G, u : D = datagrams(M) /\ G = Len(g) /\ u = Unsent(h)
  OBVIOUS
<1>7. /\ M \in Seq(MessagesOf(c)) /\ Len(M) \in Nat /\ Len(M) >= 3
      /\ \A i \in 1 .. Len(M) - 2 : D[i] = SubSeq(M, Unsent(i - 1) + 1, Unsent(i))
  BY <1>4, <1>6, SnapshotParts
<1>8. /\ j \in 0 .. Len(M) - 2 /\ h \in 0 .. j /\ u \in 0 .. Len(M) /\ a \in 0 .. u
      /\ snapshot_net \in Seq(Seq(MessagesOf(c))) /\ Len(snapshot_net) = G
      /\ \A i \in 1 .. G : g[i] \in 1 .. Len(M) - 2 /\ snapshot_net[i] = D[g[i]]
  BY <1>4, <1>5, <1>6, NetParts
<1>9. /\ cycle = SubSeq(D, j + 1, Len(M) - 2) /\ inbound = SubSeq(M, a + 1, u) /\ g \in Seq(Nat)
      /\ \A i \in 1 .. G : g[i] \in h + 1 .. j
      /\ \A i, l \in 1 .. G : i < l => g[i] < g[l]
  BY <1>5, <1>6 DEF Pipe
<1>10. a = u
  <2>1. PICK q : q = SubSeq(M, a + 1, u) /\ q = << >>
    BY <1>2, <1>9
  <2>2. Len(SubSeq(M, a + 1, u)) = u - a
    BY ONLY <1>7, <1>8
  <2>3. Len(q) = 0
    <3>1. q = << >>
      BY <2>1
    <3> QED BY ONLY <3>1
  <2> QED BY <2>1, <2>2, <2>3, <1>8
<1>11. G \in Nat /\ G >= 1 /\ 1 \in 1 .. G
  BY <1>2, <1>6, <1>8, <1>9
<1>12. PICK h1 : h1 = g[1]
  OBVIOUS
<1>13. h1 \in h + 1 .. j /\ h1 \in 1 .. Len(M) - 2 /\ h \in Nat /\ h1 \in Nat /\ h < h1 /\ j \in Nat
  <2>1. h1 \in h + 1 .. j
    BY <1>9, <1>11, <1>12
  <2>2. h1 \in 1 .. Len(M) - 2
    BY <1>8, <1>11, <1>12
  <2>3. j \in Nat /\ h \in Nat
    BY <1>8
  <2> QED BY <2>1, <2>2, <2>3
<1>14. PICK a1, u1 : a1 = Unsent(h1 - 1) /\ u1 = Unsent(h1)
  OBVIOUS
<1>15. a1 \in 0 .. u1 /\ a <= a1 /\ (h1 = h + 1 => a1 = a) /\ (a = 0 => h = 0) /\ a \in Nat
  <2>1. /\ Unsent(h) \in Nat /\ Unsent(h1) \in Nat /\ Unsent(h) <= Unsent(h1 - 1) /\ Unsent(h1 - 1) < Unsent(h1)
        /\ Unsent(h1 - 1) \in Nat /\ (h1 = h + 1 => Unsent(h1 - 1) = Unsent(h)) /\ (Unsent(h) = 0 => h = 0)
    BY ONLY <1>13, UnsentGrows
  <2> QED BY <2>1, <1>6, <1>10, <1>14
<1>16. inbound' = SubSeq(M, a1 + 1, u1)
  <2>1. inbound' = snapshot_net[1]
    BY <1>2, <1>8
  <2> QED BY <2>1, <1>7, <1>8, <1>11, <1>12, <1>13, <1>14
<1>17. PICK e : e = Tail(g)
  OBVIOUS
<1>18. /\ e \in Seq(Nat) /\ Len(e) = G - 1
       /\ \A i \in 1 .. G - 1 : e[i] = g[i + 1] /\ i + 1 \in 1 .. G /\ 1 < i + 1
  BY <1>6, <1>9, <1>11, <1>17
<1>19. snapshot_net' = [i \in 1 .. Len(e) |-> D[e[i]]]
  <2>1. PICK s : s = Tail(snapshot_net)
    OBVIOUS
  <2>2. /\ s \in Seq(Seq(MessagesOf(c))) /\ Len(s) = G - 1 /\ \A i \in 1 .. G - 1 : s[i] = snapshot_net[i + 1]
    BY <2>1, <1>8, <1>11
  <2>3. \A i \in 1 .. G - 1 : s[i] = D[e[i]]
    BY <2>2, <1>8, <1>18
  <2>4. s = [i \in 1 .. G - 1 |-> D[e[i]]]
    BY <2>2, <2>3
  <2> QED BY <2>1, <2>4, <1>2, <1>18
<1>20. \A i \in 1 .. Len(e) : e[i] \in h1 + 1 .. j
  <2> SUFFICES ASSUME NEW i \in 1 .. G - 1 PROVE e[i] \in h1 + 1 .. j
    BY <1>18
  <2>1. e[i] = g[i + 1] /\ g[1] < g[i + 1] /\ g[i + 1] \in h + 1 .. j
    BY <1>9, <1>11, <1>18
  <2> QED BY <2>1, <1>12, <1>13
<1>21. \A i, l \in 1 .. Len(e) : i < l => e[i] < e[l]
  <2> SUFFICES ASSUME NEW i \in 1 .. G - 1, NEW l \in 1 .. G - 1, i < l PROVE e[i] < e[l]
    BY <1>18
  <2>1. i + 1 < l + 1
    BY <1>11
  <2> QED BY <2>1, <1>9, <1>18
<1>22. Pipe(M, j, h1, a1, e)'
  <2>1. j \in 0 .. Len(M) - 2 /\ h1 \in 0 .. j /\ a1 \in 0 .. Unsent(h1)
    BY <1>8, <1>13, <1>14, <1>15
  <2>2. cycle' = SubSeq(datagrams(M), j + 1, Len(M) - 2) /\ inbound' = SubSeq(M, a1 + 1, Unsent(h1))
    BY <1>2, <1>6, <1>9, <1>14, <1>16
  <2>3. snapshot_net' = [i \in 1 .. Len(e) |-> datagrams(M)[e[i]]]
    BY <1>6, <1>19
  <2> QED BY <2>1, <2>2, <2>3, <1>18, <1>20, <1>21 DEF Pipe
<1>23. ASSUME Whole(j, h, g) PROVE h1 = h + 1 /\ a1 = a /\ Whole(j, h1, e)
  <2>1. G = j - h /\ \A i \in 1 .. G : g[i] = h + i
    BY <1>6, <1>23 DEF Whole
  <2>2. h1 = h + 1 /\ G - 1 = j - h1
    BY <2>1, <1>11, <1>12, <1>13
  <2>3. \A i \in 1 .. G - 1 : e[i] = h1 + i
    <3> SUFFICES ASSUME NEW i \in 1 .. G - 1 PROVE e[i] = h1 + i
      OBVIOUS
    <3>1. e[i] = h + (i + 1)
      BY <2>1, <1>18
    <3> QED BY <3>1, <2>2, <1>13
  <2> QED BY <2>2, <2>3, <1>15, <1>18 DEF Whole
<1>24. Total' = Total
  BY <1>2 DEF Total
<1>25. (\E k : Fresh(M, j, h1, a1, e, k)') \/ Stale(j, h1, a1, e)'
  <2>1. ASSUME NEW k, Fresh(M, j, h, a, g, k) PROVE Fresh(M, j, h1, a1, e, k)'
    <3>1. Prefix(snapshot_queued_msgs_, M, k) /\ k <= a /\ (Total < 2 => Whole(j, h, g) /\ (k > 0 => k = a))
      BY <2>1 DEF Fresh
    <3>2. k \in Int /\ k <= a1
      BY <3>1, <1>7, <1>15 DEF Prefix
    <3>3. Total < 2 => Whole(j, h1, e) /\ (k > 0 => k = a1)
      BY <3>1, <1>23
    <3> QED BY <3>1, <3>2, <3>3, <1>2, <1>24 DEF Fresh
  <2>2. ASSUME Stale(j, h, a, g) PROVE Stale(j, h1, a1, e)'
    <3>1. /\ \E c1, M1, k : /\ c1 \in 0 .. last_inc_seq_num_ /\ SnapshotOf(M1, BookOf(updates, c1), c1)
                            /\ Prefix(snapshot_queued_msgs_, M1, k) /\ k > 0
          /\ Total >= 2 /\ a = 0 /\ Whole(j, h, g)
      BY <2>2 DEF Stale
    <3>2. Whole(j, h1, e) /\ a1 = 0
      BY <3>1, <1>23
    <3> QED BY <3>1, <3>2, <1>2, <1>24 DEF Stale
  <2> QED BY <2>1, <2>2, <1>5
<1>26. Following'
  <2>1. Follows(M)'
    BY <1>22, <1>25 DEF Follows
  <2>2. Back(c)'
    BY <1>2, <1>4 DEF Back
  <2>3. Snapshot(c, M)'
    BY <1>2, <1>4 DEF Snapshot
  <2> QED BY <2>1, <2>2, <2>3 DEF Following
<1>27. last_inc_seq_num_' \in last_inc_seq_num_ .. Len(updates)
  BY <1>1, <1>2 DEF FeedTyped
<1>28. replay_mode_ => cycle' = << >>
  BY <1>1, <1>2 DEF FeedTyped
<1> QED BY <1>2, <1>3, <1>26, <1>27, <1>28, ExchangeKeeps

(* What a message of the snapshot stream does: the client goes on waiting, *)
(* with the next k messages of M ...                                       *)
Kept(M, a, k) ==
  /\ in_recovery_' = TRUE
  /\ Prefix(snapshot_queued_msgs_', M, k) /\ k <= a + 1 /\ (Total < 2 /\ k > 0 => k = a + 1)
  /\ next_exp_inc_seq_num_' \in 1 .. Len(updates) + 1
  /\ UNCHANGED <<incremental_queued_msgs_, forwarded, position>>

(* ... or it is done, with the END of the snapshot.                        *)
Done(c, M, a) == a = Len(M) - 1 /\ Synced(c, updates, incremental_queued_msgs_)

(* A message of the snapshot stream does one of the two. *)
LEMMA SnapshotMessage ==
  ASSUME FeedTyped, OnlySent, BookIsOne, in_recovery_, NEW c, NEW M, Snapshot(c, M),
         NEW j, NEW h, NEW a \in 0 .. Len(M) - 1, NEW g,
         (\E k : Fresh(M, j, h, a, g, k)) \/ Stale(j, h, a, g),
         recvMessage(TRUE, M[a + 1])
  PROVE  (\E k : Kept(M, a, k)) \/ Done(c, M, a)
<1>1. /\ Len(M) \in Nat /\ Len(M) >= 3 /\ c \in Nat /\ c \in 0 .. Len(updates) /\ SnapshotOf(M, BookOf(updates, c), c)
      /\ M[a + 1].seq_num_ = a /\ a + 1 \in 1 .. Len(M)
  <2>1. Len(M) \in Nat /\ Len(M) >= 3 /\ \A i \in 1 .. Len(M) : M[i].seq_num_ = i - 1
    BY SnapshotParts
  <2>2. c \in 0 .. last_inc_seq_num_ /\ last_inc_seq_num_ \in 0 .. Len(updates) /\ SnapshotOf(M, BookOf(updates, c), c)
    BY DEF Snapshot, FeedTyped
  <2>3. a + 1 \in 1 .. Len(M)
    BY <2>1
  <2>4. M[a + 1].seq_num_ = a
    BY <2>1, <2>3
  <2> QED BY <2>1, <2>2, <2>3, <2>4
<1> DEFINE Q == snapshot_queued_msgs_
           I == incremental_queued_msgs_
<1>2. checkSnapshotSync(IF a \in DOMAIN Q THEN queuedWith(NoMessages, M[a + 1]) ELSE queuedWith(Q, M[a + 1]), I)
  BY <1>1 DEF recvMessage, queueMessage
<1>3. next_exp_inc_seq_num_ \in 1 .. Len(updates) + 1 /\ updates \in Seq(Update) /\ Len(updates) <= MaxUpdates
      /\ Incrementals(I, updates) /\ Total \in Nat
  BY DEF FeedTyped, OnlySent, Total
<1>4. forwarded \in Books
  <2>1. position \in 0 .. Len(updates)
    BY DEF FeedTyped
  <2> QED BY <1>3, <2>1, BookOfNext DEF BookIsOne
<1>5. Prefix(NoMessages, M, 0)
  <2>1. DOMAIN NoMessages = 0 .. 0 - 1
    BY DEF NoMessages
  <2> QED BY <2>1, <1>1 DEF Prefix
<1>6. ASSUME NEW k, Fresh(M, j, h, a, g, k) PROVE (\E l : Kept(M, a, l)) \/ Done(c, M, a)
  <2>1. k \in 0 .. Len(M) - 1 /\ Prefix(Q, M, k) /\ k <= a /\ DOMAIN Q = 0 .. k - 1 /\ (Total < 2 /\ k > 0 => k = a)
    BY <1>6 DEF Fresh, Prefix
  <2>2. checkSnapshotSync(queuedWith(Q, M[a + 1]), I)
    <3>1. a \notin DOMAIN Q
      BY <2>1
    <3> QED BY <3>1, <1>2
  <2>3. CASE a = k /\ k # Len(M) - 1
    <3>1. Prefix(queuedWith(Q, M[k + 1]), M, k + 1)
      BY <1>1, <2>1, <2>3, PrefixGrows
    <3>2. checkSnapshotSync(queuedWith(Q, M[k + 1]), I)
      BY <2>2, <2>3
    <3>3. Waits(queuedWith(Q, M[k + 1]), I)
      BY <1>1, <3>1, <3>2, PrefixWaits
    <3>4. Kept(M, a, k + 1)
      BY <2>1, <2>3, <3>1, <3>3, <1>3 DEF Kept, Waits, waitInRecovery
    <3> QED BY <3>4
  <2>4. CASE a = k /\ k = Len(M) - 1
    <3>1. DOMAIN queuedWith(Q, M[k + 1]) = 0 .. k /\ \A n \in 0 .. k : queuedWith(Q, M[k + 1])[n] = M[n + 1].update
      BY <1>1, <2>1, PrefixGrows
    <3>2. PICK R : R = queuedWith(Q, M[k + 1])
      OBVIOUS
    <3>3. /\ DOMAIN R = 0 .. Len(M) - 1 /\ \A n \in 0 .. Len(M) - 1 : R[n] = M[n + 1].update
          /\ checkSnapshotSync(R, I)
      BY <2>2, <2>4, <3>1, <3>2
    <3>4. \/ waitInRecovery(NoMessages, I) /\ next_exp_inc_seq_num_' \in 1 .. Len(updates) + 1
          \/ Synced(c, updates, I)
      BY <1>1, <1>3, <1>4, <3>3, WholeSnapshot
    <3>5. ASSUME waitInRecovery(NoMessages, I), next_exp_inc_seq_num_' \in 1 .. Len(updates) + 1
          PROVE  Kept(M, a, 0)
      BY <1>5, <3>5 DEF Kept, waitInRecovery
    <3> QED BY <3>4, <3>5, <2>4 DEF Done
  <2>5. CASE a # k
    <3>1. a \in k + 1 .. Len(M) - 1
      BY <2>1, <2>5
    <3>2. Waits(NoMessages, I)
      BY <1>1, <2>1, <2>2, <3>1, GapWaits
    <3>3. Kept(M, a, 0)
      BY <1>3, <1>5, <3>2 DEF Kept, Waits, waitInRecovery
    <3> QED BY <3>3
  <2> QED BY <2>3, <2>4, <2>5
<1>7. ASSUME Stale(j, h, a, g) PROVE \E l : Kept(M, a, l)
  <2>1. PICK c1, M1, k : Prefix(Q, M1, k) /\ k > 0
    BY <1>7 DEF Stale
  <2>2. a = 0 /\ Total >= 2
    BY <1>7 DEF Stale
  <2>3. a \in DOMAIN Q
    BY <2>1, <2>2 DEF Prefix
  <2>4. checkSnapshotSync(queuedWith(NoMessages, M[1]), I)
    BY <2>2, <2>3, <1>2
  <2>5. Waits(queuedWith(NoMessages, M[1]), I) /\ Prefix(queuedWith(NoMessages, M[1]), M, 1)
    BY <1>1, <2>4, StartWaits
  <2>6. Kept(M, a, 1)
    BY <1>3, <2>2, <2>5 DEF Kept, Waits, waitInRecovery
  <2> QED BY <2>6
<1> QED BY <1>6, <1>7

(* A message of the snapshot stream. *)
LEMMA RecvSnapshotMessageKeeps ==
  ASSUME FeedInv, RecvSnapshotMessage
  PROVE  FeedInv' /\ (faults.repeated = 0 => position' >= position)
<1>1. FeedTyped /\ OnlySent /\ BookIsOne /\ Following
  BY DEF FeedInv
<1>2. /\ inbound # << >> /\ recvMessage(TRUE, Head(inbound)) /\ inbound' = Tail(inbound)
      /\ snapshot_net' = IF in_recovery_ /\ ~in_recovery_' THEN << >> ELSE snapshot_net
      /\ UNCHANGED <<replay_mode_, updates, last_inc_seq_num_, cycle, incremental_net, faults>>
  BY DEF RecvSnapshotMessage, LeaveOr, exchange
<1>3. in_recovery_ /\ Total # 0
  <2>1. in_recovery_
    BY <1>1, <1>2 DEF FeedTyped
  <2> QED BY <2>1, <1>1 DEF OnlySent
<1>4. PICK c, M : Snapshot(c, M) /\ Back(c) /\ Follows(M)
  BY <1>1 DEF Following
<1>5. PICK j, h, a, g : Pipe(M, j, h, a, g) /\ ((\E k : Fresh(M, j, h, a, g, k)) \/ Stale(j, h, a, g))
  BY <1>4 DEF Follows
<1>6. PICK u, L, N, p : u = Unsent(h) /\ L = Len(M) /\ N = Len(updates) /\ p = position
  OBVIOUS
<1>7. /\ M \in Seq(MessagesOf(c)) /\ L \in Nat /\ L >= 3 /\ u \in 0 .. L /\ a \in 0 .. u
      /\ j \in 0 .. L - 2 /\ h \in 0 .. j
      /\ inbound = SubSeq(M, a + 1, u)
      /\ N \in Nat /\ p \in 0 .. N /\ updates \in Seq(Update)
  <2>1. M \in Seq(MessagesOf(c)) /\ Len(M) \in Nat /\ Len(M) >= 3
    BY <1>4, SnapshotParts
  <2>2. j \in 0 .. Len(M) - 2 /\ h \in 0 .. j /\ Unsent(h) \in 0 .. Len(M) /\ a \in 0 .. Unsent(h)
    BY <1>4, <1>5, NetParts
  <2>3. inbound = SubSeq(M, a + 1, Unsent(h))
    BY <1>5 DEF Pipe
  <2>4. Len(updates) \in Nat /\ position \in 0 .. Len(updates) /\ updates \in Seq(Update)
    BY <1>1 DEF FeedTyped
  <2> QED BY <2>1, <2>2, <2>3, <2>4, <1>6
<1>8. a # u /\ Head(inbound) = M[a + 1] /\ Tail(inbound) = SubSeq(M, a + 1 + 1, u)
  <2>1. u \in 0 .. Len(M)
    BY <1>6, <1>7
  <2>2. SubSeq(M, a + 1, u) = << >> <=> a = u
    BY ONLY <2>1, <1>7, PartIs
  <2>3. a # u
    BY <2>2, <1>2, <1>7
  <2>4. inbound = Part(M, a, u)
    BY <1>7 DEF Part
  <2>5. First(Part(M, a, u)) = At(M, a + 1)
    BY ONLY <2>1, <2>3, <1>7, PartOf
  <2>6. Rest(Part(M, a, u)) = Part(M, a + 1, u)
    BY ONLY <2>1, <2>3, <1>7, PartOf
  <2> QED BY <2>3, <2>4, <2>5, <2>6 DEF First, Rest, At, Part
<1>9. a \in 0 .. Len(M) - 1 /\ a + 1 \in 0 .. u /\ (a = L - 1 => a + 1 = u)
  BY <1>6, <1>7, <1>8
<1>10. (\E k : Kept(M, a, k)) \/ Done(c, M, a)
  <2>1. recvMessage(TRUE, M[a + 1])
    BY <1>2, <1>8
  <2> QED BY <2>1, <1>1, <1>3, <1>4, <1>5, <1>9, SnapshotMessage
<1>11. Snapshot(c, M)'
  BY <1>2, <1>4 DEF Snapshot
<1>12. Total' = Total
  BY <1>2 DEF Total
<1>13. c \in 0 .. N
  BY <1>1, <1>4, <1>6 DEF Snapshot, FeedTyped
<1>14. ASSUME NEW k, Kept(M, a, k)
       PROVE  FeedInv' /\ position' >= position
  <2>1. /\ in_recovery_' = TRUE /\ position' = position /\ forwarded' = forwarded /\ snapshot_net' = snapshot_net
        /\ incremental_queued_msgs_' = incremental_queued_msgs_
        /\ next_exp_inc_seq_num_' \in 1 .. Len(updates) + 1
    BY <1>2, <1>14 DEF Kept
  <2>2. FeedTyped'
    BY <1>1, <1>2, <1>12, <2>1 DEF FeedTyped
  <2>3. OnlySent'
    BY <1>1, <1>2, <1>3, <1>12, <2>1 DEF OnlySent
  <2>4. BookIsOne'
    BY <1>1, <1>2, <2>1 DEF BookIsOne
  <2>5. Back(c)'
    BY <1>2, <1>3, <1>4, <2>1 DEF Back
  <2>6. Pipe(M, j, h, a + 1, g)'
    <3>1. a + 1 \in 0 .. Unsent(h) /\ inbound' = SubSeq(M, a + 1 + 1, Unsent(h))
      BY <1>2, <1>6, <1>8, <1>9
    <3> QED BY <3>1, <1>2, <1>5, <2>1 DEF Pipe
  <2>7. Fresh(M, j, h, a + 1, g, k)'
    <3>1. Total < 2 => Whole(j, h, g)
      BY <1>5 DEF Fresh, Stale, Whole
    <3> QED BY <3>1, <1>12, <1>14 DEF Kept, Fresh
  <2>8. Following'
    <3>1. Follows(M)'
      BY <2>6, <2>7 DEF Follows
    <3> QED BY <3>1, <2>5, <1>11 DEF Following
  <2> QED BY <2>1, <2>2, <2>3, <2>4, <2>8, <1>6, <1>7 DEF FeedInv
<1>15. ASSUME Done(c, M, a)
       PROVE  FeedInv' /\ (faults.repeated = 0 => position' >= position)
  <2>1. PICK x : x = next_exp_inc_seq_num_'
    OBVIOUS
  <2>2. /\ in_recovery_' = FALSE /\ snapshot_queued_msgs_' = NoMessages /\ incremental_queued_msgs_' = NoMessages
        /\ x \in c + 1 .. N + 1 /\ position' = x - 1 /\ forwarded' = BookOf(updates, x - 1)
        /\ \A n \in c + 1 .. x - 1 : n \in DOMAIN incremental_queued_msgs_
        /\ \A n \in DOMAIN incremental_queued_msgs_ : n <= x
        /\ a = L - 1
    BY <2>1, <1>6, <1>15 DEF Done, Synced
  <2>3. snapshot_net' = << >>
    BY <2>2, <1>2, <1>3
  <2>4. inbound' = << >>
    <3>1. PICK b : b = a + 1
      OBVIOUS
    <3>2. b = u /\ b \in 0 .. Len(M) /\ inbound' = SubSeq(M, b + 1, b)
      BY <3>1, <2>2, <1>2, <1>6, <1>7, <1>8, <1>9
    <3>3. b \in 0 .. b
      BY <3>2, <1>6, <1>7
    <3>4. SubSeq(M, b + 1, b) = << >>
      BY ONLY <3>2, <3>3, <1>7, PartIs
    <3> QED BY <3>2, <3>4
  <2>5. x \in 1 .. N + 1 /\ x - 1 \in 0 .. N /\ x - 1 >= c
    BY <2>2, <1>7, <1>13
  <2>6. FeedTyped'
    BY <1>1, <1>2, <1>6, <1>12, <2>1, <2>2, <2>3, <2>4, <2>5 DEF FeedTyped
  <2>7. OnlySent'
    <3>1. Incrementals(NoMessages, updates)
      BY DEF Incrementals, NoMessages
    <3> QED BY <3>1, <1>1, <1>2, <1>3, <1>12, <2>2 DEF OnlySent
  <2>8. BookIsOne'
    BY <1>2, <2>1, <2>2 DEF BookIsOne
  <2>9. Follows(M)'
    <3>1. j \in 0 .. Len(M) - 2 /\ cycle' = SubSeq(datagrams(M), j + 1, Len(M) - 2)
      BY <1>2, <1>5 DEF Pipe
    <3> QED BY <3>1, <2>2, <2>3, <2>4, <1>11, NotListening
  <2>10. ASSUME faults.repeated = 0
         PROVE  /\ \A i, l \in 1 .. Len(incremental_net) :
                     i < l => incremental_net[i].seq_num_ < incremental_net[l].seq_num_
                /\ \A n \in DOMAIN incremental_queued_msgs_ : \A i \in 1 .. Len(incremental_net) :
                     n < incremental_net[i].seq_num_
                /\ p <= c \/ \E n \in DOMAIN incremental_queued_msgs_ : n > p + 1
    BY <2>10, <1>3, <1>4, <1>6 DEF Back
  <2>11. Back(c)'
    <3> SUFFICES ASSUME faults'.repeated = 0 PROVE Back(c)'
      BY DEF Back
    <3>1. faults.repeated = 0
      BY <1>2
    <3>2. CASE x - 1 = c
      <4>1. position' <= c
        BY <3>2, <2>2, <1>13
      <4> QED BY <3>1, <4>1, <2>2, <2>10, <1>2 DEF Back, NoMessages
    <3>3. CASE x - 1 # c
      <4>1. x - 1 \in c + 1 .. x - 1
        BY <3>3, <2>5, <1>13
      <4>2. x - 1 \in DOMAIN incremental_queued_msgs_
        BY <4>1, <2>2
      <4>3. \A i \in 1 .. Len(incremental_net) : x - 1 < incremental_net[i].seq_num_
        BY <3>1, <4>2, <2>10
      <4>4. ASSUME NEW i \in 1 .. Len(incremental_net) PROVE incremental_net[i].seq_num_ > x - 1
        <5>1. incremental_net[i].seq_num_ \in 1 .. N
          BY <1>1, <1>6 DEF OnlySent
        <5> QED BY <5>1, <4>3, <2>5
      <4> QED BY <3>1, <4>4, <2>2, <2>10, <1>2 DEF Back, NoMessages
    <3> QED BY <3>2, <3>3
  <2>12. Following'
    BY <2>9, <2>11, <1>11 DEF Following
  <2>13. ASSUME faults.repeated = 0 PROVE position' >= position
    <3>1. CASE p <= c
      BY <3>1, <2>2, <2>5, <1>6, <1>7, <1>13
    <3>2. CASE \E n \in DOMAIN incremental_queued_msgs_ : n > p + 1
      <4>1. PICK n \in DOMAIN incremental_queued_msgs_ : n > p + 1
        BY <3>2
      <4>2. n \in 1 .. N /\ n <= x
        BY <4>1, <2>2, <1>1, <1>6 DEF OnlySent, Incrementals
      <4> QED BY <4>1, <4>2, <2>2, <2>5, <1>6, <1>7
    <3> QED BY <3>1, <3>2, <2>10, <2>13
  <2> QED BY <2>6, <2>7, <2>8, <2>12, <2>13 DEF FeedInv
<1> QED BY <1>10, <1>14, <1>15

-----------------------------------------------------------------------------
(* The theorems about the feed *)

(* Steps that change nothing. *)
LEMMA FeedStutters == FeedInv /\ UNCHANGED vars => FeedInv' /\ position' = position
<1> SUFFICES ASSUME FeedInv, UNCHANGED vars PROVE FeedInv' /\ position' = position
  OBVIOUS
<1> USE DEF vars, exchange, consumer, queued
<1>1. FeedTyped /\ OnlySent /\ BookIsOne /\ Following
  BY DEF FeedInv
<1>2. last_inc_seq_num_' \in last_inc_seq_num_ .. Len(updates)
  BY <1>1 DEF FeedTyped
<1>3. in_recovery_ \/ (snapshot_net' = << >> /\ inbound' = << >>)
  BY <1>1 DEF FeedTyped
<1>4. replay_mode_ => cycle' = << >>
  BY <1>1 DEF FeedTyped
<1>5. Following'
  <2>1. PICK c, M : Snapshot(c, M) /\ Back(c) /\ Follows(M)
    BY <1>1 DEF Following
  <2>2. Total' \in Nat /\ Total' >= Total
    BY <1>1 DEF Total, FeedTyped
  <2>3. Total = 0 => ~in_recovery_
    BY <1>1 DEF OnlySent
  <2>4. Follows(M)'
    BY <2>1, <2>2, <2>3, <1>1, <1>2, FollowsStays
  <2>5. Snapshot(c, M)' /\ Back(c)'
    BY <2>1 DEF Snapshot, Back
  <2> QED BY <2>4, <2>5 DEF Following
<1> QED BY <1>2, <1>3, <1>4, <1>5, ExchangeKeeps

(* Every step keeps the invariant, and no step takes the client back       *)
(* before a datagram is repeated.                                          *)
LEMMA FeedStep ==
  ASSUME FewFaults, FeedInv, [Next]_vars
  PROVE  FeedInv' /\ (faults.repeated = 0 => position' >= position)
<1>1. position \in Nat
  BY DEF FeedInv, FeedTyped
<1>2. ASSUME NEW update \in PossibleUpdates, Publish(update)
      PROVE  FeedInv' /\ position' = position
  BY <1>2, PublishKeeps DEF Publish, consumer
<1>3. ASSUME addToSnapshotStep PROVE FeedInv' /\ position' = position
  BY <1>3, AddKeeps DEF addToSnapshotStep, consumer
<1>4. ASSUME publishSnapshot PROVE FeedInv' /\ position' = position
  BY <1>4, PublishSnapshotKeeps DEF publishSnapshot, consumer
<1>5. ASSUME SendSnapshot PROVE FeedInv' /\ position' = position
  BY <1>5, SendSnapshotKeeps DEF SendSnapshot, consumer
<1>6. ASSUME NEW seq \in DOMAIN updates, Repeat(seq)
      PROVE  FeedInv' /\ position' = position
  BY <1>6, RepeatKeeps DEF Repeat, consumer
<1>7. ASSUME RecvSnapshot PROVE FeedInv' /\ position' = position
  BY <1>7, RecvSnapshotKeeps DEF RecvSnapshot, consumer
<1>8. CASE Exchange
  BY <1>1, <1>2, <1>3, <1>4, <1>5, <1>8 DEF Exchange
<1>9. CASE Consumer
  BY <1>1, <1>7, <1>9, RecvIncrementalKeeps, RecvSnapshotMessageKeeps, ReplayMessageKeeps DEF Consumer
<1>10. CASE \E seq \in DOMAIN updates : Repeat(seq)
  BY <1>1, <1>6, <1>10
<1>11. CASE UNCHANGED vars
  BY <1>1, <1>11, FeedStutters
<1> QED BY <1>8, <1>9, <1>10, <1>11 DEF Next

(* The invariant holds. *)
LEMMA FeedInvariant == FewFaults /\ Spec => []FeedInv
<1> SUFFICES ASSUME FewFaults PROVE Spec => []FeedInv
  OBVIOUS
<1>1. FeedInv /\ [Next]_vars => FeedInv'
  BY FeedStep
<1> QED BY <1>1, FeedInitially, PTL DEF Spec

(* However losses, repetitions and snapshots cross, the book that          *)
(* MarketDataConsumer passes on to the trade engine is at every moment the *)
(* exchange's book of one earlier moment, as long as no more than two      *)
(* datagrams fail: the third can make a whole snapshot out of two cycles.  *)
THEOREM BookIsAlwaysOfOneMoment == FewFaults /\ Spec => []BookAtSequence
<1>1. FeedInv => BookAtSequence
  BY DEF FeedInv, BookIsOne, BookAtSequence, bookAfter, BookOf
<1> QED BY <1>1, FeedInvariant, PTL

(* And recovery never takes it back behind an update passed on before,     *)
(* unless a datagram is received twice.                                    *)
THEOREM RecoveryNeverGoesBack == FewFaults /\ Spec => NeverGoesBack
<1> SUFFICES ASSUME FewFaults PROVE Spec => NeverGoesBack
  OBVIOUS
<1>1. FeedInv /\ [Next]_vars => [faults.repeated = 0 => position' >= position]_vars
  BY FeedStep
<1>2. Spec => []FeedInv
  BY FeedInvariant
<1> QED BY <1>1, <1>2, PTL DEF Spec, NeverGoesBack

-----------------------------------------------------------------------------
(* Division *)

Multiple(x, d) == \E k \in Int : x = k * d

(* Division undoes multiplication. *)
LEMMA DividesProduct ==
  ASSUME NEW u \in Int, NEW n \in Nat \ {0}
  PROVE  (u * n) \div n = u /\ (u * n) % n = 0
OBVIOUS

(* No remainder means a multiple. *)
LEMMA NoRemainder ==
  ASSUME NEW x \in Int, NEW d \in Nat \ {0}, x % d = 0
  PROVE  Multiple(x, d)
<1>1. PICK k \in Int : k = x \div d
  OBVIOUS
<1>2. x = d * k
  BY <1>1
<1>3. x = k * d
  BY <1>2
<1> QED BY <1>3 DEF Multiple

(* Sums, products and multiples of multiples are multiples. *)
LEMMA MultipleSum ==
  ASSUME NEW x \in Int, NEW y \in Int, NEW d \in Int, Multiple(x, d), Multiple(y, d)
  PROVE  Multiple(x + y, d)
<1>1. PICK j \in Int : x = j * d
  BY DEF Multiple
<1>2. PICK k \in Int : y = k * d
  BY DEF Multiple
<1>3. x + y = (j + k) * d /\ j + k \in Int
  BY <1>1, <1>2
<1> QED BY <1>3 DEF Multiple

LEMMA MultipleProduct ==
  ASSUME NEW x \in Int, NEW y \in Int, NEW d \in Int, Multiple(x, d)
  PROVE  Multiple(x * y, d)
<1>1. PICK j \in Int : x = j * d
  BY DEF Multiple
<1>2. x * y = (j * y) * d /\ j * y \in Int
  BY <1>1
<1> QED BY <1>2 DEF Multiple

LEMMA MultipleOfMultiple ==
  ASSUME NEW x \in Int, NEW c \in Int, NEW d \in Int, Multiple(x, c * d)
  PROVE  Multiple(x, d)
<1>1. PICK j \in Int : x = j * (c * d)
  BY DEF Multiple
<1>2. x = (j * c) * d /\ j * c \in Int
  BY <1>1
<1> QED BY <1>2 DEF Multiple

(* A multiple of Divisor * d divided by a position is exact, and leaves a  *)
(* multiple of d.                                                          *)
LEMMA ExactDivision ==
  ASSUME NEW x \in Int, NEW d \in Int, Multiple(x, Divisor * d), NEW n \in 1 .. MaxPosition
  PROVE  \E u \in Int : x = u * n /\ x \div n = u /\ Multiple(u, d)
<1>1. PICK j \in Int : x = j * (Divisor * d)
  BY DEF Multiple
<1>2. n \in Nat \ {0}
  BY LimitsAssumption
<1>3. PICK c \in Int : Divisor = c * n
  <2>1. Divisor \in Int /\ Divisor % n = 0
    BY DivisorAssumption
  <2>2. Multiple(Divisor, n)
    BY <1>2, <2>1, NoRemainder
  <2> QED BY <2>2 DEF Multiple
<1>4. PICK u \in Int : u = (j * c) * d
  OBVIOUS
<1>5. x = u * n
  BY <1>1, <1>2, <1>3, <1>4
<1>6. Multiple(u, d)
  BY <1>4 DEF Multiple
<1> QED BY <1>2, <1>5, <1>6, DividesProduct

(* What power is. *)
LEMMA PowerIs ==
  /\ power[0] = 1
  /\ \A n \in 1 .. MaxFills : power[n] = Divisor * power[n - 1]
  /\ \A n \in 0 .. MaxFills : power[n] \in Nat \ {0}
<1> DEFINE F(g) == [n \in 0 .. MaxFills |-> IF n = 0 THEN 1 ELSE Divisor * g[n - 1]]
           S == Nat \ {0}
           f == [y \in Nat \X S |-> Divisor * y[2]]
<1>1. MaxFills \in Nat /\ Divisor \in S
  BY LimitsAssumption, DivisorAssumption
<1>2. \A i \in Nat, y \in S : f[<<i, y>>] = Divisor * y /\ f[<<i, y>>] \in S
  BY <1>1
<1>3. PICK u : Rounds(u, 1, f, S, MaxFills)
  <2>1. 1 \in S
    OBVIOUS
  <2> HIDE DEF S, f
  <2> QED BY <2>1, <1>1, <1>2, RoundsExist
<1>4. u \in [0 .. MaxFills -> S] /\ u[0] = 1 /\ \A i \in 1 .. MaxFills : u[i] = f[<<i, u[i - 1]>>]
  BY <1>3 DEF Rounds
<1>5. u = F(u)
  <2>1. ASSUME NEW n \in 0 .. MaxFills PROVE u[n] = IF n = 0 THEN 1 ELSE Divisor * u[n - 1]
    <3>1. CASE n = 0
      BY <3>1, <1>4
    <3>2. CASE n # 0
      <4>1. n \in 1 .. MaxFills /\ u[n - 1] \in S
        BY <3>2, <1>1, <1>4
      <4>2. PICK y \in S : y = u[n - 1]
        BY <4>1
      <4>3. f[<<n, y>>] = Divisor * y
        BY <4>1, <1>1
      <4> HIDE DEF f
      <4>4. u[n] = f[<<n, y>>]
        BY <4>1, <4>2, <1>4
      <4> QED BY <3>2, <4>2, <4>3, <4>4
    <3> QED BY <3>1, <3>2
  <2> QED BY <2>1, <1>4
<1>6. power = F(power)
  <2> DEFINE it == CHOOSE g : g = F(g)
  <2>1. power = it
    BY DEF power
  <2>2. it = F(it)
    <3> HIDE DEF F
    <3> QED BY <1>5
  <2> QED BY <2>1, <2>2
<1>7. \A n \in 0 .. MaxFills : power[n] = IF n = 0 THEN 1 ELSE Divisor * power[n - 1]
  BY <1>6, Zenon
<1> DEFINE T == {n \in 0 .. MaxFills : power[n] \notin S}
<1>8. ASSUME T # {} PROVE FALSE
  <2>1. T \in SUBSET Nat
    OBVIOUS
  <2>2. PICK n \in T : \A i \in T : n <= i
    BY <2>1, <1>8, LeastElement
  <2>3. n # 0
    BY <1>7
  <2>4. n - 1 \in 0 .. MaxFills /\ n - 1 \notin T
    BY <2>2, <2>3, <1>1
  <2>5. power[n - 1] \in S /\ power[n] = Divisor * power[n - 1]
    BY <2>3, <2>4, <1>7
  <2> QED BY <2>5, <1>1
<1> QED BY <1>7, <1>8, <1>1

-----------------------------------------------------------------------------
(* The profit *)

PnLTypes ==
  /\ position_ \in -MaxPosition .. MaxPosition
  /\ real_pnl_ \in Int /\ unreal_pnl_ \in Int /\ total_pnl_ \in Int
  /\ open_vwap_ \in [Side -> Int] /\ initial_vwap \in [Side -> Int]
  /\ fills \in 0 .. MaxFills
  /\ cash \in Int /\ mark \in Int
  /\ first_side \in Side \cup {"NONE"}

(* what there is can be divided by a position in each fill to come *)
Divisible ==
  LET unit == power[MaxFills - fills] IN
  /\ Multiple(Scale, unit)
  /\ \A s \in Side : Multiple(open_vwap_[s], unit)

(* what open_vwap_ happened to hold for the side of the first fill *)
Error == IF first_side = "NONE" THEN 0 ELSE sideToValue(first_side) * initial_vwap[first_side]

(* what the open position has cost, or brought in *)
OpenCost(held, vwap) ==
  IF held > 0 THEN vwap["BUY"] ELSE IF held < 0 THEN -vwap["SELL"] ELSE 0

Realized ==
  /\ real_pnl_ = cash + OpenCost(position_, open_vwap_) - Error
  /\ first_side = "NONE" => position_ = 0 /\ cash = 0 /\ open_vwap_ = initial_vwap
  /\ first_side # "NONE" /\ position_ = 0 => open_vwap_ = [s \in Side |-> 0]

Valued ==
  /\ unreal_pnl_ = IF position_ = 0 THEN 0 ELSE unrealized(position_, open_vwap_, mark)
  /\ total_pnl_ = unreal_pnl_ + real_pnl_

PnLInv == PnLTypes /\ Divisible /\ Realized /\ Valued

(* Nothing has been filled at the start. *)
LEMMA PnLInitially == PnLInit => PnLInv
<1> SUFFICES ASSUME PnLInit PROVE PnLInv
  OBVIOUS
<1>1. InitialVwaps \subseteq Int /\ MaxFills \in Nat /\ MaxPosition \in Nat
  BY VwapsAssumption, LimitsAssumption
<1>2. open_vwap_ \in [Side -> InitialVwaps] /\ initial_vwap = open_vwap_
  BY DEF PnLInit
<1>3. PnLTypes
  <2>1. 0 \in -MaxPosition .. MaxPosition /\ 0 \in 0 .. MaxFills
    BY <1>1
  <2>2. open_vwap_ \in [Side -> Int] /\ initial_vwap \in [Side -> Int]
    BY <1>1, <1>2
  <2> QED BY <2>1, <2>2 DEF PnLInit, PnLTypes
<1>4. Divisible
  <2>1. PICK unit \in Nat \ {0} : unit = power[MaxFills] /\ power[MaxFills - fills] = unit
    BY <1>1, PowerIs DEF PnLInit
  <2>2. Scale \in Int /\ Scale % unit = 0
    BY <2>1, ScaleAssumption
  <2>3. ASSUME NEW s \in Side PROVE Multiple(open_vwap_[s], unit)
    <3>1. open_vwap_[s] \in InitialVwaps
      BY <1>2
    <3>2. open_vwap_[s] \in Int /\ open_vwap_[s] % unit = 0
      BY <3>1, <2>1, VwapsAssumption
    <3> QED BY <3>2, NoRemainder
  <2> QED BY <2>1, <2>2, <2>3, NoRemainder DEF Divisible
<1>5. Realized /\ Valued
  BY <1>3 DEF PnLInit, PnLTypes, Realized, Valued, OpenCost, Error
<1> QED BY <1>3, <1>4, <1>5 DEF PnLInv

(* The four things a fill can do: open or increase the position, close it, *)
(* turn it around, or reduce it.                                           *)
Increases(side, price, qty, new) ==
  /\ position_ * sideToValue(side) >= 0 /\ new # 0
  /\ open_vwap_' = [open_vwap_ EXCEPT ![side] = @ + price * qty]
  /\ real_pnl_' = real_pnl_

Closes(side, price, qty, new, u) ==
  /\ new = 0 /\ position_ # 0
  /\ open_vwap_[Opposite(side)] = u * qty
  /\ open_vwap_' = [s \in Side |-> 0]
  /\ real_pnl_' = real_pnl_ + qty * (u - price) * sideToValue(side)

Flips(side, price, new, u) ==
  /\ position_ * new < 0
  /\ open_vwap_[Opposite(side)] = u * Abs(position_)
  /\ open_vwap_' = [s \in Side |-> IF s = side THEN price * Abs(new) ELSE 0]
  /\ real_pnl_' = real_pnl_ + Abs(position_) * (u - price) * sideToValue(side)

Reduces(side, price, qty, new, u) ==
  /\ position_ * sideToValue(side) < 0 /\ position_ * new > 0
  /\ open_vwap_[Opposite(side)] = u * Abs(position_)
  /\ open_vwap_' = [open_vwap_ EXCEPT ![Opposite(side)] = u * Abs(new)]
  /\ real_pnl_' = real_pnl_ + qty * (u - price) * sideToValue(side)

(* what the addFill of qty at price leaves, but for what it was worth *)
Filled(side, price, qty, new) ==
  /\ fills < MaxFills
  /\ fills' = fills + 1
  /\ new = position_ + sideToValue(side) * qty
  /\ new \in -MaxPosition .. MaxPosition
  /\ position_' = new
  /\ unreal_pnl_' = IF new = 0 THEN 0 ELSE unrealized(new, open_vwap_', price)
  /\ total_pnl_' = unreal_pnl_' + real_pnl_'
  /\ cash' = cash - sideToValue(side) * price * qty
  /\ mark' = price
  /\ first_side' = IF first_side = "NONE" THEN side ELSE first_side
  /\ initial_vwap' = initial_vwap

(* A fill does one of the four, and its division has no remainder. *)
LEMMA FillCases ==
  ASSUME PnLInv, NEW side \in Side, NEW p \in Prices, NEW qty \in Quantities, addFill(side, p, qty)
  PROVE  \E price \in Nat, new \in Int :
           /\ price = p * Scale
           /\ Filled(side, price, qty, new)
           /\ \/ Increases(side, price, qty, new)
              \/ \E u \in Int :
                   /\ Multiple(u, power[MaxFills - (fills + 1)])
                   /\ \/ Closes(side, price, qty, new, u)
                      \/ Flips(side, price, new, u)
                      \/ Reduces(side, price, qty, new, u)
<1> USE DEF PnLInv
<1>1. p \in Nat /\ qty \in Nat \ {0} /\ Scale \in Nat \ {0} /\ MaxPosition \in Nat /\ MaxFills \in Nat
  BY PricesAssumption, QuantitiesAssumption, ScaleAssumption, LimitsAssumption
<1>2. PICK price \in Nat : price = p * Scale
  BY <1>1
<1>3. PICK val \in {1, -1} : val = sideToValue(side)
  BY DEF sideToValue
<1>4. PICK new \in Int : new = position_ + val * qty
  BY <1>1, <1>3 DEF PnLTypes
<1>5. /\ fills < MaxFills /\ Abs(new) <= MaxPosition
      /\ position_' = new
      /\ open_vwap_' = openVwap(side, price, qty)
      /\ real_pnl_' = real_pnl_ + realized(side, price, qty)
      /\ unreal_pnl_' = IF new = 0 THEN 0 ELSE unrealized(new, open_vwap_', price)
      /\ total_pnl_' = unreal_pnl_' + real_pnl_'
      /\ fills' = fills + 1
      /\ cash' = cash - val * price * qty
      /\ mark' = price
      /\ first_side' = IF first_side = "NONE" THEN side ELSE first_side
      /\ initial_vwap' = initial_vwap
  BY <1>2, <1>3, <1>4, Zenon DEF addFill
<1>6. new \in -MaxPosition .. MaxPosition
  BY <1>1, <1>5 DEF Abs
<1>7. Filled(side, price, qty, new)
  BY <1>3, <1>4, <1>5, <1>6, Zenon DEF Filled
<1>8. position_ \in -MaxPosition .. MaxPosition /\ open_vwap_ \in [Side -> Int] /\ real_pnl_ \in Int
  BY DEF PnLTypes
<1> DEFINE opp == Opposite(side)
<1>9. opp \in Side /\ opp # side /\ open_vwap_[opp] \in Int
  BY <1>8 DEF Opposite, Side
<1>10. CASE position_ * val >= 0
  <2>1. new # 0
    BY <1>1, <1>3, <1>4, <1>8, <1>10
  <2>2. open_vwap_' = [open_vwap_ EXCEPT ![side] = @ + price * qty]
    BY <2>1, <1>3, <1>4, <1>5, <1>10, Zenon DEF openVwap
  <2>3. real_pnl_' = real_pnl_
    BY <1>3, <1>5, <1>8, <1>10 DEF realized
  <2> QED BY <2>1, <2>2, <2>3, <1>2, <1>3, <1>7, <1>10 DEF Increases
<1>11. CASE ~(position_ * val >= 0)
  <2>1. PICK n \in 1 .. MaxPosition : n = Abs(position_) /\ position_ = -val * n
    BY <1>1, <1>3, <1>8, <1>11 DEF Abs
  <2>2. PICK d \in Nat \ {0} : d = power[MaxFills - (fills + 1)] /\ power[MaxFills - fills] = Divisor * d
    <3>1. MaxFills - fills \in 1 .. MaxFills /\ (MaxFills - fills) - 1 = MaxFills - (fills + 1)
          /\ MaxFills - (fills + 1) \in 0 .. MaxFills
      BY <1>1, <1>5 DEF PnLTypes
    <3> QED BY <3>1, PowerIs
  <2>3. Multiple(open_vwap_[opp], Divisor * d)
    BY <2>2, <1>9 DEF Divisible
  <2>4. PICK u \in Int : open_vwap_[opp] = u * n /\ open_vwap_[opp] \div n = u /\ Multiple(u, d)
    <3>1. d \in Int
      OBVIOUS
    <3> QED BY <3>1, <1>9, <2>3, ExactDivision
  <2>5. PICK w \in Int : w = Lesser(qty, n)
    BY <1>1 DEF Lesser
  <2>6. real_pnl_' = real_pnl_ + w * (u - price) * val
    BY <1>3, <1>5, <1>11, <2>1, <2>4, <2>5, Zenon DEF realized
  <2>7. new = val * (qty - n)
    BY <1>1, <1>3, <1>4, <2>1
  <2>8. CASE qty = n
    <3>1. new = 0 /\ position_ # 0 /\ w = qty
      BY <1>1, <1>3, <2>1, <2>5, <2>7, <2>8 DEF Lesser
    <3>2. open_vwap_' = [s \in Side |-> 0]
      BY <3>1, <1>3, <1>4, <1>5, Zenon DEF openVwap
    <3>3. Closes(side, price, qty, new, u)
      BY <3>1, <3>2, <1>3, <2>4, <2>6, <2>8 DEF Closes
    <3> QED BY <3>3, <1>2, <1>7, <2>2, <2>4
  <2>9. CASE qty > n
    <3>1. new # 0 /\ new * position_ < 0 /\ position_ * new < 0 /\ w = n
      <4>1. PICK a \in Nat \ {0} : a = qty - n
        BY <1>1, <2>9
      <4>2. a * n > 0
        BY <4>1, <2>1
      <4>3. (val = 1 /\ new = a /\ position_ = -n) \/ (val = -1 /\ new = -a /\ position_ = n)
        <5>1. CASE val = 1
          <6>1. n \in Int /\ a \in Int /\ qty \in Int
            BY <1>1, <2>1
          <6>2. position_ = -n
            BY <6>1, <5>1, <2>1
          <6>3. new = qty - n
            BY <6>1, <5>1, <2>7
          <6> QED BY <6>1, <6>2, <6>3, <4>1, <5>1
        <5>2. CASE val = -1
          <6>1. n \in Int /\ a \in Int /\ qty \in Int
            BY <1>1, <2>1
          <6>2. position_ = n
            BY <6>1, <5>2, <2>1
          <6>3. new = -(qty - n)
            BY <6>1, <5>2, <2>7
          <6> QED BY <6>1, <6>2, <6>3, <4>1, <5>2
        <5> QED BY <5>1, <5>2, <1>3
      <4>4. new * position_ = -(a * n) /\ position_ * new = -(a * n)
        BY <4>1, <4>3, <2>1
      <4> QED BY <4>2, <4>3, <4>4, <2>5, <2>9, <1>1 DEF Lesser
    <3>2. open_vwap_' = [s \in Side |-> IF s = side THEN price * Abs(new) ELSE 0]
      BY <3>1, <1>3, <1>4, <1>5, <1>11, Zenon DEF openVwap
    <3>3. Flips(side, price, new, u)
      BY <3>1, <3>2, <1>3, <2>1, <2>4, <2>6 DEF Flips
    <3> QED BY <3>3, <1>2, <1>7, <2>2, <2>4
  <2>10. CASE qty < n
    <3>1. new # 0 /\ ~(new * position_ < 0) /\ position_ * new > 0 /\ w = qty
      <4>1. PICK a \in Nat \ {0} : a = n - qty
        BY <1>1, <2>10
      <4>2. a * n > 0
        BY <4>1, <2>1
      <4>3. (val = 1 /\ new = -a /\ position_ = -n) \/ (val = -1 /\ new = a /\ position_ = n)
        <5>1. CASE val = 1
          <6>1. n \in Int /\ a \in Int /\ qty \in Int
            BY <1>1, <2>1
          <6>2. position_ = -n
            BY <6>1, <5>1, <2>1
          <6>3. new = qty - n
            BY <6>1, <5>1, <2>7
          <6> QED BY <6>1, <6>2, <6>3, <4>1, <5>1
        <5>2. CASE val = -1
          <6>1. n \in Int /\ a \in Int /\ qty \in Int
            BY <1>1, <2>1
          <6>2. position_ = n
            BY <6>1, <5>2, <2>1
          <6>3. new = -(qty - n)
            BY <6>1, <5>2, <2>7
          <6> QED BY <6>1, <6>2, <6>3, <4>1, <5>2
        <5> QED BY <5>1, <5>2, <1>3
      <4>4. new * position_ = a * n /\ position_ * new = a * n
        BY <4>1, <4>3, <2>1
      <4> QED BY <4>2, <4>3, <4>4, <2>5, <2>10, <1>1 DEF Lesser
    <3>2. open_vwap_' = [open_vwap_ EXCEPT ![opp] = u * Abs(new)]
      <4>1. open_vwap_' = [open_vwap_ EXCEPT ![opp] = (@ \div n) * Abs(new)]
        BY <3>1, <1>3, <1>4, <1>5, <1>11, <2>1, Zenon DEF openVwap
      <4> QED BY <4>1, <2>4, Zenon
    <3>3. Reduces(side, price, qty, new, u)
      <4>1. position_ * val < 0
        BY <1>3, <1>8, <1>11
      <4> QED BY <4>1, <3>1, <3>2, <1>3, <2>1, <2>4, <2>6, Zenon DEF Reduces
    <3> QED BY <3>3, <1>2, <1>7, <2>2, <2>4
  <2> QED BY <1>1, <2>8, <2>9, <2>10
<1> QED BY <1>10, <1>11

(* The open cost of a position on a side. *)
LEMMA OpenCostOf ==
  ASSUME NEW vwap \in [Side -> Int], NEW side \in Side, NEW held \in Int
  PROVE  /\ held * sideToValue(side) > 0
              => OpenCost(held, vwap) = sideToValue(side) * vwap[side]
         /\ held * sideToValue(side) < 0
              => OpenCost(held, vwap) = -(sideToValue(side) * vwap[Opposite(side)])
         /\ OpenCost(0, vwap) = 0
         /\ OpenCost(held, vwap) \in Int
         /\ sideToValue(side) \in {1, -1}
         /\ Opposite(side) \in Side /\ Opposite(side) # side
         /\ \A s \in Side : s # Opposite(side) => s = side
<1>1. "BUY" \in Side /\ "SELL" \in Side /\ vwap["BUY"] \in Int /\ vwap["SELL"] \in Int
  BY DEF Side
<1>2. CASE side = "BUY"
  BY <1>1, <1>2 DEF OpenCost, sideToValue, Opposite, Side
<1>3. CASE side = "SELL"
  BY <1>1, <1>3 DEF OpenCost, sideToValue, Opposite, Side
<1> QED BY <1>2, <1>3 DEF Side

(* The realized profit stays the cash and the cost of what is open. *)
LEMMA RealizedKept ==
  ASSUME PnLInv, NEW side \in Side, NEW price \in Nat, NEW qty \in Nat \ {0}, NEW new \in Int,
         Filled(side, price, qty, new),
         Increases(side, price, qty, new)
           \/ \E u \in Int : \/ Closes(side, price, qty, new, u)
                             \/ Flips(side, price, new, u)
                             \/ Reduces(side, price, qty, new, u)
  PROVE  Realized'
<1> USE DEF PnLInv
<1>1. PICK val \in {1, -1} : val = sideToValue(side)
  BY DEF sideToValue
<1>2. PICK m \in Int : m = price * qty
  OBVIOUS
<1>3. /\ new = position_ + val * qty /\ position_' = new
      /\ cash' = cash - val * m
      /\ first_side' = IF first_side = "NONE" THEN side ELSE first_side
      /\ initial_vwap' = initial_vwap
  BY <1>1, <1>2 DEF Filled
<1>4. /\ position_ \in Int /\ real_pnl_ \in Int /\ cash \in Int
      /\ open_vwap_ \in [Side -> Int] /\ initial_vwap \in [Side -> Int]
      /\ first_side \in Side \cup {"NONE"}
  BY LimitsAssumption DEF PnLTypes
<1>5. PICK e \in Int : e = Error
  BY <1>4 DEF Error, sideToValue
<1>6. PICK o \in Int : o = OpenCost(position_, open_vwap_)
  BY <1>4, OpenCostOf
<1>7. real_pnl_ = cash + o - e
  BY <1>5, <1>6 DEF Realized
<1>8. first_side # "NONE" => Error' = e
  BY <1>3, <1>4, <1>5 DEF Error
<1>9. first_side' # "NONE"
  BY <1>3 DEF Side
<1>10. CASE Increases(side, price, qty, new)
  <2>1. position_ * val >= 0 /\ new # 0 /\ real_pnl_' = real_pnl_
        /\ open_vwap_' = [open_vwap_ EXCEPT ![side] = @ + m]
    BY <1>1, <1>2, <1>10 DEF Increases
  <2>2. PICK v \in Int : v = open_vwap_[side]
    BY <1>4
  <2>3. open_vwap_' \in [Side -> Int] /\ open_vwap_'[side] = v + m
    BY <2>1, <2>2, <1>4
  <2>4. new * val > 0
    BY <2>1, <1>3, <1>4
  <2>5. OpenCost(new, open_vwap_') = val * (v + m)
    BY <2>3, <2>4, <1>1, OpenCostOf
  <2>6. CASE first_side = "NONE"
    <3>1. position_ = 0 /\ cash = 0 /\ e = 0 /\ v = initial_vwap[side]
      BY <2>6, <2>2, <1>5 DEF Realized, Error
    <3>2. o = 0
      BY <3>1, <1>4, <1>6, OpenCostOf
    <3>3. Error' = val * v
      BY <2>6, <3>1, <1>1, <1>3 DEF Error, Side
    <3>4. real_pnl_' = cash' + OpenCost(new, open_vwap_') - Error'
      BY <3>1, <3>2, <3>3, <2>1, <2>5, <1>3, <1>7
    <3> QED BY <3>4, <2>1, <1>3, <1>9 DEF Realized
  <2>7. CASE first_side # "NONE"
    <3>1. o = val * v
      <4>1. CASE position_ = 0
        <5>1. v = 0
          BY <4>1, <2>2, <2>7 DEF Realized
        <5>2. o = 0
          BY <4>1, <1>4, <1>6, OpenCostOf
        <5> QED BY <5>1, <5>2
      <4>2. CASE position_ # 0
        <5>1. position_ * val > 0
          BY <4>2, <2>1, <1>4
        <5> QED BY <5>1, <2>2, <1>1, <1>4, <1>6, OpenCostOf
      <4> QED BY <4>1, <4>2
    <3>2. real_pnl_' = cash' + OpenCost(new, open_vwap_') - Error'
      BY <3>1, <2>1, <2>5, <2>7, <1>3, <1>4, <1>7, <1>8
    <3> QED BY <3>2, <2>1, <1>3, <1>9 DEF Realized
  <2> QED BY <2>6, <2>7
<1>11. ASSUME NEW u \in Int, NEW n \in Nat \ {0}, position_ = -(val * n),
              open_vwap_[Opposite(side)] = u * n
       PROVE  o = -(val * (u * n)) /\ first_side # "NONE" /\ Abs(position_) = n
  <2>1. position_ * val < 0
    BY <1>11
  <2>2. o = -(val * (u * n))
    BY <2>1, <1>1, <1>4, <1>6, <1>11, OpenCostOf
  <2>3. position_ # 0 /\ Abs(position_) = n
    BY <1>11 DEF Abs
  <2> QED BY <2>2, <2>3 DEF Realized
<1>12. CASE \E u \in Int : Closes(side, price, qty, new, u)
  <2>1. PICK u \in Int : Closes(side, price, qty, new, u)
    BY <1>12
  <2>2. /\ new = 0 /\ open_vwap_[Opposite(side)] = u * qty /\ open_vwap_' = [s \in Side |-> 0]
        /\ real_pnl_' = real_pnl_ + qty * (u - price) * val
    BY <2>1, <1>1 DEF Closes
  <2>3. position_ = -(val * qty)
    BY <2>2, <1>3, <1>4
  <2>4. o = -(val * (u * qty)) /\ first_side # "NONE"
    BY <2>2, <2>3, <1>11
  <2>5. OpenCost(new, open_vwap_') = 0
    BY <2>2, OpenCostOf DEF OpenCost
  <2>6. qty * (u - price) * val = val * (u * qty) - val * m
    BY <1>2
  <2>6a. PICK x \in Int, y \in Int : x = val * (u * qty) /\ y = val * m
    OBVIOUS
  <2>6b. real_pnl_' = real_pnl_ + (x - y) /\ o = -x /\ cash' = cash - y
    BY <2>2, <2>4, <2>6, <2>6a, <1>3
  <2>7. real_pnl_' = cash' + OpenCost(new, open_vwap_') - Error'
    BY <2>4, <2>5, <2>6a, <2>6b, <1>4, <1>7, <1>8
  <2> QED BY <2>7, <2>2, <1>3, <1>9 DEF Realized
<1>13. CASE \E u \in Int : Flips(side, price, new, u)
  <2>1. PICK u \in Int : Flips(side, price, new, u)
    BY <1>13
  <2>2. PICK n \in Nat \ {0} : n = Abs(position_) /\ position_ = -(val * n) /\ n < qty
    <3>1. position_ * new < 0
      BY <2>1 DEF Flips
    <3>2. CASE position_ * val > 0
      <4>1. (position_ > 0 /\ new > 0) \/ (position_ < 0 /\ new < 0)
        BY <3>2, <1>3, <1>4
      <4>2. position_ * new > 0
        BY <4>1, <1>4
      <4> QED BY <4>2, <3>1, <1>4
    <3>3. CASE position_ * val <= 0
      <4>1. position_ # 0
        BY <3>1, <1>4
      <4>2. PICK k \in Nat \ {0} : k = Abs(position_) /\ position_ = -(val * k)
        BY <4>1, <3>3, <1>4 DEF Abs
      <4>3. ASSUME k >= qty PROVE FALSE
        <5>1. PICK j \in Nat : j = k - qty /\ new = -(val * j)
          BY <4>2, <4>3, <1>3
        <5>2. position_ * new = k * j
          BY <5>1, <4>2
        <5>3. k * j >= 0
          BY <4>2, <5>1
        <5> QED BY <5>2, <5>3, <3>1
      <4> QED BY <4>2, <4>3
    <3> QED BY <3>2, <3>3, <1>4
  <2>3. PICK j \in Nat \ {0} : j = qty - n /\ new = val * j /\ Abs(new) = j
    BY <2>2, <1>3 DEF Abs
  <2>4. /\ open_vwap_[Opposite(side)] = u * n
        /\ open_vwap_' = [s \in Side |-> IF s = side THEN price * j ELSE 0]
        /\ real_pnl_' = real_pnl_ + n * (u - price) * val
    BY <2>1, <2>2, <2>3, <1>1 DEF Flips
  <2>5. o = -(val * (u * n)) /\ first_side # "NONE"
    BY <2>2, <2>4, <1>11
  <2>6. OpenCost(new, open_vwap_') = val * (price * j)
    <3>1. open_vwap_' \in [Side -> Int] /\ open_vwap_'[side] = price * j
      BY <2>4
    <3>2. new * val > 0
      BY <2>3
    <3> QED BY <3>1, <3>2, <1>1, OpenCostOf
  <2>7. m = price * n + price * j
    <3>1. qty = n + j
      BY <2>3
    <3> QED BY <3>1, <1>2
  <2>8. n * (u - price) * val = val * (u * n) - val * (price * n)
    BY <2>2
  <2>9. real_pnl_' = cash' + OpenCost(new, open_vwap_') - Error'
    BY <2>4, <2>5, <2>6, <2>7, <2>8, <1>3, <1>4, <1>7, <1>8
  <2>10. new # 0
    BY <2>3
  <2> QED BY <2>9, <2>10, <1>3, <1>9 DEF Realized
<1>14. CASE \E u \in Int : Reduces(side, price, qty, new, u)
  <2>1. PICK u \in Int : Reduces(side, price, qty, new, u)
    BY <1>14
  <2>2. position_ * val < 0 /\ position_ * new > 0
    BY <2>1, <1>1 DEF Reduces
  <2>3. PICK n \in Nat \ {0} : n = Abs(position_) /\ position_ = -(val * n)
    BY <2>2, <1>4 DEF Abs
  <2>4. PICK j \in Int : j = n - qty /\ new = -(val * j)
    BY <2>3, <1>3
  <2>5. j > 0 /\ Abs(new) = j
    <3>1. position_ * new = n * j
      BY <2>3, <2>4
    <3>2. ASSUME j <= 0 PROVE FALSE
      <4>1. n * j <= 0
        BY <3>2, <2>3
      <4> QED BY <4>1, <3>1, <2>2
    <3> QED BY <3>2, <2>4 DEF Abs
  <2>6. /\ open_vwap_[Opposite(side)] = u * n
        /\ open_vwap_' = [open_vwap_ EXCEPT ![Opposite(side)] = u * j]
        /\ real_pnl_' = real_pnl_ + qty * (u - price) * val
    BY <2>1, <2>3, <2>5, <1>1 DEF Reduces
  <2>7. o = -(val * (u * n)) /\ first_side # "NONE"
    BY <2>3, <2>6, <1>11
  <2>8. OpenCost(new, open_vwap_') = -(val * (u * j))
    <3>1. Opposite(side) \in Side
      BY <1>4, OpenCostOf
    <3>2. open_vwap_' \in [Side -> Int] /\ open_vwap_'[Opposite(side)] = u * j
      BY <3>1, <2>6, <1>4
    <3>3. new * val < 0
      BY <2>4, <2>5
    <3> QED BY <3>2, <3>3, <1>1, OpenCostOf
  <2>9. val * (u * n) = val * (u * qty) + val * (u * j)
    <3>1. n = qty + j
      BY <2>4
    <3> QED BY <3>1, <2>4
  <2>10. qty * (u - price) * val = val * (u * qty) - val * m
    BY <1>2
  <2>10a. PICK x \in Int, y \in Int, z \in Int :
            x = val * (u * qty) /\ y = val * m /\ z = val * (u * j)
    OBVIOUS
  <2>10b. real_pnl_' = real_pnl_ + (x - y) /\ o = -(x + z) /\ cash' = cash - y
          /\ OpenCost(new, open_vwap_') = -z
    BY <2>6, <2>7, <2>8, <2>9, <2>10, <2>10a, <1>3
  <2>11. real_pnl_' = cash' + OpenCost(new, open_vwap_') - Error'
    BY <2>7, <2>10a, <2>10b, <1>4, <1>7, <1>8
  <2>12. new # 0
    BY <2>4, <2>5
  <2> QED BY <2>11, <2>12, <1>3, <1>9 DEF Realized
<1> QED BY <1>10, <1>12, <1>13, <1>14

(* The value of a position is a number. *)
LEMMA UnrealizedIs ==
  ASSUME NEW held \in Int, NEW vwap \in [Side -> Int], NEW price \in Int
  PROVE  /\ unrealized(held, vwap, price) \in Int
         /\ held # 0 => unrealized(held, vwap, price) = price * held - OpenCost(held, vwap)
<1>1. vwap["BUY"] \in Int /\ vwap["SELL"] \in Int
  BY DEF Side
<1>2. CASE held > 0
  BY <1>1, <1>2 DEF unrealized, OpenCost
<1>3. CASE held <= 0
  <2>1. PICK n \in Nat : n = Abs(held) /\ held = -n
    BY <1>3 DEF Abs
  <2>2. price * held = -(price * n)
    BY <2>1
  <2>3. unrealized(held, vwap, price) = vwap["SELL"] - price * n
    BY <2>1, <1>3 DEF unrealized
  <2> QED BY <2>1, <2>2, <2>3, <1>1 DEF OpenCost
<1> QED BY <1>2, <1>3

(* A fill keeps the account. *)
LEMMA FillKeeps ==
  ASSUME PnLInv, NEW side \in Side, NEW p \in Prices, NEW qty \in Quantities, addFill(side, p, qty)
  PROVE  PnLInv'
<1>1. PICK price \in Nat, new \in Int :
        /\ price = p * Scale
        /\ Filled(side, price, qty, new)
        /\ \/ Increases(side, price, qty, new)
           \/ \E u \in Int :
                /\ Multiple(u, power[MaxFills - (fills + 1)])
                /\ \/ Closes(side, price, qty, new, u)
                   \/ Flips(side, price, new, u)
                   \/ Reduces(side, price, qty, new, u)
  BY FillCases
<1> USE DEF PnLInv
<1>2. /\ p \in Nat /\ qty \in Nat \ {0} /\ Scale \in Nat \ {0} /\ MaxPosition \in Nat /\ MaxFills \in Nat
      /\ Divisor \in Nat
  BY PricesAssumption, QuantitiesAssumption, ScaleAssumption, LimitsAssumption, DivisorAssumption
<1>3. /\ real_pnl_ \in Int /\ cash \in Int /\ fills \in 0 .. MaxFills
      /\ open_vwap_ \in [Side -> Int] /\ initial_vwap \in [Side -> Int]
      /\ first_side \in Side \cup {"NONE"}
  BY DEF PnLTypes
<1>4. sideToValue(side) \in {1, -1} /\ Opposite(side) \in Side /\ Opposite(side) # side
      /\ \A s \in Side : s # Opposite(side) => s = side
  BY <1>3, OpenCostOf, 0 \in Int
<1>5. /\ fills < MaxFills /\ fills' = fills + 1 /\ new \in -MaxPosition .. MaxPosition /\ position_' = new
      /\ unreal_pnl_' = IF new = 0 THEN 0 ELSE unrealized(new, open_vwap_', price)
      /\ total_pnl_' = unreal_pnl_' + real_pnl_'
      /\ cash' = cash - sideToValue(side) * price * qty
      /\ mark' = price
      /\ first_side' = IF first_side = "NONE" THEN side ELSE first_side
      /\ initial_vwap' = initial_vwap
  BY <1>1 DEF Filled
<1>6. PICK d \in Nat \ {0} : /\ d = power[MaxFills - (fills + 1)]
                             /\ power[MaxFills - fills] = Divisor * d
  <2>1. MaxFills - fills \in 1 .. MaxFills /\ (MaxFills - fills) - 1 = MaxFills - (fills + 1)
        /\ MaxFills - (fills + 1) \in 0 .. MaxFills
    BY <1>2, <1>3, <1>5
  <2> QED BY <2>1, PowerIs
<1>7. Multiple(Scale, d) /\ \A s \in Side : Multiple(open_vwap_[s], d)
  <2>1. Multiple(Scale, Divisor * d) /\ \A s \in Side : Multiple(open_vwap_[s], Divisor * d)
    BY <1>6 DEF Divisible
  <2>2. \A s \in Side : open_vwap_[s] \in Int
    BY <1>3
  <2> QED BY <2>1, <2>2, <1>2, MultipleOfMultiple
<1>8. \A n \in Int : price * n \in Int /\ Multiple(price * n, d)
  <2>1. ASSUME NEW n \in Int PROVE Multiple(price * n, d)
    <3>1. PICK y \in Int : y = p * n
      BY <1>2
    <3>2. price * n = Scale * y
      BY <3>1, <1>1, <1>2
    <3>3. Multiple(Scale * y, d)
      BY <1>2, <1>7, MultipleProduct
    <3> QED BY <3>2, <3>3
  <2>2. \A n \in Int : price * n \in Int
    OBVIOUS
  <2> QED BY <2>1, <2>2
<1>9. open_vwap_' \in [Side -> Int] /\ real_pnl_' \in Int /\ \A s \in Side : Multiple(open_vwap_'[s], d)
  <2>1. CASE Increases(side, price, qty, new)
    <3>1. open_vwap_' = [open_vwap_ EXCEPT ![side] = @ + price * qty] /\ real_pnl_' = real_pnl_
      BY <2>1 DEF Increases
    <3>2. PICK v \in Int : v = open_vwap_[side] + price * qty /\ Multiple(v, d)
      <4>1. PICK y \in Int : y = price * qty /\ Multiple(y, d)
        BY <1>2, <1>8
      <4>2. PICK x \in Int : x = open_vwap_[side] /\ Multiple(x, d)
        BY <1>3, <1>7
      <4>3. Multiple(x + y, d)
        <5>1. d \in Int
          OBVIOUS
        <5> QED BY <5>1, <4>1, <4>2, MultipleSum
      <4> QED BY <4>1, <4>2, <4>3
    <3>3. \A s \in Side : open_vwap_'[s] = IF s = side THEN v ELSE open_vwap_[s]
      BY <3>1, <3>2, <1>3
    <3>4. open_vwap_' \in [Side -> Int]
      BY <3>1, <3>2, <1>3
    <3> QED BY <3>1, <3>2, <3>3, <3>4, <1>3, <1>7
  <2>2. ASSUME NEW u \in Int, Multiple(u, d), Closes(side, price, qty, new, u)
        PROVE  open_vwap_' \in [Side -> Int] /\ real_pnl_' \in Int /\ \A s \in Side : Multiple(open_vwap_'[s], d)
    <3>1. Multiple(0, d)
      BY DEF Multiple
    <3> QED BY <2>2, <3>1, <1>2, <1>3, <1>4 DEF Closes
  <2>3. ASSUME NEW u \in Int, Multiple(u, d), Flips(side, price, new, u)
        PROVE  open_vwap_' \in [Side -> Int] /\ real_pnl_' \in Int /\ \A s \in Side : Multiple(open_vwap_'[s], d)
    <3>1. Multiple(0, d)
      BY DEF Multiple
    <3>2. PICK v \in Int : v = price * Abs(new) /\ Multiple(v, d)
      <4>1. PICK y \in Int : y = Abs(new)
        BY DEF Abs
      <4>2. price * y \in Int /\ Multiple(price * y, d)
        BY <1>8
      <4> QED BY <4>1, <4>2
    <3>3. open_vwap_' = [s \in Side |-> IF s = side THEN v ELSE 0]
      BY <2>3, <3>2 DEF Flips
    <3>4. Abs(position_) \in Int
      BY DEF Abs, PnLTypes
    <3>5. real_pnl_' = real_pnl_ + Abs(position_) * (u - price) * sideToValue(side)
      BY <2>3 DEF Flips
    <3>6. real_pnl_' \in Int
      BY <3>4, <3>5, <1>3, <1>4
    <3> QED BY <3>1, <3>2, <3>3, <3>6
  <2>4. ASSUME NEW u \in Int, Multiple(u, d), Reduces(side, price, qty, new, u)
        PROVE  open_vwap_' \in [Side -> Int] /\ real_pnl_' \in Int /\ \A s \in Side : Multiple(open_vwap_'[s], d)
    <3>1. PICK y \in Int : y = Abs(new)
      BY DEF Abs
    <3>2. PICK v \in Int : v = u * y /\ Multiple(v, d)
      <4>1. u * y \in Int /\ d \in Int
        OBVIOUS
      <4>2. Multiple(u * y, d)
        BY <2>4, <4>1, MultipleProduct
      <4> QED BY <4>1, <4>2
    <3>3. open_vwap_' = [open_vwap_ EXCEPT ![Opposite(side)] = v]
          /\ real_pnl_' = real_pnl_ + qty * (u - price) * sideToValue(side)
      BY <2>4, <3>1, <3>2 DEF Reduces
    <3>4. \A s \in Side : open_vwap_'[s] = IF s = Opposite(side) THEN v ELSE open_vwap_[s]
      BY <3>3, <1>3
    <3>5. open_vwap_' \in [Side -> Int] /\ real_pnl_' \in Int
      BY <3>3, <1>2, <1>3, <1>4
    <3> QED BY <3>2, <3>4, <3>5, <1>7
  <2> QED BY <2>1, <2>2, <2>3, <2>4, <1>1, <1>6
<1>10. PnLTypes'
  <2>1. cash' \in Int /\ mark' \in Int /\ fills' \in 0 .. MaxFills
    BY <1>2, <1>3, <1>4, <1>5
  <2>2. unreal_pnl_' \in Int
    BY <1>5, <1>9, UnrealizedIs
  <2>3. first_side' \in Side \cup {"NONE"}
    BY <1>3, <1>5
  <2> QED BY <2>1, <2>2, <2>3, <1>3, <1>5, <1>9 DEF PnLTypes
<1>11. Divisible'
  <2>1. power[MaxFills - fills'] = d
    BY <1>5, <1>6
  <2> QED BY <2>1, <1>7, <1>9 DEF Divisible
<1>12. Realized'
  BY <1>1, <1>2, RealizedKept
<1>13. Valued'
  BY <1>5 DEF Valued
<1> QED BY <1>10, <1>11, <1>12, <1>13

(* A new BBO values the same position at another price. *)
LEMMA RevaluationKeeps ==
  ASSUME PnLInv, NEW bid_price, NEW ask_price, bid_price \in Int, ask_price \in Int,
         updateBBO(bid_price, ask_price)
  PROVE  PnLInv'
<1> USE DEF PnLInv
<1>1. /\ position_ # 0
      /\ mark' = ((bid_price + ask_price) * Scale) \div 2
      /\ unreal_pnl_' = unrealized(position_, open_vwap_, mark')
      /\ total_pnl_' = unreal_pnl_' + real_pnl_
      /\ UNCHANGED <<position_, real_pnl_, open_vwap_, fills, cash, initial_vwap, first_side>>
  BY DEF updateBBO
<1>2. mark' \in Int
  BY <1>1, ScaleAssumption
<1>3. position_ \in Int /\ open_vwap_ \in [Side -> Int]
  BY LimitsAssumption DEF PnLTypes
<1>4. unreal_pnl_' \in Int
  BY <1>1, <1>2, <1>3, UnrealizedIs
<1>5. PnLTypes'
  BY <1>1, <1>2, <1>4 DEF PnLTypes
<1>6. Divisible'
  BY <1>1 DEF Divisible
<1>7. Realized'
  BY <1>1 DEF Realized, Error
<1>8. Valued'
  BY <1>1 DEF Valued
<1> QED BY <1>5, <1>6, <1>7, <1>8

(* Every step of the position keeper keeps the account. *)
LEMMA PnLKept == PnLInv /\ [PnLNext]_pnlVars => PnLInv'
<1> SUFFICES ASSUME PnLInv, [PnLNext]_pnlVars PROVE PnLInv'
  OBVIOUS
<1>1. ASSUME NEW side \in Side, NEW p \in Prices, NEW qty \in Quantities, addFill(side, p, qty)
      PROVE  PnLInv'
  BY <1>1, FillKeeps
<1>2. ASSUME NEW bid_price \in Prices \cup {Price_INVALID}, NEW ask_price \in Prices \cup {Price_INVALID},
             updateBBO(bid_price, ask_price)
      PROVE  PnLInv'
  <2>1. bid_price \in Int /\ ask_price \in Int
    BY PricesAssumption DEF Price_INVALID
  <2> QED BY <1>2, <2>1, RevaluationKeeps
<1>3. CASE UNCHANGED pnlVars
  BY <1>3 DEF pnlVars, PnLInv, PnLTypes, Divisible, Realized, Error, Valued
<1> QED BY <1>1, <1>2, <1>3 DEF PnLNext

(* The realized and the unrealized part add up to the profit. *)
LEMMA ProfitFollows == PnLInv => ProfitIsCashPlusPosition
<1> SUFFICES ASSUME PnLInv PROVE ProfitIsCashPlusPosition
  OBVIOUS
<1> USE DEF PnLInv
<1>1. position_ \in Int /\ mark \in Int /\ cash \in Int /\ open_vwap_ \in [Side -> Int]
      /\ initial_vwap \in [Side -> Int] /\ first_side \in Side \cup {"NONE"}
  BY LimitsAssumption DEF PnLTypes
<1>2. PICK o \in Int : o = OpenCost(position_, open_vwap_)
  BY <1>1 DEF OpenCost, Side
<1>3. PICK e \in Int : e = Error
  BY <1>1 DEF Error, sideToValue
<1>4. real_pnl_ = cash + o - e
  BY <1>2, <1>3 DEF Realized
<1>5. PICK x \in Int : x = position_ * mark
  BY <1>1
<1>6. unreal_pnl_ = x - o
  <2>1. CASE position_ = 0
    BY <2>1, <1>1, <1>2, <1>5 DEF Valued, OpenCost
  <2>2. CASE position_ # 0
    <3>1. mark * position_ = x
      BY <1>1, <1>5
    <3> QED BY <3>1, <2>2, <1>1, <1>2, UnrealizedIs DEF Valued
  <2> QED BY <2>1, <2>2
<1>7. total_pnl_ = cash + x - e
  BY <1>1, <1>4, <1>6 DEF Valued
<1> QED BY <1>3, <1>5, <1>7 DEF ProfitIsCashPlusPosition, Error

-----------------------------------------------------------------------------
(* The summary *)

(* what the loop of finalize is after the samples before place k of the curve *)
SoFar(curve, k, peak, fall) ==
  /\ peak \in Int /\ fall \in Int
  /\ \E j \in 1 .. k : peak = curve[j]
  /\ \A j \in 1 .. k : curve[j] <= peak
  /\ \E i, j \in 1 .. k : i <= j /\ fall = curve[i] - curve[j]
  /\ \A i, j \in 1 .. k : i <= j => curve[i] - curve[j] <= fall

(* One more sample raises the peak or deepens the largest fall, or neither. *)
LEMMA SampleSeen ==
  ASSUME NEW k \in Nat \ {0}, NEW curve, \A i \in 1 .. k + 1 : curve[i] \in Int,
         NEW peak, NEW fall, SoFar(curve, k, peak, fall),
         NEW peak2, NEW fall2, peak2 = Greater(peak, curve[k + 1]), fall2 = Greater(fall, peak2 - curve[k + 1])
  PROVE  SoFar(curve, k + 1, peak2, fall2)
<1>1. PICK s \in Int : s = curve[k + 1]
  BY k + 1 \in 1 .. k + 1
<1>2. peak \in Int /\ fall \in Int /\ (\A j \in 1 .. k : curve[j] <= peak)
      /\ \A i, j \in 1 .. k : i <= j => curve[i] - curve[j] <= fall
  BY DEF SoFar
<1>3. PICK b \in 1 .. k : peak = curve[b]
  BY DEF SoFar
<1>4. PICK c \in 1 .. k, e \in 1 .. k : c <= e /\ fall = curve[c] - curve[e]
  BY DEF SoFar
<1>5. peak2 \in Int /\ peak2 >= peak /\ peak2 >= s /\ (peak2 = peak \/ peak2 = s)
  BY <1>1, <1>2 DEF Greater
<1>6. fall2 \in Int /\ fall2 >= fall /\ fall2 >= peak2 - s /\ (fall2 = fall \/ fall2 = peak2 - s)
  BY <1>1, <1>2, <1>5 DEF Greater
<1>7. \A i \in 1 .. k + 1 : i \in 1 .. k \/ (i = k + 1 /\ curve[i] = s)
  BY <1>1
<1>8. k + 1 \in 1 .. k + 1 /\ b \in 1 .. k + 1 /\ c \in 1 .. k + 1 /\ e \in 1 .. k + 1 /\ b <= k + 1
  OBVIOUS
<1>9. \E j \in 1 .. k + 1 : peak2 = curve[j]
  BY <1>1, <1>3, <1>5, <1>8
<1>10. \A j \in 1 .. k + 1 : curve[j] <= peak2
  BY <1>1, <1>2, <1>5, <1>7
<1>11. \E i, j \in 1 .. k + 1 : i <= j /\ fall2 = curve[i] - curve[j]
  <2>1. CASE fall2 = fall
    BY <2>1, <1>4, <1>8
  <2>2. CASE fall2 = peak2 - s
    <3>1. PICK i \in 1 .. k + 1 : peak2 = curve[i]
      BY <1>9
    <3>2. i <= k + 1
      OBVIOUS
    <3> QED BY <3>1, <3>2, <2>2, <1>1, <1>8
  <2> QED BY <2>1, <2>2, <1>6
<1>12. ASSUME NEW i \in 1 .. k + 1, NEW j \in 1 .. k + 1, i <= j PROVE curve[i] - curve[j] <= fall2
  <2>1. curve[i] \in Int /\ curve[j] \in Int
    OBVIOUS
  <2>2. CASE j \in 1 .. k
    <3>1. i \in 1 .. k
      BY <2>2, <1>12
    <3>2. curve[i] - curve[j] <= fall
      BY <3>1, <2>2, <1>2, <1>12
    <3> QED BY <3>2, <2>1, <1>2, <1>6
  <2>3. CASE j = k + 1
    <3>1. curve[i] <= peak2 /\ curve[j] = s
      BY <2>3, <1>1, <1>10
    <3> QED BY <3>1, <2>1, <1>1, <1>5, <1>6
  <2> QED BY <2>2, <2>3
<1> QED BY <1>5, <1>6, <1>9, <1>10, <1>11, <1>12 DEF SoFar

(* The curve: the start of the account at 0, then the samples. *)
LEMMA CurveIs ==
  ASSUME NEW samples \in Seq(Int)
  PROVE  LET curve == <<0>> \o samples IN
         /\ DOMAIN curve = 1 .. Len(samples) + 1
         /\ curve[1] = 0
         /\ \A i \in 1 .. Len(samples) : curve[i + 1] = samples[i]
         /\ \A i \in 1 .. Len(samples) + 1 : curve[i] \in Int
OBVIOUS

(* finalize's loop finds the peak and the largest fall of the curve. *)
LEMMA SummaryIs ==
  ASSUME NEW samples \in Seq(Int)
  PROVE  \E peak, fall \in Int :
           /\ summarize(samples)
                = [final_pnl |-> samples[Len(samples)], peak_pnl |-> peak, max_drawdown |-> fall]
           /\ SoFar(<<0>> \o samples, Len(samples) + 1, peak, fall)
<1> DEFINE n == Len(samples)
           curve == <<0>> \o samples
           S == [peak_pnl : Int, max_drawdown : Int]
           start == [peak_pnl |-> 0, max_drawdown |-> 0]
           step(y, s) == [peak_pnl |-> Greater(y.peak_pnl, s),
                          max_drawdown |-> Greater(y.max_drawdown, Greater(y.peak_pnl, s) - s)]
           value(i) == IF i \in 1 .. n THEN samples[i] ELSE 0
           f == [z \in Nat \X S |-> step(z[2], value(z[1]))]
           F(g) == [i \in 0 .. n |->
                      IF i = 0 THEN start
                      ELSE LET peak == Greater(g[i - 1].peak_pnl, samples[i]) IN
                           [peak_pnl |-> peak,
                            max_drawdown |-> Greater(g[i - 1].max_drawdown, peak - samples[i])]]
           it == CHOOSE g : g = F(g)
<1>1. n \in Nat /\ \A i \in 1 .. n : samples[i] \in Int
  OBVIOUS
<1>2. DOMAIN curve = 1 .. n + 1 /\ curve[1] = 0
      /\ (\A i \in 1 .. n : curve[i + 1] = samples[i]) /\ \A i \in 1 .. n + 1 : curve[i] \in Int
  BY CurveIs
<1>3. summarize(samples) = [final_pnl |-> samples[n], peak_pnl |-> it[n].peak_pnl,
                            max_drawdown |-> it[n].max_drawdown]
  BY DEF summarize
<1>4. ASSUME NEW i \in Nat, NEW y \in S PROVE f[<<i, y>>] = step(y, value(i)) /\ step(y, value(i)) \in S
  <2>1. y.peak_pnl \in Int /\ y.max_drawdown \in Int /\ value(i) \in Int
    BY <1>1
  <2>2. step(y, value(i)) \in S
    <3> HIDE DEF value
    <3>1. PICK s \in Int : s = value(i)
      BY <2>1
    <3>2. Greater(y.peak_pnl, s) \in Int
      BY <2>1 DEF Greater
    <3>3. Greater(y.max_drawdown, Greater(y.peak_pnl, s) - s) \in Int
      BY <3>2, <2>1 DEF Greater
    <3> QED BY <3>1, <3>2, <3>3
  <2>3. <<i, y>> \in Nat \X S
    OBVIOUS
  <2> HIDE DEF S, step, value
  <2> QED BY <2>2, <2>3
<1>5. PICK u : Rounds(u, start, f, S, n)
  <2>1. start \in S
    OBVIOUS
  <2>2. \A i \in Nat, y \in S : f[<<i, y>>] \in S
    <3> HIDE DEF f, S, step, value
    <3> QED BY <1>4
  <2> HIDE DEF f, S, start
  <2> QED BY <2>1, <2>2, <1>1, RoundsExist
<1>6. u = F(u)
  <2>0. u \in [0 .. n -> S] /\ u[0] = start /\ \A i \in 1 .. n : u[i] = f[<<i, u[i - 1]>>]
    <3> HIDE DEF f, S, start
    <3> QED BY <1>5 DEF Rounds
  <2>1. ASSUME NEW i \in 0 .. n, i # 0 PROVE u[i] = step(u[i - 1], samples[i])
    <3>1. i \in 1 .. n /\ i \in Nat /\ i - 1 \in 0 .. n
      BY <2>1, <1>1
    <3>2. PICK y \in S : y = u[i - 1]
      <4> HIDE DEF S
      <4> QED BY <3>1, <2>0
    <3>3. f[<<i, y>>] = step(y, value(i))
      <4> HIDE DEF f, S, step, value
      <4> QED BY <3>1, <1>4
    <3>4. value(i) = samples[i]
      BY <3>1
    <3>5. u[i] = f[<<i, y>>]
      <4> HIDE DEF f, S, start
      <4> QED BY <3>1, <3>2, <2>0
    <3> HIDE DEF f, S, step, value
    <3> QED BY <3>2, <3>3, <3>4, <3>5
  <2>2. \A i \in 0 .. n : u[i] = IF i = 0 THEN start ELSE step(u[i - 1], samples[i])
    <3> HIDE DEF start, step
    <3> QED BY <2>0, <2>1
  <2>3. u = [i \in 0 .. n |-> u[i]]
    <3> HIDE DEF S, f, start
    <3> QED BY <2>0
  <2>4. u = [i \in 0 .. n |-> IF i = 0 THEN start ELSE step(u[i - 1], samples[i])]
    <3> HIDE DEF start, step
    <3> QED BY <2>2, <2>3
  <2> QED BY <2>4
<1>7. it = F(it)
  <2> HIDE DEF F
  <2> QED BY <1>6
<1> HIDE DEF it
<1>8. \A i \in 0 .. n : it[i] = IF i = 0 THEN start ELSE step(it[i - 1], samples[i])
  BY <1>7, Zenon
<1> DEFINE Good(i) == SoFar(curve, i + 1, it[i].peak_pnl, it[i].max_drawdown)
           T == {i \in 0 .. n : ~Good(i)}
<1>9. Good(0)
  <2>1. it[0] = start
    <3> HIDE DEF start, step
    <3>1. 0 \in 0 .. n
      BY <1>1
    <3> QED BY <3>1, <1>8
  <2>2. it[0].peak_pnl = 0 /\ it[0].max_drawdown = 0
    BY <2>1
  <2> HIDE DEF curve
  <2> QED BY <2>2, <1>2 DEF SoFar
<1>10. ASSUME NEW i \in 1 .. n, Good(i - 1) PROVE Good(i)
  <2>1. it[i] = step(it[i - 1], samples[i])
    <3> HIDE DEF step, start
    <3> QED BY <1>8
  <2> DEFINE peak == it[i - 1].peak_pnl
             fall == it[i - 1].max_drawdown
             peak2 == it[i].peak_pnl
             fall2 == it[i].max_drawdown
  <2>2. peak2 = Greater(peak, samples[i]) /\ fall2 = Greater(fall, peak2 - samples[i])
    BY <2>1
  <2>3. i - 1 + 1 = i /\ curve[i + 1] = samples[i] /\ \A j \in 1 .. i + 1 : curve[j] \in Int
    <3> HIDE DEF curve
    <3> QED BY <1>2
  <2>4. SoFar(curve, i, peak, fall)
    BY <2>3, <1>10
  <2> HIDE DEF curve, peak, fall, peak2, fall2
  <2>5. SoFar(curve, i + 1, peak2, fall2)
    BY <2>2, <2>3, <2>4, SampleSeen
  <2> QED BY <2>5 DEF peak2, fall2
<1> HIDE DEF Good
<1>11. ASSUME T # {} PROVE FALSE
  <2>1. T \in SUBSET Nat
    OBVIOUS
  <2>2. PICK k \in T : \A i \in T : k <= i
    BY <2>1, <1>11, LeastElement
  <2>3. k # 0
    BY <1>9
  <2>4. k - 1 \in 0 .. n /\ k - 1 \notin T
    BY <2>2, <2>3, <1>1
  <2>5. k \in 1 .. n /\ Good(k - 1)
    BY <2>3, <2>4
  <2> QED BY <2>5, <1>10
<1>12. Good(n)
  BY <1>11, <1>1
<1>13. SoFar(curve, n + 1, it[n].peak_pnl, it[n].max_drawdown)
  BY <1>12 DEF Good
<1>14. it[n].peak_pnl \in Int /\ it[n].max_drawdown \in Int
  BY <1>13 DEF SoFar
<1> QED BY <1>3, <1>13, <1>14

-----------------------------------------------------------------------------
(* The theorems about the profit and the summary *)

(* The samples are profits.  Once there is a summary the threads have      *)
(* stopped, and it is the one of the samples, the last of which is the     *)
(* profit that then stands.                                                *)
Recorded ==
  /\ samples_ \in Seq(Int)
  /\ \/ summary = << >>
     \/ /\ ~run_
        /\ summary = <<summarize(samples_)>>
        /\ Len(samples_) > 0 /\ samples_[Len(samples_)] = total_pnl_

EInv == PnLInv /\ Recorded

(* Nothing is recorded at the start. *)
LEMMA EInvInitially == EquityInit => EInv
BY PnLInitially DEF EquityInit, EInv, Recorded

(* A sample is a profit. *)
LEMMA AppendedSample ==
  ASSUME samples_ \in Seq(Int), total_pnl_ \in Int
  PROVE  LET q == Append(samples_, total_pnl_) IN
         q \in Seq(Int) /\ Len(q) > 0 /\ q[Len(q)] = total_pnl_
OBVIOUS

(* Every step of the three threads keeps the invariant. *)
LEMMA EInvInductive == EInv /\ [EquityNext]_equityVars => EInv'
<1> SUFFICES ASSUME EInv, [EquityNext]_equityVars PROVE EInv'
  OBVIOUS
<1> USE DEF EInv
<1>1. total_pnl_ \in Int /\ samples_ \in Seq(Int)
  BY DEF PnLInv, PnLTypes, Recorded
<1>2. UNCHANGED pnlVars => PnLInv' /\ total_pnl_' = total_pnl_
  BY PnLKept DEF pnlVars
<1>3. CASE TradeEngineStep
  BY <1>3, PnLKept DEF TradeEngineStep, Recorded
<1>4. CASE sample
  <2>1. samples_' \in Seq(Int)
    BY <1>1, <1>4, AppendedSample DEF sample
  <2>2. summary' = << >>
    BY <1>4 DEF sample, Recorded
  <2> QED BY <2>1, <2>2, <1>2, <1>4 DEF sample, Recorded
<1>5. CASE stop
  BY <1>2, <1>5 DEF stop, Recorded
<1>6. CASE finalize
  <2>1. /\ ~run_ /\ run_' = run_
        /\ samples_' = Append(samples_, total_pnl_)
        /\ summary' = <<summarize(samples_')>>
        /\ UNCHANGED pnlVars
    BY <1>6 DEF finalize
  <2>2. samples_' \in Seq(Int) /\ Len(samples_') > 0 /\ samples_'[Len(samples_')] = total_pnl_'
    BY <2>1, <1>1, <1>2, AppendedSample
  <2>3. summary' = <<summarize(samples_)'>>
    BY <2>1 DEF summarize
  <2> QED BY <2>1, <2>2, <2>3, <1>2 DEF Recorded
<1>7. CASE UNCHANGED equityVars
  BY <1>2, <1>7 DEF equityVars, Recorded
<1> QED BY <1>3, <1>4, <1>5, <1>6, <1>7 DEF EquityNext

(* The recorded summary is right about its curve. *)
LEMMA SummaryFollows == EInv => SummaryOfTheCurve
<1> SUFFICES ASSUME EInv, NEW i \in DOMAIN summary
             PROVE  LET curve == <<0>> \o samples_
                        largest(S, d) == d \in S /\ \A e \in S : e <= d
                    IN
                    /\ summary[i].final_pnl = total_pnl_
                    /\ largest({ curve[j] : j \in DOMAIN curve }, summary[i].peak_pnl)
                    /\ \E j, k \in DOMAIN curve : j <= k /\ summary[i].max_drawdown = curve[j] - curve[k]
                    /\ \A j, k \in DOMAIN curve : j <= k => curve[j] - curve[k] <= summary[i].max_drawdown
  BY DEF SummaryOfTheCurve
<1>1. samples_ \in Seq(Int) /\ samples_[Len(samples_)] = total_pnl_ /\ summary[i] = summarize(samples_)
  <2>1. summary # << >>
    OBVIOUS
  <2> QED BY <2>1 DEF EInv, Recorded
<1>2. PICK peak \in Int, fall \in Int :
        /\ summarize(samples_)
             = [final_pnl |-> samples_[Len(samples_)], peak_pnl |-> peak, max_drawdown |-> fall]
        /\ SoFar(<<0>> \o samples_, Len(samples_) + 1, peak, fall)
  BY <1>1, SummaryIs
<1>3. summary[i].final_pnl = total_pnl_ /\ summary[i].peak_pnl = peak /\ summary[i].max_drawdown = fall
  BY <1>1, <1>2
<1> DEFINE curve == <<0>> \o samples_
<1>4. DOMAIN curve = 1 .. Len(samples_) + 1
  BY <1>1, CurveIs
<1>5. SoFar(curve, Len(samples_) + 1, peak, fall)
  BY <1>2
<1> HIDE DEF curve
<1>6. peak \in { curve[j] : j \in DOMAIN curve } /\ \A e \in { curve[j] : j \in DOMAIN curve } : e <= peak
  BY <1>4, <1>5 DEF SoFar
<1>7. \E j, k \in DOMAIN curve : j <= k /\ fall = curve[j] - curve[k]
  BY <1>4, <1>5 DEF SoFar
<1>8. \A j, k \in DOMAIN curve : j <= k => curve[j] - curve[k] <= fall
  BY <1>4, <1>5 DEF SoFar
<1> QED BY <1>3, <1>6, <1>7, <1>8 DEF curve

(* The profit that checkPreTradeRisk compares with max_loss_, after any    *)
(* fills and BBOs: the cash and the value of the position, and one error   *)
(* that never changes, from the uninitialized open_vwap_.  Every division  *)
(* by a position met on the way has no remainder.                          *)
THEOREM ProfitIsExact == EquitySpec => []ProfitIsCashPlusPosition
<1>1. EInv => ProfitIsCashPlusPosition
  BY ProfitFollows DEF EInv
<1> QED BY <1>1, EInvInitially, EInvInductive, PTL DEF EquitySpec

(* The report of a backtest, for any number of samples taken at any        *)
(* moments: finalize's one pass finds the highest point and the largest    *)
(* fall of the equity curve, and the profit that stands at the end.        *)
THEOREM SummaryIsRight == EquitySpec => []SummaryOfTheCurve
BY EInvInitially, EInvInductive, SummaryFollows, PTL DEF EquitySpec
=============================================================================
