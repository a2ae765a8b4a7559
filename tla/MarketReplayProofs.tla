-------------------------- MODULE MarketReplayProofs --------------------------
(***************************************************************************)
(* Proofs about MarketReplay, for files of any length, ids, prices and     *)
(* sizes, and queues of any size.  The reader lags behind the file, so     *)
(* what the replay threads know and what the book holds agree only once    *)
(* everything in flight is applied.  The inductive invariant says so with  *)
(* a trail: the books the client goes through, from the one it has to the  *)
(* one that the slots of LobsterReplay, or the best prices of              *)
(* BinanceAggTradesReplay, describe, where each update in flight finds the *)
(* order it needs in the book before it.  The trail replaces an induction  *)
(* over the queue.                                                         *)
(***************************************************************************)
EXTENDS MarketReplay, SequenceTheorems, TLAPS

Types == {"ADD", "MODIFY", "CANCEL", "TRADE"}
Update == [type_ : Types, order_id_ : Nat, side_ : Side, price_ : Prices \cup {Price_INVALID}, qty_ : Nat]
Mdp == [seq_num_ : Nat, me : Update]
BookOrder == [side : Side, price : Prices \cup {Price_INVALID}, qty : Nat]

(* What Consume makes of a book b. *)
applied(b, me) ==
  LET order == [side |-> me.side_, price |-> me.price_, qty |-> me.qty_] IN
  CASE me.type_ = "ADD" -> With(b, me.order_id_, order)
    [] me.type_ = "MODIFY" /\ me.order_id_ \in DOMAIN b -> [b EXCEPT ![me.order_id_].qty = me.qty_]
    [] me.type_ = "CANCEL" -> Without(b, {me.order_id_})
    [] OTHER -> b

(* The update finds in b the order it needs, or the id it takes free. *)
Fits(b, me) ==
  /\ me.type_ = "ADD" => me.order_id_ \notin DOMAIN b
  /\ me.type_ \in {"MODIFY", "CANCEL"} => me.order_id_ \in DOMAIN b

(* Q is what is in flight: queued, then still to be pushed. *)
InFlight(Q, queue, rest) ==
  /\ Q \in Seq(Update)
  /\ Len(Q) = Len(queue) + Len(rest)
  /\ \A i \in 1 .. Len(queue) : Q[i] = queue[i].me
  /\ \A i \in 1 .. Len(rest) : Q[Len(queue) + i] = rest[i]

(* The updates Q take the book b through the books h. *)
Trail(Q, h, b) ==
  /\ h[0] = b
  /\ \A k \in 1 .. Len(Q) : Fits(h[k - 1], Q[k]) /\ h[k] = applied(h[k - 1], Q[k])

(* F holds the orders of LobsterReplay's slots, which are those left by the rows. *)
LobsterBook(F, slots, left) ==
  /\ DOMAIN F = {slots[id] : id \in DOMAIN slots}
  /\ \A id, jd \in DOMAIN slots : slots[id] = slots[jd] => id = jd
  /\ \A id \in DOMAIN slots : F[slots[id]] \in BookOrder
  /\ \A id \in DOMAIN slots : \E r \in left : r.id = id
  /\ \A r \in left : /\ r.id \in DOMAIN slots
                     /\ r.side = F[slots[r.id]].side /\ r.price = F[slots[r.id]].price

(* F holds one order for each side that has a price. *)
Priced(prices) == {s \in Side : prices[s] # Price_INVALID}
BinanceBook(F, prices, ids, left) ==
  /\ DOMAIN F = {ids[s] : s \in Priced(prices)}
  /\ \A s \in Priced(prices) : F[ids[s]].side = s /\ F[ids[s]].price = prices[s]
  /\ \A s \in Priced(prices) : \E r \in left : r.side = s
  /\ \A r \in left : r.side \in Priced(prices) /\ r.price = prices[r.side]

Final(F) ==
  IF format = "lobster" THEN LobsterBook(F, lobster_id_to_slot_, resting)
                        ELSE BinanceBook(F, best, oid, resting)

Tracked ==
  \E Q, h : /\ InFlight(Q, output_queue_, pushing)
            /\ Trail(Q, h, book)
            /\ Final(h[Len(Q)])

(* The updates are numbered without a gap on both queues. *)
Numbered ==
  /\ seq_num = next_exp_inc_seq_num_ + Len(output_queue_)
  /\ \A i \in 1 .. Len(output_queue_) :
       output_queue_[i].seq_num_ = next_exp_inc_seq_num_ + i - 1
  /\ queue_aware => seq_num = sim_seen + 1 + Len(sim_output_queue_)
  /\ \A i \in 1 .. Len(sim_output_queue_) : sim_output_queue_[i].seq_num_ = sim_seen + i
  /\ ~queue_aware => sim_output_queue_ = << >>

Typed ==
  /\ output_queue_ \in Seq(Mdp) /\ sim_output_queue_ \in Seq(Mdp) /\ pushing \in Seq(Update)
  /\ next_slot_ \in Nat /\ next_oid \in Nat /\ seq_num \in Nat
  /\ next_exp_inc_seq_num_ \in Nat /\ sim_seen \in Nat
  /\ best \in [Side -> Prices \cup {Price_INVALID}] /\ oid \in [Side -> Nat]
  /\ \A id \in DOMAIN lobster_id_to_slot_ : lobster_id_to_slot_[id] \in 0 .. next_slot_ - 1

RInv == Typed /\ Numbered /\ (~collided => Tracked)

-----------------------------------------------------------------------------
(* Trails *)

(* One more update in flight, and the book after it. *)
LEMMA ExtendTrail ==
  ASSUME NEW Q \in Seq(Update), NEW h, NEW b, Trail(Q, h, b),
         NEW me \in Update, Fits(h[Len(Q)], me)
  PROVE  \E g : Trail(Append(Q, me), g, b) /\ g[Len(Append(Q, me))] = applied(h[Len(Q)], me)
<1> DEFINE n == Len(Q) + 1
           g == [k \in 0 .. n |-> IF k = n THEN applied(h[Len(Q)], me) ELSE h[k]]
<1>1. PICK R : R = Append(Q, me)
  OBVIOUS
<1>2. /\ Len(Q) \in Nat /\ Len(R) = n /\ R[n] = me /\ \A k \in 1 .. Len(Q) : R[k] = Q[k]
  BY <1>1
<1>3. g[n] = applied(h[Len(Q)], me) /\ \A k \in 0 .. Len(Q) : g[k] = h[k]
  BY <1>2
<1> HIDE DEF g
<1>4. ASSUME NEW k \in 1 .. n PROVE Fits(g[k - 1], R[k]) /\ g[k] = applied(g[k - 1], R[k])
  <2>1. CASE k = n
    <3>1. k - 1 = Len(Q) /\ g[k - 1] = h[Len(Q)]
      BY <1>2, <1>3, <2>1
    <3> QED BY <1>2, <1>3, <2>1, <3>1
  <2>2. CASE k # n
    <3>1. k \in 1 .. Len(Q) /\ k - 1 \in 0 .. Len(Q)
      BY <1>2, <2>2
    <3>2. g[k] = h[k] /\ g[k - 1] = h[k - 1] /\ R[k] = Q[k]
      BY <1>2, <1>3, <3>1
    <3> QED BY <3>1, <3>2 DEF Trail
  <2> QED BY <2>1, <2>2
<1>5. g[0] = b
  BY <1>2, <1>3 DEF Trail
<1>6. Trail(R, g, b) /\ g[Len(R)] = applied(h[Len(Q)], me)
  BY <1>2, <1>3, <1>4, <1>5 DEF Trail
<1> QED BY <1>1, <1>6

(* The first update in flight is applied. *)
LEMMA ShortenTrail ==
  ASSUME NEW Q \in Seq(Update), Q # << >>, NEW h, NEW b, Trail(Q, h, b)
  PROVE  \E g : Trail(Tail(Q), g, applied(b, Q[1])) /\ g[Len(Tail(Q))] = h[Len(Q)]
<1> DEFINE g == [k \in 0 .. Len(Q) - 1 |-> h[k + 1]]
<1>1. PICK R : R = Tail(Q)
  OBVIOUS
<1>2. /\ Len(Q) \in Nat /\ Len(Q) >= 1 /\ Len(R) = Len(Q) - 1
      /\ \A k \in 1 .. Len(Q) - 1 : R[k] = Q[k + 1]
  BY <1>1
<1>3. \A k \in 0 .. Len(Q) - 1 : g[k] = h[k + 1]
  OBVIOUS
<1> HIDE DEF g
<1>4. h[1] = applied(b, Q[1])
  BY <1>2 DEF Trail
<1>5. g[0] = applied(b, Q[1]) /\ g[Len(R)] = h[Len(Q)]
  BY <1>2, <1>3, <1>4
<1>6. ASSUME NEW k \in 1 .. Len(R) PROVE Fits(g[k - 1], R[k]) /\ g[k] = applied(g[k - 1], R[k])
  <2>1. /\ k + 1 \in 1 .. Len(Q) /\ k \in 1 .. Len(Q) - 1 /\ k - 1 \in 0 .. Len(Q) - 1
        /\ k \in 0 .. Len(Q) - 1 /\ (k - 1) + 1 = k /\ (k + 1) - 1 = k
    BY <1>2
  <2>2. g[k - 1] = h[k] /\ g[k] = h[k + 1] /\ R[k] = Q[k + 1]
    BY <1>2, <1>3, <2>1
  <2>3. Fits(h[(k + 1) - 1], Q[k + 1]) /\ h[k + 1] = applied(h[(k + 1) - 1], Q[k + 1])
    BY <2>1 DEF Trail
  <2> QED BY <2>1, <2>2, <2>3
<1>7. Trail(R, g, applied(b, Q[1]))
  BY <1>5, <1>6 DEF Trail
<1> QED BY <1>1, <1>5, <1>7

-----------------------------------------------------------------------------
(* What the updates make of a book *)

(* An ADD makes one more entry. *)
LEMMA AppliedAdd ==
  ASSUME NEW F, NEW me, me.type_ = "ADD"
  PROVE  /\ DOMAIN applied(F, me) = DOMAIN F \cup {me.order_id_}
         /\ applied(F, me)[me.order_id_] = [side |-> me.side_, price |-> me.price_, qty |-> me.qty_]
         /\ \A i \in DOMAIN F : i # me.order_id_ => applied(F, me)[i] = F[i]
BY DEF applied, With

(* A CANCEL takes its entry away. *)
LEMMA AppliedCancel ==
  ASSUME NEW F, NEW me, me.type_ = "CANCEL"
  PROVE  /\ DOMAIN applied(F, me) = DOMAIN F \ {me.order_id_}
         /\ \A i \in DOMAIN F : i # me.order_id_ => applied(F, me)[i] = F[i]
BY DEF applied, Without

(* A MODIFY keeps the side and price of its entry, and all others. *)
LEMMA AppliedModify ==
  ASSUME NEW F, NEW me, me.type_ = "MODIFY", me.order_id_ \in DOMAIN F,
         F[me.order_id_] \in BookOrder, me.qty_ \in Nat
  PROVE  /\ DOMAIN applied(F, me) = DOMAIN F
         /\ applied(F, me)[me.order_id_] \in BookOrder
         /\ applied(F, me)[me.order_id_].side = F[me.order_id_].side
         /\ applied(F, me)[me.order_id_].price = F[me.order_id_].price
         /\ \A i \in DOMAIN F : i # me.order_id_ => applied(F, me)[i] = F[i]
<1>1. applied(F, me) = [F EXCEPT ![me.order_id_].qty = me.qty_]
  BY DEF applied
<1>2. PICK o, e : o = me.order_id_ /\ e = [F[o] EXCEPT !.qty = me.qty_]
  OBVIOUS
<1>3. applied(F, me) = [F EXCEPT ![o] = e]
  BY <1>1, <1>2
<1>4. e \in BookOrder /\ e.side = F[o].side /\ e.price = F[o].price
  BY <1>2 DEF BookOrder
<1>5. /\ DOMAIN [F EXCEPT ![o] = e] = DOMAIN F /\ [F EXCEPT ![o] = e][o] = e
      /\ \A i \in DOMAIN F : i # o => [F EXCEPT ![o] = e][i] = F[i]
  BY <1>2
<1> QED BY <1>2, <1>3, <1>4, <1>5

(* A TRADE leaves the book alone. *)
LEMMA AppliedTrade ==
  ASSUME NEW F, NEW me, me.type_ = "TRADE"
  PROVE  applied(F, me) = F
BY DEF applied

(* An order of a new slot fits, and becomes one the rows leave. *)
LEMMA LobsterAdd ==
  ASSUME NEW F, NEW slots, NEW left, LobsterBook(F, slots, left), NEW id, id \notin DOMAIN slots,
         NEW n \in Nat, \A jd \in DOMAIN slots : slots[jd] \in 0 .. n - 1,
         NEW me \in Update, me.type_ = "ADD", me.order_id_ = n
  PROVE  /\ Fits(F, me)
         /\ LobsterBook(applied(F, me), With(slots, id, n),
                        left \cup {[id |-> id, side |-> me.side_, price |-> me.price_]})
<1> DEFINE G == applied(F, me)
           new == With(slots, id, n)
           r == [id |-> id, side |-> me.side_, price |-> me.price_]
<1>1. /\ DOMAIN G = DOMAIN F \cup {n}
      /\ G[n] = [side |-> me.side_, price |-> me.price_, qty |-> me.qty_]
      /\ \A i \in DOMAIN F : i # n => G[i] = F[i]
  <2>1. /\ DOMAIN G = DOMAIN F \cup {me.order_id_}
        /\ G[me.order_id_] = [side |-> me.side_, price |-> me.price_, qty |-> me.qty_]
        /\ \A i \in DOMAIN F : i # me.order_id_ => G[i] = F[i]
    BY AppliedAdd
  <2> QED BY <2>1, Zenon
<1>2. /\ DOMAIN new = DOMAIN slots \cup {id} /\ new[id] = n
      /\ \A jd \in DOMAIN slots : jd # id /\ new[jd] = slots[jd] /\ new[jd] # n
  BY DEF With
<1>3. r.id = id /\ r.side = me.side_ /\ r.price = me.price_
  OBVIOUS
<1>4. G[n] \in BookOrder /\ G[n].side = me.side_ /\ G[n].price = me.price_
  BY <1>1 DEF Update, BookOrder
<1> HIDE DEF G, new, r
<1>5. \A jd \in DOMAIN slots : slots[jd] \in DOMAIN F /\ new[jd] = slots[jd] /\ G[new[jd]] = F[slots[jd]]
  BY <1>1, <1>2 DEF LobsterBook
<1>6. n \notin DOMAIN F
  BY DEF LobsterBook
<1>7. Fits(F, me)
  BY <1>6 DEF Fits
<1>8. DOMAIN G = {new[jd] : jd \in DOMAIN new}
  BY <1>1, <1>2 DEF LobsterBook
<1>9. \A jd, kd \in DOMAIN new : new[jd] = new[kd] => jd = kd
  BY <1>2 DEF LobsterBook
<1>10. \A jd \in DOMAIN new : G[new[jd]] \in BookOrder
  BY <1>2, <1>4, <1>5 DEF LobsterBook
<1>11. \A jd \in DOMAIN new : \E o \in left \cup {r} : o.id = jd
  BY <1>2, <1>3 DEF LobsterBook
<1>12. \A o \in left \cup {r} : /\ o.id \in DOMAIN new
                                /\ o.side = G[new[o.id]].side /\ o.price = G[new[o.id]].price
  BY <1>2, <1>3, <1>4, <1>5 DEF LobsterBook
<1>13. LobsterBook(G, new, left \cup {r})
  BY <1>8, <1>9, <1>10, <1>11, <1>12 DEF LobsterBook
<1> QED BY <1>7, <1>13 DEF G, new, r

(* The CANCEL of an order with a slot fits, and gives up the slot. *)
LEMMA LobsterCancel ==
  ASSUME NEW F, NEW slots, NEW left, LobsterBook(F, slots, left), NEW id \in DOMAIN slots,
         NEW me, me.type_ = "CANCEL", me.order_id_ = slots[id]
  PROVE  /\ Fits(F, me)
         /\ LobsterBook(applied(F, me), Without(slots, {id}), {o \in left : o.id # id})
<1> DEFINE G == applied(F, me)
           new == Without(slots, {id})
           rest == {o \in left : o.id # id}
<1>1. /\ DOMAIN G = DOMAIN F \ {slots[id]}
      /\ \A i \in DOMAIN F : i # slots[id] => G[i] = F[i]
  BY AppliedCancel
<1>2. /\ DOMAIN new = DOMAIN slots \ {id}
      /\ \A jd \in DOMAIN new : jd \in DOMAIN slots /\ jd # id /\ new[jd] = slots[jd]
  BY DEF Without
<1>3. \A o \in rest : o \in left /\ o.id # id
  OBVIOUS
<1>4. \A o \in left : o.id # id => o \in rest
  OBVIOUS
<1> HIDE DEF G, new, rest
<1>5. \A jd \in DOMAIN new : G[new[jd]] = F[slots[jd]]
  BY <1>1, <1>2 DEF LobsterBook
<1>6. Fits(F, me)
  BY DEF Fits, LobsterBook
<1>7. DOMAIN G = {new[jd] : jd \in DOMAIN new}
  BY <1>1, <1>2 DEF LobsterBook
<1>8. \A jd, kd \in DOMAIN new : new[jd] = new[kd] => jd = kd
  BY <1>2 DEF LobsterBook
<1>9. \A jd \in DOMAIN new : G[new[jd]] \in BookOrder
  BY <1>2, <1>5 DEF LobsterBook
<1>10. \A jd \in DOMAIN new : \E o \in rest : o.id = jd
  BY <1>2, <1>4 DEF LobsterBook
<1>11. \A o \in rest : /\ o.id \in DOMAIN new
                       /\ o.side = G[new[o.id]].side /\ o.price = G[new[o.id]].price
  BY <1>2, <1>3, <1>5 DEF LobsterBook
<1>12. LobsterBook(G, new, rest)
  BY <1>7, <1>8, <1>9, <1>10, <1>11 DEF LobsterBook
<1> QED BY <1>6, <1>12 DEF G, new, rest

(* The MODIFY of an order with a slot fits. *)
LEMMA LobsterModify ==
  ASSUME NEW F, NEW slots, NEW left, LobsterBook(F, slots, left), NEW id \in DOMAIN slots,
         NEW me \in Update, me.type_ = "MODIFY", me.order_id_ = slots[id]
  PROVE  Fits(F, me) /\ LobsterBook(applied(F, me), slots, left)
<1> DEFINE G == applied(F, me)
<1>0. slots[id] \in DOMAIN F /\ F[slots[id]] \in BookOrder /\ me.qty_ \in Nat
  BY DEF LobsterBook, Update
<1>1. /\ DOMAIN G = DOMAIN F /\ G[slots[id]] \in BookOrder
      /\ G[slots[id]].side = F[slots[id]].side /\ G[slots[id]].price = F[slots[id]].price
      /\ \A i \in DOMAIN F : i # slots[id] => G[i] = F[i]
  BY <1>0, AppliedModify
<1> HIDE DEF G
<1>2. Fits(F, me)
  BY <1>0 DEF Fits
<1>3. \A jd \in DOMAIN slots : /\ G[slots[jd]] \in BookOrder
                               /\ G[slots[jd]].side = F[slots[jd]].side
                               /\ G[slots[jd]].price = F[slots[jd]].price
  <2> SUFFICES ASSUME NEW jd \in DOMAIN slots
               PROVE  /\ G[slots[jd]] \in BookOrder
                      /\ G[slots[jd]].side = F[slots[jd]].side
                      /\ G[slots[jd]].price = F[slots[jd]].price
    OBVIOUS
  <2>1. CASE slots[jd] = slots[id]
    BY <1>1, <2>1
  <2>2. CASE slots[jd] # slots[id]
    BY <1>1, <2>2 DEF LobsterBook
  <2> QED BY <2>1, <2>2
<1>4. LobsterBook(G, slots, left)
  BY <1>1, <1>3 DEF LobsterBook
<1> QED BY <1>2, <1>4 DEF G

-----------------------------------------------------------------------------
(* A Binance side moves: its order is cancelled, if it has one, and added anew. *)

OtherSide(s) == IF s = "BUY" THEN "SELL" ELSE "BUY"

(* The prices and the orders without those of side s. *)
Dropped(prices, left, s, new, rest) ==
  /\ new = [prices EXCEPT ![s] = Price_INVALID]
  /\ rest = {o \in left : o.side # s}

(* The CANCEL of a side's synthetic order fits, and leaves it no price. *)
LEMMA BinanceCancel ==
  ASSUME NEW F, NEW prices \in [Side -> Prices \cup {Price_INVALID}], NEW ids, NEW left,
         BinanceBook(F, prices, ids, left), NEW s \in Priced(prices),
         NEW me, me.type_ = "CANCEL", me.order_id_ = ids[s],
         NEW new, NEW rest, Dropped(prices, left, s, new, rest)
  PROVE  Fits(F, me) /\ BinanceBook(applied(F, me), new, ids, rest)
<1> DEFINE G == applied(F, me)
<1>0. s \in Side
  BY DEF Priced
<1>1. /\ DOMAIN G = DOMAIN F \ {ids[s]}
      /\ \A i \in DOMAIN F : i # ids[s] => G[i] = F[i]
  BY AppliedCancel
<1>2. /\ Priced(new) = Priced(prices) \ {s}
      /\ \A x \in Priced(new) : x \in Priced(prices) /\ x # s /\ new[x] = prices[x]
  BY <1>0 DEF Priced, Dropped
<1>3. /\ \A o \in rest : o \in left /\ o.side # s
      /\ \A o \in left : o.side # s => o \in rest
  BY DEF Dropped
<1> HIDE DEF G
<1>4. \A x \in Priced(prices) : x # s => ids[x] # ids[s]
  BY DEF BinanceBook
<1>5. Fits(F, me)
  BY DEF Fits, BinanceBook
<1>6. DOMAIN G = {ids[x] : x \in Priced(new)}
  BY <1>1, <1>2, <1>4 DEF BinanceBook
<1>7. \A x \in Priced(new) : G[ids[x]].side = x /\ G[ids[x]].price = new[x]
  BY <1>1, <1>2, <1>4 DEF BinanceBook
<1>8. /\ \A x \in Priced(new) : \E r \in rest : r.side = x
      /\ \A r \in rest : r.side \in Priced(new) /\ r.price = new[r.side]
  BY <1>2, <1>3 DEF BinanceBook
<1>9. BinanceBook(G, new, ids, rest)
  BY <1>6, <1>7, <1>8 DEF BinanceBook
<1> QED BY <1>5, <1>9 DEF G

(* A synthetic order with an id the other side does not use fits. *)
LEMMA BinanceAdd ==
  ASSUME NEW F, NEW prices \in [Side -> Prices \cup {Price_INVALID}], NEW ids \in [Side -> Nat], NEW left,
         BinanceBook(F, prices, ids, left), NEW s \in Side, prices[s] = Price_INVALID,
         NEW me, me.type_ = "ADD", me.side_ = s, me.price_ \in Prices,
         OtherSide(s) \in Priced(prices) => ids[OtherSide(s)] # me.order_id_
  PROVE  /\ Fits(F, me)
         /\ BinanceBook(applied(F, me), [prices EXCEPT ![s] = me.price_], [ids EXCEPT ![s] = me.order_id_],
                        left \cup {[id |-> s, side |-> s, price |-> me.price_]})
<1> DEFINE G == applied(F, me)
           n == me.order_id_
           p == me.price_
           new == [prices EXCEPT ![s] = p]
           nids == [ids EXCEPT ![s] = n]
           r == [id |-> s, side |-> s, price |-> p]
<1>1. /\ DOMAIN G = DOMAIN F \cup {n}
      /\ G[n] = [side |-> s, price |-> p, qty |-> me.qty_]
      /\ \A i \in DOMAIN F : i # n => G[i] = F[i]
  BY AppliedAdd
<1>2. G[n].side = s /\ G[n].price = p /\ r.side = s /\ r.price = p
  BY <1>1
<1>3. p # Price_INVALID
  BY RowsAssumption DEF Price_INVALID
<1>4. /\ Priced(new) = Priced(prices) \cup {s} /\ s \notin Priced(prices)
      /\ new[s] = p /\ nids[s] = n
      /\ \A x \in Priced(prices) : x = OtherSide(s) /\ new[x] = prices[x] /\ nids[x] = ids[x] /\ ids[x] # n
  BY <1>3 DEF Priced, OtherSide, Side
<1> HIDE DEF G, new, nids, r, n, p
<1>5. n \notin DOMAIN F
  BY <1>4 DEF BinanceBook
<1>6. Fits(F, me)
  BY <1>5 DEF Fits, n
<1>7. DOMAIN G = {nids[x] : x \in Priced(new)}
  BY <1>1, <1>4 DEF BinanceBook
<1>8. \A x \in Priced(new) : G[nids[x]].side = x /\ G[nids[x]].price = new[x]
  BY <1>1, <1>2, <1>4 DEF BinanceBook
<1>9. \A x \in Priced(new) : \E o \in left \cup {r} : o.side = x
  BY <1>2, <1>4 DEF BinanceBook
<1>10. \A o \in left \cup {r} : o.side \in Priced(new) /\ o.price = new[o.side]
  BY <1>2, <1>4 DEF BinanceBook
<1>11. BinanceBook(G, new, nids, left \cup {r})
  BY <1>7, <1>8, <1>9, <1>10 DEF BinanceBook
<1> QED BY <1>6, <1>11 DEF G, new, nids, r, n, p

(* The prices, ids and orders with a in the place of the order of side s. *)
Moved(prices, ids, left, s, a, p2, i2, l2) ==
  /\ p2 = [prices EXCEPT ![s] = a.price_]
  /\ i2 = [ids EXCEPT ![s] = a.order_id_]
  /\ l2 = {o \in left : o.side # s} \cup {[id |-> s, side |-> s, price |-> a.price_]}

(* The side's order is replaced by one at the new price, which takes an id *)
(* that the other side does not use.                                       *)
LEMMA BinanceMove ==
  ASSUME NEW F, NEW prices \in [Side -> Prices \cup {Price_INVALID}], NEW ids \in [Side -> Nat], NEW left,
         BinanceBook(F, prices, ids, left), NEW s \in Side,
         NEW c, c.type_ = "CANCEL", c.order_id_ = ids[s],
         NEW a, a.type_ = "ADD", a.side_ = s, a.price_ \in Prices,
         OtherSide(s) \in Priced(prices) => ids[OtherSide(s)] # a.order_id_,
         NEW G, G = IF prices[s] = Price_INVALID THEN F ELSE applied(F, c),
         NEW p2, NEW i2, NEW l2, Moved(prices, ids, left, s, a, p2, i2, l2)
  PROVE  /\ prices[s] # Price_INVALID => Fits(F, c)
         /\ Fits(G, a)
         /\ BinanceBook(applied(G, a), p2, i2, l2)
<1>1. PICK P2, rest : P2 = [prices EXCEPT ![s] = Price_INVALID] /\ rest = {o \in left : o.side # s}
  OBVIOUS
<1>2. (prices[s] # Price_INVALID => Fits(F, c)) /\ BinanceBook(G, P2, ids, rest)
  <2>1. CASE prices[s] # Price_INVALID
    <3>1. s \in Priced(prices)
      BY <2>1 DEF Priced
    <3>2. Fits(F, c) /\ BinanceBook(applied(F, c), P2, ids, rest)
      <4>1. Dropped(prices, left, s, P2, rest)
        BY <1>1 DEF Dropped
      <4> QED BY <3>1, <4>1, BinanceCancel
    <3> QED BY <1>1, <2>1, <3>2
  <2>2. CASE prices[s] = Price_INVALID
    <3>1. P2 = prices
      BY <1>1, <2>2
    <3>2. rest = left
      BY <1>1, <2>2 DEF BinanceBook, Priced
    <3> QED BY <2>2, <3>1, <3>2
  <2> QED BY <2>1, <2>2
<1>3. /\ P2 \in [Side -> Prices \cup {Price_INVALID}] /\ P2[s] = Price_INVALID
      /\ (OtherSide(s) \in Priced(P2) => ids[OtherSide(s)] # a.order_id_)
  BY <1>1 DEF Priced, OtherSide, Side
<1>4. /\ Fits(G, a)
      /\ BinanceBook(applied(G, a), [P2 EXCEPT ![s] = a.price_], [ids EXCEPT ![s] = a.order_id_],
                     rest \cup {[id |-> s, side |-> s, price |-> a.price_]})
  BY <1>2, <1>3, BinanceAdd
<1>5. [P2 EXCEPT ![s] = a.price_] = [prices EXCEPT ![s] = a.price_]
  BY <1>1
<1>6. /\ p2 = [P2 EXCEPT ![s] = a.price_] /\ i2 = [ids EXCEPT ![s] = a.order_id_]
      /\ l2 = rest \cup {[id |-> s, side |-> s, price |-> a.price_]}
  BY <1>1, <1>5 DEF Moved
<1> QED BY <1>2, <1>4, <1>6

-----------------------------------------------------------------------------
(* A row is read: its updates join those in flight *)

(* With rest still to be pushed, the updates in flight lead to the book F. *)
Ahead(rest, F) ==
  \E Q, h : InFlight(Q, output_queue_, rest) /\ Trail(Q, h, book) /\ h[Len(Q)] = F

(* An update that fits at the end of the trail makes it longer. *)
LEMMA AheadMore ==
  ASSUME Typed, NEW rest \in Seq(Update), NEW F, Ahead(rest, F), NEW me \in Update, Fits(F, me)
  PROVE  Ahead(Append(rest, me), applied(F, me))
<1>1. PICK Q, h : InFlight(Q, output_queue_, rest) /\ Trail(Q, h, book) /\ h[Len(Q)] = F
  BY DEF Ahead
<1>2. Q \in Seq(Update)
  BY <1>1 DEF InFlight
<1>3. PICK g : Trail(Append(Q, me), g, book) /\ g[Len(Append(Q, me))] = applied(F, me)
  BY <1>1, <1>2, ExtendTrail
<1>4. InFlight(Append(Q, me), output_queue_, Append(rest, me))
  <2>1. PICK R, r : R = Append(Q, me) /\ r = Append(rest, me)
    OBVIOUS
  <2>2. /\ Len(output_queue_) \in Nat /\ Len(rest) \in Nat
        /\ Len(Q) = Len(output_queue_) + Len(rest)
        /\ R \in Seq(Update) /\ Len(R) = Len(Q) + 1 /\ R[Len(Q) + 1] = me
        /\ \A i \in 1 .. Len(Q) : R[i] = Q[i]
        /\ Len(r) = Len(rest) + 1 /\ r[Len(rest) + 1] = me /\ \A i \in 1 .. Len(rest) : r[i] = rest[i]
    <3>1. Len(Q) = Len(output_queue_) + Len(rest) /\ Len(output_queue_) \in Nat /\ Len(rest) \in Nat
      BY <1>1 DEF InFlight, Typed
    <3>2. /\ R \in Seq(Update) /\ Len(R) = Len(Q) + 1 /\ R[Len(Q) + 1] = me
          /\ \A i \in 1 .. Len(Q) : R[i] = Q[i]
      BY <1>2, <2>1
    <3>3. Len(r) = Len(rest) + 1 /\ r[Len(rest) + 1] = me /\ \A i \in 1 .. Len(rest) : r[i] = rest[i]
      BY <2>1
    <3> QED BY <3>1, <3>2, <3>3
  <2>3. \A i \in 1 .. Len(output_queue_) : R[i] = output_queue_[i].me
    BY <1>1, <2>2 DEF InFlight
  <2>4. ASSUME NEW i \in 1 .. Len(r) PROVE R[Len(output_queue_) + i] = r[i]
    <3>1. CASE i = Len(rest) + 1
      BY <2>2, <3>1
    <3>2. CASE i # Len(rest) + 1
      <4>1. i \in 1 .. Len(rest) /\ Len(output_queue_) + i \in 1 .. Len(Q)
        BY <2>2, <3>2
      <4> QED BY <1>1, <2>2, <4>1 DEF InFlight
    <3> QED BY <3>1, <3>2
  <2>5. Len(R) = Len(output_queue_) + Len(r)
    BY <2>2
  <2> QED BY <2>1, <2>2, <2>3, <2>4, <2>5 DEF InFlight
<1> QED BY <1>3, <1>4 DEF Ahead

(* What LobsterRow and BinanceRow leave alone, and what makes Tracked' of it. *)
LEMMA TrackedNext ==
  ASSUME NEW F, Ahead(pushing', F), UNCHANGED <<output_queue_, book, format>>, Final(F)'
  PROVE  Tracked'
<1>1. PICK Q, h : InFlight(Q, output_queue_, pushing') /\ Trail(Q, h, book) /\ h[Len(Q)] = F
  BY DEF Ahead
<1>2. InFlight(Q, output_queue_', pushing') /\ Trail(Q, h, book')
  BY <1>1
<1>3. Final(h[Len(Q)])'
  BY <1>1
<1> QED BY <1>2, <1>3 DEF Tracked

(* The trail leads past what is still to be pushed. *)
LEMMA TrackedNow ==
  ASSUME Tracked
  PROVE  \E F : Ahead(pushing, F) /\ Final(F)
BY DEF Tracked, Ahead

(* The fields of an update of LobsterReplay. *)
LEMMA UpdateType ==
  ASSUME NEW type \in Types, NEW slot \in Nat, NEW side \in Side,
         NEW price \in Prices \cup {Price_INVALID}, NEW size \in Nat
  PROVE  LET u == lobsterUpdate(type, slot, side, price, size) IN
         /\ u \in Update /\ u.type_ = type /\ u.order_id_ = slot /\ u.side_ = side
         /\ u.price_ = price /\ u.qty_ = size
BY DEF lobsterUpdate, Update

(* A row of a LOBSTER file, of any type. *)
LEMMA LobsterRowR ==
  ASSUME RInv, NEW t \in {1, 2, 3, 4, 7}, NEW id \in LobsterIds, NEW side \in Side, NEW price \in Prices,
         NEW size \in Sizes \ {0}, pushing = << >>, LobsterRow(t, id, side, price, size),
         UNCHANGED <<format, queue_aware, seq_num, finished_, output_queue_, sim_output_queue_,
                     next_exp_inc_seq_num_, book, sim_seen>>
  PROVE  RInv'
<1>t. Typed
  BY DEF RInv
<1>e. << >> \in Seq(Update)
  OBVIOUS
<1>0. Numbered'
  BY DEF RInv, Numbered
<1>1. PICK type : type = mapType(t)
  OBVIOUS
<1>2. type \in Types \cup {"INVALID"}
  BY <1>1 DEF mapType, Types
<1>3. format = "lobster" /\ UNCHANGED <<best, oid, next_oid, collided>>
  BY DEF LobsterRow
<1>4. CASE ~hasSlot(type, id)
  <2>1. UNCHANGED <<lobster_id_to_slot_, next_slot_, pushing, resting>>
    BY <1>1, <1>4 DEF LobsterRow
  <2>2. Typed'
    BY <1>t, <1>3, <2>1 DEF Typed
  <2>3. Tracked => Tracked'
    BY <1>3, <2>1 DEF Tracked, Final
  <2> QED BY <1>0, <1>3, <2>2, <2>3 DEF RInv
<1>5. CASE hasSlot(type, id)
  <2> DEFINE known == id \in DOMAIN lobster_id_to_slot_
  <2>0. PICK slot, slots : /\ slot = IF known THEN lobster_id_to_slot_[id] ELSE next_slot_
                           /\ slots = IF known THEN lobster_id_to_slot_ ELSE With(lobster_id_to_slot_, id, slot)
    OBVIOUS
  <2>1. PICK me : me = lobsterUpdate(type, slot, side, price, size)
    OBVIOUS
  <2>2. /\ pushing' = <<me>>
        /\ next_slot_' = IF known THEN next_slot_ ELSE next_slot_ + 1
        /\ lobster_id_to_slot_' = forget(slots, type, id)
        /\ resting' = CASE type = "ADD" -> resting \cup {[id |-> id, side |-> side, price |-> price]}
                        [] type = "CANCEL" -> { o \in resting : o.id # id }
                        [] OTHER -> resting
        /\ type = "ADD" => ~known
    BY <1>1, <1>5, <2>0, <2>1 DEF LobsterRow
  <2>3. type \in Types /\ (known \/ type = "ADD") /\ (known <=> type # "ADD")
    BY <1>2, <1>5, <2>2 DEF hasSlot
  <2>4. slot \in Nat
    BY <1>t, <2>0 DEF Typed
  <2>5. /\ me \in Update /\ me.type_ = type /\ me.order_id_ = slot /\ me.side_ = side
        /\ me.price_ = price /\ me.qty_ = size
    BY <2>1, <2>3, <2>4, RowsAssumption, UpdateType
  <2>6. CASE type = "ADD"
    <3>1. /\ slot = next_slot_ /\ lobster_id_to_slot_' = With(lobster_id_to_slot_, id, next_slot_)
          /\ next_slot_' = next_slot_ + 1
          /\ resting' = resting \cup {[id |-> id, side |-> me.side_, price |-> me.price_]}
      BY <2>0, <2>2, <2>3, <2>5, <2>6 DEF forget
    <3>2. \A jd \in DOMAIN lobster_id_to_slot_' : lobster_id_to_slot_'[jd] \in 0 .. next_slot_' - 1
      BY <1>t, <3>1 DEF Typed, With
    <3>3. Typed'
      <4>1. pushing' \in Seq(Update) /\ next_slot_' \in Nat
        BY <1>t, <2>2, <2>5, <3>1 DEF Typed
      <4> QED BY <1>t, <1>3, <3>2, <4>1 DEF Typed
    <3>4. ASSUME Tracked PROVE Tracked'
      <4>1. PICK F : Ahead(<< >>, F) /\ Final(F)
        BY <3>4, TrackedNow
      <4>2. LobsterBook(F, lobster_id_to_slot_, resting)
        BY <1>3, <4>1 DEF Final
      <4>3. /\ Fits(F, me)
            /\ LobsterBook(applied(F, me), With(lobster_id_to_slot_, id, next_slot_),
                           resting \cup {[id |-> id, side |-> me.side_, price |-> me.price_]})
        BY <1>t, <2>3, <2>5, <2>6, <3>1, <4>2, LobsterAdd DEF Typed
      <4>4. Ahead(Append(<< >>, me), applied(F, me))
        BY <1>t, <1>e, <2>5, <4>1, <4>3, AheadMore, Zenon
      <4>5. Append(<< >>, me) = <<me>>
        OBVIOUS
      <4>6. Final(applied(F, me))'
        BY <1>3, <3>1, <4>3 DEF Final
      <4>7. Ahead(pushing', applied(F, me))
        BY <2>2, <4>4, <4>5
      <4> QED BY <4>6, <4>7, TrackedNext
    <3> QED BY <1>0, <1>3, <3>3, <3>4 DEF RInv
  <2>7. CASE type = "CANCEL"
    <3>1. /\ known /\ slot = lobster_id_to_slot_[id]
          /\ lobster_id_to_slot_' = Without(lobster_id_to_slot_, {id})
          /\ next_slot_' = next_slot_ /\ resting' = { o \in resting : o.id # id }
      BY <2>0, <2>2, <2>3, <2>7 DEF forget
    <3>2. \A jd \in DOMAIN lobster_id_to_slot_' : lobster_id_to_slot_'[jd] \in 0 .. next_slot_' - 1
      BY <1>t, <3>1 DEF Typed, Without
    <3>3. Typed'
      <4>1. pushing' \in Seq(Update) /\ next_slot_' \in Nat
        BY <1>t, <2>2, <2>5, <3>1 DEF Typed
      <4> QED BY <1>t, <1>3, <3>2, <4>1 DEF Typed
    <3>4. ASSUME Tracked PROVE Tracked'
      <4>1. PICK F : Ahead(<< >>, F) /\ Final(F)
        BY <3>4, TrackedNow
      <4>2. LobsterBook(F, lobster_id_to_slot_, resting)
        BY <1>3, <4>1 DEF Final
      <4>3. /\ Fits(F, me)
            /\ LobsterBook(applied(F, me), Without(lobster_id_to_slot_, {id}), {o \in resting : o.id # id})
        BY <2>5, <2>7, <3>1, <4>2, LobsterCancel
      <4>4. Ahead(Append(<< >>, me), applied(F, me))
        BY <1>t, <1>e, <2>5, <4>1, <4>3, AheadMore, Zenon
      <4>5. Append(<< >>, me) = <<me>>
        OBVIOUS
      <4>6. Final(applied(F, me))'
        BY <1>3, <3>1, <4>3 DEF Final
      <4>7. Ahead(pushing', applied(F, me))
        BY <2>2, <4>4, <4>5
      <4> QED BY <4>6, <4>7, TrackedNext
    <3> QED BY <1>0, <1>3, <3>3, <3>4 DEF RInv
  <2>8. CASE type \in {"MODIFY", "TRADE"}
    <3>1. /\ known /\ slot = lobster_id_to_slot_[id] /\ lobster_id_to_slot_' = lobster_id_to_slot_
          /\ next_slot_' = next_slot_ /\ resting' = resting
      BY <2>0, <2>2, <2>3, <2>8 DEF forget
    <3>3. Typed'
      BY <1>t, <1>3, <2>2, <2>5, <3>1 DEF Typed
    <3>4. ASSUME Tracked PROVE Tracked'
      <4>1. PICK F : Ahead(<< >>, F) /\ Final(F)
        BY <3>4, TrackedNow
      <4>2. LobsterBook(F, lobster_id_to_slot_, resting)
        BY <1>3, <4>1 DEF Final
      <4>3. Fits(F, me) /\ LobsterBook(applied(F, me), lobster_id_to_slot_, resting)
        <5>1. CASE type = "MODIFY"
          BY <2>5, <3>1, <4>2, <5>1, LobsterModify
        <5>2. CASE type = "TRADE"
          <6>1. applied(F, me) = F
            BY <2>5, <5>2, AppliedTrade
          <6> QED BY <2>5, <4>2, <5>2, <6>1 DEF Fits
        <5> QED BY <2>8, <5>1, <5>2
      <4>4. Ahead(Append(<< >>, me), applied(F, me))
        BY <1>t, <1>e, <2>5, <4>1, <4>3, AheadMore, Zenon
      <4>5. Append(<< >>, me) = <<me>>
        OBVIOUS
      <4>6. Final(applied(F, me))'
        BY <1>3, <3>1, <4>3 DEF Final
      <4>7. Ahead(pushing', applied(F, me))
        BY <2>2, <4>4, <4>5
      <4> QED BY <4>6, <4>7, TrackedNext
    <3> QED BY <1>0, <1>3, <3>3, <3>4 DEF RInv
  <2> QED BY <2>3, <2>6, <2>7, <2>8 DEF Types
<1> QED BY <1>4, <1>5

(* A row of a Binance file: a CANCEL, an ADD and a TRADE at most. *)
LEMMA BinanceRowR ==
  ASSUME RInv, NEW price \in Prices, NEW qty \in Sizes, NEW is_buyer_maker \in BOOLEAN,
         pushing = << >>, BinanceRow(price, qty, is_buyer_maker),
         UNCHANGED <<format, queue_aware, seq_num, finished_, output_queue_, sim_output_queue_,
                     next_exp_inc_seq_num_, book, sim_seen>>
  PROVE  RInv'
<1>t. Typed
  BY DEF RInv
<1>e. << >> \in Seq(Update)
  OBVIOUS
<1>0. Numbered'
  BY DEF RInv, Numbered
<1>1. PICK side, other : /\ side = IF is_buyer_maker THEN "BUY" ELSE "SELL"
                         /\ other = IF is_buyer_maker THEN "SELL" ELSE "BUY"
  OBVIOUS
<1>2. side \in Side /\ other \in Side /\ other = OtherSide(side)
  BY <1>1 DEF Side, OtherSide
<1>3. PICK td : td = lobsterUpdate("TRADE", 0, other, price, qty)
  OBVIOUS
<1>4. td \in Update /\ td.type_ = "TRADE"
  BY <1>2, <1>3, RowsAssumption, UpdateType DEF Types
<1>5. format = "binance-aggtrades" /\ UNCHANGED <<lobster_id_to_slot_, next_slot_>>
  BY DEF BinanceRow
<1>6. ASSUME NEW F PROVE applied(F, td) = F /\ Fits(F, td)
  BY <1>4, AppliedTrade DEF Fits
<1>7. CASE qty = 0 \/ price = best[side]
  <2>1. /\ pushing' = IF qty = 0 THEN << >> ELSE <<td>>
        /\ UNCHANGED <<best, oid, next_oid, resting, collided>>
    BY <1>1, <1>3, <1>7 DEF BinanceRow, ghosts
  <2>2. Typed'
    BY <1>t, <1>4, <1>5, <2>1 DEF Typed
  <2>3. ASSUME Tracked PROVE Tracked'
    <3>1. PICK F : Ahead(<< >>, F) /\ Final(F)
      BY <2>3, TrackedNow
    <3>2. Final(F)'
      BY <1>5, <2>1, <3>1 DEF Final
    <3>3. Ahead(Append(<< >>, td), applied(F, td))
      BY <1>t, <1>e, <1>4, <1>6, <3>1, AheadMore, Zenon
    <3>4. Append(<< >>, td) = <<td>>
      OBVIOUS
    <3>5. Ahead(pushing', F)
      BY <1>6, <2>1, <3>1, <3>3, <3>4
    <3> QED BY <3>2, <3>5, TrackedNext
  <2> QED BY <1>0, <2>1, <2>2, <2>3 DEF RInv
<1>8. CASE ~(qty = 0 \/ price = best[side])
  <2>1. PICK c, a : /\ c = lobsterUpdate("CANCEL", oid[side], side, best[side], 1)
                    /\ a = lobsterUpdate("ADD", next_oid, side, price, 1)
    OBVIOUS
  <2>2. /\ c \in Update /\ c.type_ = "CANCEL" /\ c.order_id_ = oid[side]
        /\ a \in Update /\ a.type_ = "ADD" /\ a.order_id_ = next_oid /\ a.side_ = side /\ a.price_ = price
    <3>1. oid[side] \in Nat /\ best[side] \in Prices \cup {Price_INVALID} /\ next_oid \in Nat
      BY <1>t, <1>2 DEF Typed
    <3>2. "CANCEL" \in Types /\ "ADD" \in Types /\ 1 \in Nat
      BY DEF Types
    <3>3. c \in Update /\ c.type_ = "CANCEL" /\ c.order_id_ = oid[side]
      BY <1>2, <2>1, <3>1, <3>2, UpdateType
    <3>4. /\ a \in Update /\ a.type_ = "ADD" /\ a.order_id_ = next_oid /\ a.side_ = side
          /\ a.price_ = price
      BY <1>2, <2>1, <3>1, <3>2, UpdateType
    <3> QED BY <3>3, <3>4
  <2>3. /\ pushing' = moveSide(side, price, oid[side], next_oid) \o <<td>>
        /\ oid' = [oid EXCEPT ![side] = next_oid]
        /\ best' = [best EXCEPT ![side] = price]
        /\ next_oid' = freshOid
        /\ collided' = (collided \/ (best[other] # Price_INVALID /\ oid[other] = next_oid))
        /\ resting' = { o \in resting : o.side # side }
                      \cup {[id |-> side, side |-> side, price |-> price]}
    BY <1>1, <1>3, <1>8 DEF BinanceRow
  <2>4. PICK x \in Seq(Update) : /\ x = IF best[side] = Price_INVALID THEN << >> ELSE Append(<< >>, c)
                                 /\ pushing' = Append(Append(x, a), td)
    <3>1. PICK x : x = IF best[side] = Price_INVALID THEN << >> ELSE <<c>>
      OBVIOUS
    <3>2. x \in Seq(Update) /\ Append(<< >>, c) = <<c>>
      BY <2>2, <3>1
    <3>3. pushing' = (x \o <<a>>) \o <<td>>
      BY <2>1, <2>3, <3>1, Zenon DEF moveSide
    <3>4. x \o <<a>> = Append(x, a) /\ Append(x, a) \in Seq(Update)
      BY <2>2, <3>2, AppendIsConcat
    <3>5. Append(x, a) \o <<td>> = Append(Append(x, a), td)
      BY <1>4, <3>4, AppendIsConcat
    <3> QED BY <3>1, <3>2, <3>3, <3>4, <3>5
  <2>5. Typed'
    <3>1. pushing' \in Seq(Update)
      BY <1>4, <2>2, <2>4
    <3>2. next_oid' \in Nat
      BY <1>t, <2>3, IdsAssumption DEF freshOid, Typed
    <3>3. oid' \in [Side -> Nat] /\ best' \in [Side -> Prices \cup {Price_INVALID}]
      BY <1>t, <1>2, <2>3 DEF Typed
    <3> QED BY <1>t, <1>5, <3>1, <3>2, <3>3 DEF Typed
  <2>6. ASSUME ~collided' PROVE ~collided /\ (other \in Priced(best) => oid[other] # next_oid)
    BY <2>3, <2>6 DEF Priced
  <2>7. ASSUME Tracked, ~collided' PROVE Tracked'
    <3>1. PICK F : Ahead(<< >>, F) /\ Final(F)
      BY <2>7, TrackedNow
    <3>2. BinanceBook(F, best, oid, resting)
      BY <1>5, <3>1 DEF Final
    <3>3. PICK G : G = IF best[side] = Price_INVALID THEN F ELSE applied(F, c)
      OBVIOUS
    <3>m. PICK p2, i2, l2 : p2 = best' /\ i2 = oid' /\ l2 = resting'
      OBVIOUS
    <3>4. /\ best[side] # Price_INVALID => Fits(F, c)
          /\ Fits(G, a)
          /\ BinanceBook(applied(G, a), p2, i2, l2)
      <4>1. best \in [Side -> Prices \cup {Price_INVALID}] /\ oid \in [Side -> Nat]
        BY <1>t DEF Typed
      <4>2. OtherSide(side) \in Priced(best) => oid[OtherSide(side)] # a.order_id_
        BY <1>2, <2>2, <2>6, <2>7
      <4>3. a.price_ \in Prices
        BY <2>2
      <4>4. Moved(best, oid, resting, side, a, p2, i2, l2)
        BY <2>2, <2>3, <3>m DEF Moved
      <4> QED BY <1>2, <2>2, <3>2, <3>3, <4>1, <4>2, <4>3, <4>4, BinanceMove
    <3>5. Final(applied(G, a))'
      BY <1>5, <3>m, <3>4 DEF Final
    <3>6. Ahead(x, G)
      <4>1. CASE best[side] = Price_INVALID
        BY <2>4, <3>1, <3>3, <4>1
      <4>2. CASE best[side] # Price_INVALID
        <5>1. Ahead(Append(<< >>, c), applied(F, c))
          BY <1>t, <1>e, <2>2, <3>1, <3>4, <4>2, AheadMore, Zenon
        <5> QED BY <2>4, <3>3, <4>2, <5>1
      <4> QED BY <4>1, <4>2
    <3>7. Ahead(Append(x, a), applied(G, a))
      BY <1>t, <2>2, <3>4, <3>6, AheadMore, Zenon
    <3>8. Append(x, a) \in Seq(Update)
      BY <2>2
    <3>9. Ahead(Append(Append(x, a), td), applied(G, a))
      <4>1. Ahead(Append(Append(x, a), td), applied(applied(G, a), td))
        BY <1>t, <1>4, <1>6, <3>7, <3>8, AheadMore, Zenon
      <4> QED BY <1>6, <4>1, Zenon
    <3>10. Ahead(pushing', applied(G, a))
      BY <2>4, <3>9
    <3> QED BY <3>5, <3>10, TrackedNext
  <2> QED BY <1>0, <2>5, <2>6, <2>7 DEF RInv
<1> QED BY <1>7, <1>8

-----------------------------------------------------------------------------
(* The other steps *)

(* push() writes the next update of the row to both queues. *)
LEMMA PushR == ASSUME RInv, push PROVE RInv'
<1> USE DEF push
<1>t. Typed
  BY DEF RInv
<1>1. PICK mdp : mdp = [seq_num_ |-> seq_num, me |-> Head(pushing)]
  OBVIOUS
<1>2. /\ pushing # << >> /\ output_queue_' = Append(output_queue_, mdp)
      /\ sim_output_queue_' = (IF queue_aware THEN Append(sim_output_queue_, mdp) ELSE sim_output_queue_)
      /\ seq_num' = seq_num + 1 /\ pushing' = Tail(pushing)
      /\ UNCHANGED <<format, queue_aware, rows, lobster_id_to_slot_, next_slot_, best, oid, next_oid,
                     finished_, next_exp_inc_seq_num_, book, sim_seen, resting, collided>>
  BY <1>1 DEF sim_tee, replayVars, ghosts
<1>3. /\ pushing \in Seq(Update) /\ Head(pushing) \in Update /\ Head(pushing) = pushing[1]
      /\ Len(pushing) \in Nat /\ Len(pushing) >= 1
      /\ Tail(pushing) \in Seq(Update) /\ Len(Tail(pushing)) = Len(pushing) - 1
      /\ \A i \in 1 .. Len(pushing) - 1 : Tail(pushing)[i] = pushing[i + 1]
  BY <1>t, <1>2 DEF Typed
<1>4. mdp \in Mdp /\ mdp.seq_num_ = seq_num /\ mdp.me = pushing[1]
  BY <1>t, <1>1, <1>3 DEF Typed, Mdp
<1>5. /\ output_queue_ \in Seq(Mdp) /\ Len(output_queue_) \in Nat
      /\ output_queue_' \in Seq(Mdp) /\ Len(output_queue_') = Len(output_queue_) + 1
      /\ output_queue_'[Len(output_queue_) + 1] = mdp
      /\ \A i \in 1 .. Len(output_queue_) : output_queue_'[i] = output_queue_[i]
  BY <1>t, <1>2, <1>4 DEF Typed
<1>6. /\ sim_output_queue_ \in Seq(Mdp) /\ sim_output_queue_' \in Seq(Mdp) /\ Len(sim_output_queue_) \in Nat
      /\ ~queue_aware => sim_output_queue_' = sim_output_queue_
      /\ queue_aware => /\ Len(sim_output_queue_') = Len(sim_output_queue_) + 1
                        /\ sim_output_queue_'[Len(sim_output_queue_) + 1] = mdp
                        /\ \A i \in 1 .. Len(sim_output_queue_) : sim_output_queue_'[i] = sim_output_queue_[i]
  BY <1>t, <1>2, <1>4 DEF Typed
<1>7. Typed'
  BY <1>t, <1>2, <1>3, <1>5, <1>6 DEF Typed
<1>8. Numbered'
  <2>0. seq_num \in Nat /\ next_exp_inc_seq_num_ \in Nat /\ sim_seen \in Nat
    BY <1>t DEF Typed
  <2>n. Numbered
    BY DEF RInv
  <2>1. seq_num' = next_exp_inc_seq_num_' + Len(output_queue_')
    BY <1>2, <1>5, <2>0, <2>n DEF Numbered
  <2>2. ASSUME NEW i \in 1 .. Len(output_queue_') PROVE output_queue_'[i].seq_num_ = next_exp_inc_seq_num_' + i - 1
    <3>1. CASE i = Len(output_queue_) + 1
      BY <1>2, <1>4, <1>5, <2>0, <2>n, <3>1 DEF Numbered
    <3>2. CASE i # Len(output_queue_) + 1
      <4>1. i \in 1 .. Len(output_queue_)
        BY <1>5, <3>2
      <4> QED BY <1>2, <1>5, <2>n, <4>1 DEF Numbered
    <3> QED BY <3>1, <3>2
  <2>3. CASE queue_aware
    <3>1. seq_num' = sim_seen' + 1 + Len(sim_output_queue_')
      <4>1. seq_num = sim_seen + 1 + Len(sim_output_queue_)
        BY <2>3, <2>n DEF Numbered
      <4>2. Len(sim_output_queue_') = Len(sim_output_queue_) + 1 /\ Len(sim_output_queue_) \in Nat
        BY <1>6, <2>3
      <4>3. PICK m, n : m = Len(sim_output_queue_') /\ n = Len(sim_output_queue_)
        OBVIOUS
      <4>4. m = n + 1 /\ n \in Nat /\ seq_num = sim_seen + 1 + n
        BY <4>1, <4>2, <4>3
      <4>5. seq_num + 1 = sim_seen + 1 + m
        BY <2>0, <4>4
      <4> QED BY <1>2, <4>3, <4>5
    <3>2. ASSUME NEW i \in 1 .. Len(sim_output_queue_') PROVE sim_output_queue_'[i].seq_num_ = sim_seen' + i
      <4>1. CASE i = Len(sim_output_queue_) + 1
        BY <1>2, <1>4, <1>6, <2>0, <2>n, <2>3, <4>1 DEF Numbered
      <4>2. CASE i # Len(sim_output_queue_) + 1
        <5>1. i \in 1 .. Len(sim_output_queue_)
          BY <1>6, <2>3, <4>2
        <5> QED BY <1>2, <1>6, <2>n, <2>3, <5>1 DEF Numbered
      <4> QED BY <4>1, <4>2
    <3> QED BY <1>2, <2>1, <2>2, <2>3, <3>1, <3>2 DEF Numbered
  <2>4. CASE ~queue_aware
    BY <1>2, <1>6, <2>1, <2>2, <2>4, <2>n DEF Numbered
  <2> QED BY <2>3, <2>4
<1>9. ASSUME Tracked PROVE Tracked'
  <2>1. PICK Q, h : InFlight(Q, output_queue_, pushing) /\ Trail(Q, h, book) /\ Final(h[Len(Q)])
    BY <1>9 DEF Tracked
  <2>2. Final(h[Len(Q)])' /\ Trail(Q, h, book')
    BY <1>2, <2>1 DEF Final
  <2>3. PICK queue, rest : queue = output_queue_' /\ rest = pushing'
    OBVIOUS
  <2>4. InFlight(Q, queue, rest)
    <3>1. Len(Q) = Len(queue) + Len(rest) /\ Q \in Seq(Update)
      BY <1>2, <1>3, <1>5, <2>1, <2>3 DEF InFlight
    <3>2. ASSUME NEW i \in 1 .. Len(queue) PROVE Q[i] = queue[i].me
      <4>1. CASE i = Len(output_queue_) + 1
        BY <1>3, <1>4, <1>5, <2>1, <2>3, <4>1 DEF InFlight
      <4>2. CASE i # Len(output_queue_) + 1
        <5>1. i \in 1 .. Len(output_queue_)
          BY <1>5, <2>3, <4>2
        <5> QED BY <1>5, <2>1, <2>3, <5>1 DEF InFlight
      <4> QED BY <4>1, <4>2
    <3>3. ASSUME NEW i \in 1 .. Len(rest) PROVE Q[Len(queue) + i] = rest[i]
      <4>1. /\ i \in 1 .. Len(pushing) - 1 /\ i + 1 \in 1 .. Len(pushing)
            /\ Len(queue) + i = Len(output_queue_) + (i + 1)
        BY <1>2, <1>3, <1>5, <2>3
      <4>2. rest[i] = pushing[i + 1]
        BY <1>2, <1>3, <2>3, <4>1
      <4> QED BY <2>1, <4>1, <4>2 DEF InFlight
    <3> QED BY <3>1, <3>2, <3>3 DEF InFlight
  <2> QED BY <2>2, <2>3, <2>4 DEF Tracked
<1> QED BY <1>2, <1>7, <1>8, <1>9 DEF RInv

(* The client applies the first update of its queue. *)
LEMMA ConsumeR == ASSUME RInv, Consume PROVE RInv'
<1>t. Typed
  BY DEF RInv
<1>n. Numbered
  BY DEF RInv
<1>1. PICK mdp, me : mdp = Head(output_queue_) /\ me = mdp.me
  OBVIOUS
<1>2. /\ output_queue_ # << >> /\ output_queue_' = Tail(output_queue_)
      /\ next_exp_inc_seq_num_' = mdp.seq_num_ + 1
      /\ book' = applied(book, me)
      /\ UNCHANGED <<format, queue_aware, rows, lobster_id_to_slot_, next_slot_, best, oid, next_oid,
                     pushing, seq_num, finished_, sim_output_queue_, sim_seen, resting, collided>>
  BY <1>1 DEF Consume, applied, replayVars, ghosts
<1>3. PICK queue : queue = output_queue_'
  OBVIOUS
<1>4. /\ Len(output_queue_) \in Nat /\ Len(output_queue_) >= 1 /\ 1 \in 1 .. Len(output_queue_)
      /\ mdp = output_queue_[1] /\ mdp \in Mdp
      /\ queue \in Seq(Mdp) /\ Len(queue) = Len(output_queue_) - 1
      /\ \A i \in 1 .. Len(output_queue_) - 1 : queue[i] = output_queue_[i + 1]
  BY <1>t, <1>1, <1>2, <1>3 DEF Typed
<1>5. seq_num \in Nat /\ next_exp_inc_seq_num_ \in Nat /\ sim_seen \in Nat
  BY <1>t DEF Typed
<1>6. mdp.seq_num_ = next_exp_inc_seq_num_
  BY <1>n, <1>4, <1>5 DEF Numbered
<1>7. Typed'
  BY <1>t, <1>2, <1>3, <1>4, <1>5, <1>6 DEF Typed
<1>8. Numbered'
  <2>1. seq_num' = next_exp_inc_seq_num_' + Len(queue)
    BY <1>n, <1>2, <1>4, <1>5, <1>6 DEF Numbered
  <2>2. ASSUME NEW i \in 1 .. Len(queue) PROVE queue[i].seq_num_ = next_exp_inc_seq_num_' + i - 1
    <3>1. i \in 1 .. Len(output_queue_) - 1 /\ i + 1 \in 1 .. Len(output_queue_)
      BY <1>4
    <3>2. queue[i].seq_num_ = next_exp_inc_seq_num_ + (i + 1) - 1
      BY <1>n, <1>4, <3>1 DEF Numbered
    <3> QED BY <1>2, <1>5, <1>6, <3>1, <3>2
  <2> QED BY <1>n, <1>2, <1>3, <2>1, <2>2 DEF Numbered
<1>9. ASSUME Tracked PROVE Tracked'
  <2>1. PICK Q, h : InFlight(Q, output_queue_, pushing) /\ Trail(Q, h, book) /\ Final(h[Len(Q)])
    BY <1>9 DEF Tracked
  <2>2. /\ Q \in Seq(Update) /\ Len(Q) = Len(output_queue_) + Len(pushing) /\ Len(pushing) \in Nat
        /\ Q[1] = me /\ Q # << >>
    BY <1>t, <1>1, <1>4, <2>1 DEF InFlight, Typed
  <2>3. PICK g : Trail(Tail(Q), g, applied(book, Q[1])) /\ g[Len(Tail(Q))] = h[Len(Q)]
    BY <2>1, <2>2, ShortenTrail
  <2>4. PICK R : R = Tail(Q)
    OBVIOUS
  <2>5. R \in Seq(Update) /\ Len(R) = Len(Q) - 1 /\ \A i \in 1 .. Len(Q) - 1 : R[i] = Q[i + 1]
    BY <2>2, <2>4
  <2>6. InFlight(R, queue, pushing)
    <3>1. Len(R) = Len(queue) + Len(pushing)
      BY <1>4, <2>2, <2>5
    <3>2. ASSUME NEW i \in 1 .. Len(queue) PROVE R[i] = queue[i].me
      <4>1. /\ i \in 1 .. Len(output_queue_) - 1 /\ i + 1 \in 1 .. Len(output_queue_) /\ i \in 1 .. Len(Q) - 1
        BY <1>4, <2>2
      <4> QED BY <1>4, <2>1, <2>5, <4>1 DEF InFlight
    <3>3. ASSUME NEW i \in 1 .. Len(pushing) PROVE R[Len(queue) + i] = pushing[i]
      <4>1. Len(queue) + i \in 1 .. Len(Q) - 1 /\ (Len(queue) + i) + 1 = Len(output_queue_) + i
        BY <1>4, <2>2
      <4>2. R[Len(queue) + i] = Q[Len(output_queue_) + i]
        BY <2>5, <4>1
      <4> QED BY <2>1, <4>2 DEF InFlight
    <3> QED BY <2>5, <3>1, <3>2, <3>3 DEF InFlight
  <2>7. Trail(R, g, book') /\ g[Len(R)] = h[Len(Q)]
    BY <1>2, <2>2, <2>3, <2>4
  <2>8. Final(g[Len(R)])'
    BY <1>2, <2>1, <2>7 DEF Final
  <2>9. InFlight(R, output_queue_', pushing')
    BY <1>2, <1>3, <2>6
  <2> QED BY <2>7, <2>8, <2>9 DEF Tracked
<1> QED BY <1>2, <1>7, <1>8, <1>9 DEF RInv

(* The simulator reads its copy. *)
LEMMA SimConsumeR == ASSUME RInv, SimConsume PROVE RInv'
<1>t. Typed /\ Numbered
  BY DEF RInv
<1>1. /\ queue_aware /\ sim_output_queue_ # << >> /\ sim_output_queue_' = Tail(sim_output_queue_)
      /\ sim_seen' = sim_seen + 1
      /\ UNCHANGED <<format, queue_aware, rows, lobster_id_to_slot_, next_slot_, best, oid, next_oid,
                     pushing, seq_num, finished_, output_queue_, next_exp_inc_seq_num_, book, resting, collided>>
  BY DEF SimConsume, replayVars, ghosts
<1>2. PICK queue : queue = sim_output_queue_'
  OBVIOUS
<1>3. /\ Len(sim_output_queue_) \in Nat /\ Len(sim_output_queue_) >= 1
      /\ queue \in Seq(Mdp) /\ Len(queue) = Len(sim_output_queue_) - 1
      /\ \A i \in 1 .. Len(sim_output_queue_) - 1 : queue[i] = sim_output_queue_[i + 1]
  BY <1>t, <1>1, <1>2 DEF Typed
<1>4. seq_num \in Nat /\ sim_seen \in Nat
  BY <1>t DEF Typed
<1>5. Typed'
  BY <1>t, <1>1, <1>2, <1>3 DEF Typed
<1>6. seq_num = sim_seen' + 1 + Len(queue)
  BY <1>t, <1>1, <1>3, <1>4 DEF Numbered
<1>7. ASSUME NEW i \in 1 .. Len(queue) PROVE queue[i].seq_num_ = sim_seen' + i
  <2>1. i \in 1 .. Len(sim_output_queue_) - 1 /\ i + 1 \in 1 .. Len(sim_output_queue_)
    BY <1>3
  <2>2. queue[i].seq_num_ = sim_seen + (i + 1)
    BY <1>t, <1>3, <2>1 DEF Numbered
  <2> QED BY <1>1, <1>4, <2>1, <2>2
<1>8. Numbered'
  BY <1>t, <1>1, <1>2, <1>6, <1>7 DEF Numbered
<1>9. Tracked => Tracked'
  BY <1>1 DEF Tracked, Final
<1> QED BY <1>1, <1>5, <1>8, <1>9 DEF RInv

(* A replay that has read nothing fits. *)
LEMMA InitR == Init => RInv
<1> SUFFICES ASSUME Init PROVE RInv
  OBVIOUS
<1> USE DEF Init
<1>1. Typed
  BY DEF Typed
<1>2. Numbered
  BY DEF Numbered
<1>3. InFlight(<< >>, output_queue_, pushing) /\ Trail(<< >>, [k \in {0} |-> book], book)
  BY DEF InFlight, Trail
<1>4. Final(book)
  <2>1. DOMAIN book = {} /\ DOMAIN lobster_id_to_slot_ = {} /\ resting = {}
    OBVIOUS
  <2>2. Priced(best) = {}
    BY DEF Priced
  <2> QED BY <2>1, <2>2 DEF Final, LobsterBook, BinanceBook
<1>5. Len(<< >>) = 0 /\ [k \in {0} |-> book][0] = book
  OBVIOUS
<1>6. PICK Q, h : Q = << >> /\ h = [k \in {0} |-> book]
  OBVIOUS
<1>7. InFlight(Q, output_queue_, pushing) /\ Trail(Q, h, book) /\ Final(h[Len(Q)])
  BY <1>3, <1>4, <1>5, <1>6
<1>8. Tracked
  BY <1>7 DEF Tracked
<1> QED BY <1>1, <1>2, <1>8 DEF RInv

(* Every step of the replay and its readers keeps the invariant. *)
LEMMA NextR == RInv /\ [Next]_vars => RInv'
<1> SUFFICES ASSUME RInv, [Next]_vars PROVE RInv'
  OBVIOUS
<1>1. CASE ReadRow
  <2>1. /\ pushing = << >>
        /\ UNCHANGED <<format, queue_aware, seq_num, finished_, output_queue_, sim_output_queue_,
                       next_exp_inc_seq_num_, book, sim_seen>>
    BY <1>1 DEF ReadRow
  <2>2. ASSUME NEW t \in {1, 2, 3, 4, 7}, NEW id \in LobsterIds, NEW s \in Side, NEW p \in Prices,
               NEW n \in Sizes \ {0}, LobsterRow(t, id, s, p, n)
        PROVE  RInv'
    BY <2>1, <2>2, LobsterRowR
  <2>3. ASSUME NEW p \in Prices, NEW n \in Sizes, NEW is_buyer_maker \in BOOLEAN,
               BinanceRow(p, n, is_buyer_maker)
        PROVE  RInv'
    BY <2>1, <2>3, BinanceRowR
  <2> QED BY <1>1, <2>2, <2>3 DEF ReadRow
<1>2. CASE push
  BY <1>2, PushR
<1>3. CASE Consume
  BY <1>3, ConsumeR
<1>4. CASE SimConsume
  BY <1>4, SimConsumeR
<1>5. CASE Finish \/ UNCHANGED vars
  <2>1. UNCHANGED <<format, queue_aware, lobster_id_to_slot_, next_slot_, best, oid, next_oid, pushing,
                    seq_num, output_queue_, sim_output_queue_, next_exp_inc_seq_num_, book, sim_seen,
                    resting, collided>>
    BY <1>5 DEF Finish, vars, replayVars, ghosts
  <2>2. Typed' /\ Numbered'
    BY <2>1 DEF RInv, Typed, Numbered
  <2>3. Tracked => Tracked'
    BY <2>1 DEF Tracked, Final
  <2> QED BY <2>1, <2>2, <2>3 DEF RInv
<1> QED BY <1>1, <1>2, <1>3, <1>4, <1>5 DEF Next

(* The invariant holds of every replay. *)
THEOREM ReplayInvariance == Spec => []RInv
<1> QED BY InitR, NextR, PTL DEF Spec

(* Whatever rows a file leaves out, the updates the replay threads write   *)
(* always find their order in the client's book, and an ADD finds its id   *)
(* free, unless a synthetic Binance id has run round to one still in use.  *)
THEOREM UpdatesFindOrders == Spec => []OnlyLiveOrders
<1>1. RInv => OnlyLiveOrders
  <2> SUFFICES ASSUME RInv, output_queue_ # << >>, ~collided, NEW me, me = Head(output_queue_).me
               PROVE  CASE me.type_ = "ADD" -> me.order_id_ \notin DOMAIN book
                        [] me.type_ \in {"MODIFY", "CANCEL"} -> me.order_id_ \in DOMAIN book
                        [] OTHER -> TRUE
    BY DEF OnlyLiveOrders
  <2>1. PICK Q, h : InFlight(Q, output_queue_, pushing) /\ Trail(Q, h, book)
    BY DEF RInv, Tracked
  <2>2. /\ output_queue_ \in Seq(Mdp) /\ Len(output_queue_) \in Nat /\ Len(output_queue_) >= 1
        /\ Len(pushing) \in Nat /\ Head(output_queue_) = output_queue_[1]
    BY DEF RInv, Typed
  <2>3. Q[1] = me /\ 1 \in 1 .. Len(Q)
    BY <2>1, <2>2 DEF InFlight
  <2>4. Fits(h[1 - 1], Q[1]) /\ h[0] = book /\ 1 - 1 = 0
    BY <2>1, <2>3 DEF Trail
  <2>5. Fits(book, me)
    BY <2>3, <2>4
  <2> QED BY <2>5 DEF Fits
<1> QED BY <1>1, ReplayInvariance, PTL

(* Neither reader ever misses an update, and a client that has read all of *)
(* them holds the orders that the rows of the file have left.              *)
THEOREM FollowsTheFile == Spec => []BookFollowsRows
<1>1. RInv => BookFollowsRows
  <2> SUFFICES ASSUME RInv PROVE BookFollowsRows
    OBVIOUS
  <2>1. NoGap
    <3>1. output_queue_ # << >> => Head(output_queue_).seq_num_ = next_exp_inc_seq_num_
      <4>1. output_queue_ # << >> => /\ Head(output_queue_) = output_queue_[1] /\ 1 \in 1 .. Len(output_queue_)
        BY DEF RInv, Typed
      <4>2. next_exp_inc_seq_num_ + 1 - 1 = next_exp_inc_seq_num_
        BY DEF RInv, Typed
      <4> QED BY <4>1, <4>2 DEF RInv, Numbered
    <3>2. sim_output_queue_ # << >> => Head(sim_output_queue_).seq_num_ = sim_seen + 1
      <4>1. sim_output_queue_ # << >> => Head(sim_output_queue_) = sim_output_queue_[1] /\ 1 \in 1 .. Len(sim_output_queue_)
        BY DEF RInv, Typed
      <4> QED BY <4>1 DEF RInv, Numbered
    <3> QED BY <3>1, <3>2 DEF NoGap
  <2>2. ASSUME output_queue_ = << >>, pushing = << >>, ~collided
        PROVE  { [side |-> book[i].side, price |-> book[i].price] : i \in DOMAIN book }
               = { [side |-> o.side, price |-> o.price] : o \in resting }
    <3>1. PICK Q, h : InFlight(Q, output_queue_, pushing) /\ Trail(Q, h, book) /\ Final(h[Len(Q)])
      BY <2>2 DEF RInv, Tracked
    <3>2. Len(Q) = 0
      BY <2>2, <3>1 DEF InFlight
    <3>3. Final(book)
      BY <3>1, <3>2 DEF Trail
    <3>4. CASE format = "lobster"
      <4>1. LobsterBook(book, lobster_id_to_slot_, resting)
        BY <3>3, <3>4 DEF Final
      <4>2. ASSUME NEW i \in DOMAIN book
            PROVE  \E o \in resting : o.side = book[i].side /\ o.price = book[i].price
        BY <4>1 DEF LobsterBook
      <4>3. ASSUME NEW o \in resting
            PROVE  \E i \in DOMAIN book : o.side = book[i].side /\ o.price = book[i].price
        BY <4>1 DEF LobsterBook
      <4> QED BY <4>2, <4>3
    <3>5. CASE format # "lobster"
      <4>1. BinanceBook(book, best, oid, resting)
        BY <3>3, <3>5 DEF Final
      <4>2. ASSUME NEW i \in DOMAIN book
            PROVE  \E o \in resting : o.side = book[i].side /\ o.price = book[i].price
        BY <4>1 DEF BinanceBook
      <4>3. ASSUME NEW o \in resting
            PROVE  \E i \in DOMAIN book : o.side = book[i].side /\ o.price = book[i].price
        BY <4>1 DEF BinanceBook
      <4> QED BY <4>2, <4>3
    <3> QED BY <3>4, <3>5
  <2> QED BY <2>1, <2>2 DEF BookFollowsRows
<1> QED BY <1>1, ReplayInvariance, PTL
=============================================================================
