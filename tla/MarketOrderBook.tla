-------------------------- MODULE MarketOrderBook --------------------------
(***************************************************************************)
(* trading/strategy/market_order_book: the client's copy of one book, fed  *)
(* by the market data consumer, and the BBO the strategies trade on.       *)
(*                                                                         *)
(* CLEAR gives orders and levels back to their pools and leaves            *)
(* price_orders_at_price_ as it is, so the table may hold levels that were *)
(* freed.  Their memory is intact for a long time: a pool hands out a      *)
(* freed block only after its index has gone round all of its blocks,      *)
(* more than a million of them.  The model keeps freed orders and levels.  *)
(*                                                                         *)
(* A live client is fed the book of MEOrderBook, which never crosses.  In  *)
(* replay mode executions remove no order (lobster_replay.cpp:68,          *)
(* binance_aggtrades_replay.cpp:153): an order may come at a price where   *)
(* the other side rests.  It joins that level, and as the last to leave it *)
(* takes it off with its own side's head in hand: the head that leads to   *)
(* the level keeps pointing there, and other levels may be on no list any  *)
(* more.  PriceLevelList has the links this abstracts.                     *)
(***************************************************************************)
EXTENDS Integers, Sequences, SequencesExt

CONSTANTS
  Prices,
  Quantities,
  MaxOrders,  \* bound on the orders the exchange announces
  MaxClears   \* bound on the CLEARs, one per snapshot recovered from

Side == {"BUY", "SELL"}
Invalid == -1  \* Price_INVALID, Qty_INVALID

ASSUME PricesAssumption == Prices \subseteq Nat
ASSUME QuantitiesAssumption == Quantities \subseteq Nat \ {0}
ASSUME BoundsAssumption == MaxOrders \in Nat /\ MaxClears \in Nat

VARIABLES
  price_orders_at_price_,  \* the FIFO of the level each entry points to,
                           \* << >> for nullptr
  by_price_,               \* the levels linked from bids_by_price_ ("BUY") and
                           \* from asks_by_price_ ("SELL")
  freed_head,              \* the freed level that pointer leads to instead: its
                           \* price and the quantity of its last order
  lost,                    \* the lists of levels that neither pointer leads to
  oid_to_order_,           \* the price of the order pointed to, Invalid for nullptr
  bbo_,
  feed,                    \* what the updates so far say is in the book
  cleared,                 \* what the last CLEAR removed from it
  next_id,                 \* the next order the feed announces
  clears,
  replay_mode_,            \* the client of a backtest
  mixed                    \* ghost: an order has joined orders of the other side

bookVars == <<price_orders_at_price_, by_price_, freed_head, lost, oid_to_order_>>
vars == <<bookVars, bbo_, feed, cleared, next_id, clears, replay_mode_, mixed>>

NoLevel == [price_ |-> Invalid, qty_ |-> Invalid]

OrderIds == 1 .. MaxOrders
MarketOrder == [order_id_ : OrderIds, side_ : Side, qty_ : Quantities, freed : BOOLEAN]

Init ==
  /\ price_orders_at_price_ = [p \in Prices |-> << >>]
  /\ by_price_ = [s \in Side |-> {}]
  /\ freed_head = [s \in Side |-> NoLevel]
  /\ lost = {}
  /\ oid_to_order_ = [o \in OrderIds |-> Invalid]
  /\ bbo_ = [s \in Side |-> NoLevel]
  /\ feed = << >>
  /\ cleared = << >>
  /\ next_id = 1
  /\ clears = 0
  /\ replay_mode_ \in BOOLEAN
  /\ mixed = FALSE

-----------------------------------------------------------------------------
(* The containers *)

Level(p) == price_orders_at_price_[p]
Better(s, p, q) == IF s = "BUY" THEN p > q ELSE p < q
(* where the order of an id is in its level *)
indexOf(id) ==
  CHOOSE i \in DOMAIN Level(oid_to_order_[id]) :
    /\ Level(oid_to_order_[id])[i].order_id_ = id
    /\ ~Level(oid_to_order_[id])[i].freed

BestOf(s, p, S) == p \in S /\ \A q \in S \ {p} : Better(s, p, q)

(* a new level: of a head without next_entry_ a new list is started *)
addOrdersAtPrice(s, p) ==
  /\ by_price_' = [by_price_ EXCEPT ![s] = @ \cup {p}]
  /\ freed_head' = [freed_head EXCEPT ![s] = NoLevel]
  /\ UNCHANGED lost

(* The level is taken out of its list, by an order of the side s.  If it   *)
(* was alone, the pointer of s is cleared, and if it was the head of s,    *)
(* that moves on; a head of the other side stays where it is.              *)
removeOrdersAtPrice(s, p, qty) ==
  LET alone == {p} \in {by_price_[x] : x \in Side} \cup lost
      keepsHead(x) == x # s /\ BestOf(x, p, by_price_[x])
      dropped(x) == (x = s /\ alone) \/ keepsHead(x)
  IN
  /\ by_price_' = [x \in Side |-> IF dropped(x) THEN {} ELSE by_price_[x] \ {p}]
  /\ freed_head' = [x \in Side |-> IF keepsHead(x) THEN [price_ |-> p, qty_ |-> qty]
                                   ELSE IF dropped(x) THEN NoLevel ELSE freed_head[x]]
  /\ lost' = {R \ {p} : R \in lost \cup {by_price_[x] : x \in {y \in Side : dropped(y)}}} \ {{}}

(* Mutant: an order that joins a level goes to its front. *)
Mut_addOrderInFront(u) ==
  LET order == [order_id_ |-> u.order_id_, side_ |-> u.side_, qty_ |-> u.qty_, freed |-> FALSE] IN
  /\ price_orders_at_price_' = [price_orders_at_price_ EXCEPT ![u.price_] = <<order>> \o @]
  /\ IF Level(u.price_) = << >> THEN addOrdersAtPrice(u.side_, u.price_)
                               ELSE UNCHANGED <<by_price_, freed_head, lost>>
  /\ oid_to_order_' = [oid_to_order_ EXCEPT ![u.order_id_] = u.price_]

(* A level is created and linked only if the table has none for the price. *)
addOrder(u) ==
  LET order == [order_id_ |-> u.order_id_, side_ |-> u.side_, qty_ |-> u.qty_, freed |-> FALSE] IN
  /\ price_orders_at_price_' = [price_orders_at_price_ EXCEPT ![u.price_] = Append(@, order)]
  /\ IF Level(u.price_) = << >> THEN addOrdersAtPrice(u.side_, u.price_)
                               ELSE UNCHANGED <<by_price_, freed_head, lost>>
  /\ oid_to_order_' = [oid_to_order_ EXCEPT ![u.order_id_] = u.price_]

modifyOrder(u) ==
  /\ price_orders_at_price_' =
       [price_orders_at_price_ EXCEPT
          ![oid_to_order_[u.order_id_]][indexOf(u.order_id_)].qty_ = u.qty_]
  /\ UNCHANGED <<by_price_, freed_head, lost, oid_to_order_>>

removeOrder(u) ==
  LET p == oid_to_order_[u.order_id_]
      i == indexOf(u.order_id_)
  IN
  /\ price_orders_at_price_' = [price_orders_at_price_ EXCEPT ![p] = RemoveAt(@, i)]
  /\ IF Len(Level(p)) = 1 THEN removeOrdersAtPrice(Level(p)[i].side_, p, Level(p)[i].qty_)
                          ELSE UNCHANGED <<by_price_, freed_head, lost>>
  /\ oid_to_order_' = [oid_to_order_ EXCEPT ![u.order_id_] = Invalid]

(* Mutant: the orders are freed and the pointers to them kept. *)
Mut_clearBookKeepsPointers ==
  /\ price_orders_at_price_' =
       [p \in Prices |-> [i \in DOMAIN Level(p) |-> [Level(p)[i] EXCEPT !.freed = TRUE]]]
  /\ by_price_' = [s \in Side |-> {}]
  /\ UNCHANGED <<freed_head, lost, oid_to_order_>>

(* CLEAR: everything is freed, the price table is not touched.  Only a     *)
(* live client gets one, all of whose levels are on the lists.             *)
clearBook ==
  /\ price_orders_at_price_' =
       [p \in Prices |-> [i \in DOMAIN Level(p) |-> [Level(p)[i] EXCEPT !.freed = TRUE]]]
  /\ by_price_' = [s \in Side |-> {}]
  /\ UNCHANGED <<freed_head, lost>>
  /\ oid_to_order_' = [o \in OrderIds |-> Invalid]

-----------------------------------------------------------------------------
(* The BBO *)

topOfBook(s, levels, linked, freed) ==
  IF linked = {} THEN freed
  ELSE LET best == CHOOSE p \in linked : BestOf(s, p, linked)
       IN  [price_ |-> best, qty_ |-> FoldLeft(LAMBDA sum, o : sum + o.qty_, 0, levels[best])]

(* the prices on the list of a side; that of a freed head is read as well *)
listed(s) == by_price_[s] \cup ({freed_head[s].price_} \ {Invalid})

(* Mutant: an update at exactly the best price is overlooked. *)
Mut_sideUpdatedStrict(s, u) ==
  /\ u.side_ = s
  /\ listed(s) # {}
  /\ \A q \in listed(s) : Better(s, u.price_, q)

(* bid_updated and ask_updated, decided before the update is applied *)
sideUpdated(s, u) ==
  /\ u.side_ = s
  /\ listed(s) # {}
  /\ \A q \in listed(s) : ~Better(s, q, u.price_)

updateBBO(u) ==
  bbo_' = [s \in Side |-> IF sideUpdated(s, u)
                          THEN topOfBook(s, price_orders_at_price_', by_price_'[s], freed_head'[s])
                          ELSE bbo_[s]]

(* A TRADE is passed on to the strategy and leaves book and BBO alone. *)
onMarketUpdate(u) ==
  IF u.type_ = "TRADE" THEN UNCHANGED <<bookVars, bbo_>>
  ELSE /\ CASE u.type_ = "ADD" -> addOrder(u)
            [] u.type_ = "MODIFY" -> modifyOrder(u)
            [] u.type_ = "CANCEL" -> removeOrder(u)
            [] u.type_ = "CLEAR" -> clearBook
       /\ updateBBO(u)

-----------------------------------------------------------------------------
(* The updates that reach the book.  A live client's are those of          *)
(* MEOrderBook, whose book is never crossed and whose ids grow, and after  *)
(* a CLEAR the orders of the snapshot, in the order of their ids and       *)
(* perhaps without those that have gone in the meantime.  A replay's come  *)
(* from a file: no CLEAR, orders at any price, quantities set to any       *)
(* value, and ids that grow (MarketReplay).                                *)

update(type, id, order) ==
  [type_ |-> type, order_id_ |-> id, side_ |-> order.side_, price_ |-> order.price_,
   qty_ |-> order.qty_]

(* f with the value v at x *)
With(f, x, v) == [y \in DOMAIN f \cup {x} |-> IF y = x THEN v ELSE f[y]]
Only(f, S) == [y \in DOMAIN f \cap S |-> f[y]]

NotCrossing(order) ==
  \A o \in DOMAIN feed : feed[o].side_ # order.side_ =>
    Better(order.side_, feed[o].price_, order.price_)

(* the order joins the orders of the other side *)
JoinsOther(order) ==
  \E i \in DOMAIN Level(order.price_) :
    ~Level(order.price_)[i].freed /\ Level(order.price_)[i].side_ # order.side_

FeedAdd(order) ==
  /\ next_id <= MaxOrders
  /\ replay_mode_ \/ NotCrossing(order)
  /\ onMarketUpdate(update("ADD", next_id, order))
  /\ feed' = With(feed, next_id, order)
  /\ cleared' = << >>
  /\ next_id' = next_id + 1
  /\ mixed' = (mixed \/ JoinsOther(order))
  /\ UNCHANGED <<clears, replay_mode_>>

FeedSnapshotAdd(id) ==
  /\ onMarketUpdate(update("ADD", id, cleared[id]))
  /\ feed' = With(feed, id, cleared[id])
  /\ cleared' = Only(cleared, {o \in OrderIds : o > id})
  /\ UNCHANGED <<next_id, clears, replay_mode_, mixed>>

FeedModify(id, qty) ==
  /\ replay_mode_ \/ qty < feed[id].qty_
  /\ onMarketUpdate(update("MODIFY", id, [feed[id] EXCEPT !.qty_ = qty]))
  /\ feed' = [feed EXCEPT ![id].qty_ = qty]
  /\ cleared' = << >>
  /\ UNCHANGED <<next_id, clears, replay_mode_, mixed>>

FeedCancel(id) ==
  /\ onMarketUpdate(update("CANCEL", id, feed[id]))
  /\ feed' = Only(feed, OrderIds \ {id})
  /\ cleared' = << >>
  /\ UNCHANGED <<next_id, clears, replay_mode_, mixed>>

FeedClear ==
  /\ clears < MaxClears
  /\ ~replay_mode_
  /\ onMarketUpdate([type_ |-> "CLEAR", order_id_ |-> Invalid, side_ |-> "INVALID",
                     price_ |-> Invalid, qty_ |-> Invalid])
  /\ feed' = << >>
  /\ cleared' = feed
  /\ clears' = clears + 1
  /\ UNCHANGED <<next_id, replay_mode_, mixed>>

FeedTrade ==
  /\ onMarketUpdate([type_ |-> "TRADE"])
  /\ UNCHANGED <<feed, cleared, next_id, clears, replay_mode_, mixed>>

Next ==
  \/ \E s \in Side, p \in Prices, q \in Quantities :
       FeedAdd([side_ |-> s, price_ |-> p, qty_ |-> q])
  \/ \E id \in DOMAIN cleared : FeedSnapshotAdd(id)
  \/ \E id \in DOMAIN feed, qty \in Quantities : FeedModify(id, qty)
  \/ \E id \in DOMAIN feed : FeedCancel(id)
  \/ FeedClear
  \/ FeedTrade

Spec == Init /\ [][Next]_vars

-----------------------------------------------------------------------------
(* Properties *)

TypeOK ==
  /\ price_orders_at_price_ \in [Prices -> Seq(MarketOrder)]
  /\ by_price_ \in [Side -> SUBSET Prices]
  /\ lost \in SUBSET SUBSET Prices
  /\ oid_to_order_ \in [OrderIds -> Prices \cup {Invalid}]
  /\ LET top == [price_ : Prices \cup {Invalid}, qty_ : Nat \cup {Invalid}]
     IN  freed_head \in [Side -> top] /\ bbo_ \in [Side -> top]
  /\ DOMAIN feed \subseteq OrderIds
  /\ next_id \in 1 .. MaxOrders + 1
  /\ mixed \in BOOLEAN

(* The level at the price p is what the updates say: the orders in the     *)
(* order of their arrival, with their sides and quantities.                *)
HeldAt(p) ==
  /\ \A i, j \in DOMAIN Level(p) : i < j => Level(p)[i].order_id_ < Level(p)[j].order_id_
  /\ {Level(p)[i] : i \in DOMAIN Level(p)}
     = {[order_id_ |-> o, side_ |-> feed[o].side_, qty_ |-> feed[o].qty_, freed |-> FALSE] :
          o \in {x \in DOMAIN feed : feed[x].price_ = p}}

(* It is on the list of each side that has orders there. *)
LinkedAt(p) ==
  \A s \in Side :
    p \in by_price_[s] <=> \E o \in DOMAIN feed : feed[o].side_ = s /\ feed[o].price_ = p

(* The comment on CLEAR: it clears the full book.  What a reader who       *)
(* follows the lists from the best price finds is then what the updates    *)
(* say, after every recovery of a live client too.                         *)
BookMirrorsFeed ==
  ~replay_mode_ =>
    \A p \in Prices : LinkedAt(p) /\ \A s \in Side : p \in by_price_[s] => HeldAt(p)

(* What holds of it: every level that no CLEAR has freed is exact, and so  *)
(* is the whole book until the first recovery, in replay mode even where   *)
(* both sides rest at one price.  And the lists hold exactly the levels    *)
(* with orders, each side's on its own, until an order has joined orders   *)
(* of the other side.                                                      *)
MirrorsFeedWhereNotFreed ==
  \A p \in Prices : (\A i \in DOMAIN Level(p) : ~Level(p)[i].freed) =>
    HeldAt(p) /\ (~mixed => LinkedAt(p))

(* The pointer kept for o is to the one order with that id, if it exists. *)
Findable(o) ==
  IF o \in DOMAIN feed
  THEN /\ oid_to_order_[o] = feed[o].price_
       /\ \E i \in DOMAIN Level(feed[o].price_) :
            \A j \in DOMAIN Level(feed[o].price_) :
              LET order == Level(feed[o].price_)[j]
              IN  order.order_id_ = o /\ ~order.freed <=> j = i
  ELSE oid_to_order_[o] = Invalid

(* MODIFY and CANCEL dereference the pointer kept for an id unchecked.     *)
(* They always find the order, and exactly one, also after a CLEAR that    *)
(* left freed orders in the levels and where both sides share a level; no  *)
(* pointer is kept for another id.  updateBBO and toString follow the      *)
(* lists from bids_by_price_ and asks_by_price_.  These never lead to a    *)
(* freed order, and to a freed level or another side only in replay mode,  *)
(* once an order has joined orders of the other side.                      *)
NoFreedOrderReached ==
  /\ \A o \in OrderIds : Findable(o)
  /\ \A s \in Side : \A p \in by_price_[s] :
       Level(p) # << >> /\ \A i \in DOMAIN Level(p) : ~Level(p)[i].freed
  /\ mixed => replay_mode_
  /\ ~mixed => \A s \in Side :
       /\ freed_head[s] = NoLevel
       /\ \A p \in by_price_[s] : \A i \in DOMAIN Level(p) : Level(p)[i].side_ = s

(* Although the decision to refresh the BBO is taken before the update is  *)
(* applied, each side of it is the top of the book or invalid, and the     *)
(* strategies do not act on an invalid one: for a live client until the    *)
(* first CLEAR, in replay mode, where bid and ask may cross, until an      *)
(* order joins orders of the other side.                                   *)
BBOExactOrInvalid ==
  clears = 0 /\ ~mixed =>
    \A s \in Side :
      bbo_[s] \in {topOfBook(s, price_orders_at_price_, by_price_[s], freed_head[s]), NoLevel}
=============================================================================
