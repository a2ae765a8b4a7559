---------------------------- MODULE MEOrderBook ----------------------------
(***************************************************************************)
(* One instrument of the matching engine: exchange/matcher/me_order_book   *)
(* and the MatchingEngine methods that call it and that it calls.          *)
(*                                                                         *)
(* The engine thread handles one client request at a time.  A NEW request  *)
(* is Accept, one Match per passive order it trades with, and Rest or      *)
(* FullyFilled; a CANCEL request is one step.  Between the steps of a NEW  *)
(* request the responses and updates already sent are visible to the order *)
(* server and to the publisher, which read them from lock-free queues.     *)
(***************************************************************************)
EXTENDS Integers, Sequences, SequencesExt

CONSTANTS
  Clients,     \* ClientIds
  OrderIds,    \* client order ids
  Prices,      \* the prices inside the book's window (priceToIndex)
  Quantities,  \* the quantities clients ask for
  ReuseIds,    \* TRUE: clients may send the same client order id again
  MaxOrders    \* bound on the NEW requests handled

Side == {"BUY", "SELL"}

ASSUME PricesAssumption == Prices \subseteq Int
ASSUME QuantitiesAssumption == Quantities \subseteq Nat
ASSUME ReuseIdsAssumption == ReuseIds \in BOOLEAN
ASSUME MaxOrdersAssumption == MaxOrders \in Nat

(* OrderId_INVALID, and the null entries of cid_oid_to_order_ *)
None == 0
(* Priority_INVALID, Qty_INVALID and Price_INVALID *)
Invalid == -1

VARIABLES
  next_market_order_id_,
  price_orders_at_price_,  \* the FIFO of each price level, << >> for nullptr
  by_price_,               \* the levels linked from bids_by_price_ ("BUY") and
                           \* from asks_by_price_ ("SELL")
  cid_oid_to_order_,       \* the market order id of the order pointed to
  aggressor,               \* the NEW request being handled, if any
  used,                    \* the client order ids sent so far
  sent_responses,          \* what the step wrote to outgoing_ogw_responses_
  sent_updates             \* what the step wrote to outgoing_md_updates_

book == <<price_orders_at_price_, by_price_, cid_oid_to_order_>>
sent == <<sent_responses, sent_updates>>
vars == <<next_market_order_id_, book, aggressor, used, sent>>

-----------------------------------------------------------------------------
(* Orders, requests, responses and updates *)

MEOrder == [market_order_id_ : Nat, client_id_ : Clients, client_order_id_ : OrderIds,
            side_ : Side, price_ : Prices, qty_ : Nat, priority_ : Nat]

(* leaves_ is the local leaves_qty of add() and checkForMatch() *)
Aggressor == [market_order_id_ : Nat, client_id_ : Clients, client_order_id_ : OrderIds,
              side_ : Side, price_ : Prices, leaves_ : Nat]
Idle == [market_order_id_ |-> None]

Response(type, client, oid, mid, side, price, exec, leaves) ==
  [type_ |-> type, client_id_ |-> client, client_order_id_ |-> oid, market_order_id_ |-> mid,
   side_ |-> side, price_ |-> price, exec_qty_ |-> exec, leaves_qty_ |-> leaves]

Update(type, mid, side, price, qty, priority) ==
  [type_ |-> type, order_id_ |-> mid, side_ |-> side, price_ |-> price,
   qty_ |-> qty, priority_ |-> priority]

Opposite(side) == IF side = "BUY" THEN "SELL" ELSE "BUY"

(* The order of the levels on a side: the book's lists run from the best. *)
Better(side, p, q) == IF side = "BUY" THEN p > q ELSE p < q
IsBest(side, p) ==
  p \in by_price_[side] /\ \A q \in by_price_[side] : q # p => Better(side, p, q)

Level(p) == price_orders_at_price_[p]

(* The two tables, cid_oid_to_order_ and price_orders_at_price_, are       *)
(* arrays that no constructor fills.  The code relies on nullptr there,    *)
(* which is what the fresh pages of a book of this size hold; a book       *)
(* allocated in memory used before would follow whatever it finds.         *)
Init ==
  /\ next_market_order_id_ = 1
  /\ price_orders_at_price_ = [p \in Prices |-> << >>]
  /\ by_price_ = [s \in Side |-> {}]
  /\ cid_oid_to_order_ = [c \in Clients |-> [o \in OrderIds |-> None]]
  /\ aggressor = Idle
  /\ used = {}
  /\ sent_responses = << >>
  /\ sent_updates = << >>

-----------------------------------------------------------------------------
(* The containers *)

(* Mutant: every order of a level has priority 1. *)
Mut_getNextPriorityConstant(p) == 1

getNextPriority(p) ==
  IF Level(p) = << >> THEN 1 ELSE Level(p)[Len(Level(p))].priority_ + 1

(* Mutant: a new order is put in front of its level's FIFO. *)
Mut_addOrderInFront(order) ==
  /\ price_orders_at_price_' =
       [price_orders_at_price_ EXCEPT ![order.price_] = <<order>> \o @]
  /\ by_price_' = [by_price_ EXCEPT ![order.side_] = @ \cup {order.price_}]
  /\ cid_oid_to_order_' =
       [cid_oid_to_order_ EXCEPT ![order.client_id_][order.client_order_id_] =
          order.market_order_id_]

(* addOrder, with addOrdersAtPrice for a new level: the end of the FIFO *)
addOrder(order) ==
  /\ price_orders_at_price_' =
       [price_orders_at_price_ EXCEPT ![order.price_] = Append(@, order)]
  /\ by_price_' = IF Level(order.price_) = << >>
                  THEN [by_price_ EXCEPT ![order.side_] = @ \cup {order.price_}]
                  ELSE by_price_
  /\ cid_oid_to_order_' =
       [cid_oid_to_order_ EXCEPT ![order.client_id_][order.client_order_id_] =
          order.market_order_id_]

(* Mutant: the pointer to the removed order is kept. *)
Mut_removeOrderKeepsPointer(p, i) ==
  /\ price_orders_at_price_' = [price_orders_at_price_ EXCEPT ![p] = RemoveAt(@, i)]
  /\ by_price_' = IF Len(Level(p)) = 1
                  THEN [by_price_ EXCEPT ![Level(p)[i].side_] = @ \ {p}]
                  ELSE by_price_
  /\ UNCHANGED cid_oid_to_order_

(* removeOrder of the i-th order at p, with removeOrdersAtPrice for the last *)
removeOrder(p, i) ==
  LET order == Level(p)[i] IN
  /\ price_orders_at_price_' = [price_orders_at_price_ EXCEPT ![p] = RemoveAt(@, i)]
  /\ by_price_' = IF Len(Level(p)) = 1
                  THEN [by_price_ EXCEPT ![order.side_] = @ \ {p}]
                  ELSE by_price_
  /\ cid_oid_to_order_' =
       [cid_oid_to_order_ EXCEPT ![order.client_id_][order.client_order_id_] = None]

-----------------------------------------------------------------------------
(* MEOrderBook::add *)

Accept(c, o, side, price, qty) ==
  /\ aggressor = Idle
  /\ next_market_order_id_ <= MaxOrders
  /\ ReuseIds \/ <<c, o>> \notin used
  /\ used' = used \cup {<<c, o>>}
  /\ next_market_order_id_' = next_market_order_id_ + 1
  /\ aggressor' = [market_order_id_ |-> next_market_order_id_, client_id_ |-> c,
                   client_order_id_ |-> o, side_ |-> side, price_ |-> price,
                   leaves_ |-> qty]
  /\ sent_responses' = << Response("ACCEPTED", c, o, next_market_order_id_,
                                   side, price, 0, qty) >>
  /\ sent_updates' = << >>
  /\ UNCHANGED book

(* Mutant: an order at exactly the best opposite price does not trade. *)
Mut_MarketableStrict(p) ==
  /\ IsBest(Opposite(aggressor.side_), p)
  /\ IF aggressor.side_ = "BUY" THEN aggressor.price_ > p ELSE aggressor.price_ < p

(* Mutant: the comparison of the BUY loop copied to the SELL loop. *)
Mut_MarketableCopied(p) ==
  /\ IsBest(Opposite(aggressor.side_), p)
  /\ aggressor.price_ >= p

(* The loop condition of checkForMatch: the best opposite level is reached. *)
Marketable(p) ==
  /\ IsBest(Opposite(aggressor.side_), p)
  /\ IF aggressor.side_ = "BUY" THEN aggressor.price_ >= p ELSE aggressor.price_ <= p

(* Mutant: one less than can be traded. *)
Mut_fillQtyShort(order) ==
  (IF aggressor.leaves_ <= order.qty_ THEN aggressor.leaves_ ELSE order.qty_) - 1

(* fill_qty: what the aggressor has left or what the order has, the less *)
fillQty(order) ==
  IF aggressor.leaves_ <= order.qty_ THEN aggressor.leaves_ ELSE order.qty_

(* Mutant: both sides are told what the aggressor has left. *)
Mut_fillResponsesOneLeaves(order, fill, leaves, qty) ==
  << Response("FILLED", aggressor.client_id_, aggressor.client_order_id_,
              aggressor.market_order_id_, aggressor.side_, order.price_, fill, leaves),
     Response("FILLED", order.client_id_, order.client_order_id_,
              order.market_order_id_, order.side_, order.price_, fill, leaves) >>

(* The aggressor is told first, then the owner of the passive order. *)
fillResponses(order, fill, leaves, qty) ==
  << Response("FILLED", aggressor.client_id_, aggressor.client_order_id_,
              aggressor.market_order_id_, aggressor.side_, order.price_, fill, leaves),
     Response("FILLED", order.client_id_, order.client_order_id_,
              order.market_order_id_, order.side_, order.price_, fill, qty) >>

(* What the feed is told of the passive order, with qty left of it: a      *)
(* CANCEL carries the quantity it had before the trade.                    *)
passiveUpdate(order, qty) ==
  IF qty = 0
  THEN Update("CANCEL", order.market_order_id_, order.side_, order.price_, order.qty_, Invalid)
  ELSE Update("MODIFY", order.market_order_id_, order.side_, order.price_, qty,
              order.priority_)

(* match() with the first order of level p *)
Match(p) ==
  LET order == Head(Level(p))
      fill == fillQty(order)
      leaves == aggressor.leaves_ - fill
      qty == order.qty_ - fill
  IN
  /\ aggressor # Idle
  /\ aggressor.leaves_ > 0
  /\ Marketable(p)
  /\ aggressor' = [aggressor EXCEPT !.leaves_ = leaves]
  /\ sent_responses' = fillResponses(order, fill, leaves, qty)
  /\ sent_updates' = << Update("TRADE", None, aggressor.side_, p, fill, Invalid),
                        passiveUpdate(order, qty) >>
  /\ \/ /\ qty = 0
        /\ removeOrder(p, 1)
     \/ /\ qty # 0
        /\ price_orders_at_price_' = [price_orders_at_price_ EXCEPT ![p][1].qty_ = qty]
        /\ UNCHANGED <<by_price_, cid_oid_to_order_>>
  /\ UNCHANGED <<next_market_order_id_, used>>

(* What is left rests: the tail of add() when leaves_qty is not zero. *)
Rest ==
  LET order == [market_order_id_ |-> aggressor.market_order_id_,
                client_id_ |-> aggressor.client_id_,
                client_order_id_ |-> aggressor.client_order_id_,
                side_ |-> aggressor.side_, price_ |-> aggressor.price_,
                qty_ |-> aggressor.leaves_, priority_ |-> getNextPriority(aggressor.price_)]
  IN
  /\ aggressor # Idle
  /\ aggressor.leaves_ > 0
  /\ \/ by_price_[Opposite(aggressor.side_)] = {}
     \/ \E p \in Prices : IsBest(Opposite(aggressor.side_), p) /\ ~Marketable(p)
  /\ addOrder(order)
  /\ sent_responses' = << >>
  /\ sent_updates' = << Update("ADD", order.market_order_id_, order.side_, order.price_,
                               order.qty_, order.priority_) >>
  /\ aggressor' = Idle
  /\ UNCHANGED <<next_market_order_id_, used>>

(* add() returns without resting anything: traded in full, or qty was 0. *)
FullyFilled ==
  /\ aggressor # Idle
  /\ aggressor.leaves_ = 0
  /\ aggressor' = Idle
  /\ sent_responses' = << >>
  /\ sent_updates' = << >>
  /\ UNCHANGED <<next_market_order_id_, book, used>>

-----------------------------------------------------------------------------
(* MEOrderBook::cancel *)

CancelRejected(c, o) ==
  /\ aggressor = Idle
  /\ cid_oid_to_order_[c][o] = None
  /\ sent_responses' = << Response("CANCEL_REJECTED", c, o, None, "INVALID",
                                   Invalid, Invalid, Invalid) >>
  /\ sent_updates' = << >>
  /\ UNCHANGED <<next_market_order_id_, book, aggressor, used>>

Cancel(c, o) ==
  /\ aggressor = Idle
  /\ cid_oid_to_order_[c][o] # None
  /\ \E p \in Prices : \E i \in DOMAIN Level(p) :
       LET order == Level(p)[i] IN
       /\ order.market_order_id_ = cid_oid_to_order_[c][o]
       /\ removeOrder(p, i)
       /\ sent_updates' = << Update("CANCEL", order.market_order_id_, order.side_,
                                    order.price_, 0, order.priority_) >>
       /\ sent_responses' = << Response("CANCELED", c, o, order.market_order_id_,
                                        order.side_, order.price_, Invalid, order.qty_) >>
  /\ UNCHANGED <<next_market_order_id_, aggressor, used>>

-----------------------------------------------------------------------------
(* processClientRequest on whatever the gateways' requests can be.  Its    *)
(* default (a type_ other than NEW and CANCEL) ends the exchange, and      *)
(* cancel() rejects a client_id_ beyond its table without looking it up:   *)
(* no gateway sends the one, and for the other the order server's tables,  *)
(* which are of the same size, have no place either (order_server.h:67).   *)
HandleRequest ==
  \E c \in Clients, o \in OrderIds :
    \/ \E side \in Side, price \in Prices, qty \in Quantities : Accept(c, o, side, price, qty)
    \/ CancelRejected(c, o)
    \/ Cancel(c, o)

EngineStep == (\E p \in Prices : Match(p)) \/ Rest \/ FullyFilled

Next == HandleRequest \/ EngineStep

Spec == Init /\ [][Next]_vars

(* The engine thread runs a busy loop; clients need not send anything.     *)
FairSpec == Spec /\ WF_vars(EngineStep)

-----------------------------------------------------------------------------
(* Properties *)

TypeOK ==
  /\ next_market_order_id_ \in Nat \ {None}
  /\ price_orders_at_price_ \in [Prices -> Seq(MEOrder)]
  /\ by_price_ \in [Side -> SUBSET Prices]
  /\ cid_oid_to_order_ \in [Clients -> [OrderIds -> Nat]]
  /\ aggressor \in Aggressor \cup {Idle}
  /\ used \subseteq Clients \X OrderIds

(* The book is never crossed or locked, not even between two fills of one  *)
(* aggressive order: checkForMatch stops only where no opposite level is   *)
(* reached.                                                                *)
NotCrossed == \A b \in by_price_["BUY"], a \in by_price_["SELL"] : b < a

(* price_orders_at_price_ has one entry per price for both sides.  That is *)
(* safe: every order of a level is of the side whose list holds the level, *)
(* at that price and not exhausted, and no empty level stays linked.       *)
LevelsConsistent ==
  /\ \A p \in Prices : \A i \in DOMAIN Level(p) :
       /\ Level(p)[i].price_ = p
       /\ Level(p)[i].qty_ > 0
       /\ \A s \in Side : p \in by_price_[s] <=> s = Level(p)[i].side_
  /\ \A s \in Side : \A p \in by_price_[s] : Level(p) # << >>

(* Price-time priority: a step of match() trades only with an order that   *)
(* has no order of its side at a better price, nor an earlier one at its   *)
(* own price (market order ids are given in order of arrival).             *)
TradedWith(p, i) ==
  /\ aggressor # Idle
  /\ \A j \in DOMAIN price_orders_at_price_'[p] :
       price_orders_at_price_'[p][j] # Level(p)[i]
PriceTimePriority ==
  [][\A p \in Prices : \A i \in DOMAIN Level(p) :
       TradedWith(p, i) =>
         \A q \in Prices : \A j \in DOMAIN Level(q) :
           LET passive == Level(p)[i]
               other == Level(q)[j]
           IN  other.side_ = passive.side_ /\ other # passive =>
                 \/ Better(passive.side_, p, q)
                 \/ p = q /\ passive.market_order_id_ < other.market_order_id_]_vars

(* Even if clients reuse ids, cid_oid_to_order_ never points to an order   *)
(* given back to order_pool_: cancel() dereferences the pointer unchecked. *)
NoDanglingOrder ==
  \A c \in Clients, o \in OrderIds :
    cid_oid_to_order_[c][o] # None =>
      \E p \in Prices : \E i \in DOMAIN Level(p) :
        /\ Level(p)[i].market_order_id_ = cid_oid_to_order_[c][o]
        /\ Level(p)[i].client_id_ = c
        /\ Level(p)[i].client_order_id_ = o

(* The priorities published in the ADD updates grow along the FIFO of a    *)
(* level, so readers of the feed can rebuild the queue from them.          *)
PrioritiesFollowTime ==
  \A p \in Prices : \A i, j \in DOMAIN Level(p) :
    i < j => /\ Level(p)[i].priority_ < Level(p)[j].priority_
             /\ Level(p)[i].market_order_id_ < Level(p)[j].market_order_id_

(* checkForMatch's loop ends: a request that was taken on is finished.     *)
RequestCompletes == aggressor # Idle ~> aggressor = Idle
=============================================================================
