---------------------------- MODULE OrderManager ----------------------------
(***************************************************************************)
(* The trading client's orders in one instrument: trading/strategy/        *)
(* order_manager, the pre-trade check of risk_manager.h, the position kept *)
(* by position_keeper.h, and the two strategies that call them.            *)
(*                                                                         *)
(* The trade engine thread and the exchange run concurrently.  Requests    *)
(* and responses are in flight between them for any time, in order (they   *)
(* go through LFQueues and one TCP connection).  Of the exchange only what *)
(* one client sees of MEOrderBook's add, match and cancel is kept: its     *)
(* open orders may trade at any moment.  In a backtest FillSimulator is    *)
(* the exchange (module Backtest implements this one).                     *)
(***************************************************************************)
EXTENDS Integers, Sequences, FiniteSets, FiniteSetsExt

CONSTANTS
  Algos,         \* the strategies a client may run: "MAKER", "TAKER"
  Prices,
  Clip,          \* TradeEngineCfg::clip_
  MaxOrderSize,  \* RiskCfg::max_order_size_
  MaxPosition,   \* RiskCfg::max_position_
  MaxOrders      \* bound on the NEW requests sent

Side == {"BUY", "SELL"}
Price_INVALID == -1

ASSUME AlgosAssumption == Algos \subseteq {"MAKER", "TAKER"}
ASSUME PricesAssumption == Prices \subseteq Nat
ASSUME ClipAssumption == Clip \in Nat \ {0}
ASSUME LimitsAssumption == MaxOrderSize \in Nat /\ MaxPosition \in Nat
ASSUME MaxOrdersAssumption == MaxOrders \in Nat

VARIABLES
  algo,                \* the strategy TradeEngine was constructed with
  ticker_side_order_,  \* the OMOrder of each side
  next_order_id_,
  position_,           \* PositionInfo::position_
  requests,            \* sent by the client, not handled by the exchange
  responses,           \* sent by the exchange, not read by the trade engine
  open                 \* the client's orders in the exchange's book

vars == <<algo, ticker_side_order_, next_order_id_, position_, requests, responses, open>>

OMOrderState == {"INVALID", "PENDING_NEW", "LIVE", "PENDING_CANCEL", "DEAD"}
OMOrder == [order_id_ : 0 .. MaxOrders, price_ : Prices \cup {Price_INVALID},
            qty_ : 0 .. Clip, order_state_ : OMOrderState]
Request == [type_ : {"NEW", "CANCEL"}, order_id_ : 1 .. MaxOrders, side_ : Side,
            price_ : Prices, qty_ : 0 .. Clip]
(* Only the quantities of FILLED are read by the client, and kept. *)
Response == [type_ : {"FILLED"}, order_id_ : 1 .. MaxOrders, side_ : Side,
             exec_qty_ : 0 .. Clip, leaves_qty_ : 0 .. Clip]
            \cup [type_ : {"ACCEPTED", "CANCELED"}, order_id_ : 1 .. MaxOrders, side_ : Side]
            \cup [type_ : {"CANCEL_REJECTED"}, order_id_ : 1 .. MaxOrders]

sideToValue(side) == IF side = "BUY" THEN 1 ELSE -1
Abs(n) == IF n < 0 THEN -n ELSE n
OrderState(s) == ticker_side_order_[s].order_state_

Init ==
  /\ algo \in Algos
  /\ ticker_side_order_ = [s \in Side |-> [order_id_ |-> 0, price_ |-> Price_INVALID,
                                           qty_ |-> 0, order_state_ |-> "INVALID"]]
  /\ next_order_id_ = 1
  /\ position_ = 0
  /\ requests = << >>
  /\ responses = << >>
  /\ open = {}

-----------------------------------------------------------------------------
(* Sending orders *)

(* Mutant: the limit is checked against the position, not the new order. *)
Mut_checkPreTradeRiskLate(side, qty) ==
  /\ qty <= MaxOrderSize
  /\ Abs(position_) <= MaxPosition

(* The size and position tests; the loss test is the choice in moveOrders. *)
checkPreTradeRisk(side, qty) ==
  /\ qty <= MaxOrderSize
  /\ Abs(position_ + sideToValue(side) * qty) <= MaxPosition

(* Mutant: an order about to be cancelled is replaced at once. *)
Mut_OpensBeforeCanceled(s, price) ==
  /\ OrderState(s) \in {"INVALID", "DEAD", "PENDING_CANCEL"}
  /\ price # Price_INVALID
  /\ checkPreTradeRisk(s, Clip)

(* moveOrder of side s to price: sends a NEW request, ... *)
Opens(s, price) ==
  /\ OrderState(s) \in {"INVALID", "DEAD"}
  /\ price # Price_INVALID
  /\ checkPreTradeRisk(s, Clip)

(* ... or a CANCEL request, or nothing *)
Cancels(s, price) ==
  /\ OrderState(s) = "LIVE"
  /\ ticker_side_order_[s].price_ # price

(* moveOrders, with total_pnl_ at or above max_loss_ or not (any choice,   *)
(* see PositionKeeper).  The bid is moved first and takes the first id.    *)
moveOrders(bid_price, ask_price, loss_too_large) ==
  LET price == [s \in Side |-> IF s = "BUY" THEN bid_price ELSE ask_price]
      opens == {s \in Side : Opens(s, price[s]) /\ ~loss_too_large}
      cancels == {s \in Side : Cancels(s, price[s])}
      id(s) == IF s = "SELL" /\ "BUY" \in opens THEN next_order_id_ + 1 ELSE next_order_id_
      order(s) == ticker_side_order_[s]
      request(s) ==
        CASE s \in opens ->
               <<[type_ |-> "NEW", order_id_ |-> id(s), side_ |-> s, price_ |-> price[s],
                  qty_ |-> Clip]>>
          [] s \in cancels ->
               <<[type_ |-> "CANCEL", order_id_ |-> order(s).order_id_, side_ |-> s,
                  price_ |-> order(s).price_, qty_ |-> order(s).qty_]>>
          [] OTHER -> << >>
  IN
  /\ next_order_id_ + Cardinality(opens) <= MaxOrders + 1
  /\ next_order_id_' = next_order_id_ + Cardinality(opens)
  /\ ticker_side_order_' =
       [s \in Side |->
          CASE s \in opens -> [order_id_ |-> id(s), price_ |-> price[s], qty_ |-> Clip,
                               order_state_ |-> "PENDING_NEW"]
            [] s \in cancels -> [order(s) EXCEPT !.order_state_ = "PENDING_CANCEL"]
            [] OTHER -> order(s)]
  /\ requests' = requests \o request("BUY") \o request("SELL")
  /\ UNCHANGED <<algo, position_, responses, open>>

(* MarketMaker::onOrderBookUpdate: an order at or behind both best prices, *)
(* which are any prices, for the BBO may be stale                          *)
MarketMaker(bid_price, ask_price) ==
  /\ algo = "MAKER"
  /\ \E loss_too_large \in BOOLEAN : moveOrders(bid_price, ask_price, loss_too_large)

(* LiquidityTaker::onTradeUpdate: the side of the trade, at the other's best *)
LiquidityTaker(side, price) ==
  /\ algo = "TAKER"
  /\ \E loss_too_large \in BOOLEAN :
       IF side = "BUY" THEN moveOrders(price, Price_INVALID, loss_too_large)
                       ELSE moveOrders(Price_INVALID, price, loss_too_large)

-----------------------------------------------------------------------------
(* TradeEngine::onOrderUpdate: PositionKeeper::addFill, then the strategy's *)
(* OrderManager::onOrderUpdate.  The side alone finds the order: the ids of *)
(* the response are not looked at.                                          *)

(* Mutant: a fill does not end the order it fills completely. *)
Mut_afterResponseNeverDead(order, response) ==
  CASE response.type_ = "ACCEPTED" -> [order EXCEPT !.order_state_ = "LIVE"]
    [] response.type_ = "CANCELED" -> [order EXCEPT !.order_state_ = "DEAD"]
    [] response.type_ = "FILLED" -> [order EXCEPT !.qty_ = response.leaves_qty_]

afterResponse(order, response) ==
  CASE response.type_ = "ACCEPTED" -> [order EXCEPT !.order_state_ = "LIVE"]
    [] response.type_ = "CANCELED" -> [order EXCEPT !.order_state_ = "DEAD"]
    [] response.type_ = "FILLED" ->
         [order EXCEPT !.qty_ = response.leaves_qty_,
                       !.order_state_ = IF response.leaves_qty_ = 0 THEN "DEAD" ELSE @]

onOrderUpdate ==
  /\ responses # << >>
  /\ LET response == Head(responses) IN
       IF response.type_ = "CANCEL_REJECTED"
       THEN UNCHANGED <<position_, ticker_side_order_>>
       ELSE /\ position_' = IF response.type_ = "FILLED"
                            THEN position_ + sideToValue(response.side_) * response.exec_qty_
                            ELSE position_
            /\ ticker_side_order_' =
                 [ticker_side_order_ EXCEPT ![response.side_] = afterResponse(@, response)]
  /\ responses' = Tail(responses)
  /\ UNCHANGED <<algo, next_order_id_, requests, open>>

-----------------------------------------------------------------------------
(* What the client sees of the matching engine *)

respond(type, order) ==
  responses' = Append(responses, [type_ |-> type, order_id_ |-> order.order_id_,
                                  side_ |-> order.side_])

respondFilled(order, exec_qty, leaves_qty) ==
  responses' = Append(responses, [type_ |-> "FILLED", order_id_ |-> order.order_id_,
                                  side_ |-> order.side_, exec_qty_ |-> exec_qty,
                                  leaves_qty_ |-> leaves_qty])

ExchangeNew ==
  /\ requests # << >>
  /\ Head(requests).type_ = "NEW"
  /\ LET r == Head(requests) IN
       /\ open' = open \cup {[order_id_ |-> r.order_id_, side_ |-> r.side_, leaves_ |-> r.qty_]}
       /\ respond("ACCEPTED", r)
  /\ requests' = Tail(requests)
  /\ UNCHANGED <<algo, ticker_side_order_, next_order_id_, position_>>

ExchangeFill(order, fill) ==
  /\ fill <= order.leaves_
  /\ LET rest == order.leaves_ - fill IN
       /\ open' = (open \ {order}) \cup
                    (IF rest = 0 THEN {} ELSE {[order EXCEPT !.leaves_ = rest]})
       /\ respondFilled(order, fill, rest)
  /\ UNCHANGED <<algo, ticker_side_order_, next_order_id_, position_, requests>>

(* The backtest's FillSimulator ends an order with what the best level     *)
(* shows, also when that is less than the order: one FILLED, no leaves.    *)
SimulatorFill(order, fill) ==
  /\ fill < order.leaves_
  /\ open' = open \ {order}
  /\ respondFilled(order, fill, 0)
  /\ UNCHANGED <<algo, ticker_side_order_, next_order_id_, position_, requests>>

ExchangeCancel ==
  /\ requests # << >>
  /\ Head(requests).type_ = "CANCEL"
  /\ LET r == Head(requests)
         target == {o \in open : o.order_id_ = r.order_id_}
     IN
       /\ open' = open \ target
       /\ IF target = {}
          THEN responses' = Append(responses, [type_ |-> "CANCEL_REJECTED",
                                               order_id_ |-> r.order_id_])
          ELSE respond("CANCELED", r)
  /\ requests' = Tail(requests)
  /\ UNCHANGED <<algo, ticker_side_order_, next_order_id_, position_>>

-----------------------------------------------------------------------------
Strategy ==
  \/ \E bid_price, ask_price \in Prices : MarketMaker(bid_price, ask_price)
  \/ \E side \in Side, price \in Prices : LiquidityTaker(side, price)

Exchange ==
  \/ ExchangeNew
  \/ \E order \in open, fill \in 1 .. Clip : ExchangeFill(order, fill) \/ SimulatorFill(order, fill)
  \/ ExchangeCancel

Next == Strategy \/ onOrderUpdate \/ Exchange

Spec == Init /\ [][Next]_vars

(* The trade engine and the exchange poll their queues in busy loops.  No  *)
(* order needs to trade and no market data needs to arrive.                *)
FairSpec == Spec /\ WF_vars(onOrderUpdate) /\ WF_vars(ExchangeNew) /\ WF_vars(ExchangeCancel)

-----------------------------------------------------------------------------
(* Properties *)

TypeOK ==
  /\ algo \in Algos
  /\ ticker_side_order_ \in [Side -> OMOrder]
  /\ next_order_id_ \in 1 .. MaxOrders + 1
  /\ position_ \in Int
  /\ requests \in Seq(Request)
  /\ responses \in Seq(Response)
  /\ open \subseteq [order_id_ : 1 .. MaxOrders, side_ : Side, leaves_ : 1 .. Clip]

(* The sum of a sequence of numbers. *)
Total(q) ==
  LET t[i \in 0 .. Len(q)] == IF i = 0 THEN 0 ELSE t[i - 1] + q[i]
  IN  t[Len(q)]

(* What side s may still trade: fills under way, orders requested or open. *)
fills(q, s) == [i \in 1 .. Len(q) |->
                  IF q[i].type_ = "FILLED" /\ q[i].side_ = s THEN q[i].exec_qty_ ELSE 0]
news(q, s) == [i \in 1 .. Len(q) |->
                 IF q[i].type_ = "NEW" /\ q[i].side_ = s THEN q[i].qty_ ELSE 0]
leaves(orders, s) == MapThenSumSet(LAMBDA o : o.leaves_, {o \in orders : o.side_ = s})
inFlight(s) == Total(fills(responses, s)) + Total(news(requests, s)) + leaves(open, s)

(* The position never exceeds max_position_, although checkPreTradeRisk    *)
(* looks at a position that lags behind the exchange and at one order at a *)
(* time, without the order working on the other side: even if every fill   *)
(* under way is counted and all that is open or about to be opened trades, *)
(* the limit holds.                                                        *)
ExposureWithinLimit ==
  /\ position_ + inFlight("BUY") <= MaxPosition
  /\ position_ - inFlight("SELL") >= -MaxPosition

(* onOrderUpdate finds the order by its side alone.  That is enough: every *)
(* response still to be read is about the order now in that slot, even     *)
(* when a cancel crosses with the fill that ends the order.                *)
NoStaleResponse ==
  \A i \in DOMAIN responses :
    responses[i].type_ # "CANCEL_REJECTED" =>
      responses[i].order_id_ = ticker_side_order_[responses[i].side_].order_id_

(* When nothing is in flight the client's idea of its orders is the        *)
(* exchange's: LIVE orders are open with that quantity, others are not.    *)
QuiescentAgreement ==
  requests = << >> /\ responses = << >> =>
    \A s \in Side :
      LET order == ticker_side_order_[s]
          atExchange == {o \in open : o.side_ = s}
      IN  IF order.order_state_ = "LIVE"
          THEN atExchange = {[order_id_ |-> order.order_id_, side_ |-> s, leaves_ |-> order.qty_]}
          ELSE atExchange = {} /\ order.order_state_ \in {"INVALID", "DEAD"}

(* moveOrder waits in PENDING_NEW and PENDING_CANCEL, so every such wait   *)
(* must end, also when the cancel is rejected because the order traded.    *)
PendingResolves ==
  \A s \in Side : OrderState(s) \in {"PENDING_NEW", "PENDING_CANCEL"}
                    ~> OrderState(s) \in {"LIVE", "DEAD"}
=============================================================================
