------------------------------ MODULE Exchange ------------------------------
(***************************************************************************)
(* The matching engine together with the two readers of what it sends: the *)
(* snapshot synthesizer behind the market data publisher, and the clients  *)
(* behind the order server.  The queues between them deliver everything in *)
(* order (LFQueue), so each reader is applied to a step's messages at once.*)
(*                                                                         *)
(* ledger is what a client can compute from its own responses, per order;  *)
(* it states what the responses promise and models no code.                *)
(***************************************************************************)
EXTENDS MEOrderBook, SnapshotSynthesizer

VARIABLES
  ticker_orders_,  \* the synthesizer's snapshot
  assert_failed,   \* an ASSERT of addToSnapshot has ended the exchange
  ledger           \* market order id -> what its owner was told

exchangeVars == <<vars, ticker_orders_, assert_failed, ledger>>

-----------------------------------------------------------------------------
(* What a client makes of a response. *)
applyResponse(known, response) ==
  LET id == response.market_order_id_ IN
  CASE response.type_ = "ACCEPTED" ->
         [m \in DOMAIN known \cup {id} |->
            IF m = id THEN [side |-> response.side_, limit |-> response.price_,
                            qty |-> response.leaves_qty_, executed |-> 0,
                            open |-> response.leaves_qty_, canceled |-> 0]
            ELSE known[m]]
    [] response.type_ = "FILLED" ->
         [known EXCEPT ![id].executed = @ + response.exec_qty_,
                       ![id].open = response.leaves_qty_]
    [] response.type_ = "CANCELED" ->
         [known EXCEPT ![id].canceled = response.leaves_qty_, ![id].open = 0]
    [] OTHER -> known

(* The snapshot before the i-th of the updates is applied to it. *)
snapshotBefore(updates, i) ==
  FoldLeft(addToSnapshot, ticker_orders_, SubSeq(updates, 1, i - 1))

ExchangeInit ==
  /\ Init
  /\ ticker_orders_ = NoOrders
  /\ assert_failed = FALSE
  /\ ledger = << >>

ExchangeNext ==
  /\ ~assert_failed
  /\ Next
  /\ ticker_orders_' = FoldLeft(addToSnapshot, ticker_orders_, sent_updates')
  /\ assert_failed' = \E i \in DOMAIN sent_updates' :
                        ~SnapshotAsserts(snapshotBefore(sent_updates', i), sent_updates'[i])
  /\ ledger' = FoldLeft(applyResponse, ledger, sent_responses')

ExchangeSpec == ExchangeInit /\ [][ExchangeNext]_exchangeVars

(* As MEOrderBook's: the engine gets on with a request it has accepted. *)
ExchangeFairSpec == ExchangeSpec /\ WF_vars(EngineStep)

-----------------------------------------------------------------------------
(* Properties *)

Resting == UNION { { Level(p)[i] : i \in DOMAIN Level(p) } : p \in Prices }

SnapshotOrders ==
  { [id |-> m, side |-> ticker_orders_[m].side_, price |-> ticker_orders_[m].price_,
     qty |-> ticker_orders_[m].qty_, priority |-> ticker_orders_[m].priority_]
    : m \in DOMAIN ticker_orders_ }

BookOrders ==
  { [id |-> o.market_order_id_, side |-> o.side_, price |-> o.price_,
     qty |-> o.qty_, priority |-> o.priority_] : o \in Resting }

(* The updates of add, match and cancel, replayed by addToSnapshot, always *)
(* give back the book: same orders, sides, prices, quantities, priorities, *)
(* and no sequence of client requests, reused order ids or not, makes the  *)
(* engine send an update that an ASSERT of the synthesizer refuses.        *)
SnapshotMirrorsBook ==
  /\ ~assert_failed
  /\ SnapshotOrders = BookOrders

(* No fill is reported at a price worse than the order's limit. *)
WithinLimit(response) ==
  LET order == ledger[response.market_order_id_] IN
  IF order.side = "BUY" THEN response.price_ <= order.limit ELSE response.price_ >= order.limit

(* Nothing is lost or invented between the responses and the book: what a  *)
(* client was told is open is exactly what rests or is still being matched,*)
(* executed + open + canceled is what it asked for, and no fill on either  *)
(* side of a trade is worse than the limit of the order it is reported for.*)
LedgerExact ==
  /\ \A m \in DOMAIN ledger :
       /\ ledger[m].executed + ledger[m].open + ledger[m].canceled = ledger[m].qty
       /\ ledger[m].open =
            IF \E o \in Resting : o.market_order_id_ = m
            THEN (CHOOSE o \in Resting : o.market_order_id_ = m).qty_
            ELSE IF aggressor # Idle /\ aggressor.market_order_id_ = m
            THEN aggressor.leaves_ ELSE 0
  /\ \A i \in DOMAIN sent_responses :
       sent_responses[i].type_ = "FILLED" => WithinLimit(sent_responses[i])
=============================================================================
