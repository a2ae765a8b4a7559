--------------------------- MODULE FillSimulator ---------------------------
(***************************************************************************)
(* backtest/fill_simulator: the thread that stands in for the exchange in  *)
(* a backtest.  It answers the client's requests, follows the queue ahead  *)
(* of the client's resting orders through the replayed market events, and  *)
(* fills an order against the best bid and offer of the client's own       *)
(* MarketOrderBook, which the trade engine thread changes meanwhile: each  *)
(* read of *bbo_ in step 3 is a step of its own.  A replayed event and a   *)
(* BBO are any of Events and BBOs (torn reads included).                   *)
(*                                                                         *)
(* requests and responses, the queues to and from the client, are those of *)
(* OrderManager, for which this thread takes the place of Exchange.        *)
(***************************************************************************)
EXTENDS OrderManager, SequencesExt

CONSTANTS
  Modes,   \* the fill modes: "AGGRESSIVE_ONLY", "QUEUE_AWARE"
  BBOs,    \* the values of *bbo_: bid_price_, bid_qty_, ask_price_, ask_qty_
  Events,  \* replayed updates: type_, side_, price_, qty_, priority_
  Priority_INVALID,
  Hidden   \* ghost: what may rest at a price behind the best of its side

BBO == [bid_price_ : Prices \cup {Price_INVALID}, bid_qty_ : Nat,
        ask_price_ : Prices \cup {Price_INVALID}, ask_qty_ : Nat]
NoBBO == [bid_price_ |-> Price_INVALID, bid_qty_ |-> 0, ask_price_ |-> Price_INVALID, ask_qty_ |-> 0]

ASSUME ModesAssumption == Modes \subseteq {"AGGRESSIVE_ONLY", "QUEUE_AWARE"}
ASSUME BBOsAssumption == BBOs \subseteq BBO
ASSUME HiddenAssumption == Hidden \subseteq Nat
ASSUME EventsAssumption == \A ev \in Events : ev.qty_ \in Nat /\ ev.priority_ \in Nat

VARIABLES
  bbo,        \* *bbo_
  mode_,
  pending_,   \* order id -> PendingOrder
  global_priority_watermark_,
  sim_run_,   \* FillSimulator::run_
  sim,        \* where run() is: "requests", "events", "bbo", "orders", "stopped"
  cur,        \* the BBO read in step 3 of run(), NoBBO outside of it
  todo,       \* the pending orders step 3 has still to visit
  level       \* ghost: what rested, and happened since, at an order's price and side

simVars == <<requests, responses, pending_, global_priority_watermark_, sim, cur, todo, level>>

SimInit ==
  /\ requests = << >>
  /\ responses = << >>
  /\ bbo \in BBOs
  /\ mode_ \in Modes
  /\ pending_ = << >>
  /\ global_priority_watermark_ = 0
  /\ sim_run_ = TRUE
  /\ sim = "requests"
  /\ cur = NoBBO
  /\ todo = {}
  /\ level = << >>

Least(a, b) == IF a < b THEN a ELSE b
Without(f, ids) == [id \in DOMAIN f \ ids |-> f[id]]

emitFilled(id, side, exec_qty, leaves_qty) ==
  [type_ |-> "FILLED", order_id_ |-> id, side_ |-> side, exec_qty_ |-> exec_qty,
   leaves_qty_ |-> leaves_qty]

-----------------------------------------------------------------------------
(* run(), step 1: the client's requests *)

(* ACCEPTED and the read of *bbo_ that follows it are one step: an update  *)
(* of the trade engine between the two comes after both here.  It decides  *)
(* bbo_at_submit only, the BBO the order is not yet tried against.         *)
NewRequest ==
  /\ sim = "requests" /\ requests # << >>
  /\ LET req == Head(requests) IN
       /\ req.type_ = "NEW"
       /\ responses' = Append(responses, [type_ |-> "ACCEPTED", order_id_ |-> req.order_id_,
                                          side_ |-> req.side_])
       /\ pending_' = [id \in DOMAIN pending_ \cup {req.order_id_} |->
                         IF id \in DOMAIN pending_ THEN pending_[id]
                         ELSE [side_ |-> req.side_, price_ |-> req.price_, leaves_qty |-> req.qty_,
                               bbo_at_submit |-> bbo, queue_ahead_qty |-> 0,
                               priority_watermark |-> 0, queue_aware |-> FALSE]]
  /\ requests' = Tail(requests)
  /\ UNCHANGED <<bbo, mode_, global_priority_watermark_, sim_run_, sim, cur, todo, level>>

(* Mutant: the canceled order stays with the simulator. *)
Mut_canceled(req) == pending_

canceled(req) == Without(pending_, {req.order_id_})

CancelRequest ==
  /\ sim = "requests" /\ requests # << >>
  /\ LET req == Head(requests) IN
       /\ req.type_ = "CANCEL"
       /\ IF req.order_id_ \in DOMAIN pending_
          THEN responses' = Append(responses, [type_ |-> "CANCELED", order_id_ |-> req.order_id_,
                                               side_ |-> req.side_])
          ELSE responses' = Append(responses, [type_ |-> "CANCEL_REJECTED",
                                               order_id_ |-> req.order_id_])
       /\ pending_' = canceled(req)
       /\ level' = Without(level, {req.order_id_})
  /\ requests' = Tail(requests)
  /\ UNCHANGED <<bbo, mode_, global_priority_watermark_, sim_run_, sim, cur, todo>>

RequestsRead ==
  /\ sim = "requests" /\ requests = << >>
  /\ sim' = IF mode_ = "QUEUE_AWARE" THEN "events" ELSE "bbo"
  /\ UNCHANGED <<requests, responses, bbo, mode_, pending_, global_priority_watermark_, sim_run_,
                 cur, todo, level>>

-----------------------------------------------------------------------------
(* step 2: onSimMarketEvent, in QUEUE_AWARE mode only *)

(* Mutant: orders that came later count as ahead, too. *)
Mut_aheadAll(po, ev) == TRUE

ahead(po, ev) == ev.priority_ <= po.priority_watermark

(* What of a trade reaches the order behind the quantity ahead of it. *)
trade_left(po, ev) ==
  ev.qty_ - (IF ahead(po, ev) THEN Least(ev.qty_, po.queue_ahead_qty) ELSE 0)

queueAfter(po, ev) ==
  IF ev.type_ \in {"TRADE", "CANCEL"} /\ ahead(po, ev)
  THEN po.queue_ahead_qty - Least(ev.qty_, po.queue_ahead_qty)
  ELSE po.queue_ahead_qty

fill_qty(po, ev) ==
  IF ev.type_ = "TRADE" /\ queueAfter(po, ev) = 0
  THEN Least(po.leaves_qty, trade_left(po, ev))
  ELSE 0

(* Ghost: an event at the price and side of an order, which fills it by    *)
(* fill.  By fill_simulator.h:33-35 its order was ahead if its priority is *)
(* at most the largest seen at the snapshot, v.mark.                       *)
witnessed(v, ev, fill) ==
  [v EXCEPT
     !.gone = @ + (IF ev.type_ \in {"TRADE", "CANCEL"} /\ ev.priority_ <= v.mark
                   THEN ev.qty_ ELSE 0),
     !.later = @ + (IF ev.type_ = "TRADE" /\ ev.priority_ > v.mark THEN ev.qty_ ELSE 0),
     !.filled = @ + fill]

(* pending_ is an unordered_map: the fills of one event come in any order. *)
onSimMarketEvent(ev) ==
  LET matching == {id \in DOMAIN pending_ : /\ pending_[id].queue_aware
                                            /\ pending_[id].price_ = ev.price_
                                            /\ pending_[id].side_ = ev.side_}
      fill(id) == fill_qty(pending_[id], ev)
      left(id) == pending_[id].leaves_qty - fill(id)
      done == {id \in matching : left(id) = 0}
  IN
  /\ global_priority_watermark_' =
       IF ev.priority_ # Priority_INVALID /\ ev.priority_ > global_priority_watermark_
       THEN ev.priority_ ELSE global_priority_watermark_
  /\ \E filled \in SetToSeqs({id \in matching : fill(id) > 0}) :
       responses' = responses \o
                      [i \in DOMAIN filled |->
                         emitFilled(filled[i], pending_[filled[i]].side_, fill(filled[i]),
                                    left(filled[i]))]
  /\ pending_' =
       [id \in DOMAIN pending_ \ done |->
          IF id \in matching
          THEN [pending_[id] EXCEPT !.queue_ahead_qty = queueAfter(pending_[id], ev),
                                    !.leaves_qty = left(id)]
          ELSE pending_[id]]
  /\ level' =
       [id \in DOMAIN level \cap DOMAIN pending_ |->
          IF id \in matching THEN witnessed(level[id], ev, fill(id)) ELSE level[id]]

SimEvent(ev) ==
  /\ sim = "events"
  /\ onSimMarketEvent(ev)
  /\ UNCHANGED <<requests, bbo, mode_, sim_run_, sim, cur, todo>>

EventsRead ==
  /\ sim = "events"
  /\ sim' = "bbo"
  /\ UNCHANGED <<requests, responses, bbo, mode_, pending_, global_priority_watermark_, sim_run_,
                 cur, todo, level>>

-----------------------------------------------------------------------------
(* step 3: aggressive fills against cur, and the first queue snapshot *)

(* On to the next order, or to the next round: while (run_). *)
nextOrder(b) ==
  IF todo' # {} THEN sim' = "orders" /\ cur' = b
                ELSE sim' = (IF sim_run_ THEN "requests" ELSE "stopped") /\ cur' = NoBBO

ReadBBO ==
  /\ sim = "bbo"
  /\ todo' = DOMAIN pending_
  /\ nextOrder(bbo)
  /\ level' = [id \in DOMAIN level \cap DOMAIN pending_ |-> level[id]]
  /\ UNCHANGED <<requests, responses, bbo, mode_, pending_, global_priority_watermark_, sim_run_>>

(* The price and quantity an order of this side would take. *)
opposite(b, side) ==
  IF side = "BUY" THEN [price |-> b.ask_price_, qty |-> b.ask_qty_]
                  ELSE [price |-> b.bid_price_, qty |-> b.bid_qty_]

crosses(po, b) ==
  LET best == opposite(b, po.side_) IN
  /\ best.price # Price_INVALID
  /\ IF po.side_ = "BUY" THEN po.price_ >= best.price ELSE po.price_ <= best.price

(* tryAggressiveFill: 0 when it returns false.  An invalid quantity is 0. *)
aggressiveQty(po, b) == IF crosses(po, b) THEN Least(po.leaves_qty, opposite(b, po.side_).qty) ELSE 0

(* The BBO is read again: it need not be cur.  An invalid quantity is 0. *)
snapshotQueueAhead(po) ==
  IF po.side_ = "BUY"
  THEN IF po.price_ = bbo.bid_price_ THEN bbo.bid_qty_ ELSE 0
  ELSE IF po.price_ = bbo.ask_price_ THEN bbo.ask_qty_ ELSE 0

(* Ghost: the best price of a side and what rests there. *)
best(side) == opposite(bbo, IF side = "BUY" THEN "SELL" ELSE "BUY")

(* Ghost: the price is behind the best of its side: the BBO says nothing.  *)
behindBest(po) ==
  /\ best(po.side_).price # Price_INVALID
  /\ IF po.side_ = "BUY" THEN po.price_ < best(po.side_).price ELSE po.price_ > best(po.side_).price

(* Ghost: what can really rest at the price and side of an order. *)
resting(po) ==
  IF behindBest(po) THEN Hidden
  ELSE IF po.price_ = best(po.side_).price THEN {best(po.side_).qty} ELSE {0}

Visit(id) ==
  /\ sim = "orders"
  /\ LET po == pending_[id]
         qty == aggressiveQty(po, cur)
         snapshot == mode_ = "QUEUE_AWARE" /\ ~po.queue_aware
     IN
       \/ /\ cur = po.bbo_at_submit
          /\ UNCHANGED <<responses, pending_, level>>
       \/ /\ cur # po.bbo_at_submit /\ qty > 0
          /\ responses' = Append(responses, emitFilled(id, po.side_, qty, 0))
          /\ pending_' = Without(pending_, {id})
          /\ level' = Without(level, {id})
       \/ /\ cur # po.bbo_at_submit /\ qty = 0
          /\ pending_' =
               [pending_ EXCEPT ![id] =
                  [po EXCEPT !.queue_ahead_qty = IF snapshot THEN snapshotQueueAhead(po) ELSE @,
                             !.priority_watermark =
                                IF snapshot THEN global_priority_watermark_ ELSE @,
                             !.queue_aware = @ \/ snapshot,
                             !.bbo_at_submit = cur]]
          /\ \E queue \in resting(po) :
               level' = IF snapshot
                        THEN [i \in DOMAIN level \cup {id} |->
                                IF i = id
                                THEN [queue |-> queue, shown |-> ~behindBest(po),
                                      mark |-> global_priority_watermark_,
                                      gone |-> 0, later |-> 0, filled |-> 0]
                                ELSE level[i]]
                        ELSE level
          /\ UNCHANGED responses
  /\ todo' = todo \ {id}
  /\ nextOrder(cur)
  /\ UNCHANGED <<requests, bbo, mode_, global_priority_watermark_, sim_run_>>

-----------------------------------------------------------------------------
(* Properties *)

(* An order whose price was the best of its side, or better, at its        *)
(* snapshot is filled only when all that rested there is gone, traded or   *)
(* canceled, and only with the volume that traded beyond it: what comes    *)
(* later neither shortens the queue nor is ahead of it (onSimMarketEvent,  *)
(* over any sequence of trades and cancels, of orders on both sides of the *)
(* watermark).  Of an order behind the best price it says that the fills   *)
(* are covered by events there: what rests there is not respected, since   *)
(* snapshotQueueAhead takes it as 0 (fill_simulator.h:84-86 promises it).  *)
PassiveFillsBehindQueue ==
  \A id \in DOMAIN level :
    LET v == level[id]
        queue == IF v.shown THEN v.queue ELSE 0
    IN  v.filled > 0 => queue <= v.gone /\ v.filled + queue <= v.gone + v.later
=============================================================================
