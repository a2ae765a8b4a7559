------------------------ MODULE SnapshotSynthesizer ------------------------
(***************************************************************************)
(* exchange/market_data/snapshot_synthesizer.cpp for one instrument: how   *)
(* the incremental updates of the matching engine are folded into a        *)
(* snapshot of its book, and how the snapshot is laid out for publication. *)
(* ticker_orders_ is a function from the ids of the live orders to their   *)
(* updates.  The module has no state of its own: Exchange feeds it the     *)
(* engine's updates, MarketDataFeed publishes its snapshots.               *)
(***************************************************************************)
EXTENDS Integers, Sequences, SequencesExt, Functions

NoOrders == << >>

(* Mutant: a MODIFY leaves the quantity as it was. *)
Mut_addToSnapshotKeepsQty(orders, update) ==
  LET id == update.order_id_ IN
  CASE update.type_ = "ADD" ->
         [m \in DOMAIN orders \cup {id} |-> IF m = id THEN update ELSE orders[m]]
    [] update.type_ = "CANCEL" ->
         Restrict(orders, DOMAIN orders \ {id})
    [] OTHER -> orders

addToSnapshot(orders, update) ==
  LET id == update.order_id_ IN
  CASE update.type_ = "ADD" ->
         [m \in DOMAIN orders \cup {id} |-> IF m = id THEN update ELSE orders[m]]
    [] update.type_ = "MODIFY" /\ id \in DOMAIN orders ->
         [orders EXCEPT ![id].qty_ = update.qty_, ![id].price_ = update.price_]
    [] update.type_ = "CANCEL" ->
         Restrict(orders, DOMAIN orders \ {id})
    [] OTHER -> orders

(* The ASSERTs of addToSnapshot, which end the process when they fail.  The*)
(* last one, that the sequence number is the next, is about the publisher, *)
(* which counts them, and the queue from it: both modules that use this    *)
(* one apply every update in order (LFQueue, MarketDataFeed's Publish).    *)
SnapshotAsserts(orders, update) ==
  LET id == update.order_id_ IN
  /\ update.type_ = "ADD" => id \notin DOMAIN orders
  /\ update.type_ \in {"MODIFY", "CANCEL"} =>
       id \in DOMAIN orders /\ orders[id].side_ = update.side_
=============================================================================
