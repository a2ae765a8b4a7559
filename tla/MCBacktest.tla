----------------------------- MODULE MCBacktest -----------------------------
(* A small instance of Backtest: two tops of the book, trades and cancels  *)
(* on both sides of an order at price 2, with 1 ahead of it, and a trade   *)
(* at price 1, which the second top hides.                                 *)
EXTENDS Backtest

Top(bid_price, bid_qty, ask_price, ask_qty) ==
  [bid_price_ |-> bid_price, bid_qty_ |-> bid_qty, ask_price_ |-> ask_price, ask_qty_ |-> ask_qty]

MCBBOs == {Top(1, 1, 2, 1), Top(2, 1, 3, 1)}

Ev(type, price, qty, priority) ==
  [type_ |-> type, side_ |-> "BUY", price_ |-> price, qty_ |-> qty, priority_ |-> priority]

MCEvents == {Ev("TRADE", 2, 2, 0), Ev("TRADE", 2, 1, 1), Ev("CANCEL", 2, 1, 0),
             Ev("TRADE", 1, 1, 0)}
=============================================================================
