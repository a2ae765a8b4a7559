------------------------------ MODULE Backtest ------------------------------
(***************************************************************************)
(* A whole backtest run: backtest/backtest_main.cpp and the threads it     *)
(* starts, from the replay to the last stop().                             *)
(*                                                                         *)
(* The replay (module MarketReplay) pushes each update towards the trade   *)
(* engine and, in QUEUE_AWARE mode, to FillSimulator.  The trade engine    *)
(* (module OrderManager) changes its BBO with an update and may send       *)
(* requests; FillSimulator answers them.  main() waits for the replay,     *)
(* polls the queues until they look idle, and stops the threads.  The      *)
(* simulator is shown to be an exchange as OrderManager expects one.       *)
(***************************************************************************)
EXTENDS FillSimulator

CONSTANTS
  MaxUpdates,  \* bound on the updates of the replay
  IdlePolls,   \* polls in a row that find all queues empty: 20 in main()
  Rounds       \* rounds of FillSimulator::run that 100 ms are enough for

ASSUME BacktestAssumption == {MaxUpdates, IdlePolls, Rounds} \subseteq Nat

VARIABLES
  rows,       \* updates the replay has still to push
  md,         \* number of updates in replay_md_queue and te_md_updates
  sim_md,     \* number of updates in sim_md_events
  main,       \* "replay", "sizes", "sleep", "te_stop", "te_clear", "done"
  read,       \* the queue sizes this poll has added up
  busy,       \* whether one of them was not 0
  idle_iters,
  rounds,     \* ghost: rounds the simulator ended during this sleep
  te_run_     \* TradeEngine::run_

clientVars == <<algo, ticker_side_order_, next_order_id_, position_>>
mainVars == <<main, read, busy, idle_iters, te_run_>>
backtestVars == <<simVars, sim_run_, bbo, mode_, clientVars, open, rows, md, sim_md, mainVars, rounds>>

(* FillSimulator's pending_ as the open orders of the client's exchange:   *)
(* in a backtest the variable open of OrderManager shows it.               *)
pendingOrders == {[order_id_ |-> id, side_ |-> pending_[id].side_,
                   leaves_ |-> pending_[id].leaves_qty] : id \in DOMAIN pending_}

BacktestInit ==
  /\ SimInit
  /\ Init
  /\ rows = MaxUpdates
  /\ md = 0 /\ sim_md = 0
  /\ main = "replay" /\ read = 0 /\ busy = FALSE /\ idle_iters = 0 /\ rounds = 0
  /\ te_run_ = TRUE

-----------------------------------------------------------------------------
(* The replay thread *)

(* Mutant: updates are teed to a simulator that does not read them. *)
Mut_teed == 1

(* main() gives the replay a sim_tee in QUEUE_AWARE mode only. *)
teed == IF mode_ = "QUEUE_AWARE" THEN 1 ELSE 0

Replay ==
  /\ rows > 0
  /\ rows' = rows - 1
  /\ md' = md + 1
  /\ sim_md' = sim_md + teed
  /\ UNCHANGED <<simVars, sim_run_, bbo, mode_, clientVars, open, mainVars, rounds>>

-----------------------------------------------------------------------------
(* The trade engine thread: the two loops of TradeEngine::run *)

Valid(b) == b.bid_price_ # Price_INVALID /\ b.ask_price_ # Price_INVALID

nothingSent == UNCHANGED <<clientVars, open, requests, responses>>

(* An update of the book, as MarketOrderBook::onMarketUpdate handles it:   *)
(* the BBO is set, then the maker is told.  Its fair price decides which   *)
(* of two prices it takes on each side.                                    *)
BookUpdate ==
  /\ bbo' \in BBOs
  /\ \/ /\ Valid(bbo')
        /\ \E bid_price \in {bbo'.bid_price_, bbo'.bid_price_ - 1} \cap Prices,
              ask_price \in {bbo'.ask_price_, bbo'.ask_price_ + 1} \cap Prices :
             MarketMaker(bid_price, ask_price)
     \/ /\ algo = "MAKER" /\ Valid(bbo') => next_order_id_ >= MaxOrders  \* the bound
        /\ nothingSent

(* A trade does not touch the book; the taker may join it. *)
TradeUpdate ==
  /\ UNCHANGED bbo
  /\ \/ Valid(bbo) /\ \E side \in {"BUY", "SELL"} :
                         LiquidityTaker(side, opposite(bbo, side).price)
     \/ nothingSent

TradeEngineUpdate ==
  /\ te_run_ /\ md > 0
  /\ md' = md - 1
  /\ UNCHANGED <<pending_, mode_, global_priority_watermark_, sim_run_, sim, cur, todo, level>>
  /\ BookUpdate \/ TradeUpdate
  /\ UNCHANGED <<rows, sim_md, mainVars, rounds>>

TradeEngineResponse ==
  /\ te_run_
  /\ UNCHANGED <<pending_, bbo, mode_, global_priority_watermark_, sim_run_, sim, cur, todo, level>>
  /\ onOrderUpdate
  /\ UNCHANGED <<rows, md, sim_md, mainVars, rounds>>

-----------------------------------------------------------------------------
(* The simulator thread: FillSimulator::run *)

Requests ==
  /\ NewRequest \/ CancelRequest \/ RequestsRead
  /\ UNCHANGED <<clientVars, rows, md, sim_md, mainVars, rounds>>

Event ==
  /\ sim_md > 0
  /\ \E ev \in Events : SimEvent(ev)
  /\ sim_md' = sim_md - 1
  /\ UNCHANGED <<clientVars, rows, md, mainVars, rounds>>

EventsDone ==
  /\ sim_md = 0
  /\ EventsRead
  /\ UNCHANGED <<clientVars, rows, md, sim_md, mainVars, rounds>>

Orders ==
  /\ ReadBBO \/ \E id \in todo : Visit(id)
  /\ rounds' = IF todo' = {} /\ main = "sleep" THEN Least(rounds + 1, Rounds) ELSE rounds
  /\ UNCHANGED <<clientVars, rows, md, sim_md, mainVars>>

-----------------------------------------------------------------------------
(* The main thread *)

ReplayFinished ==
  /\ main = "replay" /\ rows = 0
  /\ main' = "sizes"
  /\ UNCHANGED <<read, busy, idle_iters, sim_run_, te_run_>>

(* Mutant: the market data queues are left out of the sum. *)
Mut_sizesNoUpdates == <<0, Len(requests), Len(responses), sim_md>>

(* The queues in the order main() adds up their sizes: C++ leaves the      *)
(* order of the operands open, and this is the one they are written in.    *)
sizes == <<md, Len(requests), Len(responses), sim_md>>

ReadSize ==
  /\ main = "sizes" /\ read < Len(sizes)
  /\ busy' = (busy \/ sizes[read + 1] # 0)
  /\ read' = read + 1
  /\ UNCHANGED <<main, idle_iters, sim_run_, te_run_>>

Poll ==
  /\ main = "sizes" /\ read = Len(sizes)
  /\ idle_iters' = IF busy THEN 0 ELSE idle_iters + 1
  /\ main' = "sleep" /\ read' = 0 /\ busy' = FALSE
  /\ UNCHANGED <<sim_run_, te_run_>>

(* sleep_for(100 ms), long enough for the simulator to go round *)
Slept ==
  /\ main = "sleep" /\ rounds = Rounds
  /\ IF idle_iters < IdlePolls
     THEN main' = "sizes" /\ UNCHANGED sim_run_
     ELSE main' = "te_stop" /\ sim_run_' = FALSE
  /\ UNCHANGED <<read, busy, idle_iters, te_run_>>

(* TradeEngine::stop: waits for its queues, then clears run_ *)
TradeEngineIdle ==
  /\ main = "te_stop" /\ responses = << >> /\ md = 0
  /\ main' = "te_clear"
  /\ UNCHANGED <<read, busy, idle_iters, sim_run_, te_run_>>

TradeEngineStop ==
  /\ main = "te_clear"
  /\ main' = "done" /\ te_run_' = FALSE
  /\ UNCHANGED <<read, busy, idle_iters, sim_run_>>

Main ==
  /\ ReplayFinished \/ ReadSize \/ Poll \/ Slept \/ TradeEngineIdle \/ TradeEngineStop
  /\ rounds' = IF main' = "sleep" /\ main = "sleep" THEN rounds ELSE 0
  /\ UNCHANGED <<simVars, bbo, mode_, clientVars, open, rows, md, sim_md>>

-----------------------------------------------------------------------------
Simulator ==
  /\ Requests \/ Event \/ EventsDone \/ Orders
  /\ open' = pendingOrders'

BacktestNext == Replay \/ TradeEngineUpdate \/ TradeEngineResponse \/ Simulator \/ Main

BacktestSpec == BacktestInit /\ [][BacktestNext]_backtestVars

(* Every thread is a loop that polls or sleeps; the trade engine's inner   *)
(* loops end because the replay does.                                      *)
BacktestFairSpec ==
  /\ BacktestSpec
  /\ WF_backtestVars(Replay) /\ WF_backtestVars(TradeEngineUpdate)
  /\ WF_backtestVars(TradeEngineResponse) /\ WF_backtestVars(Simulator) /\ WF_backtestVars(Main)

-----------------------------------------------------------------------------
(* Properties *)

(* FillSimulator is an exchange to the client: it accepts each order once, *)
(* fills no more than is left of it, also when a trade and the BBO fill it *)
(* in the same round, and answers a cancel that crosses with a fill by     *)
(* CANCEL_REJECTED; so all that OrderManager.tla shows holds in a backtest.*)
ImplementsOrderManager == Spec

(* What a finished backtest reports is complete: no request or response is *)
(* left unread, no order still waits for an answer, and every resting      *)
(* order was tried against the last BBO, although a fill that the BBO      *)
(* causes is in no queue when main() looks and main() reads the sizes one  *)
(* after another.                                                          *)
StopLosesNothing ==
  main = "done" /\ sim = "stopped" =>
    /\ requests = << >> /\ responses = << >> /\ md = 0 /\ sim_md = 0
    /\ \A s \in {"BUY", "SELL"} :
         ticker_side_order_[s].order_state_ \notin {"PENDING_NEW", "PENDING_CANCEL"}
    /\ \A id \in DOMAIN pending_ : pending_[id].bbo_at_submit = bbo

(* Every backtest ends: the drain loop, which counts polls that found all  *)
(* queues empty in a row, and TradeEngine::stop both come to an end.       *)
BacktestEnds == <>(main = "done" /\ sim = "stopped")
=============================================================================
