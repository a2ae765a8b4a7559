---------------------------- MODULE MarketReplay ----------------------------
(***************************************************************************)
(* The replay threads of the backtest, lobster_replay.cpp and              *)
(* binance_aggtrades_replay.cpp, with the two readers of what they write:  *)
(* the market data consumer, behind which the client's order book applies  *)
(* the updates, and the fill simulator's copy of the stream.               *)
(*                                                                         *)
(* A file is any sequence of rows, chosen row by row.  A LOBSTER order is  *)
(* announced at most once while it is live; every other row may be         *)
(* missing, repeated or about an order the file never announced.           *)
(***************************************************************************)
EXTENDS Integers, Sequences

CONSTANTS
  Formats,     \* the formats a file may have: "lobster", "binance-aggtrades"
  LobsterIds,  \* NASDAQ order ids
  Prices,
  Sizes,       \* quantities; 0 is a Binance trade too small for the scale
  MaxRows,     \* bound on the rows of a file
  MaxSlots,    \* ME_MAX_ORDER_IDS, for LobsterReplay
  MaxOid,      \* max_oid, for BinanceAggTradesReplay
  Mark         \* 3/4 of ME_MAX_MARKET_UPDATES

Side == {"BUY", "SELL"}
Price_INVALID == -1

ASSUME FormatsAssumption == Formats \subseteq {"lobster", "binance-aggtrades"}
ASSUME RowsAssumption == Prices \subseteq Nat /\ Sizes \subseteq Nat /\ MaxRows \in Nat
ASSUME IdsAssumption == MaxSlots \in Nat /\ MaxOid \in Nat \ {0}
ASSUME MarkAssumption == Mark \in Nat \ {0}

VARIABLES
  format,
  queue_aware,         \* FillMode::QUEUE_AWARE
  rows,                \* bound: the rows read
  lobster_id_to_slot_, next_slot_,        \* LobsterReplay
  best, oid, next_oid,                    \* BinanceAggTradesReplay, by side
  pushing,             \* the updates of the current row not yet pushed
  seq_num,
  finished_,
  output_queue_, sim_output_queue_,
  next_exp_inc_seq_num_, book,            \* the client: its orders by id
  sim_seen,                               \* the fill simulator: updates read
  resting,             \* the orders the rows read so far leave in the book
  collided             \* fresh_oid has returned the id of a live order

replayVars == <<lobster_id_to_slot_, next_slot_, best, oid, next_oid>>
ghosts == <<resting, collided>>
vars == <<format, queue_aware, rows, replayVars, pushing, seq_num, finished_, output_queue_,
          sim_output_queue_, next_exp_inc_seq_num_, book, sim_seen, ghosts>>

(* The function f without the keys in S. *)
Without(f, S) == [k \in DOMAIN f \ S |-> f[k]]
With(f, k, v) == [j \in DOMAIN f \cup {k} |-> IF j = k THEN v ELSE f[j]]

(* The fill mode is "auto" or chosen with --fill-mode, for either format. *)
Init ==
  /\ format \in Formats
  /\ queue_aware \in BOOLEAN
  /\ rows = 0
  /\ lobster_id_to_slot_ = << >> /\ next_slot_ = 0
  /\ best = [s \in Side |-> Price_INVALID] /\ oid = [s \in Side |-> 0] /\ next_oid = 1
  /\ pushing = << >> /\ seq_num = 1 /\ finished_ = FALSE
  /\ output_queue_ = << >> /\ sim_output_queue_ = << >>
  /\ next_exp_inc_seq_num_ = 1 /\ book = << >>
  /\ sim_seen = 0
  /\ resting = {} /\ collided = FALSE

-----------------------------------------------------------------------------
(* LobsterReplay::run, one row.  Priority and id of an update are the slot. *)

mapType(lobster_type) ==
  CASE lobster_type = 1 -> "ADD"
    [] lobster_type = 2 -> "MODIFY"
    [] lobster_type = 3 -> "CANCEL"
    [] lobster_type \in {4, 5} -> "TRADE"
    [] OTHER -> "INVALID"

lobsterUpdate(type, slot, side, price, size) ==
  [type_ |-> type, order_id_ |-> slot, side_ |-> side, price_ |-> price, qty_ |-> size]

(* the row is about an order announced before, or announces one *)
hasSlot(type, id) ==
  /\ type # "INVALID"
  /\ id \in DOMAIN lobster_id_to_slot_ \/ type = "ADD"

(* Mutant: the slot of a cancelled order is remembered. *)
Mut_forgetNever(slots, type, id) == slots

(* emit_then_forget *)
forget(slots, type, id) == IF type = "CANCEL" THEN Without(slots, {id}) ELSE slots

outOfSlots(type, id) ==
  /\ type = "ADD"
  /\ id \notin DOMAIN lobster_id_to_slot_
  /\ next_slot_ >= MaxSlots

LobsterRow(lobster_type, id, side, price, size) ==
  LET type == mapType(lobster_type)
      known == id \in DOMAIN lobster_id_to_slot_
      slot == IF known THEN lobster_id_to_slot_[id] ELSE next_slot_
      slots == IF known THEN lobster_id_to_slot_ ELSE With(lobster_id_to_slot_, id, slot)
  IN
  /\ format = "lobster"
  /\ type = "ADD" => ~known   \* input: a live order is not announced again
  /\ IF ~hasSlot(type, id)
     THEN UNCHANGED <<lobster_id_to_slot_, next_slot_, pushing, resting>>
     ELSE /\ ~outOfSlots(type, id)
          /\ pushing' = <<lobsterUpdate(type, slot, side, price, size)>>
          /\ next_slot_' = IF known THEN next_slot_ ELSE next_slot_ + 1
          /\ lobster_id_to_slot_' = forget(slots, type, id)
          /\ resting' = CASE type = "ADD" -> resting \cup {[id |-> id, side |-> side, price |-> price]}
                          [] type = "CANCEL" -> { o \in resting : o.id # id }
                          [] OTHER -> resting
  /\ UNCHANGED <<best, oid, next_oid, collided>>

-----------------------------------------------------------------------------
(* BinanceAggTradesReplay::run, one row *)

(* Mutant: the side is announced anew at the price it had. *)
Mut_moveSideStalePrice(side, price, old, new) ==
  LET update(type, id, at) == lobsterUpdate(type, id, side, at, 1) IN
  IF best[side] = Price_INVALID THEN <<update("ADD", new, price)>>
  ELSE <<update("CANCEL", old, best[side]), update("ADD", new, best[side])>>

(* the side's synthetic order is replaced by one at the price of the trade *)
moveSide(side, price, old, new) ==
  LET update(type, id, at) == lobsterUpdate(type, id, side, at, 1) IN
  (IF best[side] = Price_INVALID THEN << >> ELSE <<update("CANCEL", old, best[side])>>)
  \o <<update("ADD", new, price)>>

(* fresh_oid returns next_oid; what next_oid is then *)
freshOid == IF next_oid + 1 > MaxOid THEN 1 ELSE next_oid + 1

BinanceRow(price, qty, is_buyer_maker) ==
  LET side == IF is_buyer_maker THEN "BUY" ELSE "SELL"
      other == IF is_buyer_maker THEN "SELL" ELSE "BUY"
      trade == <<lobsterUpdate("TRADE", 0, other, price, qty)>>
  IN
  /\ format = "binance-aggtrades"
  /\ IF qty = 0 \/ price = best[side]
     THEN /\ pushing' = IF qty = 0 THEN << >> ELSE trade
          /\ UNCHANGED <<best, oid, next_oid, ghosts>>
     ELSE /\ pushing' = moveSide(side, price, oid[side], next_oid) \o trade
          /\ oid' = [oid EXCEPT ![side] = next_oid]
          /\ best' = [best EXCEPT ![side] = price]
          /\ next_oid' = freshOid
          /\ collided' = (collided \/ (best[other] # Price_INVALID /\ oid[other] = next_oid))
          /\ resting' = { o \in resting : o.side # side }
                        \cup {[id |-> side, side |-> side, price |-> price]}
  /\ UNCHANGED <<lobster_id_to_slot_, next_slot_>>

-----------------------------------------------------------------------------
(* The loop both have in common *)

ReadRow ==
  /\ ~finished_ /\ pushing = << >> /\ rows < MaxRows
  /\ rows' = rows + 1
  /\ \/ \E t \in {1, 2, 3, 4, 7}, id \in LobsterIds, s \in Side, p \in Prices, n \in Sizes \ {0} :
          LobsterRow(t, id, s, p, n)
     \/ \E p \in Prices, n \in Sizes, is_buyer_maker \in BOOLEAN :
          BinanceRow(p, n, is_buyer_maker)
  /\ UNCHANGED <<format, queue_aware, seq_num, finished_, output_queue_, sim_output_queue_,
                 next_exp_inc_seq_num_, book, sim_seen>>

(* The file ends, or a new LOBSTER order finds no slot. *)
Finish ==
  /\ ~finished_ /\ pushing = << >>
  /\ \/ rows = MaxRows
     \/ format = "lobster" /\ next_slot_ >= MaxSlots
  /\ finished_' = TRUE
  /\ UNCHANGED <<format, queue_aware, rows, replayVars, pushing, seq_num, output_queue_,
                 sim_output_queue_, next_exp_inc_seq_num_, book, sim_seen, ghosts>>

(* Mutant: the simulator's queue is filled whether it is read or not. *)
Mut_sim_tee == TRUE

(* backtest_main hands the replay the simulator's queue only if it is read. *)
sim_tee == queue_aware

(* Push an update when both queues are below the mark. *)
push ==
  /\ pushing # << >>
  /\ Len(output_queue_) < Mark
  /\ sim_tee => Len(sim_output_queue_) < Mark
  /\ LET mdp == [seq_num_ |-> seq_num, me |-> Head(pushing)] IN
       /\ output_queue_' = Append(output_queue_, mdp)
       /\ sim_output_queue_' = IF sim_tee THEN Append(sim_output_queue_, mdp)
                                          ELSE sim_output_queue_
  /\ seq_num' = seq_num + 1
  /\ pushing' = Tail(pushing)
  /\ UNCHANGED <<format, queue_aware, rows, replayVars, finished_, next_exp_inc_seq_num_, book,
                 sim_seen, ghosts>>

-----------------------------------------------------------------------------
(* MarketDataConsumer in replay mode, then MarketOrderBook::onMarketUpdate *)
(* on its table of orders by id.  A MODIFY or CANCEL of an unknown order   *)
(* would go through a null pointer.                                        *)
Consume ==
  /\ output_queue_ # << >>
  /\ LET mdp == Head(output_queue_)
         me == mdp.me
         order == [side |-> me.side_, price |-> me.price_, qty |-> me.qty_]
     IN
       /\ next_exp_inc_seq_num_' = mdp.seq_num_ + 1
       /\ book' = CASE me.type_ = "ADD" -> With(book, me.order_id_, order)
                    [] me.type_ = "MODIFY" /\ me.order_id_ \in DOMAIN book ->
                         [book EXCEPT ![me.order_id_].qty = me.qty_]
                    [] me.type_ = "CANCEL" -> Without(book, {me.order_id_})
                    [] OTHER -> book
  /\ output_queue_' = Tail(output_queue_)
  /\ UNCHANGED <<format, queue_aware, rows, replayVars, pushing, seq_num, finished_,
                 sim_output_queue_, sim_seen, ghosts>>

(* FillSimulator::run reads its queue in QUEUE_AWARE mode only. *)
SimConsume ==
  /\ queue_aware
  /\ sim_output_queue_ # << >>
  /\ sim_seen' = sim_seen + 1
  /\ sim_output_queue_' = Tail(sim_output_queue_)
  /\ UNCHANGED <<format, queue_aware, rows, replayVars, pushing, seq_num, finished_,
                 output_queue_, next_exp_inc_seq_num_, book, ghosts>>

Next == ReadRow \/ Finish \/ push \/ Consume \/ SimConsume

Spec == Init /\ [][Next]_vars

(* The threads run busy loops; the file is there to be read. *)
FairSpec == Spec /\ WF_vars(ReadRow \/ Finish \/ push) /\ WF_vars(Consume) /\ WF_vars(SimConsume)

-----------------------------------------------------------------------------
(* Properties *)

(* Whatever a file leaves out or repeats, the book never gets a MODIFY or  *)
(* CANCEL of an order it does not hold (it would dereference nullptr) nor  *)
(* an ADD over a live order (which could never be removed again).  For     *)
(* Binance files that needs ids not to run around to one still in use.     *)
OnlyLiveOrders ==
  output_queue_ # << >> /\ ~collided =>
    LET me == Head(output_queue_).me IN
    CASE me.type_ = "ADD" -> me.order_id_ \notin DOMAIN book
      [] me.type_ \in {"MODIFY", "CANCEL"} -> me.order_id_ \in DOMAIN book
      [] OTHER -> TRUE

(* The consumer and the simulator get every update, numbered without a     *)
(* gap, from which in replay mode neither could recover.                   *)
NoGap ==
  /\ output_queue_ # << >> => Head(output_queue_).seq_num_ = next_exp_inc_seq_num_
  /\ sim_output_queue_ # << >> => Head(sim_output_queue_).seq_num_ = sim_seen + 1

(* The client's book follows the file: no update is missed, and when the   *)
(* queue is empty the book holds the orders the rows have left, at their   *)
(* prices: those announced and not deleted since, or for Binance the last  *)
(* price at which each side was hit.                                       *)
BookFollowsRows ==
  /\ NoGap
  /\ output_queue_ = << >> /\ pushing = << >> /\ ~collided =>
       { [side |-> book[i].side, price |-> book[i].price] : i \in DOMAIN book }
       = { [side |-> o.side, price |-> o.price] : o \in resting }

(* The replay always gets to the end of its file and everything it has     *)
(* written is read, although it waits for the slower of two readers.       *)
ReplayFinishes == <>(finished_ /\ output_queue_ = << >> /\ sim_output_queue_ = << >>)
=============================================================================
