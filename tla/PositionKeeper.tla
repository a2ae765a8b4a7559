--------------------------- MODULE PositionKeeper ---------------------------
(***************************************************************************)
(* trading/strategy/position_keeper.h for one instrument: the position and *)
(* the profit and loss that checkPreTradeRisk tests against max_loss_.     *)
(*                                                                         *)
(* The doubles are exact numbers here, counted in units of 1/Scale, a unit *)
(* small enough for every division to come out even: a fill divides once,  *)
(* by a position.  open_vwap_ has no initializer, so it starts with        *)
(* anything; the code never reads what it holds for the side that is not   *)
(* open.                                                                   *)
(***************************************************************************)
EXTENDS Integers

CONSTANTS
  Prices,
  Quantities,
  MaxPosition,   \* bound on the position, RiskCfg::max_position_
  MaxFills,      \* bound on the fills
  InitialVwaps,  \* what the memory of open_vwap_ may hold, in units of 1/Scale
  Scale,
  Divisor        \* a common multiple of the positions

Side == {"BUY", "SELL"}
Price_INVALID == -1

ASSUME PricesAssumption == Prices \subseteq Nat
ASSUME QuantitiesAssumption == Quantities \subseteq Nat \ {0}
ASSUME LimitsAssumption == MaxPosition \in Nat /\ MaxFills \in Nat
ASSUME DivisorAssumption == Divisor \in Nat \ {0} /\ \A n \in 1 .. MaxPosition : Divisor % n = 0

(* what can be divided by n positions, one after the other *)
power[n \in 0 .. MaxFills] == IF n = 0 THEN 1 ELSE Divisor * power[n - 1]

ASSUME ScaleAssumption == Scale \in Nat \ {0} /\ Scale % 2 = 0 /\ Scale % power[MaxFills] = 0
ASSUME VwapsAssumption == \A v \in InitialVwaps : v \in Int /\ v % power[MaxFills] = 0

VARIABLES
  position_, real_pnl_, unreal_pnl_, total_pnl_, open_vwap_,  \* PositionInfo
  fills,         \* bound: how many fills there have been
  cash,          \* what the fills have cost and brought in
  mark,          \* the price the position was last valued at
  initial_vwap,  \* what open_vwap_ held at the start
  first_side     \* the side of the first fill

pnlVars == <<position_, real_pnl_, unreal_pnl_, total_pnl_, open_vwap_,
             fills, cash, mark, initial_vwap, first_side>>

sideToValue(side) == IF side = "BUY" THEN 1 ELSE -1
Opposite(side) == IF side = "BUY" THEN "SELL" ELSE "BUY"
Abs(n) == IF n < 0 THEN -n ELSE n
Lesser(m, n) == IF m < n THEN m ELSE n

PnLInit ==
  /\ position_ = 0 /\ real_pnl_ = 0 /\ unreal_pnl_ = 0 /\ total_pnl_ = 0
  /\ open_vwap_ \in [Side -> InitialVwaps]
  /\ fills = 0 /\ cash = 0 /\ mark = 0
  /\ initial_vwap = open_vwap_
  /\ first_side = "NONE"

-----------------------------------------------------------------------------
(* The value of a position at a price, against what it was opened for. *)
unrealized(position, vwap, price) ==
  IF position > 0 THEN price * position - vwap["BUY"]
                  ELSE vwap["SELL"] - price * Abs(position)

(* Mutant: what is left of a reduced position keeps its whole cost. *)
Mut_openVwapKept(side, price, qty) ==
  LET old == position_
      new == old + sideToValue(side) * qty
      opp == Opposite(side)
  IN
  IF new = 0 THEN [s \in Side |-> 0]
  ELSE IF old * sideToValue(side) >= 0 THEN [open_vwap_ EXCEPT ![side] = @ + price * qty]
  ELSE IF new * old < 0 THEN [s \in Side |-> IF s = side THEN price * Abs(new) ELSE 0]
  ELSE open_vwap_

(* open_vwap_ after a fill at price, in units of 1/Scale: opened or        *)
(* increased, flat, flipped, or decreased.                                 *)
openVwap(side, price, qty) ==
  LET old == position_
      new == old + sideToValue(side) * qty
      opp == Opposite(side)
  IN
  IF new = 0 THEN [s \in Side |-> 0]
  ELSE IF old * sideToValue(side) >= 0 THEN [open_vwap_ EXCEPT ![side] = @ + price * qty]
  ELSE IF new * old < 0 THEN [s \in Side |-> IF s = side THEN price * Abs(new) ELSE 0]
  ELSE [open_vwap_ EXCEPT ![opp] = (@ \div Abs(old)) * Abs(new)]

(* what the part of the old position that the fill closes has earned *)
realized(side, price, qty) ==
  IF position_ * sideToValue(side) >= 0 THEN 0
  ELSE Lesser(qty, Abs(position_))
       * (open_vwap_[Opposite(side)] \div Abs(position_) - price) * sideToValue(side)

addFill(side, price_, qty) ==
  LET price == price_ * Scale
      new == position_ + sideToValue(side) * qty
  IN
  /\ fills < MaxFills
  /\ Abs(new) <= MaxPosition
  /\ position_' = new
  /\ open_vwap_' = openVwap(side, price, qty)
  /\ real_pnl_' = real_pnl_ + realized(side, price, qty)
  /\ unreal_pnl_' = IF new = 0 THEN 0 ELSE unrealized(new, open_vwap_', price)
  /\ total_pnl_' = unreal_pnl_' + real_pnl_'
  /\ fills' = fills + 1
  /\ cash' = cash - sideToValue(side) * price * qty
  /\ mark' = price
  /\ first_side' = IF first_side = "NONE" THEN side ELSE first_side
  /\ UNCHANGED initial_vwap

updateBBO(bid_price, ask_price) ==
  /\ position_ # 0 /\ bid_price # Price_INVALID /\ ask_price # Price_INVALID
  /\ mark' = ((bid_price + ask_price) * Scale) \div 2
  /\ unreal_pnl_' = unrealized(position_, open_vwap_, mark')
  /\ total_pnl_' = unreal_pnl_' + real_pnl_
  /\ UNCHANGED <<position_, real_pnl_, open_vwap_, fills, cash, initial_vwap, first_side>>

PnLNext ==
  \/ \E side \in Side, price \in Prices, qty \in Quantities : addFill(side, price, qty)
  \/ \E bid_price, ask_price \in Prices \cup {Price_INVALID} : updateBBO(bid_price, ask_price)

PnLSpec == PnLInit /\ [][PnLNext]_pnlVars

-----------------------------------------------------------------------------
(* Properties *)

(* Through every opening, reduction, flip and revaluation the total profit *)
(* is what the fills brought in plus the value of the position, up to one  *)
(* error that never changes again: what open_vwap_ happened to hold at the *)
(* start for the side of the first fill.  The loss limit is tested against *)
(* a figure that is wrong by exactly that, for the whole run.              *)
ProfitIsCashPlusPosition ==
  total_pnl_ = cash + position_ * mark
               - (IF first_side = "NONE" THEN 0
                  ELSE sideToValue(first_side) * initial_vwap[first_side])
=============================================================================
