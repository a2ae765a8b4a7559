--------------------------- MODULE PriceLevelList ---------------------------
(***************************************************************************)
(* The intrusive, circular, doubly linked lists of price levels that both  *)
(* order books keep: addOrdersAtPrice and removeOrdersAtPrice of           *)
(* exchange/matcher/me_order_book.h and of trading/strategy/               *)
(* market_order_book.h.  MEOrderBook takes for granted that the head of a  *)
(* list is the best level and that the list holds exactly the levels that  *)
(* price_orders_at_price_ knows; here that is checked pointer by pointer.  *)
(*                                                                         *)
(* Both sides take their nodes from one MemPool, so a node freed by one    *)
(* side comes back, fields and all, on the other.                          *)
(*                                                                         *)
(* There is one level per price, and removeOrdersAtPrice is given the side *)
(* of the order that left it empty.  In the exchange's book and in a live  *)
(* client's that is the side of the level, as these books never cross      *)
(* (MEOrderBook, MarketOrderBook).  In replay mode executions remove no    *)
(* order (lobster_replay.cpp:68, binance_aggtrades_replay.cpp:153), so an  *)
(* order may be added at a price where the other side rests.  It joins     *)
(* that level and may be the last to leave it.                             *)
(***************************************************************************)
EXTENDS MemPool, Functions

CONSTANTS
  Prices,
  MaxCrossings,  \* bound: how often an order joins orders of the other side
  Null           \* nullptr

Side == {"BUY", "SELL"}
Nodes == Blocks  \* a node is its block in orders_at_price_pool_

ASSUME NullAssumption == Null \notin Nodes
ASSUME MaxCrossingsAssumption == MaxCrossings \in Nat
ASSUME PricesAssumption == Prices \subseteq Nat

VARIABLES
  price_orders_at_price_,  \* price -> its node, or Null
  head,                    \* bids_by_price_ and asks_by_price_
  side_, price_, prev_entry_, next_entry_,  \* the fields of the nodes
  replay_mode_,            \* the book of a client that replays a file
  crossings,               \* orders that joined orders of the other side
  order_sides,             \* price -> the sides of the orders in its level
  headLost                 \* ghost: the best level of a side was removed
                           \* with the other side's head in hand

sideVars == <<replay_mode_, crossings, order_sides, headLost>>
vars == <<price_orders_at_price_, head, side_, price_, prev_entry_, next_entry_,
          sideVars, poolVars>>

Init ==
  /\ price_orders_at_price_ = [p \in Prices |-> Null]
  /\ head = [s \in Side |-> Null]
  /\ side_ = [n \in Nodes |-> "INVALID"]
  /\ price_ = [n \in Nodes |-> 0]
  /\ prev_entry_ = [n \in Nodes |-> Null]
  /\ next_entry_ = [n \in Nodes |-> Null]
  /\ replay_mode_ \in BOOLEAN
  /\ crossings = 0
  /\ order_sides = [p \in Prices |-> {}]
  /\ headLost = FALSE
  /\ PoolInit

-----------------------------------------------------------------------------
(* a level at p of side s belongs after the node n *)
Worse(s, p, n) == IF s = "SELL" THEN p > price_[n] ELSE p < price_[n]
Better(s, p, n) == IF s = "SELL" THEN p < price_[n] ELSE p > price_[n]

(* Mutant: the search gives up after the second node. *)
Mut_searchTwo(s, p) ==
  IF Worse(s, p, head[s])
  THEN [target |-> next_entry_[head[s]], add_after |-> Worse(s, p, next_entry_[head[s]])]
  ELSE [target |-> head[s], add_after |-> FALSE]

(* The search of addOrdersAtPrice from the head for the place of a level;  *)
(* the loop runs at most once around the list.                             *)
search(s, p) ==
  LET best == head[s]
      first == Worse(s, p, best)
      second == next_entry_[best]
      start == IF first THEN [target |-> second, add_after |-> Worse(s, p, second)]
                        ELSE [target |-> best, add_after |-> FALSE]
      iterate(w) ==
        IF ~w.add_after \/ w.target = best THEN w
        ELSE [target |-> IF Worse(s, p, w.target) THEN next_entry_[w.target] ELSE w.target,
              add_after |-> Worse(s, p, w.target)]
      after[k \in 0 .. NumElems] == IF k = 0 THEN start ELSE iterate(after[k - 1])
  IN  after[NumElems]

(* the first level of a side: a list of one *)
LinkFirst(s, n) ==
  /\ head' = [head EXCEPT ![s] = n]
  /\ prev_entry_' = [prev_entry_ EXCEPT ![n] = n]
  /\ next_entry_' = [next_entry_ EXCEPT ![n] = n]

(* add_after: the search came round, the level goes behind the last one *)
LinkAfter(s, n, found) ==
  LET target == IF found = head[s] THEN prev_entry_[head[s]] ELSE found IN
  /\ prev_entry_' = [prev_entry_ EXCEPT ![n] = target, ![next_entry_[target]] = n]
  /\ next_entry_' = [next_entry_ EXCEPT ![n] = next_entry_[target], ![target] = n]
  /\ UNCHANGED head

LinkBefore(s, p, n, target) ==
  LET next == [next_entry_ EXCEPT ![n] = target, ![prev_entry_[target]] = n]
      best == head[s]
  IN
  /\ prev_entry_' = [prev_entry_ EXCEPT ![n] = prev_entry_[target], ![target] = n]
  /\ IF Better(s, p, best)
     THEN /\ next_entry_' = [next EXCEPT ![target] = IF @ = best THEN n ELSE @]
          /\ head' = [head EXCEPT ![s] = n]
     ELSE next_entry_' = next /\ UNCHANGED head

(* A head without next_entry_ is one whose level was freed under it: an    *)
(* empty side for the client's book, which starts the list anew.  (The     *)
(* exchange's book has no such test and never meets such a head.)          *)
addOrdersAtPrice(s, p) ==
  LET n == next_free_index_ IN
  /\ price_orders_at_price_[p] = Null
  /\ allocate
  /\ side_' = [side_ EXCEPT ![n] = s]
  /\ price_' = [price_ EXCEPT ![n] = p]
  /\ price_orders_at_price_' = [price_orders_at_price_ EXCEPT ![p] = n]
  /\ order_sides' = [order_sides EXCEPT ![p] = {s}]
  /\ IF head[s] = Null \/ next_entry_[head[s]] = Null
     THEN LinkFirst(s, n)
     ELSE LET found == search(s, p) IN
          IF found.add_after THEN LinkAfter(s, n, found.target)
                             ELSE LinkBefore(s, p, n, found.target)
  /\ UNCHANGED <<replay_mode_, crossings, headLost>>

(* addOrder of a crossing order: its price has a level, and nobody looks   *)
(* at whose (one of the side of the level changes nothing here)            *)
joinLevel(s, p) ==
  /\ replay_mode_
  /\ crossings < MaxCrossings
  /\ ~out_of_space
  /\ price_orders_at_price_[p] # Null
  /\ s \notin order_sides[p]
  /\ crossings' = crossings + 1
  /\ order_sides' = [order_sides EXCEPT ![p] = @ \cup {s}]
  /\ UNCHANGED <<price_orders_at_price_, head, side_, price_, prev_entry_, next_entry_,
                 replay_mode_, headLost, poolVars>>

(* removeOrder of the last order of one side: the other's keep the level *)
leaveLevel(s, p) ==
  /\ ~out_of_space
  /\ order_sides[p] = Side
  /\ order_sides' = [order_sides EXCEPT ![p] = @ \ {s}]
  /\ UNCHANGED <<price_orders_at_price_, head, side_, price_, prev_entry_, next_entry_,
                 replay_mode_, crossings, headLost, poolVars>>

(* Mutant: the back link of the following level is left alone. *)
Mut_removeOrdersAtPriceHalf(s, p) ==
  LET n == price_orders_at_price_[p]
      before == prev_entry_[n]
      after == next_entry_[n]
  IN
  /\ order_sides[p] = {s}
  /\ head' = [head EXCEPT ![s] = IF after = n THEN Null ELSE IF n = @ THEN after ELSE @]
  /\ next_entry_' = [next_entry_ EXCEPT ![before] = after, ![n] = Null]
  /\ prev_entry_' = [prev_entry_ EXCEPT ![n] = Null]
  /\ price_orders_at_price_' = [price_orders_at_price_ EXCEPT ![p] = Null]
  /\ order_sides' = [order_sides EXCEPT ![p] = {}]
  /\ headLost' = (headLost \/ (side_[n] # s /\ n = head[side_[n]]))
  /\ deallocate(n)
  /\ UNCHANGED <<side_, price_, replay_mode_, crossings>>

(* removeOrder of the only order of the level: the side is the order's *)
removeOrdersAtPrice(s, p) ==
  LET n == price_orders_at_price_[p]
      before == prev_entry_[n]
      after == next_entry_[n]
  IN
  /\ order_sides[p] = {s}
  /\ head' = [head EXCEPT ![s] = IF after = n THEN Null ELSE IF n = @ THEN after ELSE @]
  /\ next_entry_' = [next_entry_ EXCEPT ![before] = after, ![n] = Null]
  /\ prev_entry_' = [prev_entry_ EXCEPT ![after] = before, ![n] = Null]
  /\ price_orders_at_price_' = [price_orders_at_price_ EXCEPT ![p] = Null]
  /\ order_sides' = [order_sides EXCEPT ![p] = {}]
  /\ headLost' = (headLost \/ (side_[n] # s /\ n = head[side_[n]]))
  /\ deallocate(n)
  /\ UNCHANGED <<side_, price_, replay_mode_, crossings>>

Next ==
  \E s \in Side, p \in Prices :
    \/ addOrdersAtPrice(s, p)
    \/ joinLevel(s, p)
    \/ leaveLevel(s, p)
    \/ removeOrdersAtPrice(s, p)

Spec == Init /\ [][Next]_vars

-----------------------------------------------------------------------------
(* Properties *)

(* The prices met by following next_entry_ once around from the head, as   *)
(* toString and the matching loop do.                                      *)
walk(s) ==
  LET node[k \in 0 .. NumElems] == IF k = 0 THEN head[s] ELSE next_entry_[node[k - 1]]
      length == IF head[s] = Null THEN 0
                ELSE CHOOSE k \in 1 .. NumElems :
                       /\ node[k] = head[s]
                       /\ \A j \in 1 .. k - 1 : node[j] # head[s]
  IN  [k \in 1 .. length |-> node[k - 1]]

(* The list of a side holds exactly the levels of that side in use, from   *)
(* the best price to the worst: match() finds the best level at the head,  *)
(* and every level and no freed one behind it, whatever block the pool has *)
(* handed out; toString's validity check ends the process for less.  That  *)
(* lasts until the last order to leave the best level of a side is one of  *)
(* the other side, which removeOrdersAtPrice does not expect: it clears    *)
(* the wrong head, or none, and that of the level keeps pointing at it.    *)
ListsHoldLevels ==
  ~headLost =>
    \A s \in Side :
      /\ Range(walk(s)) = { n \in Nodes : ~is_free_[n] /\ side_[n] = s }
      /\ \A i, j \in DOMAIN walk(s) : i < j => Better(s, price_[walk(s)[i]], walk(s)[j])

(* The back links mirror the forward links, even when a head has been      *)
(* lost.  LinkAfter and the removal of a level trust them, and nothing     *)
(* else ever checks them.                                                  *)
BackLinksMirror ==
  \A n \in { b \in Nodes : ~is_free_[b] } :
    /\ next_entry_[n] # Null /\ prev_entry_[n] # Null
    /\ prev_entry_[next_entry_[n]] = n
    /\ next_entry_[prev_entry_[n]] = n
=============================================================================
