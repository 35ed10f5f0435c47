---------------------------- MODULE AdvancedOrders ----------------------------
(***************************************************************************)
(* Stop, take-profit and trailing-stop orders: class AdvancedOrderManager of *)
(* include/core/advanced_orders.hpp and src/core/advanced_orders.cpp.        *)
(*                                                                         *)
(* Every operation holds orders_mutex_.  Adding and cancelling are one step  *)
(* each; check_triggers is a step per order it looks at, because it erases   *)
(* from the vector it walks over, and hands what it triggers to the engine   *)
(* on the way.  `check` # None is orders_mutex_ being held by it.            *)
(*                                                                         *)
(* The flag `triggered` is left out: nothing ever sets it.                   *)
(***************************************************************************)
EXTENDS OrderTypes, FiniteSets, SequencesExt

CONSTANTS
    Symbols,
    Requests,       \* what the four functions that add an order are called with
    MarketPrices    \* the mid prices of the price loop of main, all above 0

AdvancedOrderTypes == {"STOP_LOSS", "STOP_LIMIT", "TAKE_PROFIT", "TRAILING_STOP"}

\* trigger_price and execution_price of a stop or a take-profit; the initial
\* price as trigger_price, and the distance, of a trailing stop.
Request == [advanced_type : AdvancedOrderTypes, symbol : Symbols, side : Sides,
            quantity : Int, trigger_price : Prices, execution_price : Prices,
            trailing_distance : Nat]

ASSUME AdvancedAssumption ==
    /\ Requests \subseteq Request
    /\ MarketPrices \subseteq Nat \ {0}
    /\ 0 \in Prices                 \* of the market orders that stops become
    /\ None \notin [symbol : Symbols, price : MarketPrices]

AdvancedOrder ==
    [order_id : Ids, symbol : Symbols, advanced_type : AdvancedOrderTypes,
     order_type : {"LIMIT", "MARKET"}, side : Sides, quantity : Int,
     price : Prices \cup {0}, trigger_price : Int, trailing_distance : Nat]

VARIABLES
    advanced_orders,    \* advanced_orders_: the pending orders of each symbol
    check,              \* the running check_triggers, or None
    position,           \* order_it of that call, counted from 1; 1 if there is none
    submitted,          \* history: the orders given to order_callback_
    batch,              \* history: the number of them before the last check
    added,              \* history: the orders as they were added, in this order
    withdrawn,          \* history: the ids that cancel_advanced_order erased
    seen                \* history: the prices each order was pending at the end of a check for

stopVars == <<advanced_orders, check, position, submitted, batch, added, withdrawn, seen>>

AddedIds == {added[i].order_id : i \in DOMAIN added}

-------------------------------------------------------------------------------
(* Adding and cancelling *)

\* A stop loss and a take profit become a limit order if they have an execution
\* price, a stop limit always does, and a trailing stop never.
OrderTypeOf(r) ==
    IF \/ r.advanced_type = "STOP_LIMIT"
       \/ r.advanced_type \in {"STOP_LOSS", "TAKE_PROFIT"} /\ r.execution_price > 0
    THEN "LIMIT" ELSE "MARKET"

AdvancedOrderOf(id, r) ==
    [order_id |-> id, symbol |-> r.symbol, advanced_type |-> r.advanced_type,
     order_type |-> OrderTypeOf(r), side |-> r.side, quantity |-> r.quantity,
     price |-> IF OrderTypeOf(r) = "LIMIT" THEN r.execution_price ELSE 0,
     trigger_price |-> r.trigger_price,
     trailing_distance |->
        IF r.advanced_type = "TRAILING_STOP" THEN r.trailing_distance ELSE 0]

StopsInit ==
    /\ advanced_orders = [s \in Symbols |-> <<>>]
    /\ check = None
    /\ position = 1
    /\ submitted = <<>>
    /\ batch = 0
    /\ added = <<>>
    /\ withdrawn = {}
    /\ seen = [id \in Ids |-> {}]

\* add_stop_loss, add_stop_limit, add_take_profit and add_trailing_stop, under
\* an id that generate_order_id has not returned before.
AddOrder(id, r) ==
    /\ check = None
    /\ id \notin AddedIds
    /\ advanced_orders' = [advanced_orders EXCEPT ![r.symbol] =
                            Append(@, AdvancedOrderOf(id, r))]
    /\ added' = Append(added, AdvancedOrderOf(id, r))
    /\ UNCHANGED <<check, position, submitted, batch, withdrawn, seen>>

\* cancel_advanced_order erases the first order with the id.
CancelAdvanced(id) ==
    /\ check = None
    /\ \E s \in Symbols :
        LET i == SelectInSeq(advanced_orders[s], LAMBDA o : o.order_id = id)
        IN  /\ i # 0
            /\ advanced_orders' = [advanced_orders EXCEPT ![s] = RemoveAt(@, i)]
    /\ withdrawn' = withdrawn \cup {id}
    /\ UNCHANGED <<check, position, submitted, batch, added, seen>>

-------------------------------------------------------------------------------
(* check_triggers *)

\* (Mutant: the trigger of a trailing stop stays where it was.)
TrailedNever(o, p) == o

\* The trigger of a trailing stop rises with the price for a buy, and falls
\* with it for a sell.
Trailed(o, p) ==
    IF o.advanced_type # "TRAILING_STOP" THEN o
    ELSE [o EXCEPT !.trigger_price =
            IF o.side = "BUY" THEN Max({@, p - o.trailing_distance})
                              ELSE Min({@, p + o.trailing_distance})]

\* The orders that trigger when the price rises to their trigger price; the
\* others trigger when it falls to theirs.
TriggersUpwards(o) ==
    IF o.advanced_type \in {"STOP_LOSS", "STOP_LIMIT"} THEN o.side = "BUY" ELSE o.side = "SELL"

ShouldTrigger(o, p) ==
    IF TriggersUpwards(o) THEN p >= o.trigger_price ELSE p <= o.trigger_price

\* (Mutants: the advanced type is passed on as the order type; the trigger price
\* is passed on as the price.)
OrderFromAdvancedType(o) ==
    NewOrder(o.order_id, o.advanced_type, o.side, o.quantity, o.price)
OrderAtTriggerPrice(o) == NewOrder(o.order_id, o.order_type, o.side, o.quantity, o.trigger_price)

\* trigger_order.
OrderFrom(o) == NewOrder(o.order_id, o.order_type, o.side, o.quantity, o.price)

StartCheck(s, p) ==
    /\ check = None
    /\ check' = [symbol |-> s, price |-> p]
    /\ batch' = Len(submitted)
    /\ UNCHANGED <<advanced_orders, position, submitted, added, withdrawn, seen>>

\* (Mutants: the iterator moves on after an erase as well; the order stays; the
\* last order of the vector takes the place of the erased one.)
SkippingAfterErase(orders, i) == <<RemoveAt(orders, i), i + 1>>
WithoutErase(orders, i) == <<orders, i + 1>>
ErasedBySwap(orders, i) ==
    <<[j \in 1 .. Len(orders) - 1 |-> IF j = i THEN Last(orders) ELSE orders[j]], i>>

\* orders.erase(order_it) returns an iterator to the next order.
AfterErase(orders, i) == <<RemoveAt(orders, i), i>>

\* One round of the loop.  What becomes of the order in the engine is not looked at.
CheckOrder ==
    /\ check # None
    /\ LET orders == advanced_orders[check.symbol]
       IN  /\ position <= Len(orders)
           /\ LET o == Trailed(orders[position], check.price)
                  after == IF ShouldTrigger(o, check.price)
                           THEN AfterErase([orders EXCEPT ![position] = o], position)
                           ELSE <<[orders EXCEPT ![position] = o], position + 1>>
              IN  /\ advanced_orders' = [advanced_orders EXCEPT ![check.symbol] = after[1]]
                  /\ position' = after[2]
                  /\ submitted' = IF ShouldTrigger(o, check.price)
                                  THEN Append(submitted, OrderFrom(o)) ELSE submitted
    /\ UNCHANGED <<check, batch, added, withdrawn, seen>>

PendingIn(s) == {advanced_orders[s][i].order_id : i \in DOMAIN advanced_orders[s]}

EndCheck ==
    /\ check # None
    /\ position > Len(advanced_orders[check.symbol])
    /\ check' = None
    /\ position' = 1
    /\ seen' = [id \in Ids |->
                    IF id \in PendingIn(check.symbol) THEN seen[id] \cup {check.price}
                    ELSE seen[id]]
    /\ UNCHANGED <<advanced_orders, submitted, batch, added, withdrawn>>

StopsNext ==
    \/ \E id \in Ids, r \in Requests : AddOrder(id, r)
    \/ \E id \in Ids : CancelAdvanced(id)
    \/ \E s \in Symbols, p \in MarketPrices : StartCheck(s, p)
    \/ CheckOrder
    \/ EndCheck

StopsSpec == StopsInit /\ [][StopsNext]_stopVars

-------------------------------------------------------------------------------
(* Correctness *)

StopsTypeOK ==
    /\ advanced_orders \in [Symbols -> Seq(AdvancedOrder)]
    /\ check \in [symbol : Symbols, price : MarketPrices] \cup {None}
    /\ position \in Nat \ {0}
    /\ submitted \in Seq(Order)
    /\ batch \in 0 .. Len(submitted)
    /\ added \in Seq(AdvancedOrder)
    /\ withdrawn \subseteq Ids
    /\ seen \in [Ids -> SUBSET MarketPrices]

Pending == UNION {Range(advanced_orders[s]) : s \in Symbols}

PendingIds == {o.order_id : o \in Pending}

SubmittedIds == {submitted[i].order_id : i \in DOMAIN submitted}

\* Every order that was added is in one place: it is pending, in the vector of
\* its symbol, or was cancelled, or was given to the engine, and that once.
\* check_triggers erases and submits under one lock, in the middle of its walk.
EachTriggersOnce ==
    /\ AddedIds = PendingIds \cup withdrawn \cup SubmittedIds
    /\ PendingIds \cap withdrawn = {}
    /\ SubmittedIds \cap (PendingIds \cup withdrawn) = {}
    /\ \A i, j \in DOMAIN submitted : submitted[i].order_id = submitted[j].order_id => i = j
    /\ \A s, r \in Symbols : \A i \in DOMAIN advanced_orders[s], j \in DOMAIN advanced_orders[r] :
        advanced_orders[s][i].order_id = advanced_orders[r][j].order_id => s = r /\ i = j

\* No order is passed over: whatever is still pending, with its trigger fixed,
\* was not due at any of the prices its symbol was checked for since it was added.
NothingMissed ==
    \A o \in Pending : o.advanced_type # "TRAILING_STOP" =>
        \A p \in seen[o.order_id] : ~ShouldTrigger(o, p)

\* Between checks, the trigger of a trailing stop is the highest of its initial
\* price and of the distance below the prices seen (for a buy), or the lowest
\* of its initial price and of the distance above them (for a sell).
TrailingFollows ==
    check = None =>
        \A i \in DOMAIN added : \A o \in Pending :
            (o.order_id = added[i].order_id /\ o.advanced_type = "TRAILING_STOP") =>
                LET d == o.trailing_distance
                    initial == added[i].trigger_price
                IN  o.trigger_price =
                        IF o.side = "BUY"
                        THEN Max({initial} \cup {p - d : p \in seen[o.order_id]})
                        ELSE Min({initial} \cup {p + d : p \in seen[o.order_id]})

\* The place of an id in the order of adding.
Rank(id) == SelectInSeq(added, LAMBDA o : o.order_id = id)

\* Orders that trigger at the same check reach the engine in the order in which
\* they were added, whatever was cancelled or had triggered between them.
FirstAddedFirst ==
    \A i, j \in batch + 1 .. Len(submitted) :
        i < j => Rank(submitted[i].order_id) < Rank(submitted[j].order_id)
===============================================================================
