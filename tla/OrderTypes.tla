------------------------------ MODULE OrderTypes ------------------------------
(***************************************************************************)
(* The Order object of include/core/order_types.hpp and the Trade record    *)
(* of include/core/trade.hpp.                                               *)
(*                                                                         *)
(* Quantities and prices are doubles in the code.  Here a quantity counts   *)
(* units and a price counts ticks.  Eps is the tolerance 1e-10 of           *)
(* is_fully_filled measured in quantity units: with Eps = 1 a unit is at    *)
(* least 1e-10 and only zero is "nothing left"; with a larger Eps the       *)
(* residues that rounding leaves behind are representable.  The fields      *)
(* symbol, timestamp and trade_id are left out: matching never reads them.  *)
(***************************************************************************)
EXTENDS Integers

CONSTANTS
    Ids,        \* order identifiers chosen by the clients
    Prices,     \* prices an order may carry; 0 stands for any price <= 0
    Eps,        \* the tolerance of is_fully_filled, in quantity units
    None        \* no order, no trade

Sides == {"BUY", "SELL"}
OrderTypes == {"MARKET", "LIMIT", "IOC", "FOK"}
OrderStatuses == {"PENDING", "ACTIVE", "FILLED", "PARTIALLY_FILLED", "REJECTED"}

Order == [order_id : Ids, type : OrderTypes, side : Sides,
          quantity : Int, filled_quantity : Int, leaves_quantity : Int,
          price : Prices, status : OrderStatuses]

Trade == [maker_order_id : Ids, taker_order_id : Ids, price : Prices,
          quantity : Int, is_buyer_maker : BOOLEAN]

ASSUME TypesAssumption ==
    /\ Prices \subseteq Nat         \* ticks
    /\ Eps \in Nat \ {0}            \* abs(0) < Eps: an exact fill is a fill
    /\ None \notin Order            \* the sentinel is not an order
    /\ None \notin Trade            \* nor a trade

Opposite(side) == IF side = "BUY" THEN "SELL" ELSE "BUY"

Smaller(a, b) == IF a <= b THEN a ELSE b

\* The constructor of Order.
NewOrder(id, type, side, quantity, price) ==
    [order_id |-> id, type |-> type, side |-> side,
     quantity |-> quantity, filled_quantity |-> 0, leaves_quantity |-> quantity,
     price |-> price, status |-> "PENDING"]

\* abs(leaves_quantity) < 1e-10
IsFullyFilled(o) == o.leaves_quantity < Eps /\ -o.leaves_quantity < Eps

\* (Mutant: the fill replaces what was filled before.)
FillLastOnly(o, quantity) ==
    LET booked == [o EXCEPT !.filled_quantity = quantity, !.leaves_quantity = @ - quantity]
    IN  [booked EXCEPT !.status =
            IF IsFullyFilled(booked) THEN "FILLED" ELSE "PARTIALLY_FILLED"]

\* A fill books the quantity and recomputes the status from what is left.
Fill(o, quantity) ==
    LET booked == [o EXCEPT !.filled_quantity = @ + quantity,
                            !.leaves_quantity = @ - quantity]
    IN  [booked EXCEPT !.status =
            IF IsFullyFilled(booked) THEN "FILLED" ELSE "PARTIALLY_FILLED"]

===============================================================================
