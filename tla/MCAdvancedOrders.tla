--------------------------- MODULE MCAdvancedOrders ---------------------------
(***************************************************************************)
(* Model values for the stop orders: two symbols, three orders and three   *)
(* prices.                                                                 *)
(***************************************************************************)
EXTENDS AdvancedOrders

CONSTANTS btc, eth

IdSymmetry == Permutations(Ids)

RequestOf(type, symbol, side, trigger, execution, distance) ==
    [advanced_type |-> type, symbol |-> symbol, side |-> side, quantity |-> 1,
     trigger_price |-> trigger, execution_price |-> execution, trailing_distance |-> distance]

\* On the first symbol, the stops and take-profits with the trigger at the middle
\* one of the prices 1, 3 and 4, and trailing stops with an initial price from
\* which the trigger has room to follow: that of the buy goes from 1 to 2 at price
\* 4 and stays there at 3, that of the sell from 5 to 4 at price 1 and stays there
\* at 3.  On the second symbol, one stop at the market.
SomeRequests ==
    {RequestOf(type, btc, side, 3, 3, 0) : type \in {"STOP_LOSS", "TAKE_PROFIT"}, side \in Sides}
    \cup {RequestOf("STOP_LIMIT", btc, "BUY", 3, 3, 0), RequestOf("STOP_LOSS", eth, "SELL", 3, 0, 0),
          RequestOf("TRAILING_STOP", btc, "BUY", 1, 0, 2),
          RequestOf("TRAILING_STOP", btc, "SELL", 5, 0, 3)}
===============================================================================
