------------------------------- MODULE MCEngine -------------------------------
(***************************************************************************)
(* Model values for the engine: prices of one, two and three ticks, in half *)
(* ticks.                                                                   *)
(***************************************************************************)
EXTENDS Engine

CONSTANTS btc, a, b, c, s

\* One client buys, one sells, or asks for nothing, and one comes in above them,
\* or buys at once what there is.
ClientsOffers ==
    {NewOrder(a, "LIMIT", "BUY", 2, 2),
     NewOrder(b, "LIMIT", "SELL", 1, 4), NewOrder(b, "LIMIT", "SELL", 0, 4),
     NewOrder(c, "LIMIT", "SELL", 1, 6), NewOrder(c, "FOK", "BUY", 1, 4)}

AllOffers == ClientsOffers \cup StopOffers

Stop(type, side, quantity, trigger, execution) ==
    [advanced_type |-> type, symbol |-> btc, side |-> side, quantity |-> quantity,
     trigger_price |-> trigger, execution_price |-> execution, trailing_distance |-> 0]

TheRequests ==
    {Stop("STOP_LOSS", "SELL", 1, 2, 0), Stop("STOP_LIMIT", "BUY", 2, 2, 4),
     Stop("STOP_LIMIT", "SELL", 1, 4, 0), Stop("TAKE_PROFIT", "SELL", 1, 6, 0)}
===============================================================================
