------------------------------ MODULE MCOrderBook ------------------------------
(***************************************************************************)
(* Model values for the order book.  The ids are interchangeable, and the  *)
(* sets of offers below treat them alike.                                  *)
(***************************************************************************)
EXTENDS BookRefinement

IdSymmetry == Permutations(Ids)

\* All orders of these types with these prices and quantities.  A market order
\* carries price 0, as tests/websocket_client.py sends it.
OffersOf(types, prices, quantities) ==
    {NewOrder(id, type, side, quantity, price) :
        id \in Ids, type \in types \ {"MARKET"}, side \in Sides,
        quantity \in quantities, price \in prices}
    \cup
    {NewOrder(id, type, side, quantity, 0) :
        id \in Ids, type \in types \cap {"MARKET"}, side \in Sides,
        quantity \in quantities}

\* Orders add_order turns down.
InvalidOffers ==
    {NewOrder(id, "MARKET", "BUY", quantity, 0) : id \in Ids, quantity \in {-1, 0}}
    \cup {NewOrder(id, "LIMIT", "SELL", 1, 0) : id \in Ids}

\* Every type of order, on two price levels.
AllOffers == OffersOf(OrderTypes, {1, 2}, {1, 2}) \cup InvalidOffers

\* When Eps = 2, filling 3 from 4 leaves a residue below the tolerance and
\* filling 2 from 4 does not.  A fill-or-kill order needs two makers.
DeepOffers ==
    OffersOf({"LIMIT"}, {1, 2}, {3, 4})
    \cup OffersOf({"FOK"}, {1, 2}, {7}) \cup OffersOf({"MARKET"}, {}, {2})

\* Limit and immediate-or-cancel orders on two price levels, and invalid ones.
ReuseOffers == OffersOf({"LIMIT", "IOC"}, {1, 2}, {1, 2}) \cup InvalidOffers

\* Limit buys that rest on one of two levels, and sells of two units.
LiveOffers ==
    {NewOrder(id, "LIMIT", "BUY", quantity, price) :
        id \in Ids, quantity \in {1, 2}, price \in {1, 2}}
    \cup {NewOrder(id, type, "SELL", 2, 1) : id \in Ids, type \in OrderTypes}
===============================================================================
