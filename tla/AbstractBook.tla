----------------------------- MODULE AbstractBook -----------------------------
(***************************************************************************)
(* What the order book of one symbol promises, without levels, queues and   *)
(* the lookup: there is a set of open orders and at most one taker, which   *)
(* trades with the open orders of the other side one after another, at the  *)
(* lowest price first and in the order of their arrival at that price.      *)
(***************************************************************************)
EXTENDS OrderTypes, Sequences

CONSTANTS
    Offers,         \* the orders the clients submit
    NewQuantities   \* the quantities they change orders to

VARIABLES
    open,       \* the orders that can be traded with, cancelled and modified
    taker,      \* the order that is being matched, or None
    arrived     \* the ids of the accepted orders in the order of arrival

vars == <<open, taker, arrived>>

Init ==
    /\ open = {}
    /\ taker = None
    /\ arrived = <<>>

\* x came before y.
Earlier(x, y) ==
    \E i, j \in DOMAIN arrived :
        i < j /\ arrived[i] = x.order_id /\ arrived[j] = y.order_id

\* m is the next order to trade with on its side.
IsNext(m) ==
    \A x \in open \ {m} :
        x.side = m.side => m.price < x.price \/ (m.price = x.price /\ Earlier(m, x))

\* The taker trades at this price.
Willing(price) ==
    \/ taker.type = "MARKET"
    \/ taker.side = "BUY" /\ price <= taker.price
    \/ taker.side = "SELL" /\ price >= taker.price

\* The taker is not done, and m is for it.
Matches(m) ==
    /\ taker.status # "REJECTED"
    /\ ~IsFullyFilled(taker)
    /\ m.side # taker.side
    /\ IsNext(m)
    /\ Willing(m.price)

\* A new order, with an id of its own, becomes the taker.
Arrive(o) ==
    /\ taker = None
    /\ \A i \in DOMAIN arrived : arrived[i] # o.order_id
    /\ taker' = [o EXCEPT !.status = "ACTIVE"]
    /\ arrived' = Append(arrived, o.order_id)
    /\ UNCHANGED open

\* A fill-or-kill order is killed, but not after it has traded.
Kill ==
    /\ taker # None
    /\ taker.type = "FOK"
    /\ taker.status = "ACTIVE"
    /\ taker' = [taker EXCEPT !.status = "REJECTED"]
    /\ UNCHANGED <<open, arrived>>

\* Both sides of a trade are filled by what the smaller one has left.
Trading(m) ==
    /\ taker # None
    /\ Matches(m)
    /\ LET quantity == Smaller(taker.leaves_quantity, m.leaves_quantity)
           filled == Fill(m, quantity)
       IN  /\ taker' = Fill(taker, quantity)
           /\ open' = (open \ {m}) \cup (IF IsFullyFilled(filled) THEN {} ELSE {filled})
    /\ UNCHANGED arrived

\* What is left of a limit order stays open when nothing matches it, and what
\* is left of any other order is dropped.
Finish ==
    /\ taker # None
    /\ \A m \in open : ~Matches(m)
    /\ open' = open \cup
        (IF taker.type = "LIMIT" /\ ~IsFullyFilled(taker) THEN {taker} ELSE {})
    /\ taker' = None
    /\ UNCHANGED arrived

\* A cancelled order is gone, and only that one.
Cancel(o) ==
    /\ taker = None
    /\ open' = open \ {o}
    /\ UNCHANGED <<taker, arrived>>

\* A modified order keeps what was filled, and its turn.
Modify(o, quantity) ==
    /\ taker = None
    /\ quantity >= o.filled_quantity
    /\ open' = (open \ {o}) \cup
        {[o EXCEPT !.quantity = quantity, !.leaves_quantity = quantity - o.filled_quantity]}
    /\ UNCHANGED <<taker, arrived>>

Next ==
    \/ \E o \in Offers : Arrive(o)
    \/ Kill
    \/ Finish
    \/ \E o \in open :
        Trading(o) \/ Cancel(o) \/ \E quantity \in NewQuantities : Modify(o, quantity)

Spec == Init /\ [][Next]_vars
===============================================================================
