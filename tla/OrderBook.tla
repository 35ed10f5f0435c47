------------------------------- MODULE OrderBook -------------------------------
(***************************************************************************)
(* The limit order book of one symbol: class OrderBook of                  *)
(* include/core/order_book.hpp and src/core/order_book.cpp.                *)
(*                                                                         *)
(* Every public operation holds book_mutex_ from its first to its last     *)
(* line.  cancel_order and modify_order are one step each.  add_order is a *)
(* step per iteration of its matching loop, so that a loop that never ends *)
(* is a behaviour of the model: `phase` says where the call stands, and    *)
(* phase # "idle" is book_mutex_ being held by it.                         *)
(***************************************************************************)
EXTENDS OrderTypes, FiniteSets, SequencesExt

CONSTANTS
    Offers,         \* the orders the clients submit, valid or not
    NewQuantities,  \* quantities modify_order is called with
    MaxOrders       \* bound on the number of orders add_order accepts

ASSUME BookAssumption ==
    /\ \A o \in Offers :
        o \in Order /\ o = NewOrder(o.order_id, o.type, o.side, o.quantity, o.price)
    /\ NewQuantities \subseteq Int
    /\ MaxOrders \in Nat

VARIABLES
    book,       \* book["BUY"] is bids_, book["SELL"] is asks_: price -> FIFO of orders
    lookup,     \* order_lookup_: order id -> location
    phase,      \* where the running add_order stands, "idle" if none runs
    order,      \* the Order& argument of the running add_order, or None
    trade,      \* the trade given to trade_cb by the last step, or None
    objects,    \* the callers' Order objects as add_order left them, or None
    arrivals,   \* history: the accepted orders in the order of arrival
    executed,   \* history: quantity traded per id, as trade_cb reported it
    cancelled   \* history: ids for which cancel_order returned true

vars == <<book, lookup, phase, order, trade, objects, arrivals, executed, cancelled>>

-------------------------------------------------------------------------------
(* Types *)

Phases == {"idle", "fok", "match", "reject"}

\* f is a map from some of the members of S to members of T.
IsMap(f, S, T) == DOMAIN f \subseteq S /\ f \in [DOMAIN f -> T]

\* OrderLocation; is_bid is the side, order_index counts from 1.
Location == [side : Sides, price_level : Prices \cup {0}, order_index : Nat]

Without(f, x) == Restrict(f, DOMAIN f \ {x})

-------------------------------------------------------------------------------
(* Reading the book *)

RestingOn(side) == UNION {Range(book[side][p]) : p \in DOMAIN book[side]}

Resting == RestingOn("BUY") \cup RestingOn("SELL")

RestingIds == {o.order_id : o \in Resting}

\* get_best_bid and get_best_ask: rbegin() of the bids, begin() of the asks,
\* and 0.0 for an empty side.
BestBid == IF DOMAIN book["BUY"] = {} THEN 0 ELSE Max(DOMAIN book["BUY"])
BestAsk == IF DOMAIN book["SELL"] = {} THEN 0 ELSE Min(DOMAIN book["SELL"])

\* opposite_book.begin(): both maps are sorted by ascending price, so this
\* is the lowest ask for a buy, and the lowest bid for a sell.
BestLevel(levels) == Min(DOMAIN levels)

\* (Mutant: a buy misses the asks at exactly its limit.)
WithinLimitStrictBuy(o, p) == IF o.side = "BUY" THEN p < o.price ELSE p >= o.price

\* The limit an order puts on the price it trades at.
WithinLimit(o, p) == IF o.side = "BUY" THEN p <= o.price ELSE p >= o.price

\* (Mutant: the limit of an immediate-or-cancel order is not looked at.)
CanMatchIocAnywhere(o, p) == o.type \in {"MARKET", "IOC"} \/ WithinLimit(o, p)

CanMatch(o, p) == o.type = "MARKET" \/ WithinLimit(o, p)

\* The condition under which the matching loops go round once more.
KeepsMatching ==
    LET levels == book[Opposite(order.side)]
    IN  /\ DOMAIN levels # {}
        /\ ~IsFullyFilled(order)
        /\ CanMatch(order, BestLevel(levels))

\* (Mutant: a partly filled maker counts in full.)
QuantityOf(level) == SumFunction([i \in DOMAIN level |-> level[i].quantity])

LeavesOf(level) == SumFunction([i \in DOMAIN level |-> level[i].leaves_quantity])

\* The prices of a side that come before p, in the order of the map from rbegin()
\* for the bids and from begin() for the asks.
BetterThan(side, p) ==
    {q \in DOMAIN book[side] : IF side = "BUY" THEN q > p ELSE q < p}

PricesFromBest(side) ==
    [i \in 1 .. Cardinality(DOMAIN book[side]) |->
        CHOOSE p \in DOMAIN book[side] : Cardinality(BetterThan(side, p)) = i - 1]

\* get_bid_levels and get_ask_levels: what is left to trade at each of the first
\* n prices.
DepthLevels(side, n) ==
    LET prices == PricesFromBest(side)
    IN  [i \in 1 .. Smaller(n, Len(prices)) |-> <<prices[i], LeavesOf(book[side][prices[i]])>>]

\* (Mutant: the scan does not stop at the limit.)
FokAllLevels(o) == DOMAIN book[Opposite(o.side)]

\* try_match_fok_order walks the opposite side from its first level and stops
\* at the first one the order's limit excludes.
FokLevels(o) ==
    LET levels == book[Opposite(o.side)]
    IN  {p \in DOMAIN levels :
            \A r \in DOMAIN levels : r <= p => WithinLimit(o, r)}

FokAvailable(o) ==
    SumFunction([p \in FokLevels(o) |-> LeavesOf(book[Opposite(o.side)][p])])

-------------------------------------------------------------------------------
(* Adding an order: add_to_book *)

\* The queue of a level, empty for a price without one.
QueueAt(levels, p) == IF p \in DOMAIN levels THEN levels[p] ELSE <<>>

\* (Mutant: the newcomer goes to the front.)
JoinedInFront(queue, o) == <<o>> \o queue

Joined(queue, o) == Append(queue, o)

BookWith(bk, o) ==
    [bk EXCEPT ![o.side] =
        [p \in DOMAIN @ \cup {o.price} |->
            IF p = o.price THEN Joined(QueueAt(@, p), o) ELSE @[p]]]

LookupWith(bk, lk, o) ==
    LET place == [side |-> o.side, price_level |-> o.price,
                  order_index |-> Len(QueueAt(bk[o.side], o.price)) + 1]
    IN  [id \in DOMAIN lk \cup {o.order_id} |-> IF id = o.order_id THEN place ELSE lk[id]]

-------------------------------------------------------------------------------
(* Removing an order: remove_from_book *)

\* (Mutants: the scan is off by one; it starts behind the front order.)
IndexOfOffByOne(level, id) ==
    LET i == SelectInSeq(level, LAMBDA o : o.order_id = id) IN IF i = 0 THEN 0 ELSE i - 1
IndexOfBehindFront(level, id) ==
    LET i == SelectInSeq(level, LAMBDA o : o.order_id = id) IN IF i = 1 THEN 0 ELSE i

\* The position of the first order of a level with this id, 0 if there is none.
IndexOf(level, id) == SelectInSeq(level, LAMBDA o : o.order_id = id)

\* The location on record leads to an order with this id.
Locatable(bk, lk, id) ==
    /\ id \in DOMAIN lk
    /\ lk[id].price_level \in DOMAIN bk[lk[id].side]
    /\ IndexOf(bk[lk[id].side][lk[id].price_level], id) # 0

Erased(level, i) == RemoveAt(level, i)

\* (Mutants: the level goes with the order; a level that became empty stays.)
LevelsDropped(levels, p, remaining) == Without(levels, p)
LevelsKept(levels, p, remaining) == [levels EXCEPT ![p] = remaining]

\* A level without orders is taken out of the map.
LevelsAfter(levels, p, remaining) ==
    IF remaining = <<>> THEN Without(levels, p) ELSE [levels EXCEPT ![p] = remaining]

BookWithout(bk, lk, id) ==
    IF ~Locatable(bk, lk, id) THEN bk
    ELSE LET loc == lk[id]
             level == bk[loc.side][loc.price_level]
         IN  [bk EXCEPT ![loc.side] =
                LevelsAfter(@, loc.price_level, Erased(level, IndexOf(level, id)))]

\* The location operator[] makes for an id that has none.
DefaultLocation == [side |-> "SELL", price_level |-> 0, order_index |-> 0]

\* (Mutant: the loop starts one too far.)
MovedTooFew(remaining, from, id) ==
    {i \in DOMAIN remaining : i > from /\ remaining[i].order_id = id}

\* The new positions of the orders behind the removed one.
Moved(remaining, from, id) ==
    {i \in DOMAIN remaining : i >= from /\ remaining[i].order_id = id}

\* Every one of them is written to the lookup; the last one wins if an id
\* occurs twice.
Reindexed(lk, remaining, from) ==
    LET moved == {id \in Ids : Moved(remaining, from, id) # {}}
    IN  [id \in DOMAIN lk \cup moved |->
            IF id \notin moved THEN lk[id]
            ELSE [(IF id \in DOMAIN lk THEN lk[id] ELSE DefaultLocation)
                    EXCEPT !.order_index = Max(Moved(remaining, from, id))]]

LookupWithout(bk, lk, id) ==
    IF ~Locatable(bk, lk, id) THEN Without(lk, id)
    ELSE LET level == bk[lk[id].side][lk[id].price_level]
             index == IndexOf(level, id)
         IN  Without(Reindexed(lk, Erased(level, index), index), id)

-------------------------------------------------------------------------------
(* add_order *)

Init ==
    /\ book = [side \in Sides |-> [p \in {} |-> <<>>]]
    /\ lookup = [id \in {} |-> DefaultLocation]
    /\ phase = "idle"
    /\ order = None
    /\ trade = None
    /\ objects = [id \in Ids |-> None]
    /\ arrivals = <<>>
    /\ executed = [id \in Ids |-> 0]
    /\ cancelled = {}

\* (Mutant: the quantity is not looked at.)
AcceptableAnyQuantity(o) == o.type = "LIMIT" => o.price > 0

Acceptable(o) == o.quantity > 0 /\ (o.type = "LIMIT" => o.price > 0)

\* add_order returns false before it touches the order or the book.
RejectInvalid(o) ==
    /\ phase = "idle"
    /\ ~Acceptable(o)
    /\ objects' = [objects EXCEPT ![o.order_id] = o]
    /\ UNCHANGED <<book, lookup, phase, order, trade, arrivals, executed, cancelled>>

\* add_order up to its call of match_order.
AcceptOrder(o) ==
    /\ phase = "idle"
    /\ Len(arrivals) < MaxOrders
    /\ Acceptable(o)
    /\ order' = [o EXCEPT !.status = "ACTIVE"]
    /\ phase' = IF o.type = "FOK" THEN "fok" ELSE "match"
    /\ arrivals' = Append(arrivals, o.order_id)
    /\ UNCHANGED <<book, lookup, trade, objects, executed, cancelled>>

SubmitOrder(o) == RejectInvalid(o) \/ AcceptOrder(o)

\* try_match_fok_order before it matches: kill the order unless the levels it
\* may trade at hold enough.
CheckFok ==
    /\ phase = "fok"
    /\ IF FokAvailable(order) >= order.quantity
       THEN phase' = "match" /\ UNCHANGED order
       ELSE phase' = "reject" /\ order' = [order EXCEPT !.status = "REJECTED"]
    /\ UNCHANGED <<book, lookup, trade, objects, arrivals, executed, cancelled>>

\* One round of the matching loop of try_match_market_order and
\* try_match_limit_order: trade with the front order of the first level
\* (execute_trade), and take that order off the book when it is filled.
MatchStep ==
    /\ phase = "match"
    /\ KeepsMatching
    /\ LET side == Opposite(order.side)
           p == BestLevel(book[side])
           maker == Head(book[side][p])
           quantity == Smaller(order.leaves_quantity, maker.leaves_quantity)
           filled == Fill(maker, quantity)
           traded == [book EXCEPT ![side][p][1] = filled]
       IN  /\ order' = Fill(order, quantity)
           /\ trade' = [maker_order_id |-> maker.order_id,
                        taker_order_id |-> order.order_id,
                        price |-> maker.price, quantity |-> quantity,
                        is_buyer_maker |-> maker.side = "BUY"]
           /\ executed' = [[executed EXCEPT ![maker.order_id] = @ + quantity]
                                     EXCEPT ![order.order_id] = @ + quantity]
           /\ book' = IF IsFullyFilled(filled)
                      THEN BookWithout(traded, lookup, maker.order_id) ELSE traded
           /\ lookup' = IF IsFullyFilled(filled)
                        THEN LookupWithout(traded, lookup, maker.order_id) ELSE lookup
    /\ UNCHANGED <<phase, objects, arrivals, cancelled>>

\* Matching is over.
MatchingDone == phase = "reject" \/ (phase = "match" /\ ~KeepsMatching)

\* The caller's object keeps what matching wrote to it; from here on the book
\* works on its own copy.
ReturnToCaller ==
    /\ phase' = "idle"
    /\ order' = None
    /\ trade' = None
    /\ objects' = [objects EXCEPT ![order.order_id] = order]
    /\ UNCHANGED <<arrivals, executed, cancelled>>

\* (Mutants: what the tolerance calls nothing rests; a partly filled order
\* does not.)
RestsUnlessExact(o) == o.type = "LIMIT" /\ o.leaves_quantity # 0
RestsUntouched(o) == o.type = "LIMIT" /\ ~IsFullyFilled(o) /\ o.status = "ACTIVE"

Rests(o) == o.type = "LIMIT" /\ ~IsFullyFilled(o)

\* A copy of what is left of a limit order joins its level.
RestInBook ==
    /\ MatchingDone
    /\ Rests(order)
    /\ book' = BookWith(book, order)
    /\ lookup' = LookupWith(book, lookup, order)
    /\ ReturnToCaller

\* The order is filled, or what is left of it is dropped.
LeaveBook ==
    /\ MatchingDone
    /\ ~Rests(order)
    /\ ReturnToCaller
    /\ UNCHANGED <<book, lookup>>

-------------------------------------------------------------------------------
(* cancel_order and modify_order *)

\* An unknown id is refused and changes nothing.
CancelOrder(id) ==
    /\ phase = "idle"
    /\ IF id \notin DOMAIN lookup THEN UNCHANGED vars
       ELSE /\ book' = BookWithout(book, lookup, id)
            /\ lookup' = LookupWithout(book, lookup, id)
            /\ cancelled' = cancelled \cup {id}
            /\ UNCHANGED <<phase, order, trade, objects, arrivals, executed>>

\* The location on record is a position of a level.
PositionOf(id) ==
    /\ id \in DOMAIN lookup
    /\ lookup[id].price_level \in DOMAIN book[lookup[id].side]
    /\ lookup[id].order_index <= Len(book[lookup[id].side][lookup[id].price_level])

\* (Mutant: what is filled already is not subtracted.)
ModifiedAnew(o, quantity) == [o EXCEPT !.quantity = quantity, !.leaves_quantity = quantity]

\* The order keeps its status.
Modified(o, quantity) ==
    [o EXCEPT !.quantity = quantity, !.leaves_quantity = quantity - o.filled_quantity]

\* modify_order trusts the position on record; the order keeps its place in
\* the queue.
ModifyOrder(id, quantity) ==
    /\ phase = "idle"
    /\ PositionOf(id)
    /\ LET loc == lookup[id]
           resting == book[loc.side][loc.price_level][loc.order_index]
       IN  /\ quantity >= resting.filled_quantity
           /\ book' = [book EXCEPT ![loc.side][loc.price_level][loc.order_index] =
                        Modified(resting, quantity)]
    /\ UNCHANGED <<lookup, phase, order, trade, objects, arrivals, executed, cancelled>>

-------------------------------------------------------------------------------
(* Specifications *)

Continue == CheckFok \/ MatchStep \/ RestInBook \/ LeaveBook

OtherCalls ==
    \/ \E id \in Ids : CancelOrder(id)
    \/ \E id \in Ids, quantity \in NewQuantities : ModifyOrder(id, quantity)

\* Clients never use an order id twice (tests/websocket_client.py draws a uuid).
FreshNext ==
    \/ \E o \in Offers : objects[o.order_id] = None /\ SubmitOrder(o)
    \/ Continue
    \/ OtherCalls

\* Clients may use an id again (scripts/load_test.py counts from 0 in each round), and add_order does
\* not mind.
ReuseNext ==
    \/ \E o \in Offers : SubmitOrder(o)
    \/ Continue
    \/ OtherCalls

\* The thread inside add_order holds the lock and waits for nobody.
Fairness == WF_vars(Continue)

\* What is safe under fresh ids needs no fairness.
FreshRules == Init /\ [][FreshNext]_vars

FreshSpec == FreshRules /\ Fairness

ReuseSpec == Init /\ [][ReuseNext]_vars /\ Fairness

-------------------------------------------------------------------------------
(* Correctness *)

\* Every variable has its type; bids_ and asks_ hold orders by price.
TypeOK ==
    /\ book = [side \in Sides |-> book[side]]
    /\ \A side \in Sides : IsMap(book[side], Prices, Seq(Order))
    /\ IsMap(lookup, Ids, Location)
    /\ phase \in Phases
    /\ order \in Order \cup {None}
    /\ trade \in Trade \cup {None}
    /\ objects \in [Ids -> Order \cup {None}]
    /\ arrivals \in Seq(Ids)
    /\ executed \in [Ids -> Nat]
    /\ cancelled \subseteq Ids

\* order_lookup_ is exact: it has a location for the resting orders and for
\* nothing else, and following it leads to that very order.  cancel_order,
\* modify_order and the removal of a filled maker all go through it.
LookupExact ==
    /\ DOMAIN lookup = RestingIds
    /\ \A side \in Sides : \A p \in DOMAIN book[side] :
        \A i \in DOMAIN book[side][p] :
            lookup[book[side][p][i].order_id] =
                [side |-> side, price_level |-> p, order_index |-> i]

\* The trades reported through trade_cb add up: for every order in the book,
\* for the one being matched and for those that came back without resting, the
\* filled quantity is what the trades with its id sum up to.  (The maker is
\* filled in place, in the queue, and not in some copy.)
TapeAgrees ==
    /\ \A o \in Resting : o.filled_quantity = executed[o.order_id]
    /\ order # None => order.filled_quantity = executed[order.order_id]
    /\ \A id \in Ids :
        (objects[id] # None /\ ~Rests(objects[id])) =>
            objects[id].filled_quantity = executed[id]

ArrivedBefore(x, y) ==
    \E i, j \in DOMAIN arrivals : i < j /\ arrivals[i] = x /\ arrivals[j] = y

\* Time priority: on every price level the queue is in the order of arrival,
\* whatever has been filled, cancelled or modified since.  (That trades are with
\* the head of the queue is for KeepsThePromise to say.)
TimePriority ==
    \A side \in Sides : \A p \in DOMAIN book[side] :
        \A i, j \in DOMAIN book[side][p] :
            i < j => ArrivedBefore(book[side][p][i].order_id, book[side][p][j].order_id)

\* The halves of a crossed pair, a bid at or above an ask, can only have met
\* by a sell that came to rest later: a buy never rests across an ask.
BuyNeverCrosses ==
    \A bid \in RestingOn("BUY"), ask \in RestingOn("SELL") :
        bid.price >= ask.price => ArrivedBefore(bid.order_id, ask.order_id)

\* A fill-or-kill order fills entirely or does not trade at all, whatever
\* mixture of levels and partly filled makers the scan walked over.
FokAllOrNothing ==
    \A id \in Ids :
        (objects[id] # None /\ objects[id].type = "FOK") =>
            IsFullyFilled(objects[id]) \/ objects[id].filled_quantity = 0

\* A cancelled order is out: once cancel_order has returned true, no order of
\* that id is in the book or is the maker of a trade.
CancelledStaysOut ==
    /\ RestingIds \cap cancelled = {}
    /\ trade # None => trade.maker_order_id \notin cancelled

\* No trade is outside the limit of its taker.  The loop compares the limit
\* with the key of a level and trades at the price of the order it finds there.
LimitRespected ==
    trade # None =>
        (order.type # "MARKET" => WithinLimit(order, trade.price))

\* An order in the book or being matched never gets more than its quantity.
NeverOverfilled ==
    \A o \in Resting \cup ({order} \ {None}) :
        /\ o.filled_quantity >= 0
        /\ o.leaves_quantity >= 0
        /\ o.filled_quantity + o.leaves_quantity = o.quantity

\* Every level has an order in it, and only orders of its price and side: the
\* matching loop would spin on an empty one.
LevelsWellFormed ==
    \A side \in Sides : \A p \in DOMAIN book[side] :
        /\ book[side][p] # <<>>
        /\ \A o \in Range(book[side][p]) : o.side = side /\ o.price = p

\* Where modify_order is not used, and MatchingEngine does not use it, no
\* filled order lingers in the book and no trade is for nothing.
RestingHasLeaves ==
    /\ \A o \in Resting : ~IsFullyFilled(o)
    /\ trade # None => trade.quantity > 0

\* Where modify_order is not used, a limit order that was accepted is resting,
\* or was cancelled, or has traded all of its quantity but what the tolerance
\* of is_fully_filled drops.  None gets lost.
LimitOrdersAccountedFor ==
    \A id \in Ids :
        (objects[id] # None /\ objects[id].type = "LIMIT" /\ objects[id].status # "PENDING") =>
            \/ id \in RestingIds
            \/ id \in cancelled
            \/ objects[id].quantity - executed[id] < Eps

RestingAt(side, p) == {id \in RestingIds : lookup[id].side = side /\ lookup[id].price_level = p}

\* Where modify_order is not used, the depth that is published agrees with the
\* trades that were: a level shows what its orders were submitted with, less all
\* that was reported as traded since, and the first level has the best price.
DepthAgreesWithTape ==
    \A side \in Sides : LET levels == DepthLevels(side, 2) IN
        /\ \A i \in DOMAIN levels :
            levels[i][2] = SumFunction([id \in RestingAt(side, levels[i][1]) |->
                                            objects[id].quantity - executed[id]])
        /\ levels # <<>> =>
            levels[1][1] = IF side = "BUY" THEN BestBid ELSE BestAsk

\* A round of the matching loop fills the taker or takes the maker off the book,
\* whatever modify_order has made of the maker: so the loop ends, for the book
\* is finite.  (When clients use ids twice, neither needs to happen.)
EveryRoundCounts ==
    [][MatchStep => \/ IsFullyFilled(order')
                    \/ trade'.maker_order_id \notin RestingIds']_vars

\* add_order returns, and gives book_mutex_ back: again and again no add_order runs.
AddOrderReturns == []<>(phase = "idle")

-------------------------------------------------------------------------------
(* What the tests and the callers say, and the code does not do *)

\* tests/test_order_book.cpp calls for price-time priority: a maker is at the
\* best price of its side.
PricePriority ==
    [][(trade' # None /\ trade' # trade) =>
        trade'.price = IF trade'.is_buyer_maker THEN BestBid ELSE BestAsk]_vars
===============================================================================
