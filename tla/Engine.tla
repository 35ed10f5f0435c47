-------------------------------- MODULE Engine --------------------------------
(***************************************************************************)
(* One symbol of the MatchingEngine at work: the book (module OrderBook),    *)
(* the stop orders (module AdvancedOrders), the price loop of main, which     *)
(* checks them against the mid price, and the thread of the feed, which        *)
(* sends best prices and depth.                                            *)
(*                                                                         *)
(* engine_mutex_ and book_mutex_ are free when no add_order runs (phase is    *)
(* "idle"); the price loop and the feed take them for each look at the book,  *)
(* so that orders may come between two looks.  orders_mutex_ is held while     *)
(* check # None.  Prices are counted in half ticks, and orders have whole     *)
(* ones, so that the mean of two prices is a price.                           *)
(***************************************************************************)
EXTENDS OrderBook, AdvancedOrders

CONSTANTS
    ClientOffers,   \* the orders the clients submit, under ids of their own
    StopIds,        \* what generate_order_id may return
    Symbol,
    Cancels         \* the ids clients cancel

VARIABLES
    loop,       \* where the price loop stands
    loop_bid,   \* the best bid it has read, or None
    feed,       \* where the feed stands
    feed_bid,   \* the best bid it has read, or None
    feed_bids,  \* the levels of the bids it has read
    window      \* history: the best prices there were while the loop read them

loopVars == <<loop, loop_bid, window>>
feedVars == <<feed, feed_bid, feed_bids>>
engineVars == <<vars, stopVars, loopVars, feedVars>>

\* A stop that triggers is an offer like any other.
StopOffers == {OrderFrom(AdvancedOrderOf(id, r)) : id \in StopIds, r \in Requests}

\* What the mean of two best prices may be, apart from 0.
Means == {(q + r) \div 2 : q \in Prices \cup {0}, r \in Prices \cup {0}} \ {0}

ASSUME EngineAssumption ==
    /\ Symbols = {Symbol}
    /\ Offers = ClientOffers \cup StopOffers
    /\ NewQuantities = {}                          \* the engine does not modify orders
    /\ IsFiniteSet(Ids) => MaxOrders >= Cardinality(Ids)     \* no bound: ids are used once
    /\ MarketPrices = Means
    /\ StopIds \subseteq Ids /\ \A o \in ClientOffers : o.order_id \notin StopIds
    /\ Cancels \subseteq Ids
    /\ \A p \in Prices : p % 2 = 0
    /\ None \notin Nat

EngineInit ==
    /\ Init
    /\ StopsInit
    /\ loop = "sleep" /\ loop_bid = None /\ window = {}
    /\ feed = "sleep" /\ feed_bid = None /\ feed_bids = <<>>

-------------------------------------------------------------------------------
(* The engine: submit_order and cancel_order *)

\* While the loop is between its two looks, every state of the book is one it
\* might have seen.
Witnessed ==
    /\ UNCHANGED <<loop_bid>>
    /\ window' = IF loop = "ask" THEN window \cup {[bid |-> BestBid', ask |-> BestAsk']}
                 ELSE window

\* (Mutant: an id is used again.)
UsedAgain(o) == TRUE

\* A client's id is new.
Unused(o) == objects[o.order_id] = None

Submit(o) ==
    /\ Unused(o)
    /\ AcceptOrder(o)
    /\ UNCHANGED <<stopVars, loopVars, feedVars>>

SubmitInvalid(o) ==
    /\ Unused(o)
    /\ RejectInvalid(o)
    /\ UNCHANGED <<stopVars, loopVars, feedVars>>

Cancel(id) ==
    /\ CancelOrder(id)
    /\ Witnessed
    /\ UNCHANGED <<stopVars, loop, feedVars>>

Scan ==
    /\ CheckFok
    /\ UNCHANGED <<stopVars, loopVars, feedVars>>

Match ==
    /\ MatchStep
    /\ Witnessed
    /\ UNCHANGED <<stopVars, loop, feedVars>>

\* (Mutant: check_triggers does not go on.)
NoReturn == loop' = loop

\* add_order returns, to the client or to check_triggers.
ReturnTo == loop' = IF loop = "submit" THEN "check" ELSE loop

Rest ==
    /\ RestInBook
    /\ ReturnTo
    /\ Witnessed
    /\ UNCHANGED <<stopVars, feedVars>>

Leave ==
    /\ LeaveBook
    /\ ReturnTo
    /\ Witnessed
    /\ UNCHANGED <<stopVars, feedVars>>

-------------------------------------------------------------------------------
(* Stop orders and the price loop *)

AddStop(id, r) ==
    /\ AddOrder(id, r)
    /\ UNCHANGED <<vars, loopVars, feedVars>>

CancelStop(id) ==
    /\ CancelAdvanced(id)
    /\ UNCHANGED <<vars, loopVars, feedVars>>

\* get_best_bid.  (C++ leaves open which of the two is asked first; they are alike.)
LookAtBid ==
    /\ loop = "sleep" /\ phase = "idle"
    /\ loop' = "ask"
    /\ loop_bid' = BestBid
    /\ window' = {[bid |-> BestBid, ask |-> BestAsk]}
    /\ UNCHANGED <<vars, stopVars, feedVars>>

\* (Mutant: the sum is not halved.)
Sum(bid, ask) == bid + ask

MidPrice(bid, ask) == (bid + ask) \div 2

\* (Mutant: the lowest price is left out.)
WorthCheckingAboveOne(p) == p > 1

WorthChecking(p) == p > 0

\* get_best_ask, and update_market_price with the mean of the two.
LookAtAsk ==
    /\ loop = "ask" /\ phase = "idle"
    /\ WorthChecking(MidPrice(loop_bid, BestAsk))
    /\ StartCheck(Symbol, MidPrice(loop_bid, BestAsk))
    /\ loop' = "check" /\ loop_bid' = None
    /\ UNCHANGED <<vars, window, feedVars>>

LookInVain ==
    /\ loop = "ask" /\ phase = "idle"
    /\ ~WorthChecking(MidPrice(loop_bid, BestAsk))
    /\ loop' = "sleep" /\ loop_bid' = None
    /\ UNCHANGED <<vars, stopVars, window, feedVars>>

\* An order that does not trigger.
PassStop ==
    /\ loop = "check"
    /\ CheckOrder
    /\ submitted' = submitted
    /\ UNCHANGED <<vars, loopVars, feedVars>>

\* An order that triggers goes to submit_order, which takes engine_mutex_.
TriggerStop ==
    /\ loop = "check"
    /\ CheckOrder
    /\ submitted' # submitted
    /\ AcceptOrder(Last(submitted'))
    /\ loop' = "submit"
    /\ UNCHANGED <<loop_bid, window, feedVars>>

\* The book turns it down; nobody looks at the answer, and the order is gone.
TriggerInvalid ==
    /\ loop = "check"
    /\ CheckOrder
    /\ submitted' # submitted
    /\ RejectInvalid(Last(submitted'))
    /\ UNCHANGED <<loopVars, feedVars>>

CheckDone ==
    /\ loop = "check"
    /\ EndCheck
    /\ loop' = "sleep"
    /\ UNCHANGED <<vars, loop_bid, window, feedVars>>

-------------------------------------------------------------------------------
(* The feed: broadcast_bbo_update and broadcast_depth_update *)

FeedLooksAtBid ==
    /\ feed = "sleep" /\ phase = "idle"
    /\ feed' = "ask" /\ feed_bid' = BestBid
    /\ UNCHANGED <<vars, stopVars, loopVars, feed_bids>>

\* (Mutant: the comparison is the wrong way round.)
SendableCrossed(bid, ask) == bid > 0 /\ ask > 0 /\ ask < bid

Sendable(bid, ask) == bid > 0 /\ ask > 0 /\ ask > bid

SendBbo ==
    /\ feed = "ask" /\ phase = "idle"
    /\ Sendable(feed_bid, BestAsk)
    /\ feed' = "bids" /\ feed_bid' = None
    /\ UNCHANGED <<vars, stopVars, loopVars, feed_bids>>

SendNoBbo ==
    /\ feed = "ask" /\ phase = "idle"
    /\ ~Sendable(feed_bid, BestAsk)
    /\ feed' = "bids" /\ feed_bid' = None
    /\ UNCHANGED <<vars, stopVars, loopVars, feed_bids>>

\* get_bid_levels.
FeedLooksAtBids ==
    /\ feed = "bids" /\ phase = "idle"
    /\ feed' = "asks" /\ feed_bids' = DepthLevels("BUY", 10)
    /\ UNCHANGED <<vars, stopVars, loopVars, feed_bid>>

\* (Mutant: both sides have to have a level.)
WorthSendingBoth(bids, asks) == bids # <<>> /\ asks # <<>>

WorthSending(bids, asks) == bids # <<>> \/ asks # <<>>

\* get_ask_levels, and off they go; the feed sleeps.
SendDepth ==
    /\ feed = "asks" /\ phase = "idle"
    /\ WorthSending(feed_bids, DepthLevels("SELL", 10))
    /\ feed' = "sleep" /\ feed_bids' = <<>>
    /\ UNCHANGED <<vars, stopVars, loopVars, feed_bid>>

SendNoDepth ==
    /\ feed = "asks" /\ phase = "idle"
    /\ ~WorthSending(feed_bids, DepthLevels("SELL", 10))
    /\ feed' = "sleep" /\ feed_bids' = <<>>
    /\ UNCHANGED <<vars, stopVars, loopVars, feed_bid>>

-------------------------------------------------------------------------------
(* Specification *)

Matching == Scan \/ Match \/ Rest \/ Leave

PriceLoop ==
    \/ LookAtBid \/ LookAtAsk \/ LookInVain
    \/ PassStop \/ TriggerStop \/ TriggerInvalid \/ CheckDone

Feed ==
    \/ FeedLooksAtBid \/ SendBbo \/ SendNoBbo
    \/ FeedLooksAtBids \/ SendDepth \/ SendNoDepth

EngineNext ==
    \/ \E o \in ClientOffers : Submit(o) \/ SubmitInvalid(o)
    \/ \E id \in Cancels : Cancel(id)
    \/ \E id \in StopIds, r \in Requests : AddStop(id, r)
    \/ \E id \in StopIds : CancelStop(id)
    \/ Matching \/ PriceLoop \/ Feed

\* The thread in add_order holds the mutex; the price loop and the feed wake up
\* after their sleep.  Weak fairness is enough, for clients run out of ids.
EngineFairness == WF_engineVars(Matching) /\ WF_engineVars(PriceLoop) /\ WF_engineVars(Feed)

EngineSpec == EngineInit /\ [][EngineNext]_engineVars /\ EngineFairness

-------------------------------------------------------------------------------
(* Correctness *)

EngineTypeOK ==
    /\ TypeOK
    /\ StopsTypeOK
    /\ loop \in {"sleep", "ask", "check", "submit"}
    /\ loop_bid \in (IF loop = "ask" THEN Prices \cup {0} ELSE {None})
    /\ window \subseteq [bid : Prices \cup {0}, ask : Prices \cup {0}]
    /\ feed \in {"sleep", "ask", "bids", "asks"}
    /\ feed_bid \in (IF feed = "ask" THEN Prices \cup {0} ELSE {None})
    /\ \A i \in DOMAIN feed_bids : feed_bids[i] \in Prices \X Nat
    /\ check # None <=> loop \in {"check", "submit"}
    /\ loop = "submit" => phase # "idle"

\* The book in the engine is used as module OrderBook assumes: clients, stops
\* and cancels together never give it an id twice and never enter while an
\* add_order runs.  So what follows from FreshRules holds here.
BookRulesKept == [][FreshNext]_vars

\* The order that was added under this id.
AddedAs(id) == added[SelectInSeq(added, LAMBDA o : o.order_id = id)]

\* What there is of the order with this id: the object that was given to
\* add_order, the order it is matching, and what rests in the book.
CopiesOf(id) == {o \in Resting \cup {order, objects[id]} : o # None /\ o.order_id = id}

\* An order that is what the stop a stands for.
IsOrderOf(o, a) ==
    /\ o.type = a.order_type /\ o.side = a.side
    /\ o.quantity = a.quantity /\ o.price = a.price

\* A stop that triggers becomes an order of the type, the side, the quantity and
\* the price it was added with, and keeps them in every copy of it, through
\* matching, resting and all that clients do; and it gets into the book, unless
\* it is one the book turns down.  The manager drops it either way.
StopsReachTheBook ==
    \A i \in DOMAIN submitted :
        LET stop == AddedAs(submitted[i].order_id)
        IN  /\ CopiesOf(stop.order_id) # {}
            /\ \A o \in CopiesOf(stop.order_id) : IsOrderOf(o, stop)
            /\ stop.order_id \in Range(arrivals) <=>
                    stop.quantity > 0 /\ (stop.order_type = "LIMIT" => stop.price > 0)

TriggeredNow == {AddedAs(submitted[i].order_id) : i \in batch + 1 .. Len(submitted)}

\* While the market has orders on both sides, no stop triggers at a price it did
\* not have: though bid and ask are read one after the other, with orders coming
\* in between, a stop whose trigger is fixed does not trigger if both prices were
\* on the far side of its trigger all the time.
NoFalseTrigger ==
    (loop \in {"check", "submit"} /\ \A q \in window : q.bid > 0 /\ q.ask > 0) =>
        \A o \in TriggeredNow :
            o.advanced_type # "TRAILING_STOP" =>
                \E q \in window : ShouldTrigger(o, q.bid) \/ ShouldTrigger(o, q.ask)

Quotable == BestBid > 0 /\ BestAsk > BestBid

\* Subscribers keep getting best prices while the book stays uncrossed, with
\* orders on both sides.
BboFlows == <>[]Quotable => []<><<SendBbo>>_engineVars

\* And they keep getting the depth as long as there are orders on either side,
\* be the book crossed or not.
DepthFlows == <>[](Resting # {}) => []<><<SendDepth>>_engineVars

Mid == MidPrice(BestBid, BestAsk)

Due(id, p) ==
    /\ Mid = p
    /\ \E i \in DOMAIN advanced_orders[Symbol] :
        LET o == advanced_orders[Symbol][i]
        IN  o.order_id = id /\ ShouldTrigger(o, p)

\* A stop does not stay pending while the mid price stands where it is due.
DueStopsTrigger == \A id \in StopIds, p \in MarketPrices : []<>~Due(id, p)
===============================================================================
