----------------------------- MODULE EngineProofs -----------------------------
(***************************************************************************)
(* The engine around the book and the stop orders: it uses both as their    *)
(* modules assume, so that what is proved of them holds of the engine; a    *)
(* stop that triggers gets into the book as it was added; and on a market    *)
(* with two sides it triggers at a price there was while the price loop      *)
(* looked.                                                                  *)
(***************************************************************************)
EXTENDS Engine, AdvancedProofs, TapeProofs

-------------------------------------------------------------------------------
(* What the book shows *)

\* A best price is a price or 0.
LEMMA BestPrices ==
    ASSUME IInv, FokInv
    PROVE  BestBid \in Prices \cup {0} /\ BestAsk \in Prices \cup {0}
<1>1. GoodBook(book) /\ BookInv(book, lookup)
    BY DEF IInv, BookInv
<1>2. ASSUME NEW side \in Sides, DOMAIN book[side] # {}
      PROVE  /\ PricesFromBest(side)[1] \in Prices
             /\ PricesFromBest(side)[1] = IF side = "BUY" THEN BestBid ELSE BestAsk
    <2>1. IsFiniteSet(DOMAIN book[side])
        BY <1>1, LevelsAreFinite DEF FokInv
    <2>2. 1 \in 1 .. Cardinality(DOMAIN book[side])
        BY <1>2, <2>1, FS_CardinalityType, FS_EmptySet
    <2>3. PricesFromBest(side)[1] \in DOMAIN book[side]
        BY <1>1, <2>1, <2>2, PricesFromBestAreSorted
    <2> QED
        BY <1>1, <1>2, <2>1, <2>3, BestPriceIsFirst, LevelProperties
<1>3. DOMAIN book["BUY"] # {} => BestBid \in Prices
    BY <1>2 DEF Sides
<1>4. DOMAIN book["SELL"] # {} => BestAsk \in Prices
    BY <1>2 DEF Sides
<1> QED
    BY <1>3, <1>4 DEF BestBid, BestAsk

\* The depth is one of prices and quantities.
LEMMA DepthTypes ==
    ASSUME IInv, FokInv, NEW side \in Sides, NEW n \in Nat, NEW i \in DOMAIN DepthLevels(side, n)
    PROVE  DepthLevels(side, n)[i] \in Prices \X Nat
<1>1. GoodBook(book) /\ BookInv(book, lookup)
    BY DEF IInv, BookInv
<1>2. IsFiniteSet(DOMAIN book[side])
    BY <1>1, LevelsAreFinite DEF FokInv
<1>3. PICK p \in DOMAIN book[side] : DepthLevels(side, n)[i] = <<p, LeavesOf(book[side][p])>>
    BY <1>1, <1>2, DepthLevelsProperties
<1>4. p \in Prices
    BY <1>1, LevelProperties
<1>5. LeavesOf(book[side][p]) \in Nat
    <2>1. PICK g : g = LeftOf
        OBVIOUS
    <2>2. \A id \in RecordedAt(side, p) : g[id] = Rec(id).leaves_quantity
        BY <2>1 DEF LeftOf, RecordedAt
    <2> QED
        BY <1>1, <2>2, LeavesOnRecord
<1> QED
    BY <1>3, <1>4, <1>5

-------------------------------------------------------------------------------
(* What holds of the engine at every moment *)

\* The book has had an order with this id.
Used(id) == objects[id] # None \/ (order # None /\ order.order_id = id)

\* The stops come from the requests, under ids of the engine's own.
FromRequests ==
    \A k \in DOMAIN added : \E id \in StopIds : \E r \in Requests :
        added[k] = AdvancedOrderOf(id, r)

\* The book gets a stop's id with the stop, and not before.
UsedWhenSubmitted == \A id \in StopIds : Used(id) => id \in SubmittedIds

\* What was submitted is in the book, or was turned down.
SubmittedArrive ==
    \A j \in DOMAIN submitted :
        IF Acceptable(submitted[j])
        THEN Arrived(arrivals, submitted[j].order_id)
        ELSE /\ ~Arrived(arrivals, submitted[j].order_id)
             /\ objects[submitted[j].order_id] # None

\* Two orders of one id, type, side, quantity and price.
SameTerms(o, p) ==
    /\ o.order_id = p.order_id
    /\ o.type = p.type /\ o.side = p.side
    /\ o.quantity = p.quantity /\ o.price = p.price

\* What came back, what is in hand and what is on record under the id of o has
\* its terms.
TermsKept(o) ==
    /\ objects[o.order_id] # None => SameTerms(objects[o.order_id], o)
    /\ (order # None /\ order.order_id = o.order_id) => SameTerms(order, o)
    /\ o.order_id \in DOMAIN lookup => SameTerms(Rec(o.order_id), o)

\* What was submitted keeps its terms.
SubmittedKept == \A j \in DOMAIN submitted : TermsKept(submitted[j])

\* Best prices at the moment.
BestPricesNow == [bid |-> BestBid, ask |-> BestAsk]

\* The window has the best bid that the price loop has read and the prices of
\* the moment, until it reads the best ask as well; a check is for the mean of
\* a bid and an ask of the window.
LoopInv ==
    /\ loop \in {"sleep", "ask", "check", "submit"}
    /\ window \subseteq [bid : Prices \cup {0}, ask : Prices \cup {0}]
    /\ check # None <=> loop \in {"check", "submit"}
    /\ loop = "submit" => phase # "idle"
    /\ IF loop = "ask" THEN /\ BestPricesNow \in window
                            /\ \E q \in window : q.bid = loop_bid
       ELSE loop_bid = None
    /\ check # None => \E q, r \in window : check.price = MidPrice(q.bid, r.ask)

\* What the feed has read of the bids, and the levels it has read.
FeedInv ==
    /\ feed \in {"sleep", "ask", "bids", "asks"}
    /\ feed_bid \in (IF feed = "ask" THEN Prices \cup {0} ELSE {None})
    /\ \A i \in DOMAIN feed_bids : feed_bids[i] \in Prices \X Nat

\* What holds of book, stops, price loop and feed together.
EngineInv ==
    /\ IInv /\ RunningCall /\ FokInv
    /\ StopInv /\ PlaceInv /\ RequestInv
    /\ FromRequests
    /\ UsedWhenSubmitted
    /\ SubmittedArrive
    /\ SubmittedKept
    /\ LoopInv
    /\ FeedInv

-------------------------------------------------------------------------------
(* A stop that triggers *)

\* What was submitted has an id of the engine's own.
LEMMA SubmittedStops ==
    ASSUME RequestInv, FromRequests, NEW j \in DOMAIN submitted
    PROVE  submitted[j] \in StopOffers /\ submitted[j].order_id \in StopIds
<1>1. PICK k \in DOMAIN added : submitted[j] = OrderFrom(added[k])
    BY DEF RequestInv
<1>2. PICK id \in StopIds, r \in Requests : added[k] = AdvancedOrderOf(id, r)
    BY DEF FromRequests
<1>3. OrderFrom(AdvancedOrderOf(id, r)).order_id = id
    BY DEF OrderFrom, NewOrder, AdvancedOrderOf
<1> QED
    BY <1>1, <1>2, <1>3 DEF StopOffers

\* It goes to the book as an offer, under an id the book does not know.
LEMMA TriggeredOffer ==
    ASSUME EngineInv, CheckOrder, submitted' # submitted
    PROVE  LET new == Last(submitted')
           IN  /\ submitted' = Append(submitted, new)
               /\ new \in Order /\ new \in StopOffers /\ new \in Offers
               /\ new.order_id \in StopIds /\ new.order_id \in Ids
               /\ new.order_id \notin SubmittedIds
               /\ ~Used(new.order_id)
<1> DEFINE q == advanced_orders[check.symbol][position]
           o == Trailed(q, check.price)
           new == OrderFrom(o)
<1>1. StopInv /\ PlaceInv /\ RequestInv /\ FromRequests /\ UsedWhenSubmitted
    BY DEF EngineInv
<1>2. ShouldTrigger(o, check.price)
    BY DEF CheckOrder
<1>3. /\ submitted' = Append(submitted, new) /\ new \in Order
      /\ new.order_id = q.order_id
      /\ check.symbol \in Symbols /\ position \in DOMAIN advanced_orders[check.symbol]
    BY <1>1, <1>2, TriggeringErases, AtPosition
<1>4. PICK k \in DOMAIN added : new = OrderFrom(added[k])
    BY <1>1, AtPositionRequested, <1>2 DEF Triggered
<1> HIDE DEF o, new
<1>5. PICK id \in StopIds, r \in Requests : added[k] = AdvancedOrderOf(id, r)
    BY <1>1 DEF FromRequests
<1>6. new \in StopOffers /\ new.order_id = id
    BY <1>4, <1>5 DEF StopOffers, OrderFrom, NewOrder, AdvancedOrderOf
<1>7. q.order_id \in PendingIds
    BY <1>3, PendingIdsProperties
<1>8. new.order_id \notin SubmittedIds
    BY <1>1, <1>3, <1>7 DEF PlaceInv
<1>9. ~Used(new.order_id)
    BY <1>1, <1>6, <1>8 DEF UsedWhenSubmitted
<1>10. new \in Offers /\ new.order_id \in Ids
    BY <1>6, EngineAssumption
<1>11. Last(submitted') = new
    <2>1. submitted \in Seq(Order)
        BY <1>1 DEF StopInv, StopsTypeOK
    <2>2. Len(submitted') = Len(submitted) + 1 /\ submitted'[Len(submitted) + 1] = new
        BY <1>3, <2>1, AppendProperties
    <2> QED
        BY <2>2 DEF Last
<1> QED
    BY <1>3, <1>5, <1>6, <1>8, <1>9, <1>10, <1>11

\* A check is for a price the manager takes.
LEMMA MidIsMarketPrice ==
    ASSUME EngineInv, loop = "ask", MidPrice(loop_bid, BestAsk) > 0
    PROVE  MidPrice(loop_bid, BestAsk) \in MarketPrices
<1>1. PICK q \in window : q.bid = loop_bid
    BY DEF EngineInv, LoopInv
<1>2. loop_bid \in Prices \cup {0}
    BY <1>1 DEF EngineInv, LoopInv
<1>3. BestAsk \in Prices \cup {0}
    BY BestPrices DEF EngineInv
<1>4. MidPrice(loop_bid, BestAsk) \in Means
    BY <1>2, <1>3 DEF Means, MidPrice
<1> QED
    BY <1>4, EngineAssumption

\* The stop orders go by the rules of their module.
LEMMA StopRules == EngineInv /\ [EngineNext]_engineVars => [StopsNext]_stopVars
<1> SUFFICES ASSUME EngineInv, [EngineNext]_engineVars PROVE [StopsNext]_stopVars
    OBVIOUS
<1>1. ASSUME NEW id \in StopIds, NEW r \in Requests, AddStop(id, r) PROVE StopsNext
    BY <1>1, EngineAssumption DEF AddStop, StopsNext
<1>2. ASSUME NEW id \in StopIds, CancelStop(id) PROVE StopsNext
    BY <1>2, EngineAssumption DEF CancelStop, StopsNext
<1>3. CASE LookAtAsk
    <2>1. loop = "ask" /\ MidPrice(loop_bid, BestAsk) > 0 /\ StartCheck(Symbol, MidPrice(loop_bid, BestAsk))
        BY <1>3 DEF LookAtAsk, WorthChecking
    <2>2. MidPrice(loop_bid, BestAsk) \in MarketPrices
        BY <2>1, MidIsMarketPrice
    <2> QED
        BY <2>1, <2>2, EngineAssumption DEF StopsNext
<1>4. CASE PassStop \/ TriggerStop \/ TriggerInvalid \/ CheckDone
    BY <1>4 DEF PassStop, TriggerStop, TriggerInvalid, CheckDone, StopsNext
<1>5. ASSUME NEW o, Submit(o) \/ SubmitInvalid(o) PROVE UNCHANGED stopVars
    BY <1>5 DEF Submit, SubmitInvalid
<1>6. ASSUME NEW id, Cancel(id) PROVE UNCHANGED stopVars
    BY <1>6 DEF Cancel
<1>7. CASE Matching \/ Feed \/ LookAtBid \/ LookInVain
    BY <1>7 DEF Matching, Scan, Match, Rest, Leave, Feed, FeedLooksAtBid, SendBbo, SendNoBbo,
        FeedLooksAtBids, SendDepth, SendNoDepth, LookAtBid, LookInVain
<1>8. CASE UNCHANGED engineVars
    BY <1>8 DEF engineVars
<1> QED
    BY <1>1, <1>2, <1>3, <1>4, <1>5, <1>6, <1>7, <1>8 DEF EngineNext, PriceLoop

\* The book goes by the rules of its module.
LEMMA BookRules == EngineInv /\ [EngineNext]_engineVars => [FreshNext]_vars
<1> SUFFICES ASSUME EngineInv, [EngineNext]_engineVars PROVE [FreshNext]_vars
    OBVIOUS
<1>1. ASSUME NEW o \in ClientOffers, Submit(o) \/ SubmitInvalid(o) PROVE FreshNext
    BY <1>1, EngineAssumption DEF Submit, SubmitInvalid, Unused, FreshNext, SubmitOrder
<1>2. ASSUME NEW id \in Cancels, Cancel(id) PROVE FreshNext
    BY <1>2, EngineAssumption DEF Cancel, FreshNext, OtherCalls
<1>3. CASE Matching
    BY <1>3 DEF Matching, Scan, Match, Rest, Leave, FreshNext, Continue
<1>4. CASE TriggerStop \/ TriggerInvalid
    <2> DEFINE new == Last(submitted')
    <2>1. /\ CheckOrder /\ submitted' # submitted
          /\ AcceptOrder(new) \/ RejectInvalid(new)
        BY <1>4 DEF TriggerStop, TriggerInvalid
    <2>2. new \in Offers /\ ~Used(new.order_id)
        BY <2>1, TriggeredOffer
    <2> HIDE DEF new
    <2> QED
        BY <2>1, <2>2 DEF Used, FreshNext, SubmitOrder
<1>5. ASSUME NEW id, NEW r, AddStop(id, r) PROVE UNCHANGED vars
    BY <1>5 DEF AddStop
<1>6. ASSUME NEW id, CancelStop(id) PROVE UNCHANGED vars
    BY <1>6 DEF CancelStop
<1>7. CASE Feed \/ LookAtBid \/ LookAtAsk \/ LookInVain \/ PassStop \/ CheckDone
    BY <1>7 DEF Feed, FeedLooksAtBid, SendBbo, SendNoBbo, FeedLooksAtBids, SendDepth, SendNoDepth,
        LookAtBid, LookAtAsk, LookInVain, PassStop, CheckDone
<1>8. CASE UNCHANGED engineVars
    BY <1>8 DEF engineVars
<1> QED
    BY <1>1, <1>2, <1>3, <1>4, <1>5, <1>6, <1>7, <1>8 DEF EngineNext, PriceLoop

-------------------------------------------------------------------------------
(* The way of a stop into the book *)

\* An order that is turned down is known from now on, and has not arrived.
LEMMA RejectedIsUsed ==
    ASSUME IInv, NEW o \in Offers, RejectInvalid(o)
    PROVE  /\ ~Acceptable(o) /\ arrivals' = arrivals
           /\ objects'[o.order_id] # None
           /\ \A id \in Ids : objects[id] # None => objects'[id] # None
           /\ \A id \in Ids : Used(id)' => Used(id) \/ id = o.order_id
<1>1. o \in Order /\ o.order_id \in Ids /\ o # None
    BY BookAssumption, TypesAssumption DEF Order
<1>2. objects \in [Ids -> Order \cup {None}]
    BY DEF IInv, StateTypes
<1>3. /\ ~Acceptable(o) /\ objects' = [objects EXCEPT ![o.order_id] = o]
      /\ UNCHANGED <<order, arrivals>>
    BY DEF RejectInvalid
<1> QED
    BY <1>1, <1>2, <1>3 DEF Used

\* An order that is accepted is known, and has arrived.
LEMMA AcceptedIsUsed ==
    ASSUME IInv, NEW o \in Offers, AcceptOrder(o)
    PROVE  /\ Acceptable(o) /\ objects' = objects
           /\ Arrived(arrivals', o.order_id)
           /\ \A id : Arrived(arrivals, id) => Arrived(arrivals', id)
           /\ \A id : Arrived(arrivals', id) => Arrived(arrivals, id) \/ id = o.order_id
           /\ \A id \in Ids : Used(id)' => Used(id) \/ id = o.order_id
<1>1. o \in Order /\ o.order_id \in Ids
    BY BookAssumption DEF Order
<1>2. /\ Acceptable(o) /\ objects' = objects
      /\ order' = [o EXCEPT !.status = "ACTIVE"]
      /\ arrivals' = Append(arrivals, o.order_id)
    BY DEF AcceptOrder
<1>3. order'.order_id = o.order_id
    BY <1>1, <1>2 DEF Order
<1>4. arrivals \in Seq(Ids)
    BY DEF IInv, StateTypes
<1>5. /\ Arrived(arrivals', o.order_id)
      /\ \A id : Arrived(arrivals, id) => Arrived(arrivals', id)
    BY <1>1, <1>2, <1>4, ArrivalProperties
<1>6. \A i \in DOMAIN arrivals' : (i \in DOMAIN arrivals /\ arrivals'[i] = arrivals[i])
                                    \/ arrivals'[i] = o.order_id
    <2> DEFINE n == Len(arrivals)
    <2>1. /\ n \in Nat /\ DOMAIN arrivals = 1 .. n /\ DOMAIN arrivals' = 1 .. n + 1
          /\ \A i \in 1 .. n : arrivals'[i] = arrivals[i]
          /\ arrivals'[n + 1] = o.order_id
        BY <1>1, <1>2, <1>4, AppendProperties, LenProperties
    <2> HIDE DEF n
    <2> QED
        BY <2>1
<1>7. \A id : Arrived(arrivals', id) => Arrived(arrivals, id) \/ id = o.order_id
    BY <1>6 DEF Arrived
<1> QED
    BY <1>2, <1>3, <1>5, <1>7 DEF Used

\* What else the book does makes no id known and no order arrive.
LEMMA OthersUseNothing ==
    ASSUME IInv, \/ Continue
                 \/ \E id \in Ids : CancelOrder(id)
                 \/ UNCHANGED vars
    PROVE  /\ arrivals' = arrivals
           /\ \A id \in Ids : objects[id] # None => objects'[id] # None
           /\ \A id \in Ids : Used(id)' => Used(id)
<1>1. objects \in [Ids -> Order \cup {None}]
    BY DEF IInv, StateTypes
<1>2. CASE CheckFok
    <2>1. order # None /\ order \in Order
        BY <1>2 DEF CheckFok, IInv, CallInv, StateTypes
    <2>2. order'.order_id = order.order_id /\ UNCHANGED <<objects, arrivals>>
        BY <1>2, <2>1 DEF CheckFok, Order
    <2> QED
        BY <2>1, <2>2 DEF Used
<1>3. CASE MatchStep
    <2>1. order # None /\ UNCHANGED <<objects, arrivals>>
        BY <1>3 DEF MatchStep, IInv, CallInv
    <2>2. order'.order_id = order.order_id
        BY <1>3, MatchStepKeepsIInv DEF TakerStays
    <2> QED
        BY <2>1, <2>2 DEF Used
<1>4. CASE RestInBook \/ LeaveBook
    <2>1. /\ phase # "idle" /\ order' = None /\ arrivals' = arrivals
          /\ objects' = [objects EXCEPT ![order.order_id] = order]
        BY <1>4 DEF RestInBook, LeaveBook, ReturnToCaller, MatchingDone
    <2>2. order # None /\ order \in Order
        BY <2>1 DEF IInv, CallInv, StateTypes
    <2>3. order.order_id \in Ids
        BY <2>2 DEF Order
    <2> QED
        BY <1>1, <2>1, <2>2, <2>3 DEF Used
<1>5. CASE \E id \in Ids : CancelOrder(id)
    BY <1>5 DEF CancelOrder, vars, Used
<1>6. CASE UNCHANGED vars
    BY <1>6 DEF vars, Used
<1> QED
    BY <1>2, <1>3, <1>4, <1>5, <1>6 DEF Continue

\* What a step of the engine is for the way of the stops into the book.
LEMMA StepKinds ==
    ASSUME EngineInv, [EngineNext]_engineVars
    PROVE  \/ /\ submitted' = submitted
              /\ \/ \E o \in ClientOffers : AcceptOrder(o) \/ RejectInvalid(o)
                 \/ Continue
                 \/ \E id \in Ids : CancelOrder(id)
                 \/ UNCHANGED vars
           \/ /\ CheckOrder /\ submitted' # submitted
              /\ AcceptOrder(Last(submitted')) \/ RejectInvalid(Last(submitted'))
<1>1. ASSUME NEW o \in ClientOffers, Submit(o) \/ SubmitInvalid(o)
      PROVE  submitted' = submitted /\ (AcceptOrder(o) \/ RejectInvalid(o))
    BY <1>1 DEF Submit, SubmitInvalid, stopVars
<1>2. ASSUME NEW id \in Cancels, Cancel(id)
      PROVE  submitted' = submitted /\ CancelOrder(id) /\ id \in Ids
    BY <1>2, EngineAssumption DEF Cancel, stopVars
<1>3. CASE Matching
    BY <1>3 DEF Matching, Scan, Match, Rest, Leave, Continue, stopVars
<1>4. CASE TriggerStop \/ TriggerInvalid
    BY <1>4 DEF TriggerStop, TriggerInvalid
<1>5. ASSUME NEW id, NEW r, AddStop(id, r) PROVE UNCHANGED vars /\ submitted' = submitted
    BY <1>5 DEF AddStop, AddOrder
<1>6. ASSUME NEW id, CancelStop(id) PROVE UNCHANGED vars /\ submitted' = submitted
    BY <1>6 DEF CancelStop, CancelAdvanced
<1>7. CASE Feed \/ LookAtBid \/ LookAtAsk \/ LookInVain \/ PassStop \/ CheckDone
    BY <1>7 DEF Feed, FeedLooksAtBid, SendBbo, SendNoBbo, FeedLooksAtBids, SendDepth, SendNoDepth,
        LookAtBid, LookAtAsk, LookInVain, PassStop, CheckDone, StartCheck, EndCheck, stopVars
<1>8. CASE UNCHANGED engineVars
    BY <1>8 DEF engineVars, stopVars
<1> QED
    BY <1>1, <1>2, <1>3, <1>4, <1>5, <1>6, <1>7, <1>8 DEF EngineNext, PriceLoop

\* One more submission.
LEMMA OneMoreSubmitted ==
    ASSUME StopInv, NEW new \in Order, submitted' = Append(submitted, new)
    PROVE  /\ SubmittedIds' = SubmittedIds \cup {new.order_id}
           /\ \A j \in DOMAIN submitted' :
                \/ j \in DOMAIN submitted /\ submitted'[j] = submitted[j]
                \/ submitted'[j] = new
<1> DEFINE n == Len(submitted)
<1>1. submitted \in Seq(Order)
    BY DEF StopInv, StopsTypeOK
<1>2. /\ n \in Nat /\ DOMAIN submitted = 1 .. n /\ DOMAIN submitted' = 1 .. n + 1
      /\ \A j \in 1 .. n : submitted'[j] = submitted[j]
      /\ submitted'[n + 1] = new
    BY <1>1, AppendProperties, LenProperties
<1> HIDE DEF n
<1>3. \A j \in DOMAIN submitted' : (j \in DOMAIN submitted /\ submitted'[j] = submitted[j])
                                    \/ submitted'[j] = new
    BY <1>2
<1>4. \A j \in DOMAIN submitted : j \in DOMAIN submitted' /\ submitted'[j] = submitted[j]
    BY <1>2
<1>5. n + 1 \in DOMAIN submitted'
    BY <1>2
<1> QED
    BY <1>2, <1>3, <1>4, <1>5 DEF SubmittedIds

\* A stop's id comes into use with the stop, which is then in the book or turned down.
LEMMA NextUsed == EngineInv /\ [EngineNext]_engineVars => UsedWhenSubmitted' /\ SubmittedArrive'
<1> SUFFICES ASSUME EngineInv, [EngineNext]_engineVars PROVE UsedWhenSubmitted' /\ SubmittedArrive'
    OBVIOUS
<1>1. /\ IInv /\ RunningCall /\ StopInv /\ RequestInv /\ FromRequests
      /\ UsedWhenSubmitted /\ SubmittedArrive /\ StopIds \subseteq Ids
    BY EngineAssumption DEF EngineInv
<1>2. \A j \in DOMAIN submitted : submitted[j].order_id \in StopIds
    BY <1>1, SubmittedStops
<1>3. CASE /\ submitted' = submitted
           /\ Continue \/ (\E id \in Ids : CancelOrder(id)) \/ UNCHANGED vars
    <2>1. /\ arrivals' = arrivals
          /\ \A id \in Ids : objects[id] # None => objects'[id] # None
          /\ \A id \in Ids : Used(id)' => Used(id)
        BY <1>1, <1>3, OthersUseNothing
    <2>2. SubmittedIds' = SubmittedIds
        BY <1>3 DEF SubmittedIds
    <2>3. UsedWhenSubmitted'
        BY <1>1, <2>1, <2>2 DEF UsedWhenSubmitted
    <2>4. SubmittedArrive'
        BY <1>1, <1>2, <1>3, <2>1 DEF SubmittedArrive
    <2> QED
        BY <2>3, <2>4
<1>4. ASSUME NEW o \in ClientOffers, submitted' = submitted, AcceptOrder(o) \/ RejectInvalid(o)
      PROVE  UsedWhenSubmitted' /\ SubmittedArrive'
    <2>1. o \in Offers /\ o.order_id \notin StopIds
        BY EngineAssumption
    <2>2. /\ \A id \in Ids : objects[id] # None => objects'[id] # None
          /\ \A id : Arrived(arrivals, id) => Arrived(arrivals', id)
          /\ \A id : Arrived(arrivals', id) => Arrived(arrivals, id) \/ id = o.order_id
          /\ \A id \in Ids : Used(id)' => Used(id) \/ id = o.order_id
        BY <1>1, <1>4, <2>1, AcceptedIsUsed, RejectedIsUsed
    <2>3. SubmittedIds' = SubmittedIds
        BY <1>4 DEF SubmittedIds
    <2>4. UsedWhenSubmitted'
        BY <1>1, <2>1, <2>2, <2>3 DEF UsedWhenSubmitted
    <2>5. SubmittedArrive'
        BY <1>1, <1>2, <1>4, <2>1, <2>2 DEF SubmittedArrive
    <2> QED
        BY <2>4, <2>5
<1>5. CASE /\ CheckOrder /\ submitted' # submitted
           /\ AcceptOrder(Last(submitted')) \/ RejectInvalid(Last(submitted'))
    <2> DEFINE new == Last(submitted')
    <2>1. /\ submitted' = Append(submitted, new)
          /\ new \in Order /\ new \in Offers /\ new.order_id \in Ids
          /\ new.order_id \notin SubmittedIds
          /\ ~Used(new.order_id)
        BY <1>5, TriggeredOffer
    <2>2. AcceptOrder(new) \/ RejectInvalid(new)
        BY <1>5
    <2> HIDE DEF new
    <2>3. /\ SubmittedIds' = SubmittedIds \cup {new.order_id}
          /\ \A j \in DOMAIN submitted' :
                \/ j \in DOMAIN submitted /\ submitted'[j] = submitted[j]
                \/ submitted'[j] = new
        BY <1>1, <2>1, OneMoreSubmitted
    <2>4. /\ \A id \in Ids : objects[id] # None => objects'[id] # None
          /\ \A id : Arrived(arrivals, id) => Arrived(arrivals', id)
          /\ \A id : Arrived(arrivals', id) => Arrived(arrivals, id) \/ id = new.order_id
          /\ \A id \in Ids : Used(id)' => Used(id) \/ id = new.order_id
        BY <1>1, <2>1, <2>2, AcceptedIsUsed, RejectedIsUsed
    <2>5. UsedWhenSubmitted'
        BY <1>1, <2>3, <2>4 DEF UsedWhenSubmitted
    <2>6. ~Arrived(arrivals, new.order_id)
        BY <1>1, <2>1 DEF Arrived, RunningCall, Used
    <2>7. IF Acceptable(new) THEN Arrived(arrivals', new.order_id)
          ELSE ~Arrived(arrivals', new.order_id) /\ objects'[new.order_id] # None
        BY <1>1, <2>1, <2>2, <2>6, AcceptedIsUsed, RejectedIsUsed
    <2>8. \A j \in DOMAIN submitted : submitted[j].order_id # new.order_id
        BY <2>1 DEF SubmittedIds
    <2>9. \A j \in DOMAIN submitted :
            IF Acceptable(submitted[j]) THEN Arrived(arrivals', submitted[j].order_id)
            ELSE ~Arrived(arrivals', submitted[j].order_id) /\ objects'[submitted[j].order_id] # None
        BY <1>1, <1>2, <2>4, <2>8 DEF SubmittedArrive
    <2>10. SubmittedArrive'
        BY <2>3, <2>7, <2>9 DEF SubmittedArrive
    <2> QED
        BY <2>5, <2>10
<1> QED
    BY <1>3, <1>4, <1>5, StepKinds

\* An order with other terms comes under another id only.
LEMMA OtherOrderKeepsTerms ==
    ASSUME IInv, NEW o \in Offers, AcceptOrder(o) \/ RejectInvalid(o),
           NEW new, new.order_id \in Ids, TermsKept(new),
           o.order_id = new.order_id => SameTerms(o, new)
    PROVE  TermsKept(new)'
<1>1. /\ o \in Order /\ o.order_id \in Ids /\ objects \in [Ids -> Order \cup {None}]
      /\ UNCHANGED <<book, lookup>>
    BY BookAssumption DEF Order, IInv, StateTypes, AcceptOrder, RejectInvalid
<1>2. Rec(new.order_id)' = Rec(new.order_id)
    BY <1>1 DEF Rec
<1>3. CASE AcceptOrder(o)
    <2>1. order' = [o EXCEPT !.status = "ACTIVE"] /\ objects' = objects
        BY <1>3 DEF AcceptOrder
    <2>2. order'.order_id = o.order_id /\ SameTerms(order', o)
        BY <1>1, <2>1 DEF Order, SameTerms
    <2> QED
        BY <1>1, <1>2, <2>1, <2>2 DEF TermsKept, SameTerms
<1>4. CASE RejectInvalid(o)
    <2>1. order' = order /\ objects' = [objects EXCEPT ![o.order_id] = o]
        BY <1>4 DEF RejectInvalid
    <2> QED
        BY <1>1, <1>2, <2>1 DEF TermsKept
<1> QED
    BY <1>3, <1>4

\* Matching, resting and cancelling leave the terms alone.
LEMMA OthersKeepTerms ==
    ASSUME IInv, NEW new, new.order_id \in Ids, TermsKept(new),
           \/ Continue
           \/ \E id \in Ids : CancelOrder(id)
           \/ UNCHANGED vars
    PROVE  TermsKept(new)'
<1> DEFINE id == new.order_id
<1>1. objects \in [Ids -> Order \cup {None}]
    BY DEF IInv, StateTypes
<1>2. CASE CheckFok
    <2>1. order # None /\ order \in Order
        BY <1>2 DEF CheckFok, IInv, CallInv, StateTypes
    <2>2. /\ order' \in {order, [order EXCEPT !.status = "REJECTED"]}
          /\ UNCHANGED <<book, lookup, objects>>
        BY <1>2 DEF CheckFok
    <2>3. order'.order_id = order.order_id /\ SameTerms(order', order)
        BY <2>1, <2>2 DEF Order, SameTerms
    <2>4. Rec(id)' = Rec(id)
        BY <2>2 DEF Rec
    <2> QED
        BY <2>1, <2>2, <2>3, <2>4 DEF TermsKept, SameTerms
<1>3. CASE MatchStep
    <2>1. PICK m \in DOMAIN lookup : \E q \in Nat : Round(m, q)
        BY <1>3, MatchStepIsRound
    <2>2. PICK q \in Nat : Round(m, q)
        BY <2>1
    <2>3. /\ Rec(m) \in Order /\ order \in Order /\ order # None
          /\ order' = Fill(order, q) /\ objects' = objects
          /\ DOMAIN lookup' \subseteq DOMAIN lookup
          /\ \A x \in DOMAIN lookup' : Rec(x)' = IF x = m THEN Fill(Rec(m), q) ELSE Rec(x)
        BY <2>2 DEF Round
    <2>4. \A o \in Order : Fill(o, q).order_id = o.order_id /\ SameTerms(Fill(o, q), o)
        BY FillProperties DEF SameTerms
    <2>5. order'.order_id = order.order_id /\ SameTerms(order', order)
        BY <2>3, <2>4
    <2>6. id \in DOMAIN lookup' => id \in DOMAIN lookup /\ SameTerms(Rec(id)', Rec(id))
        <3>1. SameTerms(Fill(Rec(m), q), Rec(m))
            BY <2>3, <2>4
        <3> QED
            BY <2>3, <3>1 DEF SameTerms
    <2> QED
        BY <2>3, <2>5, <2>6 DEF TermsKept, SameTerms
<1>4. CASE RestInBook \/ LeaveBook
    <2>1. /\ order' = None /\ phase # "idle"
          /\ objects' = [objects EXCEPT ![order.order_id] = order]
        BY <1>4 DEF RestInBook, LeaveBook, ReturnToCaller, MatchingDone
    <2>2. order # None /\ order \in Order
        BY <2>1 DEF IInv, CallInv, StateTypes
    <2>3. order.order_id \in Ids
        BY <2>2 DEF Order
    <2>4. objects'[id] = IF id = order.order_id THEN order ELSE objects[id]
        BY <1>1, <2>1, <2>3
    <2>5. CASE RestInBook
        <3>1. /\ DOMAIN lookup' = DOMAIN lookup \cup {order.order_id}
              /\ \A x \in DOMAIN lookup' : Rec(x)' = IF x = order.order_id THEN order ELSE Rec(x)
            BY <2>5, RestInBookOnRecord
        <3> QED
            BY <2>1, <2>2, <2>4, <3>1 DEF TermsKept, SameTerms
    <2>6. CASE LeaveBook
        <3>1. lookup' = lookup /\ Rec(id)' = Rec(id)
            BY <2>6 DEF LeaveBook, Rec
        <3> QED
            BY <2>1, <2>2, <2>4, <3>1 DEF TermsKept
    <2> QED
        BY <1>4, <2>5, <2>6
<1>5. ASSUME NEW x \in Ids, CancelOrder(x) PROVE TermsKept(new)'
    BY <1>5, CancelOrderOnRecord DEF TermsKept
<1>6. CASE UNCHANGED vars
    BY <1>6 DEF vars, TermsKept, Rec
<1> QED
    BY <1>2, <1>3, <1>4, <1>5, <1>6 DEF Continue

\* So what was submitted keeps its terms: no client has an order with its id, and
\* when it was submitted there was none.
LEMMA NextKept == EngineInv /\ [EngineNext]_engineVars => SubmittedKept'
<1> SUFFICES ASSUME EngineInv, [EngineNext]_engineVars, NEW j \in DOMAIN submitted'
             PROVE  TermsKept(submitted[j])'
    BY DEF SubmittedKept
<1>1. /\ IInv /\ StopInv /\ RequestInv /\ FromRequests /\ SubmittedKept
      /\ StopIds \subseteq Ids
    BY EngineAssumption DEF EngineInv
<1>2. PICK o : o = submitted'[j]
    OBVIOUS
<1>3. SUFFICES TermsKept(o)'
    BY <1>2 DEF TermsKept
<1>4. ASSUME j \in DOMAIN submitted, submitted'[j] = submitted[j]
      PROVE  o.order_id \in StopIds /\ o.order_id \in SubmittedIds /\ TermsKept(o)
    <2>1. o = submitted[j]
        BY <1>2, <1>4
    <2> QED
        BY <1>1, <1>4, <2>1, SubmittedStops DEF SubmittedKept, SubmittedIds
<1>5. CASE /\ submitted' = submitted
           /\ Continue \/ (\E id \in Ids : CancelOrder(id)) \/ UNCHANGED vars
    BY <1>1, <1>4, <1>5, OthersKeepTerms
<1>6. ASSUME NEW c \in ClientOffers, submitted' = submitted, AcceptOrder(c) \/ RejectInvalid(c)
      PROVE  TermsKept(o)'
    <2>1. c \in Offers /\ c.order_id \notin StopIds
        BY EngineAssumption
    <2> QED
        BY <1>1, <1>4, <1>6, <2>1, OtherOrderKeepsTerms
<1>7. CASE /\ CheckOrder /\ submitted' # submitted
           /\ AcceptOrder(Last(submitted')) \/ RejectInvalid(Last(submitted'))
    <2>1. PICK new : new = Last(submitted')
        OBVIOUS
    <2>2. /\ submitted' = Append(submitted, new)
          /\ new \in Order /\ new \in Offers /\ new.order_id \in Ids
          /\ new.order_id \notin SubmittedIds
          /\ ~Used(new.order_id)
        BY <1>7, <2>1, TriggeredOffer
    <2>3. AcceptOrder(new) \/ RejectInvalid(new)
        BY <1>7, <2>1
    <2>4. \/ j \in DOMAIN submitted /\ submitted'[j] = submitted[j]
          \/ submitted'[j] = new
        BY <1>1, <2>2, OneMoreSubmitted
    <2>5. CASE j \in DOMAIN submitted /\ submitted'[j] = submitted[j]
        <3>1. o.order_id \in Ids /\ o.order_id # new.order_id /\ TermsKept(o)
            BY <1>1, <1>4, <2>2, <2>5
        <3> QED
            BY <1>1, <2>2, <2>3, <3>1, OtherOrderKeepsTerms
    <2>6. CASE submitted'[j] = new
        <3>1. o = new
            BY <1>2, <2>6
        <3>2. objects[new.order_id] = None /\ ~(order # None /\ order.order_id = new.order_id)
            BY <2>2 DEF Used
        <3>3. new.order_id \notin DOMAIN lookup
            BY <1>1, <3>2 DEF IInv, CallInv
        <3>4. TermsKept(new)
            BY <3>2, <3>3 DEF TermsKept
        <3>5. SameTerms(new, new)
            BY DEF SameTerms
        <3> QED
            BY <1>1, <2>2, <2>3, <3>1, <3>4, <3>5, OtherOrderKeepsTerms
    <2> QED
        BY <2>4, <2>5, <2>6
<1> QED
    BY <1>5, <1>6, <1>7, StepKinds

\* Every stop comes from a request.
LEMMA NextFromRequests == EngineInv /\ [EngineNext]_engineVars => FromRequests'
<1> SUFFICES ASSUME EngineInv, [EngineNext]_engineVars PROVE FromRequests'
    OBVIOUS
<1>1. FromRequests /\ StopInv
    BY DEF EngineInv
<1>2. ASSUME NEW id \in StopIds, NEW r \in Requests, AddStop(id, r) PROVE FromRequests'
    <2> DEFINE o == AdvancedOrderOf(id, r)
               n == Len(added)
    <2>1. added' = Append(added, o)
        BY <1>2 DEF AddStop, AddOrder
    <2>2. added \in Seq(AdvancedOrder)
        BY <1>1 DEF StopInv, StopsTypeOK
    <2>3. o \in AdvancedOrder
        BY AdvancedOrderOfType, EngineAssumption
    <2> HIDE DEF o
    <2>4. /\ n \in Nat /\ DOMAIN added = 1 .. n /\ DOMAIN added' = 1 .. n + 1
          /\ \A k \in 1 .. n : added'[k] = added[k]
          /\ added'[n + 1] = o
        BY <2>1, <2>2, <2>3, AppendProperties, LenProperties
    <2> HIDE DEF n
    <2>5. \A k \in DOMAIN added' : (k \in DOMAIN added /\ added'[k] = added[k]) \/ added'[k] = o
        BY <2>4
    <2> QED
        BY <1>1, <2>5 DEF FromRequests, o
<1>3. ASSUME added' = added PROVE FromRequests'
    BY <1>1, <1>3 DEF FromRequests
<1>4. ASSUME NEW id, CancelStop(id) PROVE added' = added
    BY <1>4 DEF CancelStop, CancelAdvanced
<1>5. ASSUME NEW o, Submit(o) \/ SubmitInvalid(o) PROVE added' = added
    BY <1>5 DEF Submit, SubmitInvalid, stopVars
<1>6. ASSUME NEW id, Cancel(id) PROVE added' = added
    BY <1>6 DEF Cancel, stopVars
<1>7. CASE Matching \/ PriceLoop \/ Feed
    <2>1. added' = added
        BY <1>7 DEF Matching, Scan, Match, Rest, Leave, PriceLoop, LookAtBid, LookAtAsk, LookInVain,
            PassStop, TriggerStop, TriggerInvalid, CheckDone, StartCheck, CheckOrder, EndCheck,
            Feed, FeedLooksAtBid, SendBbo, SendNoBbo, FeedLooksAtBids, SendDepth, SendNoDepth, stopVars
    <2> QED
        BY <1>3, <2>1
<1>8. CASE UNCHANGED engineVars
    BY <1>3, <1>8 DEF engineVars, stopVars
<1> QED
    BY <1>2, <1>3, <1>4, <1>5, <1>6, <1>7, <1>8 DEF EngineNext

-------------------------------------------------------------------------------
(* The price loop *)

\* Best prices are prices, or 0 for an empty side.
BestPricesTyped == BestPricesNow \in [bid : Prices \cup {0}, ask : Prices \cup {0}]

\* The best prices of a sound book are prices or 0.
LEMMA BestPricesTypes == IInv /\ FokInv => BestPricesTyped
BY BestPrices DEF BestPricesNow, BestPricesTyped

\* And those of the book after a step.
LEMMA BestPricesTypesNext == IInv' /\ FokInv' => BestPricesTyped'
BY BestPricesTypes, PTL

\* A step that leaves the loop, the best prices and the mutex as they are.
LEMMA LoopStands ==
    ASSUME LoopInv, UNCHANGED <<loop, loop_bid, window, check, book>>,
           loop' = "submit" => phase' # "idle"
    PROVE  LoopInv'
<1>1. BestPricesNow' = BestPricesNow
    BY DEF BestPricesNow, BestBid, BestAsk
<1> QED
    BY <1>1 DEF LoopInv

\* A step of the book that the loop may notice.
LEMMA LoopWitnesses ==
    ASSUME LoopInv, Witnessed, check' = check, IInv', FokInv',
           \/ loop' = loop /\ (loop = "submit" => phase' # "idle")
           \/ ReturnTo
    PROVE  LoopInv'
<1>1. BestPricesNow' \in [bid : Prices \cup {0}, ask : Prices \cup {0}]
    BY BestPricesTypesNext DEF BestPricesTyped
<1>2. /\ loop_bid' = loop_bid
      /\ window' = IF loop = "ask" THEN window \cup {BestPricesNow'} ELSE window
    BY DEF Witnessed, BestPricesNow
<1>3. /\ loop' \in {"sleep", "ask", "check", "submit"}
      /\ loop = "ask" <=> loop' = "ask"
      /\ loop \in {"check", "submit"} <=> loop' \in {"check", "submit"}
      /\ loop' = "submit" => phase' # "idle"
    BY DEF LoopInv, ReturnTo
<1> QED
    BY <1>1, <1>2, <1>3 DEF LoopInv

\* The price loop goes on with a price the market had.
LEMMA NextLoop ==
    EngineInv /\ IInv' /\ FokInv' /\ [EngineNext]_engineVars => LoopInv'
<1> SUFFICES ASSUME EngineInv, IInv', FokInv', [EngineNext]_engineVars PROVE LoopInv'
    OBVIOUS
<1>0. IInv /\ FokInv /\ LoopInv
    BY DEF EngineInv
<1>1. ASSUME NEW o \in ClientOffers, Submit(o) \/ SubmitInvalid(o) PROVE LoopInv'
    <2>1. phase = "idle" /\ UNCHANGED <<loop, loop_bid, window, check, book>>
        BY <1>1 DEF Submit, SubmitInvalid, AcceptOrder, RejectInvalid, loopVars, stopVars
    <2>2. loop' # "submit"
        BY <1>0, <2>1 DEF LoopInv
    <2> QED
        BY <1>0, <2>1, <2>2, LoopStands
<1>2. ASSUME NEW id, Cancel(id) PROVE LoopInv'
    <2>1. phase = "idle" /\ Witnessed /\ UNCHANGED <<loop, check>>
        BY <1>2 DEF Cancel, CancelOrder, stopVars
    <2> QED
        BY <1>0, <2>1, LoopWitnesses DEF LoopInv
<1>3. ASSUME NEW id, NEW r, AddStop(id, r) PROVE LoopInv'
    <2>1. UNCHANGED <<phase, loop, loop_bid, window, check, book>>
        BY <1>3 DEF AddStop, AddOrder, loopVars, vars
    <2> QED
        BY <1>0, <2>1, LoopStands DEF LoopInv
<1>4. ASSUME NEW id, CancelStop(id) PROVE LoopInv'
    <2>1. UNCHANGED <<phase, loop, loop_bid, window, check, book>>
        BY <1>4 DEF CancelStop, CancelAdvanced, loopVars, vars
    <2> QED
        BY <1>0, <2>1, LoopStands DEF LoopInv
<1>5. CASE Scan
    <2>1. phase' # "idle" /\ UNCHANGED <<loop, loop_bid, window, check, book>>
        BY <1>5 DEF Scan, CheckFok, loopVars, stopVars
    <2> QED
        BY <1>0, <2>1, LoopStands
<1>6. CASE Match
    <2>1. phase' = phase /\ phase = "match" /\ Witnessed /\ UNCHANGED <<loop, check>>
        BY <1>6 DEF Match, MatchStep, stopVars
    <2> QED
        BY <1>0, <2>1, LoopWitnesses
<1>7. CASE Rest \/ Leave
    <2>1. ReturnTo /\ Witnessed /\ check' = check
        BY <1>7 DEF Rest, Leave, stopVars
    <2> QED
        BY <1>0, <2>1, LoopWitnesses
<1>8. CASE LookAtBid
    <2>1. /\ loop = "sleep" /\ loop' = "ask" /\ loop_bid' = BestBid
          /\ window' = {BestPricesNow} /\ check' = check /\ book' = book
        BY <1>8 DEF LookAtBid, BestPricesNow, vars, stopVars
    <2>2. BestPricesNow' = BestPricesNow
        BY <2>1 DEF BestPricesNow, BestBid, BestAsk
    <2>3. BestPricesNow \in [bid : Prices \cup {0}, ask : Prices \cup {0}]
        BY <1>0, BestPricesTypes DEF BestPricesTyped
    <2>4. BestPricesNow.bid = BestBid
        BY DEF BestPricesNow
    <2> QED
        BY <1>0, <2>1, <2>2, <2>3, <2>4 DEF LoopInv
<1>9. CASE LookAtAsk
    <2> DEFINE p == MidPrice(loop_bid, BestAsk)
    <2>1. /\ loop = "ask" /\ loop' = "check" /\ loop_bid' = None /\ p > 0
          /\ check' = [symbol |-> Symbol, price |-> p] /\ window' = window
        BY <1>9 DEF LookAtAsk, WorthChecking, StartCheck
    <2>2. p \in MarketPrices
        BY <2>1, MidIsMarketPrice
    <2>3. PICK q \in window : q.bid = loop_bid
        BY <1>0, <2>1 DEF LoopInv
    <2>4. BestPricesNow \in window /\ BestPricesNow.ask = BestAsk
        BY <1>0, <2>1 DEF LoopInv, BestPricesNow
    <2>5. p = MidPrice(q.bid, BestPricesNow.ask)
        BY <2>3, <2>4
    <2> HIDE DEF p
    <2>6. check' # None
        BY <2>1, <2>2, AdvancedAssumption, EngineAssumption
    <2>7. check'.price = p
        BY <2>1
    <2> QED
        BY <1>0, <2>1, <2>3, <2>4, <2>5, <2>6, <2>7 DEF LoopInv
<1>10. CASE LookInVain
    <2>1. /\ loop = "ask" /\ loop' = "sleep" /\ loop_bid' = None
          /\ UNCHANGED <<window, check>>
        BY <1>10 DEF LookInVain, stopVars
    <2> QED
        BY <1>0, <2>1 DEF LoopInv
<1>11. CASE PassStop
    <2>1. UNCHANGED <<phase, loop, loop_bid, window, check, book>>
        BY <1>11 DEF PassStop, CheckOrder, loopVars, vars
    <2> QED
        BY <1>0, <2>1, LoopStands DEF LoopInv
<1>12. CASE TriggerStop
    <2>1. /\ loop = "check" /\ loop' = "submit" /\ UNCHANGED <<loop_bid, window, check>>
          /\ phase' # "idle"
        BY <1>12 DEF TriggerStop, CheckOrder, AcceptOrder
    <2> QED
        BY <1>0, <2>1 DEF LoopInv
<1>13. CASE TriggerInvalid
    <2>1. loop = "check" /\ UNCHANGED <<loop, loop_bid, window, check, book>>
        BY <1>13 DEF TriggerInvalid, CheckOrder, RejectInvalid, loopVars
    <2> QED
        BY <1>0, <2>1, LoopStands
<1>14. CASE CheckDone
    <2>1. /\ loop = "check" /\ loop' = "sleep" /\ check' = None
          /\ UNCHANGED <<loop_bid, window>>
        BY <1>14 DEF CheckDone, EndCheck
    <2> QED
        BY <1>0, <2>1 DEF LoopInv
<1>15. CASE Feed \/ UNCHANGED engineVars
    <2>1. UNCHANGED <<phase, loop, loop_bid, window, check, book>>
        BY <1>15 DEF Feed, FeedLooksAtBid, SendBbo, SendNoBbo, FeedLooksAtBids, SendDepth, SendNoDepth,
            engineVars, loopVars, stopVars, vars
    <2> QED
        BY <1>0, <2>1, LoopStands DEF LoopInv
<1> QED
    BY <1>1, <1>2, <1>3, <1>4, <1>5, <1>6, <1>7, <1>8, <1>9, <1>10, <1>11, <1>12, <1>13, <1>14, <1>15
    DEF EngineNext, Matching, PriceLoop

-------------------------------------------------------------------------------
(* The feed *)

\* The feed reads prices and levels of the book.
LEMMA NextFeed == EngineInv /\ [EngineNext]_engineVars => FeedInv'
<1> SUFFICES ASSUME EngineInv, [EngineNext]_engineVars PROVE FeedInv'
    OBVIOUS
<1>1. IInv /\ FokInv /\ FeedInv
    BY DEF EngineInv
<1>2. ASSUME UNCHANGED feedVars PROVE FeedInv'
    BY <1>1, <1>2 DEF FeedInv, feedVars
<1>3. ASSUME NEW o, Submit(o) \/ SubmitInvalid(o) PROVE UNCHANGED feedVars
    BY <1>3 DEF Submit, SubmitInvalid
<1>4. ASSUME NEW id, NEW r, Cancel(id) \/ AddStop(id, r) \/ CancelStop(id) PROVE UNCHANGED feedVars
    BY <1>4 DEF Cancel, AddStop, CancelStop
<1>5. CASE Matching \/ PriceLoop
    <2>1. UNCHANGED feedVars
        BY <1>5 DEF Matching, Scan, Match, Rest, Leave, PriceLoop, LookAtBid, LookAtAsk, LookInVain,
            PassStop, TriggerStop, TriggerInvalid, CheckDone
    <2> QED
        BY <1>2, <2>1
<1>6. CASE FeedLooksAtBid
    <2>1. feed' = "ask" /\ feed_bid' = BestBid /\ feed_bids' = feed_bids
        BY <1>6 DEF FeedLooksAtBid
    <2>2. BestBid \in Prices \cup {0}
        BY <1>1, BestPrices
    <2> QED
        BY <1>1, <2>1, <2>2 DEF FeedInv
<1>7. CASE SendBbo \/ SendNoBbo
    BY <1>1, <1>7 DEF FeedInv, SendBbo, SendNoBbo
<1>8. CASE FeedLooksAtBids
    <2>1. feed = "bids" /\ feed' = "asks" /\ feed_bid' = feed_bid
        BY <1>8 DEF FeedLooksAtBids
    <2>2. feed_bids' = DepthLevels("BUY", 10)
        BY <1>8 DEF FeedLooksAtBids
    <2>3. \A i \in DOMAIN DepthLevels("BUY", 10) : DepthLevels("BUY", 10)[i] \in Prices \X Nat
        BY <1>1, DepthTypes DEF Sides
    <2> QED
        BY <1>1, <2>1, <2>2, <2>3 DEF FeedInv
<1>9. CASE SendDepth \/ SendNoDepth
    <2>1. feed = "asks" /\ feed' = "sleep" /\ feed_bid' = feed_bid /\ feed_bids' = <<>>
        BY <1>9 DEF SendDepth, SendNoDepth
    <2> QED
        BY <1>1, <2>1 DEF FeedInv
<1>10. CASE UNCHANGED engineVars
    BY <1>2, <1>10 DEF engineVars
<1> QED
    BY <1>2, <1>3, <1>4, <1>5, <1>6, <1>7, <1>8, <1>9, <1>10 DEF EngineNext, Feed

-------------------------------------------------------------------------------
(* Theorems *)

\* The engine starts empty.
LEMMA InitEngineInv == EngineInit => EngineInv
<1> SUFFICES ASSUME EngineInit PROVE EngineInv
    OBVIOUS
<1>1. /\ Init /\ StopsInit
      /\ loop = "sleep" /\ loop_bid = None /\ window = {}
    BY DEF EngineInit
<1>2. IInv /\ StopInv
    BY <1>1, InitIInv, InitStopInv
<1>3. RunningCall
    BY <1>1 DEF Init, RunningCall
<1>4. FokInv
    BY <1>1, InitFokInv
<1>5. PlaceInv
    <2>1. /\ DOMAIN added = {} /\ DOMAIN submitted = {} /\ withdrawn = {}
          /\ \A s \in Symbols : DOMAIN advanced_orders[s] = {}
        BY <1>1 DEF StopsInit
    <2>2. PendingIds = {} /\ SubmittedIds = {} /\ IdsOf(added) = {}
        BY <2>1, PendingIdsProperties DEF SubmittedIds, IdsOf
    <2> QED
        BY <2>1, <2>2 DEF PlaceInv
<1>6. RequestInv /\ FromRequests /\ SubmittedArrive /\ SubmittedKept
    BY <1>1 DEF StopsInit, RequestInv, FromRequests, SubmittedArrive, SubmittedKept
<1>7. UsedWhenSubmitted
    BY <1>1, EngineAssumption DEF Init, UsedWhenSubmitted, Used
<1>8. LoopInv /\ FeedInv
    BY <1>1 DEF EngineInit, StopsInit, LoopInv, FeedInv
<1> QED
    BY <1>2, <1>3, <1>4, <1>5, <1>6, <1>7, <1>8 DEF EngineInv

\* And every step keeps its invariant.
LEMMA NextEngineInv == EngineInv /\ [EngineNext]_engineVars => EngineInv'
<1> SUFFICES ASSUME EngineInv, [EngineNext]_engineVars PROVE EngineInv'
    OBVIOUS
<1>1. IInv /\ RunningCall /\ FokInv /\ StopInv /\ PlaceInv /\ RequestInv
    BY DEF EngineInv
<1>2. [FreshNext]_vars /\ [StopsNext]_stopVars
    BY BookRules, StopRules
<1>3. IInv' /\ RunningCall' /\ FokInv'
    BY <1>1, <1>2, NextIInv, NextRunningCall, NextFokInv
<1>4. StopInv' /\ PlaceInv' /\ RequestInv'
    BY <1>1, <1>2, NextStopInv, NextPlaces, NextRequests
<1> QED
    BY <1>3, <1>4, NextFromRequests, NextUsed, NextKept, NextLoop, NextFeed DEF EngineInv

\* So it always holds.
LEMMA EngineInvariant == EngineSpec => []EngineInv
BY InitEngineInv, NextEngineInv, PTL DEF EngineSpec

\* The engine never breaks the rules of the book: no id comes twice, from a
\* client or from a stop, and no order comes while add_order runs.
THEOREM BookIsUsedByItsRules == EngineSpec => BookRulesKept
BY BookRules, EngineInvariant, PTL DEF EngineSpec, BookRulesKept

\* So what is proved of the book under fresh ids is true of it in the engine,
\* with clients, stops and cancels coming at any time: the lookup is exact,
\* levels are in order of arrival and never crossed by a buy, the trades add up,
\* no cancelled order comes back, no limit order gets lost, a fill-or-kill order
\* fills or is killed, and the depth the feed sends agrees with the tape.
THEOREM BookHoldsInTheEngine ==
    EngineSpec => [](/\ TypeOK /\ LookupExact /\ LevelsWellFormed /\ NeverOverfilled
                     /\ CancelledStaysOut /\ LimitRespected /\ TimePriority /\ BuyNeverCrosses
                     /\ TapeAgrees /\ RestingHasLeaves /\ LimitOrdersAccountedFor
                     /\ FokAllOrNothing /\ DepthAgreesWithTape)
<1>1. EngineSpec => FreshRules
    BY BookIsUsedByItsRules, PTL DEF EngineSpec, EngineInit, BookRulesKept, FreshRules
<1>2. NewQuantities = {}
    BY EngineAssumption
<1>3. FreshRules => []RestingHasLeaves /\ []LimitOrdersAccountedFor /\ []DepthAgreesWithTape
    BY <1>2, NothingFilledLingers, NoLimitOrderGetsLost, PublishedDepthIsTrue
<1> QED
    BY <1>1, <1>3, TypeCorrect, LookupIsExact, LevelsAreWellFormed, NothingIsOverfilled,
        CancelledOrdersStayOut, TradesRespectLimits, OlderOrdersFirst, NoBuyCrosses, TheTapeAgrees,
        FillOrKillIsAllOrNothing, PTL

\* And what is proved of the stop orders is true of them, though each one that
\* triggers goes through the whole of add_order in the middle of the walk.
THEOREM StopsHoldInTheEngine ==
    EngineSpec => [](/\ StopsTypeOK /\ EachTriggersOnce /\ NothingMissed
                     /\ TrailingFollows /\ FirstAddedFirst)
<1>1. EngineSpec => StopsSpec
    BY StopRules, EngineInvariant, PTL DEF EngineSpec, EngineInit, StopsSpec
<1> QED
    BY <1>1, StopsTypeCorrect, EachStopTriggersOnce, NoStopIsMissed, TrailingStopsFollow, StopsInOrder, PTL

\* Every variable of the engine has its type, and the threads that share it are
\* where they say they are: a check runs while the price loop is in it, and it is
\* in submit_order only while add_order runs.
THEOREM EngineTypeCorrect == EngineSpec => []EngineTypeOK
<1>1. TypeOK /\ StopsTypeOK /\ EngineInv => EngineTypeOK
    BY DEF EngineInv, EngineTypeOK, LoopInv, FeedInv, BestPricesNow
<1> QED
    BY <1>1, BookHoldsInTheEngine, StopsHoldInTheEngine, EngineInvariant, PTL

\* The order that was added under an id.
LEMMA AddedAsProperties ==
    ASSUME StopInv, NEW k \in DOMAIN added
    PROVE  AddedAs(added[k].order_id) = added[k]
BY RankProperties DEF AddedAs, Rank

\* Whatever there is of a submitted order, in the book, in hand or with its
\* caller, has its terms.
LEMMA CopiesHaveTerms ==
    ASSUME EngineInv, NEW j \in DOMAIN submitted,
           NEW o \in CopiesOf(submitted[j].order_id)
    PROVE  SameTerms(o, submitted[j])
<1>1. IInv /\ TermsKept(submitted[j])
    BY DEF EngineInv, SubmittedKept
<1>2. o # None /\ o.order_id = submitted[j].order_id
    BY DEF CopiesOf
<1>3. CASE o \in Resting
    <2>1. o.order_id \in DOMAIN lookup /\ Rec(o.order_id) = o
        BY <1>1, <1>3, RestingIsRecorded
    <2> QED
        BY <1>1, <1>2, <2>1 DEF TermsKept
<1>4. CASE o = order \/ o = objects[submitted[j].order_id]
    BY <1>1, <1>2, <1>4 DEF TermsKept
<1> QED
    BY <1>3, <1>4 DEF CopiesOf

\* And there is something of it.
LEMMA CopiesExist ==
    ASSUME EngineInv, NEW j \in DOMAIN submitted
    PROVE  CopiesOf(submitted[j].order_id) # {}
<1> DEFINE id == submitted[j].order_id
<1>1. RunningCall /\ SubmittedArrive /\ TermsKept(submitted[j])
    BY DEF EngineInv, SubmittedKept
<1>2. objects[id] # None \/ (order # None /\ order.order_id = id)
    BY <1>1 DEF SubmittedArrive, Arrived, RunningCall
<1>3. CASE objects[id] # None
    <2>1. objects[id].order_id = id
        BY <1>1, <1>3 DEF TermsKept, SameTerms
    <2>2. objects[id] \in CopiesOf(id)
        BY <1>3, <2>1 DEF CopiesOf
    <2> QED
        BY <2>2
<1>4. CASE order # None /\ order.order_id = id
    <2>1. order \in CopiesOf(id)
        BY <1>4 DEF CopiesOf
    <2> QED
        BY <2>1
<1> QED
    BY <1>2, <1>3, <1>4

\* A stop that triggers becomes an order with the type, side, quantity and price
\* it was added with, in every copy of it and whatever else is submitted, matched
\* and cancelled meanwhile, and gets into the book unless the book turns it down.
THEOREM StopsGetIntoTheBook == EngineSpec => []StopsReachTheBook
<1>1. EngineInv => StopsReachTheBook
    <2> SUFFICES ASSUME EngineInv, NEW i \in DOMAIN submitted
                 PROVE  LET a == AddedAs(submitted[i].order_id)
                        IN  /\ CopiesOf(a.order_id) # {}
                            /\ \A o \in CopiesOf(a.order_id) : IsOrderOf(o, a)
                            /\ a.order_id \in Range(arrivals) <=>
                                    a.quantity > 0 /\ (a.order_type = "LIMIT" => a.price > 0)
        BY DEF StopsReachTheBook
    <2>1. StopInv /\ RequestInv /\ SubmittedArrive
        BY DEF EngineInv
    <2>2. PICK k \in DOMAIN added : submitted[i] = OrderFrom(added[k])
        BY <2>1 DEF RequestInv
    <2> DEFINE a == added[k]
               new == submitted[i]
    <2>3. /\ new.order_id = a.order_id /\ new.type = a.order_type /\ new.side = a.side
          /\ new.quantity = a.quantity /\ new.price = a.price
        BY <2>2 DEF OrderFrom, NewOrder
    <2>4. AddedAs(new.order_id) = a
        BY <2>1, <2>3, AddedAsProperties
    <2>5. Acceptable(new) <=> a.quantity > 0 /\ (a.order_type = "LIMIT" => a.price > 0)
        BY <2>3 DEF Acceptable
    <2>6. \A id : Arrived(arrivals, id) <=> id \in Range(arrivals)
        BY DEF Arrived, Range
    <2>7. new.order_id \in Range(arrivals) <=> Acceptable(new)
        BY <2>1, <2>6 DEF SubmittedArrive
    <2>8. CopiesOf(new.order_id) # {} /\ \A o \in CopiesOf(new.order_id) : SameTerms(o, new)
        BY CopiesExist, CopiesHaveTerms
    <2> HIDE DEF a
    <2>9. \A o \in CopiesOf(new.order_id) : IsOrderOf(o, a)
        BY <2>3, <2>8 DEF IsOrderOf, SameTerms
    <2> HIDE DEF new
    <2> QED
        BY <2>3, <2>4, <2>5, <2>7, <2>8, <2>9 DEF new
<1> QED
    BY <1>1, EngineInvariant, PTL

\* The price loop reads the best bid and the best ask one after the other, and
\* takes the mean of two prices that may never have been there together: even so,
\* while there were orders on both sides, no stop with a fixed trigger goes off
\* that the market, while it was read, was never on the side of.
THEOREM NoStopGoesOffFalsely == EngineSpec => []NoFalseTrigger
<1>1. EngineInv => NoFalseTrigger
    <2> SUFFICES ASSUME EngineInv, loop \in {"check", "submit"},
                        NEW i \in batch + 1 .. Len(submitted),
                        AddedAs(submitted[i].order_id).advanced_type # "TRAILING_STOP"
                 PROVE  LET o == AddedAs(submitted[i].order_id)
                        IN  \E q \in window : ShouldTrigger(o, q.bid) \/ ShouldTrigger(o, q.ask)
        BY DEF NoFalseTrigger, TriggeredNow
    <2>1. StopInv /\ RequestInv /\ LoopInv /\ check # None
        BY DEF EngineInv, LoopInv
    <2>2. PICK k \in DOMAIN added : Triggered(submitted[i], added[k], check.price)
        BY <2>1 DEF RequestInv
    <2> DEFINE o == added[k]
               p == check.price
    <2>3. submitted[i].order_id = o.order_id
        BY <2>2 DEF Triggered, OrderFrom, NewOrder
    <2>4. AddedAs(submitted[i].order_id) = o
        BY <2>1, <2>3, AddedAsProperties
    <2>5. ShouldTrigger(o, p)
        BY <2>2, <2>4 DEF Triggered, Trails
    <2>6. PICK q \in window, r \in window : p = (q.bid + r.ask) \div 2
        BY <2>1 DEF LoopInv, MidPrice
    <2>7. q.bid \in Nat /\ r.ask \in Nat
        <3>1. q \in [bid : Prices \cup {0}, ask : Prices \cup {0}]
            BY <2>1, <2>6 DEF LoopInv
        <3>2. r \in [bid : Prices \cup {0}, ask : Prices \cup {0}]
            BY <2>1, <2>6 DEF LoopInv
        <3>3. q.bid \in Prices \cup {0} /\ r.ask \in Prices \cup {0}
            BY <3>1, <3>2
        <3>4. Prices \subseteq Nat /\ 0 \in Nat
            BY TypesAssumption
        <3> QED
            BY <3>3, <3>4
    <2>8. o.trigger_price \in Int
        <3>1. added \in Seq(AdvancedOrder)
            BY <2>1 DEF StopInv, StopsTypeOK
        <3>2. o \in AdvancedOrder
            BY <3>1, ElementOfSeq, LenProperties
        <3> QED
            BY <3>2 DEF AdvancedOrder
    <2> DEFINE t == o.trigger_price
               bid == q.bid
               ask == r.ask
    <2>9. p = (bid + ask) \div 2 /\ bid \in Nat /\ ask \in Nat /\ t \in Int
        BY <2>6, <2>7, <2>8
    <2>10. IF TriggersUpwards(o) THEN p >= t ELSE p <= t
        BY <2>5 DEF ShouldTrigger
    <2>11. \A x, y \in Nat : /\ x <= y => (x + y) \div 2 <= y
                             /\ y <= x => (x + y) \div 2 <= x
                             /\ x <= y => x <= (x + y) \div 2
                             /\ y <= x => y <= (x + y) \div 2
        OBVIOUS
    <2> HIDE DEF t, bid, ask, p, o
    <2>12. p >= t => bid >= t \/ ask >= t
        BY <2>9, <2>11
    <2>13. p <= t => bid <= t \/ ask <= t
        BY <2>9, <2>11
    <2> QED
        BY <2>4, <2>6, <2>10, <2>12, <2>13 DEF ShouldTrigger, t, bid, ask
<1> QED
    BY <1>1, EngineInvariant, PTL
===============================================================================
