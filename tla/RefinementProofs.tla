--------------------------- MODULE RefinementProofs ---------------------------
(***************************************************************************)
(* OrderBook implements AbstractBook, for every set of orders.  While the  *)
(* lookup is exact, the resting orders are those on record, and a step of  *)
(* the book adds, replaces or removes one of them.                         *)
(***************************************************************************)
EXTENDS OrderBookProofs, BookRefinement

\* What Resting reads of a book.
RestingIn(bk) ==
    (UNION {Range(bk["BUY"][p]) : p \in DOMAIN bk["BUY"]})
        \cup (UNION {Range(bk["SELL"][p]) : p \in DOMAIN bk["SELL"]})

\* The orders that the records lead to.
OnRecord(bk, lk) == {OrderAt(bk, lk, id) : id \in DOMAIN lk}

\* A record has the side and the price of its order.
LEMMA RecordedOrder ==
    ASSUME NEW bk, NEW lk, BookInv(bk, lk), NEW id \in DOMAIN lk
    PROVE  /\ OrderAt(bk, lk, id) \in Order
           /\ OrderAt(bk, lk, id).order_id = id
           /\ OrderAt(bk, lk, id).side = lk[id].side
           /\ OrderAt(bk, lk, id).price = lk[id].price_level
           /\ lk[id].side \in Sides
           /\ lk[id].price_level \in DOMAIN bk[lk[id].side]
           /\ lk[id].price_level \in Nat
           /\ lk[id].order_index \in Nat \ {0}
<1> DEFINE s == lk[id].side
           r == lk[id].price_level
           k == lk[id].order_index
<1>1. GoodBook(bk) /\ Exact(bk, lk)
    BY DEF BookInv
<1>2. s \in Sides /\ r \in DOMAIN bk[s] /\ k \in 1 .. Len(bk[s][r])
    BY <1>1, RecordProperties
<1>3. bk[s][r][k].order_id = id
    BY <1>1 DEF Exact
<1> HIDE DEF s, r, k
<1>4. /\ r \in Nat /\ Len(bk[s][r]) \in Nat
      /\ DOMAIN bk[s][r] = 1 .. Len(bk[s][r])
      /\ bk[s][r][k] \in Order
    BY <1>1, <1>2, LevelProperties
<1>5. bk[s][r][k].side = s /\ bk[s][r][k].price = r
    BY <1>1, <1>2, <1>4 DEF GoodBook
<1>6. k \in Nat \ {0}
    BY <1>2, <1>4
<1>7. OrderAt(bk, lk, id) = bk[s][r][k]
    BY DEF OrderAt, s, r, k
<1> QED
    BY <1>2, <1>3, <1>4, <1>5, <1>6, <1>7 DEF s, r, k

\* The orders in the queues are those on record.
LEMMA RestingIsOnRecord ==
    ASSUME NEW bk, NEW lk, BookInv(bk, lk)
    PROVE  RestingIn(bk) = OnRecord(bk, lk)
<1>1. GoodBook(bk) /\ Exact(bk, lk)
    BY DEF BookInv
<1>2. ASSUME NEW o \in RestingIn(bk) PROVE o \in OnRecord(bk, lk)
    <2>1. PICK side \in Sides : \E p \in DOMAIN bk[side] : o \in Range(bk[side][p])
        BY DEF RestingIn, Sides
    <2>2. PICK p \in DOMAIN bk[side] : o \in Range(bk[side][p])
        BY <2>1
    <2>3. PICK i \in DOMAIN bk[side][p] : o = bk[side][p][i]
        BY <2>2 DEF Range
    <2>4. /\ o.order_id \in DOMAIN lk
          /\ lk[o.order_id] = [side |-> side, price_level |-> p, order_index |-> i]
        BY <1>1, <2>3 DEF Exact
    <2>5. OrderAt(bk, lk, o.order_id) = o
        BY <2>3, <2>4 DEF OrderAt
    <2> QED
        BY <2>4, <2>5 DEF OnRecord
<1>3. ASSUME NEW o \in OnRecord(bk, lk) PROVE o \in RestingIn(bk)
    <2>1. PICK id \in DOMAIN lk : o = OrderAt(bk, lk, id)
        BY DEF OnRecord
    <2> DEFINE s == lk[id].side
               r == lk[id].price_level
               k == lk[id].order_index
    <2>2. s \in Sides /\ r \in DOMAIN bk[s] /\ k \in DOMAIN bk[s][r]
        BY <1>1, RecordProperties DEF Exact
    <2>3. o = bk[s][r][k]
        BY <2>1 DEF OrderAt
    <2> HIDE DEF s, r, k
    <2>4. o \in Range(bk[s][r])
        BY <2>2, <2>3 DEF Range
    <2> QED
        BY <2>2, <2>4 DEF RestingIn, Sides
<1> QED
    BY <1>2, <1>3

\* Resting, before and after a step, in these words.
LEMMA RestingNow ==
    ASSUME BookInv(book, lookup)
    PROVE  Resting = OnRecord(book, lookup)
<1>1. Resting = RestingIn(book)
    BY DEF Resting, RestingOn, RestingIn
<1> QED
    BY <1>1, RestingIsOnRecord

\* And of the book after a step.
LEMMA RestingNext ==
    ASSUME BookInv(book', lookup')
    PROVE  Resting' = OnRecord(book', lookup')
<1>1. Resting' = RestingIn(book')
    BY DEF Resting, RestingOn, RestingIn
<1> QED
    BY <1>1, RestingIsOnRecord

\* Without the record of id, its order is not resting, and all others are.
LEMMA OnRecordAfterRemoval ==
    ASSUME NEW bk, NEW lk, BookInv(bk, lk), NEW id \in DOMAIN lk,
           NEW bk2, NEW lk2, DOMAIN lk2 = DOMAIN lk \ {id}, SameOrders(bk2, lk2, bk, lk)
    PROVE  OnRecord(bk2, lk2) = OnRecord(bk, lk) \ {OrderAt(bk, lk, id)}
<1>1. \A x \in DOMAIN lk : OrderAt(bk, lk, x).order_id = x
    BY RecordedOrder
<1>2. \A x \in DOMAIN lk2 : x # id /\ x \in DOMAIN lk /\ OrderAt(bk2, lk2, x) = OrderAt(bk, lk, x)
    BY DEF SameOrders
<1>3. \A x \in DOMAIN lk : x # id => x \in DOMAIN lk2
    OBVIOUS
<1>4. ASSUME NEW o \in OnRecord(bk2, lk2)
      PROVE  o \in OnRecord(bk, lk) \ {OrderAt(bk, lk, id)}
    <2>1. PICK x \in DOMAIN lk2 : o = OrderAt(bk2, lk2, x)
        BY DEF OnRecord
    <2> QED
        BY <1>1, <1>2, <2>1 DEF OnRecord
<1>5. ASSUME NEW o \in OnRecord(bk, lk), o # OrderAt(bk, lk, id)
      PROVE  o \in OnRecord(bk2, lk2)
    <2>1. PICK x \in DOMAIN lk : o = OrderAt(bk, lk, x)
        BY DEF OnRecord
    <2>2. x \in DOMAIN lk2
        BY <1>3, <1>5, <2>1
    <2> QED
        BY <1>2, <2>1, <2>2 DEF OnRecord
<1> QED
    BY <1>4, <1>5

\* The order with the id of o is replaced by o.
LEMMA OnRecordAfterReplacement ==
    ASSUME NEW bk, NEW lk, BookInv(bk, lk), NEW o, o.order_id \in DOMAIN lk,
           NEW bk2, SameBut(bk2, lk, bk, lk, o)
    PROVE  OnRecord(bk2, lk) = (OnRecord(bk, lk) \ {OrderAt(bk, lk, o.order_id)}) \cup {o}
<1> DEFINE id == o.order_id
<1>1. \A x \in DOMAIN lk : OrderAt(bk, lk, x).order_id = x
    BY RecordedOrder
<1>2. /\ OrderAt(bk2, lk, id) = o
      /\ \A x \in DOMAIN lk : x # id => OrderAt(bk2, lk, x) = OrderAt(bk, lk, x)
    BY DEF SameBut
<1> HIDE DEF id
<1>3. ASSUME NEW y \in OnRecord(bk2, lk)
      PROVE  y \in (OnRecord(bk, lk) \ {OrderAt(bk, lk, id)}) \cup {o}
    <2>1. PICK x \in DOMAIN lk : y = OrderAt(bk2, lk, x)
        BY DEF OnRecord
    <2>2. CASE x = id
        BY <1>2, <2>1, <2>2
    <2>3. CASE x # id
        <3>1. y = OrderAt(bk, lk, x)
            BY <1>2, <2>1, <2>3
        <3>2. y # OrderAt(bk, lk, id)
            BY <1>1, <2>3, <3>1 DEF id
        <3> QED
            BY <3>1, <3>2 DEF OnRecord
    <2> QED
        BY <2>2, <2>3
<1>4. ASSUME NEW y \in OnRecord(bk, lk), y # OrderAt(bk, lk, id)
      PROVE  y \in OnRecord(bk2, lk)
    <2>1. PICK x \in DOMAIN lk : y = OrderAt(bk, lk, x)
        BY DEF OnRecord
    <2>2. y = OrderAt(bk2, lk, x)
        BY <1>2, <1>4, <2>1
    <2> QED
        BY <2>2 DEF OnRecord
<1>5. o \in OnRecord(bk2, lk)
    BY <1>2 DEF OnRecord, id
<1> QED
    BY <1>3, <1>4, <1>5 DEF id

\* An order joins those that were resting.
LEMMA OnRecordAfterJoining ==
    ASSUME NEW bk, NEW lk, NEW o \in Order, NEW id, id = o.order_id, id \notin DOMAIN lk,
           NEW bk2, NEW lk2, DOMAIN lk2 = DOMAIN lk \cup {id},
           SameBut(bk2, lk2, bk, lk, o)
    PROVE  OnRecord(bk2, lk2) = OnRecord(bk, lk) \cup {o}
<1>1. /\ OrderAt(bk2, lk2, o.order_id) = o
      /\ \A x \in DOMAIN lk : OrderAt(bk2, lk2, x) = OrderAt(bk, lk, x)
    BY DEF SameBut
<1>2. ASSUME NEW y \in OnRecord(bk2, lk2) PROVE y \in OnRecord(bk, lk) \cup {o}
    BY <1>1 DEF OnRecord
<1>3. ASSUME NEW y \in OnRecord(bk, lk) PROVE y \in OnRecord(bk2, lk2)
    BY <1>1 DEF OnRecord
<1>4. o \in OnRecord(bk2, lk2)
    BY <1>1 DEF OnRecord
<1> QED
    BY <1>2, <1>3, <1>4

-------------------------------------------------------------------------------
(* The running call *)

\* Where a call of add_order stands shows in its order, and every order that
\* arrived has come back to its caller or is the one being matched.
RunningCall ==
    /\ phase = "fok" => order.type = "FOK" /\ order.status = "ACTIVE"
    /\ phase = "match" => order.status # "REJECTED"
    /\ phase = "reject" => order.status = "REJECTED"
    /\ \A i \in DOMAIN arrivals :
        objects[arrivals[i]] # None \/ (order # None /\ arrivals[i] = order.order_id)

\* A fill is not a rejection.
LEMMA FillStatus ==
    ASSUME NEW o \in Order, NEW q \in Int
    PROVE  Fill(o, q).status # "REJECTED"
<1> DEFINE booked == [o EXCEPT !.filled_quantity = @ + q, !.leaves_quantity = @ - q]
           status == IF IsFullyFilled(booked) THEN "FILLED" ELSE "PARTIALLY_FILLED"
<1>1. Fill(o, q) = [booked EXCEPT !.status = status]
    BY DEF Fill
<1>2. o.filled_quantity + q \in Int /\ o.leaves_quantity - q \in Int
    BY DEF Order
<1>3. booked \in Order
    BY <1>2 DEF Order
<1>4. status # "REJECTED"
    OBVIOUS
<1> HIDE DEF booked, status
<1> QED
    BY <1>1, <1>3, <1>4 DEF Order

\* What a trade or a kill does to the arrivals, the phases and the objects.
LEMMA SameCall ==
    ASSUME RunningCall, UNCHANGED <<arrivals, objects>>,
           order # None => order' # None /\ order'.order_id = order.order_id
    PROVE  \A i \in DOMAIN arrivals' :
                objects'[arrivals'[i]] # None
                    \/ (order' # None /\ arrivals'[i] = order'.order_id)
BY DEF RunningCall

\* The call returns: the caller has the object again.
LEMMA ReturnKeepsRunningCall ==
    ASSUME IInv, RunningCall, phase # "idle", ReturnToCaller
    PROVE  RunningCall'
<1>1. order # None /\ order \in Order /\ objects \in [Ids -> Order \cup {None}]
    BY DEF IInv, StateTypes, CallInv
<1>2. order.order_id \in Ids
    BY <1>1 DEF Order
<1>3. /\ objects' = [objects EXCEPT ![order.order_id] = order]
      /\ phase' = "idle" /\ UNCHANGED arrivals
    BY DEF ReturnToCaller
<1>4. /\ objects'[order.order_id] # None
      /\ \A id \in Ids : objects[id] # None => objects'[id] # None
    BY <1>1, <1>2, <1>3
<1>5. \A i \in DOMAIN arrivals : arrivals[i] \in Ids
    BY ElementOfSeq, LenProperties DEF IInv, StateTypes
<1> QED
    BY <1>3, <1>4, <1>5 DEF RunningCall

\* Every step keeps it.
LEMMA NextRunningCall == IInv /\ RunningCall /\ [FreshNext]_vars => RunningCall'
<1> SUFFICES ASSUME IInv, RunningCall, [FreshNext]_vars PROVE RunningCall'
    OBVIOUS
<1>0. /\ StateTypes /\ CallInv /\ BookInv(book, lookup)
      /\ \A i \in DOMAIN arrivals : arrivals[i] \in Ids
    BY ElementOfSeq, LenProperties DEF IInv, StateTypes
<1>1. ASSUME NEW o \in Offers, objects[o.order_id] = None, RejectInvalid(o)
      PROVE  RunningCall'
    <2>1. o \in Order /\ o.order_id \in Ids /\ o # None
        BY BookAssumption, TypesAssumption DEF Order
    <2>2. /\ objects' = [objects EXCEPT ![o.order_id] = o]
          /\ UNCHANGED <<phase, order, arrivals>>
        BY <1>1 DEF RejectInvalid
    <2>3. \A id \in Ids : objects[id] # None => objects'[id] # None
        BY <1>0, <2>1, <2>2 DEF StateTypes
    <2> QED
        BY <1>0, <2>2, <2>3 DEF RunningCall
<1>2. ASSUME NEW o \in Offers, AcceptOrder(o)
      PROVE  RunningCall'
    <2>1. o \in Order /\ o.order_id \in Ids
        BY BookAssumption DEF Order
    <2>2. /\ order' = [o EXCEPT !.status = "ACTIVE"]
          /\ phase' = IF o.type = "FOK" THEN "fok" ELSE "match"
          /\ arrivals' = Append(arrivals, o.order_id)
          /\ phase = "idle" /\ UNCHANGED objects
        BY <1>2 DEF AcceptOrder
    <2>3. /\ order'.order_id = o.order_id /\ order'.type = o.type
          /\ order'.status = "ACTIVE" /\ order' \in Order
        BY <2>1, <2>2 DEF Order, OrderStatuses
    <2>4. order = None /\ order' # None
        BY <1>0, <2>2, <2>3, TypesAssumption DEF CallInv
    <2>5. ASSUME NEW i \in DOMAIN arrivals'
          PROVE  objects'[arrivals'[i]] # None \/ arrivals'[i] = order'.order_id
        <3>1. arrivals \in Seq(Ids)
            BY <1>0 DEF StateTypes
        <3>2. /\ Len(arrivals) \in Nat /\ arrivals' \in Seq(Ids)
              /\ Len(arrivals') = Len(arrivals) + 1
              /\ \A j \in 1 .. Len(arrivals) : arrivals'[j] = arrivals[j]
              /\ arrivals'[Len(arrivals) + 1] = o.order_id
            BY <2>1, <2>2, <3>1, AppendProperties, LenProperties
        <3>3. DOMAIN arrivals = 1 .. Len(arrivals) /\ DOMAIN arrivals' = 1 .. Len(arrivals')
            BY <3>1, <3>2, LenProperties
        <3>4. CASE i \in 1 .. Len(arrivals)
            BY <2>2, <2>4, <3>2, <3>3, <3>4 DEF RunningCall
        <3>5. CASE i = Len(arrivals) + 1
            BY <2>3, <3>2, <3>5
        <3> QED
            BY <3>2, <3>3, <3>4, <3>5
    <2> QED
        BY <2>2, <2>3, <2>4, <2>5 DEF RunningCall
<1>3. CASE CheckFok
    <2>1. /\ phase = "fok" /\ UNCHANGED <<objects, arrivals>>
          /\ \/ phase' = "match" /\ order' = order
             \/ phase' = "reject" /\ order' = [order EXCEPT !.status = "REJECTED"]
        BY <1>3 DEF CheckFok
    <2>2. order # None /\ order \in Order /\ order.status = "ACTIVE"
        BY <1>0, <2>1 DEF CallInv, StateTypes, RunningCall
    <2>3. /\ order' \in Order /\ order'.order_id = order.order_id
          /\ phase' = "match" => order'.status # "REJECTED"
          /\ phase' = "reject" => order'.status = "REJECTED"
        BY <2>1, <2>2 DEF Order, OrderStatuses
    <2>4. order' # None
        BY <2>3, TypesAssumption
    <2>5. phase' # "fok"
        BY <2>1
    <2> QED
        BY <2>1, <2>3, <2>4, <2>5, SameCall DEF RunningCall
<1>4. CASE MatchStep
    <2>1. phase = "match" /\ UNCHANGED <<phase, objects, arrivals>>
        BY <1>4 DEF MatchStep
    <2>2. TakerStays
        BY <1>4, MatchStepKeepsIInv
    <2>3. order'.status # "REJECTED"
        <3>1. PICK side \in Sides : \E p \in DOMAIN book[side] : \E q \in Nat :
                    MatchRound(side, p, q)
            BY <1>4, MatchStepProperties
        <3>2. PICK p \in DOMAIN book[side] : \E q \in Nat : MatchRound(side, p, q)
            BY <3>1
        <3>3. PICK q \in Nat : MatchRound(side, p, q)
            BY <3>2
        <3>4. order' = Fill(order, q)
            BY <3>3 DEF MatchRound
        <3>5. order \in Order
            BY <1>0, <2>1 DEF CallInv, StateTypes
        <3> QED
            BY <3>4, <3>5, FillStatus
    <2> QED
        BY <2>1, <2>2, <2>3, SameCall DEF RunningCall, TakerStays
<1>5. CASE RestInBook
    BY <1>5, ReturnKeepsRunningCall DEF RestInBook, MatchingDone
<1>6. CASE LeaveBook
    BY <1>6, ReturnKeepsRunningCall DEF LeaveBook, MatchingDone
<1>7. ASSUME NEW id \in Ids, CancelOrder(id) PROVE RunningCall'
    <2>1. UNCHANGED <<phase, order, objects, arrivals>>
        BY <1>7 DEF CancelOrder, vars
    <2> QED
        BY <2>1 DEF RunningCall
<1>8. ASSUME NEW id \in Ids, NEW quantity \in NewQuantities, ModifyOrder(id, quantity)
      PROVE  RunningCall'
    BY <1>8 DEF ModifyOrder, RunningCall
<1>9. CASE UNCHANGED vars
    BY <1>9 DEF vars, RunningCall
<1> QED
    BY <1>1, <1>2, <1>3, <1>4, <1>5, <1>6, <1>7, <1>8, <1>9
    DEF FreshNext, SubmitOrder, Continue, OtherCalls

-------------------------------------------------------------------------------
(* The steps of OrderBook as steps of AbstractBook *)

\* Both modules fill an order in the same way.
LEMMA SameOperators ==
    /\ \A a, b : Abstract!Smaller(a, b) = Smaller(a, b)
    /\ \A o : Abstract!IsFullyFilled(o) <=> IsFullyFilled(o)
    /\ \A o, q : Abstract!Fill(o, q) = Fill(o, q)
BY DEF Abstract!Smaller, Smaller, Abstract!IsFullyFilled, IsFullyFilled, Abstract!Fill, Fill

\* In an unchanged book, the same orders are resting.
LEMMA RestingStays == ASSUME book' = book PROVE Resting' = Resting
BY DEF Resting, RestingOn

\* add_order accepts an order: its id has not been seen before.
LEMMA AcceptOrderArrives ==
    ASSUME IInv, RunningCall, NEW o \in Offers, objects[o.order_id] = None, AcceptOrder(o)
    PROVE  Abstract!Arrive(o)
<1>1. /\ phase = "idle" /\ book' = book
      /\ order' = [o EXCEPT !.status = "ACTIVE"]
      /\ arrivals' = Append(arrivals, o.order_id)
    BY DEF AcceptOrder
<1>2. order = None
    BY <1>1 DEF IInv, CallInv
<1>3. \A i \in DOMAIN arrivals : arrivals[i] # o.order_id
    BY <1>2 DEF RunningCall
<1> QED
    BY <1>1, <1>2, <1>3, RestingStays DEF Abstract!Arrive

\* The fill-or-kill check kills the order, or lets it pass unseen.
LEMMA CheckFokKillsOrPasses ==
    ASSUME IInv, RunningCall, CheckFok
    PROVE  Abstract!Kill \/ UNCHANGED Abstract!vars
<1>1. /\ phase = "fok" /\ book' = book /\ arrivals' = arrivals
      /\ order' = order \/ order' = [order EXCEPT !.status = "REJECTED"]
    BY DEF CheckFok
<1>2. order # None /\ order.type = "FOK" /\ order.status = "ACTIVE"
    BY <1>1 DEF IInv, CallInv, RunningCall
<1> QED
    BY <1>1, <1>2, RestingStays DEF Abstract!Kill, Abstract!vars

\* The first order of the first level of a side is the next one to trade with.
LEMMA FrontIsNext ==
    ASSUME BookInv(book, lookup), PriorityInv, NEW side \in Sides,
           NEW p \in DOMAIN book[side], p = BestLevel(book[side]),
           NEW maker, maker = book[side][p][1], 1 \in DOMAIN book[side][p]
    PROVE  maker \in Resting /\ Abstract!IsNext(maker)
<1>1. GoodBook(book) /\ Exact(book, lookup)
    BY DEF BookInv
<1>2. /\ maker.order_id \in DOMAIN lookup
      /\ lookup[maker.order_id] = [side |-> side, price_level |-> p, order_index |-> 1]
    BY <1>1 DEF Exact
<1>3. OrderAt(book, lookup, maker.order_id) = maker
    BY <1>2 DEF OrderAt
<1>4. maker \in Resting
    BY <1>2, <1>3, RestingNow DEF OnRecord
<1>5. maker.side = side /\ maker.price = p /\ p \in Nat
    BY <1>1, LevelProperties DEF GoodBook
<1>6. ASSUME NEW x \in Resting, x # maker, x.side = side
      PROVE  p < x.price \/ (p = x.price /\ Abstract!Earlier(maker, x))
    <2>1. PICK id \in DOMAIN lookup : x = OrderAt(book, lookup, id)
        BY RestingNow DEF OnRecord
    <2>2. /\ lookup[id].side = side /\ lookup[id].price_level = x.price
          /\ x.price \in DOMAIN book[side] /\ x.price \in Nat
          /\ x.order_id = id /\ lookup[id].order_index \in Nat \ {0}
        BY <1>6, <2>1, RecordedOrder
    <2>3. DOMAIN book[side] \subseteq Nat
        BY <1>1, LevelProperties
    <2>4. p <= x.price
        BY <2>2, <2>3, MinProperties DEF BestLevel
    <2>5. CASE p = x.price
        <3>1. lookup[id].order_index # 1
            BY <1>6, <2>1, <2>2, <2>5 DEF OrderAt
        <3>2. 1 < lookup[id].order_index
            BY <2>2, <3>1
        <3>3. Ahead(lookup, maker.order_id, id)
            BY <1>2, <2>2, <2>5, <3>2 DEF Ahead
        <3>4. EarlierIn(arrivals, maker.order_id, id)
            BY <1>2, <3>3 DEF PriorityInv, RecordsInOrder
        <3> QED
            BY <2>2, <2>5, <3>4 DEF EarlierIn, Abstract!Earlier
    <2>6. CASE p # x.price
        BY <1>5, <2>2, <2>4, <2>6
    <2> QED
        BY <2>5, <2>6
<1> QED
    BY <1>4, <1>5, <1>6 DEF Abstract!IsNext

\* A round of the matching loop trades with the order whose turn it is.
LEMMA MatchStepTrades ==
    ASSUME IInv, PriorityInv, RunningCall, MatchStep, BookInv(book', lookup')
    PROVE  \E m \in Resting : Abstract!Trading(m)
<1>1. /\ StateTypes /\ BookInv(book, lookup) /\ CallInv
      /\ phase = "match" /\ KeepsMatching /\ arrivals' = arrivals
    BY DEF IInv, MatchStep
<1>2. order # None /\ order \in Order /\ order.status # "REJECTED" /\ ~IsFullyFilled(order)
    BY <1>1 DEF CallInv, StateTypes, RunningCall, KeepsMatching
<1>3. PICK side \in Sides : \E p \in DOMAIN book[side] : \E q \in Nat : MatchRound(side, p, q)
    BY MatchStepProperties
<1>4. PICK p \in DOMAIN book[side] : \E q \in Nat : MatchRound(side, p, q)
    BY <1>3
<1>5. PICK q \in Nat : MatchRound(side, p, q)
    BY <1>4
<1> DEFINE maker == book[side][p][1]
           filled == Fill(maker, q)
           traded == [book EXCEPT ![side][p][1] = filled]
<1>6. /\ side = Opposite(order.side) /\ p = BestLevel(book[side])
      /\ q = Smaller(order.leaves_quantity, maker.leaves_quantity)
      /\ 1 \in DOMAIN book[side][p]
      /\ maker \in Order
      /\ maker.order_id \in DOMAIN lookup
      /\ maker.side = side /\ maker.price = p
      /\ Sound(maker)
      /\ q <= maker.leaves_quantity
      /\ order' = Fill(order, q)
      /\ CanMatch(order, p)
      /\ \/ ~IsFullyFilled(filled) /\ book' = traded /\ lookup' = lookup
         \/ /\ IsFullyFilled(filled)
            /\ book' = BookWithout(traded, lookup, maker.order_id)
            /\ lookup' = LookupWithout(traded, lookup, maker.order_id)
    BY <1>5 DEF MatchRound
<1>7. /\ filled \in Order /\ Sound(filled) /\ filled.order_id = maker.order_id
      /\ filled.side = side /\ filled.price = p
    <2>1. /\ maker \in Order /\ Sound(maker) /\ q <= maker.leaves_quantity
          /\ maker.side = side /\ maker.price = p
        BY <1>6
    <2> HIDE DEF maker
    <2>2. /\ filled \in Order
          /\ filled.order_id = maker.order_id
          /\ filled.side = maker.side /\ filled.price = maker.price
          /\ filled.quantity = maker.quantity
          /\ filled.filled_quantity = maker.filled_quantity + q
          /\ filled.leaves_quantity = maker.leaves_quantity - q
        BY <2>1, FillProperties
    <2> HIDE DEF filled
    <2>3. Sound(filled)
        BY <2>1, <2>2 DEF Sound, Order
    <2> QED
        BY <2>1, <2>2, <2>3
<1>8. BookInv(traded, lookup) /\ SameBut(traded, lookup, book, lookup, filled)
    <2>1. 1 \in DOMAIN book[side][p] /\ filled.order_id = book[side][p][1].order_id
        BY <1>6, <1>7
    <2> HIDE DEF filled
    <2> QED
        BY <1>1, <1>7, <2>1, ReplacementKeepsBookInv
<1>9. maker \in Resting /\ Abstract!IsNext(maker)
    BY <1>1, <1>6, FrontIsNext
<1>10. OrderAt(book, lookup, maker.order_id) = maker
    <2>1. lookup[maker.order_id] = [side |-> side, price_level |-> p, order_index |-> 1]
        BY <1>1, <1>6 DEF BookInv, Exact
    <2> QED
        BY <2>1 DEF OrderAt
<1> HIDE DEF maker, filled, traded
<1>11. OnRecord(traded, lookup) = (Resting \ {maker}) \cup {filled}
    BY <1>1, <1>6, <1>7, <1>8, <1>10, OnRecordAfterReplacement, RestingNow
<1>12. Resting' = (Resting \ {maker}) \cup (IF IsFullyFilled(filled) THEN {} ELSE {filled})
    <2>1. CASE ~IsFullyFilled(filled)
        <3>1. book' = traded /\ lookup' = lookup
            BY <1>6, <2>1
        <3>2. Resting' = OnRecord(traded, lookup)
            BY <3>1, RestingNext
        <3> QED
            BY <1>11, <2>1, <3>2
    <2>2. CASE IsFullyFilled(filled)
        <3> DEFINE id == maker.order_id
        <3>1. /\ id \in DOMAIN lookup
              /\ book' = BookWithout(traded, lookup, id)
              /\ lookup' = LookupWithout(traded, lookup, id)
              /\ filled.order_id = id
            BY <1>6, <1>7, <2>2
        <3> HIDE DEF id
        <3>2. /\ DOMAIN LookupWithout(traded, lookup, id) = DOMAIN lookup \ {id}
              /\ SameOrders(BookWithout(traded, lookup, id), LookupWithout(traded, lookup, id),
                            traded, lookup)
            BY <1>8, <3>1, RemovalKeepsBookInv
        <3>3. OrderAt(traded, lookup, id) = filled
            BY <1>8, <3>1 DEF SameBut
        <3>4. OnRecord(book', lookup') = OnRecord(traded, lookup) \ {filled}
            BY <1>8, <3>1, <3>2, <3>3, OnRecordAfterRemoval
        <3>5. filled \notin Resting \ {maker}
            <4>1. SUFFICES ASSUME filled \in Resting PROVE filled = maker
                OBVIOUS
            <4>2. PICK x \in DOMAIN lookup : filled = OrderAt(book, lookup, x)
                BY <1>1, <4>1, RestingNow DEF OnRecord
            <4>3. x = id
                BY <1>1, <3>1, <4>2, RecordedOrder
            <4> QED
                BY <1>10, <4>2, <4>3 DEF id
        <3>6. Resting' = OnRecord(book', lookup')
            BY RestingNext
        <3> QED
            BY <1>11, <2>2, <3>4, <3>5, <3>6
    <2> QED
        BY <2>1, <2>2
<1>13. Abstract!Willing(maker.price)
    BY <1>2, <1>6 DEF CanMatch, WithinLimit, Abstract!Willing, Order, Sides
<1>14. maker.side # order.side
    BY <1>6 DEF Opposite
<1>15. Abstract!Matches(maker)
    BY <1>2, <1>9, <1>13, <1>14, SameOperators DEF Abstract!Matches
<1>16. filled = Fill(maker, q)
    BY DEF filled
<1>17. Abstract!Trading(maker)
    BY <1>1, <1>2, <1>6, <1>12, <1>15, <1>16, SameOperators DEF Abstract!Trading
<1> QED
    BY <1>9, <1>17

\* When the matching loop ends, there is nothing left to match.
LEMMA NothingLeftToMatch ==
    ASSUME IInv, PriorityInv, RunningCall, MatchingDone, NEW m \in Resting, Abstract!Matches(m)
    PROVE  FALSE
<1>1. /\ StateTypes /\ BookInv(book, lookup) /\ CallInv /\ GoodBook(book)
      /\ phase # "idle"
    BY DEF IInv, MatchingDone, BookInv
<1>2. order # None /\ order \in Order
    BY <1>1 DEF CallInv, StateTypes
<1>3. /\ order.status # "REJECTED" /\ ~IsFullyFilled(order) /\ m.side # order.side
      /\ Abstract!IsNext(m) /\ Abstract!Willing(m.price)
    BY SameOperators DEF Abstract!Matches
<1>4. ~KeepsMatching
    BY <1>3 DEF MatchingDone, RunningCall
<1>5. PICK id \in DOMAIN lookup : m = OrderAt(book, lookup, id)
    BY <1>1, RestingNow DEF OnRecord
<1>6. /\ m.side \in Sides /\ m.price \in DOMAIN book[m.side] /\ m.price \in Nat
    BY <1>1, <1>5, RecordedOrder
<1> DEFINE side == Opposite(order.side)
           p == BestLevel(book[side])
           front == book[side][p][1]
<1>7. side = m.side
    BY <1>2, <1>3, <1>6 DEF Order, Sides, Opposite
<1>8. DOMAIN book[side] \subseteq Nat
    BY <1>1, <1>6, <1>7, LevelProperties
<1>9. p \in DOMAIN book[side] /\ p <= m.price
    BY <1>6, <1>7, <1>8, MinProperties DEF BestLevel
<1>10. /\ 1 \in DOMAIN book[side][p] /\ p \in Nat
    BY <1>1, <1>6, <1>7, <1>9, LevelProperties
<1>11. front \in Resting
    BY <1>1, <1>6, <1>7, <1>9, <1>10, FrontIsNext
<1>12. front.side = side /\ front.price = p
    BY <1>1, <1>6, <1>7, <1>9, <1>10 DEF GoodBook
<1>13. m.price = p
    <2>1. CASE front = m
        BY <1>12, <2>1
    <2>2. CASE front # m
        <3>1. m.price < p \/ m.price = p
            BY <1>3, <1>7, <1>11, <1>12, <2>2 DEF Abstract!IsNext
        <3> QED
            BY <1>6, <1>9, <1>10, <3>1
    <2> QED
        BY <2>1, <2>2
<1>14. CanMatch(order, p)
    BY <1>2, <1>3, <1>13 DEF CanMatch, WithinLimit, Abstract!Willing, Order, Sides
<1> QED
    BY <1>3, <1>4, <1>9, <1>14 DEF KeepsMatching

\* add_order returns, with what is left of a limit order resting.
LEMMA ReturningFinishes ==
    ASSUME IInv, PriorityInv, RunningCall, RestInBook \/ LeaveBook, BookInv(book', lookup')
    PROVE  Abstract!Finish
<1>1. /\ StateTypes /\ BookInv(book, lookup) /\ CallInv
      /\ MatchingDone /\ phase # "idle" /\ order' = None /\ arrivals' = arrivals
    BY DEF IInv, RestInBook, LeaveBook, ReturnToCaller, MatchingDone
<1>2. order # None /\ order \in Order /\ Sound(order) /\ objects[order.order_id] = None
    BY <1>1 DEF CallInv, StateTypes
<1>3. \A m \in Resting : ~Abstract!Matches(m)
    BY <1>1, NothingLeftToMatch
<1>4. Resting' = Resting \cup (IF Rests(order) THEN {order} ELSE {})
    <2>1. CASE RestInBook
        <3>1. /\ Rests(order)
              /\ book' = BookWith(book, order) /\ lookup' = LookupWith(book, lookup, order)
            BY <2>1 DEF RestInBook
        <3>2. order.order_id \notin DOMAIN lookup
            BY <1>1, <1>2 DEF CallInv
        <3>3. /\ DOMAIN LookupWith(book, lookup, order) = DOMAIN lookup \cup {order.order_id}
              /\ SameBut(BookWith(book, order), LookupWith(book, lookup, order),
                         book, lookup, order)
            BY <1>1, <1>2, <3>2, JoiningKeepsBookInv
        <3>4. OnRecord(book', lookup') = OnRecord(book, lookup) \cup {order}
            <4> DEFINE id == order.order_id
                       bk2 == BookWith(book, order)
                       lk2 == LookupWith(book, lookup, order)
            <4>1. book' = bk2 /\ lookup' = lk2
                BY <3>1
            <4>2. /\ id = order.order_id /\ id \notin DOMAIN lookup
                  /\ DOMAIN lk2 = DOMAIN lookup \cup {id}
                BY <3>2, <3>3
            <4>3. SameBut(bk2, lk2, book, lookup, order)
                BY <3>3
            <4> HIDE DEF id, bk2, lk2
            <4>4. OnRecord(bk2, lk2) = OnRecord(book, lookup) \cup {order}
                BY <1>2, <4>2, <4>3, OnRecordAfterJoining
            <4> QED
                BY <4>1, <4>4
        <3>5. Resting' = OnRecord(book', lookup') /\ Resting = OnRecord(book, lookup)
            BY <1>1, RestingNow, RestingNext
        <3> QED
            BY <3>1, <3>4, <3>5
    <2>2. CASE LeaveBook
        BY <2>2, RestingStays DEF LeaveBook
    <2> QED
        BY <2>1, <2>2
<1> QED
    BY <1>1, <1>2, <1>3, <1>4, SameOperators DEF Abstract!Finish, Rests

\* cancel_order removes the order it was called for, or nothing.
LEMMA CancelOrderCancels ==
    ASSUME IInv, NEW id \in Ids, CancelOrder(id), BookInv(book', lookup')
    PROVE  (\E o \in Resting : Abstract!Cancel(o)) \/ UNCHANGED Abstract!vars
<1>1. BookInv(book, lookup) /\ phase = "idle" /\ order = None
    BY DEF IInv, CallInv, CancelOrder
<1>2. CASE id \notin DOMAIN lookup
    BY <1>2, RestingStays DEF CancelOrder, vars, Abstract!vars
<1>3. CASE id \in DOMAIN lookup
    <2>1. /\ book' = BookWithout(book, lookup, id)
          /\ lookup' = LookupWithout(book, lookup, id)
          /\ UNCHANGED <<order, arrivals>>
        BY <1>3 DEF CancelOrder
    <2>2. /\ DOMAIN LookupWithout(book, lookup, id) = DOMAIN lookup \ {id}
          /\ SameOrders(BookWithout(book, lookup, id), LookupWithout(book, lookup, id),
                        book, lookup)
        BY <1>1, <1>3, RemovalKeepsBookInv
    <2>3. OnRecord(book', lookup') = OnRecord(book, lookup) \ {OrderAt(book, lookup, id)}
        BY <1>1, <1>3, <2>1, <2>2, OnRecordAfterRemoval
    <2>4. Resting' = OnRecord(book', lookup') /\ Resting = OnRecord(book, lookup)
        BY <1>1, RestingNow, RestingNext
    <2>5. OrderAt(book, lookup, id) \in Resting
        BY <1>3, <2>4 DEF OnRecord
    <2>6. Abstract!Cancel(OrderAt(book, lookup, id))
        BY <1>1, <2>1, <2>3, <2>4 DEF Abstract!Cancel
    <2> QED
        BY <2>5, <2>6
<1> QED
    BY <1>2, <1>3

\* modify_order changes the order it was called for.
LEMMA ModifyOrderModifies ==
    ASSUME IInv, NEW id \in Ids, NEW quantity \in NewQuantities, ModifyOrder(id, quantity),
           BookInv(book', lookup')
    PROVE  \E o \in Resting : Abstract!Modify(o, quantity)
<1> DEFINE side == lookup[id].side
           p == lookup[id].price_level
           i == lookup[id].order_index
           resting == book[side][p][i]
           modified == Modified(resting, quantity)
<1>1. /\ BookInv(book, lookup) /\ GoodBook(book) /\ Exact(book, lookup) /\ order = None
    BY DEF IInv, BookInv, CallInv, ModifyOrder
<1>2. /\ id \in DOMAIN lookup
      /\ quantity >= resting.filled_quantity
      /\ book' = [book EXCEPT ![side][p][i] = modified]
      /\ UNCHANGED <<lookup, order, arrivals>>
    BY DEF ModifyOrder, PositionOf
<1>3. quantity \in Int
    BY BookAssumption
<1>4. side \in Sides /\ p \in DOMAIN book[side] /\ i \in DOMAIN book[side][p]
    BY <1>1, <1>2, RecordProperties DEF Exact
<1>5. resting = OrderAt(book, lookup, id)
    BY DEF OrderAt
<1>6. /\ resting \in Order /\ resting.order_id = id
      /\ resting.side = side /\ resting.price = p
    BY <1>1, <1>2, <1>5, RecordedOrder
<1>7. Sound(resting)
    BY <1>1, <1>4 DEF BookInv
<1> HIDE DEF side, p, i, resting
<1>8. /\ resting.filled_quantity \in Int
      /\ quantity - resting.filled_quantity \in Int
      /\ quantity - resting.filled_quantity >= 0
      /\ resting.filled_quantity + (quantity - resting.filled_quantity) = quantity
    BY <1>2, <1>3, <1>6 DEF Order
<1>9. /\ modified \in Order
      /\ modified.order_id = resting.order_id
      /\ modified.side = resting.side /\ modified.price = resting.price
      /\ modified.quantity = quantity
      /\ modified.filled_quantity = resting.filled_quantity
      /\ modified.leaves_quantity = quantity - resting.filled_quantity
    BY <1>3, <1>6, <1>8 DEF Modified, Order
<1>10. Sound(modified)
    BY <1>7, <1>8, <1>9 DEF Sound
<1>11. modified = [resting EXCEPT !.quantity = quantity,
                                  !.leaves_quantity = quantity - resting.filled_quantity]
    BY DEF Modified
<1>12. resting = book[side][p][i]
    BY DEF resting, side, p, i
<1> HIDE DEF modified
<1>13. SameBut(book', lookup, book, lookup, modified)
    <2>1. /\ modified.order_id = book[side][p][i].order_id
          /\ modified.side = side /\ modified.price = p
        BY <1>6, <1>9, <1>12
    <2>2. book' = [book EXCEPT ![side][p][i] = modified]
        BY <1>2
    <2>3. SameBut([book EXCEPT ![side][p][i] = modified], lookup, book, lookup, modified)
        BY <1>1, <1>4, <1>9, <1>10, <2>1, ReplacementKeepsBookInv
    <2> QED
        BY <2>2, <2>3
<1>14. modified.order_id = id
    BY <1>6, <1>9
<1>15. OnRecord(book', lookup) = (OnRecord(book, lookup) \ {resting}) \cup {modified}
    BY <1>1, <1>2, <1>5, <1>13, <1>14, OnRecordAfterReplacement
<1>16. Resting' = OnRecord(book', lookup) /\ Resting = OnRecord(book, lookup)
    BY <1>1, <1>2, RestingNow, RestingNext
<1>17. resting \in Resting
    BY <1>2, <1>5, <1>16 DEF OnRecord
<1>18. Abstract!Modify(resting, quantity)
    BY <1>1, <1>2, <1>11, <1>15, <1>16 DEF Abstract!Modify
<1> QED
    BY <1>17, <1>18

\* Every step of the book is a step of the abstract one, or none.
LEMMA NextImplements ==
    IInv /\ PriorityInv /\ RunningCall /\ [FreshNext]_vars => [Abstract!Next]_(Abstract!vars)
<1> SUFFICES ASSUME IInv, PriorityInv, RunningCall, [FreshNext]_vars
             PROVE  Abstract!Next \/ UNCHANGED Abstract!vars
    OBVIOUS
<1>0. BookInv(book', lookup')
    BY NextIInv DEF IInv
<1>1. ASSUME NEW o \in Offers, objects[o.order_id] = None, RejectInvalid(o)
      PROVE  UNCHANGED Abstract!vars
    BY <1>1, RestingStays DEF RejectInvalid, Abstract!vars
<1>2. ASSUME NEW o \in Offers, objects[o.order_id] = None, AcceptOrder(o)
      PROVE  Abstract!Next
    BY <1>2, AcceptOrderArrives DEF Abstract!Next
<1>3. CASE CheckFok
    BY <1>3, CheckFokKillsOrPasses DEF Abstract!Next
<1>4. CASE MatchStep
    BY <1>0, <1>4, MatchStepTrades DEF Abstract!Next
<1>5. CASE RestInBook \/ LeaveBook
    BY <1>0, <1>5, ReturningFinishes DEF Abstract!Next
<1>6. ASSUME NEW id \in Ids, CancelOrder(id)
      PROVE  Abstract!Next \/ UNCHANGED Abstract!vars
    BY <1>0, <1>6, CancelOrderCancels DEF Abstract!Next
<1>7. ASSUME NEW id \in Ids, NEW quantity \in NewQuantities, ModifyOrder(id, quantity)
      PROVE  Abstract!Next
    BY <1>0, <1>7, ModifyOrderModifies DEF Abstract!Next
<1>8. CASE UNCHANGED vars
    BY <1>8, RestingStays DEF vars, Abstract!vars
<1> QED
    BY <1>1, <1>2, <1>3, <1>4, <1>5, <1>6, <1>7, <1>8
    DEF FreshNext, SubmitOrder, Continue, OtherCalls

\* With fresh ids, the levels, queues and records of OrderBook are an
\* implementation of a set of open orders: a taker trades with the open order
\* whose turn it is by price and arrival until none matches, a filled order
\* goes, cancel_order and modify_order touch the order they name, and nothing
\* else changes.
THEOREM BookKeepsThePromise == FreshRules => KeepsThePromise
<1>1. Init => Abstract!Init /\ PriorityInv /\ RunningCall
    <2> SUFFICES ASSUME Init PROVE Abstract!Init /\ PriorityInv /\ RunningCall
        OBVIOUS
    <2>1. BookInv(book, lookup)
        BY InitIInv DEF IInv
    <2>2. DOMAIN lookup = {} /\ order = None /\ arrivals = <<>> /\ phase = "idle"
        BY DEF Init
    <2>3. Resting = {}
        BY <2>1, <2>2, RestingNow DEF OnRecord
    <2>4. DOMAIN arrivals = {}
        BY <2>2
    <2> QED
        BY <2>2, <2>3, <2>4 DEF Abstract!Init, PriorityInv, RecordsInOrder, RunningCall
<1> QED
    BY <1>1, NextPriority, NextRunningCall, NextImplements, FreshInvariant, PTL
    DEF FreshRules, KeepsThePromise, Abstract!Spec
===============================================================================
