------------------------------ MODULE TapeProofs ------------------------------
(***************************************************************************)
(* What the trades on the tape and the orders in the book have to do with    *)
(* each other, and that matching comes to an end, for every set of orders.   *)
(* A step of the book is put as what it does to the orders on record.  Where  *)
(* modify_order is not used, which MatchingEngine never calls: no filled      *)
(* order lingers, no trade is for nothing, and no limit order gets lost.      *)
(* And what a level has on offer: a fill-or-kill order fills or is killed,    *)
(* and the depth that is published agrees with the tape.                     *)
(***************************************************************************)
EXTENDS RefinementProofs

-------------------------------------------------------------------------------
(* The steps, in terms of the orders on record *)

\* The order on record for id.
Rec(id) == OrderAt(book, lookup, id)

\* The taker and the order on record for m trade q.
Round(m, q) ==
    /\ m \in DOMAIN lookup /\ m \in Ids
    /\ Rec(m) \in Order /\ Sound(Rec(m)) /\ Rec(m).order_id = m
    /\ order \in Order /\ order # None /\ Sound(order) /\ ~IsFullyFilled(order)
    /\ order.order_id \in Ids /\ order.order_id \notin DOMAIN lookup
    /\ objects[order.order_id] = None
    /\ q \in Nat
    /\ q = Smaller(order.leaves_quantity, Rec(m).leaves_quantity)
    /\ order' = Fill(order, q) /\ order' # None
    /\ trade'.maker_order_id = m /\ trade'.quantity = q
    /\ executed \in [Ids -> Nat]
    /\ executed' = [[executed EXCEPT ![m] = @ + q] EXCEPT ![order.order_id] = @ + q]
    /\ DOMAIN lookup' = IF IsFullyFilled(Fill(Rec(m), q)) THEN DOMAIN lookup \ {m}
                        ELSE DOMAIN lookup
    /\ \A id \in DOMAIN lookup' :
        Rec(id)' = IF id = m THEN Fill(Rec(m), q) ELSE Rec(id)
    /\ UNCHANGED <<phase, objects, arrivals, cancelled>>

\* A step of the matching loop is a round with one maker.
LEMMA MatchStepIsRound ==
    ASSUME IInv, MatchStep
    PROVE  \E m \in DOMAIN lookup : \E q \in Nat : Round(m, q)
<1>1. /\ StateTypes /\ BookInv(book, lookup) /\ CallInv
      /\ phase = "match" /\ KeepsMatching
      /\ UNCHANGED <<phase, objects, arrivals, cancelled>>
    BY DEF IInv, MatchStep
<1>2. /\ order # None /\ order \in Order /\ Sound(order) /\ ~IsFullyFilled(order)
      /\ objects[order.order_id] = None /\ executed \in [Ids -> Nat]
    BY <1>1 DEF CallInv, StateTypes, KeepsMatching
<1>3. order.order_id \in Ids /\ order.order_id \notin DOMAIN lookup
    BY <1>1, <1>2 DEF CallInv, Order
<1>4. PICK side \in Sides : \E p \in DOMAIN book[side] : \E q \in Nat : MatchRound(side, p, q)
    BY MatchStepProperties
<1>5. PICK p \in DOMAIN book[side] : \E q \in Nat : MatchRound(side, p, q)
    BY <1>4
<1>6. PICK q \in Nat : MatchRound(side, p, q)
    BY <1>5
<1> DEFINE maker == book[side][p][1]
           m == maker.order_id
           filled == Fill(maker, q)
           traded == [book EXCEPT ![side][p][1] = filled]
<1>7. /\ q = Smaller(order.leaves_quantity, maker.leaves_quantity)
      /\ 1 \in DOMAIN book[side][p]
      /\ maker \in Order
      /\ m \in DOMAIN lookup
      /\ maker.side = side /\ maker.price = p
      /\ Sound(maker)
      /\ q <= maker.leaves_quantity
      /\ order' = Fill(order, q)
      /\ trade'.maker_order_id = m /\ trade'.quantity = q
      /\ executed' = [[executed EXCEPT ![m] = @ + q] EXCEPT ![order.order_id] = @ + q]
      /\ \/ ~IsFullyFilled(filled) /\ book' = traded /\ lookup' = lookup
         \/ /\ IsFullyFilled(filled)
            /\ book' = BookWithout(traded, lookup, m)
            /\ lookup' = LookupWithout(traded, lookup, m)
    BY <1>6 DEF MatchRound
<1>8. lookup[m] = [side |-> side, price_level |-> p, order_index |-> 1]
    BY <1>1, <1>7 DEF BookInv, Exact
<1>9. Rec(m) = maker
    BY <1>8 DEF OrderAt, Rec
<1>10. m \in Ids
    BY <1>7 DEF Order
<1>11. /\ filled \in Order /\ Sound(filled) /\ filled.order_id = m
       /\ filled.side = side /\ filled.price = p
    <2>1. /\ maker \in Order /\ Sound(maker) /\ q <= maker.leaves_quantity
          /\ maker.side = side /\ maker.price = p
        BY <1>7
    <2> HIDE DEF maker
    <2>2. /\ filled \in Order
          /\ filled.order_id = maker.order_id
          /\ filled.side = maker.side /\ filled.price = maker.price
          /\ filled.quantity = maker.quantity
          /\ filled.filled_quantity = maker.filled_quantity + q
          /\ filled.leaves_quantity = maker.leaves_quantity - q
        BY <2>1, FillProperties
    <2> HIDE DEF filled
    <2>3. Sound(filled)
        BY <2>1, <2>2 DEF Sound, Order
    <2> QED
        BY <2>1, <2>2, <2>3
<1>12. BookInv(traded, lookup) /\ SameBut(traded, lookup, book, lookup, filled)
    <2>1. 1 \in DOMAIN book[side][p] /\ filled.order_id = book[side][p][1].order_id
        BY <1>7, <1>11
    <2> HIDE DEF filled
    <2> QED
        BY <1>1, <1>11, <2>1, ReplacementKeepsBookInv
<1>13. order' # None
    BY <1>1, <1>2, MatchStepKeepsIInv DEF TakerStays
<1> HIDE DEF maker, m, filled, traded
<1>14. /\ DOMAIN lookup' = IF IsFullyFilled(filled) THEN DOMAIN lookup \ {m} ELSE DOMAIN lookup
       /\ \A id \in DOMAIN lookup' :
            OrderAt(book', lookup', id) = IF id = m THEN filled ELSE OrderAt(book, lookup, id)
    <2>1. CASE ~IsFullyFilled(filled)
        <3>1. book' = traded /\ lookup' = lookup
            BY <1>7, <2>1
        <3> QED
            BY <1>11, <1>12, <2>1, <3>1 DEF SameBut
    <2>2. CASE IsFullyFilled(filled)
        <3>1. book' = BookWithout(traded, lookup, m) /\ lookup' = LookupWithout(traded, lookup, m)
            BY <1>7, <2>2
        <3>2. m \in DOMAIN lookup /\ BookInv(traded, lookup)
            BY <1>7, <1>12
        <3>3. /\ DOMAIN LookupWithout(traded, lookup, m) = DOMAIN lookup \ {m}
              /\ SameOrders(BookWithout(traded, lookup, m), LookupWithout(traded, lookup, m),
                            traded, lookup)
            BY <3>2, RemovalKeepsBookInv
        <3>4. /\ DOMAIN lookup' = DOMAIN lookup \ {m}
              /\ SameOrders(book', lookup', traded, lookup)
            BY <3>1, <3>3
        <3> QED
            BY <1>11, <1>12, <2>2, <3>4 DEF SameBut, SameOrders
    <2> QED
        BY <2>1, <2>2
<1>15. filled = Fill(maker, q) /\ m = maker.order_id
    BY DEF filled, m
<1>16. Round(m, q)
    BY <1>1, <1>2, <1>3, <1>7, <1>9, <1>10, <1>13, <1>14, <1>15 DEF Round, Rec
<1> QED
    BY <1>7, <1>16

\* What modify_order makes of the order on record.
LEMMA ModifyOrderOnRecord ==
    ASSUME IInv, NEW id \in Ids, NEW quantity \in NewQuantities, ModifyOrder(id, quantity)
    PROVE  /\ id \in DOMAIN lookup /\ lookup' = lookup
           /\ \A x \in DOMAIN lookup : Rec(x)'.filled_quantity = Rec(x).filled_quantity
<1> DEFINE side == lookup[id].side
           p == lookup[id].price_level
           i == lookup[id].order_index
           resting == book[side][p][i]
           modified == Modified(resting, quantity)
<1>1. /\ BookInv(book, lookup) /\ GoodBook(book) /\ Exact(book, lookup)
    BY DEF IInv, BookInv
<1>2. /\ id \in DOMAIN lookup
      /\ quantity >= resting.filled_quantity
      /\ book' = [book EXCEPT ![side][p][i] = modified]
      /\ lookup' = lookup
    BY DEF ModifyOrder, PositionOf
<1>3. quantity \in Int
    BY BookAssumption
<1>4. side \in Sides /\ p \in DOMAIN book[side] /\ i \in DOMAIN book[side][p]
    BY <1>1, <1>2, RecordProperties DEF Exact
<1>5. resting = Rec(id)
    BY DEF OrderAt, Rec
<1>6. /\ resting \in Order /\ resting.order_id = id
      /\ resting.side = side /\ resting.price = p
    BY <1>1, <1>2, <1>5, RecordedOrder DEF Rec
<1>7. Sound(resting)
    BY <1>1, <1>4 DEF BookInv
<1> HIDE DEF side, p, i, resting
<1>8. /\ resting.filled_quantity \in Int
      /\ quantity - resting.filled_quantity \in Int
      /\ quantity - resting.filled_quantity >= 0
      /\ resting.filled_quantity + (quantity - resting.filled_quantity) = quantity
    BY <1>2, <1>3, <1>6 DEF Order
<1>9. /\ modified \in Order
      /\ modified.order_id = resting.order_id
      /\ modified.side = resting.side /\ modified.price = resting.price
      /\ modified.quantity = quantity
      /\ modified.filled_quantity = resting.filled_quantity
      /\ modified.leaves_quantity = quantity - resting.filled_quantity
    BY <1>3, <1>6, <1>8 DEF Modified, Order
<1>10. Sound(modified)
    BY <1>7, <1>8, <1>9 DEF Sound
<1>11. resting = book[side][p][i]
    BY DEF resting, side, p, i
<1> HIDE DEF modified
<1>12. SameBut(book', lookup, book, lookup, modified)
    <2>1. /\ modified.order_id = book[side][p][i].order_id
          /\ modified.side = side /\ modified.price = p
        BY <1>6, <1>9, <1>11
    <2>2. SameBut([book EXCEPT ![side][p][i] = modified], lookup, book, lookup, modified)
        BY <1>1, <1>4, <1>9, <1>10, <2>1, ReplacementKeepsBookInv
    <2> QED
        BY <1>2, <2>2
<1>13. ASSUME NEW x \in DOMAIN lookup
       PROVE  Rec(x)'.filled_quantity = Rec(x).filled_quantity
    <2>1. Rec(x)' = OrderAt(book', lookup, x)
        BY <1>2 DEF Rec
    <2>2. CASE x = id
        <3>1. Rec(x)' = modified
            BY <1>2, <1>6, <1>9, <1>12, <2>1, <2>2 DEF SameBut
        <3> QED
            BY <1>5, <1>9, <2>2, <3>1
    <2>3. CASE x # id
        BY <1>6, <1>9, <1>12, <2>1, <2>3 DEF SameBut, Rec
    <2> QED
        BY <2>2, <2>3
<1> QED
    BY <1>2, <1>13

\* What is left of the taker gets a record of its own.
LEMMA RestInBookOnRecord ==
    ASSUME IInv, RestInBook
    PROVE  /\ order \in Order /\ order # None /\ Sound(order) /\ Rests(order)
           /\ order.order_id \in Ids /\ order.order_id \notin DOMAIN lookup
           /\ DOMAIN lookup' = DOMAIN lookup \cup {order.order_id}
           /\ \A id \in DOMAIN lookup' :
                Rec(id)' = IF id = order.order_id THEN order ELSE Rec(id)
           /\ objects \in [Ids -> Order \cup {None}]
           /\ objects' = [objects EXCEPT ![order.order_id] = order]
           /\ order' = None /\ trade' = None
           /\ UNCHANGED <<executed, cancelled>>
<1>1. /\ StateTypes /\ BookInv(book, lookup) /\ CallInv
      /\ phase # "idle" /\ order' = None /\ trade' = None /\ Rests(order)
      /\ objects' = [objects EXCEPT ![order.order_id] = order]
      /\ book' = BookWith(book, order) /\ lookup' = LookupWith(book, lookup, order)
      /\ UNCHANGED <<executed, cancelled>>
    BY DEF IInv, RestInBook, ReturnToCaller, MatchingDone
<1>2. /\ order # None /\ order \in Order /\ Sound(order) /\ objects[order.order_id] = None
      /\ objects \in [Ids -> Order \cup {None}]
    BY <1>1 DEF CallInv, StateTypes
<1>3. order.order_id \in Ids /\ order.order_id \notin DOMAIN lookup
    BY <1>1, <1>2 DEF CallInv, Order
<1>4. /\ DOMAIN lookup' = DOMAIN lookup \cup {order.order_id}
      /\ SameBut(book', lookup', book, lookup, order)
    BY <1>1, <1>2, <1>3, JoiningKeepsBookInv
<1> QED
    BY <1>1, <1>2, <1>3, <1>4 DEF SameBut, Rec

\* cancel_order takes the record away, or finds none.
LEMMA CancelOrderOnRecord ==
    ASSUME IInv, NEW id \in Ids, CancelOrder(id)
    PROVE  /\ UNCHANGED <<order, trade, objects, executed>>
           /\ \A x \in DOMAIN lookup' : x \in DOMAIN lookup /\ Rec(x)' = Rec(x)
           /\ \A x \in DOMAIN lookup : x \in DOMAIN lookup' \/ x \in cancelled'
           /\ cancelled \subseteq cancelled'
<1>1. BookInv(book, lookup)
    BY DEF IInv
<1>2. CASE id \notin DOMAIN lookup
    BY <1>2 DEF CancelOrder, vars, Rec
<1>3. CASE id \in DOMAIN lookup
    <2>1. /\ book' = BookWithout(book, lookup, id)
          /\ lookup' = LookupWithout(book, lookup, id)
          /\ cancelled' = cancelled \cup {id}
          /\ UNCHANGED <<order, trade, objects, executed>>
        BY <1>3 DEF CancelOrder
    <2>2. /\ DOMAIN lookup' = DOMAIN lookup \ {id}
          /\ SameOrders(book', lookup', book, lookup)
        BY <1>1, <1>3, <2>1, RemovalKeepsBookInv
    <2> QED
        BY <2>1, <2>2 DEF SameOrders, Rec
<1> QED
    BY <1>2, <1>3

-------------------------------------------------------------------------------
(* Matching comes to an end *)

\* A trade fills one of the two, and a filled maker is taken off the book.
LEMMA MatchStepCounts ==
    ASSUME IInv, MatchStep, BookInv(book', lookup')
    PROVE  IsFullyFilled(order') \/ trade'.maker_order_id \notin RestingIds'
<1>1. PICK m \in DOMAIN lookup : \E q \in Nat : Round(m, q)
    BY MatchStepIsRound
<1>2. PICK q \in Nat : Round(m, q)
    BY <1>1
<1>3. /\ order \in Order /\ Rec(m) \in Order
      /\ q = Smaller(order.leaves_quantity, Rec(m).leaves_quantity)
      /\ order' = Fill(order, q)
      /\ trade'.maker_order_id = m
      /\ DOMAIN lookup' = IF IsFullyFilled(Fill(Rec(m), q)) THEN DOMAIN lookup \ {m}
                          ELSE DOMAIN lookup
    BY <1>2 DEF Round
<1>4. CASE q = order.leaves_quantity
    <2>1. order'.leaves_quantity = order.leaves_quantity - q
        BY <1>3, FillProperties
    <2>2. order'.leaves_quantity = 0
        BY <1>3, <1>4, <2>1 DEF Order
    <2> QED
        BY <2>2, TypesAssumption DEF IsFullyFilled
<1>5. CASE q = Rec(m).leaves_quantity
    <2> DEFINE maker == Rec(m)
    <2>1. maker \in Order /\ q = maker.leaves_quantity
        BY <1>3, <1>5
    <2> HIDE DEF maker
    <2>2. Fill(maker, q).leaves_quantity = 0
        BY <2>1, FillProperties DEF Order
    <2>3. IsFullyFilled(Fill(maker, q))
        BY <2>2, TypesAssumption DEF IsFullyFilled
    <2>4. m \notin DOMAIN lookup'
        BY <1>3, <2>3 DEF maker
    <2>5. \A o \in Resting' : o.order_id # m
        <3>1. Resting' = OnRecord(book', lookup')
            BY RestingNext
        <3>2. \A x \in DOMAIN lookup' : OrderAt(book', lookup', x).order_id = x
            BY RecordedOrder
        <3> QED
            BY <2>4, <3>1, <3>2 DEF OnRecord
    <2> QED
        BY <1>3, <2>5 DEF RestingIds
<1> QED
    BY <1>3, <1>4, <1>5 DEF Smaller

\* Every round of the matching loop leaves it with a filled taker or with one
\* resting order less, whatever has been modified: with finitely many orders
\* in the book, add_order returns.
THEOREM MatchingMakesProgress == FreshRules => EveryRoundCounts
<1>1. IInv /\ [FreshNext]_vars =>
        [MatchStep => \/ IsFullyFilled(order')
                      \/ trade'.maker_order_id \notin RestingIds']_vars
    BY NextIInv, MatchStepCounts DEF IInv
<1> QED
    BY <1>1, FreshInvariant, PTL DEF FreshRules, EveryRoundCounts

-------------------------------------------------------------------------------
(* The tape and the orders *)

\* What was reported as traded is what is booked: for the orders on record,
\* whose callers have a copy from before, for the taker, and for the orders that
\* came back for good.  Nothing was reported for an id that is not in use.
Booked ==
    /\ \A id \in DOMAIN lookup :
        Rec(id).filled_quantity = executed[id] /\ Rests(objects[id])
    /\ order # None => order.filled_quantity = executed[order.order_id]
    /\ \A id \in Ids :
        (objects[id] # None /\ ~Rests(objects[id])) => objects[id].filled_quantity = executed[id]
    /\ \A id \in Ids :
        (objects[id] = None /\ (order # None => order.order_id # id)) => executed[id] = 0

\* An offer comes with nothing filled, under an id that is not in use.
LEMMA SubmitOrderKeepsBooked ==
    ASSUME IInv, Booked, NEW o \in Offers, objects[o.order_id] = None, SubmitOrder(o)
    PROVE  Booked'
<1>1. /\ StateTypes /\ CallInv /\ phase = "idle"
      /\ UNCHANGED <<book, lookup, executed>>
    BY DEF IInv, SubmitOrder, RejectInvalid, AcceptOrder
<1>2. order = None /\ objects \in [Ids -> Order \cup {None}]
    BY <1>1 DEF CallInv, StateTypes
<1>3. /\ o \in Order /\ o.order_id \in Ids
      /\ o = NewOrder(o.order_id, o.type, o.side, o.quantity, o.price)
    BY BookAssumption DEF Order
<1>4. o.filled_quantity = 0 /\ o # None
    BY <1>3, TypesAssumption DEF NewOrder
<1>5. executed[o.order_id] = 0
    BY <1>2, <1>3 DEF Booked
<1>6. DOMAIN lookup \subseteq Ids
    BY DEF IInv, BookInv, Exact, IsMap
<1>7. CASE RejectInvalid(o)
    <2>1. /\ objects' = [objects EXCEPT ![o.order_id] = o]
          /\ order' = None
        BY <1>2, <1>7 DEF RejectInvalid
    <2>2. \A id \in DOMAIN lookup : objects'[id] = objects[id]
        BY <1>1, <1>2, <1>6, <2>1 DEF CallInv
    <2>3. \A id \in DOMAIN lookup' :
            Rec(id)'.filled_quantity = executed'[id] /\ Rests(objects'[id])
        BY <1>1, <2>2 DEF Booked, Rec
    <2>4. ASSUME NEW id \in Ids, objects'[id] # None, ~Rests(objects'[id])
          PROVE  objects'[id].filled_quantity = executed'[id]
        BY <1>1, <1>2, <1>4, <1>5, <2>1, <2>4 DEF Booked
    <2>5. ASSUME NEW id \in Ids, objects'[id] = None
          PROVE  executed'[id] = 0
        BY <1>1, <1>2, <1>4, <2>1, <2>5 DEF Booked
    <2> QED
        BY <2>1, <2>3, <2>4, <2>5 DEF Booked
<1>8. CASE AcceptOrder(o)
    <2>1. order' = [o EXCEPT !.status = "ACTIVE"] /\ objects' = objects
        BY <1>8 DEF AcceptOrder
    <2>2. order'.order_id = o.order_id /\ order'.filled_quantity = 0
        BY <1>3, <1>4, <2>1 DEF Order
    <2>3. Rec(o.order_id)' = Rec(o.order_id) /\ \A id \in DOMAIN lookup : Rec(id)' = Rec(id)
        BY <1>1 DEF Rec
    <2> QED
        BY <1>1, <1>2, <1>5, <2>1, <2>2, <2>3 DEF Booked
<1> QED
    BY <1>7, <1>8 DEF SubmitOrder

\* A round books the same quantity for both and reports it.
LEMMA MatchStepKeepsBooked ==
    ASSUME IInv, Booked, MatchStep
    PROVE  Booked'
<1>1. PICK m \in DOMAIN lookup : \E q \in Nat : Round(m, q)
    BY MatchStepIsRound
<1>2. PICK q \in Nat : Round(m, q)
    BY <1>1
<1> DEFINE t == order.order_id
<1>3. /\ m \in Ids /\ Rec(m) \in Order
      /\ order \in Order /\ order # None
      /\ t \in Ids /\ t \notin DOMAIN lookup /\ objects[t] = None
      /\ order' = Fill(order, q) /\ order' # None
      /\ executed \in [Ids -> Nat]
      /\ executed' = [[executed EXCEPT ![m] = @ + q] EXCEPT ![t] = @ + q]
      /\ DOMAIN lookup' \subseteq DOMAIN lookup
      /\ \A id \in DOMAIN lookup' : Rec(id)' = IF id = m THEN Fill(Rec(m), q) ELSE Rec(id)
      /\ UNCHANGED objects
    BY <1>2 DEF Round
<1> HIDE DEF t
<1>4. m # t
    BY <1>3
<1>5. /\ executed'[m] = executed[m] + q
      /\ executed'[t] = executed[t] + q
      /\ \A id \in Ids : id # m /\ id # t => executed'[id] = executed[id]
    BY <1>3, <1>4
<1>6. DOMAIN lookup \subseteq Ids
    BY DEF IInv, BookInv, Exact, IsMap
<1>7. order'.order_id = t /\ order'.filled_quantity = order.filled_quantity + q
    BY <1>3, FillProperties DEF t
<1>8. Fill(Rec(m), q).filled_quantity = Rec(m).filled_quantity + q
    <2> DEFINE maker == Rec(m)
    <2>1. maker \in Order
        BY <1>3
    <2> HIDE DEF maker
    <2>2. Fill(maker, q).filled_quantity = maker.filled_quantity + q
        BY <2>1, FillProperties
    <2> QED
        BY <2>2 DEF maker
<1>9. order.filled_quantity = executed[t]
    BY <1>3 DEF Booked, t
<1>10. ASSUME NEW id \in DOMAIN lookup'
       PROVE  Rec(id)'.filled_quantity = executed'[id] /\ Rests(objects'[id])
    <2>1. /\ id \in DOMAIN lookup /\ id \in Ids /\ id # t
          /\ Rec(id).filled_quantity = executed[id] /\ Rests(objects[id])
        BY <1>3, <1>6 DEF Booked
    <2>2. CASE id = m
        BY <1>3, <1>5, <1>8, <2>1, <2>2
    <2>3. CASE id # m
        BY <1>3, <1>5, <2>1, <2>3
    <2> QED
        BY <2>2, <2>3
<1>11. ASSUME NEW id \in Ids, objects'[id] # None, ~Rests(objects'[id])
       PROVE  objects'[id].filled_quantity = executed'[id]
    BY <1>3, <1>5, <1>11 DEF Booked
<1>12. ASSUME NEW id \in Ids, objects'[id] = None, id # t
       PROVE  executed'[id] = 0
    <2>1. objects[m] # None
        BY DEF IInv, CallInv
    <2> QED
        BY <1>3, <1>5, <1>12, <2>1 DEF Booked, t
<1>13. order'.filled_quantity = executed'[order'.order_id]
    BY <1>5, <1>7, <1>9
<1>14. \A id \in Ids : objects'[id] = None /\ (order' # None => order'.order_id # id)
                         => executed'[id] = 0
    BY <1>3, <1>7, <1>12
<1> QED
    BY <1>10, <1>11, <1>13, <1>14 DEF Booked

\* What returns to its caller is booked; what rests is booked in its record.
LEMMA ReturnKeepsBooked ==
    ASSUME IInv, Booked, RestInBook \/ LeaveBook
    PROVE  Booked'
<1>1. /\ StateTypes /\ CallInv /\ phase # "idle"
      /\ objects' = [objects EXCEPT ![order.order_id] = order]
      /\ order' = None /\ UNCHANGED executed
    BY DEF IInv, RestInBook, LeaveBook, ReturnToCaller, MatchingDone
<1> DEFINE t == order.order_id
<1>2. /\ order # None /\ order \in Order /\ objects[t] = None
      /\ objects \in [Ids -> Order \cup {None}]
    BY <1>1 DEF CallInv, StateTypes
<1>3. t \in Ids
    BY <1>2 DEF Order
<1>4. objects'[t] = order /\ \A id \in Ids : id # t => objects'[id] = objects[id]
    BY <1>1, <1>2, <1>3
<1>5. order.filled_quantity = executed[t]
    BY <1>2 DEF Booked
<1>6. DOMAIN lookup \subseteq Ids /\ t \notin DOMAIN lookup
    BY <1>1, <1>2 DEF IInv, BookInv, Exact, IsMap, CallInv
<1> HIDE DEF t
<1>7. \A id \in DOMAIN lookup' :
        Rec(id)'.filled_quantity = executed'[id] /\ Rests(objects'[id])
    <2>1. CASE RestInBook
        <3>1. /\ Rests(order)
              /\ \A id \in DOMAIN lookup' : id \in DOMAIN lookup \/ id = t
              /\ \A id \in DOMAIN lookup' : Rec(id)' = IF id = t THEN order ELSE Rec(id)
            BY <2>1, RestInBookOnRecord DEF t
        <3> QED
            BY <1>1, <1>4, <1>5, <1>6, <3>1 DEF Booked
    <2>2. CASE LeaveBook
        <3>1. lookup' = lookup /\ \A id \in DOMAIN lookup : Rec(id)' = Rec(id)
            BY <2>2 DEF LeaveBook, Rec
        <3> QED
            BY <1>1, <1>4, <1>6, <3>1 DEF Booked
    <2> QED
        BY <2>1, <2>2
<1>8. ASSUME NEW id \in Ids, objects'[id] # None, ~Rests(objects'[id])
      PROVE  objects'[id].filled_quantity = executed'[id]
    BY <1>1, <1>4, <1>5, <1>8 DEF Booked
<1>9. ASSUME NEW id \in Ids, objects'[id] = None
      PROVE  executed'[id] = 0
    BY <1>1, <1>2, <1>4, <1>9 DEF Booked, t
<1> QED
    BY <1>1, <1>7, <1>8, <1>9 DEF Booked

\* Every step keeps it.
LEMMA NextBooked == IInv /\ Booked /\ [FreshNext]_vars => Booked'
<1> SUFFICES ASSUME IInv, Booked, [FreshNext]_vars PROVE Booked'
    OBVIOUS
<1>1. CASE \E o \in Offers : objects[o.order_id] = None /\ SubmitOrder(o)
    BY <1>1, SubmitOrderKeepsBooked
<1>2. CASE CheckFok
    <2>1. /\ phase = "fok" /\ order' \in {order, [order EXCEPT !.status = "REJECTED"]}
          /\ UNCHANGED <<book, lookup, objects, executed>>
        BY <1>2 DEF CheckFok
    <2>2. order # None /\ order \in Order
        BY <2>1 DEF IInv, StateTypes, CallInv
    <2>3. order'.order_id = order.order_id /\ order'.filled_quantity = order.filled_quantity
          /\ order' \in Order
        BY <2>1, <2>2 DEF Order, OrderStatuses
    <2>4. order' # None
        BY <2>3, TypesAssumption
    <2>5. \A id \in DOMAIN lookup : Rec(id)' = Rec(id)
        BY <2>1 DEF Rec
    <2> QED
        BY <2>1, <2>2, <2>3, <2>4, <2>5 DEF Booked
<1>3. CASE MatchStep
    BY <1>3, MatchStepKeepsBooked
<1>4. CASE RestInBook \/ LeaveBook
    BY <1>4, ReturnKeepsBooked
<1>5. ASSUME NEW id \in Ids, CancelOrder(id) PROVE Booked'
    BY <1>5, CancelOrderOnRecord DEF Booked
<1>6. ASSUME NEW id \in Ids, NEW quantity \in NewQuantities, ModifyOrder(id, quantity)
      PROVE  Booked'
    <2>1. UNCHANGED <<order, objects, executed>>
        BY <1>6 DEF ModifyOrder
    <2> QED
        BY <1>6, <2>1, ModifyOrderOnRecord DEF Booked
<1>7. CASE UNCHANGED vars
    <2>1. UNCHANGED <<order, objects, executed, lookup>> /\ \A id : Rec(id)' = Rec(id)
        BY <1>7 DEF vars, Rec
    <2> QED
        BY <2>1 DEF Booked
<1> QED
    BY <1>1, <1>2, <1>3, <1>4, <1>5, <1>6, <1>7 DEF FreshNext, Continue, OtherCalls

\* It holds in every state.
LEMMA BookedInvariant == FreshRules => [](IInv /\ Booked)
<1>1. Init => Booked
    BY DEF Init, Booked
<1> QED
    BY <1>1, NextBooked, FreshInvariant, PTL DEF FreshRules

\* What Booked says of records, said of resting orders.
LEMMA RestingIsRecorded ==
    ASSUME IInv, NEW o \in Resting
    PROVE  o.order_id \in DOMAIN lookup /\ Rec(o.order_id) = o
<1>1. BookInv(book, lookup)
    BY DEF IInv
<1>2. PICK x \in DOMAIN lookup : o = OrderAt(book, lookup, x)
    BY <1>1, RestingNow DEF OnRecord
<1>3. o.order_id = x
    BY <1>1, <1>2, RecordedOrder
<1> QED
    BY <1>2, <1>3 DEF Rec

\* For every order, in the book, in hand or back with its caller, the filled
\* quantity is the sum of the trades reported under its id, through any number
\* of partial fills, modifications and cancellations.
THEOREM TheTapeAgrees == FreshRules => []TapeAgrees
<1>1. IInv /\ Booked => TapeAgrees
    BY RestingIsRecorded DEF Booked, TapeAgrees
<1> QED
    BY <1>1, BookedInvariant, PTL

-------------------------------------------------------------------------------
(* Where modify_order is not used *)

\* id is on record, or was cancelled, or has nothing left but what the
\* tolerance of is_fully_filled drops.
Accounted(id) ==
    \/ id \in DOMAIN lookup
    \/ id \in cancelled
    \/ objects[id].quantity - executed[id] < Eps

\* The caller of id has it back from add_order, which had accepted it.
Taken(id) == objects[id] # None /\ objects[id].type = "LIMIT" /\ objects[id].status # "PENDING"

\* Every record has something left of the quantity its caller asked for, no
\* trade was for nothing, and every accepted limit order is accounted for.
AccountInv ==
    /\ \A id \in DOMAIN lookup :
        ~IsFullyFilled(Rec(id)) /\ Rec(id).quantity = objects[id].quantity
    /\ trade # None => trade.quantity > 0
    /\ \A id \in Ids : Taken(id) => Accounted(id)

\* What is not filled and not negative is above the tolerance.
LEMMA SomethingLeft ==
    ASSUME NEW o \in Order, Sound(o), ~IsFullyFilled(o)
    PROVE  o.leaves_quantity > 0
BY TypesAssumption DEF Order, Sound, IsFullyFilled

\* An order that is filled has all of its quantity booked but the tolerance.
LEMMA FilledIsBooked ==
    ASSUME NEW o \in Order, Sound(o), IsFullyFilled(o)
    PROVE  o.quantity - o.filled_quantity < Eps
BY TypesAssumption DEF Order, Sound, IsFullyFilled

\* A new object comes back unaccepted, or not yet.
LEMMA SubmitOrderKeepsAccounts ==
    ASSUME IInv, AccountInv, NEW o \in Offers, objects[o.order_id] = None, SubmitOrder(o)
    PROVE  AccountInv'
<1>1. /\ StateTypes /\ CallInv
      /\ UNCHANGED <<book, lookup, trade, executed, cancelled>>
    BY DEF IInv, SubmitOrder, RejectInvalid, AcceptOrder
<1>2. objects' = objects \/ objects' = [objects EXCEPT ![o.order_id] = o]
    BY DEF SubmitOrder, RejectInvalid, AcceptOrder
<1>3. o \in Order /\ o.order_id \in Ids /\ o.status = "PENDING"
    BY BookAssumption DEF NewOrder, Order
<1>4. objects \in [Ids -> Order \cup {None}] /\ DOMAIN lookup \subseteq Ids
    BY <1>1 DEF StateTypes, IInv, BookInv, Exact, IsMap
<1>5. \A id \in DOMAIN lookup : objects[id] # None
    BY <1>1 DEF CallInv
<1>6. ASSUME NEW id \in DOMAIN lookup
      PROVE  ~IsFullyFilled(Rec(id)') /\ Rec(id)'.quantity = objects'[id].quantity
    <2>1. Rec(id)' = Rec(id)
        BY <1>1 DEF Rec
    <2>2. objects'[id] = objects[id]
        BY <1>2, <1>3, <1>4, <1>5
    <2> QED
        BY <2>1, <2>2 DEF AccountInv
<1>7. ASSUME NEW id \in Ids, Taken(id)' PROVE Accounted(id)'
    <2>1. objects'[id] = objects[id]
        BY <1>2, <1>3, <1>4, <1>7 DEF Taken
    <2>2. Accounted(id)
        BY <1>7, <2>1 DEF Taken, AccountInv
    <2> QED
        BY <1>1, <2>1, <2>2 DEF Accounted
<1> QED
    BY <1>1, <1>6, <1>7 DEF AccountInv, IsFullyFilled

\* A trade takes something from two orders that had something left, and takes a
\* record away only when its quantity has been traded.
LEMMA MatchStepKeepsAccounts ==
    ASSUME IInv, Booked, AccountInv, MatchStep
    PROVE  AccountInv'
<1>1. PICK m \in DOMAIN lookup : \E q \in Nat : Round(m, q)
    BY MatchStepIsRound
<1>2. PICK q \in Nat : Round(m, q)
    BY <1>1
<1> DEFINE t == order.order_id
           maker == Rec(m)
           filled == Fill(maker, q)
<1>3. /\ m \in Ids /\ maker \in Order /\ Sound(maker)
      /\ order \in Order /\ Sound(order) /\ ~IsFullyFilled(order)
      /\ t \in Ids /\ t \notin DOMAIN lookup /\ objects[t] = None
      /\ q = Smaller(order.leaves_quantity, maker.leaves_quantity)
      /\ trade'.quantity = q
      /\ executed \in [Ids -> Nat]
      /\ executed' = [[executed EXCEPT ![m] = @ + q] EXCEPT ![t] = @ + q]
      /\ DOMAIN lookup' = IF IsFullyFilled(filled) THEN DOMAIN lookup \ {m} ELSE DOMAIN lookup
      /\ \A id \in DOMAIN lookup' : Rec(id)' = IF id = m THEN filled ELSE Rec(id)
      /\ UNCHANGED <<objects, cancelled>>
    BY <1>2 DEF Round
<1>4. /\ ~IsFullyFilled(maker) /\ maker.quantity = objects[m].quantity
      /\ maker.filled_quantity = executed[m]
    BY DEF AccountInv, Booked
<1> HIDE DEF t, maker
<1>5. q > 0
    <2>1. order.leaves_quantity > 0 /\ maker.leaves_quantity > 0
        BY <1>3, <1>4, SomethingLeft
    <2> QED
        BY <1>3, <2>1 DEF Smaller
<1>6. /\ filled \in Order
      /\ filled.quantity = maker.quantity
      /\ filled.filled_quantity = maker.filled_quantity + q
      /\ filled.leaves_quantity = maker.leaves_quantity - q
    <2>1. maker \in Order /\ q \in Int
        BY <1>3
    <2> QED
        BY <2>1, FillProperties
<1>7. Sound(filled)
    <2>1. q <= maker.leaves_quantity
        BY <1>3 DEF Smaller, Order
    <2> HIDE DEF filled
    <2> QED
        BY <1>3, <1>6, <2>1 DEF Sound, Order
<1>8. m # t /\ executed'[m] = executed[m] + q
      /\ \A id \in Ids : id # m /\ id # t => executed'[id] = executed[id]
    BY <1>3
<1> HIDE DEF filled
<1>9. ASSUME NEW id \in DOMAIN lookup'
      PROVE  ~IsFullyFilled(Rec(id)') /\ Rec(id)'.quantity = objects'[id].quantity
    <2>1. CASE id = m
        <3>1. ~IsFullyFilled(filled) /\ Rec(id)' = filled
            BY <1>3, <1>9, <2>1
        <3> QED
            BY <1>3, <1>4, <1>6, <2>1, <3>1
    <2>2. CASE id # m
        <3>1. id \in DOMAIN lookup /\ Rec(id)' = Rec(id)
            BY <1>3, <1>9, <2>2
        <3> QED
            BY <1>3, <3>1 DEF AccountInv
    <2> QED
        BY <2>1, <2>2
<1>10. ASSUME NEW id \in Ids, Taken(id)' PROVE Accounted(id)'
    <2>1. Taken(id) /\ id # t
        BY <1>3, <1>10 DEF Taken
    <2>2. Accounted(id)
        BY <2>1 DEF AccountInv
    <2>3. CASE id = m
        <3>1. CASE IsFullyFilled(filled)
            <4>1. filled.quantity - filled.filled_quantity < Eps
                BY <1>6, <1>7, <3>1, FilledIsBooked
            <4>2. objects'[id].quantity - executed'[id] < Eps
                BY <1>3, <1>4, <1>6, <1>8, <2>3, <4>1
            <4> QED
                BY <4>2 DEF Accounted
        <3>2. CASE ~IsFullyFilled(filled)
            BY <1>3, <2>3, <3>2 DEF Accounted
        <3> QED
            BY <3>1, <3>2
    <2>4. CASE id # m
        <3>1. executed'[id] = executed[id]
            BY <1>8, <2>1, <2>4
        <3>2. id \in DOMAIN lookup => id \in DOMAIN lookup'
            BY <1>3, <2>4
        <3> QED
            BY <1>3, <2>2, <3>1, <3>2 DEF Accounted
    <2> QED
        BY <2>3, <2>4
<1> QED
    BY <1>3, <1>5, <1>9, <1>10 DEF AccountInv, IsFullyFilled

\* A limit order that returns is on record, or filled.
LEMMA ReturnKeepsAccounts ==
    ASSUME IInv, Booked, AccountInv, RestInBook \/ LeaveBook
    PROVE  AccountInv'
<1> DEFINE t == order.order_id
<1>1. /\ StateTypes /\ CallInv /\ phase # "idle"
      /\ objects' = [objects EXCEPT ![t] = order]
      /\ trade' = None /\ UNCHANGED <<executed, cancelled>>
    BY DEF IInv, RestInBook, LeaveBook, ReturnToCaller, MatchingDone
<1>2. /\ order # None /\ order \in Order /\ Sound(order) /\ objects[t] = None
      /\ objects \in [Ids -> Order \cup {None}]
    BY <1>1 DEF CallInv, StateTypes
<1>3. t \in Ids
    BY <1>2 DEF Order
<1>4. objects'[t] = order /\ \A id \in Ids : id # t => objects'[id] = objects[id]
    BY <1>1, <1>2, <1>3
<1>5. order.filled_quantity = executed[t]
    BY <1>2 DEF Booked
<1>6. DOMAIN lookup \subseteq Ids /\ t \notin DOMAIN lookup
    BY <1>1, <1>2 DEF IInv, BookInv, Exact, IsMap, CallInv
<1>7. CASE RestInBook
    <2>1. /\ Rests(order)
          /\ DOMAIN lookup' = DOMAIN lookup \cup {t}
          /\ \A id \in DOMAIN lookup' : Rec(id)' = IF id = t THEN order ELSE Rec(id)
        BY <1>7, RestInBookOnRecord
    <2> HIDE DEF t
    <2>2. ASSUME NEW id \in DOMAIN lookup'
          PROVE  ~IsFullyFilled(Rec(id)') /\ Rec(id)'.quantity = objects'[id].quantity
        <3>1. CASE id = t
            BY <1>4, <2>1, <3>1 DEF Rests
        <3>2. CASE id # t
            <4>1. id \in DOMAIN lookup /\ Rec(id)' = Rec(id) /\ objects'[id] = objects[id]
                BY <1>4, <1>6, <2>1, <3>2
            <4> QED
                BY <4>1 DEF AccountInv
        <3> QED
            BY <3>1, <3>2
    <2>3. ASSUME NEW id \in Ids, Taken(id)' PROVE Accounted(id)'
        BY <1>1, <1>4, <2>1, <2>3 DEF Taken, Accounted, AccountInv
    <2> QED
        BY <1>1, <2>2, <2>3 DEF AccountInv, IsFullyFilled
<1>8. CASE LeaveBook
    <2>1. ~Rests(order) /\ UNCHANGED <<book, lookup>>
        BY <1>8 DEF LeaveBook
    <2> HIDE DEF t
    <2>2. ASSUME NEW id \in DOMAIN lookup
          PROVE  ~IsFullyFilled(Rec(id)') /\ Rec(id)'.quantity = objects'[id].quantity
        <3>1. Rec(id)' = Rec(id) /\ objects'[id] = objects[id]
            BY <1>4, <1>6, <2>1 DEF Rec
        <3> QED
            BY <3>1 DEF AccountInv
    <2>3. ASSUME NEW id \in Ids, Taken(id)' PROVE Accounted(id)'
        <3>1. CASE id = t
            <4>1. IsFullyFilled(order)
                BY <1>4, <2>1, <2>3, <3>1 DEF Taken, Rests
            <4>2. order.quantity - order.filled_quantity < Eps
                BY <1>2, <4>1, FilledIsBooked
            <4> QED
                BY <1>1, <1>4, <1>5, <3>1, <4>2 DEF Accounted
        <3>2. CASE id # t
            BY <1>1, <1>4, <2>1, <2>3, <3>2 DEF Taken, Accounted, AccountInv
        <3> QED
            BY <3>1, <3>2
    <2> QED
        BY <1>1, <2>1, <2>2, <2>3 DEF AccountInv, IsFullyFilled
<1> QED
    BY <1>7, <1>8

\* Every step but a modification keeps it.
LEMMA NextAccount ==
    (NewQuantities = {}) => (IInv /\ Booked /\ AccountInv /\ [FreshNext]_vars => AccountInv')
<1> SUFFICES ASSUME NewQuantities = {}, IInv, Booked, AccountInv, [FreshNext]_vars
             PROVE  AccountInv'
    OBVIOUS
<1>1. CASE \E o \in Offers : objects[o.order_id] = None /\ SubmitOrder(o)
    BY <1>1, SubmitOrderKeepsAccounts
<1>2. CASE CheckFok \/ UNCHANGED vars
    <2>1. UNCHANGED <<book, lookup, trade, objects, executed, cancelled>>
        BY <1>2 DEF CheckFok, vars
    <2>2. \A id \in DOMAIN lookup : Rec(id)' = Rec(id)
        BY <2>1 DEF Rec
    <2> QED
        BY <2>1, <2>2 DEF AccountInv, Taken, Accounted, IsFullyFilled
<1>3. CASE MatchStep
    BY <1>3, MatchStepKeepsAccounts
<1>4. CASE RestInBook \/ LeaveBook
    BY <1>4, ReturnKeepsAccounts
<1>5. ASSUME NEW id \in Ids, CancelOrder(id) PROVE AccountInv'
    <2>1. /\ UNCHANGED <<order, trade, objects, executed>>
          /\ \A x \in DOMAIN lookup' : x \in DOMAIN lookup /\ Rec(x)' = Rec(x)
          /\ \A x \in DOMAIN lookup : x \in DOMAIN lookup' \/ x \in cancelled'
          /\ cancelled \subseteq cancelled'
        BY <1>5, CancelOrderOnRecord
    <2> QED
        BY <2>1 DEF AccountInv, Taken, Accounted, IsFullyFilled
<1> QED
    BY <1>1, <1>2, <1>3, <1>4, <1>5 DEF FreshNext, Continue, OtherCalls

\* Without modify_order, the account is always in balance.
LEMMA AccountInvariant ==
    (NewQuantities = {}) => (FreshRules => [](IInv /\ AccountInv))
<1> SUFFICES ASSUME NewQuantities = {} PROVE FreshRules => [](IInv /\ AccountInv)
    OBVIOUS
<1>1. Init => Booked /\ AccountInv
    BY DEF Init, Booked, AccountInv, Taken
<1>2. IInv /\ Booked /\ AccountInv /\ [FreshNext]_vars => AccountInv'
    BY NextAccount
<1> QED
    BY <1>1, <1>2, NextBooked, FreshInvariant, PTL DEF FreshRules

\* Without modify_order, every resting order has something left to trade, so
\* that a trade is never for nothing.
THEOREM NothingFilledLingers ==
    (NewQuantities = {}) => (FreshRules => []RestingHasLeaves)
<1>1. IInv /\ AccountInv => RestingHasLeaves
    <2> SUFFICES ASSUME IInv, AccountInv PROVE RestingHasLeaves
        OBVIOUS
    <2>1. \A o \in Resting : ~IsFullyFilled(o)
        BY RestingIsRecorded DEF AccountInv
    <2> QED
        BY <2>1 DEF AccountInv, RestingHasLeaves
<1> QED
    BY <1>1, AccountInvariant, PTL

\* Without modify_order, a limit order that add_order accepted is in the book,
\* or was cancelled, or has traded all but what the tolerance drops: through
\* partial fills and removals by any number of takers, none gets lost.
THEOREM NoLimitOrderGetsLost ==
    (NewQuantities = {}) => (FreshRules => []LimitOrdersAccountedFor)
<1>1. IInv /\ AccountInv => LimitOrdersAccountedFor
    <2> SUFFICES ASSUME IInv, AccountInv PROVE LimitOrdersAccountedFor
        OBVIOUS
    <2>1. RestingIds = DOMAIN lookup
        BY RestingOnRecord DEF IInv, BookInv
    <2> QED
        BY <2>1 DEF AccountInv, Taken, Accounted, LimitOrdersAccountedFor
<1> QED
    BY <1>1, AccountInvariant, PTL

-------------------------------------------------------------------------------
(* What a level has on offer *)

\* The ids on record at a price of a side.
RecordedAt(side, p) == {id \in DOMAIN lookup : Rec(id).side = side /\ Rec(id).price = p}

\* What is left of the order on record.
LeftOf == [id \in DOMAIN lookup |-> Rec(id).leaves_quantity]

\* The ids in a level.
IdsIn(level) == [i \in DOMAIN level |-> level[i].order_id]

\* The places of a level and the records that lead there are one and the same.
Recorded(level, e, ids) ==
    /\ IsFiniteSet(DOMAIN level)
    /\ DOMAIN level # {}
    /\ {e[i] : i \in DOMAIN level} = ids
    /\ \A i, j \in DOMAIN level : e[i] = e[j] => i = j
    /\ \A i \in DOMAIN level : e[i] \in DOMAIN lookup /\ Rec(e[i]) = level[i]
    /\ \A i \in DOMAIN level : level[i] \in Order /\ Sound(level[i])

\* The queue of a level holds what the records say is there.
LEMMA LevelIsRecorded ==
    ASSUME BookInv(book, lookup), NEW side \in Sides, NEW p \in DOMAIN book[side]
    PROVE  Recorded(book[side][p], IdsIn(book[side][p]), RecordedAt(side, p))
<1> DEFINE level == book[side][p]
           e == IdsIn(level)
<1>1. GoodBook(book) /\ Exact(book, lookup)
    BY DEF BookInv
<1>2. /\ DOMAIN level = 1 .. Len(level) /\ Len(level) \in Nat \ {0}
      /\ \A i \in DOMAIN level : level[i] \in Order
    BY <1>1, LevelProperties
<1>3. IsFiniteSet(DOMAIN level) /\ DOMAIN level # {}
    <2>1. IsFiniteSet(1 .. Len(level))
        BY <1>2, FS_Interval
    <2>2. 1 \in 1 .. Len(level)
        BY <1>2
    <2> QED
        BY <1>2, <2>1, <2>2
<1>4. ASSUME NEW i \in DOMAIN level
      PROVE  /\ e[i] = level[i].order_id
             /\ e[i] \in DOMAIN lookup
             /\ lookup[e[i]].side = side
             /\ lookup[e[i]].price_level = p
             /\ lookup[e[i]].order_index = i
    <2>1. e[i] = level[i].order_id
        BY DEF IdsIn
    <2>2. /\ level[i].order_id \in DOMAIN lookup
          /\ lookup[level[i].order_id] = [side |-> side, price_level |-> p, order_index |-> i]
        BY <1>1 DEF Exact
    <2> QED
        BY <2>1, <2>2
<1>5. \A i \in DOMAIN level : Rec(e[i]) = level[i]
    BY <1>4 DEF Rec, OrderAt
<1>6. \A i \in DOMAIN level : level[i].side = side /\ level[i].price = p
    BY <1>1 DEF GoodBook
<1>7. \A i, j \in DOMAIN level : e[i] = e[j] => i = j
    <2> SUFFICES ASSUME NEW i \in DOMAIN level, NEW j \in DOMAIN level, e[i] = e[j]
                 PROVE  i = j
        OBVIOUS
    <2> QED
        BY <1>4
<1>8. ASSUME NEW id \in RecordedAt(side, p) PROVE \E i \in DOMAIN level : e[i] = id
    <2>1. id \in DOMAIN lookup /\ Rec(id).side = side /\ Rec(id).price = p
        BY DEF RecordedAt
    <2>2. lookup[id].side = side /\ lookup[id].price_level = p
        BY <2>1, RecordedOrder DEF Rec
    <2>3. /\ lookup[id].order_index \in DOMAIN level
          /\ level[lookup[id].order_index].order_id = id
        BY <1>1, <2>1, <2>2 DEF Exact
    <2> QED
        BY <1>4, <2>3
<1>9. ASSUME NEW i \in DOMAIN level PROVE e[i] \in RecordedAt(side, p)
    <2>1. e[i] \in DOMAIN lookup
        BY <1>4
    <2>2. Rec(e[i]).side = side /\ Rec(e[i]).price = p
        BY <1>5, <1>6
    <2> QED
        BY <2>1, <2>2 DEF RecordedAt
<1>10. {e[i] : i \in DOMAIN level} = RecordedAt(side, p)
    BY <1>8, <1>9
<1>11. \A i \in DOMAIN level : e[i] \in DOMAIN lookup
    BY <1>4
<1>12. \A i \in DOMAIN level : Sound(level[i])
    BY DEF BookInv
<1> QED
    BY <1>2, <1>3, <1>5, <1>7, <1>10, <1>11, <1>12 DEF Recorded

\* What a level shows is what is left of the orders recorded there.
LEMMA LeavesOnRecord ==
    ASSUME BookInv(book, lookup), NEW side \in Sides, NEW p \in DOMAIN book[side],
           NEW g, \A id \in RecordedAt(side, p) : g[id] = Rec(id).leaves_quantity
    PROVE  /\ LeavesOf(book[side][p]) = SumFunctionOnSet(g, RecordedAt(side, p))
           /\ LeavesOf(book[side][p]) \in Nat
           /\ IsFiniteSet(RecordedAt(side, p))
<1>1. PICK level : level = book[side][p]
    OBVIOUS
<1>2. PICK e : e = IdsIn(level)
    OBVIOUS
<1>3. /\ IsFiniteSet(DOMAIN level)
      /\ {e[i] : i \in DOMAIN level} = RecordedAt(side, p)
      /\ \A i, j \in DOMAIN level : e[i] = e[j] => i = j
      /\ \A i \in DOMAIN level : e[i] \in DOMAIN lookup /\ Rec(e[i]) = level[i]
      /\ \A i \in DOMAIN level : level[i] \in Order /\ Sound(level[i])
    <2>1. Recorded(level, e, RecordedAt(side, p))
        BY <1>1, <1>2, LevelIsRecorded
    <2> QED
        BY <2>1 DEF Recorded
<1>4. PICK f : f = [i \in DOMAIN level |-> level[i].leaves_quantity]
    OBVIOUS
<1>5. ASSUME NEW i \in DOMAIN level PROVE f[i] \in Nat /\ f[i] \in Int /\ g[e[i]] = f[i]
    <2>1. f[i] = level[i].leaves_quantity
        BY <1>4
    <2>2. level[i].leaves_quantity \in Nat
        BY <1>3 DEF Order, Sound
    <2>3. e[i] \in RecordedAt(side, p)
        BY <1>3
    <2>4. g[e[i]] = Rec(e[i]).leaves_quantity
        BY <2>3
    <2> QED
        BY <1>3, <2>1, <2>2, <2>4
<1>6. LeavesOf(level) = SumFunctionOnSet(f, DOMAIN level)
    BY <1>4 DEF LeavesOf, SumFunction
<1>7. IsFiniteSet(RecordedAt(side, p))
    <2>1. [i \in DOMAIN level |-> e[i]] \in Surjection(DOMAIN level, RecordedAt(side, p))
        BY <1>3 DEF Surjection
    <2> QED
        BY <1>3, <2>1, FS_Surjection
<1>8. SumFunctionOnSet(g, {e[i] : i \in DOMAIN level}) = SumFunctionOnSet(f, DOMAIN level)
    BY <1>3, <1>5, SumPaired
<1>9. SumFunctionOnSet(f, DOMAIN level) \in Nat
    BY <1>3, <1>5, SumIsNat
<1> QED
    BY <1>1, <1>3, <1>6, <1>7, <1>8, <1>9

\* A record leads to a sound order.
LEMMA RecordIsSound ==
    ASSUME NEW bk, NEW lk, BookInv(bk, lk), NEW id \in DOMAIN lk
    PROVE  Sound(OrderAt(bk, lk, id))
<1>1. lk[id].side \in Sides /\ lk[id].price_level \in DOMAIN bk[lk[id].side]
    BY RecordedOrder
<1>2. lk[id].order_index \in DOMAIN bk[lk[id].side][lk[id].price_level]
    BY DEF BookInv, Exact
<1> QED
    BY <1>1, <1>2 DEF BookInv, OrderAt

\* Every level has a record.
LEMMA LevelHasRecord ==
    ASSUME NEW bk, NEW lk, BookInv(bk, lk), NEW side \in Sides, NEW p \in DOMAIN bk[side]
    PROVE  \E id \in DOMAIN lk : OrderAt(bk, lk, id).side = side /\ OrderAt(bk, lk, id).price = p
<1>1. GoodBook(bk) /\ Exact(bk, lk)
    BY DEF BookInv
<1>2. 1 \in DOMAIN bk[side][p]
    BY <1>1, LevelProperties
<1>3. PICK id \in DOMAIN lk : lk[id] = [side |-> side, price_level |-> p, order_index |-> 1]
    BY <1>1, <1>2 DEF Exact
<1>4. OrderAt(bk, lk, id).side = side /\ OrderAt(bk, lk, id).price = p
    BY <1>3, RecordedOrder
<1> QED
    BY <1>4

\* Finitely many records make finitely many levels.
LEMMA LevelsAreFinite ==
    ASSUME BookInv(book, lookup), IsFiniteSet(DOMAIN lookup), NEW side \in Sides
    PROVE  IsFiniteSet(DOMAIN book[side])
<1> DEFINE on == {id \in DOMAIN lookup : Rec(id).side = side}
           f == [id \in on |-> Rec(id).price]
<1>1. \A p \in DOMAIN book[side] : \E id \in on : f[id] = p
    BY LevelHasRecord DEF Rec
<1>2. \A id \in on : f[id] \in DOMAIN book[side]
    BY RecordedOrder DEF Rec
<1>3. f \in Surjection(on, DOMAIN book[side])
    BY <1>1, <1>2 DEF Surjection
<1>4. IsFiniteSet(on)
    BY FS_Subset
<1> HIDE DEF on, f
<1> QED
    BY <1>3, <1>4, FS_Surjection

-------------------------------------------------------------------------------
(* Fill or kill *)

\* The records that the scan of try_match_fok_order counts.
FokOffered(o) ==
    {id \in DOMAIN lookup : Rec(id).side = Opposite(o.side) /\ Rec(id).price \in FokLevels(o)}

\* What the fill-or-kill scan counts is what the records on offer have left.
LEMMA FokAvailableOnRecord ==
    ASSUME BookInv(book, lookup), IsFiniteSet(DOMAIN lookup), NEW o \in Order
    PROVE  FokAvailable(o) = SumFunctionOnSet(LeftOf, FokOffered(o))
<1> DEFINE side == Opposite(o.side)
<1>1. side \in Sides
    BY DEF Opposite, Sides, Order
<1>2. PICK S : S = FokOffered(o)
    OBVIOUS
<1>3. PICK C : C = FokLevels(o)
    OBVIOUS
<1>4. C \subseteq DOMAIN book[side]
    BY <1>3 DEF FokLevels
<1>5. IsFiniteSet(S) /\ IsFiniteSet(C)
    <2>1. S \subseteq DOMAIN lookup
        BY <1>2 DEF FokOffered
    <2> QED
        BY <1>1, <1>4, <2>1, LevelsAreFinite, FS_Subset
<1>6. PICK c : c = [id \in S |-> Rec(id).price]
    OBVIOUS
<1>7. PICK g : g = [p \in C |-> LeavesOf(book[side][p])]
    OBVIOUS
<1>8. \A id \in S : c[id] \in C
    BY <1>2, <1>3, <1>6 DEF FokOffered
<1>9. \A id \in S : LeftOf[id] \in Int
    <2> SUFFICES ASSUME NEW id \in S PROVE LeftOf[id] \in Int
        OBVIOUS
    <2>1. id \in DOMAIN lookup
        BY <1>2 DEF FokOffered
    <2>2. Rec(id) \in Order
        BY <2>1, RecordedOrder DEF Rec
    <2> QED
        BY <2>1, <2>2 DEF LeftOf, Order
<1>10. ASSUME NEW p \in C
       PROVE  g[p] = SumFunctionOnSet(LeftOf, ClassOf(S, c, p))
    <2>1. ClassOf(S, c, p) = RecordedAt(side, p)
        BY <1>2, <1>3, <1>6 DEF FokOffered, RecordedAt, ClassOf
    <2>2. \A id \in RecordedAt(side, p) : LeftOf[id] = Rec(id).leaves_quantity
        BY DEF LeftOf, RecordedAt
    <2>3. LeavesOf(book[side][p]) = SumFunctionOnSet(LeftOf, RecordedAt(side, p))
        BY <1>1, <1>4, <2>2, LeavesOnRecord
    <2> QED
        BY <1>7, <2>1, <2>3
<1>11. SumFunctionOnSet(LeftOf, S) = SumFunctionOnSet(g, C)
    <2>1. PICK f : f = LeftOf
        OBVIOUS
    <2>2. \A id \in S : f[id] \in Int
        BY <1>9, <2>1
    <2>3. \A p \in C : g[p] = SumFunctionOnSet(f, ClassOf(S, c, p))
        BY <1>10, <2>1
    <2>4. SumFunctionOnSet(f, S) = SumFunctionOnSet(g, C)
        BY <1>5, <1>8, <2>2, <2>3, SumByClass
    <2> QED
        BY <2>1, <2>4
<1>12. FokAvailable(o) = SumFunctionOnSet(g, C)
    BY <1>3, <1>7 DEF FokAvailable, SumFunction
<1> QED
    BY <1>2, <1>11, <1>12

\* What is offered within the limit of the order in hand is enough to fill it.
CanBeFilled ==
    IsFullyFilled(order)
        \/ order.leaves_quantity <= SumFunctionOnSet(LeftOf, FokOffered(order))

\* A fill-or-kill order has not traded before the scan, nor if it is rejected;
\* while it matches, what the scan found is still there.
FokInv ==
    /\ IsFiniteSet(DOMAIN lookup)
    /\ phase = "fok" => order.filled_quantity = 0 /\ order.leaves_quantity = order.quantity
    /\ phase = "reject" => order.filled_quantity = 0
    /\ phase = "match" /\ order.type = "FOK" => CanBeFilled
    /\ FokAllOrNothing

\* What a limit order takes away from the levels it may trade at, it was to fill.
LEMMA RoundKeepsOffer ==
    ASSUME IInv, BookInv(book', lookup'), IsFiniteSet(DOMAIN lookup), MatchStep,
           order.type = "FOK", CanBeFilled
    PROVE  CanBeFilled'
<1>0. BookInv(book, lookup)
    BY DEF IInv
<1>1. PICK m \in DOMAIN lookup : \E q \in Nat : Round(m, q)
    BY MatchStepIsRound
<1>2. PICK q \in Nat : Round(m, q)
    BY <1>1
<1>3. /\ Rec(m) \in Order /\ Sound(Rec(m)) /\ Rec(m).order_id = m
      /\ order \in Order /\ Sound(order) /\ ~IsFullyFilled(order)
      /\ q = Smaller(order.leaves_quantity, Rec(m).leaves_quantity)
      /\ order' = Fill(order, q)
      /\ trade'.maker_order_id = m
      /\ DOMAIN lookup' = IF IsFullyFilled(Fill(Rec(m), q)) THEN DOMAIN lookup \ {m}
                          ELSE DOMAIN lookup
      /\ \A id \in DOMAIN lookup' : Rec(id)' = IF id = m THEN Fill(Rec(m), q) ELSE Rec(id)
    BY <1>2 DEF Round
<1> SUFFICES ASSUME ~IsFullyFilled(order') PROVE CanBeFilled'
    BY DEF CanBeFilled
<1> DEFINE side == Opposite(order.side)
<1>4. /\ order' \in Order /\ order'.side = order.side /\ order'.price = order.price
      /\ order'.leaves_quantity = order.leaves_quantity - q
    BY <1>3, FillProperties
<1>5. q = Rec(m).leaves_quantity
    <2>1. order.leaves_quantity \in Int /\ Rec(m).leaves_quantity \in Int
        BY <1>3 DEF Order
    <2>2. q # order.leaves_quantity
        BY <1>4, <2>1, TypesAssumption DEF IsFullyFilled
    <2> QED
        BY <1>3, <2>1, <2>2 DEF Smaller
<1>6. IsFullyFilled(Fill(Rec(m), q))
    <2>1. Fill(Rec(m), q).leaves_quantity = Rec(m).leaves_quantity - q
        <3>1. Rec(m) \in Order /\ q \in Nat
            BY <1>3
        <3> QED
            BY <3>1, FillProperties
    <2>2. Rec(m).leaves_quantity \in Int
        BY <1>3 DEF Order
    <2>3. Fill(Rec(m), q).leaves_quantity = 0
        BY <1>5, <2>1, <2>2
    <2> QED
        BY <2>3, TypesAssumption DEF IsFullyFilled
<1>7. /\ DOMAIN lookup' = DOMAIN lookup \ {m}
      /\ \A id \in DOMAIN lookup' : Rec(id)' = Rec(id)
    BY <1>3, <1>6
<1>8. m \in FokOffered(order)
    <2>1. PICK s \in Sides : \E p \in DOMAIN book[s] : \E k \in Nat : MatchRound(s, p, k)
        BY MatchStepProperties
    <2>2. PICK p \in DOMAIN book[s] : \E k \in Nat : MatchRound(s, p, k)
        BY <2>1
    <2>3. PICK k \in Nat : MatchRound(s, p, k)
        BY <2>2
    <2>4. /\ s = side /\ p = BestLevel(book[s]) /\ 1 \in DOMAIN book[s][p]
          /\ book[s][p][1].side = s /\ book[s][p][1].price = p
          /\ CanMatch(order, p)
          /\ trade'.maker_order_id = book[s][p][1].order_id
        BY <2>3 DEF MatchRound
    <2>5. IdsIn(book[s][p])[1] = m
        BY <1>3, <2>4 DEF IdsIn
    <2>6. Rec(m) = book[s][p][1]
        BY <1>0, <2>4, <2>5, LevelIsRecorded DEF Recorded
    <2>7. \A r \in DOMAIN book[s] : r \in Nat /\ p \in Nat /\ p <= r
        <3>1. DOMAIN book[s] \subseteq Nat /\ DOMAIN book[s] # {}
            BY <1>0, LevelProperties DEF BookInv
        <3> QED
            BY <2>4, <3>1, MinProperties DEF BestLevel
    <2>8. WithinLimit(order, p)
        BY <2>4 DEF CanMatch
    <2>9. \A r \in DOMAIN book[s] : r <= p => WithinLimit(order, r)
        <3> SUFFICES ASSUME NEW r \in DOMAIN book[s], r <= p PROVE WithinLimit(order, r)
            OBVIOUS
        <3>1. r = p
            BY <2>7
        <3> QED
            BY <2>8, <3>1
    <2>10. p \in FokLevels(order)
        BY <2>4, <2>9 DEF FokLevels
    <2> QED
        BY <2>4, <2>6, <2>10 DEF FokOffered
<1>9. \A r \in DOMAIN book'[side] : r \in DOMAIN book[side]
    <2> SUFFICES ASSUME NEW r \in DOMAIN book'[side] PROVE r \in DOMAIN book[side]
        OBVIOUS
    <2>1. side \in Sides
        BY <1>3 DEF Opposite, Sides, Order
    <2>2. PICK id \in DOMAIN lookup' : Rec(id)'.side = side /\ Rec(id)'.price = r
        BY <2>1, LevelHasRecord DEF Rec
    <2>3. id \in DOMAIN lookup /\ Rec(id).side = side /\ Rec(id).price = r
        BY <1>7, <2>2
    <2> QED
        BY <1>0, <2>3, RecordedOrder DEF Rec
<1>10. FokOffered(order) \ {m} \subseteq FokOffered(order)'
    <2> SUFFICES ASSUME NEW id \in FokOffered(order), id # m PROVE id \in FokOffered(order)'
        OBVIOUS
    <2>1. id \in DOMAIN lookup /\ Rec(id).side = side /\ Rec(id).price \in FokLevels(order)
        BY DEF FokOffered
    <2>2. id \in DOMAIN lookup' /\ Rec(id)' = Rec(id)
        BY <1>7, <2>1
    <2>3. Rec(id)'.price \in DOMAIN book'[side]
        <3>1. Rec(id)'.price \in DOMAIN book'[Rec(id)'.side]
            BY <2>2, RecordedOrder DEF Rec
        <3> QED
            BY <2>1, <2>2, <3>1
    <2>4. \A r \in DOMAIN book'[side] : r <= Rec(id).price => WithinLimit(order', r)
        BY <1>4, <1>9, <2>1 DEF FokLevels, WithinLimit
    <2>5. Rec(id)'.price \in FokLevels(order)'
        BY <1>4, <2>2, <2>3, <2>4 DEF FokLevels
    <2>6. Rec(id)'.side = Opposite(order'.side)
        BY <1>4, <2>1, <2>2
    <2> QED
        BY <2>2, <2>5, <2>6 DEF FokOffered
<1>11. PICK A, B, f, g : A = FokOffered(order) /\ B = FokOffered(order)' /\ f = LeftOf /\ g = LeftOf'
    OBVIOUS
<1>12. IsFiniteSet(A) /\ IsFiniteSet(A \ {m}) /\ IsFiniteSet(B) /\ m \in A /\ A \ {m} \subseteq B
    <2>1. A \subseteq DOMAIN lookup /\ B \subseteq DOMAIN lookup
        BY <1>7, <1>11 DEF FokOffered
    <2> QED
        BY <1>8, <1>10, <1>11, <2>1, FS_Subset
<1>13. \A id \in DOMAIN lookup : f[id] \in Nat /\ f[id] = Rec(id).leaves_quantity
    <2> SUFFICES ASSUME NEW id \in DOMAIN lookup
                 PROVE  f[id] \in Nat /\ f[id] = Rec(id).leaves_quantity
        OBVIOUS
    <2>1. Rec(id) \in Order /\ Sound(Rec(id))
        BY <1>0, RecordedOrder, RecordIsSound DEF Rec
    <2> QED
        BY <1>11, <2>1 DEF LeftOf, Order, Sound
<1>14. \A id \in DOMAIN lookup' : g[id] = f[id]
    <2> SUFFICES ASSUME NEW id \in DOMAIN lookup' PROVE g[id] = f[id]
        OBVIOUS
    <2>1. g[id] = Rec(id)'.leaves_quantity
        BY <1>11 DEF LeftOf
    <2> QED
        BY <1>7, <1>13, <2>1
<1>15. A \subseteq DOMAIN lookup /\ B \subseteq DOMAIN lookup' /\ DOMAIN lookup' \subseteq DOMAIN lookup
    BY <1>7, <1>11 DEF FokOffered
<1>16. SumFunctionOnSet(f, A) = f[m] + SumFunctionOnSet(f, A \ {m})
    <2>1. \A id \in A : f[id] \in Int
        BY <1>13, <1>15
    <2>2. IsFiniteSet(A) /\ m \in A
        BY <1>12
    <2> QED
        BY <2>1, <2>2, SumTakeOut
<1>17. SumFunctionOnSet(g, A \ {m}) = SumFunctionOnSet(f, A \ {m})
    <2>1. \A id \in A \ {m} : f[id] \in Int /\ g[id] = f[id]
        BY <1>7, <1>13, <1>14, <1>15
    <2>2. IsFiniteSet(A \ {m})
        BY <1>12
    <2> QED
        BY <2>1, <2>2, SumSame
<1>18. SumFunctionOnSet(g, A \ {m}) <= SumFunctionOnSet(g, B)
    <2>1. \A id \in B : g[id] \in Nat
        BY <1>13, <1>14, <1>15
    <2>2. IsFiniteSet(B) /\ A \ {m} \in SUBSET B
        BY <1>12
    <2> QED
        BY <2>1, <2>2, SumOfMore
<1>19. SumFunctionOnSet(f, A \ {m}) \in Nat /\ SumFunctionOnSet(g, B) \in Nat
    BY <1>12, <1>13, <1>14, <1>15, SumIsNat
<1>20. order.leaves_quantity <= SumFunctionOnSet(f, A)
    BY <1>3, <1>11 DEF CanBeFilled
<1>21. order.leaves_quantity \in Int /\ f[m] = q /\ q \in Nat
    BY <1>3, <1>5, <1>13 DEF Order
<1>22. order'.leaves_quantity <= SumFunctionOnSet(g, B)
    BY <1>4, <1>16, <1>17, <1>18, <1>19, <1>20, <1>21
<1> QED
    BY <1>11, <1>22 DEF CanBeFilled

\* An offer comes with nothing filled.
LEMMA SubmitOrderKeepsFokInv ==
    ASSUME IInv, FokInv, NEW o \in Offers, SubmitOrder(o)
    PROVE  FokInv'
<1>1. /\ StateTypes /\ CallInv /\ phase = "idle"
      /\ UNCHANGED <<book, lookup>>
    BY DEF IInv, SubmitOrder, RejectInvalid, AcceptOrder
<1>2. objects \in [Ids -> Order \cup {None}]
    BY <1>1 DEF StateTypes
<1>3. o \in Order /\ o.filled_quantity = 0 /\ o.leaves_quantity = o.quantity
    BY BookAssumption DEF NewOrder
<1>4. CASE RejectInvalid(o)
    <2>1. objects' = [objects EXCEPT ![o.order_id] = o] /\ phase' = "idle"
        BY <1>1, <1>4 DEF RejectInvalid
    <2>2. FokAllOrNothing'
        BY <1>2, <1>3, <2>1 DEF FokInv, FokAllOrNothing
    <2> QED
        BY <1>1, <2>1, <2>2 DEF FokInv
<1>5. CASE AcceptOrder(o)
    <2>1. /\ order' = [o EXCEPT !.status = "ACTIVE"] /\ objects' = objects
          /\ phase' = IF o.type = "FOK" THEN "fok" ELSE "match"
        BY <1>5 DEF AcceptOrder
    <2>2. /\ order'.type = o.type /\ order'.filled_quantity = 0
          /\ order'.leaves_quantity = order'.quantity
        BY <1>3, <2>1 DEF Order
    <2>3. FokAllOrNothing'
        BY <2>1 DEF FokInv, FokAllOrNothing
    <2> QED
        BY <1>1, <2>1, <2>2, <2>3 DEF FokInv
<1> QED
    BY <1>4, <1>5 DEF SubmitOrder

\* The scan finds the order a place to be filled, or turns it away.
LEMMA CheckFokKeepsFokInv ==
    ASSUME IInv, FokInv, CheckFok
    PROVE  FokInv'
<1>1. /\ phase = "fok" /\ UNCHANGED <<book, lookup, objects>>
      /\ BookInv(book, lookup) /\ CallInv /\ StateTypes
    BY DEF IInv, CheckFok
<1>2. order \in Order /\ order.filled_quantity = 0 /\ order.leaves_quantity = order.quantity
    BY <1>1 DEF FokInv, CallInv, StateTypes
<1>3. FokAllOrNothing' /\ IsFiniteSet(DOMAIN lookup')
    BY <1>1 DEF FokInv, FokAllOrNothing
<1>4. CASE FokAvailable(order) >= order.quantity
    <2>1. phase' = "match" /\ order' = order
        BY <1>4 DEF CheckFok
    <2>2. PICK n : n = SumFunctionOnSet(LeftOf, FokOffered(order))
        OBVIOUS
    <2>3. n = FokAvailable(order)
        BY <1>1, <1>2, <2>2, FokAvailableOnRecord DEF FokInv
    <2>4. order.leaves_quantity <= n
        BY <1>2, <1>4, <2>3
    <2>5. LeftOf' = LeftOf /\ FokOffered(order)' = FokOffered(order)
        BY <1>1, <2>1 DEF LeftOf, FokOffered, FokLevels, Rec
    <2>6. CanBeFilled'
        BY <2>1, <2>2, <2>4, <2>5 DEF CanBeFilled
    <2> QED
        BY <1>3, <2>1, <2>6 DEF FokInv
<1>5. CASE ~(FokAvailable(order) >= order.quantity)
    <2>1. phase' = "reject" /\ order' = [order EXCEPT !.status = "REJECTED"]
        BY <1>5 DEF CheckFok
    <2>2. order'.filled_quantity = 0
        BY <1>2, <2>1 DEF Order
    <2> QED
        BY <1>3, <2>1, <2>2 DEF FokInv
<1> QED
    BY <1>4, <1>5

\* A round takes from the offer what it gives to the order.
LEMMA MatchStepKeepsFokInv ==
    ASSUME IInv, FokInv, BookInv(book', lookup'), MatchStep
    PROVE  FokInv'
<1>1. phase' = "match" /\ objects' = objects
    BY DEF MatchStep
<1>2. PICK m \in DOMAIN lookup : \E q \in Nat : Round(m, q)
    BY MatchStepIsRound
<1>3. PICK q \in Nat : Round(m, q)
    BY <1>2
<1>4. order'.type = order.type
    <2>1. order \in Order /\ order' = Fill(order, q)
        BY <1>3 DEF Round
    <2> QED
        BY <2>1, FillProperties
<1>5. IsFiniteSet(DOMAIN lookup')
    <2>1. DOMAIN lookup' \subseteq DOMAIN lookup
        BY <1>3 DEF Round
    <2> QED
        BY <2>1, FS_Subset DEF FokInv
<1>6. order'.type = "FOK" => CanBeFilled'
    <2> SUFFICES ASSUME order.type = "FOK" PROVE CanBeFilled'
        BY <1>4
    <2>1. CanBeFilled /\ IsFiniteSet(DOMAIN lookup)
        BY DEF FokInv, MatchStep
    <2> QED
        BY <2>1, RoundKeepsOffer
<1>7. FokAllOrNothing'
    BY <1>1 DEF FokInv, FokAllOrNothing
<1> QED
    BY <1>1, <1>5, <1>6, <1>7 DEF FokInv

\* As long as something is on offer within the limit, matching goes on.
LEMMA MatchedOrFilled ==
    ASSUME IInv, FokInv, phase = "match", ~KeepsMatching, order.type = "FOK"
    PROVE  IsFullyFilled(order)
<1>1. order \in Order /\ Sound(order) /\ BookInv(book, lookup)
    BY DEF IInv, CallInv, StateTypes
<1> DEFINE side == Opposite(order.side)
           levels == book[side]
<1>2. side \in Sides
    BY <1>1 DEF Opposite, Sides, Order
<1> SUFFICES ASSUME ~IsFullyFilled(order) PROVE FALSE
    OBVIOUS
<1>3. order.leaves_quantity \in Int /\ order.leaves_quantity > 0
    BY <1>1, SomethingLeft DEF Order
<1>4. FokOffered(order) # {}
    <2> SUFFICES ASSUME FokOffered(order) = {} PROVE FALSE
        OBVIOUS
    <2>1. SumFunctionOnSet(LeftOf, FokOffered(order)) = 0
        BY SumOfEmpty
    <2>2. order.leaves_quantity <= SumFunctionOnSet(LeftOf, FokOffered(order))
        BY DEF FokInv, CanBeFilled
    <2> QED
        BY <1>3, <2>1, <2>2
<1>5. PICK p : p \in FokLevels(order)
    BY <1>4 DEF FokOffered
<1>6. p \in DOMAIN levels /\ \A r \in DOMAIN levels : r <= p => WithinLimit(order, r)
    BY <1>5 DEF FokLevels
<1>7. DOMAIN levels \subseteq Nat
    BY <1>1, <1>2, LevelProperties DEF BookInv
<1>8. BestLevel(levels) \in DOMAIN levels /\ BestLevel(levels) <= p
    BY <1>6, <1>7, MinProperties DEF BestLevel
<1>9. KeepsMatching
    BY <1>6, <1>8 DEF KeepsMatching, CanMatch
<1> QED
    BY <1>9

\* The order goes back to its caller filled, or as it came.
LEMMA ReturnKeepsFokInv ==
    ASSUME IInv, FokInv, RestInBook \/ LeaveBook
    PROVE  FokInv'
<1>1. /\ StateTypes /\ CallInv /\ phase # "idle" /\ MatchingDone
      /\ objects' = [objects EXCEPT ![order.order_id] = order]
      /\ phase' = "idle"
    BY DEF IInv, RestInBook, LeaveBook, ReturnToCaller, MatchingDone
<1>2. order \in Order /\ objects \in [Ids -> Order \cup {None}]
    BY <1>1 DEF CallInv, StateTypes
<1>3. order.type = "FOK" => IsFullyFilled(order) \/ order.filled_quantity = 0
    <2>1. CASE phase = "reject"
        BY <2>1 DEF FokInv
    <2>2. CASE phase = "match" /\ ~KeepsMatching
        BY <2>2, MatchedOrFilled
    <2> QED
        BY <1>1, <2>1, <2>2 DEF MatchingDone
<1>4. FokAllOrNothing'
    <2>1. order.order_id \in Ids
        BY <1>2 DEF Order
    <2>2. \A id \in Ids : objects'[id] = IF id = order.order_id THEN order ELSE objects[id]
        BY <1>1, <1>2, <2>1
    <2> QED
        BY <1>3, <2>2 DEF FokInv, FokAllOrNothing
<1>5. IsFiniteSet(DOMAIN lookup')
    <2>1. IsFiniteSet(DOMAIN lookup)
        BY DEF FokInv
    <2>2. CASE RestInBook
        <3>1. DOMAIN lookup' = DOMAIN lookup \cup {order.order_id}
            BY <2>2, RestInBookOnRecord
        <3> QED
            BY <2>1, <3>1, FS_AddElement
    <2>3. CASE LeaveBook
        BY <2>1, <2>3 DEF LeaveBook
    <2> QED
        BY <2>2, <2>3
<1> QED
    BY <1>1, <1>4, <1>5 DEF FokInv

\* Other calls come in between two orders and leave the objects alone.
LEMMA OtherCallsKeepFokInv ==
    ASSUME IInv, FokInv, OtherCalls
    PROVE  FokInv'
<1>1. CASE \E id \in Ids : CancelOrder(id)
    <2>1. PICK id \in Ids : CancelOrder(id)
        BY <1>1
    <2>2. phase' = "idle"
        BY <2>1 DEF CancelOrder, vars
    <2>3. objects' = objects /\ DOMAIN lookup' \subseteq DOMAIN lookup
        BY <2>1, CancelOrderOnRecord
    <2>4. IsFiniteSet(DOMAIN lookup')
        BY <2>3, FS_Subset DEF FokInv
    <2> QED
        BY <2>2, <2>3, <2>4 DEF FokInv, FokAllOrNothing
<1>2. CASE \E id \in Ids, quantity \in NewQuantities : ModifyOrder(id, quantity)
    <2>1. PICK id \in Ids, quantity \in NewQuantities : ModifyOrder(id, quantity)
        BY <1>2
    <2>2. phase' = "idle" /\ objects' = objects /\ lookup' = lookup
        BY <2>1 DEF ModifyOrder
    <2> QED
        BY <2>2 DEF FokInv, FokAllOrNothing
<1> QED
    BY <1>1, <1>2 DEF OtherCalls

\* Every step keeps it.
LEMMA NextFokInv == IInv /\ FokInv /\ [FreshNext]_vars => FokInv'
<1> SUFFICES ASSUME IInv, FokInv, [FreshNext]_vars PROVE FokInv'
    OBVIOUS
<1>1. CASE \E o \in Offers : objects[o.order_id] = None /\ SubmitOrder(o)
    BY <1>1, SubmitOrderKeepsFokInv
<1>2. CASE Continue
    <2>1. BookInv(book', lookup')
        BY NextIInv DEF IInv
    <2> QED
        BY <1>2, <2>1, CheckFokKeepsFokInv, MatchStepKeepsFokInv, ReturnKeepsFokInv DEF Continue
<1>3. CASE OtherCalls
    BY <1>3, OtherCallsKeepFokInv
<1>4. CASE UNCHANGED vars
    <2>1. UNCHANGED <<book, lookup, phase, order, objects>>
        BY <1>4 DEF vars
    <2> QED
        BY <2>1 DEF FokInv, FokAllOrNothing, CanBeFilled, LeftOf, FokOffered, FokLevels, Rec
<1> QED
    BY <1>1, <1>2, <1>3, <1>4 DEF FreshNext

\* No scan has been made at the start.
LEMMA InitFokInv == Init => FokInv
<1> SUFFICES ASSUME Init PROVE FokInv
    OBVIOUS
<1>1. IsFiniteSet(DOMAIN lookup)
    BY FS_EmptySet DEF Init
<1>2. phase = "idle" /\ FokAllOrNothing
    BY DEF Init, FokAllOrNothing
<1> QED
    BY <1>1, <1>2 DEF FokInv

\* It holds in every state.
LEMMA FokInvariant == FreshRules => [](IInv /\ FokInv)
BY InitFokInv, NextFokInv, FreshInvariant, PTL DEF FreshRules

\* A fill-or-kill order fills entirely or does not trade at all: what the scan of
\* try_match_fok_order counted, level by level, is there for the loop that comes
\* after it, and every round takes no more from it than it gives to the order.
THEOREM FillOrKillIsAllOrNothing == FreshRules => []FokAllOrNothing
<1>1. FokInv => FokAllOrNothing
    BY DEF FokInv
<1> QED
    BY <1>1, FokInvariant, PTL

-------------------------------------------------------------------------------
(* Depth *)

\* The i-th price of a side has i - 1 prices before it.
LEMMA PricesFromBestAreSorted ==
    ASSUME GoodBook(book), NEW side \in Sides, IsFiniteSet(DOMAIN book[side]),
           NEW i \in 1 .. Cardinality(DOMAIN book[side])
    PROVE  /\ PricesFromBest(side)[i] \in DOMAIN book[side]
           /\ Cardinality(BetterThan(side, PricesFromBest(side)[i])) = i - 1
<1>1. PICK D : D = DOMAIN book[side]
    OBVIOUS
<1>2. D \subseteq Nat /\ IsFiniteSet(D) /\ i \in 1 .. Cardinality(D) /\ Cardinality(D) \in Nat
    BY <1>1, LevelProperties, FS_CardinalityType
<1>3. PICK b : b = [p \in D |-> BetterThan(side, p)]
    OBVIOUS
<1>4. /\ \A p \in D : b[p] \subseteq D
      /\ \A p, q \in D : q \in b[p] <=> IF side = "BUY" THEN q > p ELSE q < p
    BY <1>1, <1>3 DEF BetterThan
<1>5. \A p \in D : b[p] \subseteq D /\ p \notin b[p]
    BY <1>2, <1>4
<1>6. \A p, q \in D : p # q => q \in b[p] \/ p \in b[q]
    BY <1>2, <1>4
<1>7. \A p, q \in D : q \in b[p] => b[q] \subseteq b[p]
    <2> SUFFICES ASSUME NEW p \in D, NEW q \in D, q \in b[p], NEW r \in b[q] PROVE r \in b[p]
        OBVIOUS
    <2>1. r \in D
        BY <1>4
    <2> QED
        BY <1>2, <1>4, <2>1
<1>8. PICK k : k = i - 1
    OBVIOUS
<1>9. \E p \in D : Cardinality(b[p]) = k
    <2>1. k \in 0 .. Cardinality(D) - 1
        BY <1>2, <1>8
    <2>2. IsFiniteSet(D)
        BY <1>2
    <2> QED
        BY <1>5, <1>6, <1>7, <2>1, <2>2, EveryRankIsTaken
<1>10. \E p \in DOMAIN book[side] : Cardinality(BetterThan(side, p)) = i - 1
    BY <1>1, <1>3, <1>8, <1>9
<1>11. PricesFromBest(side)[i] =
            CHOOSE p \in DOMAIN book[side] : Cardinality(BetterThan(side, p)) = i - 1
    BY DEF PricesFromBest
<1> QED
    BY <1>10, <1>11

\* The first of them is the best price.
LEMMA BestPriceIsFirst ==
    ASSUME GoodBook(book), NEW side \in Sides, IsFiniteSet(DOMAIN book[side]),
           DOMAIN book[side] # {}
    PROVE  PricesFromBest(side)[1] = IF side = "BUY" THEN BestBid ELSE BestAsk
<1>1. PICK D : D = DOMAIN book[side]
    OBVIOUS
<1>2. PICK p : p = PricesFromBest(side)[1]
    OBVIOUS
<1>3. D \subseteq Nat /\ D # {} /\ IsFiniteSet(D) /\ Cardinality(D) \in Nat
    BY <1>1, LevelProperties, FS_CardinalityType
<1>4. 1 \in 1 .. Cardinality(D)
    BY <1>3, FS_EmptySet
<1>5. p \in D /\ Cardinality(BetterThan(side, p)) = 1 - 1
    BY <1>1, <1>2, <1>4, PricesFromBestAreSorted
<1>6. BetterThan(side, p) = {}
    <2>1. BetterThan(side, p) \in SUBSET D
        BY <1>1 DEF BetterThan
    <2>2. IsFiniteSet(BetterThan(side, p))
        BY <1>3, <2>1, FS_Subset
    <2> QED
        BY <1>5, <2>2, FS_EmptySet
<1>7. \A q \in D : IF side = "BUY" THEN q <= p ELSE p <= q
    BY <1>1, <1>3, <1>5, <1>6 DEF BetterThan
<1>8. CASE side = "BUY"
    <2>1. \A q \in D : p >= q
        BY <1>3, <1>5, <1>7, <1>8
    <2>2. Max(D) \in D /\ \A q \in D : q <= Max(D)
        <3>1. p \in Nat /\ \A q \in D : q <= p
            BY <1>3, <1>5, <2>1
        <3> QED
            BY <1>3, <3>1, MaxProperties
    <2>3. p >= Max(D) /\ p <= Max(D) /\ Max(D) \in Nat /\ p \in Nat
        BY <1>3, <1>5, <2>1, <2>2
    <2>4. Max(D) = p
        BY <2>3
    <2> QED
        BY <1>1, <1>2, <1>3, <1>8, <2>4 DEF BestBid
<1>9. CASE side # "BUY"
    <2>1. \A q \in D : p <= q
        BY <1>3, <1>5, <1>7, <1>9
    <2>2. Min(D) \in D /\ Min(D) <= p
        BY <1>3, <1>5, MinProperties
    <2>3. p <= Min(D) /\ Min(D) \in Nat /\ p \in Nat
        BY <1>3, <1>5, <2>1, <2>2
    <2>4. Min(D) = p
        BY <2>2, <2>3
    <2>5. side = "SELL"
        BY <1>9 DEF Sides
    <2> QED
        BY <1>1, <1>2, <1>3, <1>9, <2>4, <2>5 DEF BestAsk
<1> QED
    BY <1>8, <1>9

\* What is shown for the i-th price is that price and what is left at it.
LEMMA DepthLevelsProperties ==
    ASSUME GoodBook(book), NEW side \in Sides, IsFiniteSet(DOMAIN book[side]), NEW n \in Nat,
           NEW i \in DOMAIN DepthLevels(side, n)
    PROVE  \E p \in DOMAIN book[side] :
                /\ p = PricesFromBest(side)[i]
                /\ DepthLevels(side, n)[i] = <<p, LeavesOf(book[side][p])>>
<1>1. PICK prices : prices = PricesFromBest(side)
    OBVIOUS
<1>2. PICK size \in Nat : size = Cardinality(DOMAIN book[side])
    BY FS_CardinalityType
<1>3. Len(prices) = size
    BY <1>1, <1>2 DEF PricesFromBest
<1>4. DepthLevels(side, n) =
        [k \in 1 .. Smaller(n, Len(prices)) |-> <<prices[k], LeavesOf(book[side][prices[k]])>>]
    BY <1>1 DEF DepthLevels
<1>5. i \in 1 .. Smaller(n, size)
    BY <1>3, <1>4
<1>6. i \in 1 .. size
    BY <1>5 DEF Smaller
<1>7. prices[i] \in DOMAIN book[side]
    BY <1>1, <1>2, <1>6, PricesFromBestAreSorted
<1> QED
    BY <1>1, <1>3, <1>4, <1>5, <1>7

\* The orders that rest at a price are those on record there.
LEMMA RestingAtIsRecorded ==
    ASSUME BookInv(book, lookup), NEW side \in Sides, NEW p
    PROVE  RestingAt(side, p) = RecordedAt(side, p)
<1>1. RestingIds = DOMAIN lookup
    BY RestingOnRecord DEF BookInv
<1>2. \A id \in DOMAIN lookup : lookup[id].side = Rec(id).side /\ lookup[id].price_level = Rec(id).price
    BY RecordedOrder DEF Rec
<1> QED
    BY <1>1, <1>2 DEF RestingAt, RecordedAt

\* What an order on record was submitted with, less what was traded of it, is
\* what is left of it.
LEMMA LeftIsUntraded ==
    ASSUME IInv, Booked, AccountInv, NEW id \in DOMAIN lookup
    PROVE  objects[id].quantity - executed[id] = Rec(id).leaves_quantity
<1>1. Rec(id) \in Order /\ Sound(Rec(id))
    BY RecordedOrder, RecordIsSound DEF Rec, IInv
<1>2. Rec(id).quantity = objects[id].quantity /\ Rec(id).filled_quantity = executed[id]
    BY DEF AccountInv, Booked
<1>3. /\ Rec(id).quantity \in Int /\ Rec(id).filled_quantity \in Int /\ Rec(id).leaves_quantity \in Int
      /\ Rec(id).filled_quantity + Rec(id).leaves_quantity = Rec(id).quantity
    BY <1>1 DEF Order, Sound
<1> QED
    BY <1>2, <1>3

\* Where modify_order is not used, a level that is published shows what its
\* orders were submitted with, less what was traded of them, and the first level
\* is at the best price.
THEOREM PublishedDepthIsTrue ==
    (NewQuantities = {}) => (FreshRules => []DepthAgreesWithTape)
<1> SUFFICES ASSUME NewQuantities = {} PROVE FreshRules => []DepthAgreesWithTape
    OBVIOUS
<1>1. IInv /\ Booked /\ AccountInv /\ FokInv => DepthAgreesWithTape
    <2> SUFFICES ASSUME IInv, Booked, AccountInv, FokInv, NEW side \in Sides
                 PROVE  /\ \A i \in DOMAIN DepthLevels(side, 2) :
                            DepthLevels(side, 2)[i][2] =
                                SumFunction([id \in RestingAt(side, DepthLevels(side, 2)[i][1]) |->
                                                objects[id].quantity - executed[id]])
                        /\ DepthLevels(side, 2) # <<>> =>
                            DepthLevels(side, 2)[1][1] = IF side = "BUY" THEN BestBid ELSE BestAsk
        BY DEF DepthAgreesWithTape
    <2>1. BookInv(book, lookup) /\ GoodBook(book)
        BY DEF IInv, BookInv
    <2>2. IsFiniteSet(DOMAIN book[side])
        BY <2>1, LevelsAreFinite DEF FokInv
    <2>3. ASSUME NEW i \in DOMAIN DepthLevels(side, 2)
          PROVE  DepthLevels(side, 2)[i][2] =
                    SumFunction([id \in RestingAt(side, DepthLevels(side, 2)[i][1]) |->
                                    objects[id].quantity - executed[id]])
        <3>1. PICK p \in DOMAIN book[side] :
                    DepthLevels(side, 2)[i] = <<p, LeavesOf(book[side][p])>>
            BY <2>1, <2>2, DepthLevelsProperties
        <3>2. DepthLevels(side, 2)[i][1] = p /\ DepthLevels(side, 2)[i][2] = LeavesOf(book[side][p])
            BY <3>1
        <3>3. PICK g : g = [id \in RecordedAt(side, p) |-> objects[id].quantity - executed[id]]
            OBVIOUS
        <3>4. \A id \in RecordedAt(side, p) : g[id] = Rec(id).leaves_quantity
            BY <3>3, LeftIsUntraded DEF RecordedAt
        <3>5. LeavesOf(book[side][p]) = SumFunctionOnSet(g, RecordedAt(side, p))
            BY <2>1, <3>4, LeavesOnRecord
        <3>6. SumFunction(g) = SumFunctionOnSet(g, RecordedAt(side, p))
            BY <3>3 DEF SumFunction
        <3>7. RestingAt(side, p) = RecordedAt(side, p)
            BY <2>1, RestingAtIsRecorded
        <3> QED
            BY <3>2, <3>3, <3>5, <3>6, <3>7
    <2>4. ASSUME DepthLevels(side, 2) # <<>>
          PROVE  DepthLevels(side, 2)[1][1] = IF side = "BUY" THEN BestBid ELSE BestAsk
        <3>1. DOMAIN book[side] # {} /\ 1 \in DOMAIN DepthLevels(side, 2)
            <4>1. PICK size \in Nat : size = Cardinality(DOMAIN book[side])
                BY <2>2, FS_CardinalityType
            <4>2. Len(PricesFromBest(side)) = size
                BY <4>1 DEF PricesFromBest
            <4>3. DOMAIN DepthLevels(side, 2) = 1 .. Smaller(2, size)
                BY <4>2 DEF DepthLevels
            <4>4. size # 0
                <5> SUFFICES ASSUME size = 0 PROVE FALSE
                    OBVIOUS
                <5>1. DOMAIN DepthLevels(side, 2) = {}
                    BY <4>3 DEF Smaller
                <5> QED
                    BY <2>4, <5>1 DEF DepthLevels
            <4> QED
                <5>1. Smaller(2, size) \in Nat /\ Smaller(2, size) >= 1
                    BY <4>4 DEF Smaller
                <5>2. DOMAIN book[side] # {}
                    BY <4>1, <4>4, FS_EmptySet
                <5> QED
                    BY <4>3, <5>1, <5>2
        <3>2. DepthLevels(side, 2)[1][1] = PricesFromBest(side)[1]
            BY <2>1, <2>2, <3>1, DepthLevelsProperties
        <3> QED
            BY <2>1, <2>2, <3>1, <3>2, BestPriceIsFirst
    <2> QED
        BY <2>3, <2>4
<1> QED
    BY <1>1, FokInvariant, BookedInvariant, AccountInvariant, PTL
===============================================================================
