---------------------------- MODULE AdvancedProofs ----------------------------
(***************************************************************************)
(* The walk of check_triggers, which erases from the vector it walks over,  *)
(* for vectors of any length, any number of symbols and any prices: no      *)
(* order that is due is passed over, and orders that are due at the same    *)
(* check reach the engine in the order in which they were added.            *)
(***************************************************************************)
EXTENDS AdvancedOrders, QueueLemmas

-------------------------------------------------------------------------------
(* What holds of the pending orders at every moment *)

\* x was added before y.
Earlier(ad, x, y) ==
    \E k, l \in DOMAIN ad : k < l /\ ad[k].order_id = x /\ ad[l].order_id = y

\* The ids of a sequence of stops.
IdsOf(ad) == {ad[k].order_id : k \in DOMAIN ad}

\* No id is added twice.
AddedOnce(ad) == \A k, l \in DOMAIN ad : ad[k].order_id = ad[l].order_id => k = l

\* What is pending was added.
Known(ao, ad) == \A s \in Symbols : \A i \in DOMAIN ao[s] : ao[s][i].order_id \in IdsOf(ad)

\* No id is pending for two symbols.
Apart(ao) ==
    \A s, r \in Symbols : s # r =>
        \A i \in DOMAIN ao[s], j \in DOMAIN ao[r] : ao[s][i].order_id # ao[r][j].order_id

\* The vectors are in the order of adding.
InOrder(ao, ad) ==
    \A s \in Symbols : \A i, j \in DOMAIN ao[s] :
        i < j => Earlier(ad, ao[s][i].order_id, ao[s][j].order_id)

\* A stop whose trigger moves.
Trails(o) == o.advanced_type = "TRAILING_STOP"

\* What is pending was not due at the prices it was pending for.
Clear(ao, sn) ==
    \A s \in Symbols : \A i \in DOMAIN ao[s] : ~Trails(ao[s][i]) =>
        \A p \in sn[ao[s][i].order_id] : ~ShouldTrigger(ao[s][i], p)

\* The running check: what it has passed is not due, and what it has submitted
\* was added before one another and before what is still ahead.
WalkInv ==
    /\ check = None => position = 1
    /\ check # None => \A i \in DOMAIN advanced_orders[check.symbol] :
        LET o == advanced_orders[check.symbol][i] IN
            IF i < position THEN Trails(o) \/ ~ShouldTrigger(o, check.price)
            ELSE \A j \in batch + 1 .. Len(submitted) :
                    Earlier(added, submitted[j].order_id, o.order_id)
    /\ \A i, j \in batch + 1 .. Len(submitted) :
        i < j => Earlier(added, submitted[i].order_id, submitted[j].order_id)

\* What check_triggers leaves true between its steps.
StopInv ==
    /\ StopsTypeOK
    /\ AddedOnce(added)
    /\ \A id \in Ids : seen[id] # {} => id \in IdsOf(added)
    /\ Known(advanced_orders, added)
    /\ Apart(advanced_orders)
    /\ InOrder(advanced_orders, added)
    /\ Clear(advanced_orders, seen)
    /\ WalkInv

-------------------------------------------------------------------------------
(* Vectors that lose an order, or have one changed *)

\* The same order, but for the trigger of a trailing stop.
Like(o2, o) ==
    /\ o2.order_id = o.order_id
    /\ o2.advanced_type = o.advanced_type
    /\ ~Trails(o) => o2 = o

\* What is pending in ao2 is pending in ao, in the same order.
Within(ao2, ao) ==
    \A s \in Symbols : \A i, j \in DOMAIN ao2[s] :
        \E k, l \in DOMAIN ao[s] :
            /\ Like(ao2[s][i], ao[s][k]) /\ Like(ao2[s][j], ao[s][l])
            /\ i < j => k < l

\* That keeps what holds at every moment.
LEMMA WithinKeeps ==
    ASSUME NEW ao, NEW ao2, Within(ao2, ao), NEW ad, NEW sn,
           Known(ao, ad), Apart(ao), InOrder(ao, ad), Clear(ao, sn)
    PROVE  Known(ao2, ad) /\ Apart(ao2) /\ InOrder(ao2, ad) /\ Clear(ao2, sn)
<1>1. ASSUME NEW s \in Symbols, NEW i \in DOMAIN ao2[s]
      PROVE  \E k \in DOMAIN ao[s] : Like(ao2[s][i], ao[s][k])
    BY DEF Within
<1>2. Known(ao2, ad)
    BY <1>1 DEF Known, Like
<1>3. Apart(ao2)
    <2> SUFFICES ASSUME NEW s \in Symbols, NEW r \in Symbols, s # r,
                        NEW i \in DOMAIN ao2[s], NEW j \in DOMAIN ao2[r]
                 PROVE  ao2[s][i].order_id # ao2[r][j].order_id
        BY DEF Apart
    <2>1. PICK k \in DOMAIN ao[s] : Like(ao2[s][i], ao[s][k])
        BY <1>1
    <2>2. PICK l \in DOMAIN ao[r] : Like(ao2[r][j], ao[r][l])
        BY <1>1
    <2> QED
        BY <2>1, <2>2 DEF Apart, Like
<1>4. InOrder(ao2, ad)
    <2> SUFFICES ASSUME NEW s \in Symbols, NEW i \in DOMAIN ao2[s], NEW j \in DOMAIN ao2[s], i < j
                 PROVE  Earlier(ad, ao2[s][i].order_id, ao2[s][j].order_id)
        BY DEF InOrder
    <2>1. PICK k \in DOMAIN ao[s], l \in DOMAIN ao[s] :
            /\ Like(ao2[s][i], ao[s][k]) /\ Like(ao2[s][j], ao[s][l])
            /\ k < l
        BY DEF Within
    <2> QED
        BY <2>1 DEF InOrder, Like
<1>5. Clear(ao2, sn)
    <2> SUFFICES ASSUME NEW s \in Symbols, NEW i \in DOMAIN ao2[s], ~Trails(ao2[s][i]),
                        NEW p \in sn[ao2[s][i].order_id]
                 PROVE  ~ShouldTrigger(ao2[s][i], p)
        BY DEF Clear
    <2>1. PICK k \in DOMAIN ao[s] : Like(ao2[s][i], ao[s][k])
        BY <1>1
    <2>2. ao2[s][i] = ao[s][k]
        BY <2>1 DEF Like, Trails
    <2> QED
        BY <2>2 DEF Clear
<1> QED
    BY <1>2, <1>3, <1>4, <1>5

\* Where an element of a vector was before the one at k was erased.
Was(i, k) == IF i < k THEN i ELSE i + 1

\* What erase leaves of a vector: the elements behind move up by one.
LEMMA EraseProperties ==
    ASSUME NEW q \in Seq(AdvancedOrder), NEW k \in 1 .. Len(q)
    PROVE  /\ RemoveAt(q, k) \in Seq(AdvancedOrder)
           /\ Len(RemoveAt(q, k)) = Len(q) - 1
           /\ DOMAIN RemoveAt(q, k) = 1 .. Len(q) - 1
           /\ \A i \in 1 .. Len(q) - 1 :
                Was(i, k) \in 1 .. Len(q) /\ Was(i, k) # k /\ RemoveAt(q, k)[i] = q[Was(i, k)]
           /\ \A i, j \in 1 .. Len(q) - 1 : i < j => Was(i, k) < Was(j, k)
<1> DEFINE n == Len(q)
           r == RemoveAt(q, k)
<1>1. /\ r \in Seq(AdvancedOrder)
      /\ Len(r) = n - 1
      /\ \A i \in 1 .. n - 1 : r[i] = IF i < k THEN q[i] ELSE q[i + 1]
    BY RemoveAtProperties
<1>2. n \in Nat /\ k \in Nat
    BY LenProperties
<1>3. DOMAIN r = 1 .. n - 1
    BY <1>1, LenProperties
<1> HIDE DEF n, r
<1>4. \A i \in 1 .. n - 1 : Was(i, k) \in 1 .. n /\ Was(i, k) # k /\ r[i] = q[Was(i, k)]
    BY <1>1, <1>2 DEF Was, n
<1>5. \A i, j \in 1 .. n - 1 : i < j => Was(i, k) < Was(j, k)
    BY <1>2 DEF Was
<1> QED
    BY <1>1, <1>3, <1>4, <1>5 DEF n, r

\* A vector with one order erased, among the others.
LEMMA ErasingIsWithin ==
    ASSUME NEW ao \in [Symbols -> Seq(AdvancedOrder)], NEW s \in Symbols,
           NEW k \in 1 .. Len(ao[s]), NEW ao2, ao2 = [ao EXCEPT ![s] = RemoveAt(@, k)]
    PROVE  Within(ao2, ao) /\ ao2 \in [Symbols -> Seq(AdvancedOrder)]
<1> DEFINE q == ao[s]
           r == RemoveAt(q, k)
<1>1. q \in Seq(AdvancedOrder) /\ DOMAIN q = 1 .. Len(q)
    BY LenProperties
<1>2. ao2[s] = r /\ \A x \in Symbols : x # s => ao2[x] = ao[x]
    OBVIOUS
<1>3. /\ r \in Seq(AdvancedOrder) /\ DOMAIN r = 1 .. Len(q) - 1
      /\ \A i \in DOMAIN r : Was(i, k) \in DOMAIN q /\ r[i] = q[Was(i, k)]
      /\ \A i, j \in DOMAIN r : i < j => Was(i, k) < Was(j, k)
    BY <1>1, EraseProperties
<1>4. ao2 \in [Symbols -> Seq(AdvancedOrder)]
    BY <1>3
<1> HIDE DEF r
<1>5. ASSUME NEW x \in Symbols, NEW i \in DOMAIN ao2[x], NEW j \in DOMAIN ao2[x]
      PROVE  \E l, m \in DOMAIN ao[x] :
                /\ Like(ao2[x][i], ao[x][l]) /\ Like(ao2[x][j], ao[x][m])
                /\ i < j => l < m
    <2>1. CASE x = s
        BY <1>2, <1>3, <2>1 DEF Like
    <2>2. CASE x # s
        BY <1>2, <2>2 DEF Like
    <2> QED
        BY <2>1, <2>2
<1> QED
    BY <1>4, <1>5 DEF Within

-------------------------------------------------------------------------------
(* Adding *)

\* Another addition changes nothing between the earlier ones, and comes after them.
LEMMA AdditionProperties ==
    ASSUME NEW ad \in Seq(AdvancedOrder), NEW o \in AdvancedOrder, o.order_id \notin IdsOf(ad),
           AddedOnce(ad)
    PROVE  /\ Append(ad, o) \in Seq(AdvancedOrder)
           /\ AddedOnce(Append(ad, o))
           /\ IdsOf(Append(ad, o)) = IdsOf(ad) \cup {o.order_id}
           /\ \A x \in IdsOf(ad) : Earlier(Append(ad, o), x, o.order_id)
           /\ \A x, y : Earlier(ad, x, y) => Earlier(Append(ad, o), x, y)
<1> DEFINE t == Append(ad, o)
           n == Len(ad)
<1>1. /\ n \in Nat
      /\ DOMAIN ad = 1 .. n
      /\ t \in Seq(AdvancedOrder)
      /\ Len(t) = n + 1
      /\ \A i \in 1 .. n : t[i] = ad[i]
      /\ t[n + 1] = o
    BY AppendProperties, LenProperties
<1>2. DOMAIN t = 1 .. n + 1
    BY <1>1, LenProperties
<1> HIDE DEF t, n
<1>3. /\ \A i \in DOMAIN ad : i \in DOMAIN t /\ i < n + 1 /\ t[i] = ad[i]
      /\ n + 1 \in DOMAIN t
      /\ \A i \in DOMAIN t : i \in DOMAIN ad \/ i = n + 1
    BY <1>1, <1>2
<1>4. AddedOnce(t)
    <2> SUFFICES ASSUME NEW k \in DOMAIN t, NEW l \in DOMAIN t, t[k].order_id = t[l].order_id
                 PROVE  k = l
        BY DEF AddedOnce
    <2>1. \A i \in DOMAIN ad : ad[i].order_id # o.order_id
        BY DEF IdsOf
    <2> QED
        BY <1>1, <1>3, <2>1 DEF AddedOnce
<1>5. IdsOf(t) = IdsOf(ad) \cup {o.order_id}
    <2>1. \A x \in IdsOf(t) : x \in IdsOf(ad) \cup {o.order_id}
        BY <1>1, <1>3 DEF IdsOf
    <2>2. \A x \in IdsOf(ad) \cup {o.order_id} : x \in IdsOf(t)
        BY <1>1, <1>3 DEF IdsOf
    <2> QED
        BY <2>1, <2>2
<1>6. ASSUME NEW x \in IdsOf(ad) PROVE Earlier(t, x, o.order_id)
    <2>1. PICK k \in DOMAIN ad : ad[k].order_id = x
        BY DEF IdsOf
    <2> QED
        BY <1>1, <1>3, <2>1 DEF Earlier
<1>7. ASSUME NEW x, NEW y, Earlier(ad, x, y) PROVE Earlier(t, x, y)
    <2>1. PICK k \in DOMAIN ad, l \in DOMAIN ad : k < l /\ ad[k].order_id = x /\ ad[l].order_id = y
        BY <1>7 DEF Earlier
    <2>2. k \in DOMAIN t /\ l \in DOMAIN t /\ t[k] = ad[k] /\ t[l] = ad[l]
        BY <1>3, <2>1
    <2> QED
        BY <2>1, <2>2 DEF Earlier
<1> QED
    BY <1>1, <1>4, <1>5, <1>6, <1>7 DEF t

\* What the functions that add an order make of their arguments.
LEMMA AdvancedOrderOfType ==
    ASSUME NEW id \in Ids, NEW r \in Requests
    PROVE  /\ AdvancedOrderOf(id, r) \in AdvancedOrder
           /\ AdvancedOrderOf(id, r).order_id = id
           /\ r.symbol \in Symbols
<1>1. r \in Request
    BY AdvancedAssumption
<1>2. OrderTypeOf(r) \in {"LIMIT", "MARKET"}
    BY DEF OrderTypeOf
<1>3. /\ r.symbol \in Symbols /\ r.advanced_type \in AdvancedOrderTypes /\ r.side \in Sides
      /\ r.quantity \in Int /\ r.trigger_price \in Prices /\ r.execution_price \in Prices
      /\ r.trailing_distance \in Nat
    BY <1>1 DEF Request
<1>4. r.trigger_price \in Int
    <2>1. r.trigger_price \in Prices
        BY <1>3
    <2>2. r.trigger_price \in Nat
        BY <2>1, TypesAssumption
    <2> QED
        BY <2>2
<1> QED
    BY <1>2, <1>3, <1>4 DEF AdvancedOrderOf, AdvancedOrder

\* A new stop goes to the end of its vector.
LEMMA AddOrderKeepsInv ==
    ASSUME StopInv, NEW id \in Ids, NEW r \in Requests, AddOrder(id, r)
    PROVE  StopInv'
<1> DEFINE o == AdvancedOrderOf(id, r)
           c == r.symbol
           q == advanced_orders[c]
<1>1. /\ check = None /\ id \notin IdsOf(added)
      /\ advanced_orders' = [advanced_orders EXCEPT ![c] = Append(q, o)]
      /\ added' = Append(added, o)
      /\ UNCHANGED <<check, position, submitted, batch, withdrawn, seen>>
    BY DEF AddOrder, AddedIds, IdsOf
<1>2. o \in AdvancedOrder /\ o.order_id = id /\ c \in Symbols
    BY AdvancedOrderOfType
<1>3. /\ StopsTypeOK /\ added \in Seq(AdvancedOrder)
      /\ advanced_orders \in [Symbols -> Seq(AdvancedOrder)]
      /\ submitted \in Seq(Order) /\ batch \in 0 .. Len(submitted)
    BY DEF StopInv, StopsTypeOK
<1> HIDE DEF o, c
<1>4. /\ added' \in Seq(AdvancedOrder) /\ AddedOnce(added')
      /\ IdsOf(added') = IdsOf(added) \cup {id}
      /\ \A x \in IdsOf(added) : Earlier(added', x, id)
      /\ \A x, y : Earlier(added, x, y) => Earlier(added', x, y)
    BY <1>1, <1>2, <1>3, AdditionProperties DEF StopInv
<1>5. q \in Seq(AdvancedOrder)
    BY <1>2, <1>3
<1>6. /\ Append(q, o) \in Seq(AdvancedOrder)
      /\ \A i \in DOMAIN Append(q, o) :
            \/ i \in DOMAIN q /\ Append(q, o)[i] = q[i]
            \/ /\ Append(q, o)[i] = o
               /\ \A j \in DOMAIN Append(q, o) : j \notin DOMAIN q => ~(i < j)
    <2> DEFINE n == Len(q)
               t == Append(q, o)
    <2>1. /\ n \in Nat /\ DOMAIN q = 1 .. n
          /\ t \in Seq(AdvancedOrder) /\ Len(t) = n + 1
          /\ \A i \in 1 .. n : t[i] = q[i]
          /\ t[n + 1] = o
        BY <1>2, <1>5, AppendProperties, LenProperties
    <2>2. DOMAIN t = 1 .. n + 1
        BY <2>1, LenProperties
    <2> HIDE DEF n, t
    <2>3. \A i \in 1 .. n + 1 :
            \/ i \in 1 .. n /\ t[i] = q[i]
            \/ t[i] = o /\ \A j \in 1 .. n + 1 : j \notin 1 .. n => ~(i < j)
        BY <2>1
    <2> QED
        BY <2>1, <2>2, <2>3 DEF t
<1> DEFINE t == Append(q, o)
<1>7. /\ advanced_orders'[c] = t
      /\ \A x \in Symbols : x # c => advanced_orders'[x] = advanced_orders[x]
      /\ advanced_orders' \in [Symbols -> Seq(AdvancedOrder)]
    BY <1>1, <1>2, <1>3, <1>6
<1> HIDE DEF t, q
<1>8. ASSUME NEW x \in Symbols, NEW i \in DOMAIN advanced_orders'[x]
      PROVE  \/ /\ i \in DOMAIN advanced_orders[x]
                /\ advanced_orders'[x][i] = advanced_orders[x][i]
             \/ /\ x = c /\ advanced_orders'[x][i] = o
                /\ \A j \in DOMAIN advanced_orders'[x] :
                    j \notin DOMAIN advanced_orders[x] => ~(i < j)
    <2>1. CASE x = c
        BY <1>6, <1>7, <2>1 DEF t, q
    <2>2. CASE x # c
        BY <1>7, <2>2
    <2> QED
        BY <2>1, <2>2
<1>9. Known(advanced_orders', added')
    BY <1>2, <1>4, <1>8 DEF StopInv, Known
<1>10. Apart(advanced_orders')
    <2> SUFFICES ASSUME NEW s \in Symbols, NEW x \in Symbols, s # x,
                        NEW i \in DOMAIN advanced_orders'[s], NEW j \in DOMAIN advanced_orders'[x]
                 PROVE  advanced_orders'[s][i].order_id # advanced_orders'[x][j].order_id
        BY DEF Apart
    <2>1. \A y \in Symbols : \A k \in DOMAIN advanced_orders[y] :
            advanced_orders[y][k].order_id # id
        BY <1>1 DEF StopInv, Known
    <2> QED
        BY <1>2, <1>8, <2>1 DEF StopInv, Apart
<1>11. InOrder(advanced_orders', added')
    <2> SUFFICES ASSUME NEW s \in Symbols, NEW i \in DOMAIN advanced_orders'[s],
                        NEW j \in DOMAIN advanced_orders'[s], i < j
                 PROVE  Earlier(added', advanced_orders'[s][i].order_id,
                                        advanced_orders'[s][j].order_id)
        BY DEF InOrder
    <2>1. CASE /\ j \in DOMAIN advanced_orders[s]
               /\ advanced_orders'[s][j] = advanced_orders[s][j]
               /\ i \in DOMAIN advanced_orders[s]
               /\ advanced_orders'[s][i] = advanced_orders[s][i]
        BY <1>4, <2>1 DEF StopInv, InOrder
    <2>2. CASE /\ advanced_orders'[s][j] = o
               /\ i \in DOMAIN advanced_orders[s]
               /\ advanced_orders'[s][i] = advanced_orders[s][i]
        BY <1>2, <1>4, <2>2 DEF StopInv, Known
    <2>3. i \in DOMAIN advanced_orders[s] /\ advanced_orders'[s][i] = advanced_orders[s][i]
        <3>1. s = c => DOMAIN q \subseteq DOMAIN advanced_orders[s]
            BY DEF q
        <3>2. ASSUME \/ i \notin DOMAIN advanced_orders[s]
                     \/ advanced_orders'[s][i] # advanced_orders[s][i]
              PROVE  FALSE
            <4>1. /\ s = c
                  /\ \A k \in DOMAIN advanced_orders'[s] :
                        k \notin DOMAIN advanced_orders[s] => ~(i < k)
                BY <1>8, <3>2
            <4>2. j \in DOMAIN q
                BY <4>1 DEF q
            <4> DEFINE n == Len(q)
            <4>3. n \in Nat /\ DOMAIN q = 1 .. n /\ DOMAIN t = 1 .. n + 1
                  /\ \A k \in 1 .. n : t[k] = q[k]
                BY <1>2, <1>5, AppendProperties, LenProperties DEF t
            <4>4. i \in DOMAIN t
                BY <1>7, <4>1
            <4> HIDE DEF n
            <4>5. i \in DOMAIN q /\ t[i] = q[i]
                BY <4>2, <4>3, <4>4
            <4> QED
                BY <1>7, <3>2, <4>1, <4>5 DEF q
        <3> QED
            BY <3>2
    <2> QED
        BY <1>8, <2>1, <2>2, <2>3
<1>12. Clear(advanced_orders', seen')
    <2> SUFFICES ASSUME NEW s \in Symbols, NEW i \in DOMAIN advanced_orders'[s],
                        ~Trails(advanced_orders'[s][i]),
                        NEW p \in seen[advanced_orders'[s][i].order_id]
                 PROVE  ~ShouldTrigger(advanced_orders'[s][i], p)
        BY <1>1 DEF Clear
    <2>1. seen[id] = {}
        BY <1>1 DEF StopInv
    <2> QED
        BY <1>2, <1>8, <2>1 DEF StopInv, Clear
<1>13. WalkInv'
    BY <1>1, <1>4 DEF StopInv, WalkInv
<1>14. StopsTypeOK'
    BY <1>1, <1>3, <1>4, <1>7 DEF StopsTypeOK
<1> QED
    BY <1>1, <1>4, <1>9, <1>10, <1>11, <1>12, <1>13, <1>14 DEF StopInv

\* cancel_advanced_order takes one order out of its vector.
LEMMA CancelAdvancedKeepsInv ==
    ASSUME StopInv, NEW id \in Ids, CancelAdvanced(id)
    PROVE  StopInv'
<1>1. PICK s \in Symbols :
        LET i == SelectInSeq(advanced_orders[s], LAMBDA o : o.order_id = id)
        IN  /\ i # 0
            /\ advanced_orders' = [advanced_orders EXCEPT ![s] = RemoveAt(@, i)]
    BY DEF CancelAdvanced
<1> DEFINE q == advanced_orders[s]
           hits == {i \in 1 .. Len(q) : q[i].order_id = id}
           k == SelectInSeq(q, LAMBDA o : o.order_id = id)
<1>2. /\ StopsTypeOK /\ advanced_orders \in [Symbols -> Seq(AdvancedOrder)]
      /\ check = None
      /\ UNCHANGED <<check, position, submitted, batch, added, seen>>
      /\ withdrawn' = withdrawn \cup {id}
    BY DEF StopInv, StopsTypeOK, CancelAdvanced
<1>3. k \in 1 .. Len(q)
    <2>1. hits \subseteq Nat
        OBVIOUS
    <2>2. k = IF hits # {} THEN Min(hits) ELSE 0
        BY DEF SelectInSeq
    <2>3. hits # {}
        BY <1>1, <2>2
    <2>4. Min(hits) \in hits
        BY <2>1, <2>3, MinProperties
    <2> QED
        BY <2>2, <2>3, <2>4
<1>4. advanced_orders' = [advanced_orders EXCEPT ![s] = RemoveAt(@, k)]
    BY <1>1
<1> HIDE DEF k
<1>5. /\ Within(advanced_orders', advanced_orders)
      /\ advanced_orders' \in [Symbols -> Seq(AdvancedOrder)]
    BY <1>2, <1>3, <1>4, ErasingIsWithin
<1>6. /\ Known(advanced_orders', added) /\ Apart(advanced_orders')
      /\ InOrder(advanced_orders', added) /\ Clear(advanced_orders', seen)
    BY <1>5, WithinKeeps DEF StopInv
<1>7. StopsTypeOK'
    BY <1>2, <1>5 DEF StopsTypeOK
<1> QED
    BY <1>2, <1>6, <1>7 DEF StopInv, WalkInv

-------------------------------------------------------------------------------
(* Checking *)

\* The walk starts with nothing behind it.
LEMMA StartCheckKeepsInv ==
    ASSUME StopInv, NEW s \in Symbols, NEW p \in MarketPrices, StartCheck(s, p)
    PROVE  StopInv'
<1>1. /\ check = None /\ check' = [symbol |-> s, price |-> p] /\ batch' = Len(submitted)
      /\ UNCHANGED <<advanced_orders, position, submitted, added, withdrawn, seen>>
    BY DEF StartCheck
<1>2. StopsTypeOK /\ position = 1 /\ submitted \in Seq(Order)
    BY <1>1 DEF StopInv, WalkInv, StopsTypeOK
<1>3. Len(submitted) \in Nat
    BY <1>2, LenProperties
<1>4. batch' + 1 .. Len(submitted') = {}
    BY <1>1, <1>3
<1>5. DOMAIN advanced_orders[s] = 1 .. Len(advanced_orders[s])
    BY <1>2, LenProperties DEF StopsTypeOK
<1>6. check' # None /\ check'.symbol = s /\ check' \in [symbol : Symbols, price : MarketPrices]
    BY <1>1, AdvancedAssumption
<1>7. WalkInv'
    BY <1>1, <1>2, <1>4, <1>5, <1>6 DEF WalkInv
<1>8. StopsTypeOK'
    BY <1>1, <1>2, <1>3, <1>6 DEF StopsTypeOK
<1> QED
    BY <1>1, <1>7, <1>8 DEF StopInv

\* At the end of a check, what is pending for its symbol has been looked at.
LEMMA EndCheckKeepsInv ==
    ASSUME StopInv, EndCheck
    PROVE  StopInv'
<1> DEFINE c == check.symbol
           p == check.price
           q == advanced_orders[c]
<1>1. /\ check # None /\ position > Len(q) /\ check' = None /\ position' = 1
      /\ seen' = [id \in Ids |-> IF id \in PendingIn(c) THEN seen[id] \cup {p} ELSE seen[id]]
      /\ UNCHANGED <<advanced_orders, submitted, batch, added, withdrawn>>
    BY DEF EndCheck
<1>2. /\ StopsTypeOK /\ advanced_orders \in [Symbols -> Seq(AdvancedOrder)]
      /\ c \in Symbols /\ p \in MarketPrices
      /\ seen \in [Ids -> SUBSET MarketPrices] /\ position \in Nat
    BY <1>1 DEF StopInv, StopsTypeOK
<1>3. q \in Seq(AdvancedOrder) /\ Len(q) \in Nat /\ DOMAIN q = 1 .. Len(q)
    BY <1>2, LenProperties
<1>4. \A s \in Symbols : \A i \in DOMAIN advanced_orders[s] :
        advanced_orders[s][i].order_id \in Ids
    <2> SUFFICES ASSUME NEW s \in Symbols, NEW i \in DOMAIN advanced_orders[s]
                 PROVE  advanced_orders[s][i].order_id \in Ids
        OBVIOUS
    <2>1. advanced_orders[s] \in Seq(AdvancedOrder)
        BY <1>2
    <2>2. advanced_orders[s][i] \in AdvancedOrder
        BY <2>1, ElementOfSeq, LenProperties
    <2> QED
        BY <2>2 DEF AdvancedOrder
<1>5. \A i \in DOMAIN q : Trails(q[i]) \/ ~ShouldTrigger(q[i], p)
    BY <1>1, <1>2, <1>3 DEF StopInv, WalkInv
<1>6. Clear(advanced_orders, seen')
    <2> SUFFICES ASSUME NEW s \in Symbols, NEW i \in DOMAIN advanced_orders[s],
                        ~Trails(advanced_orders[s][i]),
                        NEW x \in seen'[advanced_orders[s][i].order_id]
                 PROVE  ~ShouldTrigger(advanced_orders[s][i], x)
        BY DEF Clear
    <2> DEFINE o == advanced_orders[s][i]
    <2>1. o.order_id \in Ids
        BY <1>4
    <2>2. \/ x \in seen[o.order_id]
          \/ o.order_id \in PendingIn(c) /\ x = p
        BY <1>1, <2>1
    <2>3. CASE x \in seen[o.order_id]
        BY <2>3 DEF StopInv, Clear
    <2>4. CASE o.order_id \in PendingIn(c) /\ x = p
        <3>1. s = c
            BY <1>2, <2>4 DEF PendingIn, StopInv, Apart
        <3> QED
            BY <1>5, <2>4, <3>1
    <2> QED
        BY <2>2, <2>3, <2>4
<1>7. \A id \in Ids : seen'[id] # {} => id \in IdsOf(added)
    <2>1. \A id \in PendingIn(c) : id \in IdsOf(added)
        BY <1>2 DEF PendingIn, StopInv, Known
    <2> QED
        BY <1>1, <2>1 DEF StopInv
<1>8. StopsTypeOK'
    <2>1. seen' \in [Ids -> SUBSET MarketPrices]
        BY <1>1, <1>2
    <2> QED
        BY <1>1, <1>2, <2>1 DEF StopsTypeOK
<1>9. WalkInv'
    BY <1>1 DEF StopInv, WalkInv
<1> QED
    BY <1>1, <1>6, <1>7, <1>8, <1>9 DEF StopInv

\* Following the price changes no more than the trigger of a trailing stop.
LEMMA TrailedProperties ==
    ASSUME NEW o \in AdvancedOrder, NEW p \in Int
    PROVE  Trailed(o, p) \in AdvancedOrder /\ Like(Trailed(o, p), o)
<1>1. CASE o.advanced_type # "TRAILING_STOP"
    BY <1>1 DEF Trailed, Like
<1>2. CASE o.advanced_type = "TRAILING_STOP"
    <2> DEFINE a == o.trigger_price
               up == p - o.trailing_distance
               down == p + o.trailing_distance
               x == IF o.side = "BUY" THEN Max({a, up}) ELSE Min({a, down})
    <2>1. a \in Int /\ up \in Int /\ down \in Int
        BY DEF AdvancedOrder
    <2>2. \A b, d \in Int : Max({b, d}) \in Int /\ Min({b, d}) \in Int
        <3> SUFFICES ASSUME NEW b \in Int, NEW d \in Int
                     PROVE  Max({b, d}) \in Int /\ Min({b, d}) \in Int
            OBVIOUS
        <3>1. \E y \in {b, d} : \A z \in {b, d} : y >= z
            OBVIOUS
        <3>2. \E y \in {b, d} : \A z \in {b, d} : y =< z
            OBVIOUS
        <3>3. Max({b, d}) \in {b, d}
            BY <3>1 DEF Max
        <3>4. Min({b, d}) \in {b, d}
            BY <3>2 DEF Min
        <3> QED
            BY <3>3, <3>4
    <2>3. x \in Int
        BY <2>1, <2>2
    <2>4. Trailed(o, p) = [o EXCEPT !.trigger_price = x]
        BY <1>2 DEF Trailed
    <2> HIDE DEF x
    <2> QED
        BY <1>2, <2>3, <2>4 DEF AdvancedOrder, Like, Trails
<1> QED
    BY <1>1, <1>2

\* The order that goes to the engine.
LEMMA OrderFromType ==
    ASSUME NEW o \in AdvancedOrder
    PROVE  OrderFrom(o) \in Order /\ OrderFrom(o).order_id = o.order_id
<1>1. o.price \in Prices
    BY AdvancedAssumption DEF AdvancedOrder
<1> QED
    BY <1>1 DEF OrderFrom, NewOrder, Order, AdvancedOrder, OrderTypes, OrderStatuses

\* The order the walk stands at, with its trigger updated.
LEMMA AtPosition ==
    ASSUME StopInv, CheckOrder
    PROVE  LET c == check.symbol
               q == advanced_orders[c]
               o == Trailed(q[position], check.price)
           IN  /\ check # None /\ c \in Symbols /\ check.price \in MarketPrices
               /\ q \in Seq(AdvancedOrder) /\ DOMAIN q = 1 .. Len(q) /\ Len(q) \in Nat
               /\ position \in 1 .. Len(q)
               /\ q[position] \in AdvancedOrder
               /\ o \in AdvancedOrder /\ Like(o, q[position])
<1> DEFINE c == check.symbol
           q == advanced_orders[c]
<1>1. check # None /\ position <= Len(q)
    BY DEF CheckOrder
<1>2. /\ c \in Symbols /\ check.price \in MarketPrices
      /\ position \in Nat \ {0} /\ q \in Seq(AdvancedOrder)
    BY <1>1 DEF StopInv, StopsTypeOK
<1>3. Len(q) \in Nat /\ DOMAIN q = 1 .. Len(q)
    BY <1>2, LenProperties
<1> HIDE DEF q, c
<1>4. position \in 1 .. Len(q)
    BY <1>1, <1>2, <1>3
<1>5. q[position] \in AdvancedOrder
    BY <1>2, <1>4, ElementOfSeq
<1>6. check.price \in Int
    <2>1. check.price \in Nat
        BY <1>2, AdvancedAssumption
    <2> QED
        BY <2>1
<1>7. /\ Trailed(q[position], check.price) \in AdvancedOrder
      /\ Like(Trailed(q[position], check.price), q[position])
    BY <1>5, <1>6, TrailedProperties
<1> QED
    BY <1>1, <1>2, <1>3, <1>4, <1>5, <1>7 DEF c, q

\* A round that submits: the order that follows is at the same position.
LEMMA TriggeringKeepsInv ==
    ASSUME StopInv, CheckOrder,
           ShouldTrigger(Trailed(advanced_orders[check.symbol][position], check.price), check.price)
    PROVE  StopInv'
<1> DEFINE c == check.symbol
           q == advanced_orders[c]
           o == Trailed(q[position], check.price)
           q1 == [q EXCEPT ![position] = o]
           r == RemoveAt(q1, position)
           new == OrderFrom(o)
<1>1. /\ check # None /\ c \in Symbols /\ check.price \in MarketPrices
      /\ q \in Seq(AdvancedOrder) /\ DOMAIN q = 1 .. Len(q) /\ Len(q) \in Nat
      /\ position \in 1 .. Len(q)
      /\ q[position] \in AdvancedOrder
      /\ o \in AdvancedOrder /\ Like(o, q[position])
    BY AtPosition
<1>2. /\ advanced_orders' = [advanced_orders EXCEPT ![c] = r]
      /\ position' = position
      /\ submitted' = Append(submitted, new)
      /\ UNCHANGED <<check, batch, added, withdrawn, seen>>
    BY DEF CheckOrder, AfterErase
<1>3. new \in Order /\ new.order_id = q[position].order_id
    BY <1>1, OrderFromType DEF Like
<1>4. /\ StopsTypeOK /\ advanced_orders \in [Symbols -> Seq(AdvancedOrder)]
      /\ submitted \in Seq(Order) /\ batch \in 0 .. Len(submitted)
    BY DEF StopInv, StopsTypeOK
<1> HIDE DEF o, new, c
<1>5. /\ q1 \in Seq(AdvancedOrder) /\ Len(q1) = Len(q) /\ DOMAIN q1 = DOMAIN q
      /\ \A i \in DOMAIN q : i # position => q1[i] = q[i]
    BY <1>1, ExceptSeq
<1> HIDE DEF q1
<1>6. /\ r \in Seq(AdvancedOrder) /\ DOMAIN r = 1 .. Len(q) - 1
      /\ \A i \in DOMAIN r :
            Was(i, position) \in DOMAIN q /\ Was(i, position) # position
                /\ r[i] = q1[Was(i, position)]
      /\ \A i, j \in DOMAIN r : i < j => Was(i, position) < Was(j, position)
    <2>1. position \in 1 .. Len(q1) /\ Len(q1) = Len(q) /\ DOMAIN q = 1 .. Len(q1)
        BY <1>1, <1>5
    <2>2. /\ r \in Seq(AdvancedOrder) /\ DOMAIN r = 1 .. Len(q1) - 1
          /\ \A i \in 1 .. Len(q1) - 1 :
                Was(i, position) \in 1 .. Len(q1) /\ Was(i, position) # position
                    /\ r[i] = q1[Was(i, position)]
          /\ \A i, j \in 1 .. Len(q1) - 1 : i < j => Was(i, position) < Was(j, position)
        BY <1>5, <2>1, EraseProperties
    <2> HIDE DEF r, q
    <2> QED
        BY <2>1, <2>2
<1>7. \A i \in DOMAIN r : r[i] = q[Was(i, position)]
    BY <1>5, <1>6
<1> HIDE DEF r, q
<1>8. /\ advanced_orders'[c] = r
      /\ \A x \in Symbols : x # c => advanced_orders'[x] = advanced_orders[x]
      /\ advanced_orders' \in [Symbols -> Seq(AdvancedOrder)]
    BY <1>1, <1>2, <1>4, <1>6
<1>9. Within(advanced_orders', advanced_orders)
    <2>1. ASSUME NEW x \in Symbols, NEW i \in DOMAIN advanced_orders'[x],
                 NEW j \in DOMAIN advanced_orders'[x]
          PROVE  \E l, m \in DOMAIN advanced_orders[x] :
                    /\ Like(advanced_orders'[x][i], advanced_orders[x][l])
                    /\ Like(advanced_orders'[x][j], advanced_orders[x][m])
                    /\ i < j => l < m
        <3>1. CASE x = c
            BY <1>6, <1>7, <1>8, <3>1 DEF Like, q
        <3>2. CASE x # c
            BY <1>8, <3>2 DEF Like
        <3> QED
            BY <3>1, <3>2
    <2> QED
        BY <2>1 DEF Within
<1>10. /\ Known(advanced_orders', added) /\ Apart(advanced_orders')
       /\ InOrder(advanced_orders', added) /\ Clear(advanced_orders', seen)
    BY <1>9, WithinKeeps DEF StopInv
<1> DEFINE n == Len(submitted)
<1>11. /\ n \in Nat /\ submitted' \in Seq(Order) /\ Len(submitted') = n + 1
       /\ \A i \in 1 .. n : submitted'[i] = submitted[i]
       /\ submitted'[n + 1] = new
    BY <1>2, <1>3, <1>4, AppendProperties, LenProperties
<1> HIDE DEF n
<1>12. /\ batch \in Nat /\ batch <= n
       /\ \A i \in batch' + 1 .. Len(submitted') :
            \/ i \in batch + 1 .. n /\ submitted'[i] = submitted[i]
            \/ i = n + 1 /\ submitted'[i] = new
    <2>1. batch \in Nat /\ batch <= n
        BY <1>4, <1>11 DEF n
    <2>2. ASSUME NEW i \in batch + 1 .. n + 1
          PROVE  \/ i \in batch + 1 .. n /\ submitted'[i] = submitted[i]
                 \/ i = n + 1 /\ submitted'[i] = new
        BY <1>11, <2>1, <2>2
    <2> QED
        BY <1>2, <1>11, <2>1, <2>2
<1>13. /\ \A i \in DOMAIN q :
            IF i < position THEN Trails(q[i]) \/ ~ShouldTrigger(q[i], check.price)
            ELSE \A j \in batch + 1 .. n : Earlier(added, submitted[j].order_id, q[i].order_id)
       /\ \A i, j \in batch + 1 .. n :
            i < j => Earlier(added, submitted[i].order_id, submitted[j].order_id)
    BY <1>1 DEF StopInv, WalkInv, q, c, n
<1>14. ASSUME NEW i \in DOMAIN r
       PROVE  IF i < position THEN Trails(r[i]) \/ ~ShouldTrigger(r[i], check.price)
              ELSE \A j \in batch' + 1 .. Len(submitted') :
                    Earlier(added, submitted'[j].order_id, r[i].order_id)
    <2>1. CASE i < position
        <3>1. Was(i, position) = i
            BY <2>1 DEF Was
        <3> QED
            BY <1>6, <1>7, <1>13, <2>1, <3>1
    <2>2. CASE ~(i < position)
        <3>1. i \in Nat /\ position \in Nat
            BY <1>1, <1>6
        <3>2. Was(i, position) = i + 1 /\ ~(i + 1 < position) /\ position < i + 1
            BY <2>2, <3>1 DEF Was
        <3>3. i + 1 \in DOMAIN q /\ r[i] = q[i + 1]
            BY <1>6, <1>7, <3>2
        <3>4. \A j \in batch + 1 .. n : Earlier(added, submitted[j].order_id, r[i].order_id)
            BY <1>13, <3>2, <3>3
        <3>5. Earlier(added, new.order_id, r[i].order_id)
            BY <1>1, <1>3, <3>2, <3>3 DEF StopInv, InOrder, q
        <3> QED
            BY <1>12, <2>2, <3>4, <3>5
    <2> QED
        BY <2>1, <2>2
<1>15. ASSUME NEW i \in batch' + 1 .. Len(submitted'), NEW j \in batch' + 1 .. Len(submitted'),
              i < j
       PROVE  Earlier(added, submitted'[i].order_id, submitted'[j].order_id)
    <2>1. CASE j \in batch + 1 .. n /\ submitted'[j] = submitted[j]
        <3>1. i # n + 1
            BY <1>11, <1>12, <1>15, <2>1
        <3> QED
            BY <1>12, <1>13, <1>15, <2>1, <3>1
    <2>2. CASE j = n + 1 /\ submitted'[j] = new
        <3>1. i \in batch + 1 .. n /\ submitted'[i] = submitted[i]
            BY <1>11, <1>12, <1>15, <2>2
        <3>2. ~(position < position) /\ position \in DOMAIN q
            BY <1>1
        <3> QED
            BY <1>3, <1>13, <2>2, <3>1, <3>2
    <2> QED
        BY <1>12, <2>1, <2>2
<1>16. WalkInv'
    BY <1>1, <1>2, <1>8, <1>14, <1>15 DEF WalkInv, c
<1>17. StopsTypeOK'
    <2>1. batch' \in 0 .. Len(submitted')
        BY <1>2, <1>11, <1>12
    <2> QED
        BY <1>2, <1>4, <1>8, <1>11, <2>1 DEF StopsTypeOK
<1> QED
    BY <1>2, <1>10, <1>16, <1>17 DEF StopInv

\* A round that does not.
LEMMA PassingKeepsInv ==
    ASSUME StopInv, CheckOrder,
           ~ShouldTrigger(Trailed(advanced_orders[check.symbol][position], check.price),
                          check.price)
    PROVE  StopInv'
<1> DEFINE c == check.symbol
           q == advanced_orders[c]
           o == Trailed(q[position], check.price)
           q1 == [q EXCEPT ![position] = o]
<1>1. /\ check # None /\ c \in Symbols /\ check.price \in MarketPrices
      /\ q \in Seq(AdvancedOrder) /\ DOMAIN q = 1 .. Len(q) /\ Len(q) \in Nat
      /\ position \in 1 .. Len(q)
      /\ q[position] \in AdvancedOrder
      /\ o \in AdvancedOrder /\ Like(o, q[position])
    BY AtPosition
<1>2. /\ advanced_orders' = [advanced_orders EXCEPT ![c] = q1]
      /\ position' = position + 1
      /\ UNCHANGED <<submitted, check, batch, added, withdrawn, seen>>
    BY DEF CheckOrder
<1>3. ~ShouldTrigger(o, check.price)
    OBVIOUS
<1>4. StopsTypeOK /\ advanced_orders \in [Symbols -> Seq(AdvancedOrder)]
    BY DEF StopInv, StopsTypeOK
<1> HIDE DEF o, c
<1>5. /\ q1 \in Seq(AdvancedOrder) /\ DOMAIN q1 = DOMAIN q
      /\ \A i \in DOMAIN q : q1[i] = IF i = position THEN o ELSE q[i]
    BY <1>1, ExceptSeq
<1> HIDE DEF q1, q
<1>6. \A i \in DOMAIN q : Like(q1[i], q[i])
    BY <1>1, <1>5 DEF Like
<1>7. /\ advanced_orders'[c] = q1
      /\ \A x \in Symbols : x # c => advanced_orders'[x] = advanced_orders[x]
      /\ advanced_orders' \in [Symbols -> Seq(AdvancedOrder)]
    BY <1>1, <1>2, <1>4, <1>5
<1>8. Within(advanced_orders', advanced_orders)
    <2>1. ASSUME NEW x \in Symbols, NEW i \in DOMAIN advanced_orders'[x],
                 NEW j \in DOMAIN advanced_orders'[x]
          PROVE  \E l, m \in DOMAIN advanced_orders[x] :
                    /\ Like(advanced_orders'[x][i], advanced_orders[x][l])
                    /\ Like(advanced_orders'[x][j], advanced_orders[x][m])
                    /\ i < j => l < m
        <3>1. CASE x = c
            BY <1>5, <1>6, <1>7, <3>1 DEF q
        <3>2. CASE x # c
            BY <1>7, <3>2 DEF Like
        <3> QED
            BY <3>1, <3>2
    <2> QED
        BY <2>1 DEF Within
<1>9. /\ Known(advanced_orders', added) /\ Apart(advanced_orders')
      /\ InOrder(advanced_orders', added) /\ Clear(advanced_orders', seen)
    BY <1>8, WithinKeeps DEF StopInv
<1>10. /\ \A i \in DOMAIN q :
            IF i < position THEN Trails(q[i]) \/ ~ShouldTrigger(q[i], check.price)
            ELSE \A j \in batch + 1 .. Len(submitted) :
                    Earlier(added, submitted[j].order_id, q[i].order_id)
       /\ \A i, j \in batch + 1 .. Len(submitted) :
            i < j => Earlier(added, submitted[i].order_id, submitted[j].order_id)
    BY <1>1 DEF StopInv, WalkInv, q, c
<1>11. ASSUME NEW i \in DOMAIN q1
       PROVE  IF i < position' THEN Trails(q1[i]) \/ ~ShouldTrigger(q1[i], check.price)
              ELSE \A j \in batch + 1 .. Len(submitted) :
                    Earlier(added, submitted[j].order_id, q1[i].order_id)
    <2>1. i \in Nat /\ position \in Nat /\ i \in DOMAIN q
        BY <1>1, <1>5
    <2>2. CASE i = position
        <3>1. q1[i] = o /\ i < position'
            BY <1>2, <1>5, <2>1, <2>2
        <3> QED
            BY <1>3, <3>1
    <2>3. CASE i # position
        <3>1. q1[i] = q[i] /\ (i < position' <=> i < position)
            BY <1>2, <1>5, <2>1, <2>3
        <3> QED
            BY <1>10, <2>1, <3>1
    <2> QED
        BY <2>2, <2>3
<1>12. WalkInv'
    BY <1>1, <1>2, <1>7, <1>10, <1>11 DEF WalkInv, c
<1>13. StopsTypeOK'
    <2>1. position' \in Nat \ {0}
        BY <1>1, <1>2
    <2> QED
        BY <1>2, <1>4, <1>7, <2>1 DEF StopsTypeOK
<1> QED
    BY <1>2, <1>9, <1>12, <1>13 DEF StopInv

-------------------------------------------------------------------------------
(* What it comes to *)

\* The manager starts with nothing pending.
LEMMA InitStopInv == StopsInit => StopInv
<1> SUFFICES ASSUME StopsInit PROVE StopInv
    OBVIOUS
<1>1. StopsTypeOK
    BY DEF StopsInit, StopsTypeOK
<1>2. DOMAIN added = {} /\ \A s \in Symbols : DOMAIN advanced_orders[s] = {}
    BY DEF StopsInit
<1>3. batch + 1 .. Len(submitted) = {}
    BY DEF StopsInit
<1>4. AddedOnce(added) /\ \A id \in Ids : seen[id] = {}
    BY <1>2 DEF AddedOnce, StopsInit
<1>5. /\ Known(advanced_orders, added) /\ Apart(advanced_orders)
      /\ InOrder(advanced_orders, added) /\ Clear(advanced_orders, seen)
    BY <1>2 DEF Known, Apart, InOrder, Clear
<1>6. WalkInv
    BY <1>3 DEF StopsInit, WalkInv
<1> QED
    BY <1>1, <1>4, <1>5, <1>6 DEF StopInv

\* And every step keeps its invariant.
LEMMA NextStopInv == StopInv /\ [StopsNext]_stopVars => StopInv'
<1> SUFFICES ASSUME StopInv, [StopsNext]_stopVars PROVE StopInv'
    OBVIOUS
<1>1. CASE \E id \in Ids, r \in Requests : AddOrder(id, r)
    BY <1>1, AddOrderKeepsInv
<1>2. CASE \E id \in Ids : CancelAdvanced(id)
    BY <1>2, CancelAdvancedKeepsInv
<1>3. CASE \E s \in Symbols, p \in MarketPrices : StartCheck(s, p)
    BY <1>3, StartCheckKeepsInv
<1>4. CASE CheckOrder
    BY <1>4, TriggeringKeepsInv, PassingKeepsInv
<1>5. CASE EndCheck
    BY <1>5, EndCheckKeepsInv
<1>6. CASE UNCHANGED stopVars
    BY <1>6 DEF stopVars, StopInv, StopsTypeOK, WalkInv
<1> QED
    BY <1>1, <1>2, <1>3, <1>4, <1>5, <1>6 DEF StopsNext

\* So it always holds.
LEMMA StopInvariant == StopsSpec => []StopInv
BY InitStopInv, NextStopInv, PTL DEF StopsSpec

\* The pending orders, the running check and the histories keep their types.
THEOREM StopsTypeCorrect == StopsSpec => []StopsTypeOK
<1>1. StopInv => StopsTypeOK
    BY DEF StopInv
<1> QED
    BY <1>1, StopInvariant, PTL

\* However long the vectors are and whatever triggers on the way, no order is
\* passed over: what is still pending was not due at any of the prices it was
\* checked for.
THEOREM NoStopIsMissed == StopsSpec => []NothingMissed
<1>1. StopInv => NothingMissed
    <2> SUFFICES ASSUME StopInv, NEW o \in Pending, o.advanced_type # "TRAILING_STOP",
                        NEW p \in seen[o.order_id]
                 PROVE  ~ShouldTrigger(o, p)
        BY DEF NothingMissed
    <2>1. PICK s \in Symbols : o \in Range(advanced_orders[s])
        BY DEF Pending
    <2>2. PICK i \in DOMAIN advanced_orders[s] : o = advanced_orders[s][i]
        BY <2>1 DEF Range
    <2> QED
        BY <2>2 DEF StopInv, Clear, Trails
<1> QED
    BY <1>1, StopInvariant, PTL

\* The place of an order in the order of adding.
LEMMA RankProperties ==
    ASSUME StopInv, NEW k \in DOMAIN added
    PROVE  Rank(added[k].order_id) = k
<1> DEFINE id == added[k].order_id
           hits == {i \in 1 .. Len(added) : added[i].order_id = id}
<1>1. DOMAIN added = 1 .. Len(added) /\ Len(added) \in Nat
    BY LenProperties DEF StopInv, StopsTypeOK
<1>2. hits = {k}
    BY <1>1 DEF StopInv, AddedOnce
<1>3. Rank(id) = IF hits # {} THEN Min(hits) ELSE 0
    BY DEF Rank, SelectInSeq
<1> HIDE DEF hits
<1>4. Min(hits) \in hits
    <2>1. hits \subseteq Nat /\ hits # {}
        BY <1>1, <1>2
    <2> QED
        BY <2>1, MinProperties
<1> QED
    BY <1>2, <1>3, <1>4

\* Of two orders that trigger at the same check, the one that was added first
\* reaches the engine first, whatever was cancelled or erased between them.
THEOREM StopsInOrder == StopsSpec => []FirstAddedFirst
<1>1. StopInv => FirstAddedFirst
    <2> SUFFICES ASSUME StopInv, NEW i \in batch + 1 .. Len(submitted),
                        NEW j \in batch + 1 .. Len(submitted), i < j
                 PROVE  Rank(submitted[i].order_id) < Rank(submitted[j].order_id)
        BY DEF FirstAddedFirst
    <2>1. Earlier(added, submitted[i].order_id, submitted[j].order_id)
        BY DEF StopInv, WalkInv
    <2>2. PICK k \in DOMAIN added, l \in DOMAIN added :
            /\ k < l
            /\ added[k].order_id = submitted[i].order_id
            /\ added[l].order_id = submitted[j].order_id
        BY <2>1 DEF Earlier
    <2> QED
        BY <2>2, RankProperties
<1> QED
    BY <1>1, StopInvariant, PTL

-------------------------------------------------------------------------------
(* Where an order is *)

\* A vector that lost the order at k has all the others.
LEMMA OthersStay ==
    ASSUME NEW n \in Nat, NEW k \in 1 .. n, NEW j \in 1 .. n, j # k
    PROVE  \E i \in 1 .. n - 1 : Was(i, k) = j
<1>1. CASE j < k
    <2>1. j \in 1 .. n - 1 /\ Was(j, k) = j
        BY <1>1 DEF Was
    <2> QED
        BY <2>1
<1>2. CASE j > k
    <2>1. j - 1 \in 1 .. n - 1 /\ Was(j - 1, k) = j
        BY <1>2 DEF Was
    <2> QED
        BY <2>1
<1> QED
    BY <1>1, <1>2

\* ao2 is ao without the order at k of the vector of s.
Erases(ao2, ao, s, k) ==
    /\ \A r \in Symbols \ {s} : ao2[r] = ao[r]
    /\ Len(ao[s]) \in Nat /\ DOMAIN ao[s] = 1 .. Len(ao[s]) /\ k \in 1 .. Len(ao[s])
    /\ DOMAIN ao2[s] = 1 .. Len(ao[s]) - 1
    /\ \A i \in 1 .. Len(ao[s]) - 1 :
        Was(i, k) \in 1 .. Len(ao[s]) /\ Was(i, k) # k /\ ao2[s][i] = ao[s][Was(i, k)]

\* cancel_advanced_order takes one stop out.
LEMMA CancelErases ==
    ASSUME StopInv, NEW id \in Ids, CancelAdvanced(id)
    PROVE  /\ check = None /\ withdrawn' = withdrawn \cup {id}
           /\ UNCHANGED <<check, position, submitted, batch, added, seen>>
           /\ \E s \in Symbols : \E k \in DOMAIN advanced_orders[s] :
                /\ advanced_orders[s][k].order_id = id
                /\ Erases(advanced_orders', advanced_orders, s, k)
<1>1. PICK s \in Symbols :
        LET i == SelectInSeq(advanced_orders[s], LAMBDA o : o.order_id = id)
        IN  /\ i # 0
            /\ advanced_orders' = [advanced_orders EXCEPT ![s] = RemoveAt(@, i)]
    BY DEF CancelAdvanced
<1> DEFINE q == advanced_orders[s]
           hits == {i \in 1 .. Len(q) : q[i].order_id = id}
           k == SelectInSeq(q, LAMBDA o : o.order_id = id)
<1>2. /\ advanced_orders \in [Symbols -> Seq(AdvancedOrder)]
      /\ check = None /\ withdrawn' = withdrawn \cup {id}
      /\ UNCHANGED <<check, position, submitted, batch, added, seen>>
    BY DEF StopInv, StopsTypeOK, CancelAdvanced
<1>3. k \in 1 .. Len(q) /\ q[k].order_id = id
    <2>1. hits \subseteq Nat
        OBVIOUS
    <2>2. k = IF hits # {} THEN Min(hits) ELSE 0
        BY DEF SelectInSeq
    <2>3. hits # {}
        BY <1>1, <2>2
    <2>4. Min(hits) \in hits
        BY <2>1, <2>3, MinProperties
    <2> QED
        BY <2>2, <2>3, <2>4
<1>4. advanced_orders' = [advanced_orders EXCEPT ![s] = RemoveAt(@, k)]
    BY <1>1
<1> HIDE DEF k
<1>5. q \in Seq(AdvancedOrder) /\ Len(q) \in Nat /\ DOMAIN q = 1 .. Len(q)
    BY <1>2, LenProperties
<1>6. /\ DOMAIN RemoveAt(q, k) = 1 .. Len(q) - 1
      /\ \A i \in 1 .. Len(q) - 1 :
            Was(i, k) \in 1 .. Len(q) /\ Was(i, k) # k /\ RemoveAt(q, k)[i] = q[Was(i, k)]
    BY <1>3, <1>5, EraseProperties
<1>7. Erases(advanced_orders', advanced_orders, s, k)
    BY <1>2, <1>3, <1>4, <1>5, <1>6 DEF Erases
<1> QED
    BY <1>2, <1>3, <1>5, <1>7

\* A stop that triggers is taken out as well, and submitted.
LEMMA TriggeringErases ==
    ASSUME StopInv, CheckOrder,
           ShouldTrigger(Trailed(advanced_orders[check.symbol][position], check.price), check.price)
    PROVE  /\ check # None /\ check.symbol \in Symbols
           /\ UNCHANGED <<check, position, batch, added, withdrawn, seen>>
           /\ Erases(advanced_orders', advanced_orders, check.symbol, position)
           /\ \E new \in Order :
                /\ new = OrderFrom(Trailed(advanced_orders[check.symbol][position], check.price))
                /\ new.order_id = advanced_orders[check.symbol][position].order_id
                /\ submitted' = Append(submitted, new)
<1> DEFINE c == check.symbol
           q == advanced_orders[c]
           o == Trailed(q[position], check.price)
           q1 == [q EXCEPT ![position] = o]
           new == OrderFrom(o)
<1>1. /\ check # None /\ c \in Symbols
      /\ q \in Seq(AdvancedOrder) /\ DOMAIN q = 1 .. Len(q) /\ Len(q) \in Nat
      /\ position \in 1 .. Len(q)
      /\ o \in AdvancedOrder /\ Like(o, q[position])
    BY AtPosition
<1>2. /\ advanced_orders' = [advanced_orders EXCEPT ![c] = RemoveAt(q1, position)]
      /\ submitted' = Append(submitted, new)
      /\ UNCHANGED <<check, position, batch, added, withdrawn, seen>>
    BY DEF CheckOrder, AfterErase
<1>3. new \in Order /\ new.order_id = q[position].order_id
    BY <1>1, OrderFromType DEF Like
<1>4. advanced_orders \in [Symbols -> Seq(AdvancedOrder)]
    BY DEF StopInv, StopsTypeOK
<1> HIDE DEF o, new
<1>5. /\ q1 \in Seq(AdvancedOrder) /\ Len(q1) = Len(q) /\ DOMAIN q1 = DOMAIN q
      /\ \A i \in DOMAIN q : i # position => q1[i] = q[i]
    BY <1>1, ExceptSeq
<1> HIDE DEF q1
<1>6. position \in 1 .. Len(q1)
    BY <1>1, <1>5
<1>7. /\ DOMAIN RemoveAt(q1, position) = 1 .. Len(q) - 1
      /\ \A i \in 1 .. Len(q) - 1 :
            Was(i, position) \in 1 .. Len(q) /\ Was(i, position) # position
                /\ RemoveAt(q1, position)[i] = q1[Was(i, position)]
    <2>1. /\ DOMAIN RemoveAt(q1, position) = 1 .. Len(q1) - 1
          /\ \A i \in 1 .. Len(q1) - 1 :
                Was(i, position) \in 1 .. Len(q1) /\ Was(i, position) # position
                    /\ RemoveAt(q1, position)[i] = q1[Was(i, position)]
        BY <1>5, <1>6, EraseProperties
    <2> HIDE DEF q
    <2> QED
        BY <1>5, <2>1
<1>8. \A i \in 1 .. Len(q) - 1 : RemoveAt(q1, position)[i] = q[Was(i, position)]
    BY <1>1, <1>5, <1>7
<1>9. Erases(advanced_orders', advanced_orders, c, position)
    BY <1>1, <1>2, <1>4, <1>7, <1>8 DEF Erases
<1> QED
    BY <1>1, <1>2, <1>3, <1>9 DEF o, new

\* A stop that does not trigger stays, with its trigger trailed.
LEMMA PassingChanges ==
    ASSUME StopInv, CheckOrder,
           ~ShouldTrigger(Trailed(advanced_orders[check.symbol][position], check.price), check.price)
    PROVE  LET c == check.symbol
               q == advanced_orders[c]
           IN  /\ check # None /\ c \in Symbols /\ position \in 1 .. Len(q) /\ DOMAIN q = 1 .. Len(q)
               /\ position' = position + 1
               /\ UNCHANGED <<submitted, check, batch, added, withdrawn, seen>>
               /\ \A s \in Symbols \ {c} : advanced_orders'[s] = advanced_orders[s]
               /\ DOMAIN advanced_orders'[c] = DOMAIN q
               /\ \A i \in DOMAIN q : advanced_orders'[c][i] =
                    IF i = position THEN Trailed(q[i], check.price) ELSE q[i]
<1> DEFINE c == check.symbol
           q == advanced_orders[c]
           o == Trailed(q[position], check.price)
           q1 == [q EXCEPT ![position] = o]
<1>1. /\ check # None /\ c \in Symbols
      /\ q \in Seq(AdvancedOrder) /\ DOMAIN q = 1 .. Len(q)
      /\ position \in 1 .. Len(q) /\ o \in AdvancedOrder
    BY AtPosition
<1>2. /\ advanced_orders' = [advanced_orders EXCEPT ![c] = q1]
      /\ position' = position + 1
      /\ UNCHANGED <<submitted, check, batch, added, withdrawn, seen>>
    BY DEF CheckOrder
<1>3. advanced_orders \in [Symbols -> Seq(AdvancedOrder)]
    BY DEF StopInv, StopsTypeOK
<1> HIDE DEF o
<1>4. DOMAIN q1 = DOMAIN q /\ \A i \in DOMAIN q : q1[i] = IF i = position THEN o ELSE q[i]
    BY <1>1, ExceptSeq
<1> HIDE DEF q1
<1>5. advanced_orders'[c] = q1 /\ \A s \in Symbols \ {c} : advanced_orders'[s] = advanced_orders[s]
    BY <1>1, <1>2, <1>3
<1>6. \A i \in DOMAIN q : q1[i] = IF i = position THEN Trailed(q[i], check.price) ELSE q[i]
    BY <1>4 DEF o
<1> QED
    BY <1>1, <1>2, <1>4, <1>5, <1>6

\* Nothing is lost, and nothing is in two places.
PlaceInv ==
    /\ IdsOf(added) \subseteq PendingIds \cup withdrawn \cup SubmittedIds
    /\ withdrawn \cup SubmittedIds \subseteq IdsOf(added)
    /\ PendingIds \cap withdrawn = {}
    /\ SubmittedIds \cap (PendingIds \cup withdrawn) = {}
    /\ \A i, j \in DOMAIN submitted : submitted[i].order_id = submitted[j].order_id => i = j

\* PendingIds, without the folds.
LEMMA PendingIdsProperties ==
    PendingIds = UNION {{advanced_orders[s][i].order_id : i \in DOMAIN advanced_orders[s]} : s \in Symbols}
BY DEF PendingIds, Pending, Range

\* No id is pending twice.
LEMMA PendingOnce ==
    ASSUME StopInv, NEW s \in Symbols, NEW r \in Symbols,
           NEW i \in DOMAIN advanced_orders[s], NEW j \in DOMAIN advanced_orders[r],
           advanced_orders[s][i].order_id = advanced_orders[r][j].order_id
    PROVE  s = r /\ i = j
<1>1. s = r
    BY DEF StopInv, Apart
<1>2. \A k, l \in DOMAIN advanced_orders[s] : k < l =>
        advanced_orders[s][k].order_id # advanced_orders[s][l].order_id
    <2> SUFFICES ASSUME NEW k \in DOMAIN advanced_orders[s], NEW l \in DOMAIN advanced_orders[s], k < l,
                        advanced_orders[s][k].order_id = advanced_orders[s][l].order_id
                 PROVE  FALSE
        OBVIOUS
    <2>1. PICK m \in DOMAIN added, n \in DOMAIN added :
            /\ m < n
            /\ added[m].order_id = advanced_orders[s][k].order_id
            /\ added[n].order_id = advanced_orders[s][l].order_id
        BY DEF StopInv, InOrder, Earlier
    <2>2. m = n
        BY <2>1 DEF StopInv, AddedOnce
    <2>3. m \in Nat
        BY LenProperties DEF StopInv, StopsTypeOK
    <2> QED
        BY <2>1, <2>2, <2>3
<1>3. advanced_orders[s] \in Seq(AdvancedOrder)
    BY DEF StopInv, StopsTypeOK
<1>4. i \in Nat /\ j \in Nat
    BY <1>1, <1>3, LenProperties
<1> QED
    BY <1>1, <1>2, <1>4

\* Taking out an order takes out its id.
LEMMA ErasedId ==
    ASSUME StopInv, NEW s \in Symbols, NEW k, Erases(advanced_orders', advanced_orders, s, k)
    PROVE  /\ advanced_orders[s][k].order_id \in PendingIds
           /\ PendingIds' = PendingIds \ {advanced_orders[s][k].order_id}
<1> DEFINE ao == advanced_orders
           ao2 == advanced_orders'
           id == ao[s][k].order_id
           n == Len(ao[s])
<1>1. /\ \A r \in Symbols \ {s} : ao2[r] = ao[r]
      /\ n \in Nat /\ DOMAIN ao[s] = 1 .. n /\ k \in 1 .. n /\ DOMAIN ao2[s] = 1 .. n - 1
      /\ \A i \in 1 .. n - 1 : Was(i, k) \in 1 .. n /\ Was(i, k) # k /\ ao2[s][i] = ao[s][Was(i, k)]
    BY DEF Erases
<1>2. /\ PendingIds = UNION {{ao[r][i].order_id : i \in DOMAIN ao[r]} : r \in Symbols}
      /\ PendingIds' = UNION {{ao2[r][i].order_id : i \in DOMAIN ao2[r]} : r \in Symbols}
    BY PendingIdsProperties DEF PendingIds, Pending, Range
<1> HIDE DEF n
<1>3. ASSUME NEW r \in Symbols, NEW i \in DOMAIN ao2[r]
      PROVE  ao2[r][i].order_id \in PendingIds \ {id}
    <2>1. CASE r = s
        <3>1. Was(i, k) \in DOMAIN ao[s] /\ Was(i, k) # k /\ ao2[r][i] = ao[s][Was(i, k)]
            BY <1>1, <2>1
        <3>2. ao[s][Was(i, k)].order_id # id
            BY <1>1, <3>1, PendingOnce
        <3> QED
            BY <1>2, <3>1, <3>2
    <2>2. CASE r # s
        <3>1. ao2[r] = ao[r]
            BY <1>1, <2>2
        <3>2. ao[r][i].order_id # id
            BY <1>1, <2>2, <3>1, PendingOnce
        <3> QED
            BY <1>2, <3>1, <3>2
    <2> QED
        BY <2>1, <2>2
<1>4. ASSUME NEW r \in Symbols, NEW i \in DOMAIN ao[r], ao[r][i].order_id # id
      PROVE  ao[r][i].order_id \in PendingIds'
    <2>1. CASE r = s
        <3>1. PICK j \in 1 .. n - 1 : Was(j, k) = i
            BY <1>1, <1>4, <2>1, OthersStay
        <3> QED
            BY <1>1, <1>2, <2>1, <3>1
    <2>2. CASE r # s
        BY <1>1, <1>2, <2>2
    <2> QED
        BY <2>1, <2>2
<1>5. id \in PendingIds
    BY <1>1, <1>2
<1>6. \A x \in PendingIds' : x \in PendingIds \ {id}
    BY <1>2, <1>3
<1>7. \A x \in PendingIds \ {id} : x \in PendingIds'
    BY <1>2, <1>4
<1> QED
    BY <1>5, <1>6, <1>7

\* A new stop is pending, and was not before.
LEMMA AddedPending ==
    ASSUME StopInv, NEW id \in Ids, NEW r \in Requests, AddOrder(id, r)
    PROVE  /\ id \notin IdsOf(added) /\ IdsOf(added') = IdsOf(added) \cup {id}
           /\ UNCHANGED <<check, position, submitted, batch, withdrawn, seen>>
           /\ PendingIds' = PendingIds \cup {id}
<1> DEFINE o == AdvancedOrderOf(id, r)
           c == r.symbol
           q == advanced_orders[c]
<1>1. /\ id \notin IdsOf(added)
      /\ advanced_orders' = [advanced_orders EXCEPT ![c] = Append(q, o)]
      /\ added' = Append(added, o)
      /\ UNCHANGED <<check, position, submitted, batch, withdrawn, seen>>
    BY DEF AddOrder, AddedIds, IdsOf
<1>2. o \in AdvancedOrder /\ o.order_id = id /\ c \in Symbols
    BY AdvancedOrderOfType
<1>3. added \in Seq(AdvancedOrder) /\ advanced_orders \in [Symbols -> Seq(AdvancedOrder)]
    BY DEF StopInv, StopsTypeOK
<1> HIDE DEF o, c
<1>4. IdsOf(added') = IdsOf(added) \cup {id}
    BY <1>1, <1>2, <1>3, AdditionProperties DEF StopInv
<1>5. q \in Seq(AdvancedOrder)
    BY <1>2, <1>3
<1> DEFINE t == Append(q, o)
           n == Len(q)
<1>6. /\ n \in Nat /\ DOMAIN q = 1 .. n /\ DOMAIN t = 1 .. n + 1
      /\ \A i \in 1 .. n : t[i] = q[i]
      /\ t[n + 1] = o
    BY <1>2, <1>5, AppendProperties, LenProperties
<1>7. advanced_orders'[c] = t /\ \A s \in Symbols \ {c} : advanced_orders'[s] = advanced_orders[s]
    BY <1>1, <1>2, <1>3
<1> HIDE DEF t, n
<1>8. /\ PendingIds = UNION {{advanced_orders[s][i].order_id : i \in DOMAIN advanced_orders[s]} : s \in Symbols}
      /\ PendingIds' = UNION {{advanced_orders'[s][i].order_id : i \in DOMAIN advanced_orders'[s]} : s \in Symbols}
    BY PendingIdsProperties DEF PendingIds, Pending, Range
<1>9. ASSUME NEW s \in Symbols, NEW i \in DOMAIN advanced_orders'[s]
      PROVE  advanced_orders'[s][i].order_id \in PendingIds \cup {id}
    <2>1. CASE s = c
        <3>1. i \in 1 .. n \/ i = n + 1
            BY <1>6, <1>7, <2>1
        <3>2. CASE i = n + 1
            BY <1>2, <1>6, <1>7, <2>1, <3>2
        <3>3. CASE i \in 1 .. n
            <4>1. i \in DOMAIN q /\ advanced_orders'[s][i] = q[i]
                BY <1>6, <1>7, <2>1, <3>3
            <4> QED
                BY <1>2, <1>8, <4>1
        <3> QED
            BY <3>1, <3>2, <3>3
    <2>2. CASE s # c
        BY <1>7, <1>8, <2>2
    <2> QED
        BY <2>1, <2>2
<1>10. ASSUME NEW s \in Symbols, NEW i \in DOMAIN advanced_orders[s]
       PROVE  advanced_orders[s][i].order_id \in PendingIds'
    <2>1. CASE s = c
        <3>1. i \in DOMAIN t /\ t[i] = advanced_orders[s][i]
            BY <1>6, <2>1
        <3> QED
            BY <1>7, <1>8, <2>1, <3>1
    <2>2. CASE s # c
        BY <1>7, <1>8, <2>2
    <2> QED
        BY <2>1, <2>2
<1>11. id \in PendingIds'
    <2>1. n + 1 \in DOMAIN t /\ t[n + 1].order_id = id
        BY <1>2, <1>6
    <2> QED
        BY <1>2, <1>7, <1>8, <2>1
<1>12. \A x \in PendingIds' : x \in PendingIds \cup {id}
    BY <1>8, <1>9
<1>13. \A x \in PendingIds : x \in PendingIds'
    BY <1>8, <1>10
<1> QED
    BY <1>1, <1>4, <1>11, <1>12, <1>13

\* Every step leaves each stop in one place.
LEMMA NextPlaces == StopInv /\ PlaceInv /\ [StopsNext]_stopVars => PlaceInv'
<1> SUFFICES ASSUME StopInv, PlaceInv, [StopsNext]_stopVars PROVE PlaceInv'
    OBVIOUS
<1>1. ASSUME NEW id \in Ids, NEW r \in Requests, AddOrder(id, r) PROVE PlaceInv'
    <2>1. /\ id \notin IdsOf(added) /\ IdsOf(added') = IdsOf(added) \cup {id}
          /\ submitted' = submitted /\ withdrawn' = withdrawn
          /\ PendingIds' = PendingIds \cup {id}
        BY <1>1, AddedPending
    <2>2. SubmittedIds' = SubmittedIds
        BY <2>1 DEF SubmittedIds
    <2> QED
        BY <2>1, <2>2 DEF PlaceInv
<1>2. ASSUME NEW id \in Ids, CancelAdvanced(id) PROVE PlaceInv'
    <2>1. /\ withdrawn' = withdrawn \cup {id} /\ submitted' = submitted /\ added' = added
          /\ id \in PendingIds /\ PendingIds' = PendingIds \ {id}
        BY <1>2, CancelErases, ErasedId
    <2>2. SubmittedIds' = SubmittedIds
        BY <2>1 DEF SubmittedIds
    <2>3. id \in IdsOf(added)
        BY <2>1, PendingIdsProperties DEF StopInv, Known
    <2> QED
        BY <2>1, <2>2, <2>3 DEF PlaceInv
<1>3. ASSUME CheckOrder,
             ShouldTrigger(Trailed(advanced_orders[check.symbol][position], check.price), check.price)
      PROVE  PlaceInv'
    <2> DEFINE id == advanced_orders[check.symbol][position].order_id
    <2>1. PICK new \in Order : new.order_id = id /\ submitted' = Append(submitted, new)
        BY <1>3, TriggeringErases
    <2>2. /\ withdrawn' = withdrawn /\ added' = added
          /\ id \in PendingIds /\ PendingIds' = PendingIds \ {id}
        BY <1>3, TriggeringErases, ErasedId
    <2>3. id \in IdsOf(added)
        BY <2>2, PendingIdsProperties DEF StopInv, Known
    <2> HIDE DEF id
    <2> DEFINE n == Len(submitted)
    <2>4. /\ n \in Nat /\ DOMAIN submitted = 1 .. n
          /\ DOMAIN submitted' = 1 .. n + 1
          /\ \A i \in 1 .. n : submitted'[i] = submitted[i]
          /\ submitted'[n + 1] = new
        <3>1. submitted \in Seq(Order)
            BY DEF StopInv, StopsTypeOK
        <3> QED
            BY <2>1, <3>1, AppendProperties, LenProperties
    <2> HIDE DEF n
    <2>5. \A i \in DOMAIN submitted' : (i \in DOMAIN submitted /\ submitted'[i] = submitted[i])
                                        \/ (i = n + 1 /\ submitted'[i] = new)
        BY <2>4
    <2>6. SubmittedIds' = SubmittedIds \cup {id}
        <3>1. \A x \in SubmittedIds' : x \in SubmittedIds \cup {id}
            BY <2>1, <2>5 DEF SubmittedIds
        <3>2. \A x \in SubmittedIds \cup {id} : x \in SubmittedIds'
            BY <2>1, <2>4 DEF SubmittedIds
        <3> QED
            BY <3>1, <3>2
    <2>7. id \notin SubmittedIds
        BY <2>2 DEF PlaceInv
    <2>8. \A i, j \in DOMAIN submitted' : submitted'[i].order_id = submitted'[j].order_id => i = j
        <3>1. \A i \in DOMAIN submitted : submitted[i].order_id # id
            BY <2>7 DEF SubmittedIds
        <3> QED
            BY <2>1, <2>5, <3>1 DEF PlaceInv
    <2> QED
        BY <2>2, <2>3, <2>6, <2>7, <2>8 DEF PlaceInv
<1>4. ASSUME CheckOrder,
             ~ShouldTrigger(Trailed(advanced_orders[check.symbol][position], check.price), check.price)
      PROVE  PlaceInv'
    <2> DEFINE c == check.symbol
               q == advanced_orders[c]
    <2>1. /\ c \in Symbols /\ position \in DOMAIN q
          /\ submitted' = submitted /\ added' = added /\ withdrawn' = withdrawn
          /\ \A s \in Symbols \ {c} : advanced_orders'[s] = advanced_orders[s]
          /\ DOMAIN advanced_orders'[c] = DOMAIN q
          /\ \A i \in DOMAIN q : advanced_orders'[c][i] =
                IF i = position THEN Trailed(q[i], check.price) ELSE q[i]
        BY <1>4, PassingChanges
    <2>2. Trailed(q[position], check.price).order_id = q[position].order_id
        BY <1>4, AtPosition DEF Like
    <2>3. \A s \in Symbols : /\ DOMAIN advanced_orders'[s] = DOMAIN advanced_orders[s]
                             /\ \A i \in DOMAIN advanced_orders[s] :
                                advanced_orders'[s][i].order_id = advanced_orders[s][i].order_id
        BY <2>1, <2>2
    <2>4. PendingIds' = PendingIds
        <3>1. PendingIds' = UNION {{advanced_orders'[s][i].order_id : i \in DOMAIN advanced_orders'[s]} :
                                    s \in Symbols}
            BY DEF PendingIds, Pending, Range
        <3> QED
            BY <2>3, <3>1, PendingIdsProperties
    <2>5. SubmittedIds' = SubmittedIds
        BY <2>1 DEF SubmittedIds
    <2> QED
        BY <2>1, <2>4, <2>5 DEF PlaceInv
<1>5. ASSUME UNCHANGED <<advanced_orders, submitted, added, withdrawn>> PROVE PlaceInv'
    <2>1. PendingIds' = PendingIds /\ SubmittedIds' = SubmittedIds
        BY <1>5 DEF PendingIds, Pending, SubmittedIds
    <2> QED
        BY <1>5, <2>1 DEF PlaceInv
<1>6. ASSUME \/ \E s \in Symbols, p \in MarketPrices : StartCheck(s, p)
             \/ EndCheck \/ UNCHANGED stopVars
      PROVE  UNCHANGED <<advanced_orders, submitted, added, withdrawn>>
    BY <1>6 DEF StartCheck, EndCheck, stopVars
<1> QED
    BY <1>1, <1>2, <1>3, <1>4, <1>5, <1>6 DEF StopsNext

\* A stop is pending, withdrawn or submitted, at any time.
LEMMA PlaceInvariant == StopsSpec => []PlaceInv
<1>1. StopsInit => PlaceInv
    <2> SUFFICES ASSUME StopsInit PROVE PlaceInv
        OBVIOUS
    <2>1. /\ DOMAIN added = {} /\ DOMAIN submitted = {} /\ withdrawn = {}
          /\ \A s \in Symbols : DOMAIN advanced_orders[s] = {}
        BY DEF StopsInit
    <2>2. PendingIds = {} /\ SubmittedIds = {} /\ IdsOf(added) = {}
        BY <2>1, PendingIdsProperties DEF SubmittedIds, IdsOf
    <2> QED
        BY <2>1, <2>2 DEF PlaceInv
<1> QED
    BY <1>1, NextPlaces, StopInvariant, PTL DEF StopsSpec

\* An order that was added is pending, cancelled or in the engine: check_triggers,
\* which erases it from the vector it walks over and hands it to the engine, neither
\* loses it nor leaves it behind to trigger a second time.
THEOREM EachStopTriggersOnce == StopsSpec => []EachTriggersOnce
<1>1. StopInv /\ PlaceInv => EachTriggersOnce
    <2> SUFFICES ASSUME StopInv, PlaceInv PROVE EachTriggersOnce
        OBVIOUS
    <2>1. AddedIds = IdsOf(added)
        BY DEF AddedIds, IdsOf
    <2>2. PendingIds \subseteq IdsOf(added)
        BY PendingIdsProperties DEF StopInv, Known
    <2> QED
        BY <2>1, <2>2, PendingOnce DEF PlaceInv, EachTriggersOnce
<1> QED
    BY <1>1, StopInvariant, PlaceInvariant, PTL

-------------------------------------------------------------------------------
(* Trailing stops *)

\* x is the highest, or the lowest, of the numbers in S.
Highest(x, S) == x \in S /\ \A y \in S : y <= x
Lowest(x, S) == x \in S /\ \A y \in S : x <= y

\* o is what has become of the trailing stop a while the market was at the prices ps.
Follows(o, a, ps) ==
    /\ o.order_id = a.order_id /\ o.side = a.side
    /\ o.trailing_distance = a.trailing_distance
    /\ o.side = "BUY" =>
        Highest(o.trigger_price, {a.trigger_price} \cup {p - o.trailing_distance : p \in ps})
    /\ o.side # "BUY" =>
        Lowest(o.trigger_price, {a.trigger_price} \cup {p + o.trailing_distance : p \in ps})

\* The prices that the order at i of the vector of s has been looked at for.
LookedAt(s, i) ==
    seen[advanced_orders[s][i].order_id] \cup
        (IF check # None /\ check.symbol = s /\ i < position THEN {check.price} ELSE {})

\* Every trailing stop has seen prices, and triggers at its distance from the extreme one.
TrailInv ==
    \A s \in Symbols : \A i \in DOMAIN advanced_orders[s] : Trails(advanced_orders[s][i]) =>
        \E k \in DOMAIN added : Follows(advanced_orders[s][i], added[k], LookedAt(s, i))

\* The highest and the lowest are Max and Min.
LEMMA ExtremeProperties ==
    ASSUME NEW S, NEW x, S \subseteq Int
    PROVE  (Highest(x, S) => x = Max(S)) /\ (Lowest(x, S) => x = Min(S))
<1>1. ASSUME Highest(x, S) PROVE x = Max(S)
    <2>1. x \in S /\ x \in Int /\ \A y \in S : x >= y
        BY <1>1 DEF Highest
    <2>2. Max(S) \in S /\ \A y \in S : Max(S) >= y
        BY <2>1 DEF Max
    <2>3. x >= Max(S) /\ Max(S) >= x /\ Max(S) \in Int
        BY <2>1, <2>2
    <2> QED
        BY <2>1, <2>3
<1>2. ASSUME Lowest(x, S) PROVE x = Min(S)
    <2>1. x \in S /\ x \in Int /\ \A y \in S : x <= y
        BY <1>2 DEF Lowest
    <2>2. Min(S) \in S /\ \A y \in S : Min(S) <= y
        BY <2>1 DEF Min
    <2>3. x <= Min(S) /\ Min(S) <= x /\ Min(S) \in Int
        BY <2>1, <2>2
    <2> QED
        BY <2>1, <2>3
<1> QED
    BY <1>1, <1>2

\* The extreme of one number more.
LEMMA ExtremeOfOneMore ==
    ASSUME NEW S, S \subseteq Int, NEW x \in Int, NEW y \in Int
    PROVE  /\ Highest(x, S) => Max({x, y}) \in Int /\ Highest(Max({x, y}), S \cup {y})
           /\ Lowest(x, S) => Min({x, y}) \in Int /\ Lowest(Min({x, y}), S \cup {y})
<1>1. Highest(IF x >= y THEN x ELSE y, {x, y}) /\ Lowest(IF x <= y THEN x ELSE y, {x, y})
    BY DEF Highest, Lowest
<1>2. Max({x, y}) = (IF x >= y THEN x ELSE y) /\ Min({x, y}) = (IF x <= y THEN x ELSE y)
    <2>1. {x, y} \subseteq Int
        OBVIOUS
    <2> QED
        BY <1>1, <2>1, ExtremeProperties
<1>3. ASSUME Highest(x, S) PROVE Highest(IF x >= y THEN x ELSE y, S \cup {y})
    BY <1>3 DEF Highest
<1>4. ASSUME Lowest(x, S) PROVE Lowest(IF x <= y THEN x ELSE y, S \cup {y})
    BY <1>4 DEF Lowest
<1> QED
    BY <1>2, <1>3, <1>4

\* A round of check_triggers follows one price more.
LEMMA TrailedFollows ==
    ASSUME NEW o \in AdvancedOrder, NEW a \in AdvancedOrder, NEW ps \in SUBSET MarketPrices,
           NEW p \in MarketPrices, Trails(o), Follows(o, a, ps)
    PROVE  Follows(Trailed(o, p), a, ps \cup {p})
<1> DEFINE d == o.trailing_distance
           x == o.trigger_price
           ups == {a.trigger_price} \cup {q - d : q \in ps}
           downs == {a.trigger_price} \cup {q + d : q \in ps}
<1>1. /\ d \in Int /\ x \in Int /\ p \in Int /\ a.trigger_price \in Int
      /\ \A q \in ps : q \in Int
    <2>1. MarketPrices \subseteq Int
        BY AdvancedAssumption
    <2> QED
        BY <2>1 DEF AdvancedOrder
<1>2. ups \subseteq Int /\ downs \subseteq Int /\ p - d \in Int /\ p + d \in Int
    BY <1>1
<1>3. /\ {a.trigger_price} \cup {q - d : q \in ps \cup {p}} = ups \cup {p - d}
      /\ {a.trigger_price} \cup {q + d : q \in ps \cup {p}} = downs \cup {p + d}
    OBVIOUS
<1>4. CASE o.side = "BUY"
    <2>1. Trailed(o, p) = [o EXCEPT !.trigger_price = Max({x, p - d})]
        BY <1>4 DEF Trailed, Trails
    <2> DEFINE y == Max({x, p - d})
    <2>2. Highest(x, ups)
        BY <1>4 DEF Follows
    <2> HIDE DEF x, ups
    <2>3. Highest(y, ups \cup {p - d})
        BY <1>1, <1>2, <2>2, ExtremeOfOneMore
    <2> HIDE DEF y
    <2>4. /\ Trailed(o, p).order_id = o.order_id /\ Trailed(o, p).side = "BUY"
          /\ Trailed(o, p).trailing_distance = d /\ Trailed(o, p).trigger_price = y
        BY <1>4, <2>1 DEF AdvancedOrder, y, x
    <2> HIDE DEF d
    <2>5. o.order_id = a.order_id /\ o.side = a.side /\ d = a.trailing_distance
        BY DEF Follows, d
    <2>6. Highest(y, {a.trigger_price} \cup {q - d : q \in ps \cup {p}})
        BY <1>3, <2>3 DEF ups
    <2> QED
        BY <1>4, <2>4, <2>5, <2>6 DEF Follows
<1>5. CASE o.side # "BUY"
    <2>1. Trailed(o, p) = [o EXCEPT !.trigger_price = Min({x, p + d})]
        BY <1>5 DEF Trailed, Trails
    <2> DEFINE y == Min({x, p + d})
    <2>2. Lowest(x, downs)
        BY <1>5 DEF Follows
    <2> HIDE DEF x, downs
    <2>3. Lowest(y, downs \cup {p + d})
        BY <1>1, <1>2, <2>2, ExtremeOfOneMore
    <2> HIDE DEF y
    <2>4. /\ Trailed(o, p).order_id = o.order_id /\ Trailed(o, p).side = o.side
          /\ Trailed(o, p).trailing_distance = d /\ Trailed(o, p).trigger_price = y
        BY <2>1 DEF AdvancedOrder, y, x
    <2> HIDE DEF d
    <2>5. o.order_id = a.order_id /\ o.side = a.side /\ d = a.trailing_distance
        BY DEF Follows, d
    <2>6. Lowest(y, {a.trigger_price} \cup {q + d : q \in ps \cup {p}})
        BY <1>3, <2>3 DEF downs
    <2> QED
        BY <1>5, <2>4, <2>5, <2>6 DEF Follows
<1> QED
    BY <1>4, <1>5

\* Types of a pending stop and of what it was looked at with.
LEMMA PendingTypes ==
    ASSUME StopInv, NEW s \in Symbols, NEW i \in DOMAIN advanced_orders[s]
    PROVE  /\ advanced_orders[s][i] \in AdvancedOrder /\ i \in Nat
           /\ advanced_orders[s][i].order_id \in Ids
           /\ seen[advanced_orders[s][i].order_id] \in SUBSET MarketPrices
           /\ LookedAt(s, i) \in SUBSET MarketPrices
<1>1. advanced_orders[s] \in Seq(AdvancedOrder)
    BY DEF StopInv, StopsTypeOK
<1>2. i \in Nat /\ advanced_orders[s][i] \in AdvancedOrder
    BY <1>1, ElementOfSeq, LenProperties
<1>3. advanced_orders[s][i].order_id \in Ids
    BY <1>2 DEF AdvancedOrder
<1>4. seen[advanced_orders[s][i].order_id] \in SUBSET MarketPrices
    BY <1>3 DEF StopInv, StopsTypeOK
<1>5. check # None => check.price \in MarketPrices
    BY DEF StopInv, StopsTypeOK
<1> QED
    BY <1>2, <1>3, <1>4, <1>5 DEF LookedAt

\* Orders that stay as they are.
LEMMA StillFollows ==
    ASSUME TrailInv, \A k \in DOMAIN added : k \in DOMAIN added' /\ added'[k] = added[k],
           NEW s \in Symbols, NEW i \in DOMAIN advanced_orders'[s], Trails(advanced_orders'[s][i]),
           NEW j \in DOMAIN advanced_orders[s],
           advanced_orders'[s][i] = advanced_orders[s][j], LookedAt(s, i)' = LookedAt(s, j)
    PROVE  \E k \in DOMAIN added' : Follows(advanced_orders'[s][i], added'[k], LookedAt(s, i)')
<1>1. PICK k \in DOMAIN added : Follows(advanced_orders[s][j], added[k], LookedAt(s, j))
    BY DEF TrailInv
<1> QED
    BY <1>1

\* A new trailing stop starts from the price it was given.
LEMMA AddOrderKeepsTrails ==
    ASSUME StopInv, TrailInv, NEW id \in Ids, NEW r \in Requests, AddOrder(id, r)
    PROVE  TrailInv'
<1> DEFINE o == AdvancedOrderOf(id, r)
           c == r.symbol
           q == advanced_orders[c]
           m == Len(added)
<1>1. /\ check = None /\ id \notin IdsOf(added)
      /\ advanced_orders' = [advanced_orders EXCEPT ![c] = Append(q, o)]
      /\ added' = Append(added, o)
      /\ UNCHANGED <<check, position, submitted, batch, withdrawn, seen>>
    BY DEF AddOrder, AddedIds, IdsOf
<1>2. o \in AdvancedOrder /\ o.order_id = id /\ c \in Symbols
    BY AdvancedOrderOfType
<1>3. added \in Seq(AdvancedOrder) /\ advanced_orders \in [Symbols -> Seq(AdvancedOrder)]
    BY DEF StopInv, StopsTypeOK
<1> HIDE DEF o, c
<1>4. /\ m \in Nat /\ DOMAIN added = 1 .. m /\ DOMAIN added' = 1 .. m + 1
      /\ \A k \in 1 .. m : added'[k] = added[k]
      /\ added'[m + 1] = o
    BY <1>1, <1>2, <1>3, AppendProperties, LenProperties
<1>5. q \in Seq(AdvancedOrder)
    BY <1>2, <1>3
<1> DEFINE t == Append(q, o)
           n == Len(q)
<1>6. /\ n \in Nat /\ DOMAIN q = 1 .. n /\ DOMAIN t = 1 .. n + 1
      /\ \A i \in 1 .. n : t[i] = q[i]
      /\ t[n + 1] = o
    BY <1>2, <1>5, AppendProperties, LenProperties
<1>7. advanced_orders'[c] = t /\ \A s \in Symbols \ {c} : advanced_orders'[s] = advanced_orders[s]
    BY <1>1, <1>2, <1>3
<1> HIDE DEF t, n, m
<1>8. \A k \in DOMAIN added : k \in DOMAIN added' /\ added'[k] = added[k]
    BY <1>4
<1> SUFFICES ASSUME NEW s \in Symbols, NEW i \in DOMAIN advanced_orders'[s], Trails(advanced_orders'[s][i])
             PROVE  \E k \in DOMAIN added' : Follows(advanced_orders'[s][i], added'[k], LookedAt(s, i)')
    BY DEF TrailInv
<1>9. CASE i \in DOMAIN advanced_orders[s] /\ advanced_orders'[s][i] = advanced_orders[s][i]
    <2>1. LookedAt(s, i)' = LookedAt(s, i)
        BY <1>1, <1>9 DEF LookedAt
    <2> QED
        BY <1>8, <1>9, <2>1, StillFollows
<1>10. CASE advanced_orders'[s][i] = o
    <2>1. m + 1 \in DOMAIN added' /\ added'[m + 1] = o
        BY <1>4
    <2>2. LookedAt(s, i)' = {}
        BY <1>1, <1>2, <1>10 DEF LookedAt, StopInv
    <2>3. Follows(o, o, {})
        BY <1>2 DEF Follows, Highest, Lowest, AdvancedOrder
    <2> QED
        BY <1>10, <2>1, <2>2, <2>3
<1>11. \/ i \in DOMAIN advanced_orders[s] /\ advanced_orders'[s][i] = advanced_orders[s][i]
       \/ advanced_orders'[s][i] = o
    <2>1. CASE s = c
        BY <1>6, <1>7, <2>1
    <2>2. CASE s # c
        BY <1>7, <2>2
    <2> QED
        BY <2>1, <2>2
<1> QED
    BY <1>9, <1>10, <1>11

\* Taking one stop out moves the others, and no trigger.
LEMMA CancelKeepsTrails ==
    ASSUME StopInv, TrailInv, NEW id \in Ids, CancelAdvanced(id)
    PROVE  TrailInv'
<1>1. /\ check = None /\ UNCHANGED <<check, position, added, seen>>
    BY CancelErases
<1>2. PICK s \in Symbols : \E k \in DOMAIN advanced_orders[s] :
            Erases(advanced_orders', advanced_orders, s, k)
    BY CancelErases
<1> SUFFICES ASSUME NEW r \in Symbols, NEW i \in DOMAIN advanced_orders'[r], Trails(advanced_orders'[r][i])
             PROVE  \E l \in DOMAIN added' : Follows(advanced_orders'[r][i], added'[l], LookedAt(r, i)')
    BY DEF TrailInv
<1>3. PICK j \in DOMAIN advanced_orders[r] : advanced_orders'[r][i] = advanced_orders[r][j]
    BY <1>2 DEF Erases
<1>4. LookedAt(r, i)' = LookedAt(r, j)
    BY <1>1, <1>3 DEF LookedAt
<1> QED
    BY <1>1, <1>3, <1>4, StillFollows

\* And so when one triggers.
LEMMA TriggeringKeepsTrails ==
    ASSUME StopInv, TrailInv, CheckOrder,
           ShouldTrigger(Trailed(advanced_orders[check.symbol][position], check.price), check.price)
    PROVE  TrailInv'
<1> DEFINE c == check.symbol
<1>1. /\ check # None /\ UNCHANGED <<check, position, added, seen>>
      /\ c \in Symbols /\ Erases(advanced_orders', advanced_orders, c, position)
    BY TriggeringErases
<1> SUFFICES ASSUME NEW s \in Symbols, NEW i \in DOMAIN advanced_orders'[s], Trails(advanced_orders'[s][i])
             PROVE  \E l \in DOMAIN added' : Follows(advanced_orders'[s][i], added'[l], LookedAt(s, i)')
    BY DEF TrailInv
<1>2. CASE s = c
    <2>1. /\ Was(i, position) \in DOMAIN advanced_orders[s]
          /\ advanced_orders'[s][i] = advanced_orders[s][Was(i, position)]
          /\ i \in Nat /\ position \in Nat
        BY <1>1, <1>2 DEF Erases
    <2>2. Was(i, position) < position <=> i < position
        BY <2>1 DEF Was
    <2>3. LookedAt(s, i)' = LookedAt(s, Was(i, position))
        BY <1>1, <2>1, <2>2 DEF LookedAt
    <2> QED
        BY <1>1, <2>1, <2>3, StillFollows
<1>3. CASE s # c
    <2>1. i \in DOMAIN advanced_orders[s] /\ advanced_orders'[s][i] = advanced_orders[s][i]
        BY <1>1, <1>3 DEF Erases
    <2>2. LookedAt(s, i)' = LookedAt(s, i)
        BY <1>1, <1>3, <2>1 DEF LookedAt
    <2> QED
        BY <1>1, <2>1, <2>2, StillFollows
<1> QED
    BY <1>2, <1>3

\* A look at a price keeps or moves the extreme, and the trigger with it.
LEMMA PassingKeepsTrails ==
    ASSUME StopInv, TrailInv, CheckOrder,
           ~ShouldTrigger(Trailed(advanced_orders[check.symbol][position], check.price), check.price)
    PROVE  TrailInv'
<1> DEFINE c == check.symbol
           q == advanced_orders[c]
           p == check.price
<1>1. /\ check # None /\ c \in Symbols /\ position \in 1 .. Len(q) /\ DOMAIN q = 1 .. Len(q)
      /\ position' = position + 1
      /\ UNCHANGED <<check, added, seen>>
      /\ \A s \in Symbols \ {c} : advanced_orders'[s] = advanced_orders[s]
      /\ DOMAIN advanced_orders'[c] = DOMAIN q
      /\ \A i \in DOMAIN q : advanced_orders'[c][i] = IF i = position THEN Trailed(q[i], p) ELSE q[i]
    BY PassingChanges
<1> SUFFICES ASSUME NEW s \in Symbols, NEW i \in DOMAIN advanced_orders'[s], Trails(advanced_orders'[s][i])
             PROVE  \E l \in DOMAIN added' : Follows(advanced_orders'[s][i], added'[l], LookedAt(s, i)')
    BY DEF TrailInv
<1>2. CASE s = c /\ i = position
    <2> DEFINE o == q[position]
    <2>1. /\ o \in AdvancedOrder /\ p \in MarketPrices /\ Like(Trailed(o, p), o)
          /\ advanced_orders'[s][i] = Trailed(o, p) /\ i \in DOMAIN q /\ i \in Nat
        BY <1>1, <1>2, AtPosition
    <2>2. Trails(o) /\ Trailed(o, p).order_id = o.order_id
        BY <2>1 DEF Trails, Like
    <2>3. PICK k \in DOMAIN added : Follows(o, added[k], LookedAt(s, i))
        BY <1>2, <2>1, <2>2 DEF TrailInv
    <2>4. added[k] \in AdvancedOrder
        <3>1. added \in Seq(AdvancedOrder)
            BY DEF StopInv, StopsTypeOK
        <3> QED
            BY <3>1, ElementOfSeq, LenProperties
    <2>5. LookedAt(s, i) \in SUBSET MarketPrices
        BY <1>1, <1>2, PendingTypes
    <2>6. Follows(Trailed(o, p), added[k], LookedAt(s, i) \cup {p})
        BY <2>1, <2>2, <2>3, <2>4, <2>5, TrailedFollows
    <2>7. LookedAt(s, i)' = LookedAt(s, i) \cup {p}
        <3>1. ~(i < position) /\ i < position'
            BY <1>1, <1>2, <2>1
        <3>2. advanced_orders'[s][i].order_id = advanced_orders[s][i].order_id
            BY <1>2, <2>1, <2>2
        <3> QED
            BY <1>1, <1>2, <3>1, <3>2 DEF LookedAt
    <2> QED
        BY <1>1, <2>1, <2>3, <2>6, <2>7
<1>3. CASE s # c \/ i # position
    <2>1. i \in DOMAIN advanced_orders[s] /\ advanced_orders'[s][i] = advanced_orders[s][i]
        BY <1>1, <1>3
    <2>2. s = c => (i < position' <=> i < position)
        BY <1>1, <1>3, <2>1
    <2>3. LookedAt(s, i)' = LookedAt(s, i)
        BY <1>1, <2>1, <2>2 DEF LookedAt
    <2> QED
        BY <1>1, <2>1, <2>3, StillFollows
<1> QED
    BY <1>2, <1>3

\* At the end of the walk all have been looked at.
LEMMA EndCheckKeepsTrails ==
    ASSUME StopInv, TrailInv, EndCheck
    PROVE  TrailInv'
<1> DEFINE c == check.symbol
           p == check.price
<1>1. /\ check # None /\ position > Len(advanced_orders[c]) /\ check' = None
      /\ seen' = [id \in Ids |-> IF id \in PendingIn(c) THEN seen[id] \cup {p} ELSE seen[id]]
      /\ UNCHANGED <<advanced_orders, added>>
    BY DEF EndCheck
<1>2. c \in Symbols /\ position \in Nat
    BY <1>1 DEF StopInv, StopsTypeOK
<1>3. advanced_orders[c] \in Seq(AdvancedOrder)
    BY <1>2 DEF StopInv, StopsTypeOK
<1>4. \A j \in DOMAIN advanced_orders[c] : j < position
    BY <1>1, <1>2, <1>3, LenProperties
<1> SUFFICES ASSUME NEW s \in Symbols, NEW i \in DOMAIN advanced_orders'[s], Trails(advanced_orders'[s][i])
             PROVE  \E l \in DOMAIN added' : Follows(advanced_orders'[s][i], added'[l], LookedAt(s, i)')
    BY DEF TrailInv
<1> DEFINE id == advanced_orders[s][i].order_id
<1>5. i \in DOMAIN advanced_orders[s] /\ id \in Ids
    BY <1>1, PendingTypes
<1>6. id \in PendingIn(c) <=> s = c
    BY <1>2, <1>5, PendingOnce DEF PendingIn
<1>7. LookedAt(s, i)' = seen'[id]
    BY <1>1 DEF LookedAt
<1>8. LookedAt(s, i)' = LookedAt(s, i)
    BY <1>1, <1>4, <1>5, <1>6, <1>7 DEF LookedAt
<1> QED
    BY <1>1, <1>5, <1>8, StillFollows

\* At its start none has been looked at with the new price.
LEMMA StartCheckKeepsTrails ==
    ASSUME StopInv, TrailInv, NEW s \in Symbols, NEW p \in MarketPrices, StartCheck(s, p)
    PROVE  TrailInv'
<1>1. /\ check = None /\ position = 1 /\ UNCHANGED <<advanced_orders, position, added, seen>>
    BY DEF StartCheck, StopInv, WalkInv
<1> SUFFICES ASSUME NEW r \in Symbols, NEW i \in DOMAIN advanced_orders'[r], Trails(advanced_orders'[r][i])
             PROVE  \E l \in DOMAIN added' : Follows(advanced_orders'[r][i], added'[l], LookedAt(r, i)')
    BY DEF TrailInv
<1>2. ~(i < position)
    BY <1>1, LenProperties DEF StopInv, StopsTypeOK
<1>3. LookedAt(r, i)' = LookedAt(r, i)
    BY <1>1, <1>2 DEF LookedAt
<1> QED
    BY <1>1, <1>3, StillFollows

\* Every step keeps the triggers at their distance.
LEMMA NextTrails == StopInv /\ TrailInv /\ [StopsNext]_stopVars => TrailInv'
<1> SUFFICES ASSUME StopInv, TrailInv, [StopsNext]_stopVars PROVE TrailInv'
    OBVIOUS
<1>1. CASE UNCHANGED stopVars
    BY <1>1 DEF stopVars, TrailInv, LookedAt
<1> QED
    BY <1>1, AddOrderKeepsTrails, CancelKeepsTrails, TriggeringKeepsTrails, PassingKeepsTrails,
        EndCheckKeepsTrails, StartCheckKeepsTrails DEF StopsNext

\* Between two checks, the trigger of a trailing stop is at its distance from the
\* best price since it was added, or at its initial price: no price is forgotten
\* and none counts that came before it, through any number of erasures and of
\* other orders in its vector.
THEOREM TrailingStopsFollow == StopsSpec => []TrailingFollows
<1>1. StopsInit => TrailInv
    BY DEF StopsInit, TrailInv
<1>2. StopInv /\ TrailInv => TrailingFollows
    <2> SUFFICES ASSUME StopInv, TrailInv, check = None, NEW k \in DOMAIN added, NEW o \in Pending,
                        o.order_id = added[k].order_id, o.advanced_type = "TRAILING_STOP"
                 PROVE  LET d == o.trailing_distance
                            initial == added[k].trigger_price
                        IN  o.trigger_price =
                                IF o.side = "BUY"
                                THEN Max({initial} \cup {p - d : p \in seen[o.order_id]})
                                ELSE Min({initial} \cup {p + d : p \in seen[o.order_id]})
        BY DEF TrailingFollows
    <2> DEFINE d == o.trailing_distance
               initial == added[k].trigger_price
               ps == seen[o.order_id]
    <2>1. PICK s \in Symbols : o \in Range(advanced_orders[s])
        BY DEF Pending
    <2>2. PICK i \in DOMAIN advanced_orders[s] : o = advanced_orders[s][i]
        BY <2>1 DEF Range
    <2>3. LookedAt(s, i) = ps
        BY <2>2 DEF LookedAt
    <2>4. PICK l \in DOMAIN added : Follows(o, added[l], ps)
        BY <2>2, <2>3 DEF TrailInv, Trails
    <2>5. l = k
        BY <2>4 DEF StopInv, AddedOnce, Follows
    <2>6. o \in AdvancedOrder /\ ps \in SUBSET MarketPrices
        BY <2>2, PendingTypes
    <2>7. added[k] \in AdvancedOrder
        <3>1. added \in Seq(AdvancedOrder)
            BY DEF StopInv, StopsTypeOK
        <3> QED
            BY <3>1, ElementOfSeq, LenProperties
    <2>8. d \in Int /\ initial \in Int /\ \A p \in ps : p \in Int
        <3>1. o.trailing_distance \in Nat
            BY <2>6 DEF AdvancedOrder
        <3>2. added[k].trigger_price \in Int
            BY <2>7 DEF AdvancedOrder
        <3>3. \A p \in ps : p \in Nat
            BY <2>6, AdvancedAssumption
        <3> QED
            BY <3>1, <3>2, <3>3
    <2>9. {initial} \cup {p - d : p \in ps} \subseteq Int /\ {initial} \cup {p + d : p \in ps} \subseteq Int
        BY <2>8
    <2>10. /\ o.side = "BUY" => Highest(o.trigger_price, {initial} \cup {p - d : p \in ps})
           /\ o.side # "BUY" => Lowest(o.trigger_price, {initial} \cup {p + d : p \in ps})
        BY <2>4, <2>5 DEF Follows
    <2> QED
        BY <2>9, <2>10, ExtremeProperties
<1> QED
    BY <1>1, <1>2, NextTrails, StopInvariant, PTL DEF StopsSpec

-------------------------------------------------------------------------------
(* What the engine is given *)

\* o is the order that was added as a, but for the trigger of a trailing stop.
SameRequest(o, a) == Like(o, a) /\ OrderFrom(o) = OrderFrom(a)

\* The order that was submitted is the one added as a, and was due at the price p.
Triggered(new, a, p) == new = OrderFrom(a) /\ (~Trails(a) => ShouldTrigger(a, p))

\* What is pending and what was submitted is as it was requested, and what the
\* running check has submitted was due.
RequestInv ==
    /\ \A s \in Symbols : \A i \in DOMAIN advanced_orders[s] :
        \E k \in DOMAIN added : SameRequest(advanced_orders[s][i], added[k])
    /\ \A j \in DOMAIN submitted : \E k \in DOMAIN added : submitted[j] = OrderFrom(added[k])
    /\ check # None => \A j \in batch + 1 .. Len(submitted) : \E k \in DOMAIN added :
        Triggered(submitted[j], added[k], check.price)

\* The trigger is all that changes while an order is pending.
LEMMA TrailedIsSame ==
    ASSUME NEW o \in AdvancedOrder, NEW p
    PROVE  OrderFrom(Trailed(o, p)) = OrderFrom(o) /\ (~Trails(o) => Trailed(o, p) = o)
<1>1. /\ Trailed(o, p).order_id = o.order_id /\ Trailed(o, p).order_type = o.order_type
      /\ Trailed(o, p).side = o.side /\ Trailed(o, p).quantity = o.quantity
      /\ Trailed(o, p).price = o.price
    BY DEF Trailed, AdvancedOrder
<1>2. OrderFrom(Trailed(o, p)) = OrderFrom(o)
    BY <1>1 DEF OrderFrom
<1> QED
    BY <1>2 DEF Trailed, Trails

\* What the check has at hand is a request, and goes to the engine if it is due.
LEMMA AtPositionRequested ==
    ASSUME StopInv, RequestInv, CheckOrder
    PROVE  LET o == Trailed(advanced_orders[check.symbol][position], check.price)
           IN  \E k \in DOMAIN added :
                /\ SameRequest(o, added[k])
                /\ ShouldTrigger(o, check.price) => Triggered(OrderFrom(o), added[k], check.price)
<1> DEFINE q == advanced_orders[check.symbol][position]
           o == Trailed(q, check.price)
<1>1. q \in AdvancedOrder /\ Like(o, q) /\ check.symbol \in Symbols
      /\ position \in DOMAIN advanced_orders[check.symbol]
    BY AtPosition
<1>2. PICK k \in DOMAIN added : SameRequest(q, added[k])
    BY <1>1 DEF RequestInv
<1>3. OrderFrom(o) = OrderFrom(q) /\ (~Trails(q) => o = q)
    BY <1>1, TrailedIsSame
<1> HIDE DEF o
<1>4. SameRequest(o, added[k])
    BY <1>1, <1>2, <1>3 DEF SameRequest, Like, Trails
<1>5. ShouldTrigger(o, check.price) => Triggered(OrderFrom(o), added[k], check.price)
    BY <1>4 DEF SameRequest, Like, Trails, Triggered
<1> QED
    BY <1>4, <1>5 DEF o

\* A new stop is as its request says.
LEMMA AddOrderKeepsRequests ==
    ASSUME StopInv, RequestInv, NEW id \in Ids, NEW r \in Requests, AddOrder(id, r)
    PROVE  RequestInv'
<1> DEFINE o == AdvancedOrderOf(id, r)
           c == r.symbol
           q == advanced_orders[c]
           n == Len(added)
<1>1. /\ check = None
      /\ advanced_orders' = [advanced_orders EXCEPT ![c] = Append(q, o)]
      /\ added' = Append(added, o)
      /\ UNCHANGED <<check, submitted, batch>>
    BY DEF AddOrder
<1>2. o \in AdvancedOrder /\ c \in Symbols
    BY AdvancedOrderOfType
<1> HIDE DEF o, c
<1>3. added \in Seq(AdvancedOrder) /\ advanced_orders \in [Symbols -> Seq(AdvancedOrder)]
    BY DEF StopInv, StopsTypeOK
<1>4. /\ n \in Nat /\ DOMAIN added = 1 .. n /\ DOMAIN added' = 1 .. n + 1
      /\ \A k \in 1 .. n : added'[k] = added[k]
      /\ added'[n + 1] = o
    BY <1>1, <1>2, <1>3, AppendProperties, LenProperties
<1>5. /\ \A k \in DOMAIN added : k \in DOMAIN added' /\ added'[k] = added[k]
      /\ \E k \in DOMAIN added' : added'[k] = o
    <2> HIDE DEF n
    <2> QED
        BY <1>4
<1>6. q \in Seq(AdvancedOrder)
    BY <1>2, <1>3
<1>7. \A i \in DOMAIN Append(q, o) :
        (i \in DOMAIN q /\ Append(q, o)[i] = q[i]) \/ Append(q, o)[i] = o
    <2> DEFINE m == Len(q)
    <2>1. /\ m \in Nat /\ DOMAIN q = 1 .. m /\ DOMAIN Append(q, o) = 1 .. m + 1
          /\ \A i \in 1 .. m : Append(q, o)[i] = q[i]
          /\ Append(q, o)[m + 1] = o
        BY <1>2, <1>6, AppendProperties, LenProperties
    <2> HIDE DEF m, q
    <2> QED
        BY <2>1
<1>8. \A s \in Symbols : \A i \in DOMAIN advanced_orders'[s] :
        \/ i \in DOMAIN advanced_orders[s] /\ advanced_orders'[s][i] = advanced_orders[s][i]
        \/ advanced_orders'[s][i] = o
    BY <1>1, <1>2, <1>3, <1>7
<1>9. SameRequest(o, o)
    BY DEF SameRequest, Like
<1>10. \A s \in Symbols : \A i \in DOMAIN advanced_orders'[s] :
        \E k \in DOMAIN added' : SameRequest(advanced_orders'[s][i], added'[k])
    BY <1>5, <1>8, <1>9 DEF RequestInv
<1>11. \A j \in DOMAIN submitted' : \E k \in DOMAIN added' : submitted'[j] = OrderFrom(added'[k])
    BY <1>1, <1>5 DEF RequestInv
<1> QED
    BY <1>1, <1>10, <1>11 DEF RequestInv

\* What is submitted is an order as the request says.
LEMMA TriggeringKeepsRequests ==
    ASSUME StopInv, RequestInv, CheckOrder,
           ShouldTrigger(Trailed(advanced_orders[check.symbol][position], check.price), check.price)
    PROVE  RequestInv'
<1> DEFINE new == OrderFrom(Trailed(advanced_orders[check.symbol][position], check.price))
           n == Len(submitted)
<1>1. /\ check # None /\ check.symbol \in Symbols
      /\ UNCHANGED <<check, batch, added>>
      /\ Erases(advanced_orders', advanced_orders, check.symbol, position)
      /\ new \in Order /\ submitted' = Append(submitted, new)
    BY TriggeringErases
<1>2. PICK k \in DOMAIN added : Triggered(new, added[k], check.price)
    BY AtPositionRequested
<1> HIDE DEF new
<1>3. \A s \in Symbols : \A i \in DOMAIN advanced_orders'[s] :
        \E j \in DOMAIN advanced_orders[s] : advanced_orders'[s][i] = advanced_orders[s][j]
    BY <1>1 DEF Erases
<1>4. submitted \in Seq(Order) /\ batch \in Nat
    BY LenProperties DEF StopInv, StopsTypeOK
<1>5. /\ n \in Nat /\ DOMAIN submitted = 1 .. n /\ DOMAIN submitted' = 1 .. n + 1
      /\ Len(submitted') = n + 1
      /\ \A j \in 1 .. n : submitted'[j] = submitted[j]
      /\ submitted'[n + 1] = new
    BY <1>1, <1>4, AppendProperties, LenProperties
<1> HIDE DEF n
<1>6. \A j \in DOMAIN submitted' : \E l \in DOMAIN added : submitted'[j] = OrderFrom(added[l])
    <2>1. \A j \in DOMAIN submitted' : (j \in DOMAIN submitted /\ submitted'[j] = submitted[j])
                                        \/ submitted'[j] = new
        BY <1>5
    <2> QED
        BY <1>2, <2>1 DEF RequestInv, Triggered
<1>7. \A j \in batch + 1 .. Len(submitted') : \E l \in DOMAIN added :
        Triggered(submitted'[j], added[l], check.price)
    <2>1. \A j \in batch + 1 .. Len(submitted') :
            (j \in batch + 1 .. Len(submitted) /\ submitted'[j] = submitted[j]) \/ submitted'[j] = new
        BY <1>4, <1>5 DEF n
    <2> QED
        BY <1>1, <1>2, <2>1 DEF RequestInv
<1>8. \A s \in Symbols : \A i \in DOMAIN advanced_orders'[s] :
        \E l \in DOMAIN added : SameRequest(advanced_orders'[s][i], added[l])
    BY <1>3 DEF RequestInv
<1> QED
    BY <1>1, <1>6, <1>7, <1>8 DEF RequestInv

\* Trailing changes nothing that was requested.
LEMMA PassingKeepsRequests ==
    ASSUME StopInv, RequestInv, CheckOrder,
           ~ShouldTrigger(Trailed(advanced_orders[check.symbol][position], check.price), check.price)
    PROVE  RequestInv'
<1> DEFINE o == Trailed(advanced_orders[check.symbol][position], check.price)
<1>1. /\ UNCHANGED <<submitted, check, batch, added>>
      /\ \A s \in Symbols : \A i \in DOMAIN advanced_orders'[s] :
            \/ i \in DOMAIN advanced_orders[s] /\ advanced_orders'[s][i] = advanced_orders[s][i]
            \/ advanced_orders'[s][i] = o
    BY PassingChanges
<1>2. \E k \in DOMAIN added : SameRequest(o, added[k])
    BY AtPositionRequested
<1> HIDE DEF o
<1> QED
    BY <1>1, <1>2 DEF RequestInv

\* Every step keeps stops and orders as requested.
LEMMA NextRequests == StopInv /\ RequestInv /\ [StopsNext]_stopVars => RequestInv'
<1> SUFFICES ASSUME StopInv, RequestInv, [StopsNext]_stopVars PROVE RequestInv'
    OBVIOUS
<1>1. ASSUME NEW id \in Ids, CancelAdvanced(id) PROVE RequestInv'
    <2>1. check = None /\ UNCHANGED <<check, submitted, batch, added>>
        BY <1>1, CancelErases
    <2>2. PICK r \in Symbols : \E k \in DOMAIN advanced_orders[r] :
            Erases(advanced_orders', advanced_orders, r, k)
        BY <1>1, CancelErases
    <2>3. \A s \in Symbols : \A i \in DOMAIN advanced_orders'[s] :
            \E j \in DOMAIN advanced_orders[s] : advanced_orders'[s][i] = advanced_orders[s][j]
        BY <2>2 DEF Erases
    <2>4. \A s \in Symbols : \A i \in DOMAIN advanced_orders'[s] :
            \E l \in DOMAIN added : SameRequest(advanced_orders'[s][i], added[l])
        BY <2>3 DEF RequestInv
    <2> QED
        BY <2>1, <2>4 DEF RequestInv
<1>2. ASSUME NEW s \in Symbols, NEW p \in MarketPrices, StartCheck(s, p) PROVE RequestInv'
    <2>1. /\ batch' = Len(submitted) /\ UNCHANGED <<advanced_orders, submitted, added>>
        BY <1>2 DEF StartCheck
    <2>2. Len(submitted) \in Nat
        BY LenProperties DEF StopInv, StopsTypeOK
    <2>3. batch' + 1 .. Len(submitted') = {}
        BY <2>1, <2>2
    <2> QED
        BY <2>1, <2>3 DEF RequestInv
<1>3. ASSUME EndCheck PROVE RequestInv'
    BY <1>3 DEF EndCheck, RequestInv
<1>4. ASSUME UNCHANGED stopVars PROVE RequestInv'
    BY <1>4 DEF stopVars, RequestInv
<1> QED
    BY <1>1, <1>2, <1>3, <1>4, AddOrderKeepsRequests, TriggeringKeepsRequests, PassingKeepsRequests
    DEF StopsNext
===============================================================================
