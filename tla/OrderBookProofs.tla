---------------------------- MODULE OrderBookProofs ----------------------------
(***************************************************************************)
(* What holds of OrderBook for every set of ids, prices and offers: the    *)
(* types, that the lookup and the queues agree, time priority, and what is *)
(* left of that when ids are used again.                                   *)
(***************************************************************************)
EXTENDS OrderBook, QueueLemmas

-------------------------------------------------------------------------------
(* Orders *)

\* A fill moves quantity from leaves to filled and keeps what matching goes by.
LEMMA FillProperties ==
    ASSUME NEW o \in Order, NEW q \in Int
    PROVE  /\ Fill(o, q) \in Order
           /\ Fill(o, q).order_id = o.order_id
           /\ Fill(o, q).type = o.type
           /\ Fill(o, q).side = o.side
           /\ Fill(o, q).price = o.price
           /\ Fill(o, q).quantity = o.quantity
           /\ Fill(o, q).filled_quantity = o.filled_quantity + q
           /\ Fill(o, q).leaves_quantity = o.leaves_quantity - q
<1> DEFINE booked == [o EXCEPT !.filled_quantity = @ + q, !.leaves_quantity = @ - q]
           status == IF IsFullyFilled(booked) THEN "FILLED" ELSE "PARTIALLY_FILLED"
<1>0. o.filled_quantity + q \in Int /\ o.leaves_quantity - q \in Int
    BY DEF Order
<1>1. /\ booked \in Order
      /\ booked.order_id = o.order_id
      /\ booked.type = o.type
      /\ booked.side = o.side
      /\ booked.price = o.price
      /\ booked.quantity = o.quantity
      /\ booked.filled_quantity = o.filled_quantity + q
      /\ booked.leaves_quantity = o.leaves_quantity - q
    BY <1>0 DEF Order
<1>2. status \in OrderStatuses
    BY DEF OrderStatuses
<1>3. Fill(o, q) = [booked EXCEPT !.status = status]
    BY DEF Fill
<1> HIDE DEF booked, status
<1> QED
    BY <1>1, <1>2, <1>3 DEF Order

\* IndexOf finds the first order of a queue with the id, and 0 if there is none.
LEMMA IndexOfProperties ==
    ASSUME NEW level \in Seq(Order), NEW id
    PROVE  \/ /\ IndexOf(level, id) = 0
              /\ \A i \in 1 .. Len(level) : level[i].order_id # id
           \/ /\ IndexOf(level, id) \in 1 .. Len(level)
              /\ level[IndexOf(level, id)].order_id = id
<1> DEFINE found == {i \in 1 .. Len(level) : level[i].order_id = id}
<1>1. found \subseteq Nat
    BY LenProperties
<1>2. IndexOf(level, id) = IF found # {} THEN Min(found) ELSE 0
    BY DEF IndexOf, SelectInSeq
<1>3. CASE found = {}
    BY <1>2, <1>3
<1>4. CASE found # {}
    <2>1. Min(found) \in found
        BY <1>1, <1>4, MinProperties
    <2> QED
        BY <1>2, <1>4, <2>1
<1> QED
    BY <1>3, <1>4

-------------------------------------------------------------------------------
(* Books and lookups *)

\* Both maps have their types, and every level holds orders, of its own side
\* and price.
GoodBook(bk) ==
    /\ bk = [side \in Sides |-> bk[side]]
    /\ \A side \in Sides : IsMap(bk[side], Prices, Seq(Order))
    /\ \A side \in Sides : \A p \in DOMAIN bk[side] :
        /\ bk[side][p] # <<>>
        /\ \A i \in DOMAIN bk[side][p] :
            bk[side][p][i].side = side /\ bk[side][p][i].price = p

\* Every place of the book is on record, and every record leads to its order.
Exact(bk, lk) ==
    /\ IsMap(lk, Ids, Location)
    /\ \A side \in Sides : \A p \in DOMAIN bk[side] : \A i \in DOMAIN bk[side][p] :
        /\ bk[side][p][i].order_id \in DOMAIN lk
        /\ lk[bk[side][p][i].order_id] =
            [side |-> side, price_level |-> p, order_index |-> i]
    /\ \A id \in DOMAIN lk :
        /\ lk[id].price_level \in DOMAIN bk[lk[id].side]
        /\ lk[id].order_index \in DOMAIN bk[lk[id].side][lk[id].price_level]
        /\ bk[lk[id].side][lk[id].price_level][lk[id].order_index].order_id = id

\* The order that the record of id leads to.
OrderAt(bk, lk, id) == bk[lk[id].side][lk[id].price_level][lk[id].order_index]

\* The ids on record in lk2 lead to the same orders as before.
SameOrders(bk2, lk2, bk, lk) ==
    \A id \in DOMAIN lk2 : OrderAt(bk2, lk2, id) = OrderAt(bk, lk, id)

\* The id of o leads to o, and the others to the same orders as before.
SameBut(bk2, lk2, bk, lk, o) ==
    \A id \in DOMAIN lk2 :
        OrderAt(bk2, lk2, id) = IF id = o.order_id THEN o ELSE OrderAt(bk, lk, id)

\* A level of a good book is a queue of orders that is not empty.
LEMMA LevelProperties ==
    ASSUME NEW bk, GoodBook(bk), NEW side \in Sides, NEW p \in DOMAIN bk[side]
    PROVE  /\ p \in Nat /\ p \in Prices
           /\ bk[side][p] \in Seq(Order)
           /\ Len(bk[side][p]) \in Nat \ {0}
           /\ DOMAIN bk[side][p] = 1 .. Len(bk[side][p])
           /\ \A i \in 1 .. Len(bk[side][p]) : bk[side][p][i] \in Order
<1>1. /\ p \in Prices
      /\ bk[side][p] \in Seq(Order)
      /\ bk[side][p] # <<>>
    BY DEF GoodBook, IsMap
<1>2. p \in Nat
    BY <1>1, TypesAssumption
<1>3. Len(bk[side][p]) \in Nat \ {0}
    BY <1>1, EmptySeq
<1>4. DOMAIN bk[side][p] = 1 .. Len(bk[side][p])
    BY <1>1, LenProperties
<1>5. \A i \in 1 .. Len(bk[side][p]) : bk[side][p][i] \in Order
    BY <1>1, ElementOfSeq
<1> QED
    BY <1>1, <1>2, <1>3, <1>4, <1>5

\* A record of an exact lookup is where remove_from_book finds the order.
LEMMA RecordProperties ==
    ASSUME NEW bk, NEW lk, GoodBook(bk), Exact(bk, lk), NEW id \in DOMAIN lk
    PROVE  /\ id \in Ids
           /\ lk[id] \in Location
           /\ lk[id].side \in Sides
           /\ lk[id].price_level \in DOMAIN bk[lk[id].side]
           /\ lk[id].order_index \in 1 .. Len(bk[lk[id].side][lk[id].price_level])
           /\ IndexOf(bk[lk[id].side][lk[id].price_level], id) = lk[id].order_index
           /\ Locatable(bk, lk, id)
<1> DEFINE s == lk[id].side
           r == lk[id].price_level
           k == lk[id].order_index
           level == bk[s][r]
<1>1. id \in Ids /\ lk[id] \in Location
    BY DEF Exact, IsMap
<1>2. s \in Sides
    BY <1>1 DEF Location
<1>3. r \in DOMAIN bk[s] /\ k \in DOMAIN level /\ level[k].order_id = id
    BY DEF Exact
<1>4. level \in Seq(Order) /\ DOMAIN level = 1 .. Len(level)
    BY <1>2, <1>3, LevelProperties
<1>5. IndexOf(level, id) \in 1 .. Len(level) /\ level[IndexOf(level, id)].order_id = id
    BY <1>3, <1>4, IndexOfProperties
<1>6. lk[id] = [side |-> s, price_level |-> r, order_index |-> IndexOf(level, id)]
    <2>1. \A i \in DOMAIN bk[s][r] :
            lk[bk[s][r][i].order_id] = [side |-> s, price_level |-> r, order_index |-> i]
        BY <1>2, <1>3 DEF Exact
    <2> QED
        BY <2>1, <1>4, <1>5
<1>7. IndexOf(level, id) = k
    BY <1>6
<1>8. Locatable(bk, lk, id)
    BY <1>3, <1>5 DEF Locatable
<1> QED
    BY <1>1, <1>2, <1>3, <1>4, <1>7, <1>8

-------------------------------------------------------------------------------
(* remove_from_book *)

\* The level at this side and price is the one the record of id leads to.
LevelOf(lk, id, side, p) == side = lk[id].side /\ p = lk[id].price_level

\* Only the level of the removed order changes; it loses the order, and it
\* goes when that was its last one.
LEMMA BookWithoutProperties ==
    ASSUME NEW bk, NEW lk, GoodBook(bk), Exact(bk, lk), NEW id \in DOMAIN lk,
           NEW bk2, bk2 = BookWithout(bk, lk, id)
    PROVE  /\ bk2 = [side \in Sides |-> bk2[side]]
           /\ \A side \in Sides : bk2[side] = [p \in DOMAIN bk2[side] |-> bk2[side][p]]
           /\ \A side \in Sides : \A p :
                ~LevelOf(lk, id, side, p) =>
                    /\ p \in DOMAIN bk2[side] <=> p \in DOMAIN bk[side]
                    /\ p \in DOMAIN bk2[side] => bk2[side][p] = bk[side][p]
           /\ \A side \in Sides : \A p :
                LevelOf(lk, id, side, p) =>
                    /\ p \in DOMAIN bk2[side] <=> Len(bk[side][p]) > 1
                    /\ p \in DOMAIN bk2[side] =>
                        bk2[side][p] = RemoveAt(bk[side][p], lk[id].order_index)
<1> DEFINE s == lk[id].side
           r == lk[id].price_level
           k == lk[id].order_index
           level == bk[s][r]
           rest == RemoveAt(level, k)
<1>1. /\ s \in Sides /\ r \in DOMAIN bk[s] /\ k \in 1 .. Len(level)
      /\ IndexOf(level, id) = k /\ Locatable(bk, lk, id)
    BY RecordProperties
<1>2. bk2 = [bk EXCEPT ![s] = LevelsAfter(bk[s], r, rest)]
    BY <1>1 DEF BookWithout, Erased
<1>3. level \in Seq(Order) /\ Len(level) \in Nat \ {0}
    BY <1>1, LevelProperties
<1>4. rest \in Seq(Order) /\ Len(rest) = Len(level) - 1
    BY <1>1, <1>3, RemoveAtProperties
<1>5. rest = <<>> <=> ~(Len(level) > 1)
    BY <1>3, <1>4, EmptySeq
<1>6. bk = [side \in Sides |-> bk[side]]
    BY DEF GoodBook
<1> HIDE DEF s, r, k, level, rest
<1>7. \A side \in Sides :
        bk2[side] = IF side = s THEN LevelsAfter(bk[s], r, rest) ELSE bk[side]
    BY <1>1, <1>2, <1>6
<1>8. bk2 = [side \in Sides |-> bk2[side]]
    BY <1>2, <1>6
<1>9. \A p : p # r =>
        /\ p \in DOMAIN LevelsAfter(bk[s], r, rest) <=> p \in DOMAIN bk[s]
        /\ p \in DOMAIN bk[s] => LevelsAfter(bk[s], r, rest)[p] = bk[s][p]
    BY DEF LevelsAfter, Without, Restrict
<1>10. /\ r \in DOMAIN LevelsAfter(bk[s], r, rest) <=> Len(level) > 1
       /\ r \in DOMAIN LevelsAfter(bk[s], r, rest) => LevelsAfter(bk[s], r, rest)[r] = rest
    BY <1>1, <1>5 DEF LevelsAfter, Without, Restrict
<1>11. \A side \in Sides : \A p :
        ~LevelOf(lk, id, side, p) =>
            /\ p \in DOMAIN bk2[side] <=> p \in DOMAIN bk[side]
            /\ p \in DOMAIN bk2[side] => bk2[side][p] = bk[side][p]
    BY <1>7, <1>9 DEF LevelOf, s, r
<1>12. \A side \in Sides : \A p :
        LevelOf(lk, id, side, p) =>
            /\ p \in DOMAIN bk2[side] <=> Len(bk[side][p]) > 1
            /\ p \in DOMAIN bk2[side] =>
                bk2[side][p] = RemoveAt(bk[side][p], lk[id].order_index)
    BY <1>7, <1>10 DEF LevelOf, s, r, k, level, rest
<1>13. ASSUME NEW side \in Sides
       PROVE  bk2[side] = [p \in DOMAIN bk2[side] |-> bk2[side][p]]
    <2>1. bk[side] = [p \in DOMAIN bk[side] |-> bk[side][p]]
        BY DEF GoodBook, IsMap
    <2>2. \E T, e : LevelsAfter(bk[s], r, rest) = [p \in T |-> e[p]]
        BY DEF LevelsAfter, Without, Restrict
    <2> QED
        BY <1>7, <2>1, <2>2
<1> QED
    BY <1>8, <1>11, <1>12, <1>13

\* Where the place i of a level was before the order with this id was removed.
Before(lk, id, side, p, i) ==
    IF LevelOf(lk, id, side, p) /\ i >= lk[id].order_index THEN i + 1 ELSE i

\* Every place of the book without the order is a place of the book with it,
\* one further back if it is behind the order in its queue.
LEMMA PlacesAfterRemoval ==
    ASSUME NEW bk, NEW lk, GoodBook(bk), Exact(bk, lk), NEW id \in DOMAIN lk,
           NEW bk2, bk2 = BookWithout(bk, lk, id),
           NEW side \in Sides, NEW p \in DOMAIN bk2[side]
    PROVE  /\ p \in DOMAIN bk[side]
           /\ bk2[side][p] \in Seq(Order)
           /\ bk2[side][p] # <<>>
           /\ DOMAIN bk2[side][p] = 1 .. Len(bk2[side][p])
           /\ Len(bk2[side][p]) =
                IF LevelOf(lk, id, side, p) THEN Len(bk[side][p]) - 1 ELSE Len(bk[side][p])
           /\ \A i \in DOMAIN bk2[side][p] :
                /\ i \in Nat
                /\ Before(lk, id, side, p, i) \in DOMAIN bk[side][p]
                /\ bk2[side][p][i] = bk[side][p][Before(lk, id, side, p, i)]
                /\ bk2[side][p][i].order_id # id
<1> DEFINE k == lk[id].order_index
           level == bk[side][p]
<1>1. k \in 1 .. Len(bk[lk[id].side][lk[id].price_level])
    BY RecordProperties
<1>2. CASE LevelOf(lk, id, side, p)
    <2>1. p \in DOMAIN bk[side]
        BY <1>2, RecordProperties DEF LevelOf
    <2>2. /\ level \in Seq(Order)
          /\ Len(level) \in Nat
          /\ DOMAIN level = 1 .. Len(level)
        BY <2>1, LevelProperties
    <2>3. k \in 1 .. Len(level)
        BY <1>1, <1>2 DEF LevelOf
    <2>4. Len(level) > 1 /\ bk2[side][p] = RemoveAt(level, k)
        BY <1>2, BookWithoutProperties
    <2>5. /\ bk2[side][p] \in Seq(Order)
          /\ Len(bk2[side][p]) = Len(level) - 1
          /\ \A i \in 1 .. Len(level) - 1 :
                bk2[side][p][i] = IF i < k THEN level[i] ELSE level[i + 1]
        <3>1. /\ RemoveAt(level, k) \in Seq(Order)
              /\ Len(RemoveAt(level, k)) = Len(level) - 1
              /\ \A i \in 1 .. Len(level) - 1 :
                    RemoveAt(level, k)[i] = IF i < k THEN level[i] ELSE level[i + 1]
            BY <2>2, <2>3, RemoveAtProperties
        <3> QED
            BY <2>4, <3>1
    <2>6. bk2[side][p] # <<>>
        BY <2>2, <2>4, <2>5, EmptySeq
    <2>7. DOMAIN bk2[side][p] = 1 .. Len(bk2[side][p])
        BY <2>5, LenProperties
    <2>8. ASSUME NEW i \in DOMAIN bk2[side][p]
          PROVE  /\ i \in Nat
                 /\ Before(lk, id, side, p, i) \in DOMAIN level
                 /\ bk2[side][p][i] = level[Before(lk, id, side, p, i)]
                 /\ Before(lk, id, side, p, i) # k
        <3>1. i \in 1 .. Len(level) - 1
            BY <2>5, <2>7
        <3>2. Before(lk, id, side, p, i) = IF i >= k THEN i + 1 ELSE i
            BY <1>2 DEF Before
        <3>3. i < k <=> ~(i >= k)
            BY <3>1, <2>2, <2>3
        <3> QED
            BY <3>1, <3>2, <3>3, <2>2, <2>3, <2>5
    <2>9. ASSUME NEW j \in DOMAIN level, level[j].order_id = id PROVE j = k
        <3>1. lk[level[j].order_id] = [side |-> side, price_level |-> p, order_index |-> j]
            BY <2>1 DEF Exact
        <3> QED
            BY <3>1, <2>9
    <2> QED
        BY <1>2, <2>1, <2>5, <2>6, <2>7, <2>8, <2>9
<1>3. CASE ~LevelOf(lk, id, side, p)
    <2>1. p \in DOMAIN bk[side] /\ bk2[side][p] = level
        BY <1>3, BookWithoutProperties
    <2>2. /\ level \in Seq(Order)
          /\ Len(level) \in Nat \ {0}
          /\ DOMAIN level = 1 .. Len(level)
        BY <2>1, LevelProperties
    <2>3. level # <<>>
        BY <2>1 DEF GoodBook
    <2>4. ASSUME NEW i \in DOMAIN level PROVE level[i].order_id # id
        <3>1. lk[level[i].order_id] = [side |-> side, price_level |-> p, order_index |-> i]
            BY <2>1 DEF Exact
        <3> QED
            BY <3>1, <1>3 DEF LevelOf
    <2>5. \A i : Before(lk, id, side, p, i) = i
        BY <1>3 DEF Before
    <2> QED
        BY <1>3, <2>1, <2>2, <2>3, <2>4, <2>5
<1> QED
    BY <1>2, <1>3

\* The book stays good.
LEMMA RemovalKeepsBook ==
    ASSUME NEW bk, NEW lk, GoodBook(bk), Exact(bk, lk), NEW id \in DOMAIN lk
    PROVE  GoodBook(BookWithout(bk, lk, id))
<1> DEFINE bk2 == BookWithout(bk, lk, id)
<1>1. bk2 = [side \in Sides |-> bk2[side]]
    BY BookWithoutProperties
<1>2. ASSUME NEW side \in Sides, NEW p \in DOMAIN bk2[side]
      PROVE  /\ p \in Prices
             /\ bk2[side][p] \in Seq(Order)
             /\ bk2[side][p] # <<>>
             /\ \A i \in DOMAIN bk2[side][p] :
                    bk2[side][p][i].side = side /\ bk2[side][p][i].price = p
    <2>1. p \in DOMAIN bk[side] /\ p \in Prices
        BY PlacesAfterRemoval, LevelProperties
    <2>2. \A i \in DOMAIN bk[side][p] : bk[side][p][i].side = side /\ bk[side][p][i].price = p
        BY <2>1 DEF GoodBook
    <2> QED
        BY <2>1, <2>2, PlacesAfterRemoval
<1>3. \A side \in Sides : bk2[side] = [p \in DOMAIN bk2[side] |-> bk2[side][p]]
    BY BookWithoutProperties
<1> HIDE DEF bk2
<1>4. \A side \in Sides : IsMap(bk2[side], Prices, Seq(Order))
    BY <1>2, <1>3 DEF IsMap
<1> QED
    BY <1>1, <1>2, <1>4 DEF GoodBook, bk2

\* The place on record for x once id is removed: one further up if it was
\* behind id in its queue.
After(lk, id, x) ==
    IF LevelOf(lk, id, lk[x].side, lk[x].price_level) /\ lk[x].order_index > lk[id].order_index
    THEN [lk[x] EXCEPT !.order_index = @ - 1]
    ELSE lk[x]

\* What is on record once id is removed.
Shifted(lk2, lk, id) ==
    /\ DOMAIN lk2 = DOMAIN lk \ {id}
    /\ \A x \in DOMAIN lk2 : lk2[x] = After(lk, id, x)

\* The record of id goes, and those behind it in its queue move up by one.
LEMMA LookupWithoutProperties ==
    ASSUME NEW bk, NEW lk, GoodBook(bk), Exact(bk, lk), NEW id \in DOMAIN lk
    PROVE  /\ Shifted(LookupWithout(bk, lk, id), lk, id)
           /\ IsMap(LookupWithout(bk, lk, id), Ids, Location)
<1> DEFINE s == lk[id].side
           r == lk[id].price_level
           k == lk[id].order_index
           level == bk[s][r]
           rest == RemoveAt(level, k)
           moved == {x \in Ids : Moved(rest, k, x) # {}}
<1>1. /\ s \in Sides /\ r \in DOMAIN bk[s] /\ k \in 1 .. Len(level)
      /\ IndexOf(level, id) = k /\ Locatable(bk, lk, id)
    BY RecordProperties
<1>2. /\ level \in Seq(Order) /\ Len(level) \in Nat \ {0}
      /\ DOMAIN level = 1 .. Len(level)
    BY <1>1, LevelProperties
<1>3. /\ rest \in Seq(Order) /\ Len(rest) = Len(level) - 1
      /\ \A i \in 1 .. Len(level) - 1 : rest[i] = IF i < k THEN level[i] ELSE level[i + 1]
    BY <1>1, <1>2, RemoveAtProperties
<1>4. DOMAIN rest = 1 .. Len(level) - 1
    BY <1>3, LenProperties
<1>5. LookupWithout(bk, lk, id) = Without(Reindexed(lk, rest, k), id)
    BY <1>1 DEF LookupWithout, Erased
<1>6. \A i \in 1 .. Len(level) :
        /\ level[i].order_id \in DOMAIN lk
        /\ lk[level[i].order_id] = [side |-> s, price_level |-> r, order_index |-> i]
    BY <1>1, <1>2 DEF Exact
<1> HIDE DEF s, r, k, level, rest
<1>7. ASSUME NEW x, NEW i \in Moved(rest, k, x)
      PROVE  /\ x \in DOMAIN lk
             /\ lk[x] = [side |-> s, price_level |-> r, order_index |-> i + 1]
             /\ i >= k /\ i \in Nat
    <2>1. i \in 1 .. Len(level) - 1 /\ i >= k /\ rest[i].order_id = x
        BY <1>4 DEF Moved
    <2>2. i + 1 \in 1 .. Len(level) /\ i \in Nat /\ ~(i < k)
        BY <1>1, <1>2, <2>1
    <2>3. level[i + 1].order_id = x
        BY <1>3, <2>1, <2>2
    <2> QED
        BY <1>6, <2>1, <2>2, <2>3
<1>8. ASSUME NEW x \in DOMAIN lk
      PROVE  IF /\ LevelOf(lk, id, lk[x].side, lk[x].price_level)
                /\ lk[x].order_index > k
             THEN Moved(rest, k, x) = {lk[x].order_index - 1}
             ELSE Moved(rest, k, x) = {}
    <2>1. CASE LevelOf(lk, id, lk[x].side, lk[x].price_level) /\ lk[x].order_index > k
        <3> DEFINE j == lk[x].order_index
        <3>1. j \in 1 .. Len(level) /\ level[j].order_id = x
            BY <2>1, <1>2 DEF Exact, LevelOf, s, r, level
        <3>2. j - 1 \in 1 .. Len(level) - 1 /\ j - 1 >= k /\ (j - 1) + 1 = j
            BY <2>1, <3>1, <1>1, <1>2
        <3>3. rest[j - 1] = level[j]
            BY <3>2, <1>1, <1>2, <1>3
        <3>4. j - 1 \in Moved(rest, k, x)
            BY <3>1, <3>2, <3>3, <1>4 DEF Moved
        <3>5. ASSUME NEW i \in Moved(rest, k, x) PROVE i = j - 1
            <4>1. /\ lk[x] = [side |-> s, price_level |-> r, order_index |-> i + 1]
                  /\ i \in Nat
                BY <1>7
            <4>2. i + 1 = j
                BY <4>1
            <4> QED
                BY <4>1, <4>2
        <3> QED
            BY <2>1, <3>4, <3>5
    <2>2. CASE ~(LevelOf(lk, id, lk[x].side, lk[x].price_level) /\ lk[x].order_index > k)
        <3>1. ASSUME NEW i \in Moved(rest, k, x) PROVE FALSE
            <4>1. /\ lk[x] = [side |-> s, price_level |-> r, order_index |-> i + 1]
                  /\ i >= k /\ i \in Nat
                BY <1>7
            <4>2. i + 1 > k
                BY <4>1, <1>1, <1>2
            <4> QED
                BY <2>2, <4>1, <4>2 DEF LevelOf, s, r
        <3> QED
            BY <2>2, <3>1
    <2> QED
        BY <2>1, <2>2
<1>9. moved \subseteq DOMAIN lk
    BY <1>7
<1>10. \A n \in Nat : Max({n}) = n
    BY DEF Max
<1>11. ASSUME NEW x \in DOMAIN lk
       PROVE  Reindexed(lk, rest, k)[x] = After(lk, id, x)
    <2>1. x \in Ids /\ lk[x] \in Location /\ lk[x].order_index \in Nat
        BY DEF Exact, IsMap, Location
    <2>2. CASE LevelOf(lk, id, lk[x].side, lk[x].price_level) /\ lk[x].order_index > k
        <3>1. Moved(rest, k, x) = {lk[x].order_index - 1} /\ lk[x].order_index - 1 \in Nat
            BY <1>1, <1>2, <1>8, <2>1, <2>2
        <3>2. Max(Moved(rest, k, x)) = lk[x].order_index - 1
            BY <3>1, <1>10
        <3>3. Reindexed(lk, rest, k)[x] = [lk[x] EXCEPT !.order_index = Max(Moved(rest, k, x))]
            BY <1>9, <2>1, <3>1 DEF Reindexed
        <3> QED
            BY <2>2, <3>2, <3>3 DEF After, k
    <2>3. CASE ~(LevelOf(lk, id, lk[x].side, lk[x].price_level) /\ lk[x].order_index > k)
        <3>1. Moved(rest, k, x) = {}
            BY <1>8, <2>3
        <3>2. Reindexed(lk, rest, k)[x] = lk[x]
            BY <1>9, <2>1, <3>1 DEF Reindexed
        <3> QED
            BY <2>3, <3>2 DEF After, k
    <2> QED
        BY <2>2, <2>3
<1>12. DOMAIN Reindexed(lk, rest, k) = DOMAIN lk
    BY <1>9 DEF Reindexed
<1> HIDE DEF moved
<1>13. /\ DOMAIN LookupWithout(bk, lk, id) = DOMAIN lk \ {id}
       /\ \A x \in DOMAIN lk \ {id} : LookupWithout(bk, lk, id)[x] = After(lk, id, x)
       /\ LookupWithout(bk, lk, id) =
            [x \in DOMAIN lk \ {id} |-> LookupWithout(bk, lk, id)[x]]
    BY <1>5, <1>11, <1>12 DEF Without, Restrict
<1>14. ASSUME NEW x \in DOMAIN lk PROVE After(lk, id, x) \in Location /\ x \in Ids
    <2>1. x \in Ids /\ lk[x] \in Location
        BY DEF Exact, IsMap
    <2>2. CASE LevelOf(lk, id, lk[x].side, lk[x].price_level) /\ lk[x].order_index > k
        <3>1. lk[x].order_index - 1 \in Nat
            BY <1>1, <1>2, <2>1, <2>2 DEF Location
        <3> QED
            BY <2>1, <2>2, <3>1 DEF After, Location, k
    <2>3. CASE ~(LevelOf(lk, id, lk[x].side, lk[x].price_level) /\ lk[x].order_index > k)
        BY <2>1, <2>3 DEF After, k
    <2> QED
        BY <2>1, <2>2, <2>3
<1>15. Shifted(LookupWithout(bk, lk, id), lk, id)
    BY <1>13 DEF Shifted
<1> QED
    BY <1>13, <1>14, <1>15 DEF IsMap

\* Removing an order keeps the lookup exact.
LEMMA RemovalKeepsExact ==
    ASSUME NEW bk, NEW lk, GoodBook(bk), Exact(bk, lk), NEW id \in DOMAIN lk,
           NEW bk2, bk2 = BookWithout(bk, lk, id),
           NEW lk2, lk2 = LookupWithout(bk, lk, id)
    PROVE  Exact(bk2, lk2) /\ DOMAIN lk2 = DOMAIN lk \ {id} /\ SameOrders(bk2, lk2, bk, lk)
<1> DEFINE k == lk[id].order_index
<1>1. Shifted(lk2, lk, id)
    BY LookupWithoutProperties
<1>2. /\ DOMAIN lk2 = DOMAIN lk \ {id}
      /\ \A x \in DOMAIN lk2 : lk2[x] = After(lk, id, x)
    BY <1>1 DEF Shifted
<1>3. ASSUME NEW x \in DOMAIN lk2
      PROVE  /\ x \in DOMAIN lk /\ x # id /\ lk2[x] = After(lk, id, x)
             /\ x \in Ids /\ lk[x] \in Location
             /\ lk[x].side \in Sides /\ lk[x].price_level \in DOMAIN bk[lk[x].side]
             /\ lk[x].order_index \in 1 .. Len(bk[lk[x].side][lk[x].price_level])
             /\ Len(bk[lk[x].side][lk[x].price_level]) \in Nat
             /\ bk[lk[x].side][lk[x].price_level][lk[x].order_index].order_id = x
    <2>1. x \in DOMAIN lk /\ x # id /\ lk2[x] = After(lk, id, x)
        BY <1>2
    <2>2. /\ x \in Ids /\ lk[x] \in Location
          /\ lk[x].side \in Sides /\ lk[x].price_level \in DOMAIN bk[lk[x].side]
          /\ lk[x].order_index \in 1 .. Len(bk[lk[x].side][lk[x].price_level])
        BY <2>1, RecordProperties
    <2>3. Len(bk[lk[x].side][lk[x].price_level]) \in Nat
        BY <2>2, LevelProperties
    <2> QED
        BY <2>1, <2>2, <2>3 DEF Exact
<1>4. /\ lk[id].side \in Sides /\ lk[id].price_level \in DOMAIN bk[lk[id].side]
      /\ k \in 1 .. Len(bk[lk[id].side][lk[id].price_level])
      /\ bk[lk[id].side][lk[id].price_level][k].order_id = id
      /\ k \in Nat
    <2>1. /\ lk[id].side \in Sides /\ lk[id].price_level \in DOMAIN bk[lk[id].side]
          /\ k \in 1 .. Len(bk[lk[id].side][lk[id].price_level])
        BY RecordProperties
    <2>2. Len(bk[lk[id].side][lk[id].price_level]) \in Nat
        BY <2>1, LevelProperties
    <2> QED
        BY <2>1, <2>2 DEF Exact
<1>5. IsMap(lk2, Ids, Location)
    BY LookupWithoutProperties
<1>6. ASSUME NEW side \in Sides, NEW p \in DOMAIN bk2[side], NEW i \in DOMAIN bk2[side][p]
      PROVE  /\ bk2[side][p][i].order_id \in DOMAIN lk2
             /\ lk2[bk2[side][p][i].order_id] =
                    [side |-> side, price_level |-> p, order_index |-> i]
    <2> DEFINE j == Before(lk, id, side, p, i)
               x == bk2[side][p][i].order_id
    <2>1. /\ p \in DOMAIN bk[side] /\ i \in Nat /\ j \in DOMAIN bk[side][p]
          /\ x = bk[side][p][j].order_id /\ x # id
        BY PlacesAfterRemoval
    <2>2. /\ x \in DOMAIN lk
          /\ lk[x] = [side |-> side, price_level |-> p, order_index |-> j]
        BY <2>1 DEF Exact
    <2>3. x \in DOMAIN lk2 /\ lk2[x] = After(lk, id, x)
        BY <1>2, <2>1, <2>2
    <2> HIDE DEF x
    <2>4. CASE LevelOf(lk, id, side, p) /\ i >= k
        <3>1. j = i + 1 /\ j > k /\ j - 1 = i
            BY <2>1, <2>4, <1>4 DEF Before
        <3> QED
            BY <2>2, <2>3, <2>4, <3>1 DEF After, x
    <2>5. CASE ~(LevelOf(lk, id, side, p) /\ i >= k)
        <3>1. j = i
            BY <2>5 DEF Before
        <3>2. LevelOf(lk, id, side, p) => ~(i > k)
            BY <2>1, <2>5, <1>4
        <3>3. After(lk, id, x) = lk[x]
            BY <2>2, <3>1, <3>2 DEF After
        <3> QED
            BY <2>2, <2>3, <3>1, <3>3 DEF x
    <2> QED
        BY <2>4, <2>5
<1>7. ASSUME NEW x \in DOMAIN lk2
      PROVE  /\ lk2[x].price_level \in DOMAIN bk2[lk2[x].side]
             /\ lk2[x].order_index \in DOMAIN bk2[lk2[x].side][lk2[x].price_level]
             /\ bk2[lk2[x].side][lk2[x].price_level][lk2[x].order_index].order_id = x
             /\ OrderAt(bk2, lk2, x) = OrderAt(bk, lk, x)
    <2> DEFINE side == lk[x].side
               p == lk[x].price_level
               j == lk[x].order_index
               i == IF LevelOf(lk, id, side, p) /\ j > k THEN j - 1 ELSE j
    <2>1. lk2[x].side = side /\ lk2[x].price_level = p /\ lk2[x].order_index = i
        BY <1>3 DEF After, Location
    <2>2. /\ side \in Sides /\ p \in DOMAIN bk[side] /\ j \in 1 .. Len(bk[side][p])
          /\ Len(bk[side][p]) \in Nat /\ bk[side][p][j].order_id = x /\ x # id
        BY <1>3
    <2>3. LevelOf(lk, id, side, p) => /\ k \in 1 .. Len(bk[side][p])
                                      /\ bk[side][p][k].order_id = id
        BY <1>4 DEF LevelOf
    <2> HIDE DEF side, p, j, k
    <2>4. LevelOf(lk, id, side, p) => j # k
        BY <2>2, <2>3
    <2>5. p \in DOMAIN bk2[side]
        <3>1. CASE LevelOf(lk, id, side, p)
            <4>1. Len(bk[side][p]) > 1
                BY <2>2, <2>3, <2>4, <3>1
            <4> QED
                BY <2>2, <3>1, <4>1, BookWithoutProperties
        <3>2. CASE ~LevelOf(lk, id, side, p)
            BY <2>2, <3>2, BookWithoutProperties
        <3> QED
            BY <3>1, <3>2
    <2>6. /\ DOMAIN bk2[side][p] = 1 .. Len(bk2[side][p])
          /\ Len(bk2[side][p]) =
                IF LevelOf(lk, id, side, p) THEN Len(bk[side][p]) - 1 ELSE Len(bk[side][p])
        BY <2>2, <2>5, PlacesAfterRemoval
    <2>7. i \in DOMAIN bk2[side][p]
        BY <2>2, <2>3, <2>4, <2>6
    <2>8. Before(lk, id, side, p, i) = j
        BY <2>2, <2>3, <2>4 DEF Before, k
    <2>9. bk2[side][p][i] = bk[side][p][j]
        BY <2>2, <2>5, <2>7, <2>8, PlacesAfterRemoval
    <2>10. OrderAt(bk2, lk2, x) = OrderAt(bk, lk, x)
        BY <2>1, <2>9 DEF OrderAt, side, p, j
    <2> QED
        BY <2>1, <2>2, <2>5, <2>7, <2>9, <2>10
<1> QED
    BY <1>2, <1>5, <1>6, <1>7 DEF Exact, SameOrders

-------------------------------------------------------------------------------
(* Filling, modifying and adding an order *)

\* The quantities of an order add up, and none is negative.
Sound(o) ==
    /\ o.filled_quantity >= 0
    /\ o.leaves_quantity >= 0
    /\ o.filled_quantity + o.leaves_quantity = o.quantity

\* What every book and its lookup satisfy.
BookInv(bk, lk) ==
    /\ GoodBook(bk)
    /\ Exact(bk, lk)
    /\ \A side \in Sides : \A p \in DOMAIN bk[side] : \A i \in DOMAIN bk[side][p] :
        Sound(bk[side][p][i])

\* remove_from_book keeps a good book, sound orders and an exact lookup.
LEMMA RemovalKeepsBookInv ==
    ASSUME NEW bk, NEW lk, BookInv(bk, lk), NEW id \in DOMAIN lk
    PROVE  /\ BookInv(BookWithout(bk, lk, id), LookupWithout(bk, lk, id))
           /\ DOMAIN LookupWithout(bk, lk, id) = DOMAIN lk \ {id}
           /\ SameOrders(BookWithout(bk, lk, id), LookupWithout(bk, lk, id), bk, lk)
<1> DEFINE bk2 == BookWithout(bk, lk, id)
           lk2 == LookupWithout(bk, lk, id)
<1>1. GoodBook(bk) /\ Exact(bk, lk)
    BY DEF BookInv
<1>2. /\ GoodBook(bk2) /\ Exact(bk2, lk2) /\ DOMAIN lk2 = DOMAIN lk \ {id}
      /\ SameOrders(bk2, lk2, bk, lk)
    BY <1>1, RemovalKeepsBook, RemovalKeepsExact
<1>3. ASSUME NEW side \in Sides, NEW p \in DOMAIN bk2[side], NEW i \in DOMAIN bk2[side][p]
      PROVE  Sound(bk2[side][p][i])
    <2>1. /\ p \in DOMAIN bk[side]
          /\ Before(lk, id, side, p, i) \in DOMAIN bk[side][p]
          /\ bk2[side][p][i] = bk[side][p][Before(lk, id, side, p, i)]
        BY <1>1, PlacesAfterRemoval
    <2> QED
        BY <2>1 DEF BookInv
<1> QED
    BY <1>2, <1>3 DEF BookInv

\* So does execute_trade or modify_order, changing the quantities of an order where it is.
LEMMA ReplacementKeepsBookInv ==
    ASSUME NEW bk, NEW lk, BookInv(bk, lk), NEW side \in Sides,
           NEW p \in DOMAIN bk[side], NEW i \in DOMAIN bk[side][p],
           NEW o \in Order, Sound(o), o.order_id = bk[side][p][i].order_id,
           o.side = side, o.price = p,
           NEW bk2, bk2 = [bk EXCEPT ![side][p][i] = o]
    PROVE  BookInv(bk2, lk) /\ bk2[side][p][i] = o /\ SameBut(bk2, lk, bk, lk, o)
<1>1. GoodBook(bk) /\ Exact(bk, lk)
    BY DEF BookInv
<1>2. /\ bk = [t \in Sides |-> bk[t]]
      /\ bk[side] = [q \in DOMAIN bk[side] |-> bk[side][q]]
    BY <1>1 DEF GoodBook, IsMap
<1>3. /\ bk[side][p] \in Seq(Order)
      /\ i \in 1 .. Len(bk[side][p])
      /\ DOMAIN bk[side][p] = 1 .. Len(bk[side][p])
    BY <1>1, LevelProperties
<1> DEFINE level == [bk[side][p] EXCEPT ![i] = o]
<1>4. /\ level \in Seq(Order)
      /\ Len(level) = Len(bk[side][p])
      /\ \A j \in 1 .. Len(bk[side][p]) : level[j] = IF j = i THEN o ELSE bk[side][p][j]
    BY <1>3, ExceptSeq
<1>5. DOMAIN level = DOMAIN bk[side][p]
    BY <1>3
<1>6. bk2 = [bk EXCEPT ![side] = [bk[side] EXCEPT ![p] = level]]
    OBVIOUS
<1> HIDE DEF level
<1>7. /\ bk2 = [t \in Sides |-> bk2[t]]
      /\ \A t \in Sides : DOMAIN bk2[t] = DOMAIN bk[t]
      /\ \A t \in Sides : \A q \in DOMAIN bk[t] :
            bk2[t][q] = IF t = side /\ q = p THEN level ELSE bk[t][q]
    <2>1. bk2 = [t \in Sides |-> bk2[t]]
        BY <1>2, <1>6
    <2>2. bk2[side] = [bk[side] EXCEPT ![p] = level]
        BY <1>2, <1>6
    <2>3. \A t \in Sides : t # side => bk2[t] = bk[t]
        BY <1>2, <1>6
    <2>4. DOMAIN bk2[side] = DOMAIN bk[side]
        BY <1>2, <2>2
    <2>5. \A q \in DOMAIN bk[side] : bk2[side][q] = IF q = p THEN level ELSE bk[side][q]
        BY <1>2, <2>2
    <2> QED
        BY <2>1, <2>3, <2>4, <2>5
<1>8. \A t \in Sides : \A q \in DOMAIN bk[t] :
        /\ DOMAIN bk2[t][q] = DOMAIN bk[t][q]
        /\ \A j \in DOMAIN bk[t][q] :
            bk2[t][q][j] = IF t = side /\ q = p /\ j = i THEN o ELSE bk[t][q][j]
    BY <1>3, <1>4, <1>5, <1>7
<1>9. \A t \in Sides : \A q \in DOMAIN bk[t] :
        q \in Prices /\ bk2[t][q] \in Seq(Order) /\ bk2[t][q] # <<>>
    <2>1. \A t \in Sides : \A q \in DOMAIN bk[t] :
            q \in Prices /\ bk[t][q] \in Seq(Order) /\ bk[t][q] # <<>>
        BY <1>1 DEF GoodBook, IsMap
    <2>2. level # <<>>
        BY <1>3, <1>4, LenProperties, EmptySeq
    <2> QED
        BY <1>4, <1>7, <2>1, <2>2
<1>10. \A t \in Sides : bk2[t] = [q \in DOMAIN bk2[t] |-> bk2[t][q]]
    <2>1. \A t \in Sides : bk[t] = [q \in DOMAIN bk[t] |-> bk[t][q]]
        BY <1>1 DEF GoodBook, IsMap
    <2>2. bk2[side] = [bk[side] EXCEPT ![p] = level]
        BY <1>2, <1>6
    <2>3. \A t \in Sides : t # side => bk2[t] = bk[t]
        BY <1>2, <1>6
    <2> QED
        BY <2>1, <2>2, <2>3
<1>11. \A t \in Sides : IsMap(bk2[t], Prices, Seq(Order))
    BY <1>7, <1>9, <1>10 DEF IsMap
<1>12. \A t \in Sides : \A q \in DOMAIN bk2[t] : \A j \in DOMAIN bk2[t][q] :
        /\ bk2[t][q][j].side = t /\ bk2[t][q][j].price = q
        /\ bk2[t][q][j].order_id = bk[t][q][j].order_id
        /\ Sound(bk2[t][q][j])
    <2>1. \A t \in Sides : \A q \in DOMAIN bk[t] : \A j \in DOMAIN bk[t][q] :
            /\ bk[t][q][j].side = t /\ bk[t][q][j].price = q
            /\ Sound(bk[t][q][j])
        BY <1>1 DEF GoodBook, BookInv
    <2> QED
        BY <1>7, <1>8, <2>1
<1>13. GoodBook(bk2)
    <2>1. \A t \in Sides : \A q \in DOMAIN bk2[t] :
            /\ bk2[t][q] # <<>>
            /\ \A j \in DOMAIN bk2[t][q] : bk2[t][q][j].side = t /\ bk2[t][q][j].price = q
        BY <1>7, <1>9, <1>12
    <2>2. bk2 = [t \in Sides |-> bk2[t]]
        BY <1>7
    <2> QED
        BY <1>11, <2>1, <2>2 DEF GoodBook
<1>14. Exact(bk2, lk)
    <2>1. \A id \in DOMAIN lk : lk[id].side \in Sides
        BY <1>1, RecordProperties
    <2>2. \A id \in DOMAIN lk :
            /\ lk[id].price_level \in DOMAIN bk2[lk[id].side]
            /\ lk[id].order_index \in DOMAIN bk2[lk[id].side][lk[id].price_level]
            /\ bk2[lk[id].side][lk[id].price_level][lk[id].order_index].order_id = id
        BY <1>1, <1>7, <1>8, <1>12, <2>1 DEF Exact
    <2>3. \A t \in Sides : \A q \in DOMAIN bk2[t] : \A j \in DOMAIN bk2[t][q] :
            /\ bk2[t][q][j].order_id \in DOMAIN lk
            /\ lk[bk2[t][q][j].order_id] = [side |-> t, price_level |-> q, order_index |-> j]
        <3>1. SUFFICES ASSUME NEW t \in Sides, NEW q \in DOMAIN bk2[t],
                               NEW j \in DOMAIN bk2[t][q]
                       PROVE  /\ bk2[t][q][j].order_id \in DOMAIN lk
                              /\ lk[bk2[t][q][j].order_id] =
                                    [side |-> t, price_level |-> q, order_index |-> j]
            OBVIOUS
        <3>2. q \in DOMAIN bk[t] /\ j \in DOMAIN bk[t][q]
            BY <1>7, <1>8
        <3>3. /\ bk[t][q][j].order_id \in DOMAIN lk
              /\ lk[bk[t][q][j].order_id] =
                    [side |-> t, price_level |-> q, order_index |-> j]
            BY <1>1, <3>2 DEF Exact
        <3>4. bk2[t][q][j].order_id = bk[t][q][j].order_id
            BY <1>12
        <3> QED
            BY <3>3, <3>4
    <2> QED
        BY <1>1, <2>2, <2>3 DEF Exact
<1>15. ASSUME NEW id \in DOMAIN lk
       PROVE  OrderAt(bk2, lk, id) = IF id = o.order_id THEN o ELSE OrderAt(bk, lk, id)
    <2> DEFINE t == lk[id].side
               q == lk[id].price_level
               j == lk[id].order_index
    <2>1. /\ t \in Sides /\ q \in DOMAIN bk[t] /\ j \in DOMAIN bk[t][q]
          /\ bk[t][q][j].order_id = id
        BY <1>1, RecordProperties DEF Exact
    <2>2. lk[o.order_id] = [side |-> side, price_level |-> p, order_index |-> i]
        BY <1>1 DEF Exact
    <2>3. id = o.order_id <=> t = side /\ q = p /\ j = i
        BY <2>1, <2>2
    <2>4. bk2[t][q][j] = IF id = o.order_id THEN o ELSE bk[t][q][j]
        BY <1>8, <2>1, <2>3
    <2> QED
        BY <2>4 DEF OrderAt
<1>16. BookInv(bk2, lk)
    BY <1>12, <1>13, <1>14 DEF BookInv
<1>17. SameBut(bk2, lk, bk, lk, o)
    BY <1>15 DEF SameBut
<1> QED
    BY <1>3, <1>8, <1>16, <1>17

\* And so does adding an order that is not there yet.
LEMMA JoiningKeepsBookInv ==
    ASSUME NEW bk, NEW lk, BookInv(bk, lk), NEW o \in Order, Sound(o),
           o.order_id \notin DOMAIN lk
    PROVE  /\ BookInv(BookWith(bk, o), LookupWith(bk, lk, o))
           /\ DOMAIN LookupWith(bk, lk, o) = DOMAIN lk \cup {o.order_id}
           /\ SameBut(BookWith(bk, o), LookupWith(bk, lk, o), bk, lk, o)
<1> DEFINE s == o.side
           r == o.price
           queue == QueueAt(bk[s], r)
           n == Len(queue)
           longer == Append(queue, o)
           bk2 == BookWith(bk, o)
           lk2 == LookupWith(bk, lk, o)
<1>1. GoodBook(bk) /\ Exact(bk, lk)
    BY DEF BookInv
<1>2. s \in Sides /\ r \in Prices /\ o.order_id \in Ids
    BY DEF Order
<1>3. queue \in Seq(Order)
    <2>1. CASE r \in DOMAIN bk[s]
        BY <1>1, <1>2, <2>1, LevelProperties DEF QueueAt
    <2>2. CASE r \notin DOMAIN bk[s]
        BY <2>2, EmptySeq DEF QueueAt
    <2> QED
        BY <2>1, <2>2
<1>4. /\ n \in Nat
      /\ DOMAIN queue = 1 .. n
      /\ longer \in Seq(Order)
      /\ longer # <<>>
      /\ Len(longer) = n + 1
      /\ \A j \in 1 .. n : longer[j] = queue[j]
      /\ longer[n + 1] = o
    BY <1>3, AppendProperties, LenProperties
<1>5. DOMAIN longer = 1 .. n + 1
    BY <1>4, LenProperties
<1>6. bk2 = [bk EXCEPT ![s] =
        [p \in DOMAIN bk[s] \cup {r} |->
            IF p = r THEN Append(QueueAt(bk[s], p), o) ELSE bk[s][p]]]
    BY DEF BookWith, Joined
<1>7. lk2 = [id \in DOMAIN lk \cup {o.order_id} |->
        IF id = o.order_id
        THEN [side |-> s, price_level |-> r, order_index |-> n + 1] ELSE lk[id]]
    BY DEF LookupWith
<1>8. bk = [t \in Sides |-> bk[t]] /\ \A t \in Sides : IsMap(bk[t], Prices, Seq(Order))
    BY <1>1 DEF GoodBook
<1>9. /\ bk2 = [t \in Sides |-> bk2[t]]
      /\ bk2[s] = [p \in DOMAIN bk[s] \cup {r} |-> IF p = r THEN longer ELSE bk[s][p]]
      /\ \A t \in Sides : t # s => bk2[t] = bk[t]
    BY <1>2, <1>6, <1>8
<1> HIDE DEF s, r, n, longer, queue, bk2, lk2
<1>10. \A t \in Sides : \A q \in DOMAIN bk[t] :
        /\ q \in Prices /\ bk[t][q] \in Seq(Order) /\ bk[t][q] # <<>>
        /\ DOMAIN bk[t][q] = 1 .. Len(bk[t][q]) /\ Len(bk[t][q]) \in Nat
    BY <1>1, LevelProperties DEF GoodBook
<1>11. /\ r \in DOMAIN bk2[s] /\ bk2[s][r] = longer
       /\ \A p \in DOMAIN bk2[s] : p # r => p \in DOMAIN bk[s] /\ bk2[s][p] = bk[s][p]
       /\ \A p \in DOMAIN bk[s] : p \in DOMAIN bk2[s]
    BY <1>9
<1>12. r \in DOMAIN bk[s] => queue = bk[s][r]
    BY DEF QueueAt, queue, s, r
<1>13. r \notin DOMAIN bk[s] => n = 0
    BY EmptySeq DEF QueueAt, queue, s, r, n
<1>14. \* Every place of the new book is an old one or the new order's.
       ASSUME NEW t \in Sides, NEW q \in DOMAIN bk2[t], NEW j \in DOMAIN bk2[t][q]
       PROVE  \/ /\ q \in DOMAIN bk[t] /\ j \in DOMAIN bk[t][q]
                 /\ bk2[t][q][j] = bk[t][q][j]
              \/ t = s /\ q = r /\ j = n + 1 /\ bk2[t][q][j] = o
    <2>1. CASE t = s /\ q = r
        <3>1. bk2[t][q] = longer /\ j \in 1 .. n + 1
            BY <1>5, <1>11, <2>1
        <3>2. CASE j = n + 1
            BY <1>4, <2>1, <3>1, <3>2
        <3>3. CASE j \in 1 .. n
            <4>1. r \in DOMAIN bk[s]
                BY <1>4, <1>13, <3>3
            <4> QED
                BY <1>4, <1>12, <2>1, <3>1, <3>3, <4>1
        <3>4. j = n + 1 \/ j \in 1 .. n
            BY <1>4, <3>1
        <3> QED
            BY <3>2, <3>3, <3>4
    <2>2. CASE ~(t = s /\ q = r)
        BY <1>9, <1>11, <2>2
    <2> QED
        BY <2>1, <2>2
<1>15. \* Every old place is still there.
       ASSUME NEW t \in Sides, NEW q \in DOMAIN bk[t], NEW j \in DOMAIN bk[t][q]
       PROVE  /\ q \in DOMAIN bk2[t] /\ j \in DOMAIN bk2[t][q]
              /\ bk2[t][q][j] = bk[t][q][j]
    <2>1. CASE t = s /\ q = r
        BY <1>4, <1>5, <1>11, <1>12, <2>1
    <2>2. CASE ~(t = s /\ q = r)
        BY <1>9, <1>11, <2>2
    <2> QED
        BY <2>1, <2>2
<1>16. \A t \in Sides : \A q \in DOMAIN bk2[t] :
        q \in Prices /\ bk2[t][q] \in Seq(Order) /\ bk2[t][q] # <<>>
    BY <1>2, <1>4, <1>9, <1>10, <1>11 DEF r
<1>17. \A t \in Sides : IsMap(bk2[t], Prices, Seq(Order))
    <2>1. \A t \in Sides : bk2[t] = [q \in DOMAIN bk2[t] |-> bk2[t][q]]
        BY <1>8, <1>9 DEF IsMap
    <2> QED
        BY <1>16, <2>1 DEF IsMap
<1>18. \A t \in Sides : \A q \in DOMAIN bk2[t] : \A j \in DOMAIN bk2[t][q] :
        /\ bk2[t][q][j].side = t /\ bk2[t][q][j].price = q
        /\ Sound(bk2[t][q][j])
    <2>1. \A t \in Sides : \A q \in DOMAIN bk[t] : \A j \in DOMAIN bk[t][q] :
            /\ bk[t][q][j].side = t /\ bk[t][q][j].price = q
            /\ Sound(bk[t][q][j])
        BY <1>1 DEF GoodBook, BookInv
    <2> QED
        BY <1>14, <2>1 DEF s, r
<1>19. GoodBook(bk2)
    BY <1>9, <1>16, <1>17, <1>18 DEF GoodBook
<1>20. /\ DOMAIN lk2 = DOMAIN lk \cup {o.order_id}
       /\ lk2[o.order_id] = [side |-> s, price_level |-> r, order_index |-> n + 1]
       /\ \A id \in DOMAIN lk : id # o.order_id /\ lk2[id] = lk[id]
    BY <1>7
<1>21. IsMap(lk2, Ids, Location)
    <2>1. [side |-> s, price_level |-> r, order_index |-> n + 1] \in Location
        BY <1>2, <1>4 DEF Location, s, r
    <2>2. lk2 = [id \in DOMAIN lk2 |-> lk2[id]]
        BY <1>7
    <2>3. DOMAIN lk \subseteq Ids /\ \A id \in DOMAIN lk : lk[id] \in Location
        BY <1>1 DEF Exact, IsMap
    <2>4. \A id \in DOMAIN lk2 : id \in Ids /\ lk2[id] \in Location
        BY <1>2, <1>20, <2>1, <2>3
    <2> QED
        BY <2>2, <2>4 DEF IsMap
<1>22. ASSUME NEW t \in Sides, NEW q \in DOMAIN bk2[t], NEW j \in DOMAIN bk2[t][q]
       PROVE  /\ bk2[t][q][j].order_id \in DOMAIN lk2
              /\ lk2[bk2[t][q][j].order_id] =
                    [side |-> t, price_level |-> q, order_index |-> j]
    <2>1. CASE /\ q \in DOMAIN bk[t] /\ j \in DOMAIN bk[t][q]
               /\ bk2[t][q][j] = bk[t][q][j]
        <3>1. /\ bk[t][q][j].order_id \in DOMAIN lk
              /\ lk[bk[t][q][j].order_id] =
                    [side |-> t, price_level |-> q, order_index |-> j]
            BY <1>1, <2>1 DEF Exact
        <3> QED
            BY <1>20, <2>1, <3>1
    <2>2. CASE t = s /\ q = r /\ j = n + 1 /\ bk2[t][q][j] = o
        BY <1>20, <2>2
    <2> QED
        BY <1>14, <2>1, <2>2
<1>23. ASSUME NEW id \in DOMAIN lk2
       PROVE  /\ lk2[id].price_level \in DOMAIN bk2[lk2[id].side]
              /\ lk2[id].order_index \in DOMAIN bk2[lk2[id].side][lk2[id].price_level]
              /\ bk2[lk2[id].side][lk2[id].price_level][lk2[id].order_index].order_id = id
    <2>1. CASE id \in DOMAIN lk
        <3>1. /\ lk[id].side \in Sides
              /\ lk[id].price_level \in DOMAIN bk[lk[id].side]
              /\ lk[id].order_index \in DOMAIN bk[lk[id].side][lk[id].price_level]
              /\ bk[lk[id].side][lk[id].price_level][lk[id].order_index].order_id = id
            BY <1>1, <2>1, RecordProperties DEF Exact
        <3> QED
            BY <1>15, <1>20, <2>1, <3>1
    <2>2. CASE id = o.order_id
        <3>1. n + 1 \in 1 .. n + 1
            BY <1>4
        <3>2. bk2[s][r] = longer /\ longer[n + 1] = o /\ r \in DOMAIN bk2[s]
            BY <1>4, <1>11
        <3> QED
            BY <1>5, <1>20, <2>2, <3>1, <3>2
    <2> QED
        BY <1>20, <2>1, <2>2
<1>24. Exact(bk2, lk2)
    BY <1>21, <1>22, <1>23 DEF Exact
<1>25. OrderAt(bk2, lk2, o.order_id) = o
    BY <1>4, <1>11, <1>20 DEF OrderAt
<1>26. ASSUME NEW id \in DOMAIN lk
       PROVE  OrderAt(bk2, lk2, id) = OrderAt(bk, lk, id)
    <2>1. /\ lk[id].side \in Sides
          /\ lk[id].price_level \in DOMAIN bk[lk[id].side]
          /\ lk[id].order_index \in DOMAIN bk[lk[id].side][lk[id].price_level]
        BY <1>1, RecordProperties DEF Exact
    <2> QED
        BY <1>15, <1>20, <2>1 DEF OrderAt
<1>27. BookInv(bk2, lk2)
    BY <1>18, <1>19, <1>24 DEF BookInv
<1>28. SameBut(bk2, lk2, bk, lk, o)
    BY <1>20, <1>25, <1>26 DEF SameBut
<1> QED
    BY <1>20, <1>27, <1>28 DEF bk2, lk2

-------------------------------------------------------------------------------
(* The inductive invariant of FreshRules *)

\* The types, in the form the proofs use.
StateTypes ==
    /\ phase \in Phases
    /\ order \in Order \cup {None}
    /\ trade \in Trade \cup {None}
    /\ objects \in [Ids -> Order \cup {None}]
    /\ arrivals \in Seq(Ids)
    /\ executed \in [Ids -> Nat]
    /\ cancelled \subseteq Ids

\* The order being matched is new to the book; those on record and those
\* cancelled came back to their callers before, and are not the same.
CallInv ==
    /\ phase = "idle" <=> order = None
    /\ order # None => Sound(order) /\ objects[order.order_id] = None
    /\ \A id \in DOMAIN lookup \cup cancelled : objects[id] # None
    /\ DOMAIN lookup \cap cancelled = {}
    /\ trade # None =>
        /\ order # None
        /\ trade.maker_order_id \notin cancelled
        /\ order.type # "MARKET" => WithinLimit(order, trade.price)

\* The inductive invariant of the book.
IInv ==
    /\ StateTypes
    /\ BookInv(book, lookup)
    /\ CallInv

\* The ids on record are those of the resting orders.
LEMMA RestingOnRecord ==
    ASSUME NEW bk, NEW lk, Exact(bk, lk), bk = book, GoodBook(bk)
    PROVE  RestingIds = DOMAIN lk
<1>1. ASSUME NEW id \in RestingIds PROVE id \in DOMAIN lk
    <2>1. PICK o \in Resting : o.order_id = id
        BY DEF RestingIds
    <2>2. PICK side \in Sides : o \in RestingOn(side)
        BY <2>1 DEF Resting, Sides
    <2>3. PICK p \in DOMAIN bk[side] : o \in Range(bk[side][p])
        BY <2>2 DEF RestingOn
    <2>4. PICK i \in DOMAIN bk[side][p] : o = bk[side][p][i]
        BY <2>3 DEF Range
    <2> QED
        BY <2>1, <2>4 DEF Exact
<1>2. ASSUME NEW id \in DOMAIN lk PROVE id \in RestingIds
    <2> DEFINE s == lk[id].side
               r == lk[id].price_level
               k == lk[id].order_index
    <2>1. /\ s \in Sides /\ r \in DOMAIN bk[s] /\ k \in DOMAIN bk[s][r]
          /\ bk[s][r][k].order_id = id
        BY RecordProperties DEF Exact
    <2> HIDE DEF s, r, k
    <2>2. bk[s][r][k] \in Range(bk[s][r])
        BY <2>1 DEF Range
    <2>3. bk[s][r][k] \in RestingOn(s)
        BY <2>1, <2>2 DEF RestingOn
    <2>4. bk[s][r][k] \in Resting
        BY <2>1, <2>3 DEF Resting, Sides
    <2> QED
        BY <2>1, <2>4 DEF RestingIds
<1> QED
    BY <1>1, <1>2

\* The invariant implies the properties that the runs check.
LEMMA IInvImplies ==
    ASSUME IInv
    PROVE  /\ TypeOK
           /\ LevelsWellFormed
           /\ LookupExact
           /\ NeverOverfilled
           /\ CancelledStaysOut
           /\ LimitRespected
<1>1. GoodBook(book) /\ Exact(book, lookup) /\ StateTypes /\ CallInv
    BY DEF IInv, BookInv
<1>2. TypeOK
    BY <1>1 DEF TypeOK, GoodBook, Exact, StateTypes
<1>3. LevelsWellFormed
    BY <1>1 DEF LevelsWellFormed, GoodBook, Range
<1>4. RestingIds = DOMAIN lookup
    BY <1>1, RestingOnRecord
<1>5. LookupExact
    BY <1>1, <1>4 DEF LookupExact, Exact
<1>6. NeverOverfilled
    <2>1. ASSUME NEW o \in Resting PROVE Sound(o)
        <3>1. PICK side \in Sides : o \in RestingOn(side)
            BY DEF Resting, Sides
        <3>2. PICK p \in DOMAIN book[side] : o \in Range(book[side][p])
            BY <3>1 DEF RestingOn
        <3>3. PICK i \in DOMAIN book[side][p] : o = book[side][p][i]
            BY <3>2 DEF Range
        <3> QED
            BY <3>3 DEF IInv, BookInv
    <2>2. order # None => Sound(order)
        BY <1>1 DEF CallInv
    <2> QED
        BY <2>1, <2>2 DEF NeverOverfilled, Sound
<1>7. CancelledStaysOut
    BY <1>1, <1>4 DEF CancelledStaysOut, CallInv
<1>8. LimitRespected
    BY <1>1 DEF LimitRespected, CallInv
<1> QED
    BY <1>2, <1>3, <1>5, <1>6, <1>7, <1>8

\* An empty book satisfies the invariant.
LEMMA InitIInv == Init => IInv
<1> SUFFICES ASSUME Init PROVE IInv
    OBVIOUS
<1>1. StateTypes
    <2>1. <<>> \in Seq(Ids)
        BY EmptySeq
    <2> QED
        BY <2>1 DEF Init, StateTypes, Phases
<1>2. \A side \in Sides : DOMAIN book[side] = {} /\ book[side] = [p \in {} |-> <<>>]
    BY DEF Init
<1>3. GoodBook(book)
    BY <1>2 DEF Init, GoodBook, IsMap
<1>4. DOMAIN lookup = {} /\ lookup = [id \in {} |-> DefaultLocation]
    BY DEF Init
<1>5. Exact(book, lookup)
    BY <1>2, <1>4 DEF Exact, IsMap
<1>6. CallInv
    BY <1>4 DEF Init, CallInv
<1> QED
    BY <1>1, <1>2, <1>3, <1>5, <1>6 DEF IInv, BookInv

\* add_order up to matching: the order is new, sound and not on record yet.
LEMMA SubmitOrderKeepsIInv ==
    ASSUME IInv, NEW o \in Offers, objects[o.order_id] = None, SubmitOrder(o)
    PROVE  IInv'
<1>1. o \in Order /\ o.order_id \in Ids
    BY BookAssumption DEF Order
<1>2. /\ o.filled_quantity = 0 /\ o.leaves_quantity = o.quantity
      /\ o.quantity \in Int
    <2>1. o = NewOrder(o.order_id, o.type, o.side, o.quantity, o.price)
        BY BookAssumption
    <2>2. o.filled_quantity = 0
        BY <2>1 DEF NewOrder
    <2>3. o.leaves_quantity = o.quantity
        BY <2>1 DEF NewOrder
    <2> QED
        BY <1>1, <2>2, <2>3 DEF Order
<1>3. StateTypes /\ BookInv(book, lookup) /\ CallInv
    BY DEF IInv
<1>4. CASE RejectInvalid(o)
    <2>1. /\ objects' = [objects EXCEPT ![o.order_id] = o]
          /\ UNCHANGED <<book, lookup, phase, order, trade, arrivals, executed, cancelled>>
          /\ phase = "idle"
        BY <1>4 DEF RejectInvalid
    <2>2. StateTypes'
        BY <1>1, <1>3, <2>1 DEF StateTypes
    <2>3. BookInv(book', lookup')
        BY <1>3, <2>1
    <2>4. o # None
        BY <1>1, TypesAssumption
    <2>5. \A id \in Ids : objects[id] # None => objects'[id] # None
        BY <1>1, <1>3, <2>1, <2>4 DEF StateTypes
    <2>6. DOMAIN lookup \cup cancelled \subseteq Ids
        BY <1>3 DEF StateTypes, BookInv, Exact, IsMap
    <2>7. order = None
        BY <1>3, <2>1 DEF CallInv
    <2>8. CallInv'
        BY <1>3, <2>1, <2>5, <2>6, <2>7 DEF CallInv
    <2> QED
        BY <2>2, <2>3, <2>8 DEF IInv
<1>5. CASE AcceptOrder(o)
    <2>1. /\ order' = [o EXCEPT !.status = "ACTIVE"]
          /\ phase' \in {"fok", "match"}
          /\ phase = "idle"
          /\ arrivals' = Append(arrivals, o.order_id)
          /\ UNCHANGED <<book, lookup, trade, objects, executed, cancelled>>
          /\ o.quantity > 0
        BY <1>5 DEF AcceptOrder, Acceptable
    <2>2. /\ order' \in Order
          /\ order'.order_id = o.order_id
          /\ Sound(order')
        BY <1>1, <1>2, <2>1 DEF Order, OrderStatuses, Sound
    <2>3. order' # None
        BY <2>2, TypesAssumption
    <2>4. arrivals' \in Seq(Ids)
        BY <1>1, <1>3, <2>1, AppendProperties DEF StateTypes
    <2>5. StateTypes'
        BY <1>3, <2>1, <2>2, <2>4 DEF StateTypes, Phases
    <2>6. BookInv(book', lookup')
        BY <1>3, <2>1
    <2>7. order = None /\ trade = None
        BY <1>3, <2>1 DEF CallInv
    <2>8. CallInv'
        BY <1>3, <2>1, <2>2, <2>3, <2>7 DEF CallInv
    <2> QED
        BY <2>5, <2>6, <2>8 DEF IInv
<1> QED
    BY <1>4, <1>5 DEF SubmitOrder

\* The fill-or-kill check changes the status of the order at most.
LEMMA CheckFokKeepsIInv ==
    ASSUME IInv, CheckFok
    PROVE  IInv'
<1>1. StateTypes /\ BookInv(book, lookup) /\ CallInv
    BY DEF IInv
<1>2. /\ phase = "fok"
      /\ phase' \in {"match", "reject"}
      /\ order' \in {order, [order EXCEPT !.status = "REJECTED"]}
      /\ UNCHANGED <<book, lookup, trade, objects, arrivals, executed, cancelled>>
    BY DEF CheckFok
<1>3. order # None /\ order \in Order
    BY <1>1, <1>2 DEF CallInv, StateTypes
<1>4. /\ order' \in Order
      /\ order'.order_id = order.order_id
      /\ order'.type = order.type
      /\ order'.side = order.side
      /\ order'.price = order.price
      /\ order'.filled_quantity = order.filled_quantity
      /\ order'.leaves_quantity = order.leaves_quantity
      /\ order'.quantity = order.quantity
    BY <1>2, <1>3 DEF Order, OrderStatuses
<1>5. order' # None
    BY <1>4, TypesAssumption
<1>6. StateTypes'
    BY <1>1, <1>2, <1>4 DEF StateTypes, Phases
<1>7. BookInv(book', lookup')
    BY <1>1, <1>2
<1>8. CallInv'
    BY <1>1, <1>2, <1>3, <1>4, <1>5 DEF CallInv, Sound, WithinLimit
<1> QED
    BY <1>6, <1>7, <1>8 DEF IInv

\* A round of the matching loop that trades q with the front order of the level
\* of this side and price, in the words of the lemmas above.
MatchRound(side, p, q) ==
    LET maker == book[side][p][1]
        traded == [book EXCEPT ![side][p][1] = Fill(maker, q)]
    IN  /\ side = Opposite(order.side)
        /\ p = BestLevel(book[side])
        /\ q = Smaller(order.leaves_quantity, maker.leaves_quantity)
        /\ 1 \in DOMAIN book[side][p]
        /\ maker \in Order
        /\ maker.order_id \in DOMAIN lookup
        /\ maker.side = side /\ maker.price = p
        /\ Sound(maker)
        /\ q <= order.leaves_quantity /\ q <= maker.leaves_quantity
        /\ order' = Fill(order, q)
        /\ CanMatch(order, p)
        /\ trade' = [maker_order_id |-> maker.order_id,
                     taker_order_id |-> order.order_id,
                     price |-> maker.price, quantity |-> q,
                     is_buyer_maker |-> maker.side = "BUY"]
        /\ executed' = [[executed EXCEPT ![maker.order_id] = @ + q]
                                  EXCEPT ![order.order_id] = @ + q]
        /\ \/ ~IsFullyFilled(Fill(maker, q)) /\ book' = traded /\ lookup' = lookup
           \/ /\ IsFullyFilled(Fill(maker, q))
              /\ book' = BookWithout(traded, lookup, maker.order_id)
              /\ lookup' = LookupWithout(traded, lookup, maker.order_id)

\* MatchStep is such a round.
LEMMA MatchStepProperties ==
    ASSUME IInv, MatchStep
    PROVE  \E side \in Sides : \E p \in DOMAIN book[side] : \E q \in Nat :
                MatchRound(side, p, q)
<1> DEFINE side == Opposite(order.side)
           p == BestLevel(book[side])
           level == book[side][p]
           maker == Head(level)
           q == Smaller(order.leaves_quantity, maker.leaves_quantity)
           filled == Fill(maker, q)
           traded == [book EXCEPT ![side][p][1] = filled]
<1>1. StateTypes /\ BookInv(book, lookup) /\ CallInv /\ GoodBook(book) /\ Exact(book, lookup)
    BY DEF IInv, BookInv
<1>2. phase = "match" /\ KeepsMatching
    BY DEF MatchStep
<1>3. order # None /\ order \in Order /\ Sound(order)
    BY <1>1, <1>2 DEF CallInv, StateTypes
<1>4. side \in Sides
    BY <1>3 DEF Order, Sides, Opposite
<1>5. DOMAIN book[side] # {} /\ CanMatch(order, p)
    BY <1>2 DEF KeepsMatching
<1>6. DOMAIN book[side] \subseteq Nat
    BY <1>1, <1>4, LevelProperties
<1>7. p \in DOMAIN book[side]
    BY <1>5, <1>6, MinProperties DEF BestLevel
<1>8. /\ level \in Seq(Order) /\ Len(level) \in Nat \ {0}
      /\ DOMAIN level = 1 .. Len(level)
    BY <1>1, <1>4, <1>7, LevelProperties
<1>9. 1 \in DOMAIN level /\ maker = level[1] /\ maker \in Order
    <2>1. 1 \in DOMAIN level
        BY <1>8
    <2>2. maker = level[1]
        BY <1>8
    <2> QED
        BY <1>8, <2>1, <2>2, ElementOfSeq
<1> HIDE DEF side, p, level
<1>10. maker.side = side /\ maker.price = p /\ maker.order_id \in DOMAIN lookup /\ Sound(maker)
    <2>1. level[1].side = side /\ level[1].price = p
        BY <1>1, <1>4, <1>7, <1>9 DEF GoodBook, level
    <2>2. level[1].order_id \in DOMAIN lookup
        BY <1>1, <1>4, <1>7, <1>9 DEF Exact, level
    <2>3. Sound(level[1])
        BY <1>1, <1>4, <1>7, <1>9 DEF BookInv, level
    <2> QED
        BY <1>9, <2>1, <2>2, <2>3
<1>11. /\ q \in Nat /\ q <= order.leaves_quantity /\ q <= maker.leaves_quantity
    BY <1>3, <1>9, <1>10 DEF Sound, Smaller, Order
<1>12. /\ order' = Fill(order, q)
       /\ trade' = [maker_order_id |-> maker.order_id,
                    taker_order_id |-> order.order_id,
                    price |-> maker.price, quantity |-> q,
                    is_buyer_maker |-> maker.side = "BUY"]
       /\ executed' = [[executed EXCEPT ![maker.order_id] = @ + q]
                                 EXCEPT ![order.order_id] = @ + q]
       /\ \/ ~IsFullyFilled(filled) /\ book' = traded /\ lookup' = lookup
          \/ /\ IsFullyFilled(filled)
             /\ book' = BookWithout(traded, lookup, maker.order_id)
             /\ lookup' = LookupWithout(traded, lookup, maker.order_id)
    BY DEF MatchStep, side, p, level
<1>13. /\ level = book[side][p] /\ side = Opposite(order.side)
       /\ p = BestLevel(book[side])
       /\ q = Smaller(order.leaves_quantity, maker.leaves_quantity)
    BY DEF level, side, p
<1>14. maker = book[side][p][1] /\ 1 \in DOMAIN book[side][p]
    BY <1>9, <1>13
<1> HIDE DEF q, maker
<1>15. MatchRound(side, p, q)
    BY <1>5, <1>9, <1>10, <1>11, <1>12, <1>13, <1>14 DEF MatchRound
<1> QED
    BY <1>4, <1>7, <1>11, <1>15

\* The taker stays the same order, and at most one record goes.
TakerStays == order' # None /\ order'.order_id = order.order_id

\* One record less, or none.
OneLess == lookup' = lookup \/ \E id \in DOMAIN lookup : Shifted(lookup', lookup, id)

\* Trading with the front order, and removing it when it is filled.
LEMMA MatchStepKeepsIInv ==
    ASSUME IInv, MatchStep
    PROVE  IInv' /\ TakerStays /\ OneLess
<1>1. /\ StateTypes /\ BookInv(book, lookup) /\ CallInv
      /\ phase = "match"
      /\ UNCHANGED <<phase, objects, arrivals, cancelled>>
    BY DEF IInv, MatchStep
<1>2. order # None /\ order \in Order /\ Sound(order) /\ objects[order.order_id] = None
    BY <1>1 DEF CallInv, StateTypes
<1>3. PICK side \in Sides : \E p \in DOMAIN book[side] : \E q \in Nat : MatchRound(side, p, q)
    BY MatchStepProperties
<1>4. PICK p \in DOMAIN book[side] : \E q \in Nat : MatchRound(side, p, q)
    BY <1>3
<1>5. PICK q \in Nat : MatchRound(side, p, q)
    BY <1>4
<1> DEFINE maker == book[side][p][1]
           filled == Fill(maker, q)
           traded == [book EXCEPT ![side][p][1] = filled]
<1>6. /\ 1 \in DOMAIN book[side][p]
      /\ maker \in Order
      /\ maker.order_id \in DOMAIN lookup
      /\ maker.side = side /\ maker.price = p
      /\ Sound(maker)
      /\ q <= order.leaves_quantity /\ q <= maker.leaves_quantity
      /\ order' = Fill(order, q)
      /\ CanMatch(order, p)
      /\ trade' = [maker_order_id |-> maker.order_id,
                   taker_order_id |-> order.order_id,
                   price |-> maker.price, quantity |-> q,
                   is_buyer_maker |-> maker.side = "BUY"]
      /\ executed' = [[executed EXCEPT ![maker.order_id] = @ + q]
                                EXCEPT ![order.order_id] = @ + q]
      /\ \/ book' = traded /\ lookup' = lookup
         \/ /\ book' = BookWithout(traded, lookup, maker.order_id)
            /\ lookup' = LookupWithout(traded, lookup, maker.order_id)
    BY <1>5 DEF MatchRound
<1>7. /\ filled \in Order /\ Sound(filled) /\ filled.order_id = maker.order_id
      /\ filled.side = side /\ filled.price = p
    BY <1>6, FillProperties DEF Sound, Order
<1>8. /\ order' \in Order /\ Sound(order')
      /\ order'.order_id = order.order_id /\ order'.side = order.side
      /\ order'.price = order.price /\ order'.type = order.type
    BY <1>2, <1>6, FillProperties DEF Sound, Order
<1>9. BookInv(traded, lookup)
    BY <1>1, <1>6, <1>7, ReplacementKeepsBookInv
<1>10. BookInv(book', lookup') /\ DOMAIN lookup' \subseteq DOMAIN lookup
    <2>1. CASE book' = traded /\ lookup' = lookup
        BY <1>9, <2>1
    <2>2. CASE /\ book' = BookWithout(traded, lookup, maker.order_id)
               /\ lookup' = LookupWithout(traded, lookup, maker.order_id)
        <3> HIDE DEF maker, traded
        <3> DEFINE id == maker.order_id
        <3>1. id \in DOMAIN lookup
            BY <1>6
        <3> HIDE DEF id
        <3>2. /\ BookInv(BookWithout(traded, lookup, id), LookupWithout(traded, lookup, id))
              /\ DOMAIN LookupWithout(traded, lookup, id) = DOMAIN lookup \ {id}
            BY <1>9, <3>1, RemovalKeepsBookInv
        <3> QED
            BY <2>2, <3>2 DEF id
    <2> QED
        BY <1>6, <2>1, <2>2
<1>19. OneLess
    <2>1. CASE lookup' = lookup
        BY <2>1 DEF OneLess
    <2>2. CASE lookup' = LookupWithout(traded, lookup, maker.order_id)
        <3> HIDE DEF maker, traded
        <3>1. GoodBook(traded) /\ Exact(traded, lookup)
            BY <1>9 DEF BookInv
        <3>2. Shifted(LookupWithout(traded, lookup, maker.order_id), lookup, maker.order_id)
            BY <1>6, <3>1, LookupWithoutProperties
        <3> QED
            BY <1>6, <2>2, <3>2 DEF OneLess
    <2> QED
        BY <1>6, <2>1, <2>2
<1> HIDE DEF maker, filled, traded
<1>11. order' # None
    BY <1>8, TypesAssumption
<1>12. /\ maker.order_id \in Ids /\ order.order_id \in Ids
       /\ maker.price \in Prices /\ (maker.side = "BUY") \in BOOLEAN
    BY <1>2, <1>6 DEF Order
<1>13. trade' \in Trade
    BY <1>6, <1>12 DEF Trade
<1>14. executed' \in [Ids -> Nat]
    <2>1. executed \in [Ids -> Nat]
        BY <1>1 DEF StateTypes
    <2>2. [executed EXCEPT ![maker.order_id] = @ + q] \in [Ids -> Nat]
        BY <1>12, <2>1
    <2> QED
        BY <1>6, <1>12, <2>2
<1>15. StateTypes'
    BY <1>1, <1>8, <1>13, <1>14 DEF StateTypes
<1>16. order'.type # "MARKET" => WithinLimit(order', trade'.price)
    <2>1. order.type # "MARKET" => WithinLimit(order, p)
        BY <1>6 DEF CanMatch
    <2>2. trade'.price = p
        BY <1>6
    <2>3. WithinLimit(order, p) => WithinLimit(order', p)
        BY <1>8 DEF WithinLimit
    <2> QED
        BY <1>8, <2>1, <2>2, <2>3
<1>17. trade'.maker_order_id \notin cancelled
    BY <1>1, <1>6 DEF CallInv
<1>18. CallInv'
    BY <1>1, <1>2, <1>8, <1>10, <1>11, <1>16, <1>17 DEF CallInv
<1> QED
    BY <1>8, <1>10, <1>11, <1>15, <1>18, <1>19 DEF IInv, TakerStays

\* add_to_book: an id that is not on record yet gets its record.
LEMMA RestInBookKeepsIInv ==
    ASSUME IInv, RestInBook
    PROVE  IInv'
<1>1. /\ StateTypes /\ BookInv(book, lookup) /\ CallInv
      /\ phase # "idle" /\ phase' = "idle" /\ order' = None /\ trade' = None
      /\ objects' = [objects EXCEPT ![order.order_id] = order]
      /\ book' = BookWith(book, order) /\ lookup' = LookupWith(book, lookup, order)
      /\ UNCHANGED <<arrivals, executed, cancelled>>
    BY DEF IInv, RestInBook, ReturnToCaller, MatchingDone
<1>2. order # None /\ order \in Order /\ Sound(order) /\ objects[order.order_id] = None
    BY <1>1 DEF CallInv, StateTypes
<1>3. order.order_id \in Ids
    BY <1>2 DEF Order
<1>4. order.order_id \notin DOMAIN lookup /\ order.order_id \notin cancelled
    BY <1>1, <1>2 DEF CallInv
<1>5. BookInv(book', lookup') /\ DOMAIN lookup' = DOMAIN lookup \cup {order.order_id}
    <2>1. /\ BookInv(BookWith(book, order), LookupWith(book, lookup, order))
          /\ DOMAIN LookupWith(book, lookup, order) = DOMAIN lookup \cup {order.order_id}
        BY <1>1, <1>2, <1>4, JoiningKeepsBookInv
    <2> QED
        BY <1>1, <2>1
<1>6. StateTypes'
    BY <1>1, <1>2, <1>3 DEF StateTypes, Phases
<1>7. DOMAIN lookup \subseteq Ids /\ cancelled \subseteq Ids
    BY <1>1 DEF StateTypes, BookInv, Exact, IsMap
<1>8. \A id \in DOMAIN lookup' \cup cancelled : objects'[id] # None
    BY <1>1, <1>2, <1>3, <1>5, <1>7 DEF CallInv, StateTypes
<1>9. CallInv'
    BY <1>1, <1>4, <1>5, <1>8 DEF CallInv
<1> QED
    BY <1>5, <1>6, <1>9 DEF IInv

\* add_order returns without resting anything.
LEMMA LeaveBookKeepsIInv ==
    ASSUME IInv, LeaveBook
    PROVE  IInv'
<1>1. /\ StateTypes /\ BookInv(book, lookup) /\ CallInv
      /\ phase # "idle" /\ phase' = "idle" /\ order' = None /\ trade' = None
      /\ objects' = [objects EXCEPT ![order.order_id] = order]
      /\ UNCHANGED <<book, lookup, arrivals, executed, cancelled>>
    BY DEF IInv, LeaveBook, ReturnToCaller, MatchingDone
<1>2. order # None /\ order \in Order
    BY <1>1 DEF CallInv, StateTypes
<1>3. order.order_id \in Ids
    BY <1>2 DEF Order
<1>4. StateTypes'
    BY <1>1, <1>2, <1>3 DEF StateTypes, Phases
<1>5. DOMAIN lookup \subseteq Ids /\ cancelled \subseteq Ids
    BY <1>1 DEF StateTypes, BookInv, Exact, IsMap
<1>6. \A id \in DOMAIN lookup \cup cancelled : objects'[id] # None
    BY <1>1, <1>2, <1>3, <1>5 DEF CallInv, StateTypes
<1>7. CallInv'
    BY <1>1, <1>6 DEF CallInv
<1>8. BookInv(book', lookup')
    BY <1>1
<1> QED
    BY <1>4, <1>7, <1>8 DEF IInv

\* cancel_order: the id leaves the records as it joins the cancelled ones.
LEMMA CancelOrderKeepsIInv ==
    ASSUME IInv, NEW id \in Ids, CancelOrder(id)
    PROVE  IInv'
<1>1. StateTypes /\ BookInv(book, lookup) /\ CallInv
    BY DEF IInv
<1>2. CASE id \notin DOMAIN lookup
    BY <1>1, <1>2 DEF CancelOrder, vars, IInv, StateTypes, CallInv
<1>3. CASE id \in DOMAIN lookup
    <2>1. /\ phase = "idle"
          /\ book' = BookWithout(book, lookup, id)
          /\ lookup' = LookupWithout(book, lookup, id)
          /\ cancelled' = cancelled \cup {id}
          /\ UNCHANGED <<phase, order, trade, objects, arrivals, executed>>
        BY <1>3 DEF CancelOrder
    <2>2. BookInv(book', lookup') /\ DOMAIN lookup' = DOMAIN lookup \ {id}
        BY <1>1, <1>3, <2>1, RemovalKeepsBookInv
    <2>3. StateTypes'
        BY <1>1, <2>1 DEF StateTypes
    <2>4. order = None /\ trade = None
        BY <1>1, <2>1 DEF CallInv
    <2>5. CallInv'
        BY <1>1, <1>3, <2>1, <2>2, <2>4 DEF CallInv
    <2> QED
        BY <2>2, <2>3, <2>5 DEF IInv
<1> QED
    BY <1>2, <1>3

\* modify_order: the position on record is that of the order itself.
LEMMA ModifyOrderKeepsIInv ==
    ASSUME IInv, NEW id \in Ids, NEW quantity \in NewQuantities, ModifyOrder(id, quantity)
    PROVE  IInv'
<1> DEFINE side == lookup[id].side
           p == lookup[id].price_level
           i == lookup[id].order_index
           resting == book[side][p][i]
           modified == Modified(resting, quantity)
<1>1. /\ StateTypes /\ BookInv(book, lookup) /\ CallInv
      /\ GoodBook(book) /\ Exact(book, lookup)
    BY DEF IInv, BookInv
<1>2. /\ id \in DOMAIN lookup
      /\ quantity >= resting.filled_quantity
      /\ book' = [book EXCEPT ![side][p][i] = modified]
      /\ UNCHANGED <<lookup, phase, order, trade, objects, arrivals, executed, cancelled>>
    BY DEF ModifyOrder, PositionOf
<1>3. quantity \in Int
    BY BookAssumption
<1>4. /\ side \in Sides /\ p \in DOMAIN book[side]
      /\ i \in 1 .. Len(book[side][p])
    BY <1>1, <1>2, RecordProperties
<1>5. i \in DOMAIN book[side][p] /\ resting \in Order
    BY <1>1, <1>4, LevelProperties
<1>6. Sound(resting) /\ resting.side = side /\ resting.price = p
    BY <1>1, <1>4, <1>5 DEF BookInv, GoodBook
<1> HIDE DEF side, p, i, resting
<1>7. /\ resting.filled_quantity \in Int
      /\ quantity - resting.filled_quantity \in Int
      /\ quantity - resting.filled_quantity >= 0
      /\ resting.filled_quantity + (quantity - resting.filled_quantity) = quantity
    BY <1>2, <1>3, <1>5 DEF Order
<1>8. /\ modified \in Order
      /\ modified.order_id = resting.order_id
      /\ modified.side = resting.side /\ modified.price = resting.price
      /\ modified.quantity = quantity
      /\ modified.filled_quantity = resting.filled_quantity
      /\ modified.leaves_quantity = quantity - resting.filled_quantity
    BY <1>3, <1>5, <1>7 DEF Modified, Order
<1>9. Sound(modified)
    BY <1>6, <1>7, <1>8 DEF Sound
<1> HIDE DEF modified
<1>10. resting = book[side][p][i]
    BY DEF resting, side, p, i
<1>11. BookInv(book', lookup)
    <2>1. /\ modified.order_id = book[side][p][i].order_id
          /\ modified.side = side /\ modified.price = p
        BY <1>6, <1>8, <1>10
    <2>2. book' = [book EXCEPT ![side][p][i] = modified]
        BY <1>2 DEF side, p, i
    <2>3. BookInv([book EXCEPT ![side][p][i] = modified], lookup)
        BY <1>1, <1>4, <1>5, <1>8, <1>9, <2>1, ReplacementKeepsBookInv
    <2> QED
        BY <2>2, <2>3
<1>12. StateTypes' /\ CallInv'
    BY <1>1, <1>2 DEF StateTypes, CallInv
<1> QED
    BY <1>2, <1>11, <1>12 DEF IInv

\* Every step of FreshNext keeps the invariant.
LEMMA NextIInv == IInv /\ [FreshNext]_vars => IInv'
<1> SUFFICES ASSUME IInv, [FreshNext]_vars PROVE IInv'
    OBVIOUS
<1>1. CASE \E o \in Offers : objects[o.order_id] = None /\ SubmitOrder(o)
    BY <1>1, SubmitOrderKeepsIInv
<1>2. CASE Continue
    BY <1>2, CheckFokKeepsIInv, MatchStepKeepsIInv, RestInBookKeepsIInv, LeaveBookKeepsIInv
    DEF Continue
<1>3. CASE OtherCalls
    BY <1>3, CancelOrderKeepsIInv, ModifyOrderKeepsIInv DEF OtherCalls
<1>4. CASE UNCHANGED vars
    BY <1>4 DEF vars, IInv, StateTypes, CallInv
<1> QED
    BY <1>1, <1>2, <1>3, <1>4 DEF FreshNext

-------------------------------------------------------------------------------
(* The theorems *)

\* The inductive invariant holds in every state of a book whose clients draw a
\* fresh id for every order.
THEOREM FreshInvariant == FreshRules => []IInv
<1> QED
    BY InitIInv, NextIInv, PTL DEF FreshRules

\* Every variable keeps its type, whatever the clients with fresh ids do.
THEOREM TypeCorrect == FreshRules => []TypeOK
<1>1. IInv => TypeOK
    BY IInvImplies
<1> QED
    BY <1>1, FreshInvariant, PTL

\* order_lookup_ never dangles and never misses an order: whatever is added,
\* matched, cancelled and modified, in queues of any length, it leads to every
\* resting order and to nothing else.  remove_from_book and modify_order, which
\* trust it, are right to do so as long as ids are fresh.
THEOREM LookupIsExact == FreshRules => []LookupExact
<1>1. IInv => LookupExact
    BY IInvImplies
<1> QED
    BY <1>1, FreshInvariant, PTL

\* No level of bids_ or asks_ is ever empty, and its orders have its price and
\* side: begin() of the opposite side always has a front order to trade with.
THEOREM LevelsAreWellFormed == FreshRules => []LevelsWellFormed
<1>1. IInv => LevelsWellFormed
    BY IInvImplies
<1> QED
    BY <1>1, FreshInvariant, PTL

\* execute_trade and modify_order keep filled + leaves = quantity, both
\* non-negative, for every order in the book and the one being matched.
THEOREM NothingIsOverfilled == FreshRules => []NeverOverfilled
<1>1. IInv => NeverOverfilled
    BY IInvImplies
<1> QED
    BY <1>1, FreshInvariant, PTL

\* An order for which cancel_order returned true is in no queue, and no trade
\* has it as its maker.
THEOREM CancelledOrdersStayOut == FreshRules => []CancelledStaysOut
<1>1. IInv => CancelledStaysOut
    BY IInvImplies
<1> QED
    BY <1>1, FreshInvariant, PTL

\* A trade is never at a price worse than the limit of the order that takes.
THEOREM TradesRespectLimits == FreshRules => []LimitRespected
<1>1. IInv => LimitRespected
    BY IInvImplies
<1> QED
    BY <1>1, FreshInvariant, PTL

-------------------------------------------------------------------------------
(* Time priority.  While the lookup is exact, the order of a queue is the  *)
(* order of the positions on record, so the argument is about the lookup   *)
(* alone.  So is the one that a buy never comes to rest across an ask: a   *)
(* record has the side and the price of its order.                         *)

\* x comes before y in the sequence s.
EarlierIn(s, x, y) == \E i, j \in DOMAIN s : i < j /\ s[i] = x /\ s[j] = y

\* x is in the sequence s.
Arrived(s, x) == \E i \in DOMAIN s : s[i] = x

\* Both are on record in one queue, x ahead of y.
Ahead(lk, x, y) ==
    /\ lk[x].side = lk[y].side
    /\ lk[x].price_level = lk[y].price_level
    /\ lk[x].order_index < lk[y].order_index

\* Who is ahead on record came earlier.
RecordsInOrder(lk, s) ==
    \A x, y \in DOMAIN lk : Ahead(lk, x, y) => EarlierIn(s, x, y)

\* Every order on record has arrived, and before the one being matched.
PriorityInv ==
    /\ RecordsInOrder(lookup, arrivals)
    /\ \A id \in DOMAIN lookup : Arrived(arrivals, id)
    /\ order # None =>
        /\ Arrived(arrivals, order.order_id)
        /\ \A id \in DOMAIN lookup : EarlierIn(arrivals, id, order.order_id)

\* Another arrival changes nothing between the earlier ones, and comes after all of them.
LEMMA ArrivalProperties ==
    ASSUME NEW s \in Seq(Ids), NEW id \in Ids
    PROVE  /\ Arrived(Append(s, id), id)
           /\ \A x : Arrived(s, x) => Arrived(Append(s, id), x)
           /\ \A x : Arrived(s, x) => EarlierIn(Append(s, id), x, id)
           /\ \A x, y : EarlierIn(s, x, y) => EarlierIn(Append(s, id), x, y)
<1> DEFINE t == Append(s, id)
           n == Len(s)
<1>1. /\ n \in Nat
      /\ DOMAIN s = 1 .. n
      /\ t \in Seq(Ids)
      /\ Len(t) = n + 1
      /\ \A i \in 1 .. n : t[i] = s[i]
      /\ t[n + 1] = id
    BY AppendProperties, LenProperties
<1>2. DOMAIN t = 1 .. n + 1
    BY <1>1, LenProperties
<1> HIDE DEF t, n
<1>3. \A i \in DOMAIN s : i \in DOMAIN t /\ i < n + 1
    BY <1>1, <1>2
<1>4. n + 1 \in DOMAIN t
    BY <1>1, <1>2
<1>5. Arrived(t, id)
    BY <1>1, <1>4 DEF Arrived
<1>6. ASSUME NEW x, Arrived(s, x)
      PROVE  Arrived(t, x) /\ EarlierIn(t, x, id)
    <2>1. PICK i \in DOMAIN s : s[i] = x
        BY <1>6 DEF Arrived
    <2>2. i \in DOMAIN t /\ i < n + 1 /\ t[i] = x
        BY <1>1, <1>3, <2>1
    <2> QED
        BY <1>1, <1>4, <2>2 DEF Arrived, EarlierIn
<1>7. ASSUME NEW x, NEW y, EarlierIn(s, x, y)
      PROVE  EarlierIn(t, x, y)
    <2>1. PICK i, j \in DOMAIN s : i < j /\ s[i] = x /\ s[j] = y
        BY <1>7 DEF EarlierIn
    <2>2. /\ i \in DOMAIN t /\ j \in DOMAIN t
          /\ t[i] = x /\ t[j] = y
        BY <1>1, <1>3, <2>1
    <2> QED
        BY <2>1, <2>2 DEF EarlierIn
<1> QED
    BY <1>5, <1>6, <1>7 DEF t

\* remove_from_book keeps the order of those who stay.
LEMMA RemovalKeepsOrder ==
    ASSUME NEW lk, IsMap(lk, Ids, Location), NEW s, RecordsInOrder(lk, s),
           NEW id \in DOMAIN lk, NEW lk2, Shifted(lk2, lk, id)
    PROVE  RecordsInOrder(lk2, s)
<1>1. SUFFICES ASSUME NEW x \in DOMAIN lk2, NEW y \in DOMAIN lk2, Ahead(lk2, x, y)
               PROVE  Ahead(lk, x, y)
    BY DEF RecordsInOrder, Shifted
<1>2. /\ x \in DOMAIN lk /\ y \in DOMAIN lk
      /\ lk2[x] = After(lk, id, x) /\ lk2[y] = After(lk, id, y)
    BY DEF Shifted
<1>3. lk[x] \in Location /\ lk[y] \in Location /\ lk[id] \in Location
    BY <1>2 DEF IsMap
<1> DEFINE a == lk[x].order_index
           b == lk[y].order_index
           k == lk[id].order_index
<1>4. a \in Nat /\ b \in Nat /\ k \in Nat
    BY <1>3 DEF Location
<1>5. ASSUME NEW z \in DOMAIN lk, lk[z] \in Location
      PROVE  /\ After(lk, id, z).side = lk[z].side
             /\ After(lk, id, z).price_level = lk[z].price_level
             /\ After(lk, id, z).order_index =
                    IF LevelOf(lk, id, lk[z].side, lk[z].price_level) /\ lk[z].order_index > k
                    THEN lk[z].order_index - 1 ELSE lk[z].order_index
    BY <1>5 DEF After, Location
<1>6. /\ lk[x].side = lk[y].side
      /\ lk[x].price_level = lk[y].price_level
      /\ After(lk, id, x).order_index < After(lk, id, y).order_index
    BY <1>1, <1>2, <1>3, <1>5 DEF Ahead
<1>7. CASE LevelOf(lk, id, lk[x].side, lk[x].price_level)
    <2>1. /\ After(lk, id, x).order_index = IF a > k THEN a - 1 ELSE a
          /\ After(lk, id, y).order_index = IF b > k THEN b - 1 ELSE b
        BY <1>2, <1>3, <1>5, <1>6, <1>7
    <2> HIDE DEF a, b, k
    <2>2. a < b
        BY <1>4, <1>6, <2>1
    <2> QED
        BY <1>6, <2>2 DEF Ahead, a, b
<1>8. CASE ~LevelOf(lk, id, lk[x].side, lk[x].price_level)
    BY <1>2, <1>3, <1>5, <1>6, <1>8 DEF Ahead
<1> QED
    BY <1>7, <1>8

\* add_to_book puts the newcomer behind the others of its level.
LEMMA JoiningKeepsOrder ==
    ASSUME NEW bk, NEW lk, BookInv(bk, lk), NEW s, RecordsInOrder(lk, s),
           NEW o \in Order, o.order_id \notin DOMAIN lk,
           \A id \in DOMAIN lk : EarlierIn(s, id, o.order_id)
    PROVE  RecordsInOrder(LookupWith(bk, lk, o), s)
<1> DEFINE lk2 == LookupWith(bk, lk, o)
           n == Len(QueueAt(bk[o.side], o.price))
<1>1. GoodBook(bk) /\ Exact(bk, lk)
    BY DEF BookInv
<1>2. /\ DOMAIN lk2 = DOMAIN lk \cup {o.order_id}
      /\ lk2[o.order_id] = [side |-> o.side, price_level |-> o.price, order_index |-> n + 1]
      /\ \A id \in DOMAIN lk : lk2[id] = lk[id]
    BY DEF LookupWith
<1> HIDE DEF lk2, n
<1>3. ASSUME NEW y \in DOMAIN lk PROVE ~Ahead(lk2, o.order_id, y)
    <2>1. CASE lk[y].side = o.side /\ lk[y].price_level = o.price
        <3>1. lk[y].order_index \in 1 .. Len(bk[o.side][o.price]) /\ o.price \in DOMAIN bk[o.side]
            BY <1>1, <2>1, RecordProperties
        <3>2. n = Len(bk[o.side][o.price])
            BY <3>1 DEF n, QueueAt
        <3>3. o.side \in Sides
            BY DEF Order
        <3>4. n \in Nat
            BY <1>1, <3>1, <3>2, <3>3, LevelProperties
        <3>5. ~(n + 1 < lk[y].order_index)
            BY <3>1, <3>2, <3>4
        <3> QED
            BY <1>2, <3>5 DEF Ahead
    <2>2. CASE ~(lk[y].side = o.side /\ lk[y].price_level = o.price)
        BY <1>2, <2>2 DEF Ahead
    <2> QED
        BY <2>1, <2>2
<1>4. ~Ahead(lk2, o.order_id, o.order_id)
    <2>1. n \in Nat
        <3>1. o.side \in Sides
            BY DEF Order
        <3>2. CASE o.price \in DOMAIN bk[o.side]
            BY <1>1, <3>1, <3>2, LevelProperties DEF n, QueueAt
        <3>3. CASE o.price \notin DOMAIN bk[o.side]
            BY <3>3, EmptySeq DEF n, QueueAt
        <3> QED
            BY <3>2, <3>3
    <2> QED
        BY <1>2, <2>1 DEF Ahead
<1>5. SUFFICES ASSUME NEW x \in DOMAIN lk2, NEW y \in DOMAIN lk2, Ahead(lk2, x, y)
               PROVE  EarlierIn(s, x, y)
    BY DEF RecordsInOrder, lk2
<1>6. x \in DOMAIN lk
    BY <1>2, <1>3, <1>4, <1>5
<1>7. CASE y \in DOMAIN lk
    BY <1>2, <1>5, <1>6, <1>7 DEF RecordsInOrder, Ahead
<1>8. CASE y = o.order_id
    BY <1>6, <1>8
<1> QED
    BY <1>2, <1>7, <1>8

-------------------------------------------------------------------------------
(* The steps *)

\* A new arrival is behind all that have arrived.
LEMMA SubmitOrderKeepsPriority ==
    ASSUME IInv, PriorityInv, NEW o \in Offers, SubmitOrder(o)
    PROVE  PriorityInv'
<1>1. arrivals \in Seq(Ids) /\ CallInv
    BY DEF IInv, StateTypes
<1>2. CASE RejectInvalid(o)
    BY <1>2 DEF RejectInvalid, PriorityInv
<1>3. CASE AcceptOrder(o)
    <2>1. /\ order' = [o EXCEPT !.status = "ACTIVE"]
          /\ arrivals' = Append(arrivals, o.order_id)
          /\ UNCHANGED lookup
        BY <1>3 DEF AcceptOrder
    <2>2. o.order_id \in Ids /\ order'.order_id = o.order_id
        BY <2>1, BookAssumption DEF Order
    <2>3. RecordsInOrder(lookup', arrivals')
        BY <1>1, <2>1, <2>2, ArrivalProperties DEF PriorityInv, RecordsInOrder
    <2>4. \A id \in DOMAIN lookup' :
            Arrived(arrivals', id) /\ EarlierIn(arrivals', id, order'.order_id)
        BY <1>1, <2>1, <2>2, ArrivalProperties DEF PriorityInv
    <2>5. Arrived(arrivals', order'.order_id)
        BY <1>1, <2>1, <2>2, ArrivalProperties
    <2> QED
        BY <2>3, <2>4, <2>5 DEF PriorityInv
<1> QED
    BY <1>2, <1>3 DEF SubmitOrder

\* The records that a removal leaves are those of before, in the same order.
LEMMA OneLessKeepsPriority ==
    ASSUME IInv, PriorityInv, OneLess, UNCHANGED arrivals,
           order' # None => order # None /\ order'.order_id = order.order_id
    PROVE  PriorityInv'
<1>1. IsMap(lookup, Ids, Location)
    BY DEF IInv, BookInv, Exact
<1>2. CASE lookup' = lookup
    BY <1>2 DEF PriorityInv
<1>3. CASE \E id \in DOMAIN lookup : Shifted(lookup', lookup, id)
    <2>1. PICK id \in DOMAIN lookup : Shifted(lookup', lookup, id)
        BY <1>3
    <2>2. DOMAIN lookup' \subseteq DOMAIN lookup
        BY <2>1 DEF Shifted
    <2>3. RecordsInOrder(lookup', arrivals)
        BY <1>1, <2>1, RemovalKeepsOrder DEF PriorityInv
    <2> QED
        BY <2>2, <2>3 DEF PriorityInv
<1> QED
    BY <1>2, <1>3 DEF OneLess

\* The taker comes to rest behind those that arrived before it.
LEMMA RestInBookKeepsPriority ==
    ASSUME IInv, PriorityInv, RestInBook
    PROVE  PriorityInv'
<1>1. /\ StateTypes /\ BookInv(book, lookup) /\ CallInv
      /\ phase # "idle" /\ order' = None
      /\ lookup' = LookupWith(book, lookup, order)
      /\ UNCHANGED arrivals
    BY DEF IInv, RestInBook, ReturnToCaller, MatchingDone
<1>2. order # None /\ order \in Order /\ objects[order.order_id] = None
    BY <1>1 DEF CallInv, StateTypes
<1>3. order.order_id \notin DOMAIN lookup
    BY <1>1, <1>2 DEF CallInv
<1>4. DOMAIN lookup' = DOMAIN lookup \cup {order.order_id}
    BY <1>1 DEF LookupWith
<1>5. RecordsInOrder(lookup', arrivals')
    BY <1>1, <1>2, <1>3, JoiningKeepsOrder DEF PriorityInv
<1> QED
    BY <1>1, <1>2, <1>4, <1>5 DEF PriorityInv

\* Every step keeps time priority.
LEMMA NextPriority == IInv /\ PriorityInv /\ [FreshNext]_vars => PriorityInv'
<1> SUFFICES ASSUME IInv, PriorityInv, [FreshNext]_vars PROVE PriorityInv'
    OBVIOUS
<1>1. CASE \E o \in Offers : objects[o.order_id] = None /\ SubmitOrder(o)
    BY <1>1, SubmitOrderKeepsPriority
<1>2. CASE CheckFok
    <2>1. phase = "fok" /\ UNCHANGED <<lookup, arrivals>>
        BY <1>2 DEF CheckFok
    <2>2. order # None /\ order \in Order
        BY <2>1 DEF IInv, StateTypes, CallInv
    <2>3. order'.order_id = order.order_id
        BY <1>2, <2>2 DEF CheckFok, Order
    <2> QED
        BY <2>1, <2>2, <2>3, OneLessKeepsPriority DEF OneLess
<1>3. CASE MatchStep
    <2>1. phase = "match" /\ UNCHANGED arrivals
        BY <1>3 DEF MatchStep
    <2>2. order # None
        BY <2>1 DEF IInv, CallInv
    <2> QED
        BY <1>3, <2>1, <2>2, MatchStepKeepsIInv, OneLessKeepsPriority DEF TakerStays
<1>4. CASE RestInBook
    BY <1>4, RestInBookKeepsPriority
<1>5. CASE LeaveBook
    <2>1. order' = None /\ UNCHANGED <<lookup, arrivals>>
        BY <1>5 DEF LeaveBook, ReturnToCaller
    <2> QED
        BY <2>1, OneLessKeepsPriority DEF OneLess
<1>6. ASSUME NEW id \in Ids, CancelOrder(id) PROVE PriorityInv'
    <2>1. CASE id \notin DOMAIN lookup
        BY <1>6, <2>1 DEF CancelOrder, vars, PriorityInv
    <2>2. CASE id \in DOMAIN lookup
        <3>1. lookup' = LookupWithout(book, lookup, id) /\ UNCHANGED <<order, arrivals>>
            BY <1>6, <2>2 DEF CancelOrder
        <3>2. GoodBook(book) /\ Exact(book, lookup)
            BY DEF IInv, BookInv
        <3>3. OneLess
            BY <2>2, <3>1, <3>2, LookupWithoutProperties DEF OneLess
        <3> QED
            BY <3>1, <3>3, OneLessKeepsPriority
    <2> QED
        BY <2>1, <2>2
<1>7. ASSUME NEW id \in Ids, NEW quantity \in NewQuantities, ModifyOrder(id, quantity)
      PROVE  PriorityInv'
    BY <1>7 DEF ModifyOrder, PriorityInv
<1>8. CASE UNCHANGED vars
    BY <1>8 DEF vars, PriorityInv
<1> QED
    BY <1>1, <1>2, <1>3, <1>4, <1>5, <1>6, <1>7, <1>8 DEF FreshNext, Continue, OtherCalls

\* On every price level, orders are in the queue in the order in which add_order
\* accepted them, through fills, removals in the middle and modifications of any
\* number of orders: an older order of a level is always traded with first.
THEOREM OlderOrdersFirst == FreshRules => []TimePriority
<1>1. Init => PriorityInv
    BY DEF Init, PriorityInv, RecordsInOrder
<1>2. IInv /\ PriorityInv => TimePriority
    <2> SUFFICES ASSUME IInv, PriorityInv,
                        NEW side \in Sides, NEW p \in DOMAIN book[side],
                        NEW i \in DOMAIN book[side][p], NEW j \in DOMAIN book[side][p],
                        i < j
                 PROVE  ArrivedBefore(book[side][p][i].order_id, book[side][p][j].order_id)
        BY DEF TimePriority
    <2> DEFINE x == book[side][p][i].order_id
               y == book[side][p][j].order_id
    <2>1. /\ x \in DOMAIN lookup
          /\ lookup[x] = [side |-> side, price_level |-> p, order_index |-> i]
          /\ y \in DOMAIN lookup
          /\ lookup[y] = [side |-> side, price_level |-> p, order_index |-> j]
        BY DEF IInv, BookInv, Exact
    <2> HIDE DEF x, y
    <2>2. Ahead(lookup, x, y)
        BY <2>1 DEF Ahead
    <2>3. EarlierIn(arrivals, x, y)
        BY <2>1, <2>2 DEF PriorityInv, RecordsInOrder
    <2> QED
        BY <2>3 DEF EarlierIn, ArrivedBefore, x, y
<1> QED
    BY <1>1, <1>2, NextPriority, FreshInvariant, PTL DEF FreshRules

-------------------------------------------------------------------------------
(* Buys and sells that cross *)

\* Of a crossed pair on record, the buy came earlier.
CrossedInOrder(lk, s) ==
    \A x, y \in DOMAIN lk :
        (/\ lk[x].side = "BUY" /\ lk[y].side = "SELL"
         /\ lk[x].price_level >= lk[y].price_level)
            => EarlierIn(s, x, y)

\* Only fill-or-kill orders are turned down once the matching has begun, and
\* none of them comes to rest.
CrossingInv ==
    /\ CrossedInOrder(lookup, arrivals)
    /\ phase \in {"fok", "reject"} => order.type = "FOK"

\* A removal changes neither the side nor the price of the records it leaves.
LEMMA RemovalKeepsCrossings ==
    ASSUME NEW lk, IsMap(lk, Ids, Location), NEW s, CrossedInOrder(lk, s),
           NEW id \in DOMAIN lk, NEW lk2, Shifted(lk2, lk, id)
    PROVE  CrossedInOrder(lk2, s)
<1>1. ASSUME NEW z \in DOMAIN lk2
      PROVE  /\ z \in DOMAIN lk
             /\ lk2[z].side = lk[z].side
             /\ lk2[z].price_level = lk[z].price_level
    <2>1. z \in DOMAIN lk /\ lk2[z] = After(lk, id, z)
        BY DEF Shifted
    <2>2. lk[z] \in Location
        BY <2>1 DEF IsMap
    <2> QED
        BY <2>1, <2>2 DEF After, Location
<1> QED
    BY <1>1 DEF CrossedInOrder

\* At most one record goes.
LEMMA OneLessKeepsCrossings ==
    ASSUME IInv, CrossedInOrder(lookup, arrivals), OneLess, UNCHANGED arrivals
    PROVE  CrossedInOrder(lookup', arrivals')
<1>1. IsMap(lookup, Ids, Location)
    BY DEF IInv, BookInv, Exact
<1> QED
    BY <1>1, RemovalKeepsCrossings DEF OneLess

\* A buy that comes to rest is below every ask on record: had it reached one,
\* it would have reached the lowest, and the matching would have gone on.
LEMMA RestingBuyIsBelow ==
    ASSUME IInv, CrossingInv, MatchingDone, Rests(order), order.side = "BUY",
           NEW y \in DOMAIN lookup, lookup[y].side = "SELL"
    PROVE  ~(order.price >= lookup[y].price_level)
<1>1. /\ StateTypes /\ CallInv /\ GoodBook(book) /\ Exact(book, lookup)
      /\ phase # "idle"
    BY DEF IInv, BookInv, MatchingDone
<1>2. order \in Order /\ order.type = "LIMIT" /\ ~IsFullyFilled(order)
    BY <1>1 DEF CallInv, StateTypes, Rests
<1>3. ~KeepsMatching
    BY <1>2 DEF MatchingDone, CrossingInv
<1> DEFINE asks == book["SELL"]
           p == BestLevel(asks)
           r == lookup[y].price_level
<1>4. r \in DOMAIN asks
    BY <1>1, RecordProperties
<1>5. DOMAIN asks \subseteq Nat
    BY <1>1, LevelProperties DEF Sides
<1>6. p \in DOMAIN asks /\ p <= r
    BY <1>4, <1>5, MinProperties DEF BestLevel
<1>7. Opposite(order.side) = "SELL"
    BY DEF Opposite
<1>8. ~CanMatch(order, p)
    BY <1>2, <1>3, <1>6, <1>7 DEF KeepsMatching
<1>9. ~(p <= order.price)
    BY <1>8 DEF CanMatch, WithinLimit
<1> HIDE DEF asks, p, r
<1>10. order.price \in Int /\ p \in Int /\ r \in Int
    <2>1. order.price \in Prices
        BY <1>2 DEF Order
    <2>2. order.price \in Nat
        BY <2>1, TypesAssumption
    <2>3. p \in Nat /\ r \in Nat
        BY <1>4, <1>5, <1>6
    <2> QED
        BY <2>2, <2>3
<1>11. ~(order.price >= r)
    BY <1>6, <1>9, <1>10
<1> QED
    BY <1>11 DEF r

\* What comes to rest is a buy below the asks, or a sell that came later than
\* every bid.
LEMMA RestInBookKeepsCrossings ==
    ASSUME IInv, PriorityInv, CrossingInv, RestInBook
    PROVE  CrossingInv'
<1>1. /\ StateTypes /\ CallInv /\ MatchingDone /\ Rests(order)
      /\ phase' = "idle" /\ UNCHANGED arrivals
      /\ lookup' = LookupWith(book, lookup, order)
    BY DEF IInv, RestInBook, ReturnToCaller
<1>2. order # None /\ order \in Order
    BY <1>1 DEF CallInv, StateTypes, MatchingDone
<1>3. order.order_id \notin DOMAIN lookup
    BY <1>1, <1>2 DEF CallInv
<1> DEFINE t == order.order_id
<1>4. /\ DOMAIN lookup' = DOMAIN lookup \cup {t}
      /\ lookup'[t].side = order.side /\ lookup'[t].price_level = order.price
      /\ \A id \in DOMAIN lookup : lookup'[id] = lookup[id]
    BY <1>1, <1>3 DEF LookupWith
<1>5. \A id \in DOMAIN lookup : EarlierIn(arrivals, id, t)
    BY <1>2 DEF PriorityInv
<1> HIDE DEF t
<1>6. ASSUME NEW x \in DOMAIN lookup', NEW y \in DOMAIN lookup',
             lookup'[x].side = "BUY", lookup'[y].side = "SELL",
             lookup'[x].price_level >= lookup'[y].price_level
      PROVE  EarlierIn(arrivals, x, y)
    <2>1. CASE x = t
        <3>1. order.side = "BUY" /\ y # t
            BY <1>4, <1>6, <2>1
        <3>2. y \in DOMAIN lookup /\ lookup[y].side = "SELL"
            BY <1>4, <1>6, <3>1
        <3>3. order.price >= lookup[y].price_level
            BY <1>4, <1>6, <2>1, <3>2
        <3> QED
            BY <1>1, <3>1, <3>2, <3>3, RestingBuyIsBelow
    <2>2. CASE x # t /\ y = t
        BY <1>4, <1>5, <2>2
    <2>3. CASE x # t /\ y # t
        BY <1>4, <1>6, <2>3 DEF CrossingInv, CrossedInOrder
    <2> QED
        BY <2>1, <2>2, <2>3
<1> QED
    BY <1>1, <1>6 DEF CrossingInv, CrossedInOrder

\* Every step keeps it.
LEMMA NextCrossing == IInv /\ PriorityInv /\ CrossingInv /\ [FreshNext]_vars => CrossingInv'
<1> SUFFICES ASSUME IInv, PriorityInv, CrossingInv, [FreshNext]_vars PROVE CrossingInv'
    OBVIOUS
<1>1. ASSUME NEW o \in Offers, SubmitOrder(o) PROVE CrossingInv'
    <2>1. CASE RejectInvalid(o)
        BY <2>1 DEF RejectInvalid, CrossingInv
    <2>2. CASE AcceptOrder(o)
        <3>1. /\ o \in Order /\ o.order_id \in Ids /\ arrivals \in Seq(Ids)
            BY BookAssumption DEF Order, IInv, StateTypes
        <3>2. /\ order' = [o EXCEPT !.status = "ACTIVE"]
              /\ phase' = IF o.type = "FOK" THEN "fok" ELSE "match"
              /\ arrivals' = Append(arrivals, o.order_id)
              /\ UNCHANGED lookup
            BY <2>2 DEF AcceptOrder
        <3>3. order'.type = o.type
            BY <3>1, <3>2 DEF Order
        <3>4. CrossedInOrder(lookup', arrivals')
            BY <3>1, <3>2, ArrivalProperties DEF CrossingInv, CrossedInOrder
        <3> QED
            BY <3>2, <3>3, <3>4 DEF CrossingInv
    <2> QED
        BY <1>1, <2>1, <2>2 DEF SubmitOrder
<1>2. CASE CheckFok
    <2>1. /\ phase = "fok" /\ UNCHANGED <<lookup, arrivals>>
          /\ order' = order \/ order' = [order EXCEPT !.status = "REJECTED"]
        BY <1>2 DEF CheckFok
    <2>2. order \in Order /\ order.type = "FOK"
        BY <2>1 DEF IInv, StateTypes, CallInv, CrossingInv
    <2>3. order'.type = "FOK"
        BY <2>1, <2>2 DEF Order
    <2> QED
        BY <2>1, <2>3 DEF CrossingInv
<1>3. CASE MatchStep
    <2>1. phase = "match" /\ UNCHANGED <<phase, arrivals>>
        BY <1>3 DEF MatchStep
    <2>2. CrossedInOrder(lookup', arrivals')
        BY <1>3, <2>1, MatchStepKeepsIInv, OneLessKeepsCrossings DEF CrossingInv
    <2> QED
        BY <2>1, <2>2 DEF CrossingInv
<1>4. CASE RestInBook
    BY <1>4, RestInBookKeepsCrossings
<1>5. CASE LeaveBook
    BY <1>5 DEF LeaveBook, ReturnToCaller, CrossingInv
<1>6. ASSUME NEW id \in Ids, CancelOrder(id) PROVE CrossingInv'
    <2>1. CASE id \notin DOMAIN lookup
        BY <1>6, <2>1 DEF CancelOrder, vars, CrossingInv
    <2>2. CASE id \in DOMAIN lookup
        <3>1. /\ phase = "idle" /\ lookup' = LookupWithout(book, lookup, id)
              /\ UNCHANGED <<phase, order, arrivals>>
            BY <1>6, <2>2 DEF CancelOrder
        <3>2. GoodBook(book) /\ Exact(book, lookup)
            BY DEF IInv, BookInv
        <3>3. OneLess
            BY <2>2, <3>1, <3>2, LookupWithoutProperties DEF OneLess
        <3>4. CrossedInOrder(lookup', arrivals')
            BY <3>1, <3>3, OneLessKeepsCrossings DEF CrossingInv
        <3> QED
            BY <3>1, <3>4 DEF CrossingInv
    <2> QED
        BY <2>1, <2>2
<1>7. ASSUME NEW id \in Ids, NEW quantity \in NewQuantities, ModifyOrder(id, quantity)
      PROVE  CrossingInv'
    BY <1>7 DEF ModifyOrder, CrossingInv
<1>8. CASE UNCHANGED vars
    BY <1>8 DEF vars, CrossingInv
<1> QED
    BY <1>1, <1>2, <1>3, <1>4, <1>5, <1>6, <1>7, <1>8 DEF FreshNext, Continue, OtherCalls

\* A resting order is on its side, and on record there.
LEMMA OnItsSide ==
    ASSUME IInv, NEW side \in Sides, NEW o \in RestingOn(side)
    PROVE  /\ o.order_id \in DOMAIN lookup
           /\ lookup[o.order_id].side = side
           /\ lookup[o.order_id].price_level = o.price
<1>1. PICK p \in DOMAIN book[side] : o \in Range(book[side][p])
    BY DEF RestingOn
<1>2. PICK i \in DOMAIN book[side][p] : o = book[side][p][i]
    BY <1>1 DEF Range
<1>3. /\ o.price = p
      /\ o.order_id \in DOMAIN lookup
      /\ lookup[o.order_id] = [side |-> side, price_level |-> p, order_index |-> i]
    BY <1>2 DEF IInv, BookInv, GoodBook, Exact
<1> QED
    BY <1>3

\* A bid at or above an ask can only have been met by a sell that came later:
\* the matching loop, which starts at the lowest price of either side, never
\* leaves a buy across an ask, whatever else is in the book.
THEOREM NoBuyCrosses == FreshRules => []BuyNeverCrosses
<1>1. Init => PriorityInv /\ CrossingInv
    BY DEF Init, PriorityInv, RecordsInOrder, CrossingInv, CrossedInOrder
<1>2. IInv /\ CrossingInv => BuyNeverCrosses
    <2> SUFFICES ASSUME IInv, CrossingInv,
                        NEW bid \in RestingOn("BUY"), NEW ask \in RestingOn("SELL"),
                        bid.price >= ask.price
                 PROVE  ArrivedBefore(bid.order_id, ask.order_id)
        BY DEF BuyNeverCrosses
    <2>1. "BUY" \in Sides /\ "SELL" \in Sides
        BY DEF Sides
    <2>2. EarlierIn(arrivals, bid.order_id, ask.order_id)
        BY <2>1, OnItsSide DEF CrossingInv, CrossedInOrder
    <2> QED
        BY <2>2 DEF EarlierIn, ArrivedBefore
<1> QED
    BY <1>1, <1>2, NextCrossing, NextPriority, FreshInvariant, PTL DEF FreshRules

-------------------------------------------------------------------------------
(* Clients that use an id again.  The lookup then is not exact: two orders *)
(* may have one id, a filled maker may linger, and the record of one order *)
(* may lead to another one.  What the queues hold is still sound.          *)

\* A queue of sound orders of one side and price.
SoundQueue(queue, side, p) ==
    /\ queue \in Seq(Order) /\ queue # <<>>
    /\ \A i \in DOMAIN queue :
        queue[i].side = side /\ queue[i].price = p /\ Sound(queue[i])

\* A book of such queues.
SoundBook(bk) ==
    /\ bk = [side \in Sides |-> bk[side]]
    /\ \A side \in Sides :
        /\ IsMap(bk[side], Prices, Seq(Order))
        /\ \A p \in DOMAIN bk[side] : SoundQueue(bk[side][p], side, p)

\* Records have a side, a price and a position, wherever they lead.
Located(lk) ==
    /\ IsMap(lk, Ids, Location)
    /\ \A id \in DOMAIN lk : lk[id].order_index > 0

\* The invariant of a book whose clients use ids again.
ReuseInv ==
    /\ StateTypes
    /\ SoundBook(book)
    /\ Located(lookup)
    /\ phase = "idle" <=> order = None
    /\ order # None => Sound(order)
    /\ trade # None =>
        order # None /\ (order.type # "MARKET" => WithinLimit(order, trade.price))

\* A sound book is a good one, so that LevelProperties holds of it.
LEMMA SoundIsGood ==
    ASSUME NEW bk, SoundBook(bk)
    PROVE  GoodBook(bk)
BY DEF SoundBook, SoundQueue, GoodBook

\* A book stays sound if one level gets another sound queue, or goes.
LEMMA LevelChangeKeepsSound ==
    ASSUME NEW bk, SoundBook(bk), NEW side \in Sides, NEW p \in Prices, NEW levels,
           levels = [q \in DOMAIN levels |-> levels[q]],
           \A q \in DOMAIN levels : q # p => q \in DOMAIN bk[side] /\ levels[q] = bk[side][q],
           p \in DOMAIN levels => SoundQueue(levels[p], side, p),
           NEW bk2, bk2 = [bk EXCEPT ![side] = levels]
    PROVE  SoundBook(bk2)
<1>1. bk = [t \in Sides |-> bk[t]]
    BY DEF SoundBook
<1>2. bk2 = [t \in Sides |-> bk2[t]] /\ bk2[side] = levels /\ \A t \in Sides \ {side} : bk2[t] = bk[t]
    BY <1>1
<1>3. \A q \in DOMAIN levels : q \in Prices /\ levels[q] \in Seq(Order) /\ SoundQueue(levels[q], side, q)
    BY DEF SoundBook, IsMap, SoundQueue
<1>4. IsMap(levels, Prices, Seq(Order))
    BY <1>3 DEF IsMap
<1>5. \A t \in Sides \ {side} :
        IsMap(bk2[t], Prices, Seq(Order)) /\ \A q \in DOMAIN bk2[t] : SoundQueue(bk2[t][q], t, q)
    BY <1>2 DEF SoundBook
<1> QED
    BY <1>2, <1>3, <1>4, <1>5 DEF SoundBook

\* What is known of a level of a sound book.
LEMMA SoundLevel ==
    ASSUME NEW bk, SoundBook(bk), NEW side \in Sides, NEW p \in DOMAIN bk[side]
    PROVE  /\ p \in Nat /\ p \in Prices
           /\ bk[side][p] \in Seq(Order)
           /\ Len(bk[side][p]) \in Nat \ {0}
           /\ DOMAIN bk[side][p] = 1 .. Len(bk[side][p])
           /\ \A i \in 1 .. Len(bk[side][p]) :
                /\ bk[side][p][i] \in Order
                /\ bk[side][p][i].side = side /\ bk[side][p][i].price = p
                /\ Sound(bk[side][p][i])
<1>1. GoodBook(bk)
    BY SoundIsGood
<1>2. /\ p \in Nat /\ p \in Prices
      /\ bk[side][p] \in Seq(Order)
      /\ Len(bk[side][p]) \in Nat \ {0}
      /\ DOMAIN bk[side][p] = 1 .. Len(bk[side][p])
      /\ \A i \in 1 .. Len(bk[side][p]) : bk[side][p][i] \in Order
    BY <1>1, LevelProperties
<1>3. SoundQueue(bk[side][p], side, p)
    BY DEF SoundBook
<1> QED
    BY <1>2, <1>3 DEF SoundQueue

\* execute_trade and modify_order change quantities of an order where it is.
LEMMA ReplacementKeepsSound ==
    ASSUME NEW bk, SoundBook(bk), NEW side \in Sides, NEW p \in DOMAIN bk[side],
           NEW i \in 1 .. Len(bk[side][p]),
           NEW o \in Order, Sound(o), o.side = side, o.price = p
    PROVE  SoundBook([bk EXCEPT ![side][p][i] = o])
<1> DEFINE queue == [bk[side][p] EXCEPT ![i] = o]
           levels == [bk[side] EXCEPT ![p] = queue]
<1>1. /\ bk[side][p] \in Seq(Order) /\ p \in Prices
      /\ \A j \in 1 .. Len(bk[side][p]) :
            bk[side][p][j].side = side /\ bk[side][p][j].price = p /\ Sound(bk[side][p][j])
    BY SoundLevel
<1>2. /\ queue \in Seq(Order) /\ Len(queue) = Len(bk[side][p])
      /\ \A j \in 1 .. Len(bk[side][p]) : queue[j] = IF j = i THEN o ELSE bk[side][p][j]
    BY <1>1, ExceptSeq
<1>3. DOMAIN queue = 1 .. Len(bk[side][p]) /\ queue # <<>>
    BY <1>1, <1>2, LenProperties, EmptySeq
<1>4. SoundQueue(queue, side, p)
    BY <1>1, <1>2, <1>3 DEF SoundQueue
<1>5. [bk EXCEPT ![side][p][i] = o] = [bk EXCEPT ![side] = levels]
    OBVIOUS
<1>6. bk[side] = [q \in DOMAIN bk[side] |-> bk[side][q]]
    BY DEF SoundBook, IsMap
<1> HIDE DEF queue
<1>7. /\ DOMAIN levels = DOMAIN bk[side]
      /\ levels = [q \in DOMAIN levels |-> levels[q]]
      /\ levels[p] = queue /\ \A q \in DOMAIN bk[side] : q # p => levels[q] = bk[side][q]
    BY <1>6
<1> HIDE DEF levels
<1>8. SoundBook([bk EXCEPT ![side] = levels])
    BY <1>1, <1>4, <1>7, LevelChangeKeepsSound
<1> QED
    BY <1>5, <1>8

\* add_to_book, whatever is on record for the id.
LEMMA JoiningKeepsSound ==
    ASSUME NEW bk, NEW lk, SoundBook(bk), Located(lk), NEW o \in Order, Sound(o)
    PROVE  SoundBook(BookWith(bk, o)) /\ Located(LookupWith(bk, lk, o))
<1> DEFINE s == o.side
           r == o.price
           queue == QueueAt(bk[s], r)
           longer == Append(queue, o)
           levels == [p \in DOMAIN bk[s] \cup {r} |->
                        IF p = r THEN Append(QueueAt(bk[s], p), o) ELSE bk[s][p]]
           place == [side |-> s, price_level |-> r, order_index |-> Len(queue) + 1]
<1>1. s \in Sides /\ r \in Prices /\ o.order_id \in Ids
    BY DEF Order
<1>2. /\ queue \in Seq(Order)
      /\ \A i \in 1 .. Len(queue) : queue[i].side = s /\ queue[i].price = r /\ Sound(queue[i])
    <2>1. CASE r \in DOMAIN bk[s]
        BY <1>1, <2>1, SoundLevel DEF QueueAt
    <2>2. CASE r \notin DOMAIN bk[s]
        BY <2>2, EmptySeq DEF QueueAt
    <2> QED
        BY <2>1, <2>2
<1> HIDE DEF queue
<1>3. /\ Len(queue) \in Nat
      /\ longer \in Seq(Order) /\ longer # <<>> /\ Len(longer) = Len(queue) + 1
      /\ \A j \in 1 .. Len(queue) : longer[j] = queue[j]
      /\ longer[Len(queue) + 1] = o
    BY <1>2, AppendProperties, LenProperties
<1>4. DOMAIN longer = 1 .. Len(queue) + 1
    BY <1>3, LenProperties
<1>5. SoundQueue(longer, s, r)
    <2>1. \A j \in 1 .. Len(queue) + 1 : j \in 1 .. Len(queue) \/ j = Len(queue) + 1
        BY <1>3
    <2> QED
        BY <1>2, <1>3, <1>4, <2>1 DEF SoundQueue
<1>6. /\ levels = [p \in DOMAIN levels |-> levels[p]]
      /\ \A q \in DOMAIN levels : q # r => q \in DOMAIN bk[s] /\ levels[q] = bk[s][q]
      /\ levels[r] = longer
    BY DEF queue
<1>7. BookWith(bk, o) = [bk EXCEPT ![s] = levels]
    BY DEF BookWith, Joined
<1> HIDE DEF s, r, levels, longer
<1>8. SoundBook(BookWith(bk, o))
    <2>1. SoundQueue(levels[r], s, r)
        BY <1>5, <1>6
    <2>2. SoundBook([bk EXCEPT ![s] = levels])
        BY <1>1, <1>6, <2>1, LevelChangeKeepsSound
    <2> QED
        BY <1>7, <2>2
<1>9. place \in Location /\ place.order_index > 0
    BY <1>1, <1>3 DEF Location, s, r
<1>10. LookupWith(bk, lk, o) =
        [id \in DOMAIN lk \cup {o.order_id} |-> IF id = o.order_id THEN place ELSE lk[id]]
    BY DEF LookupWith, queue, s, r
<1> HIDE DEF place
<1>11. Located(LookupWith(bk, lk, o))
    BY <1>1, <1>9, <1>10 DEF Located, IsMap
<1> QED
    BY <1>8, <1>11

\* remove_from_book, which finds an order with the id, though perhaps not the
\* one that was filled or asked for, or finds none.
LEMMA RemovalKeepsSound ==
    ASSUME NEW bk, NEW lk, SoundBook(bk), Located(lk), NEW id
    PROVE  SoundBook(BookWithout(bk, lk, id)) /\ Located(LookupWithout(bk, lk, id))
<1>1. \A f : Located(f) => Located(Without(f, id))
    BY DEF Located, IsMap, Without, Restrict
<1>2. CASE ~Locatable(bk, lk, id)
    BY <1>1, <1>2 DEF BookWithout, LookupWithout
<1>3. CASE Locatable(bk, lk, id)
    <2> DEFINE s == lk[id].side
               r == lk[id].price_level
               level == bk[s][r]
               k == IndexOf(level, id)
               rest == RemoveAt(level, k)
               levels == LevelsAfter(bk[s], r, rest)
               moved == {x \in Ids : Moved(rest, k, x) # {}}
    <2>1. s \in Sides /\ r \in DOMAIN bk[s] /\ k # 0
        BY <1>3 DEF Locatable, Located, IsMap, Location
    <2>2. /\ r \in Prices
          /\ level \in Seq(Order) /\ Len(level) \in Nat \ {0}
          /\ \A i \in 1 .. Len(level) :
                level[i].side = s /\ level[i].price = r /\ Sound(level[i])
        BY <2>1, SoundLevel
    <2>3. BookWithout(bk, lk, id) = [bk EXCEPT ![s] = levels]
        BY <1>3 DEF BookWithout, Erased
    <2>4. LookupWithout(bk, lk, id) = Without(Reindexed(lk, rest, k), id)
        BY <1>3 DEF LookupWithout, Erased
    <2> HIDE DEF s, r, level
    <2>5. k \in 1 .. Len(level)
        BY <2>1, <2>2, IndexOfProperties
    <2> HIDE DEF k
    <2>6. /\ rest \in Seq(Order) /\ Len(rest) = Len(level) - 1
          /\ \A i \in 1 .. Len(level) - 1 : rest[i] = IF i < k THEN level[i] ELSE level[i + 1]
        BY <2>2, <2>5, RemoveAtProperties
    <2> HIDE DEF rest
    <2>7. DOMAIN rest = 1 .. Len(level) - 1
        BY <2>6, LenProperties
    <2>8. rest # <<>> => SoundQueue(rest, s, r)
        <3>1. \A i \in 1 .. Len(level) - 1 : i \in 1 .. Len(level) /\ i + 1 \in 1 .. Len(level)
            BY <2>2
        <3>2. \A i \in 1 .. Len(level) - 1 :
                rest[i].side = s /\ rest[i].price = r /\ Sound(rest[i])
            BY <2>2, <2>6, <3>1
        <3> QED
            BY <2>6, <2>7, <3>2 DEF SoundQueue
    <2>9. SoundBook(BookWithout(bk, lk, id))
        <3>1. bk[s] = [q \in DOMAIN bk[s] |-> bk[s][q]]
            BY <2>1 DEF SoundBook, IsMap
        <3>2. /\ levels = [q \in DOMAIN levels |-> levels[q]]
              /\ \A q \in DOMAIN levels : q # r => q \in DOMAIN bk[s] /\ levels[q] = bk[s][q]
              /\ r \in DOMAIN levels => rest # <<>> /\ levels[r] = rest
            BY <2>1, <3>1 DEF LevelsAfter, Without, Restrict
        <3> HIDE DEF levels
        <3>3. r \in DOMAIN levels => SoundQueue(levels[r], s, r)
            BY <2>8, <3>2
        <3>4. SoundBook([bk EXCEPT ![s] = levels])
            BY <2>1, <2>2, <3>2, <3>3, LevelChangeKeepsSound
        <3> QED
            BY <2>3, <3>4
    <2>10. ASSUME NEW x \in moved
           PROVE  Max(Moved(rest, k, x)) \in Nat /\ Max(Moved(rest, k, x)) > 0
        <3>1. /\ Moved(rest, k, x) \subseteq Nat /\ Moved(rest, k, x) # {}
              /\ \A y \in Moved(rest, k, x) : y <= Len(level) /\ y > 0
            BY <2>2, <2>5, <2>7 DEF Moved
        <3>2. Max(Moved(rest, k, x)) \in Moved(rest, k, x)
            BY <2>2, <3>1, MaxProperties
        <3> QED
            BY <3>1, <3>2
    <2>11. DefaultLocation \in Location
        BY DEF DefaultLocation, Location, Sides
    <2>12. Reindexed(lk, rest, k) =
            [x \in DOMAIN lk \cup moved |->
                IF x \notin moved THEN lk[x]
                ELSE [(IF x \in DOMAIN lk THEN lk[x] ELSE DefaultLocation)
                        EXCEPT !.order_index = Max(Moved(rest, k, x))]]
        BY DEF Reindexed
    <2>13. moved \subseteq Ids
        OBVIOUS
    <2> HIDE DEF moved
    <2>14. \A x \in DOMAIN lk : x \in Ids /\ lk[x] \in Location /\ lk[x].order_index > 0
        BY DEF Located, IsMap
    <2>15. \A place \in Location : \A n \in Nat :
            /\ [place EXCEPT !.order_index = n] \in Location
            /\ [place EXCEPT !.order_index = n].order_index = n
        BY DEF Location
    <2>16. \A x \in DOMAIN lk \cup moved :
            /\ x \in Ids /\ Reindexed(lk, rest, k)[x] \in Location
            /\ Reindexed(lk, rest, k)[x].order_index > 0
        <3>1. SUFFICES ASSUME NEW x \in DOMAIN lk \cup moved
                       PROVE  /\ x \in Ids /\ Reindexed(lk, rest, k)[x] \in Location
                              /\ Reindexed(lk, rest, k)[x].order_index > 0
            OBVIOUS
        <3>2. CASE x \notin moved
            BY <2>12, <2>14, <3>2
        <3>3. CASE x \in moved
            <4> DEFINE n == Max(Moved(rest, k, x))
                       place == IF x \in DOMAIN lk THEN lk[x] ELSE DefaultLocation
            <4>1. n \in Nat /\ n > 0 /\ place \in Location
                BY <2>10, <2>11, <2>14, <3>3
            <4>2. Reindexed(lk, rest, k)[x] = [place EXCEPT !.order_index = n]
                BY <2>12, <3>3
            <4> HIDE DEF n, place
            <4> QED
                BY <2>13, <2>15, <3>3, <4>1, <4>2
        <3> QED
            BY <3>2, <3>3
    <2>17. Located(Reindexed(lk, rest, k))
        <3>1. /\ DOMAIN Reindexed(lk, rest, k) = DOMAIN lk \cup moved
              /\ Reindexed(lk, rest, k) =
                    [x \in DOMAIN lk \cup moved |-> Reindexed(lk, rest, k)[x]]
            BY <2>12
        <3> QED
            BY <2>16, <3>1 DEF Located, IsMap
    <2> QED
        BY <1>1, <2>4, <2>9, <2>17
<1> QED
    BY <1>2, <1>3

\* An empty book.
LEMMA InitReuse == Init => ReuseInv
<1> SUFFICES ASSUME Init PROVE ReuseInv
    OBVIOUS
<1>1. StateTypes /\ GoodBook(book)
    BY InitIInv DEF IInv, BookInv
<1>2. SoundBook(book) /\ Located(lookup)
    BY <1>1 DEF Init, SoundBook, GoodBook, Located, IsMap
<1> QED
    BY <1>1, <1>2 DEF Init, ReuseInv

\* add_order up to its matching.
LEMMA SubmitOrderKeepsReuse ==
    ASSUME ReuseInv, NEW o \in Offers, SubmitOrder(o)
    PROVE  ReuseInv'
<1>1. o \in Order /\ o.order_id \in Ids
    BY BookAssumption DEF Order
<1>2. o.filled_quantity = 0 /\ o.leaves_quantity = o.quantity /\ o.quantity \in Int
    <2>1. o = NewOrder(o.order_id, o.type, o.side, o.quantity, o.price)
        BY BookAssumption
    <2>2. o.filled_quantity = 0
        BY <2>1 DEF NewOrder
    <2>3. o.leaves_quantity = o.quantity
        BY <2>1 DEF NewOrder
    <2> QED
        BY <1>1, <2>2, <2>3 DEF Order
<1>3. CASE RejectInvalid(o)
    <2>1. /\ objects' = [objects EXCEPT ![o.order_id] = o]
          /\ UNCHANGED <<book, lookup, phase, order, trade, arrivals, executed, cancelled>>
        BY <1>3 DEF RejectInvalid
    <2>2. StateTypes'
        BY <1>1, <2>1 DEF ReuseInv, StateTypes
    <2> QED
        BY <2>1, <2>2 DEF ReuseInv
<1>4. CASE AcceptOrder(o)
    <2>1. /\ order' = [o EXCEPT !.status = "ACTIVE"]
          /\ phase' \in {"fok", "match"}
          /\ phase = "idle"
          /\ arrivals' = Append(arrivals, o.order_id)
          /\ UNCHANGED <<book, lookup, trade, objects, executed, cancelled>>
          /\ o.quantity > 0
        BY <1>4 DEF AcceptOrder, Acceptable
    <2>2. order' \in Order /\ Sound(order')
        BY <1>1, <1>2, <2>1 DEF Order, OrderStatuses, Sound
    <2>3. order' # None
        BY <2>2, TypesAssumption
    <2>4. arrivals' \in Seq(Ids)
        BY <1>1, <2>1, AppendProperties DEF ReuseInv, StateTypes
    <2>5. StateTypes'
        BY <2>1, <2>2, <2>4 DEF ReuseInv, StateTypes, Phases
    <2>6. trade = None
        BY <2>1 DEF ReuseInv
    <2> QED
        BY <2>1, <2>2, <2>3, <2>5, <2>6 DEF ReuseInv
<1> QED
    BY <1>3, <1>4 DEF SubmitOrder

\* The check of a fill-or-kill order.
LEMMA CheckFokKeepsReuse ==
    ASSUME ReuseInv, CheckFok
    PROVE  ReuseInv'
<1>1. /\ phase = "fok"
      /\ phase' \in {"match", "reject"}
      /\ order' \in {order, [order EXCEPT !.status = "REJECTED"]}
      /\ UNCHANGED <<book, lookup, trade, objects, arrivals, executed, cancelled>>
    BY DEF CheckFok
<1>2. order # None /\ order \in Order /\ Sound(order)
    BY <1>1 DEF ReuseInv, StateTypes
<1>3. /\ order' \in Order
      /\ order'.type = order.type /\ order'.side = order.side /\ order'.price = order.price
      /\ order'.filled_quantity = order.filled_quantity
      /\ order'.leaves_quantity = order.leaves_quantity
      /\ order'.quantity = order.quantity
    BY <1>1, <1>2 DEF Order, OrderStatuses
<1>4. order' # None
    BY <1>3, TypesAssumption
<1>5. StateTypes'
    BY <1>1, <1>3 DEF ReuseInv, StateTypes, Phases
<1>6. Sound(order') /\ \A p : WithinLimit(order, p) => WithinLimit(order', p)
    BY <1>2, <1>3 DEF Sound, WithinLimit
<1> QED
    BY <1>1, <1>2, <1>3, <1>4, <1>5, <1>6 DEF ReuseInv

\* A round of the matching loop, which may leave a filled maker in the queue.
LEMMA MatchStepKeepsReuse ==
    ASSUME ReuseInv, MatchStep
    PROVE  ReuseInv'
<1> DEFINE side == Opposite(order.side)
           p == BestLevel(book[side])
           level == book[side][p]
           maker == Head(level)
           q == Smaller(order.leaves_quantity, maker.leaves_quantity)
           filled == Fill(maker, q)
           traded == [book EXCEPT ![side][p][1] = filled]
<1>1. /\ phase = "match" /\ KeepsMatching
      /\ UNCHANGED <<phase, objects, arrivals, cancelled>>
      /\ StateTypes /\ SoundBook(book) /\ Located(lookup)
    BY DEF MatchStep, ReuseInv
<1>2. order # None /\ order \in Order /\ Sound(order)
    BY <1>1 DEF ReuseInv, StateTypes
<1>3. side \in Sides
    BY <1>2 DEF Order, Sides, Opposite
<1>4. DOMAIN book[side] # {} /\ CanMatch(order, p)
    BY <1>1 DEF KeepsMatching
<1>5. DOMAIN book[side] \subseteq Nat
    BY <1>1, <1>3, SoundLevel
<1>6. p \in DOMAIN book[side]
    BY <1>4, <1>5, MinProperties DEF BestLevel
<1>7. /\ level \in Seq(Order) /\ Len(level) \in Nat \ {0}
      /\ \A i \in 1 .. Len(level) :
            /\ level[i] \in Order
            /\ level[i].side = side /\ level[i].price = p /\ Sound(level[i])
    BY <1>1, <1>3, <1>6, SoundLevel
<1>8. 1 \in 1 .. Len(level) /\ maker = level[1]
    BY <1>7
<1>9. maker \in Order /\ maker.side = side /\ maker.price = p /\ Sound(maker)
    BY <1>7, <1>8
<1> HIDE DEF side, p, level, maker
<1>10. q \in Nat /\ q <= order.leaves_quantity /\ q <= maker.leaves_quantity
    BY <1>2, <1>9 DEF Sound, Smaller, Order
<1>11. /\ order' = Fill(order, q)
       /\ trade' = [maker_order_id |-> maker.order_id,
                    taker_order_id |-> order.order_id,
                    price |-> maker.price, quantity |-> q,
                    is_buyer_maker |-> maker.side = "BUY"]
       /\ executed' = [[executed EXCEPT ![maker.order_id] = @ + q]
                                 EXCEPT ![order.order_id] = @ + q]
       /\ \/ book' = traded /\ lookup' = lookup
          \/ /\ book' = BookWithout(traded, lookup, maker.order_id)
             /\ lookup' = LookupWithout(traded, lookup, maker.order_id)
    BY DEF MatchStep, side, p, level, maker
<1> HIDE DEF q
<1>12. filled \in Order /\ Sound(filled) /\ filled.side = side /\ filled.price = p
    <2>1. q \in Int /\ maker.leaves_quantity \in Int /\ maker.filled_quantity \in Int
        BY <1>9, <1>10 DEF Order
    <2>2. /\ filled \in Order /\ filled.side = side /\ filled.price = p
          /\ filled.quantity = maker.quantity
          /\ filled.filled_quantity = maker.filled_quantity + q
          /\ filled.leaves_quantity = maker.leaves_quantity - q
        BY <1>9, <2>1, FillProperties
    <2> HIDE DEF filled
    <2> QED
        BY <1>9, <1>10, <2>1, <2>2 DEF Sound
<1>13. /\ order' \in Order /\ Sound(order') /\ order'.side = order.side
       /\ order'.price = order.price /\ order'.type = order.type
    BY <1>2, <1>10, <1>11, FillProperties DEF Sound, Order
<1> HIDE DEF filled
<1>14. 1 \in 1 .. Len(book[side][p])
    BY <1>8 DEF level
<1>15. SoundBook(traded)
    BY <1>1, <1>3, <1>6, <1>12, <1>14, ReplacementKeepsSound
<1> HIDE DEF traded
<1>16. SoundBook(book') /\ Located(lookup')
    BY <1>1, <1>11, <1>15, RemovalKeepsSound
<1>17. order' # None
    BY <1>13, TypesAssumption
<1>18. /\ maker.order_id \in Ids /\ order.order_id \in Ids
       /\ maker.price \in Prices /\ (maker.side = "BUY") \in BOOLEAN
    BY <1>2, <1>9 DEF Order
<1>19. trade' \in Trade
    BY <1>10, <1>11, <1>18 DEF Trade
<1>20. executed' \in [Ids -> Nat]
    <2>1. executed \in [Ids -> Nat]
        BY <1>1 DEF StateTypes
    <2>2. [executed EXCEPT ![maker.order_id] = @ + q] \in [Ids -> Nat]
        BY <1>10, <1>18, <2>1
    <2> QED
        BY <1>10, <1>11, <1>18, <2>2
<1>21. StateTypes'
    BY <1>1, <1>13, <1>19, <1>20 DEF StateTypes
<1>22. order'.type # "MARKET" => WithinLimit(order', trade'.price)
    <2>1. order.type # "MARKET" => WithinLimit(order, p)
        BY <1>4 DEF CanMatch
    <2>2. trade'.price = p
        BY <1>9, <1>11
    <2>3. WithinLimit(order, p) => WithinLimit(order', p)
        BY <1>13 DEF WithinLimit
    <2> QED
        BY <1>13, <2>1, <2>2, <2>3
<1> QED
    BY <1>1, <1>13, <1>16, <1>17, <1>21, <1>22 DEF ReuseInv

\* add_order returns.
LEMMA ReturnKeepsReuse ==
    ASSUME ReuseInv, RestInBook \/ LeaveBook
    PROVE  ReuseInv'
<1>1. /\ phase # "idle" /\ phase' = "idle" /\ order' = None /\ trade' = None
      /\ objects' = [objects EXCEPT ![order.order_id] = order]
      /\ UNCHANGED <<arrivals, executed, cancelled>>
    BY DEF RestInBook, LeaveBook, ReturnToCaller, MatchingDone
<1>2. order # None /\ order \in Order /\ Sound(order)
    BY <1>1 DEF ReuseInv, StateTypes
<1>3. StateTypes'
    BY <1>1, <1>2 DEF ReuseInv, StateTypes, Phases, Order
<1>4. SoundBook(book') /\ Located(lookup')
    <2>1. CASE RestInBook
        BY <1>2, <2>1, JoiningKeepsSound DEF RestInBook, ReuseInv
    <2>2. CASE LeaveBook
        BY <2>2 DEF LeaveBook, ReuseInv
    <2> QED
        BY <2>1, <2>2
<1> QED
    BY <1>1, <1>3, <1>4 DEF ReuseInv

\* cancel_order.
LEMMA CancelOrderKeepsReuse ==
    ASSUME ReuseInv, NEW id \in Ids, CancelOrder(id)
    PROVE  ReuseInv'
<1>1. CASE id \notin DOMAIN lookup
    BY <1>1 DEF CancelOrder, vars, ReuseInv, StateTypes
<1>2. CASE id \in DOMAIN lookup
    <2>1. /\ book' = BookWithout(book, lookup, id)
          /\ lookup' = LookupWithout(book, lookup, id)
          /\ cancelled' = cancelled \cup {id}
          /\ UNCHANGED <<phase, order, trade, objects, arrivals, executed>>
        BY <1>2 DEF CancelOrder
    <2>2. SoundBook(book') /\ Located(lookup')
        BY <2>1, RemovalKeepsSound DEF ReuseInv
    <2>3. StateTypes'
        BY <2>1 DEF ReuseInv, StateTypes
    <2> QED
        BY <2>1, <2>2, <2>3 DEF ReuseInv
<1> QED
    BY <1>1, <1>2

\* modify_order, on whatever order the record leads to.
LEMMA ModifyOrderKeepsReuse ==
    ASSUME ReuseInv, NEW id \in Ids, NEW quantity \in NewQuantities, ModifyOrder(id, quantity)
    PROVE  ReuseInv'
<1> DEFINE side == lookup[id].side
           p == lookup[id].price_level
           i == lookup[id].order_index
           resting == book[side][p][i]
           modified == Modified(resting, quantity)
<1>1. /\ StateTypes /\ SoundBook(book) /\ Located(lookup)
      /\ id \in DOMAIN lookup /\ p \in DOMAIN book[side] /\ i <= Len(book[side][p])
      /\ quantity >= resting.filled_quantity
      /\ book' = [book EXCEPT ![side][p][i] = modified]
      /\ UNCHANGED <<lookup, phase, order, trade, objects, arrivals, executed, cancelled>>
    BY DEF ModifyOrder, PositionOf, ReuseInv
<1>2. quantity \in Int
    BY BookAssumption
<1>3. side \in Sides /\ i \in Nat /\ i > 0
    BY <1>1 DEF Located, IsMap, Location
<1> HIDE DEF side, p, i
<1>4. i \in 1 .. Len(book[side][p])
    BY <1>1, <1>3, SoundLevel
<1>5. /\ resting \in Order /\ Sound(resting)
      /\ resting.side = side /\ resting.price = p
    BY <1>1, <1>3, <1>4, SoundLevel
<1> HIDE DEF resting
<1>6. /\ resting.filled_quantity \in Int
      /\ quantity - resting.filled_quantity \in Int
      /\ quantity - resting.filled_quantity >= 0
      /\ resting.filled_quantity + (quantity - resting.filled_quantity) = quantity
    BY <1>1, <1>2, <1>5 DEF Order
<1>7. /\ modified \in Order
      /\ modified.side = resting.side /\ modified.price = resting.price
      /\ modified.quantity = quantity
      /\ modified.filled_quantity = resting.filled_quantity
      /\ modified.leaves_quantity = quantity - resting.filled_quantity
    BY <1>2, <1>5, <1>6 DEF Modified, Order
<1>8. Sound(modified)
    BY <1>5, <1>6, <1>7 DEF Sound
<1> HIDE DEF modified
<1>9. SoundBook(book')
    BY <1>1, <1>3, <1>4, <1>5, <1>7, <1>8, ReplacementKeepsSound
<1>10. StateTypes'
    BY <1>1 DEF StateTypes
<1> QED
    BY <1>1, <1>9, <1>10 DEF ReuseInv

\* Every step of ReuseNext keeps the invariant.
LEMMA NextReuse == ReuseInv /\ [ReuseNext]_vars => ReuseInv'
<1> SUFFICES ASSUME ReuseInv, [ReuseNext]_vars PROVE ReuseInv'
    OBVIOUS
<1>1. CASE \E o \in Offers : SubmitOrder(o)
    BY <1>1, SubmitOrderKeepsReuse
<1>2. CASE Continue
    BY <1>2, CheckFokKeepsReuse, MatchStepKeepsReuse, ReturnKeepsReuse DEF Continue
<1>3. CASE OtherCalls
    BY <1>3, CancelOrderKeepsReuse, ModifyOrderKeepsReuse DEF OtherCalls
<1>4. CASE UNCHANGED vars
    BY <1>4 DEF vars, ReuseInv, StateTypes
<1> QED
    BY <1>1, <1>2, <1>3, <1>4 DEF ReuseNext

\* Also where clients use ids again, so that the lookup leads astray: no trade is
\* outside the limit of its taker, no order gets more than its quantity, no level
\* is empty or has an order of another price, and all types are kept.
THEOREM SafeWithReusedIds ==
    ReuseSpec => [](TypeOK /\ LimitRespected /\ NeverOverfilled /\ LevelsWellFormed)
<1>1. ASSUME ReuseInv
      PROVE  TypeOK /\ LimitRespected /\ NeverOverfilled /\ LevelsWellFormed
    <2>1. /\ StateTypes /\ SoundBook(book) /\ Located(lookup)
          /\ order # None => Sound(order)
        BY <1>1 DEF ReuseInv
    <2>2. TypeOK
        BY <2>1 DEF TypeOK, StateTypes, SoundBook, Located
    <2>3. LevelsWellFormed
        BY <2>1 DEF LevelsWellFormed, SoundBook, SoundQueue, Range
    <2>4. LimitRespected
        BY <1>1 DEF LimitRespected, ReuseInv
    <2>5. ASSUME NEW o \in Resting PROVE Sound(o)
        <3>1. PICK side \in Sides : o \in RestingOn(side)
            BY DEF Resting, Sides
        <3>2. PICK p \in DOMAIN book[side] : o \in Range(book[side][p])
            BY <3>1 DEF RestingOn
        <3>3. PICK i \in DOMAIN book[side][p] : o = book[side][p][i]
            BY <3>2 DEF Range
        <3> QED
            BY <2>1, <3>3 DEF SoundBook, SoundQueue
    <2>6. NeverOverfilled
        BY <2>1, <2>5 DEF NeverOverfilled, Sound
    <2> QED
        BY <2>2, <2>3, <2>4, <2>6
<1> QED
    BY <1>1, InitReuse, NextReuse, PTL DEF ReuseSpec
===============================================================================
