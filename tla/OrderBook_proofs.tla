------------------------- MODULE OrderBook_proofs -------------------------
(***************************************************************************)
(* Lemmas about the order book: what each operation on a book preserves.   *)
(***************************************************************************)
EXTENDS OrderBook, SumTheorems

----------------------------------------------------------------------------
(* Least and greatest elements, for begin() of a sorted map. *)

(* A non-empty set of natural numbers has a least element and Min is it. *)
LEMMA MinIsLeast ==
    ASSUME NEW S \in SUBSET Nat, S # {}
    PROVE  Min(S) \in S /\ \A y \in S : Min(S) <= y
<1> DEFINE R == OpToRel(<, Nat)
<1>1. IsWellFoundedOn(R, Nat)
  BY NatLessThanWellFounded
<1> HIDE DEF R
<1>2. PICK x \in S : \A y \in S : ~ (<<y, x>> \in R)
  BY <1>1, WFMin
<1>3. \A y \in S : x <= y
  <2>1. ASSUME NEW y \in S, y < x
        PROVE  <<y, x>> \in R
    <3>1. <<y, x>> \in Nat \X Nat
      OBVIOUS
    <3> QED BY <2>1, <3>1, Zenon DEF R, OpToRel
  <2>2. \A y \in S : ~(y < x)
    BY <1>2, <2>1
  <2> QED BY <2>2
<1>4. QED
  BY <1>3 DEF Min

(* A non-empty set of prices has a greatest element and Max is it. *)
LEMMA MaxIsGreatest ==
    ASSUME NEW S \in SUBSET Price, S # {}
    PROVE  Max(S) \in S /\ \A y \in S : Max(S) >= y
<1> DEFINE T == {MaxPrice - x : x \in S}
<1>1. T \in SUBSET Nat /\ T # {}
  <2>1. \A x \in S : MaxPrice - x \in Nat
    BY MaxPriceAssumption DEF Price
  <2>2. PICK x \in S : TRUE
    OBVIOUS
  <2>3. MaxPrice - x \in T
    BY <2>2
  <2> QED BY <2>1, <2>3
<1>2. PICK m \in T : \A t \in T : m <= t
  <2> HIDE DEF T
  <2> QED BY <1>1, MinIsLeast
<1>3. PICK x \in S : m = MaxPrice - x
  BY <1>2
<1>4. \A y \in S : x >= y
  <2> TAKE y \in S
  <2>1. m <= MaxPrice - y
    <3>1. MaxPrice - y \in T
      OBVIOUS
    <3> QED BY <1>2, <3>1
  <2>2. x \in Int /\ y \in Int /\ MaxPrice \in Int
    BY MaxPriceAssumption DEF Price
  <2> QED BY <1>3, <2>1, <2>2
<1>5. QED
  BY <1>4 DEF Max

(* BestPrice is the price of a level, and no level has a better one. *)
LEMMA BestPriceIsBest ==
    ASSUME NEW bk, NEW s \in Side, IsBook(bk), HasLevels(bk, s)
    PROVE  /\ BestPrice(bk, s) \in DOMAIN bk.level[s]
           /\ s = "BUY"  => \A p \in DOMAIN bk.level[s] : p <= BestPrice(bk, s)
           /\ s = "SELL" => \A p \in DOMAIN bk.level[s] : p >= BestPrice(bk, s)
<1> DEFINE D == DOMAIN bk.level[s]
<1>1. D \in SUBSET Price /\ D # {} /\ Price \subseteq Nat
  BY MaxPriceAssumption DEF IsBook, IsMap, HasLevels, Price
<1>2. CASE s = "BUY"
  <2>1. BestPrice(bk, s) = Max(D)
    BY <1>2 DEF BestPrice
  <2> HIDE DEF D
  <2>2. Max(D) \in D /\ \A p \in D : Max(D) >= p
    BY <1>1, MaxIsGreatest
  <2>3. Max(D) \in Nat /\ \A p \in D : p \in Nat
    BY <1>1, <2>2
  <2>4. \A p \in D : p <= Max(D)
    BY <2>2, <2>3
  <2> QED BY <1>2, <2>1, <2>2, <2>4 DEF D
<1>3. CASE s = "SELL"
  <2>1. BestPrice(bk, s) = Min(D)
    BY <1>3 DEF BestPrice
  <2> HIDE DEF D
  <2>2. Min(D) \in D /\ \A p \in D : Min(D) <= p
    BY <1>1, MinIsLeast
  <2>3. Min(D) \in Nat /\ \A p \in D : p \in Nat
    BY <1>1, <2>2
  <2>4. \A p \in D : p >= Min(D)
    BY <2>2, <2>3
  <2> QED BY <1>3, <2>1, <2>2, <2>4 DEF D
<1>4. QED
  BY <1>2, <1>3 DEF Side

----------------------------------------------------------------------------
(* Maps. *)

(* A book whose level (s, p) is set to lv: every other level is the same. *)
LEMMA PutLevelProperties ==
    ASSUME NEW bk, IsBook(bk), NEW s \in Side, NEW p \in Price,
           NEW lv \in PriceLevel, NEW L,
           L = [bk.level EXCEPT ![s] = Put(bk.level[s], p, lv)]
    PROVE  /\ L = [t \in Side |-> L[t]]
           /\ \A t \in Side : IsMap(L[t], Price, PriceLevel)
           /\ DOMAIN L[s] = DOMAIN bk.level[s] \union {p}
           /\ L[s][p] = lv
           /\ \A x \in DOMAIN bk.level[s] : x # p => L[s][x] = bk.level[s][x]
           /\ \A t \in Side : t # s => L[t] = bk.level[t]
<1>1. /\ bk.level = [t \in Side |-> bk.level[t]]
      /\ \A t \in Side : IsMap(bk.level[t], Price, PriceLevel)
  BY DEF IsBook
<1>2. /\ L = [t \in Side |-> L[t]]
      /\ L[s] = Put(bk.level[s], p, lv)
      /\ \A t \in Side : t # s => L[t] = bk.level[t]
  BY <1>1, Zenon
<1>3. /\ IsMap(L[s], Price, PriceLevel)
      /\ DOMAIN L[s] = DOMAIN bk.level[s] \union {p}
      /\ L[s][p] = lv
      /\ \A x \in DOMAIN bk.level[s] : x # p => L[s][x] = bk.level[s][x]
  <2>1. IsMap(bk.level[s], Price, PriceLevel)
    BY <1>1
  <2>2. /\ IsMap(Put(bk.level[s], p, lv), Price, PriceLevel)
        /\ DOMAIN Put(bk.level[s], p, lv) = DOMAIN bk.level[s] \union {p}
        /\ Put(bk.level[s], p, lv)[p] = lv
        /\ \A x \in DOMAIN bk.level[s] :
              x # p => Put(bk.level[s], p, lv)[x] = bk.level[s][x]
    BY <2>1 DEF IsMap, Put
  <2> QED BY <1>2, <2>2
<1>4. \A t \in Side : IsMap(L[t], Price, PriceLevel)
  BY <1>1, <1>2, <1>3
<1>5. QED
  BY <1>2, <1>3, <1>4

(* A book whose level (s, p) is erased: every other level is the same. *)
LEMMA EraseLevelProperties ==
    ASSUME NEW bk, IsBook(bk), NEW s \in Side, NEW p \in Price, NEW L,
           L = [bk.level EXCEPT ![s] = Erase(bk.level[s], p)]
    PROVE  /\ L = [t \in Side |-> L[t]]
           /\ \A t \in Side : IsMap(L[t], Price, PriceLevel)
           /\ DOMAIN L[s] = DOMAIN bk.level[s] \ {p}
           /\ \A x \in DOMAIN bk.level[s] : x # p => L[s][x] = bk.level[s][x]
           /\ \A t \in Side : t # s => L[t] = bk.level[t]
<1>1. /\ bk.level = [t \in Side |-> bk.level[t]]
      /\ \A t \in Side : IsMap(bk.level[t], Price, PriceLevel)
  BY DEF IsBook
<1>2. /\ L = [t \in Side |-> L[t]]
      /\ L[s] = Erase(bk.level[s], p)
      /\ \A t \in Side : t # s => L[t] = bk.level[t]
  BY <1>1, Zenon
<1>3. /\ IsMap(L[s], Price, PriceLevel)
      /\ DOMAIN L[s] = DOMAIN bk.level[s] \ {p}
      /\ \A x \in DOMAIN bk.level[s] : x # p => L[s][x] = bk.level[s][x]
  <2>1. IsMap(bk.level[s], Price, PriceLevel)
    BY <1>1
  <2>2. /\ IsMap(Erase(bk.level[s], p), Price, PriceLevel)
        /\ DOMAIN Erase(bk.level[s], p) = DOMAIN bk.level[s] \ {p}
        /\ \A x \in DOMAIN bk.level[s] :
              x # p => Erase(bk.level[s], p)[x] = bk.level[s][x]
    BY <2>1 DEF IsMap, Erase
  <2> QED BY <1>2, <2>2
<1>4. \A t \in Side : IsMap(L[t], Price, PriceLevel)
  BY <1>1, <1>2, <1>3
<1>5. QED
  BY <1>2, <1>3, <1>4

----------------------------------------------------------------------------
(* The book invariant: what every operation preserves, whether or not the  *)
(* ids of the orders are unique.  The index is right for the orders whose  *)
(* id is their own: orders that share an id overwrite and erase each       *)
(* other's entries, and no one else's.                                     *)

OwnQueuedAreIndexed(bk) ==
    \A s \in Side : \A p \in DOMAIN bk.level[s] :
        \A i \in DOMAIN bk.level[s][p].orders :
            LET id == order_id[bk.level[s][p].orders[i]]
            IN  OwnId(id) => /\ id \in DOMAIN bk.order_index
                             /\ bk.order_index[id] = [side |-> s, price |-> p]

OwnIndexedAreQueued(bk) ==
    \A id \in DOMAIN bk.order_index :
        \E o \in Order :
            /\ order_id[o] = id
            /\ OwnId(id) =>
                  RestsAt(bk, o, bk.order_index[id].side, bk.order_index[id].price)

(* No order rests at two levels. *)
LevelsApart(bk) ==
    \A o : \A s, t \in Side : \A p, x :
        RestsAt(bk, o, s, p) /\ RestsAt(bk, o, t, x) => s = t /\ p = x

BookInv(bk) ==
    /\ IsBook(bk)
    /\ OwnQueuedAreIndexed(bk)
    /\ OwnIndexedAreQueued(bk)
    /\ QueuesDistinct(bk)
    /\ LevelsApart(bk)
    /\ BidsBelowAsks(bk)

(* Where all ids are unique, index and deques describe the same orders. *)
LEMMA AllOwn == UniqueOrderIds => \A id : OwnId(id)
BY DEF UniqueOrderIds, OwnId

LEMMA UniqueIndexed ==
    ASSUME UniqueOrderIds, NEW bk, BookInv(bk)
    PROVE  QueuedAreIndexed(bk) /\ IndexedAreQueued(bk)
<1>1. \A id : OwnId(id)
  BY AllOwn
<1>2. QueuedAreIndexed(bk)
  BY <1>1, Zenon DEF BookInv, OwnQueuedAreIndexed, QueuedAreIndexed
<1>3. IndexedAreQueued(bk)
  BY <1>1, Zenon DEF BookInv, OwnIndexedAreQueued, IndexedAreQueued
<1> QED BY <1>2, <1>3

(* The queue of a level is a sequence of orders. *)
LEMMA QueueProperties ==
    ASSUME NEW bk, IsBook(bk), NEW s \in Side, NEW p \in DOMAIN bk.level[s]
    PROVE  /\ p \in Price
           /\ bk.level[s][p] \in PriceLevel
           /\ bk.level[s][p].orders \in Seq(Order)
           /\ bk.level[s][p].total_qty \in Int
           /\ Len(bk.level[s][p].orders) \in Nat
           /\ DOMAIN bk.level[s][p].orders = 1..Len(bk.level[s][p].orders)
<1>1. p \in Price /\ bk.level[s][p] \in PriceLevel
  BY DEF IsBook, IsMap
<1>2. bk.level[s][p].orders \in Seq(Order) /\ bk.level[s][p].total_qty \in Int
  BY <1>1 DEF PriceLevel
<1>3. QED
  BY <1>1, <1>2, LenProperties

(* The book of a new symbol. *)
LEMMA EmptyBookInv == BookInv(EmptyBook)
<1>1. \A s \in Side : EmptyBook.level[s] = EmptyMap
  BY DEF EmptyBook
<1>2. DOMAIN EmptyMap = {} /\ EmptyBook.order_index = EmptyMap
  BY DEF EmptyMap, EmptyBook
<1>3. \A K, V : IsMap(EmptyMap, K, V)
  BY DEF EmptyMap, IsMap
<1>4. IsBook(EmptyBook)
  BY <1>1, <1>2, <1>3 DEF IsBook, EmptyBook
<1>5. QED
  BY <1>1, <1>2, <1>4
     DEF BookInv, OwnQueuedAreIndexed, OwnIndexedAreQueued, QueuesDistinct,
         LevelsApart, RestsAt, BidsBelowAsks, Side

(* OrderBook::add_limit_order keeps the book consistent when the order is  *)
(* new to the book and does not cross.                                     *)
LEMMA AddLimitOrderInv ==
    ASSUME NEW bk, BookInv(bk),
           NEW ords, NEW o \in Order, NEW s \in Side, NEW p \in Price,
           ords[o].side = s, ords[o].price = p, Remaining(ords[o]) \in Int,
           \A t \in Side : \A x \in DOMAIN bk.level[t] : ~RestsAt(bk, o, t, x),
           s = "BUY"  => \A x \in DOMAIN bk.level["SELL"] : p < x,
           s = "SELL" => \A x \in DOMAIN bk.level["BUY"] : x < p
    PROVE  LET new == AddLimitOrder(bk, ords, o)
           IN  /\ BookInv(new)
               /\ \A t \in Side : \A x \in DOMAIN new.level[t] :
                     \/ t = s /\ x = p /\ new.level[t][x].orders # <<>>
                     \/ x \in DOMAIN bk.level[t] /\ new.level[t][x] = bk.level[t][x]
               /\ \A y, t, x : RestsAt(new, y, t, x) /\ t \in Side
                     => RestsAt(bk, y, t, x) \/ (y = o /\ t = s /\ x = p)
<1> DEFINE old == IF p \in DOMAIN bk.level[s] THEN bk.level[s][p] ELSE EmptyLevel
           lv  == [total_qty |-> old.total_qty + Remaining(ords[o]),
                   orders    |-> Append(old.orders, o)]
           new == AddLimitOrder(bk, ords, o)
           id  == order_id[o]
<1>1. IsBook(bk)
  BY DEF BookInv
<1>2. /\ old \in PriceLevel
      /\ old.orders \in Seq(Order)
      /\ old.total_qty \in Int
      /\ Len(old.orders) \in Nat
      /\ DOMAIN old.orders = 1..Len(old.orders)
  <2>1. CASE p \in DOMAIN bk.level[s]
    BY <1>1, <2>1, QueueProperties
  <2>2. CASE p \notin DOMAIN bk.level[s]
    <3>1. old = [total_qty |-> 0, orders |-> <<>>]
      BY <2>2 DEF EmptyLevel
    <3> HIDE DEF old
    <3>2. old.orders = <<>> /\ old.total_qty = 0 /\ <<>> \in Seq(Order)
      BY <3>1
    <3> QED BY <3>1, <3>2, LenProperties DEF PriceLevel
  <2> QED BY <2>1, <2>2
<1> HIDE DEF old
<1>3. /\ Append(old.orders, o) \in Seq(Order)
      /\ Append(old.orders, o) # <<>>
      /\ Len(Append(old.orders, o)) = Len(old.orders) + 1
      /\ DOMAIN Append(old.orders, o) = 1..(Len(old.orders) + 1)
      /\ \A i \in 1..Len(old.orders) : Append(old.orders, o)[i] = old.orders[i]
      /\ Append(old.orders, o)[Len(old.orders) + 1] = o
  BY <1>2, AppendProperties, LenProperties
<1>4. /\ lv \in PriceLevel
      /\ lv.orders = Append(old.orders, o)
  BY <1>2, <1>3 DEF PriceLevel
<1>5. /\ new = [level |-> new.level, order_index |-> new.order_index]
      /\ new.level = [bk.level EXCEPT ![s] = Put(bk.level[s], p, lv)]
      /\ new.order_index = Put(bk.order_index, id, [side |-> s, price |-> p])
  BY DEF AddLimitOrder, AddOrder, old
<1> HIDE DEF lv, new
<1>6. /\ new.level = [t \in Side |-> new.level[t]]
      /\ \A t \in Side : IsMap(new.level[t], Price, PriceLevel)
      /\ DOMAIN new.level[s] = DOMAIN bk.level[s] \union {p}
      /\ new.level[s][p] = lv
      /\ \A x \in DOMAIN bk.level[s] : x # p => new.level[s][x] = bk.level[s][x]
      /\ \A t \in Side : t # s => new.level[t] = bk.level[t]
  BY <1>1, <1>4, <1>5, PutLevelProperties
<1>7. /\ IsMap(new.order_index, OrderId, OrderLocation)
      /\ DOMAIN new.order_index = DOMAIN bk.order_index \union {id}
      /\ new.order_index[id] = [side |-> s, price |-> p]
      /\ \A x \in DOMAIN bk.order_index :
            x # id => new.order_index[x] = bk.order_index[x]
  <2>1. id \in OrderId /\ [side |-> s, price |-> p] \in OrderLocation
    BY OrderIdAssumption DEF OrderLocation
  <2>2. IsMap(bk.order_index, OrderId, OrderLocation)
    BY <1>1 DEF IsBook
  <2> HIDE DEF id
  <2> QED BY <1>5, <2>1, <2>2 DEF IsMap, Put
<1>8. IsBook(new)
  BY <1>5, <1>6, <1>7 DEF IsBook
\* o is in no queue of bk, so neither is its id, if it is its own
<1>9. \A t \in Side : \A x \in DOMAIN bk.level[t] :
         \A i \in DOMAIN bk.level[t][x].orders :
            /\ bk.level[t][x].orders[i] # o
            /\ bk.level[t][x].orders[i] \in Order
            /\ OwnId(id) => order_id[bk.level[t][x].orders[i]] # id
  <2> TAKE t \in Side
  <2> TAKE x \in DOMAIN bk.level[t]
  <2> TAKE i \in DOMAIN bk.level[t][x].orders
  <2>1. bk.level[t][x].orders[i] # o
    BY DEF RestsAt
  <2>2. bk.level[t][x].orders[i] \in Order
    BY <1>1, QueueProperties, ElementOfSeq
  <2> QED BY <2>1, <2>2 DEF OwnId
\* the old queue at p, seen through the level when there is one
<1>10. p \in DOMAIN bk.level[s] => old = bk.level[s][p]
  BY DEF old
<1>11. p \notin DOMAIN bk.level[s] => Len(old.orders) = 0
  BY DEF old, EmptyLevel
\* every position of the new book is an old position or the appended one
<1>12. \A t \in Side : \A x \in DOMAIN new.level[t] :
          \A i \in DOMAIN new.level[t][x].orders :
             \/ /\ x \in DOMAIN bk.level[t]
                /\ i \in DOMAIN bk.level[t][x].orders
                /\ new.level[t][x].orders[i] = bk.level[t][x].orders[i]
             \/ /\ t = s /\ x = p /\ i = Len(old.orders) + 1
                /\ new.level[t][x].orders[i] = o
  <2> TAKE t \in Side
  <2> TAKE x \in DOMAIN new.level[t]
  <2> TAKE i \in DOMAIN new.level[t][x].orders
  <2>1. CASE t = s /\ x = p
    <3>1. new.level[t][x].orders = Append(old.orders, o)
      BY <1>4, <1>6, <2>1
    <3>2. i \in 1..(Len(old.orders) + 1)
      BY <1>3, <3>1
    <3>3. CASE i = Len(old.orders) + 1
      BY <1>3, <2>1, <3>1, <3>3
    <3>4. CASE i \in 1..Len(old.orders)
      <4>1. p \in DOMAIN bk.level[s]
        BY <1>2, <1>11, <3>4
      <4> QED BY <1>2, <1>3, <1>10, <2>1, <3>1, <3>4, <4>1
    <3>5. i = Len(old.orders) + 1 \/ i \in 1..Len(old.orders)
      <4> DEFINE n == Len(old.orders)
      <4>1. n \in Nat /\ i \in 1..(n + 1)
        BY <1>2, <3>2
      <4> HIDE DEF n
      <4>2. i = n + 1 \/ i \in 1..n
        BY <4>1
      <4> QED BY <4>2 DEF n
    <3> QED BY <3>3, <3>4, <3>5
  <2>2. CASE ~(t = s /\ x = p)
    <3>1. x \in DOMAIN bk.level[t] /\ new.level[t][x] = bk.level[t][x]
      BY <1>6, <2>2
    <3> QED BY <3>1
  <2> QED BY <2>1, <2>2
<1>13. OwnQueuedAreIndexed(new)
  <2> SUFFICES ASSUME NEW t \in Side, NEW x \in DOMAIN new.level[t],
                      NEW i \in DOMAIN new.level[t][x].orders,
                      OwnId(order_id[new.level[t][x].orders[i]])
               PROVE  /\ order_id[new.level[t][x].orders[i]] \in DOMAIN new.order_index
                      /\ new.order_index[order_id[new.level[t][x].orders[i]]]
                            = [side |-> t, price |-> x]
    BY DEF OwnQueuedAreIndexed
  <2>1. CASE /\ x \in DOMAIN bk.level[t]
             /\ i \in DOMAIN bk.level[t][x].orders
             /\ new.level[t][x].orders[i] = bk.level[t][x].orders[i]
    <3> DEFINE k == order_id[bk.level[t][x].orders[i]]
    <3>1. k \in DOMAIN bk.order_index /\ bk.order_index[k] = [side |-> t, price |-> x]
      BY <2>1 DEF BookInv, OwnQueuedAreIndexed
    <3>2. k # id
      BY <1>9, <2>1
    <3> HIDE DEF k, id
    <3>3. k \in DOMAIN new.order_index /\ new.order_index[k] = [side |-> t, price |-> x]
      BY <1>7, <3>1, <3>2
    <3> QED BY <2>1, <3>3 DEF k
  <2>2. CASE t = s /\ x = p /\ new.level[t][x].orders[i] = o
    BY <1>7, <2>2
  <2> QED BY <1>12, <2>1, <2>2
<1>14. OwnIndexedAreQueued(new)
  <2> SUFFICES ASSUME NEW k \in DOMAIN new.order_index
               PROVE  \E y \in Order :
                         /\ order_id[y] = k
                         /\ OwnId(k) => RestsAt(new, y, new.order_index[k].side,
                                                 new.order_index[k].price)
    BY DEF OwnIndexedAreQueued
  <2>1. CASE k = id
    <3>1. new.order_index[k].side = s /\ new.order_index[k].price = p
      BY <1>7, <2>1
    <3>2. RestsAt(new, o, s, p)
      <4>1. p \in DOMAIN new.level[s]
        BY <1>6
      <4>2. new.level[s][p].orders = Append(old.orders, o)
        BY <1>4, <1>6
      <4>3. Len(old.orders) + 1 \in DOMAIN new.level[s][p].orders
        BY <1>2, <1>3, <4>2
      <4> QED BY <1>3, <4>1, <4>2, <4>3 DEF RestsAt
    <3> QED BY <2>1, <3>1, <3>2
  <2>2. CASE k # id
    <3>1. k \in DOMAIN bk.order_index /\ new.order_index[k] = bk.order_index[k]
      BY <1>7, <2>2
    <3> DEFINE t == bk.order_index[k].side
               x == bk.order_index[k].price
    <3>2. PICK y \in Order : order_id[y] = k /\ (OwnId(k) => RestsAt(bk, y, t, x))
      BY <3>1 DEF BookInv, OwnIndexedAreQueued
    <3>3. t \in Side
      BY <1>1, <3>1 DEF IsBook, IsMap, OrderLocation
    <3> HIDE DEF t, x
    <3> SUFFICES ASSUME OwnId(k) PROVE RestsAt(new, y, t, x)
      BY <3>1, <3>2 DEF t, x
    <3>4. PICK i \in DOMAIN bk.level[t][x].orders : bk.level[t][x].orders[i] = y
      BY <3>2 DEF RestsAt
    <3>5. x \in DOMAIN bk.level[t]
      BY <3>2 DEF RestsAt
    <3>6. /\ x \in DOMAIN new.level[t]
          /\ i \in DOMAIN new.level[t][x].orders
          /\ new.level[t][x].orders[i] = y
      <4>1. CASE t = s /\ x = p
        <5>1. new.level[t][x].orders = Append(old.orders, o)
          BY <1>4, <1>6, <4>1
        <5>2. old = bk.level[t][x]
          BY <1>10, <3>5, <4>1
        <5>3. i \in 1..Len(old.orders) /\ old.orders[i] = y
          BY <1>2, <3>4, <5>2
        <5>4. i \in DOMAIN Append(old.orders, o) /\ Append(old.orders, o)[i] = y
          BY <1>2, <1>3, <5>3
        <5>5. x \in DOMAIN new.level[t]
          BY <1>6, <4>1
        <5> QED BY <5>1, <5>4, <5>5
      <4>2. CASE ~(t = s /\ x = p)
        BY <1>6, <3>3, <3>4, <3>5, <4>2
      <4> QED BY <4>1, <4>2
    <3> QED BY <3>6 DEF RestsAt
  <2> QED BY <2>1, <2>2
<1>15. QueuesDistinct(new)
  <2> SUFFICES ASSUME NEW t \in Side, NEW x \in DOMAIN new.level[t],
                      NEW i \in DOMAIN new.level[t][x].orders,
                      NEW j \in DOMAIN new.level[t][x].orders,
                      new.level[t][x].orders[i] = new.level[t][x].orders[j]
               PROVE  i = j
    BY DEF QueuesDistinct
  <2>1. \A y \in DOMAIN bk.level[t] :
           \A a, b \in DOMAIN bk.level[t][y].orders :
              bk.level[t][y].orders[a] = bk.level[t][y].orders[b] => a = b
    BY DEF BookInv, QueuesDistinct
  <2> QED BY <1>9, <1>12, <2>1
<1>16. BidsBelowAsks(new)
  <2>1. \A b \in DOMAIN bk.level["BUY"], a \in DOMAIN bk.level["SELL"] : b < a
    BY DEF BookInv, BidsBelowAsks
  <2> QED BY <1>6, <2>1 DEF BidsBelowAsks, Side
<1>17. \A t \in Side : \A x \in DOMAIN new.level[t] :
          \/ t = s /\ x = p /\ new.level[t][x].orders # <<>>
          \/ x \in DOMAIN bk.level[t] /\ new.level[t][x] = bk.level[t][x]
  BY <1>3, <1>4, <1>6
<1>18. \A y, t, x : RestsAt(new, y, t, x) /\ t \in Side
          => RestsAt(bk, y, t, x) \/ (y = o /\ t = s /\ x = p)
  BY <1>12 DEF RestsAt
<1>19. LevelsApart(new)
  <2>1. LevelsApart(bk)
    BY DEF BookInv
  <2> SUFFICES ASSUME NEW y, NEW t1 \in Side, NEW t2 \in Side, NEW x1, NEW x2,
                      RestsAt(new, y, t1, x1), RestsAt(new, y, t2, x2)
               PROVE  t1 = t2 /\ x1 = x2
    BY DEF LevelsApart
  <2>2. ~RestsAt(bk, o, t1, x1) /\ ~RestsAt(bk, o, t2, x2)
    BY DEF RestsAt
  <2>3. /\ RestsAt(bk, y, t1, x1) \/ (y = o /\ t1 = s /\ x1 = p)
        /\ RestsAt(bk, y, t2, x2) \/ (y = o /\ t2 = s /\ x2 = p)
    BY <1>18
  <2> QED BY <2>1, <2>2, <2>3, Zenon DEF LevelsApart
<1>20. QED
  BY <1>8, <1>13, <1>14, <1>15, <1>16, <1>17, <1>18, <1>19 DEF BookInv, new

(* An order stands in one place only: at one level, at one position. *)
LEMMA OnePlace ==
    ASSUME NEW bk, BookInv(bk),
           NEW s \in Side, NEW p \in DOMAIN bk.level[s],
           NEW i \in DOMAIN bk.level[s][p].orders,
           NEW t \in Side, NEW x \in DOMAIN bk.level[t],
           NEW j \in DOMAIN bk.level[t][x].orders,
           bk.level[t][x].orders[j] = bk.level[s][p].orders[i]
    PROVE  t = s /\ x = p /\ j = i
<1> DEFINE o == bk.level[s][p].orders[i]
<1>1. RestsAt(bk, o, s, p) /\ RestsAt(bk, o, t, x)
  BY DEF RestsAt
<1> HIDE DEF o
<1>2. t = s /\ x = p
  BY <1>1, Zenon DEF BookInv, LevelsApart
<1> QED BY <1>2 DEF BookInv, QueuesDistinct

(* The index, in a deque of length n - 1, of an element that was behind the *)
(* one taken out at i.                                                      *)
LEMMA StepBack ==
    \A i, j, n \in Int :
       i >= 1 /\ j <= n /\ j > i
         => j - 1 \in 1..(n - 1) /\ ~(j - 1 < i) /\ (j - 1) + 1 = j
OBVIOUS

(* Whatever rests in new rested in bk at the same place, and o does not. *)
RestsWithout(bk, new, o) ==
    \A y, t, x : RestsAt(new, y, t, x) /\ t \in Side
                    => RestsAt(bk, y, t, x) /\ y # o

(* new is bk without the i-th order of the deque at (s, p) and without its *)
(* index entry; the level may go only when that order was its last.        *)
Removes(bk, new, s, p, i) ==
    /\ s \in Side
    /\ p \in DOMAIN bk.level[s]
    /\ i \in DOMAIN bk.level[s][p].orders
    /\ new.order_index = Erase(bk.order_index, order_id[bk.level[s][p].orders[i]])
    /\ \A t \in Side : t # s => new.level[t] = bk.level[t]
    /\ DOMAIN new.level[s] \subseteq DOMAIN bk.level[s]
    /\ \A x \in DOMAIN bk.level[s] :
          x # p => x \in DOMAIN new.level[s] /\ new.level[s][x] = bk.level[s][x]
    /\ p \in DOMAIN new.level[s]
          => new.level[s][p].orders = RemoveAt(bk.level[s][p].orders, i)
    /\ p \notin DOMAIN new.level[s] => Len(bk.level[s][p].orders) = 1

(* Taking one order out of its deque and out of the index keeps the book   *)
(* consistent, whether or not the deque it leaves empty goes with it.      *)
LEMMA RemovalInv ==
    ASSUME NEW bk, BookInv(bk), NEW new, IsBook(new),
           NEW s, NEW p, NEW i, Removes(bk, new, s, p, i)
    PROVE  BookInv(new) /\ RestsWithout(bk, new, bk.level[s][p].orders[i])
<1>   /\ s \in Side
      /\ p \in DOMAIN bk.level[s]
      /\ i \in DOMAIN bk.level[s][p].orders
      /\ new.order_index = Erase(bk.order_index, order_id[bk.level[s][p].orders[i]])
      /\ \A t \in Side : t # s => new.level[t] = bk.level[t]
      /\ DOMAIN new.level[s] \subseteq DOMAIN bk.level[s]
      /\ \A x \in DOMAIN bk.level[s] :
            x # p => x \in DOMAIN new.level[s] /\ new.level[s][x] = bk.level[s][x]
      /\ p \in DOMAIN new.level[s]
            => new.level[s][p].orders = RemoveAt(bk.level[s][p].orders, i)
      /\ p \notin DOMAIN new.level[s] => Len(bk.level[s][p].orders) = 1
  BY DEF Removes
<1> DEFINE q  == bk.level[s][p].orders
           o  == q[i]
           id == order_id[o]
<1>1. IsBook(bk)
  BY DEF BookInv
<1>2. /\ q \in Seq(Order) /\ Len(q) \in Nat /\ DOMAIN q = 1..Len(q)
      /\ i \in 1..Len(q)
      /\ o \in Order
  <2>1. q \in Seq(Order) /\ Len(q) \in Nat /\ DOMAIN q = 1..Len(q)
    BY <1>1, QueueProperties
  <2> QED BY <2>1, ElementOfSeq
<1>3. /\ RemoveAt(q, i) \in Seq(Order)
      /\ DOMAIN RemoveAt(q, i) = 1..(Len(q) - 1)
      /\ \A j \in 1..(Len(q) - 1) :
            RemoveAt(q, i)[j] = IF j < i THEN q[j] ELSE q[j + 1]
  <2>1. /\ RemoveAt(q, i) \in Seq(Order)
        /\ Len(RemoveAt(q, i)) = Len(q) - 1
        /\ \A j \in 1..(Len(q) - 1) :
              RemoveAt(q, i)[j] = IF j < i THEN q[j] ELSE q[j + 1]
    <3> HIDE DEF q
    <3> QED BY <1>2, RemoveAtProperties
  <2>2. DOMAIN RemoveAt(q, i) = 1..Len(RemoveAt(q, i))
    BY <2>1, LenProperties
  <2> QED BY <2>1, <2>2
\* the elements of the other levels
<1>4. \A t \in Side : \A x \in DOMAIN bk.level[t] :
         \A j \in DOMAIN bk.level[t][x].orders :
            /\ bk.level[t][x].orders[j] \in Order
            /\ bk.level[t][x].orders[j] = o => t = s /\ x = p /\ j = i
  <2> TAKE t \in Side
  <2> TAKE x \in DOMAIN bk.level[t]
  <2> TAKE j \in DOMAIN bk.level[t][x].orders
  <2>1. bk.level[t][x].orders[j] \in Order
    BY <1>1, QueueProperties, ElementOfSeq
  <2>2. bk.level[t][x].orders[j] = o => t = s /\ x = p /\ j = i
    BY OnePlace
  <2> QED BY <2>1, <2>2
\* a position of the new book is the position of another order in the old one
<1>5. \A t \in Side : \A x \in DOMAIN new.level[t] :
         /\ x \in DOMAIN bk.level[t]
         /\ t = s /\ x = p => new.level[t][x].orders = RemoveAt(q, i)
         /\ ~(t = s /\ x = p) => new.level[t][x] = bk.level[t][x]
  OBVIOUS
<1>6. \A t \in Side : \A x \in DOMAIN new.level[t] :
         \A j \in DOMAIN new.level[t][x].orders :
            LET k == IF t = s /\ x = p /\ ~(j < i) THEN j + 1 ELSE j
            IN  /\ k \in DOMAIN bk.level[t][x].orders
                /\ new.level[t][x].orders[j] = bk.level[t][x].orders[k]
                /\ ~(t = s /\ x = p /\ k = i)
  <2> TAKE t \in Side
  <2> TAKE x \in DOMAIN new.level[t]
  <2> TAKE j \in DOMAIN new.level[t][x].orders
  <2>1. CASE t = s /\ x = p
    <3>1. new.level[t][x].orders = RemoveAt(q, i)
      BY <1>5, <2>1
    <3>2. j \in 1..(Len(q) - 1)
      BY <1>3, <3>1
    <3> HIDE DEF q
    <3>3. CASE j < i
      <4>1. RemoveAt(q, i)[j] = q[j] /\ j \in DOMAIN q /\ j # i
        BY <1>2, <1>3, <3>2, <3>3
      <4> QED BY <2>1, <3>1, <3>3, <4>1 DEF q
    <3>4. CASE ~(j < i)
      <4>1. RemoveAt(q, i)[j] = q[j + 1] /\ j + 1 \in DOMAIN q /\ j + 1 # i
        BY <1>2, <1>3, <3>2, <3>4
      <4> QED BY <2>1, <3>1, <3>4, <4>1 DEF q
    <3> QED BY <3>3, <3>4
  <2>2. CASE ~(t = s /\ x = p)
    BY <1>5, <2>2
  <2> QED BY <2>1, <2>2
<1>7. \A y, t, x : RestsAt(new, y, t, x) /\ t \in Side
         => RestsAt(bk, y, t, x) /\ y # o
  <2> SUFFICES ASSUME NEW y, NEW t \in Side, NEW x, RestsAt(new, y, t, x)
               PROVE  RestsAt(bk, y, t, x) /\ y # o
    OBVIOUS
  <2>1. x \in DOMAIN new.level[t] /\ x \in DOMAIN bk.level[t]
    BY <1>5 DEF RestsAt
  <2>2. PICK j \in DOMAIN new.level[t][x].orders : new.level[t][x].orders[j] = y
    BY DEF RestsAt
  <2>3. PICK k \in DOMAIN bk.level[t][x].orders :
           bk.level[t][x].orders[k] = y /\ ~(t = s /\ x = p /\ k = i)
    <3> DEFINE k == IF t = s /\ x = p /\ ~(j < i) THEN j + 1 ELSE j
    <3>1. /\ k \in DOMAIN bk.level[t][x].orders
          /\ new.level[t][x].orders[j] = bk.level[t][x].orders[k]
          /\ ~(t = s /\ x = p /\ k = i)
      BY <1>6, <2>1
    <3> HIDE DEF k
    <3> QED BY <2>2, <3>1
  <2> QED BY <1>4, <2>1, <2>3 DEF RestsAt
<1>8. /\ DOMAIN new.order_index = DOMAIN bk.order_index \ {id}
      /\ \A k \in DOMAIN bk.order_index :
            k # id => new.order_index[k] = bk.order_index[k]
  BY DEF Erase
<1>9. OwnQueuedAreIndexed(new)
  <2> SUFFICES ASSUME NEW t \in Side, NEW x \in DOMAIN new.level[t],
                      NEW j \in DOMAIN new.level[t][x].orders,
                      OwnId(order_id[new.level[t][x].orders[j]])
               PROVE  /\ order_id[new.level[t][x].orders[j]] \in DOMAIN new.order_index
                      /\ new.order_index[order_id[new.level[t][x].orders[j]]]
                            = [side |-> t, price |-> x]
    BY DEF OwnQueuedAreIndexed
  <2> DEFINE y == new.level[t][x].orders[j]
             k == order_id[y]
  <2>1. RestsAt(bk, y, t, x) /\ y # o
    <3>1. RestsAt(new, y, t, x)
      BY DEF RestsAt
    <3> QED BY <1>7, <3>1
  <2>2. PICK l \in DOMAIN bk.level[t][x].orders : bk.level[t][x].orders[l] = y
    BY <2>1 DEF RestsAt
  <2>3. x \in DOMAIN bk.level[t]
    BY <2>1 DEF RestsAt
  <2>4. OwnId(k)
    OBVIOUS
  <2> HIDE DEF y, o, id
  <2>5. k \in DOMAIN bk.order_index /\ bk.order_index[k] = [side |-> t, price |-> x]
    <3>1. OwnId(order_id[bk.level[t][x].orders[l]])
      BY <2>2, <2>4
    <3> QED BY <2>2, <2>3, <3>1 DEF BookInv, OwnQueuedAreIndexed
  <2>6. k # id
    <3>1. y \in Order
      BY <1>4, <2>2, <2>3
    <3>2. OwnId(k)
      BY <2>4
    <3> QED BY <1>2, <2>1, <3>1, <3>2 DEF OwnId, id
  <2> HIDE DEF k
  <2>7. k \in DOMAIN new.order_index /\ new.order_index[k] = [side |-> t, price |-> x]
    BY <1>8, <2>5, <2>6
  <2> QED BY <2>7 DEF k, y
<1>10. OwnIndexedAreQueued(new)
  <2> SUFFICES ASSUME NEW k \in DOMAIN new.order_index
               PROVE  \E y \in Order :
                         /\ order_id[y] = k
                         /\ OwnId(k) => RestsAt(new, y, new.order_index[k].side,
                                                 new.order_index[k].price)
    BY DEF OwnIndexedAreQueued
  <2>1. k \in DOMAIN bk.order_index /\ k # id /\ new.order_index[k] = bk.order_index[k]
    BY <1>8
  <2> DEFINE t == bk.order_index[k].side
             x == bk.order_index[k].price
  <2>2. PICK y \in Order : order_id[y] = k /\ (OwnId(k) => RestsAt(bk, y, t, x))
    BY <2>1 DEF BookInv, OwnIndexedAreQueued
  <2>3. t \in Side
    BY <1>1, <2>1 DEF IsBook, IsMap, OrderLocation
  <2> HIDE DEF t, x
  <2> SUFFICES ASSUME OwnId(k) PROVE RestsAt(new, y, t, x)
    BY <2>1, <2>2 DEF t, x
  <2>4. PICK j \in DOMAIN bk.level[t][x].orders : bk.level[t][x].orders[j] = y
    BY <2>2 DEF RestsAt
  <2>5. x \in DOMAIN bk.level[t]
    BY <2>2 DEF RestsAt
  <2>6. CASE t = s /\ x = p
    <3>1. j # i /\ j \in 1..Len(q) /\ q[j] = y
      BY <1>2, <2>1, <2>2, <2>4, <2>6
    <3>2. Len(q) # 1
      <4> HIDE DEF q
      <4> QED BY <1>2, <3>1
    <3>3. p \in DOMAIN new.level[s] /\ new.level[s][p].orders = RemoveAt(q, i)
      BY <3>2
    <3> DEFINE l == IF j < i THEN j ELSE j - 1
    <3>4. l \in DOMAIN RemoveAt(q, i) /\ RemoveAt(q, i)[l] = y
      <4> HIDE DEF q
      <4>1. CASE j < i
        <5>1. j \in 1..(Len(q) - 1)
          BY <1>2, <3>1, <4>1
        <5> QED BY <1>3, <3>1, <4>1, <5>1
      <4>2. CASE ~(j < i)
        <5>0. i \in Int /\ j \in Int /\ Len(q) \in Int /\ i >= 1 /\ j <= Len(q) /\ j > i
          BY <1>2, <3>1, <4>2
        <5>1. j - 1 \in 1..(Len(q) - 1) /\ ~(j - 1 < i) /\ (j - 1) + 1 = j
          BY <5>0, StepBack, Zenon
        <5>2. RemoveAt(q, i)[j - 1] = q[(j - 1) + 1]
          BY <1>3, <5>1
        <5> QED BY <1>3, <3>1, <4>2, <5>1, <5>2
      <4> QED BY <4>1, <4>2
    <3> HIDE DEF l
    <3>5. RestsAt(new, y, s, p)
      BY <3>3, <3>4 DEF RestsAt
    <3> QED BY <2>6, <3>5
  <2>7. CASE ~(t = s /\ x = p)
    <3>1. x \in DOMAIN new.level[t] /\ new.level[t][x] = bk.level[t][x]
      BY <2>3, <2>5, <2>7
    <3> QED BY <2>4, <3>1 DEF RestsAt
  <2> QED BY <2>6, <2>7
<1>11. QueuesDistinct(new)
  <2> SUFFICES ASSUME NEW t \in Side, NEW x \in DOMAIN new.level[t],
                      NEW j \in DOMAIN new.level[t][x].orders,
                      NEW l \in DOMAIN new.level[t][x].orders,
                      new.level[t][x].orders[j] = new.level[t][x].orders[l]
               PROVE  j = l
    BY DEF QueuesDistinct
  <2>1. x \in DOMAIN bk.level[t]
    BY <1>5
  <2>2. \A a, b \in DOMAIN bk.level[t][x].orders :
           bk.level[t][x].orders[a] = bk.level[t][x].orders[b] => a = b
    BY <2>1 DEF BookInv, QueuesDistinct
  <2>3. CASE t = s /\ x = p
    <3>1. j \in 1..(Len(q) - 1) /\ l \in 1..(Len(q) - 1)
      BY <1>3, <1>5, <2>3
    <3>2. RemoveAt(q, i)[j] = RemoveAt(q, i)[l]
      BY <1>5, <2>3
    <3>3. \A a, b \in DOMAIN q : q[a] = q[b] => a = b
      BY <2>2, <2>3
    <3> HIDE DEF q
    <3>4. \A a \in 1..(Len(q) - 1) :
             LET k == IF a < i THEN a ELSE a + 1
             IN  k \in DOMAIN q /\ RemoveAt(q, i)[a] = q[k]
      BY <1>2, <1>3
    <3>5. (IF j < i THEN j ELSE j + 1) = (IF l < i THEN l ELSE l + 1)
      BY <3>1, <3>2, <3>3, <3>4
    <3> QED BY <1>2, <3>1, <3>5
  <2>4. CASE ~(t = s /\ x = p)
    BY <1>5, <2>2, <2>4
  <2> QED BY <2>3, <2>4
<1>12. BidsBelowAsks(new)
  <2>1. \A b \in DOMAIN bk.level["BUY"], a \in DOMAIN bk.level["SELL"] : b < a
    BY DEF BookInv, BidsBelowAsks
  <2> QED BY <1>5, <2>1 DEF BidsBelowAsks, Side
<1>13. LevelsApart(new)
  <2>1. LevelsApart(bk)
    BY DEF BookInv
  <2> SUFFICES ASSUME NEW y, NEW t1 \in Side, NEW t2 \in Side, NEW x1, NEW x2,
                      RestsAt(new, y, t1, x1), RestsAt(new, y, t2, x2)
               PROVE  t1 = t2 /\ x1 = x2
    BY DEF LevelsApart
  <2>2. RestsAt(bk, y, t1, x1) /\ RestsAt(bk, y, t2, x2)
    BY <1>7
  <2> QED BY <2>1, <2>2, Zenon DEF LevelsApart
<1>14. QED
  BY <1>7, <1>9, <1>10, <1>11, <1>12, <1>13 DEF BookInv, RestsWithout

(* remove_order, called on the level (s, p), finds the order with that id. *)
FoundAt(bk, id, s, p) ==
    /\ s \in Side
    /\ p \in DOMAIN bk.level[s]
    /\ Matches(bk.level[s][p], id) # {}
    /\ Min(Matches(bk.level[s][p], id)) \in DOMAIN bk.level[s][p].orders
    /\ order_id[bk.level[s][p].orders[Min(Matches(bk.level[s][p], id))]] = id

(* The index entry of the id leads to a level that has an order with it,   *)
(* and that order.  Orders that share an id may leave an entry that does   *)
(* not.                                                                    *)
Finds(bk, id) == FoundAt(bk, id, bk.order_index[id].side, bk.order_index[id].price)

Found(bk, id) ==
    LET lv == bk.level[bk.order_index[id].side][bk.order_index[id].price]
    IN  lv.orders[Min(Matches(lv, id))]

(* A level that has an order with the id: remove_order finds it. *)
LEMMA MatchFound ==
    ASSUME NEW bk, IsBook(bk), NEW s \in Side, NEW p \in DOMAIN bk.level[s],
           NEW id, Matches(bk.level[s][p], id) # {}
    PROVE  FoundAt(bk, id, s, p)
<1> DEFINE lv == bk.level[s][p]
<1>1. DOMAIN lv.orders \subseteq Nat
  <2>1. Len(lv.orders) \in Nat /\ DOMAIN lv.orders = 1..Len(lv.orders)
    BY QueueProperties
  <2> HIDE DEF lv
  <2> QED BY <2>1
<1>2. Matches(lv, id) \subseteq DOMAIN lv.orders
  BY DEF Matches
<1>3. Min(Matches(lv, id)) \in Matches(lv, id)
  BY <1>1, <1>2, MinIsLeast
<1> QED BY <1>3 DEF FoundAt, Matches

(* The entry of an id that one order has leads to that order. *)
LEMMA IndexedOrderFound ==
    ASSUME NEW bk, BookInv(bk), NEW id \in DOMAIN bk.order_index, OwnId(id)
    PROVE  Finds(bk, id)
<1> DEFINE s  == bk.order_index[id].side
           p  == bk.order_index[id].price
           lv == bk.level[s][p]
<1>1. IsBook(bk)
  BY DEF BookInv
<1>2. s \in Side
  BY <1>1 DEF IsBook, IsMap, OrderLocation
<1>3. PICK o \in Order : order_id[o] = id /\ RestsAt(bk, o, s, p)
  BY DEF BookInv, OwnIndexedAreQueued
<1>4. p \in DOMAIN bk.level[s] /\ \E i \in DOMAIN lv.orders : lv.orders[i] = o
  BY <1>3 DEF RestsAt
<1>5. Matches(lv, id) # {}
  BY <1>3, <1>4 DEF Matches
<1> HIDE DEF s, p
<1>6. FoundAt(bk, id, s, p)
  BY <1>1, <1>2, <1>4, <1>5, MatchFound
<1> QED BY <1>6 DEF Finds, s, p

(* OrderBook::cancel_order takes the order it finds out of its deque, and  *)
(* leaves no level empty.                                                  *)
LEMMA CancelRemoves ==
    ASSUME NEW bk, BookInv(bk), NEW ords,
           NEW id \in DOMAIN bk.order_index, Finds(bk, id),
           \A t \in Side : \A x \in DOMAIN bk.level[t] :
              \A j \in DOMAIN bk.level[t][x].orders :
                 Remaining(ords[bk.level[t][x].orders[j]]) \in Int
    PROVE  LET new == CancelInBook(bk, ords, id)
           IN  /\ IsBook(new)
               /\ order_id[Found(bk, id)] = id
               /\ \E s, p, i : /\ Removes(bk, new, s, p, i)
                              /\ bk.level[s][p].orders[i] = Found(bk, id)
               /\ \A t \in Side : \A x \in DOMAIN new.level[t] :
                     \/ new.level[t][x].orders # <<>>
                     \/ x \in DOMAIN bk.level[t] /\ new.level[t][x] = bk.level[t][x]
<1> DEFINE s   == bk.order_index[id].side
           p   == bk.order_index[id].price
           q   == bk.level[s][p].orders
           i   == Min(Matches(bk.level[s][p], id))
           lv  == RemoveOrder(bk.level[s][p], ords, id)
           new == CancelInBook(bk, ords, id)
<1>1. IsBook(bk)
  BY DEF BookInv
<1>2. /\ s \in Side
      /\ p \in DOMAIN bk.level[s]
      /\ Matches(bk.level[s][p], id) # {}
      /\ i \in DOMAIN q
      /\ order_id[q[i]] = id
  <2>1. FoundAt(bk, id, s, p)
    BY DEF Finds
  <2> QED BY <2>1 DEF FoundAt
<1>3. new.order_index = Erase(bk.order_index, id)
  BY DEF CancelInBook
<1>4. new.level = [bk.level EXCEPT ![s] =
                     IF lv.orders = <<>> THEN Erase(bk.level[s], p)
                     ELSE Put(bk.level[s], p, lv)]
  BY <1>2 DEF CancelInBook
<1>5. new = [level |-> new.level, order_index |-> new.order_index]
  BY DEF CancelInBook
<1>6. lv = [total_qty |-> bk.level[s][p].total_qty - Remaining(ords[q[i]]),
            orders    |-> RemoveAt(q, i)]
  BY <1>2 DEF RemoveOrder
<1>6a. q[i] = Found(bk, id)
  BY DEF Found
<1> HIDE DEF s, p, i, lv, new
<1>7. /\ q \in Seq(Order) /\ Len(q) \in Nat /\ DOMAIN q = 1..Len(q)
      /\ p \in Price
      /\ bk.level[s][p].total_qty \in Int
  BY <1>1, <1>2, QueueProperties
<1>8. RemoveAt(q, i) \in Seq(Order) /\ Len(RemoveAt(q, i)) = Len(q) - 1
  <2>1. i \in 1..Len(q)
    BY <1>2, <1>7
  <2> HIDE DEF q
  <2> QED BY <1>7, <2>1, RemoveAtProperties
<1>9. lv \in PriceLevel /\ lv.orders = RemoveAt(q, i)
  <2>1. Remaining(ords[q[i]]) \in Int
    BY <1>2
  <2> QED BY <1>6, <1>7, <1>8, <2>1 DEF PriceLevel
<1>10. /\ new.level = [t \in Side |-> new.level[t]]
       /\ \A t \in Side : IsMap(new.level[t], Price, PriceLevel)
       /\ \A t \in Side : t # s => new.level[t] = bk.level[t]
       /\ DOMAIN new.level[s] \subseteq DOMAIN bk.level[s]
       /\ \A x \in DOMAIN bk.level[s] :
             x # p => x \in DOMAIN new.level[s] /\ new.level[s][x] = bk.level[s][x]
       /\ p \in DOMAIN new.level[s] =>
             new.level[s][p].orders = RemoveAt(q, i) /\ RemoveAt(q, i) # <<>>
       /\ p \notin DOMAIN new.level[s] => RemoveAt(q, i) = <<>>
  <2>1. CASE lv.orders = <<>>
    <3>1. new.level = [bk.level EXCEPT ![s] = Erase(bk.level[s], p)]
      BY <1>4, <2>1
    <3>2. /\ new.level = [t \in Side |-> new.level[t]]
          /\ \A t \in Side : IsMap(new.level[t], Price, PriceLevel)
          /\ DOMAIN new.level[s] = DOMAIN bk.level[s] \ {p}
          /\ \A x \in DOMAIN bk.level[s] : x # p => new.level[s][x] = bk.level[s][x]
          /\ \A t \in Side : t # s => new.level[t] = bk.level[t]
      BY <1>1, <1>2, <1>7, <3>1, EraseLevelProperties
    <3> QED BY <1>9, <2>1, <3>2
  <2>2. CASE lv.orders # <<>>
    <3>1. new.level = [bk.level EXCEPT ![s] = Put(bk.level[s], p, lv)]
      BY <1>4, <2>2
    <3>2. /\ new.level = [t \in Side |-> new.level[t]]
          /\ \A t \in Side : IsMap(new.level[t], Price, PriceLevel)
          /\ DOMAIN new.level[s] = DOMAIN bk.level[s] \union {p}
          /\ new.level[s][p] = lv
          /\ \A x \in DOMAIN bk.level[s] : x # p => new.level[s][x] = bk.level[s][x]
          /\ \A t \in Side : t # s => new.level[t] = bk.level[t]
      BY <1>1, <1>2, <1>7, <1>9, <3>1, PutLevelProperties, SMTT(40)
    <3> QED BY <1>2, <1>9, <2>2, <3>2
  <2> QED BY <2>1, <2>2
<1>11. IsBook(new)
  <2>1. IsMap(new.order_index, OrderId, OrderLocation)
    BY <1>1, <1>3 DEF IsBook, IsMap, Erase
  <2> QED BY <1>5, <1>10, <2>1 DEF IsBook
<1>12. p \notin DOMAIN new.level[s] => Len(q) = 1
  <2>1. RemoveAt(q, i) = <<>> => Len(RemoveAt(q, i)) = 0
    OBVIOUS
  <2> HIDE DEF q
  <2> QED BY <1>7, <1>8, <1>10, <2>1
<1>13. Removes(bk, new, s, p, i)
  BY <1>2, <1>3, <1>10, <1>12 DEF Removes
<1>14. \A t \in Side : \A x \in DOMAIN new.level[t] :
          \/ new.level[t][x].orders # <<>>
          \/ x \in DOMAIN bk.level[t] /\ new.level[t][x] = bk.level[t][x]
  BY <1>10
<1>15. \E ss, pp, ii : /\ Removes(bk, new, ss, pp, ii)
                      /\ bk.level[ss][pp].orders[ii] = Found(bk, id)
  BY <1>6a, <1>13
<1>16. order_id[Found(bk, id)] = id
  BY <1>2, <1>6a
<1>17. QED
  BY <1>11, <1>14, <1>15, <1>16 DEF new

(* A book with the same deques and the same index is as consistent; so is  *)
(* one whose index has lost an entry that no order had for its own.        *)
LEMMA SameQueuesInv ==
    ASSUME NEW bk, BookInv(bk), NEW new, IsBook(new),
           \/ new.order_index = bk.order_index
           \/ \E id : ~OwnId(id) /\ new.order_index = Erase(bk.order_index, id),
           \A t \in Side :
              /\ DOMAIN new.level[t] \subseteq DOMAIN bk.level[t]
              /\ \A x \in DOMAIN new.level[t] :
                    new.level[t][x].orders = bk.level[t][x].orders
              /\ \A x \in DOMAIN bk.level[t] \ DOMAIN new.level[t] :
                    bk.level[t][x].orders = <<>>
    PROVE  /\ BookInv(new)
           /\ \A y, t, x : t \in Side /\ RestsAt(new, y, t, x) => RestsAt(bk, y, t, x)
<1>1. \A y, t, x : t \in Side => (RestsAt(bk, y, t, x) <=> RestsAt(new, y, t, x))
  <2> SUFFICES ASSUME NEW y, NEW t \in Side, NEW x
               PROVE  RestsAt(bk, y, t, x) <=> RestsAt(new, y, t, x)
    OBVIOUS
  <2>1. CASE x \in DOMAIN bk.level[t] \ DOMAIN new.level[t]
    <3>1. bk.level[t][x].orders = <<>>
      BY <2>1
    <3> QED BY <2>1, <3>1 DEF RestsAt
  <2> QED BY <2>1 DEF RestsAt
<1>1a. /\ \A k \in DOMAIN new.order_index :
             k \in DOMAIN bk.order_index /\ new.order_index[k] = bk.order_index[k]
       /\ \A k \in DOMAIN bk.order_index : OwnId(k) => k \in DOMAIN new.order_index
  BY DEF Erase
<1>2. OwnQueuedAreIndexed(new)
  <2> SUFFICES ASSUME NEW t \in Side, NEW x \in DOMAIN new.level[t],
                      NEW i \in DOMAIN new.level[t][x].orders,
                      OwnId(order_id[new.level[t][x].orders[i]])
               PROVE  /\ order_id[new.level[t][x].orders[i]] \in DOMAIN new.order_index
                      /\ new.order_index[order_id[new.level[t][x].orders[i]]]
                            = [side |-> t, price |-> x]
    BY DEF OwnQueuedAreIndexed
  <2>1. x \in DOMAIN bk.level[t] /\ new.level[t][x].orders = bk.level[t][x].orders
    OBVIOUS
  <2>2. /\ order_id[bk.level[t][x].orders[i]] \in DOMAIN bk.order_index
        /\ bk.order_index[order_id[bk.level[t][x].orders[i]]]
              = [side |-> t, price |-> x]
    <3>1. OwnId(order_id[bk.level[t][x].orders[i]])
      BY <2>1, Zenon
    <3> QED BY <2>1, <3>1 DEF BookInv, OwnQueuedAreIndexed
  <2>3. order_id[bk.level[t][x].orders[i]] = order_id[new.level[t][x].orders[i]]
    BY <2>1, Zenon
  <2> QED BY <1>1a, <2>2, <2>3
<1>3. OwnIndexedAreQueued(new)
  <2>1. \A id \in DOMAIN bk.order_index : bk.order_index[id].side \in Side
    BY DEF BookInv, IsBook, IsMap, OrderLocation
  <2> QED BY <1>1, <1>1a, <2>1 DEF BookInv, OwnIndexedAreQueued
<1>4. QueuesDistinct(new)
  BY DEF BookInv, QueuesDistinct
<1>5. BidsBelowAsks(new)
  <2>1. \A b \in DOMAIN bk.level["BUY"], a \in DOMAIN bk.level["SELL"] : b < a
    BY DEF BookInv, BidsBelowAsks
  <2>2. /\ DOMAIN new.level["BUY"] \subseteq DOMAIN bk.level["BUY"]
        /\ DOMAIN new.level["SELL"] \subseteq DOMAIN bk.level["SELL"]
    BY DEF Side
  <2> QED BY <2>1, <2>2 DEF BidsBelowAsks
<1>6. LevelsApart(new)
  <2>1. LevelsApart(bk)
    BY DEF BookInv
  <2> SUFFICES ASSUME NEW y, NEW t1 \in Side, NEW t2 \in Side, NEW x1, NEW x2,
                      RestsAt(new, y, t1, x1), RestsAt(new, y, t2, x2)
               PROVE  t1 = t2 /\ x1 = x2
    BY DEF LevelsApart
  <2>2. RestsAt(bk, y, t1, x1) /\ RestsAt(bk, y, t2, x2)
    BY <1>1
  <2> QED BY <2>1, <2>2, Zenon DEF LevelsApart
<1>7. QED
  BY <1>1, <1>2, <1>3, <1>4, <1>5, <1>6 DEF BookInv

(* When it finds none, only the index entry goes (and a level, if it was   *)
(* empty).                                                                 *)
LEMMA CancelMisses ==
    ASSUME NEW bk, BookInv(bk), NEW ords, NEW id \in DOMAIN bk.order_index,
           ~Finds(bk, id)
    PROVE  LET new == CancelInBook(bk, ords, id)
           IN  /\ IsBook(new)
               /\ new.order_index = Erase(bk.order_index, id)
               /\ \A t \in Side :
                     /\ DOMAIN new.level[t] \subseteq DOMAIN bk.level[t]
                     /\ \A x \in DOMAIN new.level[t] : new.level[t][x] = bk.level[t][x]
                     /\ \A x \in DOMAIN bk.level[t] \ DOMAIN new.level[t] :
                           bk.level[t][x].orders = <<>>
<1> DEFINE s   == bk.order_index[id].side
           p   == bk.order_index[id].price
           lv  == RemoveOrder(bk.level[s][p], ords, id)
           new == CancelInBook(bk, ords, id)
           L   == bk.level
<1>1. IsBook(bk) /\ s \in Side /\ p \in Price
  BY DEF BookInv, IsBook, IsMap, OrderLocation
<1>2. /\ new = [level |-> new.level, order_index |-> new.order_index]
      /\ new.order_index = Erase(bk.order_index, id)
      /\ new.level = [L EXCEPT ![s] = IF p \notin DOMAIN L[s] THEN L[s]
                                      ELSE IF lv.orders = <<>> THEN Erase(L[s], p)
                                      ELSE Put(L[s], p, lv)]
  BY DEF CancelInBook
<1>3. p \in DOMAIN L[s] => lv = L[s][p] /\ L[s][p] \in PriceLevel
  <2> SUFFICES ASSUME p \in DOMAIN L[s] PROVE lv = L[s][p] /\ L[s][p] \in PriceLevel
    OBVIOUS
  <2>1. ~FoundAt(bk, id, s, p)
    BY DEF Finds
  <2> HIDE DEF s, p
  <2>2. Matches(bk.level[s][p], id) = {}
    BY <1>1, <2>1, MatchFound
  <2> QED BY <1>1, <2>2, QueueProperties DEF RemoveOrder
<1>4. /\ L = [t \in Side |-> L[t]]
      /\ \A t \in Side : IsMap(L[t], Price, PriceLevel)
  BY <1>1 DEF IsBook
<1> HIDE DEF s, p, lv, new, L
<1>5. CASE p \notin DOMAIN L[s]
  <2>1. new.level = L
    BY <1>2, <1>4, <1>5
  <2> QED BY <1>1, <1>2, <1>4, <2>1 DEF IsBook, IsMap, Erase, L, new
<1>6. CASE p \in DOMAIN L[s] /\ lv.orders = <<>>
  <2>1. new.level = [L EXCEPT ![s] = Erase(L[s], p)]
    BY <1>2, <1>6
  <2>2. /\ new.level = [t \in Side |-> new.level[t]]
        /\ \A t \in Side : IsMap(new.level[t], Price, PriceLevel)
        /\ DOMAIN new.level[s] = DOMAIN L[s] \ {p}
        /\ \A x \in DOMAIN L[s] : x # p => new.level[s][x] = L[s][x]
        /\ \A t \in Side : t # s => new.level[t] = L[t]
    BY <1>1, <2>1, EraseLevelProperties DEF L
  <2>3. \A t \in Side :
           /\ DOMAIN new.level[t] \subseteq DOMAIN L[t]
           /\ \A x \in DOMAIN new.level[t] : new.level[t][x] = L[t][x]
           /\ \A x \in DOMAIN L[t] \ DOMAIN new.level[t] : L[t][x].orders = <<>>
    BY <1>3, <1>6, <2>2
  <2>4. IsMap(new.order_index, OrderId, OrderLocation)
    BY <1>1, <1>2 DEF IsBook, IsMap, Erase
  <2> QED BY <1>2, <2>2, <2>3, <2>4 DEF IsBook, L, new
<1>7. CASE p \in DOMAIN L[s] /\ lv.orders # <<>>
  <2>1. new.level = [L EXCEPT ![s] = Put(L[s], p, lv)]
    BY <1>2, <1>7
  <2>2. /\ new.level = [t \in Side |-> new.level[t]]
        /\ \A t \in Side : IsMap(new.level[t], Price, PriceLevel)
        /\ DOMAIN new.level[s] = DOMAIN L[s] \union {p}
        /\ new.level[s][p] = lv
        /\ \A x \in DOMAIN L[s] : x # p => new.level[s][x] = L[s][x]
        /\ \A t \in Side : t # s => new.level[t] = L[t]
    <3>1. lv \in PriceLevel
      BY <1>3, <1>7
    <3> QED BY <1>1, <2>1, <3>1, PutLevelProperties DEF L
  <2>3. \A t \in Side :
           /\ DOMAIN new.level[t] \subseteq DOMAIN L[t]
           /\ \A x \in DOMAIN new.level[t] : new.level[t][x] = L[t][x]
           /\ \A x \in DOMAIN L[t] \ DOMAIN new.level[t] : L[t][x].orders = <<>>
    BY <1>3, <1>7, <2>2
  <2>4. IsMap(new.order_index, OrderId, OrderLocation)
    BY <1>1, <1>2 DEF IsBook, IsMap, Erase
  <2> QED BY <1>2, <2>2, <2>3, <2>4 DEF IsBook, L, new
<1> QED BY <1>5, <1>6, <1>7

(* OrderBook::cancel_order keeps the book consistent, whatever it finds;   *)
(* the order it finds is gone, and with it every order that has the id, if *)
(* only one does.                                                          *)
LEMMA CancelInBookInv ==
    ASSUME NEW bk, BookInv(bk), NEW ords,
           NEW id \in DOMAIN bk.order_index,
           \A t \in Side : \A x \in DOMAIN bk.level[t] :
              \A j \in DOMAIN bk.level[t][x].orders :
                 Remaining(ords[bk.level[t][x].orders[j]]) \in Int
    PROVE  LET new == CancelInBook(bk, ords, id)
           IN  /\ BookInv(new)
               /\ \A y, t, x : RestsAt(new, y, t, x) /\ t \in Side
                     => /\ RestsAt(bk, y, t, x)
                        /\ Finds(bk, id) => y # Found(bk, id)
                        /\ OwnId(id) => order_id[y] # id
               /\ \A t \in Side : \A x \in DOMAIN new.level[t] :
                     \/ new.level[t][x].orders # <<>>
                     \/ x \in DOMAIN bk.level[t] /\ new.level[t][x] = bk.level[t][x]
<1> DEFINE new == CancelInBook(bk, ords, id)
<1>1. CASE Finds(bk, id)
  <2> DEFINE o == Found(bk, id)
  <2>1. /\ IsBook(new)
        /\ order_id[o] = id
        /\ \E s, p, i : Removes(bk, new, s, p, i) /\ bk.level[s][p].orders[i] = o
        /\ \A t \in Side : \A x \in DOMAIN new.level[t] :
              \/ new.level[t][x].orders # <<>>
              \/ x \in DOMAIN bk.level[t] /\ new.level[t][x] = bk.level[t][x]
    BY <1>1, CancelRemoves
  <2> HIDE DEF new, o
  <2>2. PICK s, p, i : Removes(bk, new, s, p, i) /\ bk.level[s][p].orders[i] = o
    BY <2>1
  <2>3. BookInv(new) /\ RestsWithout(bk, new, o)
    BY <2>1, <2>2, RemovalInv
  <2>4. IsBook(bk) /\ s \in Side /\ p \in DOMAIN bk.level[s]
        /\ i \in DOMAIN bk.level[s][p].orders
    BY <2>2 DEF BookInv, Removes
  <2>5. o \in Order
    BY <2>2, <2>4, QueueProperties, ElementOfSeq
  <2>6. \A y, t, x : RestsAt(new, y, t, x) /\ t \in Side
           => RestsAt(bk, y, t, x) /\ y # o /\ (OwnId(id) => order_id[y] # id)
    <3> SUFFICES ASSUME NEW y, NEW t \in Side, NEW x, RestsAt(new, y, t, x)
                 PROVE  RestsAt(bk, y, t, x) /\ y # o /\ (OwnId(id) => order_id[y] # id)
      OBVIOUS
    <3>1. RestsAt(bk, y, t, x) /\ y # o
      BY <2>3 DEF RestsWithout
    <3>2. y \in Order
      BY <2>4, <3>1, QueueProperties, ElementOfSeq DEF RestsAt
    <3> QED BY <2>1, <2>5, <3>1, <3>2 DEF OwnId
  <2> QED BY <2>1, <2>3, <2>6 DEF new, o
<1>2. CASE ~Finds(bk, id)
  <2>1. ~OwnId(id)
    BY <1>2, IndexedOrderFound
  <2>2. /\ IsBook(new)
        /\ new.order_index = Erase(bk.order_index, id)
        /\ \A t \in Side :
              /\ DOMAIN new.level[t] \subseteq DOMAIN bk.level[t]
              /\ \A x \in DOMAIN new.level[t] : new.level[t][x] = bk.level[t][x]
              /\ \A x \in DOMAIN bk.level[t] \ DOMAIN new.level[t] :
                    bk.level[t][x].orders = <<>>
    BY <1>2, CancelMisses
  <2> HIDE DEF new
  <2>3. \E k : ~OwnId(k) /\ new.order_index = Erase(bk.order_index, k)
    BY <2>1, <2>2
  <2>4. /\ BookInv(new)
        /\ \A y, t, x : t \in Side /\ RestsAt(new, y, t, x) => RestsAt(bk, y, t, x)
    <3>1. \A t \in Side :
             /\ DOMAIN new.level[t] \subseteq DOMAIN bk.level[t]
             /\ \A x \in DOMAIN new.level[t] :
                   new.level[t][x].orders = bk.level[t][x].orders
             /\ \A x \in DOMAIN bk.level[t] \ DOMAIN new.level[t] :
                   bk.level[t][x].orders = <<>>
      BY <2>2
    <3> QED BY <2>2, <2>3, <3>1, SameQueuesInv
  <2>5. \A t \in Side : \A x \in DOMAIN new.level[t] :
           x \in DOMAIN bk.level[t] /\ new.level[t][x] = bk.level[t][x]
    BY <2>2
  <2> QED BY <1>2, <2>1, <2>4, <2>5 DEF new
<1> QED BY <1>1, <1>2

(* Erasing an empty level keeps the book consistent. *)
LEMMA EraseLevelInv ==
    ASSUME NEW bk, BookInv(bk), NEW s \in Side, NEW p \in DOMAIN bk.level[s],
           bk.level[s][p].orders = <<>>
    PROVE  LET new == EraseLevelOf(bk, s, p)
           IN  /\ BookInv(new)
               /\ \A y, t, x : t \in Side /\ RestsAt(new, y, t, x)
                     => RestsAt(bk, y, t, x)
               /\ \A t \in Side : \A x \in DOMAIN new.level[t] :
                     /\ ~(t = s /\ x = p)
                     /\ x \in DOMAIN bk.level[t] /\ new.level[t][x] = bk.level[t][x]
<1> DEFINE new == EraseLevelOf(bk, s, p)
<1>1. IsBook(bk)
  BY DEF BookInv
<1>2. /\ new = [level |-> new.level, order_index |-> new.order_index]
      /\ new.level = [bk.level EXCEPT ![s] = Erase(bk.level[s], p)]
      /\ new.order_index = bk.order_index
  BY DEF EraseLevelOf
<1> HIDE DEF new
<1>3. /\ new.level = [t \in Side |-> new.level[t]]
      /\ \A t \in Side : IsMap(new.level[t], Price, PriceLevel)
      /\ DOMAIN new.level[s] = DOMAIN bk.level[s] \ {p}
      /\ \A x \in DOMAIN bk.level[s] : x # p => new.level[s][x] = bk.level[s][x]
      /\ \A t \in Side : t # s => new.level[t] = bk.level[t]
  <2>1. p \in Price
    BY <1>1, QueueProperties
  <2> QED BY <1>1, <1>2, <2>1, EraseLevelProperties
<1>4. IsBook(new)
  BY <1>1, <1>2, <1>3 DEF IsBook
<1>5. \A t \in Side :
         /\ DOMAIN new.level[t] \subseteq DOMAIN bk.level[t]
         /\ \A x \in DOMAIN new.level[t] :
               new.level[t][x].orders = bk.level[t][x].orders
         /\ \A x \in DOMAIN bk.level[t] \ DOMAIN new.level[t] :
               bk.level[t][x].orders = <<>>
  BY <1>3
<1>6. /\ BookInv(new)
      /\ \A y, t, x : t \in Side /\ RestsAt(new, y, t, x) => RestsAt(bk, y, t, x)
  BY <1>2, <1>4, <1>5, SameQueuesInv
<1>7. \A t \in Side : \A x \in DOMAIN new.level[t] :
         /\ ~(t = s /\ x = p)
         /\ x \in DOMAIN bk.level[t] /\ new.level[t][x] = bk.level[t][x]
  BY <1>3
<1>8. QED
  BY <1>6, <1>7 DEF new

(* pop_front is the removal of the first position. *)
LEMMA TailIsRemoveAt ==
    ASSUME NEW S, NEW q \in Seq(S), q # <<>>
    PROVE  Tail(q) = RemoveAt(q, 1) /\ 1 \in DOMAIN q /\ Head(q) = q[1]
<1>1. Tail(q) = SubSeq(q, 2, Len(q))
  BY TailIsSubSeq
<1>2. Len(q) \in Nat \ {0} /\ DOMAIN q = 1..Len(q)
  BY EmptySeq, LenProperties
<1>3. SubSeq(q, 1, 1 - 1) = <<>>
  BY SubSeqEmpty
<1>4. SubSeq(q, 2, Len(q)) \in Seq(S)
  BY <1>1, HeadTailProperties
<1>5. <<>> \o SubSeq(q, 2, Len(q)) = SubSeq(q, 2, Len(q))
  BY <1>4, ConcatEmptySeq
<1>6. RemoveAt(q, 1) = SubSeq(q, 2, Len(q))
  BY <1>3, <1>5 DEF RemoveAt
<1>7. QED
  BY <1>1, <1>2, <1>6

(* The book's part of execute_fill: a complete fill takes the front order  *)
(* out of its deque, any other leaves all deques as they are.              *)
LEMMA FillFrontEffect ==
    ASSUME NEW bk, BookInv(bk),
           NEW s \in Side, NEW p \in DOMAIN bk.level[s],
           bk.level[s][p].orders # <<>>, NEW qty \in Int, NEW complete \in BOOLEAN,
           NEW new, new = FillFront(bk, s, p, qty, complete)
    PROVE  /\ IsBook(new)
           /\ \A t \in Side :
                 /\ DOMAIN new.level[t] = DOMAIN bk.level[t]
                 /\ \A x \in DOMAIN new.level[t] :
                       ~(t = s /\ x = p) => new.level[t][x] = bk.level[t][x]
           /\ Head(bk.level[s][p].orders) = bk.level[s][p].orders[1]
           /\ complete => Removes(bk, new, s, p, 1)
           /\ ~complete =>
                 /\ new.order_index = bk.order_index
                 /\ new.level[s][p].orders = bk.level[s][p].orders
<1> DEFINE q   == bk.level[s][p].orders
           lv  == [total_qty |-> bk.level[s][p].total_qty - qty,
                   orders    |-> IF complete THEN Tail(q) ELSE q]
<1>1. IsBook(bk)
  BY DEF BookInv
<1>2. q \in Seq(Order) /\ Len(q) \in Nat /\ DOMAIN q = 1..Len(q)
      /\ p \in Price /\ bk.level[s][p].total_qty \in Int
  BY <1>1, QueueProperties
<1>3. /\ Tail(q) \in Seq(Order) /\ Tail(q) = RemoveAt(q, 1)
      /\ 1 \in DOMAIN q /\ Head(q) = q[1]
  <2> HIDE DEF q
  <2>1. q # <<>>
    BY DEF q
  <2> QED BY <1>2, <2>1, HeadTailProperties, TailIsRemoveAt
<1>4. lv \in PriceLevel /\ lv.orders = IF complete THEN Tail(q) ELSE q
  BY <1>2, <1>3 DEF PriceLevel
<1>5. /\ new = [level |-> new.level, order_index |-> new.order_index]
      /\ new.level = [bk.level EXCEPT ![s] = Put(bk.level[s], p, lv)]
      /\ new.order_index = IF complete THEN Erase(bk.order_index, order_id[q[1]])
                           ELSE bk.order_index
  BY <1>3 DEF FillFront
<1> HIDE DEF lv
<1>6. /\ new.level = [t \in Side |-> new.level[t]]
      /\ \A t \in Side : IsMap(new.level[t], Price, PriceLevel)
      /\ DOMAIN new.level[s] = DOMAIN bk.level[s]
      /\ new.level[s][p] = lv
      /\ \A x \in DOMAIN bk.level[s] : x # p => new.level[s][x] = bk.level[s][x]
      /\ \A t \in Side : t # s => new.level[t] = bk.level[t]
  <2>1. /\ new.level = [t \in Side |-> new.level[t]]
        /\ \A t \in Side : IsMap(new.level[t], Price, PriceLevel)
        /\ DOMAIN new.level[s] = DOMAIN bk.level[s] \union {p}
        /\ new.level[s][p] = lv
        /\ \A x \in DOMAIN bk.level[s] : x # p => new.level[s][x] = bk.level[s][x]
        /\ \A t \in Side : t # s => new.level[t] = bk.level[t]
    BY <1>1, <1>2, <1>4, <1>5, PutLevelProperties
  <2> QED BY <2>1
<1>7. IsBook(new)
  <2>1. IsMap(bk.order_index, OrderId, OrderLocation)
    BY <1>1 DEF IsBook
  <2>2. IsMap(Erase(bk.order_index, order_id[q[1]]), OrderId, OrderLocation)
    BY <2>1 DEF IsMap, Erase
  <2>3. IsMap(new.order_index, OrderId, OrderLocation)
    BY <1>5, <2>1, <2>2
  <2> QED BY <1>5, <1>6, <2>3 DEF IsBook
<1>8. \A t \in Side :
         /\ DOMAIN new.level[t] = DOMAIN bk.level[t]
         /\ \A x \in DOMAIN new.level[t] :
               ~(t = s /\ x = p) => new.level[t][x] = bk.level[t][x]
  BY <1>6
<1>9. ASSUME complete PROVE Removes(bk, new, s, p, 1)
  <2>1. new.order_index = Erase(bk.order_index, order_id[bk.level[s][p].orders[1]])
    BY <1>5, <1>9
  <2>2. new.level[s][p].orders = RemoveAt(bk.level[s][p].orders, 1)
    BY <1>3, <1>4, <1>6, <1>9
  <2> QED BY <1>3, <1>6, <2>1, <2>2 DEF Removes
<1>10. ~complete => /\ new.order_index = bk.order_index
                    /\ new.level[s][p].orders = bk.level[s][p].orders
  BY <1>4, <1>5, <1>6
<1>11. QED
  BY <1>3, <1>7, <1>8, <1>9, <1>10

(* The book's part of execute_fill keeps the book consistent: the levels   *)
(* stay, only the deque at (s, p) may lose its front.                      *)
LEMMA FillFrontInv ==
    ASSUME NEW bk, BookInv(bk),
           NEW s \in Side, NEW p \in DOMAIN bk.level[s],
           bk.level[s][p].orders # <<>>, NEW qty \in Int, NEW complete \in BOOLEAN,
           NEW new, new = FillFront(bk, s, p, qty, complete)
    PROVE  /\ BookInv(new)
           /\ \A y, t, x : RestsAt(new, y, t, x) /\ t \in Side
                 => /\ RestsAt(bk, y, t, x)
                    /\ complete => y # Head(bk.level[s][p].orders)
           /\ \A t \in Side :
                 /\ DOMAIN new.level[t] = DOMAIN bk.level[t]
                 /\ \A x \in DOMAIN new.level[t] :
                       ~(t = s /\ x = p) => new.level[t][x] = bk.level[t][x]
<1>1. /\ IsBook(new)
      /\ \A t \in Side :
            /\ DOMAIN new.level[t] = DOMAIN bk.level[t]
            /\ \A x \in DOMAIN new.level[t] :
                  ~(t = s /\ x = p) => new.level[t][x] = bk.level[t][x]
      /\ Head(bk.level[s][p].orders) = bk.level[s][p].orders[1]
      /\ complete => Removes(bk, new, s, p, 1)
      /\ ~complete => /\ new.order_index = bk.order_index
                      /\ new.level[s][p].orders = bk.level[s][p].orders
  BY FillFrontEffect
<1>2. CASE complete
  <2>1. BookInv(new) /\ RestsWithout(bk, new, bk.level[s][p].orders[1])
    BY <1>1, <1>2, RemovalInv
  <2> QED BY <1>1, <2>1 DEF RestsWithout
<1>3. CASE ~complete
  <2>1. \A t \in Side :
           /\ DOMAIN new.level[t] \subseteq DOMAIN bk.level[t]
           /\ \A x \in DOMAIN new.level[t] :
                 new.level[t][x].orders = bk.level[t][x].orders
           /\ \A x \in DOMAIN bk.level[t] \ DOMAIN new.level[t] :
                 bk.level[t][x].orders = <<>>
    BY <1>1, <1>3
  <2>2. /\ BookInv(new)
        /\ \A y, t, x : t \in Side /\ RestsAt(new, y, t, x) => RestsAt(bk, y, t, x)
    BY <1>1, <1>3, <2>1, SameQueuesInv
  <2> QED BY <1>1, <1>3, <2>2
<1> QED BY <1>2, <1>3

(* QueuedAreLive, said of orders instead of positions. *)
LEMMA LiveIffRests ==
    ASSUME NEW bk, NEW ords, NEW sym
    PROVE  QueuedAreLive(bk, ords, sym) <=>
              \A t \in Side : \A y, x :
                 RestsAt(bk, y, t, x) => y \in DOMAIN ords /\ MayRestAt(ords[y], sym, t, x)
BY DEF QueuedAreLive, RestsAt

----------------------------------------------------------------------------
(* The total of a level. *)

(* The orders of a deque are finitely many. *)
LEMMA QueueFinite ==
    ASSUME NEW S, NEW q \in Seq(S)
    PROVE  /\ IsFiniteSet(ToSet(q))
           /\ ToSet(q) \subseteq S
           /\ \A x : x \in ToSet(q) <=> \E i \in 1..Len(q) : q[i] = x
<1>1. Len(q) \in Nat /\ q \in [1..Len(q) -> S] /\ DOMAIN q = 1..Len(q)
  BY LenProperties
<1>2. \A x : x \in ToSet(q) <=> \E i \in 1..Len(q) : q[i] = x
  BY <1>1 DEF ToSet
<1>3. IsFiniteSet(1..Len(q))
  BY <1>1, FS_Interval
<1>4. q \in Surjection(1..Len(q), ToSet(q))
  BY <1>1, <1>2 DEF Surjection
<1>5. IsFiniteSet(ToSet(q))
  BY <1>3, <1>4, FS_Surjection
<1>6. ToSet(q) \subseteq S
  BY <1>1, <1>2
<1> QED BY <1>2, <1>5, <1>6

(* push_back adds an order to the set, *)
LEMMA AppendSet ==
    ASSUME NEW S, NEW q \in Seq(S), NEW x \in S
    PROVE  ToSet(Append(q, x)) = ToSet(q) \union {x}
<1>1. /\ Append(q, x) \in Seq(S) /\ Len(Append(q, x)) = Len(q) + 1
      /\ \A i \in 1..Len(q) : Append(q, x)[i] = q[i]
      /\ Append(q, x)[Len(q) + 1] = x /\ Len(q) \in Nat
  OBVIOUS
<1> DEFINE a == Append(q, x)
<1> HIDE DEF a
<1>2. /\ a \in Seq(S) /\ Len(a) = Len(q) + 1 /\ Len(q) \in Nat
      /\ \A i \in 1..Len(q) : a[i] = q[i]
      /\ a[Len(q) + 1] = x
  BY <1>1 DEF a
<1>3. \A y : y \in ToSet(a) <=> \E i \in 1..Len(a) : a[i] = y
  BY <1>2, QueueFinite
<1>4. \A y : y \in ToSet(q) <=> \E i \in 1..Len(q) : q[i] = y
  BY QueueFinite
<1>5. ASSUME NEW y, y \in ToSet(a) PROVE y \in ToSet(q) \/ y = x
  <2>1. PICK i \in 1..Len(a) : a[i] = y
    BY <1>3, <1>5
  <2>2. i \in 1..Len(q) \/ i = Len(q) + 1
    BY <1>2, <2>1
  <2> QED BY <1>2, <1>4, <2>1, <2>2
<1>6. ASSUME NEW y, y \in ToSet(q) \/ y = x PROVE y \in ToSet(a)
  <2>1. CASE y = x
    <3>1. Len(q) + 1 \in 1..Len(a)
      BY <1>2
    <3> QED BY <1>2, <1>3, <2>1, <3>1
  <2>2. CASE y \in ToSet(q)
    <3>1. PICK i \in 1..Len(q) : q[i] = y
      BY <1>4, <2>2
    <3>2. i \in 1..Len(a) /\ a[i] = y
      BY <1>2, <3>1
    <3> QED BY <1>3, <3>2
  <2> QED BY <1>6, <2>1, <2>2
<1>7. ToSet(a) = ToSet(q) \union {x}
  BY <1>5, <1>6
<1> QED BY <1>7 DEF a

(* and erase takes one out when the deque holds it once. *)
LEMMA RemoveAtSet ==
    ASSUME NEW S, NEW q \in Seq(S), NEW i \in 1..Len(q),
           \A j, k \in 1..Len(q) : q[j] = q[k] => j = k
    PROVE  ToSet(RemoveAt(q, i)) = ToSet(q) \ {q[i]}
<1> DEFINE a == RemoveAt(q, i)
<1> HIDE DEF a
<1>1. /\ a \in Seq(S) /\ Len(a) = Len(q) - 1 /\ Len(q) \in Nat
      /\ \A j \in 1..(Len(q) - 1) : a[j] = IF j < i THEN q[j] ELSE q[j + 1]
  BY RemoveAtProperties DEF a
<1>2. \A y : y \in ToSet(a) <=> \E j \in 1..Len(a) : a[j] = y
  BY <1>1, QueueFinite
<1>3. \A y : y \in ToSet(q) <=> \E j \in 1..Len(q) : q[j] = y
  BY QueueFinite
<1>4. ASSUME NEW y, y \in ToSet(a) PROVE y \in ToSet(q) /\ y # q[i]
  <2>1. PICK j \in 1..(Len(q) - 1) : a[j] = y
    BY <1>1, <1>2, <1>4
  <2>2. CASE j < i
    <3>1. j \in 1..Len(q) /\ j # i /\ q[j] = y
      BY <1>1, <2>1, <2>2
    <3> QED BY <1>3, <3>1
  <2>3. CASE ~(j < i)
    <3>1. j + 1 \in 1..Len(q) /\ j + 1 # i /\ q[j + 1] = y
      BY <1>1, <2>1, <2>3
    <3> QED BY <1>3, <3>1
  <2> QED BY <2>2, <2>3
<1>5. ASSUME NEW y, y \in ToSet(q), y # q[i] PROVE y \in ToSet(a)
  <2>1. PICK j \in 1..Len(q) : q[j] = y
    BY <1>3, <1>5
  <2>2. j # i
    BY <1>5, <2>1
  <2>3. CASE j < i
    <3>1. j \in 1..(Len(q) - 1) /\ a[j] = y
      BY <1>1, <2>1, <2>3
    <3> QED BY <1>1, <1>2, <3>1
  <2>4. CASE j > i
    <3>1. j - 1 \in 1..(Len(q) - 1) /\ ~(j - 1 < i) /\ (j - 1) + 1 = j
      BY <1>1, <2>4
    <3>2. a[j - 1] = y
      BY <1>1, <2>1, <3>1
    <3> QED BY <1>1, <1>2, <3>1, <3>2
  <2> QED BY <1>1, <2>2, <2>3, <2>4
<1>6. ToSet(a) = ToSet(q) \ {q[i]}
  BY <1>4, <1>5
<1> QED BY <1>6 DEF a

(* The orders of a deque are objects with a quantity left. *)
Backed(q, ords) ==
    /\ q \in Seq(Order)
    /\ \A x \in ToSet(q) : x \in DOMAIN ords /\ Remaining(ords[x]) \in Int

LEMMA BackedSum ==
    ASSUME NEW q, NEW ords, Backed(q, ords)
    PROVE  /\ IsFiniteSet(ToSet(q))
           /\ \A x \in ToSet(q) : /\ OpenQty(ords)[x] = Remaining(ords[x])
                                  /\ OpenQty(ords)[x] \in Int
<1>1. IsFiniteSet(ToSet(q))
  BY QueueFinite DEF Backed
<1> QED BY <1>1 DEF Backed, OpenQty

(* A level still adds up when its orders have as much left as before, *)
LEMMA AddsUpSame ==
    ASSUME NEW lv, NEW ords, NEW new, AddsUp(lv, ords),
           Backed(lv.orders, ords), Backed(lv.orders, new),
           \A x \in ToSet(lv.orders) : Remaining(new[x]) = Remaining(ords[x])
    PROVE  AddsUp(lv, new)
<1> DEFINE S == ToSet(lv.orders)
           f == OpenQty(ords)
           g == OpenQty(new)
<1>1. IsFiniteSet(S) /\ \A x \in S : f[x] \in Int /\ g[x] = f[x]
  BY BackedSum
<1> HIDE DEF S, f, g
<1>2. SumFunctionOnSet(g, S) = SumFunctionOnSet(f, S)
  BY <1>1, SumSame
<1> QED BY <1>2 DEF AddsUp, S, f, g

(* when add_order puts one in, *)
LEMMA AddsUpAppend ==
    ASSUME NEW lv \in PriceLevel, NEW ords, NEW o \in Order, AddsUp(lv, ords),
           Backed(lv.orders, ords), o \in DOMAIN ords, Remaining(ords[o]) \in Int,
           o \notin ToSet(lv.orders)
    PROVE  AddsUp(AddOrder(lv, ords, o), ords)
<1> DEFINE S == ToSet(lv.orders)
           f == OpenQty(ords)
<1>1. IsFiniteSet(S) /\ (\A x \in S : f[x] \in Int) /\ o \notin S
  BY BackedSum
<1>2. f[o] = Remaining(ords[o]) /\ f[o] \in Int
  BY DEF OpenQty
<1>3. ToSet(Append(lv.orders, o)) = S \union {o}
  BY AppendSet DEF Backed
<1>4. lv.total_qty = SumFunctionOnSet(f, S)
  BY DEF AddsUp
<1> HIDE DEF S, f
<1>5. SumFunctionOnSet(f, S \union {o}) = SumFunctionOnSet(f, S) + f[o]
  BY <1>1, <1>2, SumAdd
<1>6. SumFunctionOnSet(f, ToSet(Append(lv.orders, o))) = lv.total_qty + Remaining(ords[o])
  BY <1>2, <1>3, <1>4, <1>5
<1> QED BY <1>6 DEF AddsUp, AddOrder, f

(* and when remove_order takes the i-th out. *)
LEMMA AddsUpRemove ==
    ASSUME NEW lv \in PriceLevel, NEW ords, AddsUp(lv, ords),
           Backed(lv.orders, ords), NEW i \in 1..Len(lv.orders),
           \A j, k \in 1..Len(lv.orders) : lv.orders[j] = lv.orders[k] => j = k
    PROVE  AddsUp([total_qty |-> lv.total_qty - Remaining(ords[lv.orders[i]]),
                   orders    |-> RemoveAt(lv.orders, i)], ords)
<1> DEFINE S == ToSet(lv.orders)
           f == OpenQty(ords)
           o == lv.orders[i]
<1>1. IsFiniteSet(S) /\ (\A x \in S : f[x] \in Int) /\ o \in S /\ f[o] = Remaining(ords[o])
  <2>1. o \in S
    BY QueueFinite DEF Backed
  <2> QED BY <2>1, BackedSum
<1>2. ToSet(RemoveAt(lv.orders, i)) = S \ {o}
  BY RemoveAtSet DEF Backed
<1>3. lv.total_qty = SumFunctionOnSet(f, S)
  BY DEF AddsUp
<1> HIDE DEF S, f, o
<1>4. SumFunctionOnSet(f, S) = f[o] + SumFunctionOnSet(f, S \ {o})
  BY <1>1, SumRemove
<1>5. SumFunctionOnSet(f, S \ {o}) \in Int /\ f[o] \in Int
  <2>1. IsFiniteSet(S \ {o}) /\ \A x \in S \ {o} : f[x] \in Int
    BY <1>1, FS_Subset
  <2> QED BY <1>1, <2>1, SumType
<1>6. SumFunctionOnSet(f, ToSet(RemoveAt(lv.orders, i))) = lv.total_qty - Remaining(ords[o])
  BY <1>1, <1>2, <1>3, <1>4, <1>5
<1> QED BY <1>6 DEF AddsUp, f, o

(* The front order trades qty shares, and goes when that was all it had. *)
LEMMA AddsUpFill ==
    ASSUME NEW lv \in PriceLevel, NEW ords, NEW new, AddsUp(lv, ords),
           Backed(lv.orders, ords), Backed(lv.orders, new), lv.orders # <<>>,
           \A j, k \in 1..Len(lv.orders) : lv.orders[j] = lv.orders[k] => j = k,
           NEW qty \in Int, NEW complete \in BOOLEAN,
           Remaining(new[Head(lv.orders)]) = Remaining(ords[Head(lv.orders)]) - qty,
           complete <=> Remaining(new[Head(lv.orders)]) = 0,
           \A x \in ToSet(lv.orders) :
              x # Head(lv.orders) => Remaining(new[x]) = Remaining(ords[x])
    PROVE  AddsUp([total_qty |-> lv.total_qty - qty,
                   orders    |-> IF complete THEN Tail(lv.orders) ELSE lv.orders], new)
<1> DEFINE S == ToSet(lv.orders)
           f == OpenQty(ords)
           g == OpenQty(new)
           o == Head(lv.orders)
<1>1. Tail(lv.orders) = RemoveAt(lv.orders, 1) /\ 1 \in 1..Len(lv.orders) /\ o = lv.orders[1]
  <2>1. lv.orders \in Seq(Order)
    BY DEF Backed
  <2>2. 1 \in 1..Len(lv.orders) /\ o = lv.orders[1]
    BY <2>1, HeadTailProperties, LenProperties, EmptySeq
  <2> QED BY <2>1, <2>2, TailIsRemoveAt
<1>2. o \in S
  BY <1>1, QueueFinite DEF Backed
<1>3. /\ IsFiniteSet(S)
      /\ \A x \in S : f[x] \in Int /\ g[x] \in Int
      /\ \A x \in S : f[x] = Remaining(ords[x]) /\ g[x] = Remaining(new[x])
  BY BackedSum
<1>4. /\ \A x \in S : x # o => g[x] = f[x]
      /\ g[o] = f[o] - qty /\ (complete <=> g[o] = 0)
  BY <1>2, <1>3
<1>5. ToSet(Tail(lv.orders)) = S \ {o}
  BY <1>1, RemoveAtSet DEF Backed
<1>6. lv.total_qty = SumFunctionOnSet(f, S)
  BY DEF AddsUp
<1> HIDE DEF S, f, g, o
<1>7. SumFunctionOnSet(g, S) = SumFunctionOnSet(f, S) + (g[o] - f[o])
  <2>1. \A x \in S : f[x] \in Int /\ g[x] \in Int
    BY <1>3
  <2>2. \A x \in S : x # o => g[x] = f[x]
    BY <1>4
  <2>3. IsFiniteSet(S)
    BY <1>3
  <2> QED BY <1>2, <2>1, <2>2, <2>3, SumChange
<1>8. SumFunctionOnSet(f, S) \in Int /\ f[o] \in Int /\ g[o] \in Int
  BY <1>2, <1>3, SumType
<1>9. SumFunctionOnSet(g, S) = lv.total_qty - qty
  <2> DEFINE before == SumFunctionOnSet(f, S)
             after  == SumFunctionOnSet(g, S)
  <2>1. /\ after = before + (g[o] - f[o]) /\ lv.total_qty = before
        /\ before \in Int /\ f[o] \in Int /\ g[o] = f[o] - qty
    BY <1>4, <1>6, <1>7, <1>8
  <2> HIDE DEF before, after
  <2>2. after = before - qty
    BY <2>1
  <2>3. after = lv.total_qty - qty
    BY <2>1, <2>2, Zenon
  <2> QED BY <2>3 DEF after
<1>10. CASE ~complete
  BY <1>9, <1>10 DEF AddsUp, S, g
<1>11. CASE complete
  <2>1. SumFunctionOnSet(g, S) = g[o] + SumFunctionOnSet(g, S \ {o})
    <3>1. IsFiniteSet(S) /\ o \in S /\ \A x \in S : g[x] \in Int
      BY <1>2, <1>3
    <3> QED BY <3>1, SumRemove, SMTT(40)
  <2>2. SumFunctionOnSet(g, S \ {o}) \in Int
    <3>1. IsFiniteSet(S \ {o}) /\ \A x \in S \ {o} : g[x] \in Int
      BY <1>3, FS_Subset
    <3> QED BY <3>1, SumType
  <2>3. SumFunctionOnSet(g, S \ {o}) = lv.total_qty - qty
    BY <1>4, <1>9, <1>11, <2>1, <2>2
  <2> QED BY <1>5, <1>11, <2>3 DEF AddsUp, g
<1> QED BY <1>10, <1>11

----------------------------------------------------------------------------
(* Every level of a book adds up, and every deque is backed by objects. *)
BookAddsUp(bk, ords) ==
    \A s \in Side : \A p \in DOMAIN bk.level[s] : AddsUp(bk.level[s][p], ords)

BookBacked(bk, ords) ==
    \A s \in Side : \A p \in DOMAIN bk.level[s] : Backed(bk.level[s][p].orders, ords)

LEMMA EmptyBookAddsUp ==
    ASSUME NEW ords
    PROVE  BookAddsUp(EmptyBook, ords)
  BY DEF BookAddsUp, EmptyBook, EmptyMap

(* The deque of a level holds exactly what rests there. *)
LEMMA RestsAtSet ==
    ASSUME NEW bk, IsBook(bk), NEW s \in Side, NEW p \in DOMAIN bk.level[s], NEW o
    PROVE  o \in ToSet(bk.level[s][p].orders) <=> RestsAt(bk, o, s, p)
<1> DEFINE q == bk.level[s][p].orders
<1>1. q \in Seq(Order) /\ DOMAIN q = 1..Len(q)
  BY QueueProperties
<1>2. o \in ToSet(q) <=> \E i \in DOMAIN q : q[i] = o
  <2> HIDE DEF q
  <2> QED BY <1>1, QueueFinite
<1> QED BY <1>2 DEF RestsAt

(* A book that has only levels of an old one still adds up. *)
LEMMA FewerLevelsAddUp ==
    ASSUME NEW bk, NEW new, NEW ords, BookAddsUp(bk, ords),
           \A s \in Side : \A p \in DOMAIN new.level[s] :
              p \in DOMAIN bk.level[s] /\ new.level[s][p] = bk.level[s][p]
    PROVE  BookAddsUp(new, ords)
  BY DEF BookAddsUp

(* A change of the objects that leaves what rests in the book alone. *)
LEMMA SameOpenQtyAddsUp ==
    ASSUME NEW bk, IsBook(bk), NEW ords, NEW new, BookAddsUp(bk, ords),
           BookBacked(bk, ords), BookBacked(bk, new),
           \A s \in Side : \A p \in DOMAIN bk.level[s] : \A o :
              RestsAt(bk, o, s, p) => Remaining(new[o]) = Remaining(ords[o])
    PROVE  BookAddsUp(bk, new)
<1> SUFFICES ASSUME NEW s \in Side, NEW p \in DOMAIN bk.level[s]
             PROVE  AddsUp(bk.level[s][p], new)
  BY DEF BookAddsUp
<1> DEFINE lv == bk.level[s][p]
<1>1. \A x \in ToSet(lv.orders) : Remaining(new[x]) = Remaining(ords[x])
  BY RestsAtSet
<1>2. AddsUp(lv, ords) /\ Backed(lv.orders, ords) /\ Backed(lv.orders, new)
  BY DEF BookAddsUp, BookBacked
<1> HIDE DEF lv
<1>3. AddsUp(lv, new)
  BY <1>1, <1>2, AddsUpSame
<1> QED BY <1>3 DEF lv

(* add_limit_order, *)
LEMMA AddLimitOrderAddsUp ==
    ASSUME NEW bk, IsBook(bk), NEW ords, BookAddsUp(bk, ords), BookBacked(bk, ords),
           NEW o \in Order, NEW s \in Side, NEW p \in Price,
           ords[o].side = s, ords[o].price = p,
           o \in DOMAIN ords, Remaining(ords[o]) \in Int, ~RestsAt(bk, o, s, p)
    PROVE  BookAddsUp(AddLimitOrder(bk, ords, o), ords)
<1> DEFINE old == IF p \in DOMAIN bk.level[s] THEN bk.level[s][p] ELSE EmptyLevel
           lv  == AddOrder(old, ords, o)
           L   == AddLimitOrder(bk, ords, o).level
<1>1. /\ old \in PriceLevel /\ AddsUp(old, ords) /\ Backed(old.orders, ords)
      /\ o \notin ToSet(old.orders)
  <2>1. CASE p \in DOMAIN bk.level[s]
    <3>1. old = bk.level[s][p]
      BY <2>1
    <3>2. o \notin ToSet(bk.level[s][p].orders)
      BY <2>1, RestsAtSet
    <3>3. bk.level[s][p] \in PriceLevel
      BY <2>1, QueueProperties
    <3> HIDE DEF old
    <3> QED BY <2>1, <3>1, <3>2, <3>3 DEF BookAddsUp, BookBacked
  <2>2. CASE p \notin DOMAIN bk.level[s]
    <3>1. old = [total_qty |-> 0, orders |-> <<>>]
      BY <2>2 DEF EmptyLevel
    <3>2. old \in PriceLevel /\ old.orders = <<>> /\ old.total_qty = 0
      <4>1. <<>> \in Seq(Order) /\ 0 \in Int
        OBVIOUS
      <4>2. old.orders = <<>> /\ old.total_qty = 0
        BY <3>1
      <4>3. [total_qty |-> 0, orders |-> <<>>] \in PriceLevel
        BY <4>1, Zenon DEF PriceLevel
      <4> HIDE DEF old
      <4> QED BY <3>1, <4>2, <4>3
    <3>3. ToSet(old.orders) = {}
      BY <3>2 DEF ToSet
    <3> HIDE DEF old
    <3>4. AddsUp(old, ords)
      BY <3>2, <3>3, SumEmpty DEF AddsUp
    <3>5. Backed(old.orders, ords)
      BY <3>2, <3>3 DEF Backed
    <3> QED BY <3>2, <3>3, <3>4, <3>5
  <2> QED BY <2>1, <2>2
<1>2. L = [bk.level EXCEPT ![s] = Put(bk.level[s], p, lv)]
  BY DEF AddLimitOrder
<1> HIDE DEF old, L
<1>3. lv \in PriceLevel
  BY <1>1 DEF AddOrder, PriceLevel
<1>4. AddsUp(lv, ords)
  BY <1>1, AddsUpAppend
<1> HIDE DEF lv
<1>5. /\ DOMAIN L[s] = DOMAIN bk.level[s] \union {p}
      /\ L[s][p] = lv
      /\ \A x \in DOMAIN bk.level[s] : x # p => L[s][x] = bk.level[s][x]
      /\ \A t \in Side : t # s => L[t] = bk.level[t]
  BY <1>2, <1>3, PutLevelProperties
<1>6. \A t \in Side : \A x \in DOMAIN L[t] : AddsUp(L[t][x], ords)
  BY <1>4, <1>5 DEF BookAddsUp
<1> QED BY <1>6 DEF BookAddsUp, L

(* cancel_order *)
LEMMA FoundAddsUp ==
    ASSUME NEW bk, BookInv(bk), NEW ords, NEW id \in DOMAIN bk.order_index,
           Finds(bk, id),
           BookAddsUp(bk, ords), BookBacked(bk, ords)
    PROVE  BookAddsUp(CancelInBook(bk, ords, id), ords)
<1> DEFINE s   == bk.order_index[id].side
           p   == bk.order_index[id].price
           old == bk.level[s][p]
           i   == Min(Matches(old, id))
           lv  == RemoveOrder(old, ords, id)
           new == CancelInBook(bk, ords, id)
<1>1. IsBook(bk) /\ QueuesDistinct(bk)
  BY DEF BookInv
<1>2. /\ s \in Side /\ p \in DOMAIN bk.level[s]
      /\ Matches(old, id) # {} /\ i \in DOMAIN old.orders
  BY DEF Finds, FoundAt
<1>3. new.level = [bk.level EXCEPT ![s] = IF lv.orders = <<>> THEN Erase(bk.level[s], p)
                                          ELSE Put(bk.level[s], p, lv)]
  <2>1. p \in DOMAIN bk.level[s]
    BY <1>2
  <2> QED BY <2>1 DEF CancelInBook
<1>4. lv = [total_qty |-> old.total_qty - Remaining(ords[old.orders[i]]),
            orders    |-> RemoveAt(old.orders, i)]
  BY <1>2 DEF RemoveOrder
<1> HIDE DEF new, s, p, lv, i
<1>5. /\ old \in PriceLevel /\ old.orders \in Seq(Order) /\ p \in Price
      /\ old.total_qty \in Int /\ DOMAIN old.orders = 1..Len(old.orders)
  BY <1>1, <1>2, QueueProperties
<1>6. AddsUp(old, ords) /\ Backed(old.orders, ords)
  BY <1>2 DEF BookAddsUp, BookBacked
<1>7. \A j, k \in 1..Len(old.orders) : old.orders[j] = old.orders[k] => j = k
  BY <1>1, <1>2, <1>5 DEF QueuesDistinct
<1> HIDE DEF old
<1>8. i \in 1..Len(old.orders)
  BY <1>2, <1>5
<1>9. AddsUp(lv, ords)
  BY <1>4, <1>5, <1>6, <1>7, <1>8, AddsUpRemove
<1>10. lv \in PriceLevel
  <2>1. RemoveAt(old.orders, i) \in Seq(Order)
    BY <1>5, <1>8, RemoveAtProperties
  <2>2. Remaining(ords[old.orders[i]]) \in Int
    <3>1. old.orders[i] \in ToSet(old.orders)
      BY <1>5, <1>8, QueueFinite
    <3> QED BY <1>6, <3>1 DEF Backed
  <2> QED BY <1>4, <1>5, <2>1, <2>2 DEF PriceLevel
<1>11. \A t \in Side : \A x \in DOMAIN new.level[t] :
          \/ new.level[t][x] = lv
          \/ x \in DOMAIN bk.level[t] /\ new.level[t][x] = bk.level[t][x]
  <2>1. CASE lv.orders = <<>>
    <3>1. new.level = [bk.level EXCEPT ![s] = Erase(bk.level[s], p)]
      BY <1>3, <2>1
    <3>2. /\ DOMAIN new.level[s] = DOMAIN bk.level[s] \ {p}
          /\ \A x \in DOMAIN bk.level[s] : x # p => new.level[s][x] = bk.level[s][x]
          /\ \A t \in Side : t # s => new.level[t] = bk.level[t]
      BY <1>1, <1>2, <1>5, <3>1, EraseLevelProperties
    <3> QED BY <3>2
  <2>2. CASE lv.orders # <<>>
    <3>1. new.level = [bk.level EXCEPT ![s] = Put(bk.level[s], p, lv)]
      BY <1>3, <2>2
    <3>2. /\ DOMAIN new.level[s] = DOMAIN bk.level[s] \union {p}
          /\ new.level[s][p] = lv
          /\ \A x \in DOMAIN bk.level[s] : x # p => new.level[s][x] = bk.level[s][x]
          /\ \A t \in Side : t # s => new.level[t] = bk.level[t]
      BY <1>1, <1>2, <1>5, <1>10, <3>1, PutLevelProperties
    <3> QED BY <3>2
  <2> QED BY <2>1, <2>2
<1>12. BookAddsUp(new, ords)
  BY <1>9, <1>11 DEF BookAddsUp
<1> QED BY <1>12 DEF new

LEMMA CancelInBookAddsUp ==
    ASSUME NEW bk, BookInv(bk), NEW ords, NEW id \in DOMAIN bk.order_index,
           BookAddsUp(bk, ords), BookBacked(bk, ords)
    PROVE  BookAddsUp(CancelInBook(bk, ords, id), ords)
<1>1. CASE Finds(bk, id)
  BY <1>1, FoundAddsUp
<1>2. CASE ~Finds(bk, id)
  <2> DEFINE new == CancelInBook(bk, ords, id)
  <2>1. \A s \in Side : \A p \in DOMAIN new.level[s] :
           p \in DOMAIN bk.level[s] /\ new.level[s][p] = bk.level[s][p]
    <3>1. \A t \in Side :
             /\ DOMAIN new.level[t] \subseteq DOMAIN bk.level[t]
             /\ \A x \in DOMAIN new.level[t] : new.level[t][x] = bk.level[t][x]
      BY <1>2, CancelMisses
    <3> HIDE DEF new
    <3> QED BY <3>1
  <2> HIDE DEF new
  <2>2. BookAddsUp(new, ords)
    BY <2>1, FewerLevelsAddUp
  <2> QED BY <2>2 DEF new
<1> QED BY <1>1, <1>2

(* and a fill of qty from the front order of (s, p), whose object changes   *)
(* with the level: the order is taken off when nothing of it is left, the   *)
(* objects of the other resting orders stay.                                *)
FrontFilled(bk, s, p, qty, complete, ords, news) ==
    LET m == Head(bk.level[s][p].orders)
    IN  /\ BookInv(bk) /\ BookAddsUp(bk, ords)
        /\ BookBacked(bk, ords) /\ BookBacked(bk, news)
        /\ bk.level[s][p].orders # <<>>
        /\ Remaining(news[m]) = Remaining(ords[m]) - qty
        /\ complete <=> Remaining(news[m]) = 0
        /\ \A t \in Side : \A x \in DOMAIN bk.level[t] : \A o :
              RestsAt(bk, o, t, x) /\ o # m => Remaining(news[o]) = Remaining(ords[o])
        /\ \A t \in Side : \A x \in DOMAIN bk.level[t] :
              RestsAt(bk, m, t, x) => t = s /\ x = p

LEMMA FillFrontAddsUp ==
    ASSUME NEW bk, NEW s \in Side, NEW p \in DOMAIN bk.level[s],
           NEW qty \in Int, NEW complete \in BOOLEAN, NEW ords, NEW news,
           FrontFilled(bk, s, p, qty, complete, ords, news)
    PROVE  BookAddsUp(FillFront(bk, s, p, qty, complete), news)
<1> DEFINE old == bk.level[s][p]
           lv  == [total_qty |-> old.total_qty - qty,
                   orders    |-> IF complete THEN Tail(old.orders) ELSE old.orders]
           L   == FillFront(bk, s, p, qty, complete).level
           m   == Head(old.orders)
<1>0. /\ Remaining(news[m]) = Remaining(ords[m]) - qty
      /\ complete <=> Remaining(news[m]) = 0
      /\ \A t \in Side : \A x \in DOMAIN bk.level[t] : \A o :
            RestsAt(bk, o, t, x) /\ o # m => Remaining(news[o]) = Remaining(ords[o])
      /\ \A t \in Side : \A x \in DOMAIN bk.level[t] :
            RestsAt(bk, m, t, x) => t = s /\ x = p
  BY DEF FrontFilled
<1>1. /\ IsBook(bk) /\ QueuesDistinct(bk) /\ old.orders # <<>>
      /\ BookAddsUp(bk, ords) /\ BookBacked(bk, ords) /\ BookBacked(bk, news)
  BY DEF BookInv, FrontFilled
<1>2. /\ old \in PriceLevel /\ old.orders \in Seq(Order) /\ p \in Price
      /\ old.total_qty \in Int /\ DOMAIN old.orders = 1..Len(old.orders)
  BY <1>1, QueueProperties
<1>3. L = [bk.level EXCEPT ![s] = Put(bk.level[s], p, lv)]
  BY DEF FillFront
<1>4. \A j, k \in 1..Len(old.orders) : old.orders[j] = old.orders[k] => j = k
  BY <1>1, <1>2 DEF QueuesDistinct
<1>5. AddsUp(old, ords) /\ Backed(old.orders, ords) /\ Backed(old.orders, news)
  BY <1>1 DEF BookAddsUp, BookBacked
<1>6. \A x \in ToSet(old.orders) : x # m => Remaining(news[x]) = Remaining(ords[x])
  BY <1>0, <1>1, RestsAtSet
<1>7. old.orders # <<>> /\ m = Head(old.orders)
  BY <1>1
<1> HIDE DEF old, L, m
<1>8. AddsUp(lv, news)
  <2>1. Remaining(news[Head(old.orders)]) = Remaining(ords[Head(old.orders)]) - qty
    BY <1>0, <1>7
  <2>2. complete <=> Remaining(news[Head(old.orders)]) = 0
    BY <1>0, <1>7
  <2>3. \A x \in ToSet(old.orders) :
           x # Head(old.orders) => Remaining(news[x]) = Remaining(ords[x])
    BY <1>6, <1>7
  <2> QED BY <1>2, <1>4, <1>5, <1>7, <2>1, <2>2, <2>3, AddsUpFill
<1>9. lv \in PriceLevel
  BY <1>2, <1>7, HeadTailProperties DEF PriceLevel
<1> HIDE DEF lv
<1>10. /\ DOMAIN L[s] = DOMAIN bk.level[s] \union {p}
       /\ L[s][p] = lv
       /\ \A x \in DOMAIN bk.level[s] : x # p => L[s][x] = bk.level[s][x]
       /\ \A t \in Side : t # s => L[t] = bk.level[t]
  BY <1>1, <1>2, <1>3, <1>9, PutLevelProperties
<1>11. ASSUME NEW t \in Side, NEW x \in DOMAIN bk.level[t], ~(t = s /\ x = p)
       PROVE  AddsUp(bk.level[t][x], news)
  <2> DEFINE l == bk.level[t][x]
  <2>1. AddsUp(l, ords) /\ Backed(l.orders, ords) /\ Backed(l.orders, news)
    BY <1>1 DEF BookAddsUp, BookBacked
  <2>2. \A y \in ToSet(l.orders) : Remaining(news[y]) = Remaining(ords[y])
    <3> TAKE y \in ToSet(l.orders)
    <3>1. RestsAt(bk, y, t, x)
      BY <1>1, RestsAtSet
    <3>2. y # m
      BY <1>0, <1>11, <3>1
    <3> QED BY <1>0, <3>1, <3>2
  <2> HIDE DEF l
  <2>3. AddsUp(l, news)
    BY <2>1, <2>2, AddsUpSame
  <2> QED BY <2>3 DEF l
<1>12. \A t \in Side : \A x \in DOMAIN L[t] : AddsUp(L[t][x], news)
  BY <1>8, <1>10, <1>11
<1> QED BY <1>12 DEF BookAddsUp, L

----------------------------------------------------------------------------
(* Places: where an order rests and who stands before whom, for the        *)
(* priority of the orders.                                                 *)

Occurs(q, m) == \E i \in DOMAIN q : q[i] = m

InOrder(q, m, n) == \E i, j \in DOMAIN q : i < j /\ q[i] = m /\ q[j] = n

(* m stands before n in the deque of level (s, p). *)
Before(bk, s, p, m, n) ==
    p \in DOMAIN bk.level[s] /\ InOrder(bk.level[s][p].orders, m, n)

(* Nothing has moved. *)
SamePlaces(bk, new) ==
    \A t \in Side : \A x, m :
        /\ RestsAt(new, m, t, x) <=> RestsAt(bk, m, t, x)
        /\ \A n : Before(new, t, x, m, n) <=> Before(bk, t, x, m, n)

(* o is gone, the others stand as they did. *)
LeavesPlace(bk, new, o) ==
    \A t \in Side : \A x, m :
        /\ RestsAt(new, m, t, x) <=> RestsAt(bk, m, t, x) /\ m # o
        /\ \A n : Before(new, t, x, m, n)
                     <=> Before(bk, t, x, m, n) /\ m # o /\ n # o

(* o stands at (s, p) behind all that stood there, the others as they did. *)
JoinsPlace(bk, new, o, s, p) ==
    \A t \in Side : \A x, m :
        /\ RestsAt(new, m, t, x)
              <=> RestsAt(bk, m, t, x) \/ (m = o /\ t = s /\ x = p)
        /\ \A n : Before(new, t, x, m, n)
                     <=> \/ Before(bk, t, x, m, n)
                         \/ n = o /\ t = s /\ x = p /\ RestsAt(bk, m, s, p)

(* push_back puts an element behind all others. *)
LEMMA AppendOrder ==
    ASSUME NEW S, NEW q \in Seq(S), NEW o \in S
    PROVE  /\ \A m : Occurs(Append(q, o), m) <=> Occurs(q, m) \/ m = o
           /\ \A m, n : InOrder(Append(q, o), m, n)
                           <=> InOrder(q, m, n) \/ (n = o /\ Occurs(q, m))
<1> DEFINE r == Append(q, o)
           k == Len(q) + 1
<1>1. Len(q) \in Nat /\ DOMAIN q = 1..Len(q)
  BY LenProperties
<1>2. /\ DOMAIN r = 1..k
      /\ \A i \in 1..Len(q) : r[i] = q[i]
      /\ r[k] = o
  <2>1. r \in Seq(S) /\ Len(r) = k
    BY <1>1, AppendProperties
  <2>2. DOMAIN r = 1..Len(r)
    BY <2>1, LenProperties
  <2> QED BY <2>1, <2>2, AppendProperties
<1> HIDE DEF r
<1>3. /\ k \in Nat /\ k \in DOMAIN r
      /\ \A i \in DOMAIN q : i \in DOMAIN r /\ r[i] = q[i] /\ i < k
      /\ \A i \in DOMAIN r : i \in Nat /\ (i = k \/ i \in DOMAIN q)
  BY <1>1, <1>2
<1> HIDE DEF k
<1>4. \A m : Occurs(r, m) <=> Occurs(q, m) \/ m = o
  BY <1>2, <1>3 DEF Occurs
<1>5. ASSUME NEW m, NEW n, InOrder(r, m, n)
      PROVE  InOrder(q, m, n) \/ (n = o /\ Occurs(q, m))
  <2>1. PICK i \in DOMAIN r, j \in DOMAIN r : i < j /\ r[i] = m /\ r[j] = n
    BY <1>5 DEF InOrder
  <2>2. i # k
    <3>1. j <= k
      BY <1>3, <2>1
    <3> QED BY <1>3, <2>1, <3>1
  <2> QED BY <1>2, <1>3, <2>1, <2>2 DEF InOrder, Occurs
<1>6. ASSUME NEW m, NEW n, InOrder(q, m, n) \/ (n = o /\ Occurs(q, m))
      PROVE  InOrder(r, m, n)
  BY <1>2, <1>3, <1>6 DEF InOrder, Occurs
<1> QED BY <1>4, <1>5, <1>6 DEF r

(* Erasing one element keeps the order of the others. *)
LEMMA RemoveAtOrder ==
    ASSUME NEW S, NEW q \in Seq(S), NEW i \in 1..Len(q),
           \A a, b \in DOMAIN q : q[a] = q[b] => a = b
    PROVE  /\ \A m : Occurs(RemoveAt(q, i), m) <=> Occurs(q, m) /\ m # q[i]
           /\ \A m, n : InOrder(RemoveAt(q, i), m, n)
                           <=> InOrder(q, m, n) /\ m # q[i] /\ n # q[i]
<1> DEFINE r    == RemoveAt(q, i)
           L    == Len(q)
           o    == q[i]
           k(j) == IF j < i THEN j ELSE j + 1
           l(j) == IF j < i THEN j ELSE j - 1
<1>1. L \in Nat /\ DOMAIN q = 1..L /\ i \in 1..L
  BY LenProperties
<1>2. /\ DOMAIN r = 1..(L - 1)
      /\ \A j \in 1..(L - 1) : r[j] = q[k(j)]
  <2>1. /\ r \in Seq(S) /\ Len(r) = L - 1
        /\ \A j \in 1..(L - 1) : r[j] = IF j < i THEN q[j] ELSE q[j + 1]
    BY RemoveAtProperties
  <2>2. DOMAIN r = 1..Len(r)
    BY <2>1, LenProperties
  <2> QED BY <2>1, <2>2
<1> HIDE DEF r, L, o
\* k and l are each other's inverses, and both keep the order
<1>3. \A j \in 1..(L - 1) : k(j) \in 1..L /\ k(j) # i
  BY <1>1
<1>4. \A j \in 1..L : j # i => l(j) \in 1..(L - 1) /\ k(l(j)) = j
  BY <1>1
<1>5. \A a, b \in 1..(L - 1) : a < b => k(a) < k(b)
  BY <1>1
<1>6. \A a, b \in 1..L : a # i /\ b # i /\ a < b => l(a) < l(b)
  BY <1>1
<1> HIDE DEF k, l
<1>7. \A j \in DOMAIN r : k(j) \in DOMAIN q /\ q[k(j)] = r[j] /\ r[j] # o
  BY <1>1, <1>2, <1>3 DEF o
<1>8. \A j \in DOMAIN q : q[j] # o => l(j) \in DOMAIN r /\ r[l(j)] = q[j]
  BY <1>1, <1>2, <1>4 DEF o
<1>9. \A m : Occurs(r, m) <=> Occurs(q, m) /\ m # o
  BY <1>7, <1>8 DEF Occurs
<1>10. ASSUME NEW m, NEW n, InOrder(r, m, n)
       PROVE  InOrder(q, m, n) /\ m # o /\ n # o
  <2>1. PICK a \in DOMAIN r, b \in DOMAIN r : a < b /\ r[a] = m /\ r[b] = n
    BY <1>10 DEF InOrder
  <2>2. k(a) < k(b)
    BY <1>2, <1>5, <2>1
  <2> QED BY <1>7, <2>1, <2>2 DEF InOrder
<1>11. ASSUME NEW m, NEW n, InOrder(q, m, n), m # o, n # o
       PROVE  InOrder(r, m, n)
  <2>1. PICK a \in DOMAIN q, b \in DOMAIN q : a < b /\ q[a] = m /\ q[b] = n
    BY <1>11 DEF InOrder
  <2>2. l(a) < l(b)
    BY <1>1, <1>6, <1>11, <2>1 DEF o
  <2> QED BY <1>8, <1>11, <2>1, <2>2 DEF InOrder
<1> QED BY <1>9, <1>10, <1>11 DEF r, o

(* A book with the same deques. *)
LEMMA SameQueuesPlaces ==
    ASSUME NEW bk, NEW new,
           \A t \in Side :
              /\ DOMAIN new.level[t] \subseteq DOMAIN bk.level[t]
              /\ \A x \in DOMAIN new.level[t] :
                    new.level[t][x].orders = bk.level[t][x].orders
              /\ \A x \in DOMAIN bk.level[t] \ DOMAIN new.level[t] :
                    bk.level[t][x].orders = <<>>
    PROVE  SamePlaces(bk, new)
<1> SUFFICES ASSUME NEW t \in Side, NEW x
             PROVE  \A m : /\ RestsAt(new, m, t, x) <=> RestsAt(bk, m, t, x)
                           /\ \A n : Before(new, t, x, m, n) <=> Before(bk, t, x, m, n)
  BY DEF SamePlaces
<1>1. CASE x \in DOMAIN new.level[t]
  <2>1. x \in DOMAIN bk.level[t] /\ new.level[t][x].orders = bk.level[t][x].orders
    BY <1>1
  <2> QED BY <1>1, <2>1 DEF RestsAt, Before
<1>2. CASE x \in DOMAIN bk.level[t] \ DOMAIN new.level[t]
  <2>1. bk.level[t][x].orders = <<>>
    BY <1>2
  <2>2. DOMAIN bk.level[t][x].orders = {}
    BY <2>1
  <2> QED BY <1>2, <2>2 DEF RestsAt, Before, InOrder
<1>3. CASE x \notin DOMAIN bk.level[t] /\ x \notin DOMAIN new.level[t]
  BY <1>3 DEF RestsAt, Before
<1> QED BY <1>1, <1>2, <1>3

(* Taking an order out of its deque. *)
LEMMA RemovalPlaces ==
    ASSUME NEW bk, BookInv(bk), NEW new, NEW s, NEW p, NEW i,
           Removes(bk, new, s, p, i)
    PROVE  LeavesPlace(bk, new, bk.level[s][p].orders[i])
<1> DEFINE q == bk.level[s][p].orders
           o == q[i]
<1>1. /\ s \in Side
      /\ p \in DOMAIN bk.level[s]
      /\ i \in DOMAIN q
      /\ \A t \in Side : t # s => new.level[t] = bk.level[t]
      /\ DOMAIN new.level[s] \subseteq DOMAIN bk.level[s]
      /\ \A x \in DOMAIN bk.level[s] :
            x # p => x \in DOMAIN new.level[s] /\ new.level[s][x] = bk.level[s][x]
      /\ p \in DOMAIN new.level[s] => new.level[s][p].orders = RemoveAt(q, i)
      /\ p \notin DOMAIN new.level[s] => Len(q) = 1
  BY DEF Removes
<1>2. q \in Seq(Order) /\ DOMAIN q = 1..Len(q)
  BY <1>1, QueueProperties DEF BookInv
<1>3. \A a, b \in DOMAIN q : q[a] = q[b] => a = b
  BY <1>1 DEF BookInv, QueuesDistinct
<1>4. /\ \A m : Occurs(RemoveAt(q, i), m) <=> Occurs(q, m) /\ m # o
      /\ \A m, n : InOrder(RemoveAt(q, i), m, n)
                      <=> InOrder(q, m, n) /\ m # o /\ n # o
  <2> HIDE DEF q
  <2> QED BY <1>1, <1>2, <1>3, RemoveAtOrder
<1> SUFFICES ASSUME NEW t \in Side, NEW x
             PROVE  \A m : /\ RestsAt(new, m, t, x) <=> RestsAt(bk, m, t, x) /\ m # o
                           /\ \A n : Before(new, t, x, m, n)
                                       <=> Before(bk, t, x, m, n) /\ m # o /\ n # o
  BY DEF LeavesPlace
<1>5. CASE t = s /\ x = p /\ p \in DOMAIN new.level[s]
  <2>1. new.level[t][x].orders = RemoveAt(q, i) /\ bk.level[t][x].orders = q
    BY <1>1, <1>5
  <2> HIDE DEF q, o
  <2>2. x \in DOMAIN new.level[t] /\ x \in DOMAIN bk.level[t]
    BY <1>1, <1>5
  <2> QED BY <1>4, <2>1, <2>2 DEF RestsAt, Before, Occurs
<1>6. CASE t = s /\ x = p /\ p \notin DOMAIN new.level[s]
  <2>1. DOMAIN q = 1..1 /\ i = 1
    <3>1. Len(q) = 1
      BY <1>1, <1>6
    <3> HIDE DEF q
    <3> QED BY <1>1, <1>2, <3>1
  <2>2. bk.level[t][x].orders = q
    BY <1>6
  <2>3. \A a \in DOMAIN q : a = i
    <3> HIDE DEF q
    <3> QED BY <2>1
  <2>4. \A a, b \in DOMAIN q : ~(a < b)
    <3> HIDE DEF q
    <3> QED BY <2>1
  <2> HIDE DEF q
  <2> QED BY <1>6, <2>2, <2>3, <2>4 DEF RestsAt, Before, InOrder
<1>7. CASE ~(t = s /\ x = p)
  <2>1. /\ x \in DOMAIN new.level[t] <=> x \in DOMAIN bk.level[t]
        /\ x \in DOMAIN bk.level[t] => new.level[t][x] = bk.level[t][x]
    BY <1>1, <1>7
  <2>2. x \in DOMAIN bk.level[t] => ~Occurs(bk.level[t][x].orders, o)
    BY <1>1, <1>7, OnePlace DEF Occurs
  <2> HIDE DEF o
  <2> QED BY <2>1, <2>2 DEF RestsAt, Before, InOrder, Occurs
<1> QED BY <1>5, <1>6, <1>7

(* Adding an order to the back of its deque. *)
LEMMA AddLimitOrderPlaces ==
    ASSUME NEW bk, IsBook(bk), NEW ords, NEW o \in Order,
           NEW s \in Side, NEW p \in Price,
           ords[o].side = s, ords[o].price = p
    PROVE  JoinsPlace(bk, AddLimitOrder(bk, ords, o), o, s, p)
<1> DEFINE old == IF p \in DOMAIN bk.level[s] THEN bk.level[s][p] ELSE EmptyLevel
           lv  == AddOrder(old, ords, o)
           new == AddLimitOrder(bk, ords, o)
<1>1. new.level = [bk.level EXCEPT ![s] = Put(bk.level[s], p, lv)]
  BY DEF AddLimitOrder
<1>2. lv.orders = Append(old.orders, o)
  BY DEF AddOrder
<1> HIDE DEF lv, new
<1>3. /\ DOMAIN new.level[s] = DOMAIN bk.level[s] \union {p}
      /\ new.level[s][p] = lv
      /\ \A x \in DOMAIN bk.level[s] : x # p => new.level[s][x] = bk.level[s][x]
      /\ \A t \in Side : t # s => new.level[t] = bk.level[t]
  <2>1. bk.level = [t \in Side |-> bk.level[t]]
    BY DEF IsBook
  <2>2. /\ new.level[s] = Put(bk.level[s], p, lv)
        /\ \A t \in Side : t # s => new.level[t] = bk.level[t]
    BY <1>1, <2>1, Zenon
  <2> QED BY <2>2 DEF Put
<1>4. old.orders \in Seq(Order)
  <2>1. CASE p \in DOMAIN bk.level[s]
    BY <2>1, QueueProperties
  <2>2. CASE p \notin DOMAIN bk.level[s]
    BY <2>2 DEF EmptyLevel
  <2> QED BY <2>1, <2>2
<1>5. /\ p \in DOMAIN bk.level[s] => old.orders = bk.level[s][p].orders
      /\ p \notin DOMAIN bk.level[s] => old.orders = <<>>
  BY DEF EmptyLevel
<1> HIDE DEF old
<1>6. /\ \A m : Occurs(lv.orders, m) <=> Occurs(old.orders, m) \/ m = o
      /\ \A m, n : InOrder(lv.orders, m, n)
                      <=> InOrder(old.orders, m, n) \/ (n = o /\ Occurs(old.orders, m))
  BY <1>2, <1>4, AppendOrder
<1> SUFFICES ASSUME NEW t \in Side, NEW x
             PROVE  \A m : /\ RestsAt(new, m, t, x)
                                 <=> RestsAt(bk, m, t, x) \/ (m = o /\ t = s /\ x = p)
                           /\ \A n : Before(new, t, x, m, n)
                                 <=> \/ Before(bk, t, x, m, n)
                                     \/ n = o /\ t = s /\ x = p /\ RestsAt(bk, m, s, p)
  BY DEF JoinsPlace, new
<1>7. CASE t = s /\ x = p /\ p \in DOMAIN bk.level[s]
  <2>1. new.level[t][x].orders = lv.orders /\ bk.level[t][x].orders = old.orders
    BY <1>3, <1>5, <1>7
  <2>2. x \in DOMAIN new.level[t] /\ x \in DOMAIN bk.level[t]
    BY <1>3, <1>7
  <2> QED BY <1>6, <1>7, <2>1, <2>2 DEF RestsAt, Before, Occurs
<1>8. CASE t = s /\ x = p /\ p \notin DOMAIN bk.level[s]
  <2>1. new.level[t][x].orders = lv.orders /\ old.orders = <<>>
    BY <1>3, <1>5, <1>8
  <2>2. x \in DOMAIN new.level[t] /\ x \notin DOMAIN bk.level[t]
    BY <1>3, <1>8
  <2>3. \A m, n : ~Occurs(old.orders, m) /\ ~InOrder(old.orders, m, n)
    BY <2>1 DEF Occurs, InOrder
  <2>4. \A m : RestsAt(new, m, t, x) <=> Occurs(lv.orders, m)
    BY <2>1, <2>2 DEF RestsAt, Occurs
  <2>5. \A m, n : Before(new, t, x, m, n) <=> InOrder(lv.orders, m, n)
    BY <2>1, <2>2 DEF Before
  <2>6. \A m, n : ~RestsAt(bk, m, t, x) /\ ~Before(bk, t, x, m, n)
    BY <2>2 DEF RestsAt, Before
  <2>7. t = s /\ x = p
    BY <1>8
  <2> HIDE DEF lv, new
  <2>8. \A m : RestsAt(new, m, t, x) <=> RestsAt(bk, m, t, x) \/ m = o
    BY <1>6, <2>3, <2>4, <2>6, Zenon
  <2>9. \A m, n : ~Before(new, t, x, m, n) /\ ~Before(bk, t, x, m, n) /\ ~RestsAt(bk, m, s, p)
    BY <1>6, <2>3, <2>5, <2>6, <2>7, Zenon
  <2> QED BY <2>6, <2>7, <2>8, <2>9, Zenon
<1>9. CASE ~(t = s /\ x = p)
  <2>1. /\ x \in DOMAIN new.level[t] <=> x \in DOMAIN bk.level[t]
        /\ x \in DOMAIN bk.level[t] => new.level[t][x] = bk.level[t][x]
    BY <1>3, <1>9
  <2> QED BY <1>9, <2>1 DEF RestsAt, Before
<1> QED BY <1>7, <1>8, <1>9

(* The places after OrderBook::cancel_order ... *)
LEMMA CancelPlaces ==
    ASSUME NEW bk, BookInv(bk), NEW ords,
           NEW id \in DOMAIN bk.order_index,
           \A t \in Side : \A x \in DOMAIN bk.level[t] :
              \A j \in DOMAIN bk.level[t][x].orders :
                 Remaining(ords[bk.level[t][x].orders[j]]) \in Int
    PROVE  \/ /\ Finds(bk, id)
              /\ \E s \in Side, p \in Price :
                    /\ RestsAt(bk, Found(bk, id), s, p)
                    /\ LeavesPlace(bk, CancelInBook(bk, ords, id), Found(bk, id))
           \/ ~Finds(bk, id) /\ SamePlaces(bk, CancelInBook(bk, ords, id))
<1> DEFINE new == CancelInBook(bk, ords, id)
           o   == Found(bk, id)
<1>1. CASE Finds(bk, id)
  <2>1. \E s, p, i : Removes(bk, new, s, p, i) /\ bk.level[s][p].orders[i] = o
    BY <1>1, CancelRemoves, SMTT(40)
  <2> HIDE DEF new, o
  <2>2. PICK s, p, i : Removes(bk, new, s, p, i) /\ bk.level[s][p].orders[i] = o
    BY <2>1
  <2>3. LeavesPlace(bk, new, o)
    BY <2>2, RemovalPlaces
  <2>4. s \in Side /\ p \in DOMAIN bk.level[s] /\ i \in DOMAIN bk.level[s][p].orders
    BY <2>2 DEF Removes
  <2>5. RestsAt(bk, o, s, p)
    BY <2>2, <2>4 DEF RestsAt
  <2>6. p \in Price
    BY <2>4 DEF BookInv, IsBook, IsMap
  <2> QED BY <1>1, <2>3, <2>4, <2>5, <2>6 DEF new, o
<1>2. CASE ~Finds(bk, id)
  <2>1. \A t \in Side :
           /\ DOMAIN new.level[t] \subseteq DOMAIN bk.level[t]
           /\ \A x \in DOMAIN new.level[t] : new.level[t][x] = bk.level[t][x]
           /\ \A x \in DOMAIN bk.level[t] \ DOMAIN new.level[t] :
                 bk.level[t][x].orders = <<>>
    BY <1>2, CancelMisses
  <2> HIDE DEF new
  <2>2. \A t \in Side : \A x \in DOMAIN new.level[t] :
           new.level[t][x].orders = bk.level[t][x].orders
    BY <2>1
  <2>3. SamePlaces(bk, new)
    BY <2>1, <2>2, SameQueuesPlaces
  <2> QED BY <1>2, <2>3 DEF new
<1> QED BY <1>1, <1>2

(* ... and after the book's part of execute_fill. *)
LEMMA FillFrontPlaces ==
    ASSUME NEW bk, BookInv(bk),
           NEW s \in Side, NEW p \in DOMAIN bk.level[s],
           bk.level[s][p].orders # <<>>, NEW qty \in Int, NEW complete \in BOOLEAN,
           NEW new, new = FillFront(bk, s, p, qty, complete)
    PROVE  /\ complete => LeavesPlace(bk, new, Head(bk.level[s][p].orders))
           /\ ~complete => SamePlaces(bk, new)
<1>1. /\ \A t \in Side :
            /\ DOMAIN new.level[t] = DOMAIN bk.level[t]
            /\ \A x \in DOMAIN new.level[t] :
                  ~(t = s /\ x = p) => new.level[t][x] = bk.level[t][x]
      /\ Head(bk.level[s][p].orders) = bk.level[s][p].orders[1]
      /\ complete => Removes(bk, new, s, p, 1)
      /\ ~complete => new.level[s][p].orders = bk.level[s][p].orders
  BY FillFrontEffect
<1>2. ASSUME complete PROVE LeavesPlace(bk, new, Head(bk.level[s][p].orders))
  <2>1. Removes(bk, new, s, p, 1)
    BY <1>1, <1>2
  <2>2. LeavesPlace(bk, new, bk.level[s][p].orders[1])
    BY <2>1, RemovalPlaces
  <2> QED BY <1>1, <2>2
<1>3. ASSUME ~complete PROVE SamePlaces(bk, new)
  <2>1. \A t \in Side :
           /\ DOMAIN new.level[t] \subseteq DOMAIN bk.level[t]
           /\ \A x \in DOMAIN new.level[t] :
                 new.level[t][x].orders = bk.level[t][x].orders
           /\ \A x \in DOMAIN bk.level[t] \ DOMAIN new.level[t] :
                 bk.level[t][x].orders = <<>>
    BY <1>1, <1>3
  <2> QED BY <2>1, SameQueuesPlaces
<1> QED BY <1>2, <1>3
============================================================================
