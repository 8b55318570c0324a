---------------------- MODULE MatchingEngine_proofs ----------------------
(***************************************************************************)
(* The invariants of the matching engine, and that it implements           *)
(* price-time priority, proved for every set of orders, symbols, prices    *)
(* and quantities.  Nothing is assumed of order ids but in the theorem on  *)
(* the index, BooksConsistent: two orders may carry one id, as the code    *)
(* does not prevent, and only the index suffers.                           *)
(***************************************************************************)
EXTENDS PriorityMapping, OrderBook_proofs

(* The order now being matched is in no book. *)
TakerAway ==
    \A sym \in Symbol : \A s \in Side : \A p :
        ~RestsAt(books[sym], aggressor, s, p)

(* Its status is one that submit_order and execute_fill give it. *)
TakerOpen ==
    aggressor # NoOrder => Taker.status \in {"NEW", "PARTIALLY_FILLED", "FILLED"}

(* The inductive invariant. *)
Inv ==
    /\ TypeOK
    /\ \A sym \in Symbol : BookInv(books[sym])
    /\ RestingOrdersLive
    /\ TakerAway
    /\ TakerOpen
    /\ NoStaleLevel
    /\ StatusMatchesFills

(* It implies the safety properties that the runs check. *)
LEMMA InvImplies ==
    ASSUME Inv
    PROVE  RestsOnce /\ Uncrossed
BY DEF Inv, BookInv, RestsOnce, Uncrossed, TakerAway

(* The orders the engine has been given. *)
LEMMA OrderTypes ==
    ASSUME Inv, NEW o \in DOMAIN orders
    PROVE  /\ o \in Order /\ o # NoOrder
           /\ orders[o] \in OrderRecord
           /\ orders[o].symbol \in Symbol
           /\ orders[o].side \in Side
           /\ orders[o].price \in Price
           /\ orders[o].quantity \in UInt32
           /\ orders[o].filled_qty \in UInt32
           /\ orders[o].quantity \in Nat
           /\ orders[o].filled_qty \in Nat
           /\ orders[o].filled_qty <= orders[o].quantity
           /\ Remaining(orders[o]) \in Nat
<1>1. o \in Order /\ orders[o] \in OrderRecord
  BY DEF Inv, TypeOK, IsMap
<1>2. o # NoOrder
  BY <1>1, NoOrderAssumption
<1>3. /\ orders[o].symbol \in Symbol /\ orders[o].side \in Side
      /\ orders[o].price \in Price
      /\ orders[o].quantity \in UInt32 /\ orders[o].filled_qty \in UInt32
  BY <1>1 DEF OrderRecord
<1>4. orders[o].filled_qty <= orders[o].quantity
  BY DEF Inv, StatusMatchesFills
<1>5. UInt32 \subseteq Nat
  BY U32Assumption DEF UInt32
<1>6. orders[o].quantity \in Nat /\ orders[o].filled_qty \in Nat
  BY <1>3, <1>5
<1>7. Remaining(orders[o]) \in Nat
  BY <1>4, <1>6 DEF Remaining
<1>8. QED
  BY <1>1, <1>2, <1>3, <1>4, <1>6, <1>7

(* What rests is an order of the engine, and can trade where it rests. *)
LEMMA RestingOrder ==
    ASSUME Inv, NEW sym \in Symbol, NEW s \in Side, NEW p, NEW o,
           RestsAt(books[sym], o, s, p)
    PROVE  /\ o \in DOMAIN orders
           /\ MayRestAt(orders[o], sym, s, p)
           /\ o # aggressor
<1>1. QueuedAreLive(books[sym], orders, sym)
  BY DEF Inv, RestingOrdersLive
<1>2. o \in DOMAIN orders /\ MayRestAt(orders[o], sym, s, p)
  BY <1>1, LiveIffRests
<1>3. o # aggressor
  BY DEF Inv, TakerAway
<1>4. QED
  BY <1>2, <1>3

LEMMA InitInv == Init => Inv
<1> SUFFICES ASSUME Init PROVE Inv
  OBVIOUS
<1>1. DOMAIN orders = {} /\ orders = EmptyMap
  BY DEF Init, EmptyMap
<1>2. \A sym \in Symbol : books[sym] = EmptyBook
  BY DEF Init
<1>3. \A sym \in Symbol : BookInv(books[sym])
  BY <1>2, EmptyBookInv
<1>4. \A sym \in Symbol : \A s \in Side : DOMAIN books[sym].level[s] = {}
  BY <1>2 DEF EmptyBook, EmptyMap
<1>5. TypeOK
  <2>1. books = [sym \in Symbol |-> books[sym]]
    BY DEF Init
  <2>2. \A sym \in Symbol : IsBook(books[sym])
    BY <1>3 DEF BookInv
  <2>3. IsMap(orders, Order, OrderRecord)
    BY <1>1 DEF IsMap, EmptyMap
  <2> QED BY <2>1, <2>2, <2>3 DEF Init, TypeOK
<1>6. RestingOrdersLive
  BY <1>4 DEF RestingOrdersLive, QueuedAreLive
<1>7. TakerAway
  BY <1>4 DEF TakerAway, RestsAt
<1>8. TakerOpen
  BY DEF Init, TakerOpen
<1>9. NoStaleLevel
  BY <1>4 DEF NoStaleLevel
<1>10. StatusMatchesFills
  BY <1>1 DEF StatusMatchesFills
<1>11. QED
  BY <1>3, <1>5, <1>6, <1>7, <1>8, <1>9, <1>10 DEF Inv

----------------------------------------------------------------------------
(* SubmitOrder: a new object enters, the books do not change. *)
LEMMA SubmitOrderStep ==
    ASSUME Inv, NEW o \in Order, NEW in \in OrderInput, SubmitOrder(o, in)
    PROVE  Inv'
<1> DEFINE r      == NewOrder(in)
           ords   == Put(orders, o, r)
           killed == ords[o].tif = "FOK"
                        /\ ~CanFillCompletely(ords[o], books[ords[o].symbol])
           st     == IF killed THEN "CANCELLED" ELSE "NEW"
<1>1. /\ aggressor = NoOrder
      /\ o \notin DOMAIN orders
      /\ orders_processed' = orders_processed + 1
      /\ books' = books
      /\ orders' = [ords EXCEPT ![o].status = st]
      /\ aggressor' = IF killed THEN NoOrder ELSE o
      /\ UNCHANGED metrics
  BY DEF SubmitOrder, Enter
<1>1a. killed => Remaining(ords[o]) # 0
  BY DEF CanFillCompletely
<1>1b. ords[o] = r
  BY DEF Put
<1> HIDE DEF killed
<1>3. r \in OrderRecord /\ r.filled_qty = 0 /\ r.quantity \in UInt32
  BY U32Assumption DEF OrderInput, NewOrder, OrderRecord, OrderStatus, UInt32
<1>4. /\ DOMAIN orders' = DOMAIN orders \union {o}
      /\ orders'[o] = [r EXCEPT !.status = st]
      /\ \A x \in DOMAIN orders : orders'[x] = orders[x]
      /\ orders' = [x \in DOMAIN orders' |-> orders'[x]]
  <2> HIDE DEF r
  <2> QED BY <1>1 DEF Put
<1>5. st \in {"NEW", "CANCELLED"}
  OBVIOUS
<1>6. /\ orders'[o] \in OrderRecord
      /\ orders'[o].filled_qty = 0
      /\ orders'[o].quantity \in UInt32
      /\ orders'[o].status = st
      /\ st = "CANCELLED" => orders'[o].quantity # 0
  <2>1. st = "CANCELLED" => r.quantity - r.filled_qty # 0
    BY <1>1a, <1>1b DEF Remaining
  <2> HIDE DEF r, st
  <2>2. UInt32 \subseteq Int
    BY U32Assumption DEF UInt32
  <2> QED BY <1>3, <1>4, <1>5, <2>1, <2>2 DEF OrderRecord, OrderStatus
<1> HIDE DEF r, ords, st
<1>7. TypeOK'
  <2>1. IsMap(orders', Order, OrderRecord)
    BY <1>4, <1>6 DEF Inv, TypeOK, IsMap
  <2>2. aggressor' \in DOMAIN orders' \union {NoOrder}
    BY <1>1, <1>4
  <2> QED BY <1>1, <2>1, <2>2 DEF Inv, TypeOK, metrics
<1>8. \A sym \in Symbol : BookInv(books'[sym])
  BY <1>1 DEF Inv
<1>9. RestingOrdersLive'
  <2> SUFFICES ASSUME NEW sym \in Symbol
               PROVE  QueuedAreLive(books'[sym], orders', sym)
    BY DEF RestingOrdersLive
  <2>1. \A t \in Side : \A y, x : RestsAt(books[sym], y, t, x)
           => y \in DOMAIN orders' /\ MayRestAt(orders'[y], sym, t, x)
    BY <1>4, RestingOrder
  <2> QED BY <1>1, <2>1, LiveIffRests
<1>10. TakerAway'
  <2> SUFFICES ASSUME NEW sym \in Symbol, NEW s \in Side, NEW p,
                      RestsAt(books[sym], aggressor', s, p)
               PROVE  FALSE
    BY <1>1 DEF TakerAway
  <2>1. aggressor' \in DOMAIN orders
    BY RestingOrder
  <2> QED BY <1>1, <2>1, OrderTypes
<1>11. TakerOpen'
  BY <1>1, <1>6 DEF TakerOpen, Taker, st
<1>12. NoStaleLevel'
  BY <1>1 DEF Inv, NoStaleLevel
<1>13. StatusMatchesFills'
  <2>1. UInt32 \subseteq Nat
    BY U32Assumption DEF UInt32
  <2>2. /\ orders'[o].filled_qty <= orders'[o].quantity
        /\ orders'[o].status = "CANCELLED" => orders'[o].filled_qty < orders'[o].quantity
    <3>1. orders'[o].quantity \in Nat
      BY <1>6, <2>1
    <3>2. orders'[o].status = "CANCELLED" => orders'[o].quantity # 0
      BY <1>6
    <3> QED BY <1>6, <3>1, <3>2
  <2>3. orders'[o].status \in {"NEW", "CANCELLED"}
    BY <1>5, <1>6
  <2>4. \A y \in DOMAIN orders' : y = o \/ (y \in DOMAIN orders /\ orders'[y] = orders[y])
    BY <1>4
  <2> QED BY <1>6, <2>2, <2>3, <2>4 DEF Inv, StatusMatchesFills
<1>14. QED
  BY <1>7, <1>8, <1>9, <1>10, <1>11, <1>12, <1>13 DEF Inv

----------------------------------------------------------------------------
(* The sweep. *)

(* The aggressor, its book and the best level it is swept against. *)
LEMMA SweepFacts ==
    ASSUME Inv, aggressor # NoOrder
    PROVE  /\ aggressor \in DOMAIN orders
           /\ Taker.symbol \in Symbol
           /\ Taker.side \in Side
           /\ MakerSide \in Side
           /\ Taker.side = "BUY" <=> MakerSide = "SELL"
           /\ BookInv(TakerBook)
           /\ IsBook(TakerBook)
           /\ HasLevels(TakerBook, MakerSide) =>
                 /\ SweepPrice \in DOMAIN TakerBook.level[MakerSide]
                 /\ MakerSide = "BUY" =>
                       \A p \in DOMAIN TakerBook.level[MakerSide] : p <= SweepPrice
                 /\ MakerSide = "SELL" =>
                       \A p \in DOMAIN TakerBook.level[MakerSide] : p >= SweepPrice
<1>1. aggressor \in DOMAIN orders
  BY DEF Inv, TypeOK
<1>2. Taker.symbol \in Symbol /\ Taker.side \in Side
  BY <1>1, OrderTypes DEF Taker
<1>3. MakerSide \in Side /\ (Taker.side = "BUY" <=> MakerSide = "SELL")
  BY <1>2 DEF MakerSide, Opposite, Side
<1>4. BookInv(TakerBook) /\ IsBook(TakerBook)
  BY <1>2 DEF Inv, TakerBook, BookInv
<1>5. QED
  BY <1>1, <1>2, <1>3, <1>4, BestPriceIsBest DEF SweepPrice

(* The resting order it trades with, and the quantity. *)
LEMMA FillFacts ==
    ASSUME Inv, aggressor # NoOrder, MayFill, ~LevelSpent
    PROVE  /\ SweepPrice \in DOMAIN TakerBook.level[MakerSide]
           /\ TakerBook.level[MakerSide][SweepPrice].orders # <<>>
           /\ Maker = Head(TakerBook.level[MakerSide][SweepPrice].orders)
           /\ RestsAt(TakerBook, Maker, MakerSide, SweepPrice)
           /\ Maker \in DOMAIN orders
           /\ Maker # aggressor
           /\ MayRestAt(orders[Maker], Taker.symbol, MakerSide, SweepPrice)
           /\ FillQty \in Nat /\ FillQty > 0
           /\ FillQty <= Remaining(Taker)
           /\ FillQty <= Remaining(orders[Maker])
<1> DEFINE q == TakerBook.level[MakerSide][SweepPrice].orders
<1>1. HasLevels(TakerBook, MakerSide) /\ Remaining(Taker) > 0
  BY DEF MayFill
<1>2. /\ SweepPrice \in DOMAIN TakerBook.level[MakerSide]
      /\ MakerSide \in Side /\ Taker.symbol \in Symbol
      /\ IsBook(TakerBook)
      /\ aggressor \in DOMAIN orders
  BY <1>1, SweepFacts
<1>3. q # <<>> /\ Maker = Head(q)
  BY <1>1 DEF LevelSpent, Maker, SweepLevel, BestLevel, SweepPrice
<1>4. q \in Seq(Order)
  BY <1>2, QueueProperties
<1>5. 1 \in DOMAIN q /\ Head(q) = q[1]
  <2> HIDE DEF q
  <2> QED BY <1>3, <1>4, TailIsRemoveAt
<1>6. RestsAt(TakerBook, Maker, MakerSide, SweepPrice)
  BY <1>2, <1>3, <1>5 DEF RestsAt
<1>7. /\ Maker \in DOMAIN orders
      /\ Maker # aggressor
      /\ MayRestAt(orders[Maker], Taker.symbol, MakerSide, SweepPrice)
  BY <1>2, <1>6, RestingOrder DEF TakerBook
<1>8. /\ Remaining(Taker) \in Nat /\ Remaining(orders[Maker]) \in Nat
      /\ Remaining(orders[Maker]) > 0
  BY <1>2, <1>7, OrderTypes DEF Taker, MayRestAt
<1> DEFINE S == {Remaining(Taker), Remaining(orders[Maker])}
<1>9. FillQty \in S /\ \A y \in S : FillQty <= y
  <2>1. S \in SUBSET Nat /\ S # {}
    BY <1>8
  <2>2. FillQty = Min(S)
    BY DEF FillQty
  <2> HIDE DEF S
  <2> QED BY <2>1, <2>2, MinIsLeast
<1>10. QED
  BY <1>1, <1>2, <1>3, <1>6, <1>7, <1>8, <1>9

(* Filled: the record after a fill of at most what remained. *)
LEMMA FilledProperties ==
    ASSUME NEW r \in OrderRecord, NEW qty \in Nat, qty > 0,
           r.filled_qty <= r.quantity, qty <= Remaining(r)
    PROVE  LET f == Filled(r, qty)
           IN  /\ f \in OrderRecord
               /\ f.filled_qty = r.filled_qty + qty
               /\ f.filled_qty \in Nat /\ f.quantity \in Nat
               /\ f.filled_qty > 0
               /\ f.filled_qty <= f.quantity
               /\ f.quantity = r.quantity
               /\ f.symbol = r.symbol /\ f.side = r.side /\ f.price = r.price
               /\ f.type = r.type /\ f.tif = r.tif
               /\ f.status = IF f.filled_qty = f.quantity
                             THEN "FILLED" ELSE "PARTIALLY_FILLED"
<1>1. /\ r.quantity \in Nat /\ r.filled_qty \in Nat
      /\ r.quantity <= U32 - 1
  BY U32Assumption DEF OrderRecord, UInt32
<1>2. r.filled_qty + qty \in UInt32 /\ r.filled_qty + qty <= r.quantity
  BY <1>1, U32Assumption DEF Remaining, UInt32
<1>3. Filled(r, qty) \in OrderRecord
  BY <1>2 DEF Filled, OrderRecord, OrderStatus
<1>4. /\ Filled(r, qty).filled_qty = r.filled_qty + qty
      /\ Filled(r, qty).quantity = r.quantity
      /\ Filled(r, qty).symbol = r.symbol /\ Filled(r, qty).side = r.side
      /\ Filled(r, qty).price = r.price
      /\ Filled(r, qty).type = r.type /\ Filled(r, qty).tif = r.tif
      /\ Filled(r, qty).status = IF r.filled_qty + qty = r.quantity
                                 THEN "FILLED" ELSE "PARTIALLY_FILLED"
  BY DEF Filled, OrderRecord
<1>5. QED
  BY <1>1, <1>2, <1>3, <1>4

LEMMA ExecuteFillStep ==
    ASSUME Inv, ExecuteFill
    PROVE  Inv'
<1> DEFINE sym0 == Taker.symbol
           s0   == MakerSide
           p0   == SweepPrice
           m    == Maker
           a    == aggressor
           qty  == FillQty
           done == qty = Remaining(orders[m])
           bk   == TakerBook
           new  == FillFront(bk, s0, p0, qty, done)
<1>1. /\ a # NoOrder /\ MayFill /\ ~LevelSpent
      /\ books' = [books EXCEPT ![sym0] = new]
      /\ orders' = [orders EXCEPT ![a] = Filled(orders[a], qty),
                                  ![m] = Filled(orders[m], qty)]
      /\ next_exec_id' = next_exec_id + 1
      /\ fills_generated' = fills_generated + 1
      /\ volume_traded' = volume_traded + qty
      /\ total_value_traded' = total_value_traded + qty * p0
      /\ aggressor' = a
      /\ orders_processed' = orders_processed
  BY DEF ExecuteFill, Taker
<1>2. /\ a \in DOMAIN orders
      /\ sym0 \in Symbol
      /\ s0 \in Side
      /\ BookInv(bk) /\ IsBook(bk)
      /\ bk = books[sym0]
      /\ p0 \in DOMAIN bk.level[s0]
      /\ bk.level[s0][p0].orders # <<>>
      /\ m = Head(bk.level[s0][p0].orders)
      /\ RestsAt(bk, m, s0, p0)
      /\ m \in DOMAIN orders
      /\ m # a
      /\ MayRestAt(orders[m], sym0, s0, p0)
      /\ qty \in Nat /\ qty > 0
      /\ qty <= Remaining(orders[a])
      /\ qty <= Remaining(orders[m])
  BY <1>1, SweepFacts, FillFacts DEF Taker, TakerBook
<1>2a. qty \in Nat /\ qty > 0 /\ qty \in Int
  <2>1. qty \in Nat /\ qty > 0
    BY <1>1, FillFacts
  <2> HIDE DEF qty
  <2> QED BY <2>1
<1>3. p0 \in Nat
  <2> HIDE DEF bk, s0, p0
  <2>1. p0 \in Price
    BY <1>2, QueueProperties
  <2> QED BY <2>1, MaxPriceAssumption DEF Price
<1>4. /\ BookInv(new)
      /\ \A y, t, x : RestsAt(new, y, t, x) /\ t \in Side
            => RestsAt(bk, y, t, x) /\ (done => y # m)
      /\ \A t \in Side :
            /\ DOMAIN new.level[t] = DOMAIN bk.level[t]
            /\ \A x \in DOMAIN new.level[t] :
                  ~(t = s0 /\ x = p0) => new.level[t][x] = bk.level[t][x]
  <2>1. done \in BOOLEAN
    BY Zenon
  <2> HIDE DEF bk, s0, p0, qty, done, m
  <2>2. qty \in Int
    BY <1>2a
  <2>3. BookInv(bk) /\ s0 \in Side /\ p0 \in DOMAIN bk.level[s0]
        /\ bk.level[s0][p0].orders # <<>>
    BY <1>2
  <2>4. m = Head(bk.level[s0][p0].orders)
    BY <1>2
  <2>5. new = FillFront(bk, s0, p0, qty, done)
    OBVIOUS
  <2> HIDE DEF new
  <2> QED BY <2>1, <2>2, <2>3, <2>4, <2>5, FillFrontInv
<1>5. /\ orders[a] \in OrderRecord /\ orders[m] \in OrderRecord
      /\ orders[a].filled_qty <= orders[a].quantity
      /\ orders[m].filled_qty <= orders[m].quantity
      /\ Remaining(orders[m]) \in Nat
      /\ orders[m].filled_qty \in Nat /\ orders[m].quantity \in Nat
  BY <1>2, OrderTypes
\* the two records that change
<1>6. /\ DOMAIN orders' = DOMAIN orders
      /\ orders' = [x \in DOMAIN orders |-> orders'[x]]
      /\ orders'[a] = Filled(orders[a], qty)
      /\ orders'[m] = Filled(orders[m], qty)
      /\ \A x \in DOMAIN orders : x # a /\ x # m => orders'[x] = orders[x]
  <2>1. orders = [x \in DOMAIN orders |-> orders[x]]
    BY DEF Inv, TypeOK, IsMap
  <2> HIDE DEF a, m, qty
  <2> QED BY <1>1, <1>2, <2>1
<1>7. /\ books' = [x \in Symbol |-> books'[x]]
      /\ books'[sym0] = new
      /\ \A x \in Symbol : x # sym0 => books'[x] = books[x]
  <2>1. books = [x \in Symbol |-> books[x]]
    BY DEF Inv, TypeOK
  <2> HIDE DEF new, sym0
  <2> QED BY <1>1, <1>2, <2>1, Zenon
<1> HIDE DEF sym0, s0, p0, m, a, qty, done, bk, new
<1>8. \A x \in {a, m} :
         /\ orders'[x] \in OrderRecord
         /\ orders'[x].filled_qty = orders[x].filled_qty + qty
         /\ orders'[x].filled_qty \in Nat /\ orders'[x].quantity \in Nat
         /\ orders'[x].filled_qty > 0
         /\ orders'[x].filled_qty <= orders'[x].quantity
         /\ orders'[x].quantity = orders[x].quantity
         /\ orders'[x].symbol = orders[x].symbol
         /\ orders'[x].side = orders[x].side
         /\ orders'[x].price = orders[x].price
         /\ orders'[x].type = orders[x].type
         /\ orders'[x].tif = orders[x].tif
         /\ orders'[x].status = IF orders'[x].filled_qty = orders'[x].quantity
                                THEN "FILLED" ELSE "PARTIALLY_FILLED"
  <2> TAKE x \in {a, m}
  <2>1. /\ orders[x] \in OrderRecord /\ orders[x].filled_qty <= orders[x].quantity
        /\ qty \in Nat /\ qty > 0 /\ qty <= Remaining(orders[x])
        /\ orders'[x] = Filled(orders[x], qty)
    BY <1>2, <1>5, <1>6
  <2> QED BY <2>1, FilledProperties
<1>9. TypeOK'
  <2>1. IsMap(orders', Order, OrderRecord)
    <3>1. \A x \in DOMAIN orders : x \in Order /\ orders'[x] \in OrderRecord
      BY <1>6, <1>8, OrderTypes
    <3> QED BY <1>6, <3>1 DEF IsMap
  <2>2. \A x \in Symbol : IsBook(books'[x])
    BY <1>4, <1>7 DEF Inv, TypeOK, BookInv
  <2>3. aggressor' \in DOMAIN orders' \union {NoOrder}
    BY <1>1, <1>2, <1>6
  <2>4. qty * p0 \in Nat
    BY <1>2a, <1>3
  <2>5. /\ next_exec_id \in Nat \ {0} /\ fills_generated \in Nat
        /\ volume_traded \in Nat /\ total_value_traded \in Nat
        /\ orders_processed \in Nat
    BY DEF Inv, TypeOK
  <2>6. /\ next_exec_id' \in Nat \ {0} /\ fills_generated' \in Nat
        /\ volume_traded' \in Nat /\ total_value_traded' \in Nat
        /\ orders_processed' \in Nat
    <3>1. /\ fills_generated' = fills_generated + 1 /\ next_exec_id' = next_exec_id + 1
          /\ volume_traded' = volume_traded + qty
          /\ total_value_traded' = total_value_traded + qty * p0
          /\ orders_processed' = orders_processed
      BY <1>1
    <3>2. volume_traded' \in Nat
      BY <1>2a, <2>5, <3>1
    <3>3. total_value_traded' \in Nat
      BY <2>4, <2>5, <3>1
    <3> QED BY <2>5, <3>1, <3>2, <3>3
  <2> QED BY <1>7, <2>1, <2>2, <2>3, <2>6 DEF TypeOK
<1>10. \A x \in Symbol : BookInv(books'[x])
  BY <1>4, <1>7 DEF Inv
\* what rests afterwards rested before
<1>11. ASSUME NEW sym \in Symbol, NEW t \in Side, NEW x, NEW y,
              RestsAt(books'[sym], y, t, x)
       PROVE  /\ RestsAt(books[sym], y, t, x)
              /\ y = m => ~done /\ sym = sym0
  <2>1. CASE sym = sym0
    <3>1. books'[sym] = new /\ books[sym] = bk
      BY <1>2, <1>7, <2>1
    <3>2. RestsAt(new, y, t, x)
      BY <1>11, <3>1
    <3>3. RestsAt(bk, y, t, x) /\ (done => y # m)
      BY <1>4, <3>2
    <3> QED BY <2>1, <3>1, <3>3
  <2>2. CASE sym # sym0
    <3>1. RestsAt(books[sym], y, t, x)
      BY <1>7, <1>11, <2>2
    <3>2. MayRestAt(orders[y], sym, t, x)
      BY <3>1, RestingOrder
    <3>3. y # m
      BY <1>2, <2>2, <3>2 DEF MayRestAt
    <3> QED BY <3>1, <3>3
  <2> QED BY <2>1, <2>2
<1>12. ASSUME NEW sym \in Symbol, NEW t \in Side, NEW x, NEW y,
              RestsAt(books'[sym], y, t, x)
       PROVE  y \in DOMAIN orders' /\ MayRestAt(orders'[y], sym, t, x) /\ y # a
  <2>1. /\ y \in DOMAIN orders
        /\ MayRestAt(orders[y], sym, t, x)
        /\ y # a
    BY <1>11, <1>12, RestingOrder DEF a
  <2>2. CASE y = m
    <3>1. ~done
      BY <1>11, <1>12, <2>2
    <3>2. orders'[m].filled_qty # orders'[m].quantity
      <4>1. qty # orders[m].quantity - orders[m].filled_qty
        BY <3>1 DEF Remaining, done
      <4>2. /\ orders'[m].filled_qty = orders[m].filled_qty + qty
            /\ orders'[m].quantity = orders[m].quantity
        BY <1>8
      <4> QED BY <1>2a, <1>5, <4>1, <4>2
    <3>3. IsActive(orders'[m])
      BY <1>8, <3>2 DEF IsActive
    <3>4. Remaining(orders'[m]) > 0
      BY <1>8, <3>2 DEF Remaining
    <3> QED BY <1>6, <1>8, <2>1, <2>2, <3>3, <3>4 DEF MayRestAt
  <2>3. CASE y # m
    BY <1>6, <2>1, <2>3
  <2> QED BY <2>1, <2>2, <2>3
<1>13. RestingOrdersLive'
  BY <1>12, LiveIffRests DEF RestingOrdersLive
<1>14. TakerAway'
  <2>1. aggressor' = a
    BY <1>1
  <2> QED BY <1>12, <2>1 DEF TakerAway
<1>15. Taker' = orders'[a] /\ Taker'.symbol = sym0 /\ MakerSide' = s0
  <2>1. aggressor' = a
    BY <1>1
  <2>2. Taker' = orders'[a]
    BY <2>1 DEF Taker
  <2>3. orders'[a].symbol = sym0 /\ Opposite(orders'[a].side) = s0
    BY <1>8 DEF sym0, s0, MakerSide, Taker, a
  <2> QED BY <2>2, <2>3 DEF MakerSide
<1>16. TakerOpen'
  BY <1>8, <1>15 DEF TakerOpen
<1>17. NoStaleLevel'
  <2>1. SweepPrice' = p0
    <3>1. SweepPrice' = BestPrice(books'[sym0], s0)
      BY <1>15 DEF SweepPrice, TakerBook
    <3>2. DOMAIN books'[sym0].level[s0] = DOMAIN bk.level[s0]
      BY <1>2, <1>4, <1>7
    <3>3. p0 = BestPrice(bk, s0)
      BY DEF p0, bk, s0, SweepPrice
    <3> QED BY <3>1, <3>2, <3>3 DEF BestPrice
  <2>2. aggressor' # NoOrder
    BY <1>1
  <2> SUFFICES ASSUME NEW sym \in Symbol, NEW t \in Side,
                      NEW x \in DOMAIN books'[sym].level[t],
                      books'[sym].level[t][x].orders = <<>>
               PROVE  sym = sym0 /\ t = s0 /\ x = p0
    BY <1>15, <2>1, <2>2 DEF NoStaleLevel
  <2>3. CASE sym = sym0 /\ t = s0 /\ x = p0
    BY <2>3
  <2>4. CASE ~(sym = sym0 /\ t = s0 /\ x = p0)
    <3>1. x \in DOMAIN books[sym].level[t] /\ books[sym].level[t][x].orders = <<>>
      <4>1. CASE sym = sym0
        <5>1. books'[sym] = new /\ books[sym] = bk /\ ~(t = s0 /\ x = p0)
          BY <1>2, <1>7, <2>4, <4>1
        <5>2. x \in DOMAIN new.level[t] /\ new.level[t][x].orders = <<>>
          BY <5>1
        <5>3. x \in DOMAIN bk.level[t] /\ new.level[t][x] = bk.level[t][x]
          BY <1>4, <5>1, <5>2
        <5> QED BY <5>1, <5>2, <5>3
      <4>2. CASE sym # sym0
        BY <1>7, <4>2
      <4> QED BY <4>1, <4>2
    <3>2. sym = Taker.symbol /\ t = MakerSide /\ x = SweepPrice
      BY <3>1 DEF Inv, NoStaleLevel
    <3> QED BY <2>4, <3>2 DEF sym0, s0, p0
  <2> QED BY <2>3, <2>4
<1>18. StatusMatchesFills'
  <2>1. \A y \in DOMAIN orders' : y \in {a, m} \/ (y \in DOMAIN orders /\ orders'[y] = orders[y])
    BY <1>6
  <2>2. \A y \in {a, m} :
           /\ orders'[y].status \in {"FILLED", "PARTIALLY_FILLED"}
           /\ orders'[y].filled_qty <= orders'[y].quantity
           /\ orders'[y].status = "PARTIALLY_FILLED" =>
                 orders'[y].filled_qty > 0 /\ orders'[y].filled_qty < orders'[y].quantity
           /\ orders'[y].status = "FILLED" => orders'[y].filled_qty = orders'[y].quantity
    BY <1>8
  <2> QED BY <2>1, <2>2 DEF Inv, StatusMatchesFills
<1>19. QED
  BY <1>9, <1>10, <1>13, <1>14, <1>16, <1>17, <1>18 DEF Inv

----------------------------------------------------------------------------
(* A step that changes only one book: what has to be shown of the new one. *)
LEMMA OneBookStep ==
    ASSUME Inv, NEW sym0 \in Symbol, NEW bk, BookInv(bk),
           books' = [books EXCEPT ![sym0] = bk],
           orders' = orders, UNCHANGED metrics, orders_processed' = orders_processed,
           aggressor' \in {aggressor, NoOrder},
           \A t \in Side : \A y, x : RestsAt(bk, y, t, x) =>
              /\ y \in DOMAIN orders /\ y # aggressor'
              /\ MayRestAt(orders[y], sym0, t, x),
           NoStaleLevel'
    PROVE  Inv'
<1>1. /\ books' = [x \in Symbol |-> books'[x]]
      /\ books'[sym0] = bk
      /\ \A x \in Symbol : x # sym0 => books'[x] = books[x]
  <2>1. books = [x \in Symbol |-> books[x]]
    BY DEF Inv, TypeOK
  <2> QED BY <2>1, Zenon
<1>2. \A x \in Symbol : BookInv(books'[x])
  BY <1>1 DEF Inv
<1>3. TypeOK'
  <2>1. \A x \in Symbol : IsBook(books'[x])
    BY <1>2 DEF BookInv
  <2> QED BY <1>1, <2>1 DEF Inv, TypeOK, metrics
<1>4. ASSUME NEW sym \in Symbol, NEW t \in Side, NEW x, NEW y,
             RestsAt(books'[sym], y, t, x)
      PROVE  y \in DOMAIN orders /\ y # aggressor' /\ MayRestAt(orders[y], sym, t, x)
  <2>1. CASE sym = sym0
    BY <1>1, <1>4, <2>1
  <2>2. CASE sym # sym0
    <3>1. RestsAt(books[sym], y, t, x)
      BY <1>1, <1>4, <2>2
    <3>2. y \in DOMAIN orders /\ y # aggressor /\ MayRestAt(orders[y], sym, t, x)
      BY <3>1, RestingOrder
    <3>3. y # NoOrder
      BY <3>2, OrderTypes
    <3> QED BY <3>2, <3>3
  <2> QED BY <2>1, <2>2
<1>5. RestingOrdersLive'
  BY <1>4, LiveIffRests DEF RestingOrdersLive
<1>6. TakerAway'
  BY <1>4 DEF TakerAway
<1>7. TakerOpen'
  BY DEF Inv, TakerOpen, Taker
<1>8. StatusMatchesFills'
  BY DEF Inv, StatusMatchesFills
<1>9. QED
  BY <1>2, <1>3, <1>5, <1>6, <1>7, <1>8 DEF Inv

(* EraseLevel: only the one empty level goes. *)
LEMMA EraseLevelStep ==
    ASSUME Inv, EraseLevel
    PROVE  Inv'
<1> DEFINE sym0 == Taker.symbol
           s0   == MakerSide
           p0   == SweepPrice
           bk   == TakerBook
           new  == EraseLevelOf(bk, s0, p0)
<1>1. /\ aggressor # NoOrder /\ LevelSpent
      /\ books' = [books EXCEPT ![sym0] = new]
      /\ orders' = orders /\ aggressor' = aggressor
      /\ orders_processed' = orders_processed
      /\ UNCHANGED metrics
  BY DEF EraseLevel
<1>2. /\ sym0 \in Symbol
      /\ s0 \in Side
      /\ BookInv(bk)
      /\ bk = books[sym0]
      /\ p0 \in DOMAIN bk.level[s0]
  BY <1>1, SweepFacts DEF LevelSpent, TakerBook
<1>3. bk.level[s0][p0].orders = <<>>
  BY <1>1 DEF LevelSpent, SweepLevel, BestLevel, SweepPrice
<1>4. /\ BookInv(new)
      /\ \A y, t, x : t \in Side /\ RestsAt(new, y, t, x) => RestsAt(bk, y, t, x)
      /\ \A t \in Side : \A x \in DOMAIN new.level[t] :
            /\ ~(t = s0 /\ x = p0)
            /\ x \in DOMAIN bk.level[t] /\ new.level[t][x] = bk.level[t][x]
  <2> HIDE DEF s0, p0, bk
  <2> QED BY <1>2, <1>3, EraseLevelInv
<1> HIDE DEF sym0, s0, p0, bk, new
<1>5. \A t \in Side : \A y, x : RestsAt(new, y, t, x) =>
         /\ y \in DOMAIN orders /\ y # aggressor'
         /\ MayRestAt(orders[y], sym0, t, x)
  <2> TAKE t \in Side
  <2> TAKE y, x
  <2> HAVE RestsAt(new, y, t, x)
  <2>1. RestsAt(books[sym0], y, t, x)
    BY <1>2, <1>4
  <2> QED BY <1>1, <1>2, <2>1, RestingOrder
<1>6. /\ books'[sym0] = new
      /\ \A x \in Symbol : x # sym0 => books'[x] = books[x]
  <2>1. books = [x \in Symbol |-> books[x]]
    BY DEF Inv, TypeOK
  <2> QED BY <1>1, <1>2, <2>1, Zenon
<1>7. NoStaleLevel'
  <2> SUFFICES ASSUME NEW sym \in Symbol, NEW t \in Side,
                      NEW x \in DOMAIN books'[sym].level[t],
                      books'[sym].level[t][x].orders = <<>>
               PROVE  FALSE
    BY DEF NoStaleLevel
  <2>1. x \in DOMAIN books[sym].level[t] /\ books[sym].level[t][x].orders = <<>>
    <3>1. CASE sym = sym0
      <4>1. x \in DOMAIN new.level[t] /\ new.level[t][x].orders = <<>>
        BY <1>6, <3>1
      <4>2. x \in DOMAIN bk.level[t] /\ new.level[t][x] = bk.level[t][x]
        BY <1>4, <4>1
      <4> QED BY <1>2, <3>1, <4>1, <4>2
    <3>2. CASE sym # sym0
      BY <1>6, <3>2
    <3> QED BY <3>1, <3>2
  <2>2. sym = sym0 /\ t = s0 /\ x = p0
    BY <2>1 DEF Inv, NoStaleLevel, sym0, s0, p0
  <2> QED BY <1>4, <1>6, <2>2
<1>8. QED
  BY <1>1, <1>2, <1>4, <1>5, <1>7, OneBookStep

(* Between two calls no level is empty. *)
LEMMA NoStaleWhenIdle ==
    ASSUME Inv, aggressor = NoOrder, NEW sym \in Symbol, NEW s \in Side,
           NEW p \in DOMAIN books[sym].level[s]
    PROVE  books[sym].level[s][p].orders # <<>>
BY DEF Inv, NoStaleLevel

(* CancelOrder: the book drops one order. *)
LEMMA CancelOrderStep ==
    ASSUME Inv, NEW sym0 \in Symbol, NEW id, CancelOrder(sym0, id)
    PROVE  Inv'
<1> DEFINE bk  == books[sym0]
           new == CancelInBook(bk, orders, id)
<1>1. /\ aggressor = NoOrder
      /\ id \in DOMAIN bk.order_index
      /\ books' = [books EXCEPT ![sym0] = new]
      /\ orders' = orders /\ aggressor' = aggressor
      /\ orders_processed' = orders_processed
      /\ UNCHANGED metrics
  BY DEF CancelOrder
<1>2. BookInv(bk)
  BY DEF Inv
<1>3. \A t \in Side : \A x \in DOMAIN bk.level[t] :
         \A j \in DOMAIN bk.level[t][x].orders :
            Remaining(orders[bk.level[t][x].orders[j]]) \in Int
  <2> TAKE t \in Side
  <2> TAKE x \in DOMAIN bk.level[t]
  <2> TAKE j \in DOMAIN bk.level[t][x].orders
  <2>1. RestsAt(bk, bk.level[t][x].orders[j], t, x)
    BY DEF RestsAt
  <2>2. bk.level[t][x].orders[j] \in DOMAIN orders
    BY <2>1, RestingOrder
  <2>3. Remaining(orders[bk.level[t][x].orders[j]]) \in Nat
    BY <2>2, OrderTypes
  <2> QED BY <2>3
<1>4. /\ BookInv(new)
      /\ \A y, t, x : RestsAt(new, y, t, x) /\ t \in Side => RestsAt(bk, y, t, x)
      /\ \A t \in Side : \A x \in DOMAIN new.level[t] :
            \/ new.level[t][x].orders # <<>>
            \/ x \in DOMAIN bk.level[t] /\ new.level[t][x] = bk.level[t][x]
  <2> HIDE DEF bk
  <2> QED BY <1>1, <1>2, <1>3, CancelInBookInv
<1> HIDE DEF new
<1>5. \A t \in Side : \A y, x : RestsAt(new, y, t, x) =>
         /\ y \in DOMAIN orders /\ y # aggressor'
         /\ MayRestAt(orders[y], sym0, t, x)
  <2> TAKE t \in Side
  <2> TAKE y, x
  <2> HAVE RestsAt(new, y, t, x)
  <2>1. RestsAt(books[sym0], y, t, x)
    BY <1>4
  <2> QED BY <1>1, <2>1, RestingOrder
<1>6. /\ books'[sym0] = new
      /\ \A x \in Symbol : x # sym0 => books'[x] = books[x]
  <2>1. books = [x \in Symbol |-> books[x]]
    BY DEF Inv, TypeOK
  <2> QED BY <1>1, <2>1, Zenon
<1>7. NoStaleLevel'
  <2> SUFFICES ASSUME NEW sym \in Symbol, NEW t \in Side,
                      NEW x \in DOMAIN books'[sym].level[t]
               PROVE  books'[sym].level[t][x].orders # <<>>
    BY DEF NoStaleLevel
  <2>1. CASE sym = sym0
    <3>1. x \in DOMAIN new.level[t]
      BY <1>6, <2>1
    <3>2. \/ new.level[t][x].orders # <<>>
          \/ x \in DOMAIN books[sym].level[t] /\ new.level[t][x] = books[sym].level[t][x]
      BY <1>4, <2>1, <3>1
    <3> QED BY <1>1, <1>6, <2>1, <3>2, NoStaleWhenIdle
  <2>2. CASE sym # sym0
    BY <1>1, <1>6, <2>2, NoStaleWhenIdle
  <2> QED BY <2>1, <2>2
<1>8. QED
  BY <1>1, <1>4, <1>5, <1>7, OneBookStep

(* When the loops end nothing on the other side crosses what is left. *)
LEMMA SweptClean ==
    ASSUME Inv, aggressor # NoOrder, ~MayFill, Remaining(Taker) > 0,
           Taker.type = "LIMIT"
    PROVE  /\ Taker.side = "BUY" =>
                 \A x \in DOMAIN TakerBook.level["SELL"] : Taker.price < x
           /\ Taker.side = "SELL" =>
                 \A x \in DOMAIN TakerBook.level["BUY"] : x < Taker.price
<1>1. Taker.price \in Nat
  BY SweepFacts, OrderTypes, MaxPriceAssumption DEF Taker, Price
<1>2. \A t \in Side : \A x \in DOMAIN TakerBook.level[t] : x \in Nat
  <2>1. IsBook(TakerBook)
    BY SweepFacts
  <2>2. Price \subseteq Nat
    BY MaxPriceAssumption DEF Price
  <2> QED BY <2>1, <2>2, QueueProperties
<1>3. CASE ~HasLevels(TakerBook, MakerSide)
  BY <1>3, SweepFacts DEF HasLevels, Side
<1>4. CASE HasLevels(TakerBook, MakerSide)
  <2>1. ~Crosses(Taker, SweepPrice)
    BY <1>4 DEF MayFill
  <2>2. SweepPrice \in Nat
    BY <1>2, <1>4, SweepFacts
  <2>3. CASE Taker.side = "BUY"
    <3>1. MakerSide = "SELL" /\ SweepPrice > Taker.price
      BY <1>1, <2>1, <2>2, <2>3, SweepFacts DEF Crosses
    <3>2. \A x \in DOMAIN TakerBook.level["SELL"] : x >= SweepPrice
      BY <1>4, <3>1, SweepFacts
    <3>3. \A x \in DOMAIN TakerBook.level["SELL"] : x \in Nat
      BY <1>2 DEF Side
    <3> QED BY <1>1, <2>2, <2>3, <3>1, <3>2, <3>3
  <2>4. CASE Taker.side = "SELL"
    <3>1. MakerSide = "BUY" /\ SweepPrice < Taker.price
      BY <1>1, <2>1, <2>2, <2>4, SweepFacts DEF Crosses, Side
    <3>2. \A x \in DOMAIN TakerBook.level["BUY"] : x <= SweepPrice
      BY <1>4, <3>1, SweepFacts
    <3>3. \A x \in DOMAIN TakerBook.level["BUY"] : x \in Nat
      BY <1>2 DEF Side
    <3> QED BY <1>1, <2>2, <2>4, <3>1, <3>2, <3>3
  <2> QED BY <2>3, <2>4, SweepFacts DEF Side
<1>5. QED
  BY <1>3, <1>4

(* When the loops end the emptied level, if any, has been erased. *)
LEMMA SweptLevels ==
    ASSUME Inv, ~LevelSpent
    PROVE  \A sym \in Symbol : \A t \in Side : \A x \in DOMAIN books[sym].level[t] :
              books[sym].level[t][x].orders # <<>>
<1> SUFFICES ASSUME NEW sym \in Symbol, NEW t \in Side,
                    NEW x \in DOMAIN books[sym].level[t],
                    books[sym].level[t][x].orders = <<>>
             PROVE  FALSE
  OBVIOUS
<1>1. sym = Taker.symbol /\ t = MakerSide /\ x = SweepPrice
  BY DEF Inv, NoStaleLevel
<1>2. LevelSpent
  BY <1>1 DEF LevelSpent, HasLevels, SweepLevel, BestLevel, SweepPrice, TakerBook
<1>3. QED
  BY <1>2

(* Finish, the remainder rests. *)
LEMMA FinishRestsStep ==
    ASSUME Inv, Finish, RestsRemainder
    PROVE  Inv'
<1> DEFINE a    == aggressor
           sym0 == Taker.symbol
           bk   == TakerBook
           s    == orders[a].side
           p    == orders[a].price
           new  == AddLimitOrder(bk, orders, a)
<1>1. /\ a # NoOrder /\ ~LevelSpent /\ ~MayFill
      /\ books' = [books EXCEPT ![sym0] = new]
      /\ orders' = orders /\ aggressor' = NoOrder
      /\ orders_processed' = orders_processed
      /\ UNCHANGED metrics
  BY DEF Finish
<1>2. /\ Remaining(Taker) > 0 /\ Taker.type = "LIMIT" /\ Taker.tif = "GTC"
      /\ IsActive(Taker)
  BY DEF RestsRemainder, Leftover
<1>3. /\ a \in DOMAIN orders /\ sym0 \in Symbol
      /\ BookInv(bk) /\ bk = books[sym0]
  BY <1>1, SweepFacts DEF TakerBook
<1>4. /\ a \in Order /\ a # NoOrder
      /\ s \in Side /\ p \in Price /\ Remaining(orders[a]) \in Int
  BY <1>3, OrderTypes
<1>5. MayRestAt(orders[a], sym0, s, p)
  BY <1>2 DEF MayRestAt, Taker
<1>6. /\ s = "BUY"  => \A x \in DOMAIN bk.level["SELL"] : p < x
      /\ s = "SELL" => \A x \in DOMAIN bk.level["BUY"] : x < p
  BY <1>1, <1>2, SweptClean DEF Taker
<1>7. \A t \in Side : \A x \in DOMAIN bk.level[t] : ~RestsAt(bk, a, t, x)
  BY <1>3 DEF Inv, TakerAway
<1> HIDE DEF sym0, bk
<1>8. /\ BookInv(new)
      /\ \A t \in Side : \A x \in DOMAIN new.level[t] :
            \/ t = s /\ x = p /\ new.level[t][x].orders # <<>>
            \/ x \in DOMAIN bk.level[t] /\ new.level[t][x] = bk.level[t][x]
      /\ \A y, t, x : RestsAt(new, y, t, x) /\ t \in Side
            => RestsAt(bk, y, t, x) \/ (y = a /\ t = s /\ x = p)
  <2> HIDE DEF a
  <2> QED BY <1>3, <1>4, <1>6, <1>7, AddLimitOrderInv
<1> HIDE DEF new, s, p, a
<1>9. \A t \in Side : \A y, x : RestsAt(new, y, t, x) =>
         /\ y \in DOMAIN orders /\ y # aggressor'
         /\ MayRestAt(orders[y], sym0, t, x)
  <2> TAKE t \in Side
  <2> TAKE y, x
  <2> HAVE RestsAt(new, y, t, x)
  <2>1. y \in DOMAIN orders /\ MayRestAt(orders[y], sym0, t, x)
    <3>1. CASE RestsAt(bk, y, t, x)
      BY <1>3, <3>1, RestingOrder
    <3>2. CASE y = a /\ t = s /\ x = p
      BY <1>3, <1>5, <3>2
    <3> QED BY <1>8, <3>1, <3>2
  <2> QED BY <1>1, <2>1, OrderTypes
<1>10. /\ books'[sym0] = new
       /\ \A x \in Symbol : x # sym0 => books'[x] = books[x]
  <2>1. books = [x \in Symbol |-> books[x]]
    BY DEF Inv, TypeOK
  <2> QED BY <1>1, <1>3, <2>1, Zenon
<1>11. \A sym \in Symbol : \A t \in Side : \A x \in DOMAIN books[sym].level[t] :
          books[sym].level[t][x].orders # <<>>
  BY <1>1, SweptLevels
<1>12. NoStaleLevel'
  <2> SUFFICES ASSUME NEW sym \in Symbol, NEW t \in Side,
                      NEW x \in DOMAIN books'[sym].level[t]
               PROVE  books'[sym].level[t][x].orders # <<>>
    BY DEF NoStaleLevel
  <2> QED BY <1>3, <1>8, <1>10, <1>11
<1>13. QED
  BY <1>1, <1>3, <1>8, <1>9, <1>12, OneBookStep

(* Finish, the remainder is cancelled or there is none. *)
LEMMA FinishDropsStep ==
    ASSUME Inv, Finish, ~RestsRemainder
    PROVE  Inv'
<1> DEFINE a == aggressor
<1>1. /\ a # NoOrder /\ ~LevelSpent
      /\ books' = books
      /\ aggressor' = NoOrder
      /\ orders_processed' = orders_processed
      /\ UNCHANGED metrics
      /\ orders' = IF Leftover THEN [orders EXCEPT ![a].status = "CANCELLED"]
                   ELSE orders
  BY DEF Finish
<1>2. a \in DOMAIN orders
  BY <1>1, SweepFacts
<1> HIDE DEF a
<1>3. /\ DOMAIN orders' = DOMAIN orders
      /\ orders' = [x \in DOMAIN orders |-> orders'[x]]
      /\ \A x \in DOMAIN orders : x # a => orders'[x] = orders[x]
      /\ orders'[a] = IF Leftover THEN [orders[a] EXCEPT !.status = "CANCELLED"]
                      ELSE orders[a]
  <2>1. orders = [x \in DOMAIN orders |-> orders[x]]
    BY DEF Inv, TypeOK, IsMap
  <2> QED BY <1>1, <1>2, <2>1
<1>4. /\ orders[a] \in OrderRecord
      /\ orders[a].quantity \in Nat /\ orders[a].filled_qty \in Nat
      /\ orders[a].filled_qty <= orders[a].quantity
  BY <1>2, OrderTypes
<1>5. /\ orders'[a] \in OrderRecord
      /\ orders'[a].quantity = orders[a].quantity
      /\ orders'[a].filled_qty = orders[a].filled_qty
      /\ orders'[a].status = IF Leftover THEN "CANCELLED" ELSE orders[a].status
  BY <1>3, <1>4 DEF OrderRecord, OrderStatus
<1>6. TypeOK'
  <2>1. IsMap(orders', Order, OrderRecord)
    BY <1>3, <1>5 DEF Inv, TypeOK, IsMap
  <2> QED BY <1>1, <2>1 DEF Inv, TypeOK, metrics
<1>7. \A x \in Symbol : BookInv(books'[x])
  BY <1>1 DEF Inv
<1>8. RestingOrdersLive'
  <2> SUFFICES ASSUME NEW sym \in Symbol
               PROVE  QueuedAreLive(books'[sym], orders', sym)
    BY DEF RestingOrdersLive
  <2>1. \A t \in Side : \A y, x : RestsAt(books[sym], y, t, x)
           => y \in DOMAIN orders' /\ MayRestAt(orders'[y], sym, t, x)
    BY <1>3, RestingOrder DEF a
  <2> QED BY <1>1, <2>1, LiveIffRests
<1>9. TakerAway'
  <2> SUFFICES ASSUME NEW sym \in Symbol, NEW s \in Side, NEW p,
                      RestsAt(books[sym], NoOrder, s, p)
               PROVE  FALSE
    BY <1>1 DEF TakerAway
  <2>1. NoOrder \in DOMAIN orders
    BY RestingOrder
  <2> QED BY <2>1, OrderTypes
<1>10. TakerOpen'
  BY <1>1 DEF TakerOpen
<1>11. NoStaleLevel'
  BY <1>1, SweptLevels DEF NoStaleLevel
<1>12. StatusMatchesFills'
  <2>1. Leftover => orders[a].filled_qty < orders[a].quantity
    BY <1>4 DEF Leftover, Remaining, Taker, a
  <2>2. \A y \in DOMAIN orders' : y # a => orders'[y] = orders[y]
    BY <1>3
  <2>3. CASE Leftover
    BY <1>3, <1>4, <1>5, <2>1, <2>2, <2>3 DEF Inv, StatusMatchesFills
  <2>4. CASE ~Leftover
    <3>1. orders' = orders
      BY <1>1, <2>4
    <3> QED BY <3>1 DEF Inv, StatusMatchesFills
  <2> QED BY <2>3, <2>4
<1>13. QED
  BY <1>6, <1>7, <1>8, <1>9, <1>10, <1>11, <1>12 DEF Inv

----------------------------------------------------------------------------
(* Every step of the engine preserves the invariant. *)
LEMMA NextInv ==
    ASSUME Inv, [Next]_vars
    PROVE  Inv'
<1>1. ASSUME NEW o \in Order, NEW in \in Input, SubmitOrder(o, in)
      PROVE  Inv'
  BY <1>1, InputAssumption, SubmitOrderStep
<1>2. ASSUME NEW sym \in Symbol, NEW id \in OrderId, CancelOrder(sym, id)
      PROVE  Inv'
  BY <1>2, CancelOrderStep
<1>3. CASE ExecuteFill
  BY <1>3, ExecuteFillStep
<1>4. CASE EraseLevel
  BY <1>4, EraseLevelStep
<1>5. CASE Finish
  BY <1>5, FinishRestsStep, FinishDropsStep
<1>6. CASE UNCHANGED vars
  BY <1>6 DEF vars, metrics, Inv, TypeOK, RestingOrdersLive, TakerAway, TakerOpen,
              NoStaleLevel, StatusMatchesFills, Taker, MakerSide, SweepPrice, TakerBook
<1>7. QED
  BY <1>1, <1>2, <1>3, <1>4, <1>5, <1>6 DEF Next, EngineStep

(* The invariant holds in every reachable state, for every set of orders   *)
(* and ids, every set of symbols and every input.                          *)
THEOREM Invariance == Spec => []Inv
<1>1. Init => Inv
  BY InitInv
<1>2. Inv /\ [Next]_vars => Inv'
  BY NextInv
<1>3. QED
  BY <1>1, <1>2, PTL DEF Spec

(* Type correctness: in particular filled_qty + fill_qty never leaves      *)
(* uint32_t in execute_fill.                                               *)
THEOREM TypeCorrect == Spec => []TypeOK
<1>1. Inv => TypeOK
  BY DEF Inv
<1>2. QED
  BY <1>1, Invariance, PTL

(* The books are consistent in every state, also between two fills of one  *)
(* submit_order call: order_index and the deques hold the same orders, as  *)
(* long as no two orders carry one id.                                     *)
THEOREM BooksConsistent ==
    ASSUME UniqueOrderIds
    PROVE  Spec => []IndexConsistent
<1>1. Inv => IndexConsistent
  BY UniqueIndexed DEF Inv, IndexConsistent
<1>2. QED
  BY <1>1, Invariance, PTL

(* No deque holds an order twice, and the order being matched is in none,  *)
(* so execute_fill never trades an order with itself.                      *)
THEOREM OrdersRestOnce == Spec => []RestsOnce
<1>1. Inv => RestsOnce
  BY InvImplies
<1>2. QED
  BY <1>1, Invariance, PTL

(* What rests can trade where it rests: remove_order and execute_fill      *)
(* leave no filled, market, IOC or FOK order behind.                       *)
THEOREM RestingStaysLive == Spec => []RestingOrdersLive
<1>1. Inv => RestingOrdersLive
  BY DEF Inv
<1>2. QED
  BY <1>1, Invariance, PTL

(* best_bid and best_ask are never stale: an empty level is only the one   *)
(* the sweep in progress is about to erase.                                *)
THEOREM NoLevelGoesStale == Spec => []NoStaleLevel
<1>1. Inv => NoStaleLevel
  BY DEF Inv
<1>2. QED
  BY <1>1, Invariance, PTL

(* No book is crossed or locked, between two fills of a sweep included.    *)
THEOREM NeverCrossed == Spec => []Uncrossed
<1>1. Inv => Uncrossed
  BY InvImplies
<1>2. QED
  BY <1>1, Invariance, PTL

(* No order trades more than its quantity, and its status tells how much   *)
(* it has traded.                                                          *)
THEOREM NeverOverfilled == Spec => []StatusMatchesFills
<1>1. Inv => StatusMatchesFills
  BY DEF Inv
<1>2. QED
  BY <1>1, Invariance, PTL

----------------------------------------------------------------------------
(* The aggressor that still has quantity left is not in a final state. *)
LEMMA TakerNotFinal ==
    ASSUME Inv, aggressor # NoOrder, Remaining(Taker) > 0
    PROVE  ~Final(Taker)
<1>1. aggressor \in DOMAIN orders
  BY SweepFacts
<1>2. /\ orders[aggressor].filled_qty \in Nat /\ orders[aggressor].quantity \in Nat
  BY <1>1, OrderTypes
<1>3. Taker.filled_qty # Taker.quantity
  BY <1>2 DEF Remaining, Taker
<1>4. Taker.status # "FILLED"
  BY <1>1, <1>3 DEF Inv, StatusMatchesFills, Taker
<1>5. QED
  BY <1>4 DEF Inv, TakerOpen, Final

(* A step that leaves every order object as it is. *)
LEMMA SameOrdersFinal ==
    ASSUME Inv, \A o \in DOMAIN orders : o \in DOMAIN orders' /\ orders'[o] = orders[o]
    PROVE  FinalStep
<1>1. \A o \in DOMAIN orders : orders[o].filled_qty \in Nat
  BY OrderTypes
<1>2. QED
  BY <1>1 DEF FinalStep

(* The engine never takes a fill back and never touches an order that is   *)
(* FILLED, CANCELLED or REJECTED.                                          *)
THEOREM FinalStatusKept == Spec => FinalIsFinal
<1>1. ASSUME Inv, [Next]_vars
      PROVE  [FinalStep]_vars
  <2>1. ASSUME NEW o \in Order, NEW in \in Input, SubmitOrder(o, in)
        PROVE  FinalStep
    <3>1. \A x \in DOMAIN orders : x \in DOMAIN orders' /\ orders'[x] = orders[x]
      BY <2>1 DEF SubmitOrder, Enter, Put
    <3> QED BY <1>1, <3>1, SameOrdersFinal
  <2>2. ASSUME NEW sym \in Symbol, NEW id \in OrderId, CancelOrder(sym, id)
        PROVE  FinalStep
    <3>1. orders' = orders
      BY <2>2 DEF CancelOrder
    <3> QED BY <1>1, <3>1, SameOrdersFinal
  <2>3. CASE ExecuteFill
    <3>1. aggressor # NoOrder /\ MayFill /\ ~LevelSpent /\ Remaining(Taker) > 0
      BY <2>3 DEF ExecuteFill, MayFill
    <3> DEFINE a == aggressor
               m == Maker
               q == FillQty
    <3>2. /\ orders' = [orders EXCEPT ![a] = Filled(orders[a], q),
                                      ![m] = Filled(orders[m], q)]
      BY <2>3 DEF ExecuteFill, Taker
    <3>3. a \in DOMAIN orders /\ m \in DOMAIN orders /\ a # m
      BY <1>1, <3>1, SweepFacts, FillFacts
    <3>4. q \in Nat
      BY <1>1, <3>1, FillFacts
    <3>5. ~Final(orders[a])
      BY <1>1, <3>1, TakerNotFinal DEF Taker
    <3>6. ~Final(orders[m])
      <4>1. MayRestAt(orders[m], Taker.symbol, MakerSide, SweepPrice)
        BY <1>1, <3>1, FillFacts
      <4> QED BY <4>1 DEF MayRestAt, IsActive, Final
    <3> HIDE DEF a, m, q
    <3>7. /\ DOMAIN orders' = DOMAIN orders
          /\ orders'[a] = Filled(orders[a], q)
          /\ orders'[m] = Filled(orders[m], q)
          /\ \A x \in DOMAIN orders : x # a /\ x # m => orders'[x] = orders[x]
      BY <3>2, <3>3
    <3>8. \A x \in DOMAIN orders : orders[x] \in OrderRecord /\ orders[x].filled_qty \in Nat
      BY <1>1, OrderTypes
    <3>9. \A x \in {a, m} : orders'[x].filled_qty = orders[x].filled_qty + q
      <4>1. ASSUME NEW r \in OrderRecord
            PROVE  Filled(r, q).filled_qty = r.filled_qty + q
        BY DEF Filled, OrderRecord
      <4> QED BY <3>3, <3>7, <3>8, <4>1
    <3>10. \A x \in DOMAIN orders : orders'[x].filled_qty >= orders[x].filled_qty
      BY <3>3, <3>4, <3>7, <3>8, <3>9
    <3> QED BY <3>5, <3>6, <3>7, <3>10 DEF FinalStep
  <2>4. CASE EraseLevel
    <3>1. orders' = orders
      BY <2>4 DEF EraseLevel
    <3> QED BY <1>1, <3>1, SameOrdersFinal
  <2>5. CASE Finish
    <3>1. CASE Leftover /\ ~RestsRemainder
      <4>1. /\ orders' = [orders EXCEPT ![aggressor].status = "CANCELLED"]
            /\ aggressor # NoOrder
        BY <2>5, <3>1 DEF Finish
      <4>2. ~Final(orders[aggressor])
        BY <1>1, <3>1, <4>1, TakerNotFinal DEF Leftover, Taker
      <4>3. \A x \in DOMAIN orders : orders[x] \in OrderRecord /\ orders[x].filled_qty \in Nat
        BY <1>1, OrderTypes
      <4>4. \A x \in DOMAIN orders :
               /\ x \in DOMAIN orders'
               /\ orders'[x].filled_qty = orders[x].filled_qty
               /\ x # aggressor => orders'[x] = orders[x]
        BY <4>1, <4>3 DEF OrderRecord
      <4>5. \A x \in DOMAIN orders : orders'[x].filled_qty >= orders[x].filled_qty
        BY <4>3, <4>4
      <4> QED BY <4>2, <4>4, <4>5 DEF FinalStep
    <3>2. CASE ~(Leftover /\ ~RestsRemainder)
      <4>1. orders' = orders
        BY <2>5, <3>2 DEF Finish
      <4> QED BY <1>1, <4>1, SameOrdersFinal
    <3> QED BY <3>1, <3>2
  <2>6. CASE UNCHANGED vars
    BY <2>6
  <2> QED BY <1>1, <2>1, <2>2, <2>3, <2>4, <2>5, <2>6 DEF Next, EngineStep
<1>2. QED
  BY <1>1, Invariance, PTL DEF Spec, FinalIsFinal

----------------------------------------------------------------------------
(* The quantities: level totals, volume and fill-or-kill orders.           *)

(* What rests in a book is backed by the order objects. *)
LEMMA BooksBacked ==
    ASSUME Inv, NEW sym \in Symbol
    PROVE  BookBacked(books[sym], orders)
<1> SUFFICES ASSUME NEW s \in Side, NEW p \in DOMAIN books[sym].level[s]
             PROVE  Backed(books[sym].level[s][p].orders, orders)
  BY DEF BookBacked
<1>1. IsBook(books[sym])
  BY DEF Inv, TypeOK
<1>2. books[sym].level[s][p].orders \in Seq(Order)
  BY <1>1, QueueProperties
<1>3. ASSUME NEW x \in ToSet(books[sym].level[s][p].orders)
      PROVE  x \in DOMAIN orders /\ Remaining(orders[x]) \in Int
  <2>1. RestsAt(books[sym], x, s, p)
    BY <1>1, RestsAtSet
  <2>2. x \in DOMAIN orders
    BY <2>1, RestingOrder
  <2>3. Remaining(orders[x]) \in Nat
    BY <2>2, OrderTypes
  <2> QED BY <2>2, <2>3
<1> QED BY <1>2, <1>3 DEF Backed

(* What execute_fill does: two objects change, one book changes. *)
LEMMA FillEffect ==
    ASSUME Inv, ExecuteFill
    PROVE  /\ aggressor' = aggressor
           /\ aggressor # NoOrder
           /\ DOMAIN orders' = DOMAIN orders
           /\ \A x \in {aggressor, Maker} :
                 /\ x \in DOMAIN orders
                 /\ orders'[x].filled_qty = orders[x].filled_qty + FillQty
                 /\ orders'[x].symbol = orders[x].symbol
                 /\ orders'[x].side = orders[x].side
                 /\ orders'[x].type = orders[x].type
                 /\ orders'[x].tif = orders[x].tif
                 /\ orders'[x].price = orders[x].price
                 /\ Remaining(orders'[x]) = Remaining(orders[x]) - FillQty
           /\ \A x \in DOMAIN orders :
                 x # aggressor /\ x # Maker => orders'[x] = orders[x]
           /\ books'[Taker.symbol] =
                 FillFront(TakerBook, MakerSide, SweepPrice, FillQty,
                           FillQty = Remaining(orders[Maker]))
           /\ \A x \in Symbol : x # Taker.symbol => books'[x] = books[x]
           /\ volume_traded' = volume_traded + FillQty
<1> DEFINE a == aggressor
           m == Maker
           q == FillQty
<1>1. /\ a # NoOrder /\ MayFill /\ ~LevelSpent /\ aggressor' = a
      /\ orders' = [orders EXCEPT ![a] = Filled(orders[a], q),
                                  ![m] = Filled(orders[m], q)]
      /\ volume_traded' = volume_traded + q
  BY DEF ExecuteFill, Taker
<1>2. a \in DOMAIN orders /\ m \in DOMAIN orders /\ m # a /\ Taker.symbol \in Symbol
  BY <1>1, SweepFacts, FillFacts
<1>3. q \in Nat
  BY <1>1, FillFacts
<1>4. \A x \in Symbol : books'[x] = IF x = Taker.symbol
                                    THEN FillFront(TakerBook, MakerSide, SweepPrice, q,
                                                   q = Remaining(orders[m]))
                                    ELSE books[x]
  <2>1. books = [x \in Symbol |-> books[x]]
    BY DEF Inv, TypeOK
  <2> DEFINE new  == FillFront(TakerBook, MakerSide, SweepPrice, q, q = Remaining(orders[m]))
             sym0 == Taker.symbol
  <2>2. books' = [books EXCEPT ![sym0] = new]
    BY DEF ExecuteFill
  <2>3. sym0 \in Symbol
    BY <1>2
  <2> HIDE DEF new, sym0
  <2>4. \A x \in Symbol : books'[x] = IF x = sym0 THEN new ELSE books[x]
    BY <2>1, <2>2, <2>3, Zenon
  <2> QED BY <2>4 DEF new, sym0
<1> HIDE DEF a, m, q
<1>5. /\ DOMAIN orders' = DOMAIN orders
      /\ orders'[a] = Filled(orders[a], q)
      /\ orders'[m] = Filled(orders[m], q)
      /\ \A x \in DOMAIN orders : x # a /\ x # m => orders'[x] = orders[x]
  BY <1>1, <1>2
<1>6. ASSUME NEW x \in {a, m}
      PROVE  /\ x \in DOMAIN orders
             /\ orders'[x].filled_qty = orders[x].filled_qty + q
             /\ orders'[x].symbol = orders[x].symbol
             /\ orders'[x].side = orders[x].side
             /\ orders'[x].type = orders[x].type
             /\ orders'[x].tif = orders[x].tif
             /\ orders'[x].price = orders[x].price
             /\ Remaining(orders'[x]) = Remaining(orders[x]) - q
  <2>1. /\ x \in DOMAIN orders /\ orders'[x] = Filled(orders[x], q)
    BY <1>2, <1>5
  <2>2. /\ orders[x] \in OrderRecord /\ orders[x].quantity \in Nat
        /\ orders[x].filled_qty \in Nat
    BY <2>1, OrderTypes
  <2> DEFINE r == orders[x]
             f == Filled(r, q)
  <2>3. /\ f.filled_qty = r.filled_qty + q /\ f.quantity = r.quantity
        /\ f.symbol = r.symbol /\ f.side = r.side /\ f.type = r.type
        /\ f.tif = r.tif /\ f.price = r.price
    BY <2>2 DEF Filled, OrderRecord
  <2> HIDE DEF r, f
  <2>4. Remaining(f) = Remaining(r) - q
    BY <1>3, <2>2, <2>3 DEF Remaining, r
  <2> QED BY <2>1, <2>3, <2>4 DEF r, f
<1> QED BY <1>1, <1>2, <1>4, <1>5, <1>6 DEF a, m, q

----------------------------------------------------------------------------
(* PriceLevel::total_qty. *)

LEMMA TotalsByBook ==
    LevelTotals <=> \A sym \in Symbol : BookAddsUp(books[sym], orders)
  BY DEF LevelTotals, BookAddsUp

(* A step that changes no object that rests, and at most one book. *)
LEMMA OneBookTotals ==
    ASSUME Inv, LevelTotals, orders' = orders, NEW sym0 \in Symbol, NEW bk,
           books' = [books EXCEPT ![sym0] = bk], BookAddsUp(bk, orders)
    PROVE  LevelTotals'
<1>1. books'[sym0] = bk /\ \A x \in Symbol : x # sym0 => books'[x] = books[x]
  <2>1. books = [x \in Symbol |-> books[x]]
    BY DEF Inv, TypeOK
  <2> QED BY <2>1, Zenon
<1>2. \A sym \in Symbol : BookAddsUp(books'[sym], orders')
  BY <1>1, TotalsByBook
<1> QED BY <1>2 DEF LevelTotals, BookAddsUp

LEMMA SubmitOrderTotals ==
    ASSUME Inv, Inv', LevelTotals, NEW o \in Order, NEW in \in OrderInput, SubmitOrder(o, in)
    PROVE  LevelTotals'
<1>1. books' = books /\ \A x \in DOMAIN orders : orders'[x] = orders[x]
  BY DEF SubmitOrder, Enter, Put
<1>2. ASSUME NEW sym \in Symbol PROVE BookAddsUp(books'[sym], orders')
  <2>1. BookBacked(books[sym], orders)
    BY BooksBacked
  <2>2. BookBacked(books[sym], orders')
    <3>1. \A s \in Side : \A p \in DOMAIN books[sym].level[s] : \A x :
             RestsAt(books[sym], x, s, p) => x \in DOMAIN orders /\ orders'[x] = orders[x]
      BY <1>1, RestingOrder
    <3>2. DOMAIN orders \subseteq DOMAIN orders'
      BY DEF SubmitOrder, Enter, Put
    <3> QED BY <1>1, <2>1, <3>2 DEF BookBacked, Backed
  <2>3. \A s \in Side : \A p \in DOMAIN books[sym].level[s] : \A x :
           RestsAt(books[sym], x, s, p) => Remaining(orders'[x]) = Remaining(orders[x])
    BY <1>1, RestingOrder
  <2>4. IsBook(books[sym]) /\ BookAddsUp(books[sym], orders)
    BY TotalsByBook DEF Inv, TypeOK
  <2> QED BY <1>1, <2>1, <2>2, <2>3, <2>4, SameOpenQtyAddsUp
<1> QED BY <1>2 DEF LevelTotals, BookAddsUp

LEMMA ExecuteFillTotals ==
    ASSUME Inv, Inv', LevelTotals, ExecuteFill
    PROVE  LevelTotals'
<1> DEFINE sym0 == Taker.symbol
           s0   == MakerSide
           p0   == SweepPrice
           m    == Maker
           a    == aggressor
           qty  == FillQty
           done == qty = Remaining(orders[m])
           bk   == TakerBook
<1>1. a # NoOrder /\ MayFill /\ ~LevelSpent
  BY DEF ExecuteFill
<1>2. /\ sym0 \in Symbol /\ s0 \in Side /\ bk = books[sym0] /\ BookInv(bk)
      /\ p0 \in DOMAIN bk.level[s0]
      /\ bk.level[s0][p0].orders # <<>>
      /\ m = Head(bk.level[s0][p0].orders)
      /\ m \in DOMAIN orders
      /\ MayRestAt(orders[m], sym0, s0, p0)
      /\ qty \in Int
  BY <1>1, SweepFacts, FillFacts DEF TakerBook
<1>3. /\ DOMAIN orders' = DOMAIN orders
      /\ Remaining(orders'[m]) = Remaining(orders[m]) - qty
      /\ \A x \in DOMAIN orders : x # a /\ x # m => orders'[x] = orders[x]
      /\ books'[sym0] = FillFront(bk, s0, p0, qty, done)
      /\ \A x \in Symbol : x # sym0 => books'[x] = books[x]
  BY FillEffect
<1>4. done \in BOOLEAN
  BY Zenon
<1>5. Remaining(orders[m]) \in Nat
  BY <1>2, OrderTypes
<1>6. done <=> Remaining(orders'[m]) = 0
  <2> DEFINE before == Remaining(orders[m])
             after  == Remaining(orders'[m])
  <2>1. after = before - qty /\ before \in Nat /\ qty \in Int
    BY <1>2, <1>3, <1>5
  <2> HIDE DEF qty, before, after
  <2>2. qty = before <=> after = 0
    BY <2>1
  <2> QED BY <2>2 DEF before, after
\* whatever rests and is not the maker is left alone
<1>7. ASSUME NEW sym \in Symbol, NEW t \in Side, NEW x, NEW y, RestsAt(books[sym], y, t, x)
      PROVE  /\ y \in DOMAIN orders
             /\ y # m => orders'[y] = orders[y]
             /\ y = m => sym = sym0 /\ t = s0 /\ x = p0
  <2>1. y \in DOMAIN orders /\ MayRestAt(orders[y], sym, t, x) /\ y # a
    BY <1>7, RestingOrder
  <2>2. y = m => sym = sym0 /\ t = s0 /\ x = p0
    BY <1>2, <2>1 DEF MayRestAt
  <2> QED BY <1>3, <2>1, <2>2
<1>8. ASSUME NEW sym \in Symbol
      PROVE  BookBacked(books[sym], orders) /\ BookBacked(books[sym], orders')
  <2>1. BookBacked(books[sym], orders)
    BY BooksBacked
  <2>2. \A y \in DOMAIN orders : Remaining(orders'[y]) \in Int
    <3>1. \A y \in DOMAIN orders' : Remaining(orders'[y]) \in Nat
      <4> TAKE y \in DOMAIN orders'
      <4>1. orders'[y] \in OrderRecord
        BY DEF Inv, TypeOK, IsMap
      <4>2. orders'[y].filled_qty <= orders'[y].quantity
        BY DEF Inv, StatusMatchesFills
      <4>3. orders'[y].filled_qty \in Nat /\ orders'[y].quantity \in Nat
        BY <4>1, U32Assumption DEF OrderRecord, UInt32
      <4> QED BY <4>2, <4>3 DEF Remaining
    <3> QED BY <1>3, <3>1
  <2>3. BookBacked(books[sym], orders')
    BY <1>3, <2>1, <2>2 DEF BookBacked, Backed
  <2> QED BY <2>1, <2>3
<1>9. \A sym \in Symbol : BookAddsUp(books[sym], orders) /\ IsBook(books[sym])
  BY TotalsByBook DEF Inv, TypeOK
<1> HIDE DEF sym0, s0, p0, m, a, qty, done, bk
<1>10. BookAddsUp(FillFront(bk, s0, p0, qty, done), orders')
  <2>1. BookAddsUp(bk, orders) /\ BookBacked(bk, orders) /\ BookBacked(bk, orders')
    BY <1>2, <1>8, <1>9
  <2>2. \A t \in Side : \A x \in DOMAIN bk.level[t] : \A y :
           RestsAt(bk, y, t, x) /\ y # m => Remaining(orders'[y]) = Remaining(orders[y])
    <3> TAKE t \in Side
    <3> TAKE x \in DOMAIN bk.level[t]
    <3> TAKE y
    <3> HAVE RestsAt(bk, y, t, x) /\ y # m
    <3>1. RestsAt(books[sym0], y, t, x) /\ sym0 \in Symbol
      BY <1>2
    <3>2. orders'[y] = orders[y]
      BY <1>7, <3>1
    <3> QED BY <3>2
  <2>3. \A t \in Side : \A x \in DOMAIN bk.level[t] :
           RestsAt(bk, m, t, x) => t = s0 /\ x = p0
    BY <1>2, <1>7
  <2>4. qty \in Int /\ done \in BOOLEAN /\ s0 \in Side /\ p0 \in DOMAIN bk.level[s0]
    BY <1>2, <1>4
  <2>5. /\ BookInv(bk) /\ bk.level[s0][p0].orders # <<>>
        /\ m = Head(bk.level[s0][p0].orders)
        /\ Remaining(orders'[m]) = Remaining(orders[m]) - qty
    BY <1>2, <1>3
  <2> DEFINE news == orders'
  <2> HIDE DEF news
  <2>6. BookAddsUp(FillFront(bk, s0, p0, qty, done), news)
    <3>1. BookBacked(bk, news) /\ Remaining(news[m]) = Remaining(orders[m]) - qty
      BY <2>1, <2>5 DEF news
    <3>2. done <=> Remaining(news[m]) = 0
      BY <1>6 DEF news
    <3>3. \A t \in Side : \A x \in DOMAIN bk.level[t] : \A o :
             RestsAt(bk, o, t, x) /\ o # m => Remaining(news[o]) = Remaining(orders[o])
      BY <2>2 DEF news
    <3>4. FrontFilled(bk, s0, p0, qty, done, orders, news)
      <4>1. \A t \in Side : \A x \in DOMAIN bk.level[t] :
               RestsAt(bk, m, t, x) => t = s0 /\ x = p0
        BY <2>3
      <4>2. /\ BookInv(bk) /\ BookAddsUp(bk, orders) /\ BookBacked(bk, orders)
            /\ bk.level[s0][p0].orders # <<>>
            /\ m = Head(bk.level[s0][p0].orders)
        BY <2>1, <2>5
      <4> QED BY <3>1, <3>2, <3>3, <4>1, <4>2 DEF FrontFilled
    <3> QED BY <2>4, <3>4, FillFrontAddsUp
  <2> QED BY <2>6 DEF news
<1>11. ASSUME NEW sym \in Symbol, sym # sym0
       PROVE  BookAddsUp(books[sym], orders')
  <2>1. \A t \in Side : \A x \in DOMAIN books[sym].level[t] : \A y :
           RestsAt(books[sym], y, t, x) => Remaining(orders'[y]) = Remaining(orders[y])
    BY <1>7, <1>11
  <2> QED BY <1>8, <1>9, <2>1, SameOpenQtyAddsUp
<1>12. \A sym \in Symbol : BookAddsUp(books'[sym], orders')
  BY <1>3, <1>10, <1>11
<1> QED BY <1>12 DEF LevelTotals, BookAddsUp

LEMMA EraseLevelTotals ==
    ASSUME Inv, LevelTotals, EraseLevel
    PROVE  LevelTotals'
<1> DEFINE sym0 == Taker.symbol
           s0   == MakerSide
           p0   == SweepPrice
           bk   == TakerBook
           new  == EraseLevelOf(bk, s0, p0)
<1>1. aggressor # NoOrder /\ LevelSpent /\ books' = [books EXCEPT ![sym0] = new]
      /\ orders' = orders
  BY DEF EraseLevel
<1>2. /\ sym0 \in Symbol /\ s0 \in Side /\ BookInv(bk) /\ bk = books[sym0]
      /\ p0 \in DOMAIN bk.level[s0]
  BY <1>1, SweepFacts DEF LevelSpent, TakerBook
<1>3. bk.level[s0][p0].orders = <<>>
  BY <1>1 DEF LevelSpent, SweepLevel, BestLevel, SweepPrice
<1> HIDE DEF sym0, s0, p0, bk
<1>4. \A t \in Side : \A x \in DOMAIN new.level[t] :
         x \in DOMAIN bk.level[t] /\ new.level[t][x] = bk.level[t][x]
  BY <1>2, <1>3, EraseLevelInv
<1> HIDE DEF new
<1>5. BookAddsUp(new, orders)
  BY <1>2, <1>4, TotalsByBook, FewerLevelsAddUp
<1> QED BY <1>1, <1>2, <1>5, OneBookTotals

LEMMA CancelOrderTotals ==
    ASSUME Inv, LevelTotals, NEW sym \in Symbol, NEW id, CancelOrder(sym, id)
    PROVE  LevelTotals'
<1> DEFINE new == CancelInBook(books[sym], orders, id)
<1>1. /\ id \in DOMAIN books[sym].order_index
      /\ books' = [books EXCEPT ![sym] = new] /\ orders' = orders
  BY DEF CancelOrder
<1>2. BookAddsUp(new, orders)
  BY <1>1, TotalsByBook, BooksBacked, CancelInBookAddsUp DEF Inv
<1> HIDE DEF new
<1> QED BY <1>1, <1>2, OneBookTotals

LEMMA FinishTotals ==
    ASSUME Inv, Inv', LevelTotals, Finish
    PROVE  LevelTotals'
<1> DEFINE a    == aggressor
           sym0 == Taker.symbol
           bk   == TakerBook
<1>1. a # NoOrder
  BY DEF Finish
<1>2. a \in DOMAIN orders /\ sym0 \in Symbol /\ bk = books[sym0] /\ IsBook(bk)
  BY <1>1, SweepFacts DEF TakerBook
<1>3. CASE RestsRemainder
  <2> DEFINE new == AddLimitOrder(bk, orders, a)
  <2>1. books' = [books EXCEPT ![sym0] = new] /\ orders' = orders
    BY <1>3 DEF Finish, RestsRemainder
  <2>2. /\ a \in Order /\ orders[a].side \in Side /\ orders[a].price \in Price
        /\ Remaining(orders[a]) \in Nat
    BY <1>2, OrderTypes
  <2>3. Remaining(orders[a]) \in Int
    BY <2>2
  <2>4. ~RestsAt(bk, a, orders[a].side, orders[a].price)
    BY <1>2, <2>2 DEF Inv, TakerAway
  <2>5. BookAddsUp(bk, orders) /\ BookBacked(bk, orders)
    BY <1>2, TotalsByBook, BooksBacked
  <2> HIDE DEF a, sym0, bk
  <2>6. BookAddsUp(new, orders)
    BY <1>2, <2>2, <2>3, <2>4, <2>5, AddLimitOrderAddsUp
  <2> HIDE DEF new
  <2> QED BY <1>2, <2>1, <2>6, OneBookTotals
<1>4. CASE ~RestsRemainder
  <2>1. books' = books
    BY <1>4 DEF Finish
  <2>2. /\ DOMAIN orders' = DOMAIN orders
        /\ \A x \in DOMAIN orders : Remaining(orders'[x]) = Remaining(orders[x])
    <3>1. \A x \in DOMAIN orders : orders[x] \in OrderRecord
      BY OrderTypes
    <3>2. orders' = orders \/ orders' = [orders EXCEPT ![aggressor].status = "CANCELLED"]
      BY DEF Finish
    <3>3. /\ DOMAIN orders' = DOMAIN orders
          /\ \A x \in DOMAIN orders : orders'[x].quantity = orders[x].quantity
                                      /\ orders'[x].filled_qty = orders[x].filled_qty
      BY <3>1, <3>2 DEF OrderRecord
    <3> QED BY <3>3 DEF Remaining
  <2>3. ASSUME NEW sym \in Symbol PROVE BookAddsUp(books[sym], orders')
    <3>1. BookBacked(books[sym], orders) /\ BookAddsUp(books[sym], orders) /\ IsBook(books[sym])
      BY BooksBacked, TotalsByBook DEF Inv, TypeOK
    <3>2. BookBacked(books[sym], orders')
      BY <2>2, <3>1 DEF BookBacked, Backed
    <3>3. \A t \in Side : \A x \in DOMAIN books[sym].level[t] : \A y :
             RestsAt(books[sym], y, t, x) => Remaining(orders'[y]) = Remaining(orders[y])
      BY <2>2, RestingOrder
    <3> QED BY <3>1, <3>2, <3>3, SameOpenQtyAddsUp
  <2> QED BY <2>1, <2>3 DEF LevelTotals, BookAddsUp
<1> QED BY <1>3, <1>4

LEMMA NextTotals ==
    ASSUME Inv, LevelTotals, [Next]_vars
    PROVE  LevelTotals'
<1>0. Inv'
  BY NextInv
<1>1. ASSUME NEW o \in Order, NEW in \in Input, SubmitOrder(o, in)
      PROVE  LevelTotals'
  BY <1>0, <1>1, InputAssumption, SubmitOrderTotals
<1>2. ASSUME NEW sym \in Symbol, NEW id \in OrderId, CancelOrder(sym, id)
      PROVE  LevelTotals'
  BY <1>2, CancelOrderTotals
<1>3. CASE ExecuteFill
  BY <1>0, <1>3, ExecuteFillTotals
<1>4. CASE EraseLevel
  BY <1>4, EraseLevelTotals
<1>5. CASE Finish
  BY <1>0, <1>5, FinishTotals
<1>6. CASE UNCHANGED vars
  BY <1>6 DEF vars, LevelTotals
<1> QED BY <1>1, <1>2, <1>3, <1>4, <1>5, <1>6 DEF Next, EngineStep

(* total_qty, kept by deltas in add_order, remove_order and execute_fill,  *)
(* is at every moment the sum of remaining() over the orders of its level, *)
(* for every sequence of submits, fills and cancels.                       *)
THEOREM TotalsAreSums == Spec => []LevelTotals
<1>1. Init => LevelTotals
  <2> SUFFICES ASSUME Init PROVE LevelTotals
    OBVIOUS
  <2>1. \A sym \in Symbol : BookAddsUp(books[sym], orders)
    BY EmptyBookAddsUp DEF Init
  <2> QED BY <2>1, TotalsByBook
<1>2. Inv /\ LevelTotals /\ [Next]_vars => LevelTotals'
  BY NextTotals
<1> QED BY <1>1, <1>2, Invariance, PTL DEF Spec

----------------------------------------------------------------------------
(* Conservation of shares. *)

(* FilledOn for given order objects. *)
FilledBy(ords) == [o \in DOMAIN ords |-> ords[o].filled_qty]
OrdersOn(ords, s) == {o \in DOMAIN ords : ords[o].side = s}

(* The objects are finitely many, each with a filled_qty. *)
Countable(ords) ==
    /\ IsFiniteSet(DOMAIN ords)
    /\ \A o \in DOMAIN ords : ords[o].filled_qty \in Int

LEMMA FilledType ==
    ASSUME NEW ords, Countable(ords), NEW s
    PROVE  /\ IsFiniteSet(OrdersOn(ords, s))
           /\ \A o \in OrdersOn(ords, s) : /\ FilledBy(ords)[o] = ords[o].filled_qty
                                           /\ FilledBy(ords)[o] \in Int
           /\ SumFunctionOnSet(FilledBy(ords), OrdersOn(ords, s)) \in Int
<1>1. OrdersOn(ords, s) \in SUBSET DOMAIN ords
  BY DEF OrdersOn
<1>2. IsFiniteSet(OrdersOn(ords, s))
  BY <1>1, FS_Subset DEF Countable
<1>3. \A o \in OrdersOn(ords, s) : /\ FilledBy(ords)[o] = ords[o].filled_qty
                                   /\ FilledBy(ords)[o] \in Int
  BY DEF Countable, OrdersOn, FilledBy
<1>4. \A o \in OrdersOn(ords, s) : FilledBy(ords)[o] \in Int
  BY <1>3
<1> QED BY <1>2, <1>3, <1>4, SumType

(* Nothing changes for a side whose orders keep their fills. *)
LEMMA FilledSame ==
    ASSUME NEW ords, Countable(ords), NEW news, NEW s,
           DOMAIN news = DOMAIN ords,
           \A o \in DOMAIN ords : /\ news[o].filled_qty = ords[o].filled_qty
                                  /\ news[o].side = ords[o].side
    PROVE  SumFunctionOnSet(FilledBy(news), OrdersOn(news, s))
             = SumFunctionOnSet(FilledBy(ords), OrdersOn(ords, s))
<1> DEFINE S == OrdersOn(ords, s)
           f == FilledBy(ords)
           g == FilledBy(news)
<1>1. OrdersOn(news, s) = S
  BY DEF OrdersOn
<1>2. IsFiniteSet(S) /\ \A o \in S : f[o] \in Int
  BY FilledType
<1>3. \A o \in S : g[o] = f[o]
  BY DEF OrdersOn, FilledBy
<1> HIDE DEF S, f, g
<1>4. SumFunctionOnSet(g, S) = SumFunctionOnSet(f, S)
  BY <1>2, <1>3, SumSame
<1> QED BY <1>1, <1>4 DEF S, f, g

(* One order of the side trades qty shares. *)
LEMMA FilledMore ==
    ASSUME NEW ords, Countable(ords), NEW news, Countable(news), NEW s, NEW qty \in Int,
           NEW x \in OrdersOn(ords, s),
           DOMAIN news = DOMAIN ords,
           \A o \in DOMAIN ords : news[o].side = ords[o].side,
           \A o \in OrdersOn(ords, s) : o # x => news[o].filled_qty = ords[o].filled_qty,
           news[x].filled_qty = ords[x].filled_qty + qty
    PROVE  SumFunctionOnSet(FilledBy(news), OrdersOn(news, s))
             = SumFunctionOnSet(FilledBy(ords), OrdersOn(ords, s)) + qty
<1> DEFINE S == OrdersOn(ords, s)
           f == FilledBy(ords)
           g == FilledBy(news)
           before == SumFunctionOnSet(f, S)
           after  == SumFunctionOnSet(g, S)
<1>1. OrdersOn(news, s) = S
  BY DEF OrdersOn
<1>2. IsFiniteSet(S) /\ before \in Int /\ (\A o \in S : f[o] = ords[o].filled_qty /\ f[o] \in Int)
  BY FilledType
<1>3. \A o \in S : g[o] = news[o].filled_qty /\ g[o] \in Int
  BY <1>1, FilledType
<1>4. x \in S
  OBVIOUS
<1>5. \A o \in S : o # x => g[o] = f[o]
  BY <1>2, <1>3
<1>6. g[x] = f[x] + qty /\ f[x] \in Int
  BY <1>2, <1>3, <1>4
<1> HIDE DEF S, f, g
<1>7. after = before + (g[x] - f[x])
  <2>1. \A o \in S : f[o] \in Int /\ g[o] \in Int
    BY <1>2, <1>3
  <2>2. IsFiniteSet(S)
    BY <1>2
  <2>3. SumFunctionOnSet(g, S) = SumFunctionOnSet(f, S) + (g[x] - f[x])
    BY <1>4, <1>5, <2>1, <2>2, SumChange
  <2> QED BY <2>3
<1> HIDE DEF before, after
<1>8. after = before + qty
  BY <1>2, <1>6, <1>7
<1> QED BY <1>1, <1>8 DEF S, f, g, before, after

(* A new order has traded nothing. *)
LEMMA FilledNew ==
    ASSUME NEW ords, Countable(ords), NEW news, NEW o, o \notin DOMAIN ords, NEW s,
           DOMAIN news = DOMAIN ords \union {o},
           \A y \in DOMAIN ords : news[y] = ords[y],
           news[o].filled_qty = 0
    PROVE  SumFunctionOnSet(FilledBy(news), OrdersOn(news, s))
             = SumFunctionOnSet(FilledBy(ords), OrdersOn(ords, s))
<1> DEFINE S == OrdersOn(ords, s)
           f == FilledBy(ords)
           g == FilledBy(news)
           before == SumFunctionOnSet(f, S)
           same   == SumFunctionOnSet(g, S)
<1>1. IsFiniteSet(S) /\ before \in Int /\ \A y \in S : f[y] \in Int
  BY FilledType
<1>2. (\A y \in S : g[y] = f[y]) /\ g[o] = 0 /\ o \notin S
  BY DEF OrdersOn, FilledBy
<1>3. OrdersOn(news, s) = IF news[o].side = s THEN S \union {o} ELSE S
  BY DEF OrdersOn
<1> HIDE DEF S, f, g
<1>4. same = before
  BY <1>1, <1>2, SumSame
<1>5. SumFunctionOnSet(g, S \union {o}) = same + g[o]
  <2>1. (\A y \in S : g[y] \in Int) /\ g[o] \in Int
    BY <1>1, <1>2
  <2>2. IsFiniteSet(S) /\ o \notin S
    BY <1>1, <1>2
  <2>3. SumFunctionOnSet(g, S \union {o}) = SumFunctionOnSet(g, S) + g[o]
    BY <2>1, <2>2, SumAdd
  <2> QED BY <2>3
<1>6. SumFunctionOnSet(g, S \union {o}) = before
  <2> DEFINE after == SumFunctionOnSet(g, S \union {o})
  <2>1. after = same + 0 /\ same = before /\ before \in Int
    BY <1>1, <1>2, <1>4, <1>5
  <2> HIDE DEF before, same, after
  <2>2. after = before
    BY <2>1
  <2> QED BY <2>2 DEF after
<1> QED BY <1>3, <1>4, <1>6 DEF S, f, g, before, same

(* The inductive form: the engine has been given finitely many orders. *)
Conserved == IsFiniteSet(DOMAIN orders) /\ Conservation

LEMMA OrdersCountable ==
    ASSUME Inv, IsFiniteSet(DOMAIN orders)
    PROVE  Countable(orders)
<1>1. \A o \in DOMAIN orders : orders[o].filled_qty \in Nat
  BY OrderTypes
<1> QED BY <1>1 DEF Countable

LEMMA FilledOnIs ==
    \A s : FilledOn(s) = SumFunctionOnSet(FilledBy(orders), OrdersOn(orders, s))
  BY DEF FilledOn, FilledBy, OrdersOn

LEMMA NextConserved ==
    ASSUME Inv, Conserved, [Next]_vars
    PROVE  Conserved'
<1> DEFINE F(ords, s) == SumFunctionOnSet(FilledBy(ords), OrdersOn(ords, s))
           news == orders'
<1>0. Inv' /\ Countable(orders) /\ IsFiniteSet(DOMAIN orders)
  BY NextInv, OrdersCountable DEF Conserved
<1>1. \A s \in Side : F(orders, s) = volume_traded
  BY FilledOnIs DEF Conserved, Conservation, Side
<1> SUFFICES IsFiniteSet(DOMAIN news) /\ \A s \in Side : F(news, s) = volume_traded'
  BY DEF Conserved, Conservation, FilledOn, FilledBy, OrdersOn, Side
<1>2. ASSUME volume_traded' = volume_traded, DOMAIN news = DOMAIN orders,
             \A o \in DOMAIN orders : /\ news[o].filled_qty = orders[o].filled_qty
                                      /\ news[o].side = orders[o].side
      PROVE  IsFiniteSet(DOMAIN news) /\ \A s \in Side : F(news, s) = volume_traded'
  <2> HIDE DEF news
  <2>1. \A s : F(news, s) = F(orders, s)
    BY <1>0, <1>2, FilledSame
  <2> HIDE DEF F
  <2> QED BY <1>0, <1>1, <1>2, <2>1
<1>3. ASSUME NEW o \in Order, NEW in \in Input, SubmitOrder(o, in)
      PROVE  IsFiniteSet(DOMAIN news) /\ \A s \in Side : F(news, s) = volume_traded'
  <2>1. /\ o \notin DOMAIN orders /\ volume_traded' = volume_traded
        /\ DOMAIN news = DOMAIN orders \union {o}
        /\ \A y \in DOMAIN orders : news[y] = orders[y]
        /\ news[o].filled_qty = 0
    BY <1>3 DEF SubmitOrder, Enter, Put, NewOrder, metrics
  <2> HIDE DEF news
  <2>2. IsFiniteSet(DOMAIN news)
    BY <1>0, <2>1, FS_AddElement
  <2>3. \A s : F(news, s) = F(orders, s)
    BY <1>0, <2>1, FilledNew
  <2> HIDE DEF F
  <2> QED BY <1>1, <2>1, <2>2, <2>3
<1>4. CASE ExecuteFill
  <2> DEFINE a   == aggressor
             m   == Maker
             qty == FillQty
  <2>1. /\ DOMAIN news = DOMAIN orders
        /\ a \in DOMAIN orders /\ m \in DOMAIN orders
        /\ news[a].filled_qty = orders[a].filled_qty + qty
        /\ news[m].filled_qty = orders[m].filled_qty + qty
        /\ news[a].side = orders[a].side /\ news[m].side = orders[m].side
        /\ \A x \in DOMAIN orders : x # a /\ x # m => news[x] = orders[x]
        /\ volume_traded' = volume_traded + qty
    BY <1>4, FillEffect
  <2>2. /\ qty \in Int /\ orders[m].side = MakerSide
        /\ orders[a].side \in Side /\ orders[a].side = Taker.side
        /\ MakerSide = Opposite(orders[a].side)
    <3>1. a # NoOrder /\ MayFill /\ ~LevelSpent
      BY <1>4 DEF ExecuteFill
    <3>2. MayRestAt(orders[m], Taker.symbol, MakerSide, SweepPrice) /\ qty \in Nat
      BY <3>1, FillFacts
    <3>3. Taker.side \in Side /\ Taker = orders[a]
      BY <3>1, SweepFacts DEF Taker
    <3> QED BY <3>2, <3>3 DEF MayRestAt, MakerSide
  <2>3. Countable(news) /\ IsFiniteSet(DOMAIN news)
    <3>1. IsFiniteSet(DOMAIN news)
      BY <1>0, <2>1
    <3>2. \A x \in DOMAIN news : news[x] \in OrderRecord
      BY <1>0 DEF Inv, TypeOK, IsMap
    <3>3. \A x \in DOMAIN news : news[x].filled_qty \in Int
      BY <3>2, U32Assumption DEF OrderRecord, UInt32
    <3> QED BY <3>1, <3>3 DEF Countable
  <2> HIDE DEF news, a, m, qty
  <2>4. ASSUME NEW s \in Side PROVE F(news, s) = volume_traded'
    <3> DEFINE x == IF orders[a].side = s THEN a ELSE m
    <3>1. x \in OrdersOn(orders, s) /\ news[x].filled_qty = orders[x].filled_qty + qty
      BY <2>1, <2>2 DEF OrdersOn, Opposite, Side
    <3>2. \A o \in OrdersOn(orders, s) : o # x => news[o].filled_qty = orders[o].filled_qty
      BY <2>1, <2>2 DEF OrdersOn, Opposite, Side
    <3>3. \A o \in DOMAIN orders : news[o].side = orders[o].side
      BY <2>1
    <3> HIDE DEF x
    <3>4. F(news, s) = F(orders, s) + qty
      BY <1>0, <2>1, <2>2, <2>3, <3>1, <3>2, <3>3, FilledMore
    <3> HIDE DEF F
    <3> QED BY <1>1, <2>1, <3>4
  <2> QED BY <2>3, <2>4
<1>5. CASE EraseLevel
  <2>1. news = orders /\ volume_traded' = volume_traded
    BY <1>5 DEF EraseLevel, metrics
  <2> HIDE DEF news, F
  <2> QED BY <1>2, <2>1
<1>6. CASE Finish
  <2>1. news = orders \/ news = [orders EXCEPT ![aggressor].status = "CANCELLED"]
    BY <1>6 DEF Finish
  <2>2. volume_traded' = volume_traded
    BY <1>6 DEF Finish, metrics
  <2>3. \A o \in DOMAIN orders : orders[o] \in OrderRecord
    BY OrderTypes
  <2> HIDE DEF news
  <2>4. /\ DOMAIN news = DOMAIN orders
        /\ \A o \in DOMAIN orders : /\ news[o].filled_qty = orders[o].filled_qty
                                    /\ news[o].side = orders[o].side
    BY <2>1, <2>3 DEF OrderRecord
  <2> HIDE DEF F
  <2> QED BY <1>2, <2>2, <2>4
<1>7. ASSUME NEW sym \in Symbol, NEW id \in OrderId, CancelOrder(sym, id)
      PROVE  IsFiniteSet(DOMAIN news) /\ \A s \in Side : F(news, s) = volume_traded'
  <2>1. news = orders /\ volume_traded' = volume_traded
    BY <1>7 DEF CancelOrder, metrics
  <2> HIDE DEF news, F
  <2> QED BY <1>2, <2>1
<1>8. CASE UNCHANGED vars
  <2>1. news = orders /\ volume_traded' = volume_traded
    BY <1>8 DEF vars, metrics
  <2> HIDE DEF news, F
  <2> QED BY <1>2, <2>1
<1> HIDE DEF news, F
<1> QED BY <1>3, <1>4, <1>5, <1>6, <1>7, <1>8 DEF Next, EngineStep

(* Shares are conserved by every run: what the buyers received, what the   *)
(* sellers delivered and volume_traded are one number.                     *)
THEOREM SharesConserved == Spec => []Conservation
<1>1. Init => Conserved
  <2> SUFFICES ASSUME Init PROVE Conserved
    OBVIOUS
  <2>1. DOMAIN orders = {} /\ volume_traded = 0
    BY DEF Init, EmptyMap
  <2>2. \A s : OrdersOn(orders, s) = {}
    BY <2>1 DEF OrdersOn
  <2>3. \A s : FilledOn(s) = 0
    BY <2>2, FilledOnIs, SumEmpty
  <2> QED BY <2>1, <2>3, FS_EmptySet DEF Conserved, Conservation
<1>2. Inv /\ Conserved /\ [Next]_vars => Conserved'
  BY NextConserved
<1>3. Conserved => Conservation
  BY DEF Conserved
<1> QED BY <1>1, <1>2, <1>3, Invariance, PTL DEF Spec

----------------------------------------------------------------------------
(* Fill-or-kill orders. *)

(* The levels can_fill_completely counts, and what they hold without the   *)
(* cast to uint32_t.                                                       *)
Eligible(r, bk) == {p \in DOMAIN bk.level[Opposite(r.side)] : Crosses(r, p)}

TotalAt(r, bk) == [p \in Eligible(r, bk) |-> bk.level[Opposite(r.side)][p].total_qty]

Depth(r, bk) == SumFunctionOnSet(TotalAt(r, bk), Eligible(r, bk))

(* What makes FOKAllOrNothing inductive: as long as a fill-or-kill order   *)
(* is being matched, the levels it may trade with hold what it still needs.*)
FOKCovered ==
    aggressor # NoOrder /\ Taker.tif = "FOK" => Remaining(Taker) <= Depth(Taker, TakerBook)

(* The totals are natural numbers. *)
LEMMA TotalsNatural ==
    ASSUME Inv, LevelTotals, NEW sym \in Symbol, NEW s \in Side,
           NEW p \in DOMAIN books[sym].level[s]
    PROVE  books[sym].level[s][p].total_qty \in Nat
<1> DEFINE q == books[sym].level[s][p].orders
           f == OpenQty(orders)
<1>1. IsFiniteSet(ToSet(q)) /\ books[sym].level[s][p].total_qty = SumFunctionOnSet(f, ToSet(q))
  <2>1. IsBook(books[sym])
    BY DEF Inv, TypeOK
  <2>2. q \in Seq(Order)
    BY <2>1, QueueProperties
  <2>3. IsFiniteSet(ToSet(q))
    <3> HIDE DEF q
    <3> QED BY <2>2, QueueFinite
  <2> QED BY <2>3 DEF LevelTotals, AddsUp
<1>2. \A x \in ToSet(q) : f[x] \in Nat
  <2> TAKE x \in ToSet(q)
  <2>1. RestsAt(books[sym], x, s, p)
    BY RestsAtSet DEF Inv, TypeOK
  <2>2. x \in DOMAIN orders
    BY <2>1, RestingOrder
  <2> QED BY <2>2, OrderTypes DEF OpenQty
<1> HIDE DEF q, f
<1>3. SumFunctionOnSet(f, ToSet(q)) \in Nat
  BY <1>1, <1>2, SumNatural
<1> QED BY <1>1, <1>3

(* The sum over the eligible levels is well defined. *)
LEMMA DepthType ==
    ASSUME Inv, LevelTotals, NEW r, r.side \in Side, NEW sym \in Symbol
    PROVE  /\ Opposite(r.side) \in Side
           /\ IsFiniteSet(Eligible(r, books[sym]))
           /\ \A p \in Eligible(r, books[sym]) :
                 /\ TotalAt(r, books[sym])[p] = books[sym].level[Opposite(r.side)][p].total_qty
                 /\ TotalAt(r, books[sym])[p] \in Nat
           /\ Depth(r, books[sym]) \in Nat
<1> DEFINE S == Eligible(r, books[sym])
           f == TotalAt(r, books[sym])
<1>1. Opposite(r.side) \in Side
  BY DEF Opposite, Side
<1>2. S \in SUBSET Price
  <2>1. IsBook(books[sym])
    BY DEF Inv, TypeOK
  <2> QED BY <1>1, <2>1, QueueProperties DEF Eligible
<1>3. IsFiniteSet(S)
  <2>1. IsFiniteSet(Price)
    BY FS_Interval, MaxPriceAssumption DEF Price
  <2> QED BY <1>2, <2>1, FS_Subset
<1>4. \A p \in S : f[p] = books[sym].level[Opposite(r.side)][p].total_qty
  BY DEF TotalAt
<1>5. \A p \in S : f[p] \in Nat
  BY <1>1, <1>4, TotalsNatural DEF Eligible
<1>6. SumFunctionOnSet(f, S) \in Nat
  <2> HIDE DEF S, f
  <2> QED BY <1>3, <1>5, SumNatural
<1> QED BY <1>1, <1>3, <1>4, <1>5, <1>6 DEF Depth

(* Only side, type and price of the order matter. *)
LEMMA DepthSame ==
    ASSUME NEW r, NEW t, r.side = t.side, r.type = t.type, r.price = t.price, NEW bk
    PROVE  Eligible(r, bk) = Eligible(t, bk) /\ Depth(r, bk) = Depth(t, bk)
<1>1. Eligible(r, bk) = Eligible(t, bk)
  BY DEF Eligible, Crosses
<1> QED BY <1>1 DEF Depth, TotalAt

(* The cast to uint32_t only lowers what can_fill_completely counts, so    *)
(* what it accepts is there.                                               *)
LEMMA AcceptedIsThere ==
    ASSUME Inv, LevelTotals, NEW r, r.side \in Side, Remaining(r) \in Nat,
           NEW sym \in Symbol, CanFillCompletely(r, books[sym])
    PROVE  Remaining(r) <= Depth(r, books[sym])
<1> DEFINE bk == books[sym]
           S  == Eligible(r, bk)
           f  == [p \in S |-> bk.level[Opposite(r.side)][p].total_qty % U32]
           g  == TotalAt(r, bk)
<1>1. /\ IsFiniteSet(S) /\ Depth(r, bk) \in Nat
      /\ \A p \in S : g[p] = bk.level[Opposite(r.side)][p].total_qty /\ g[p] \in Nat
  BY DepthType
<1>2. Remaining(r) = 0 \/ SumFunctionOnSet(f, S) >= Remaining(r)
  BY DEF CanFillCompletely, Eligible
<1>3. \A p \in S : f[p] = g[p] % U32
  BY <1>1
<1> HIDE DEF S, f, g
<1>4. \A p \in S : f[p] \in Int /\ g[p] \in Int /\ f[p] <= g[p]
  BY <1>1, <1>3, U32Assumption
<1>5. SumFunctionOnSet(f, S) <= SumFunctionOnSet(g, S)
  BY <1>1, <1>4, SumMonotone
<1>6. SumFunctionOnSet(f, S) \in Int
  <2>1. \A p \in S : f[p] \in Int
    BY <1>4
  <2> QED BY <1>1, <2>1, SumType
<1> DEFINE counted == SumFunctionOnSet(f, S)
           held    == SumFunctionOnSet(g, S)
<1>7. held = Depth(r, bk)
  BY DEF Depth, S, g
<1> HIDE DEF counted
<1>8. counted \in Int /\ held \in Nat /\ counted <= held
      /\ (Remaining(r) = 0 \/ counted >= Remaining(r))
  BY <1>1, <1>2, <1>5, <1>6, <1>7 DEF counted
<1> HIDE DEF held
<1>9. Remaining(r) <= held
  BY <1>8
<1> QED BY <1>7, <1>9

LEMMA SubmitOrderFOK ==
    ASSUME Inv, Inv', LevelTotals, FOKAllOrNothing,
           NEW o \in Order, NEW in \in Input, SubmitOrder(o, in)
    PROVE  FOKCovered' /\ FOKAllOrNothing'
<1> DEFINE ords   == Put(orders, o, NewOrder(in))
           r      == ords[o]
           killed == r.tif = "FOK" /\ ~CanFillCompletely(r, books[r.symbol])
<1>1. /\ aggressor = NoOrder /\ o \notin DOMAIN orders
      /\ books' = books
      /\ orders' = [ords EXCEPT ![o].status = IF killed THEN "CANCELLED" ELSE "NEW"]
      /\ aggressor' = IF killed THEN NoOrder ELSE o
  BY DEF SubmitOrder, Enter
<1>2. /\ r = NewOrder(in) /\ o \in DOMAIN ords
      /\ DOMAIN ords = DOMAIN orders \union {o}
      /\ \A x \in DOMAIN orders : ords[x] = orders[x]
  BY <1>1 DEF Put
<1> HIDE DEF ords, killed
<1>3. in \in OrderInput
  BY InputAssumption
<1>4. /\ r \in OrderRecord /\ r.filled_qty = 0 /\ r.side \in Side /\ r.symbol \in Symbol
      /\ r.quantity \in Nat /\ Remaining(r) \in Nat
  <2>1. /\ NewOrder(in) \in OrderRecord
        /\ NewOrder(in).filled_qty = 0 /\ NewOrder(in).quantity \in UInt32
    BY <1>3, U32Assumption DEF OrderInput, NewOrder, OrderRecord, OrderStatus, UInt32
  <2>2. UInt32 \subseteq Nat
    BY U32Assumption DEF UInt32
  <2>3. r.quantity \in Nat /\ r.filled_qty = 0 /\ r \in OrderRecord
    BY <1>2, <2>1, <2>2
  <2> QED BY <2>3 DEF OrderRecord, Remaining
<1>5. /\ DOMAIN orders' = DOMAIN orders \union {o}
      /\ \A x \in DOMAIN orders : x # o /\ orders'[x] = orders[x]
      /\ orders'[o] = [r EXCEPT !.status = IF killed THEN "CANCELLED" ELSE "NEW"]
  BY <1>1, <1>2
<1> DEFINE n == orders'[o]
<1>6. /\ n.side = r.side /\ n.type = r.type /\ n.price = r.price /\ n.tif = r.tif
      /\ n.symbol = r.symbol /\ n.filled_qty = 0 /\ n.quantity = r.quantity
      /\ n.status = IF killed THEN "CANCELLED" ELSE "NEW"
  BY <1>4, <1>5 DEF OrderRecord
<1> HIDE DEF r, n
<1>7. FOKAllOrNothing'
  <2>1. \A x \in DOMAIN orders : orders[x].tif = "FOK" =>
           \/ orders[x].status = "CANCELLED" /\ orders[x].filled_qty = 0
           \/ Remaining(orders[x]) = 0
    <3>1. NoOrder \notin DOMAIN orders
      BY OrderTypes
    <3> QED BY <1>1, <3>1 DEF FOKAllOrNothing
  <2>2. o # aggressor' => n.status = "CANCELLED" /\ n.filled_qty = 0
    BY <1>1, <1>6
  <2>3. \A x \in DOMAIN orders' \ {aggressor'} :
           orders'[x].tif = "FOK" =>
              \/ orders'[x].status = "CANCELLED" /\ orders'[x].filled_qty = 0
              \/ Remaining(orders'[x]) = 0
    BY <1>5, <2>1, <2>2 DEF n
  <2> QED BY <2>3 DEF FOKAllOrNothing
<1>8. FOKCovered'
  <2> SUFFICES ASSUME aggressor' # NoOrder, Taker'.tif = "FOK"
               PROVE  Remaining(Taker') <= Depth(Taker', TakerBook')
    BY DEF FOKCovered
  <2>1. aggressor' = o /\ ~killed
    BY <1>1
  <2>2. Taker' = n /\ TakerBook' = books[r.symbol]
    BY <1>1, <1>6, <2>1 DEF Taker, TakerBook, n
  <2>3. CanFillCompletely(r, books[r.symbol])
    BY <1>6, <2>1, <2>2 DEF killed
  <2>4. Remaining(r) <= Depth(r, books[r.symbol])
    BY <1>4, <2>3, AcceptedIsThere
  <2>5. Remaining(n) = Remaining(r) /\ Depth(n, books[r.symbol]) = Depth(r, books[r.symbol])
    <3>1. Depth(n, books[r.symbol]) = Depth(r, books[r.symbol])
      BY <1>6, DepthSame
    <3>2. Remaining(n) = Remaining(r)
      BY <1>4, <1>6 DEF Remaining
    <3> QED BY <3>1, <3>2
  <2> QED BY <2>2, <2>4, <2>5
<1> QED BY <1>7, <1>8

(* A fill takes as much from the order's need as from the best level. *)
LEMMA ExecuteFillFOK ==
    ASSUME Inv, Inv', LevelTotals, LevelTotals', FOKAllOrNothing, FOKCovered,
           ExecuteFill
    PROVE  FOKCovered' /\ FOKAllOrNothing'
<1> DEFINE a    == aggressor
           m    == Maker
           qty  == FillQty
           r    == orders[a]
           n    == orders'[a]
           sym0 == Taker.symbol
           s0   == MakerSide
           p0   == SweepPrice
           bk   == TakerBook
           new  == books'[sym0]
<1>1. a # NoOrder /\ MayFill /\ ~LevelSpent
  BY DEF ExecuteFill
<1>2. /\ aggressor' = a /\ DOMAIN orders' = DOMAIN orders
      /\ \A x \in DOMAIN orders : x # a /\ x # m => orders'[x] = orders[x]
      /\ a \in DOMAIN orders /\ m \in DOMAIN orders
      /\ n.symbol = r.symbol /\ n.side = r.side /\ n.type = r.type /\ n.tif = r.tif
      /\ n.price = r.price /\ Remaining(n) = Remaining(r) - qty
      /\ orders'[m].tif = orders[m].tif
      /\ new = FillFront(bk, s0, p0, qty, qty = Remaining(orders[m]))
  BY FillEffect
<1>3. /\ sym0 \in Symbol /\ s0 \in Side /\ bk = books[sym0] /\ BookInv(bk) /\ IsBook(bk)
      /\ p0 \in DOMAIN bk.level[s0] /\ bk.level[s0][p0].orders # <<>>
      /\ qty \in Int /\ orders[m].tif = "GTC"
      /\ Taker = r /\ s0 = Opposite(r.side) /\ r.side \in Side /\ sym0 = r.symbol
      /\ Crosses(r, p0)
  <2>1. sym0 \in Symbol /\ s0 \in Side /\ bk = books[sym0] /\ BookInv(bk) /\ IsBook(bk)
    BY <1>1, SweepFacts DEF TakerBook
  <2>2. p0 \in DOMAIN bk.level[s0] /\ bk.level[s0][p0].orders # <<>>
    BY <1>1, FillFacts DEF TakerBook
  <2>3. qty \in Int /\ orders[m].tif = "GTC"
    BY <1>1, SweepFacts, FillFacts DEF MayRestAt
  <2>4. Taker = r /\ s0 = Opposite(r.side) /\ r.side \in Side /\ sym0 = r.symbol
    BY <1>1, SweepFacts DEF Taker, MakerSide
  <2>5. Crosses(r, p0)
    BY <1>1, <2>4 DEF MayFill
  <2> QED BY <2>1, <2>2, <2>3, <2>4, <2>5
<1>4. FOKAllOrNothing'
  <2>1. \A x \in DOMAIN orders' \ {aggressor'} : orders'[x].tif = "FOK" =>
           orders'[x] = orders[x] /\ x \in DOMAIN orders \ {aggressor}
    BY <1>2, <1>3
  <2>2. \A x \in DOMAIN orders' \ {aggressor'} :
           orders'[x].tif = "FOK" =>
              \/ orders'[x].status = "CANCELLED" /\ orders'[x].filled_qty = 0
              \/ Remaining(orders'[x]) = 0
    BY <2>1 DEF FOKAllOrNothing
  <2> QED BY <2>2 DEF FOKAllOrNothing
<1>5. Remaining(r) \in Nat
  BY <1>2, OrderTypes
<1>6. /\ DOMAIN new.level[s0] = DOMAIN bk.level[s0]
      /\ \A x \in DOMAIN bk.level[s0] : x # p0 => new.level[s0][x] = bk.level[s0][x]
      /\ new.level[s0][p0].total_qty = bk.level[s0][p0].total_qty - qty
  <2> DEFINE q  == bk.level[s0][p0].orders
             c  == qty = Remaining(orders[m])
             tot  == bk.level[s0][p0].total_qty - qty
             rest == IF c THEN Tail(q) ELSE q
             lv == [total_qty |-> tot, orders |-> rest]
  <2>1. new.level = [bk.level EXCEPT ![s0] = Put(bk.level[s0], p0, lv)]
    BY <1>2 DEF FillFront
  <2>2. q \in Seq(Order) /\ q # <<>> /\ p0 \in Price /\ bk.level[s0][p0].total_qty \in Int
    <3> HIDE DEF bk, s0, p0
    <3> QED BY <1>3, QueueProperties
  <2>3. lv \in PriceLevel
    <3> HIDE DEF q, c, qty, bk, s0, p0
    <3>1. rest \in Seq(Order)
      BY <2>2, HeadTailProperties
    <3>2. tot \in Int
      BY <1>3, <2>2
    <3> HIDE DEF rest, tot
    <3> QED BY <3>1, <3>2 DEF PriceLevel
  <2>4. lv.total_qty = bk.level[s0][p0].total_qty - qty
    OBVIOUS
  <2> DEFINE L == new.level
  <2> HIDE DEF lv, new, bk, s0, p0, q, c, qty, L
  <2>5. L = [bk.level EXCEPT ![s0] = Put(bk.level[s0], p0, lv)]
    BY <2>1 DEF L
  <2>6. /\ DOMAIN L[s0] = DOMAIN bk.level[s0] \union {p0}
        /\ L[s0][p0] = lv
        /\ \A x \in DOMAIN bk.level[s0] : x # p0 => L[s0][x] = bk.level[s0][x]
    <3>1. IsBook(bk) /\ s0 \in Side /\ p0 \in Price /\ lv \in PriceLevel
      BY <1>3, <2>2, <2>3
    <3> QED BY <2>5, <3>1, PutLevelProperties, SMTT(40)
  <2>7. DOMAIN L[s0] = DOMAIN bk.level[s0] /\ L[s0][p0].total_qty = lv.total_qty
    BY <1>3, <2>6
  <2> QED BY <2>4, <2>6, <2>7 DEF L
<1>7. FOKCovered'
  <2> SUFFICES ASSUME aggressor' # NoOrder, Taker'.tif = "FOK"
               PROVE  Remaining(Taker') <= Depth(Taker', TakerBook')
    BY DEF FOKCovered
  <2>1. Taker' = n /\ TakerBook' = new
    BY <1>2, <1>3 DEF Taker, TakerBook
  <2>2. Remaining(r) <= Depth(r, bk)
    BY <1>1, <1>2, <1>3, <2>1 DEF FOKCovered
  <2> DEFINE S == Eligible(r, bk)
             f == TotalAt(r, bk)
             g == TotalAt(n, new)
  <2>3. Eligible(n, new) = S
    <3>1. DOMAIN new.level[s0] = DOMAIN bk.level[s0]
      BY <1>6
    <3>2. /\ n.side = r.side /\ n.type = r.type /\ n.price = r.price
          /\ s0 = Opposite(r.side)
      BY <1>2, <1>3
    <3> HIDE DEF n, new, r, bk, s0
    <3> QED BY <3>1, <3>2 DEF Eligible, Crosses
  <2>4. IsFiniteSet(S) /\ Depth(r, bk) \in Nat /\ \A x \in S : f[x] \in Nat
    BY <1>3, DepthType
  <2>5. p0 \in S /\ f[p0] = bk.level[s0][p0].total_qty
    BY <1>3 DEF Eligible, TotalAt
  <2>6. \A x \in S : g[x] = new.level[s0][x].total_qty /\ f[x] = bk.level[s0][x].total_qty
    BY <1>2, <1>3, <2>3 DEF TotalAt
  <2>7. \A x \in S : x # p0 => g[x] = f[x]
    <3>1. \A x \in S : x \in DOMAIN bk.level[s0]
      BY <1>3 DEF Eligible
    <3> HIDE DEF S, f, g, new, bk, s0, p0
    <3> QED BY <1>6, <2>6, <3>1
  <2>8. g[p0] = f[p0] - qty
    BY <1>6, <2>5, <2>6
  <2>9. Depth(n, new) = SumFunctionOnSet(g, S) /\ Depth(r, bk) = SumFunctionOnSet(f, S)
    BY <2>3 DEF Depth
  <2> HIDE DEF S, f, g, n, new, r, bk, qty, p0
  <2>10. SumFunctionOnSet(g, S) = SumFunctionOnSet(f, S) - qty
    <3>1. (\A x \in S : f[x] \in Int) /\ IsFiniteSet(S) /\ p0 \in S /\ qty \in Int
      BY <1>3, <2>4, <2>5
    <3> QED BY <2>7, <2>8, <3>1, SumLess
  <2> DEFINE before == SumFunctionOnSet(f, S)
             after  == SumFunctionOnSet(g, S)
  <2>11. /\ after = before - qty /\ before \in Nat /\ qty \in Int
         /\ Remaining(r) \in Nat /\ Remaining(r) <= before
         /\ Remaining(n) = Remaining(r) - qty
    BY <1>2, <1>3, <1>5, <2>2, <2>4, <2>9, <2>10
  <2> HIDE DEF before, after
  <2>12. Remaining(n) <= after
    BY <2>11
  <2> QED BY <2>1, <2>9, <2>12 DEF after
<1> QED BY <1>4, <1>7

(* The erased level holds nothing. *)
LEMMA EraseLevelFOK ==
    ASSUME Inv, LevelTotals, FOKAllOrNothing, FOKCovered, EraseLevel
    PROVE  FOKCovered' /\ FOKAllOrNothing'
<1> DEFINE sym0 == Taker.symbol
           s0   == MakerSide
           p0   == SweepPrice
           bk   == TakerBook
           new  == EraseLevelOf(bk, s0, p0)
           r    == Taker
<1>1. /\ aggressor # NoOrder /\ LevelSpent /\ books' = [books EXCEPT ![sym0] = new]
      /\ orders' = orders /\ aggressor' = aggressor
  BY DEF EraseLevel
<1>2. /\ sym0 \in Symbol /\ s0 \in Side /\ BookInv(bk) /\ IsBook(bk) /\ bk = books[sym0]
      /\ p0 \in DOMAIN bk.level[s0] /\ r.side \in Side /\ s0 = Opposite(r.side)
  BY <1>1, SweepFacts DEF LevelSpent, TakerBook, MakerSide
<1>3. bk.level[s0][p0].orders = <<>>
  BY <1>1 DEF LevelSpent, SweepLevel, BestLevel, SweepPrice
<1>4. FOKAllOrNothing'
  BY <1>1 DEF FOKAllOrNothing
<1>5. bk.level[s0][p0].total_qty = 0
  <2>1. AddsUp(bk.level[s0][p0], orders)
    BY <1>2 DEF LevelTotals
  <2>2. ToSet(bk.level[s0][p0].orders) = {}
    BY <1>3 DEF ToSet
  <2> QED BY <2>1, <2>2, SumEmpty DEF AddsUp
<1>6. Taker' = r /\ TakerBook' = new
  <2>1. books = [x \in Symbol |-> books[x]]
    BY DEF Inv, TypeOK
  <2>2. Taker' = r
    BY <1>1 DEF Taker
  <2>3. TakerBook' = books'[sym0]
    BY <2>2 DEF TakerBook
  <2> HIDE DEF new, sym0
  <2>4. books'[sym0] = new
    BY <1>1, <1>2, <2>1, Zenon
  <2> QED BY <2>2, <2>3, <2>4
<1>7. /\ DOMAIN new.level[s0] = DOMAIN bk.level[s0] \ {p0}
      /\ \A x \in DOMAIN bk.level[s0] : x # p0 => new.level[s0][x] = bk.level[s0][x]
  <2> DEFINE L == new.level
  <2>1. L = [bk.level EXCEPT ![s0] = Erase(bk.level[s0], p0)]
    BY DEF EraseLevelOf
  <2> HIDE DEF L, new, bk, s0, p0
  <2>2. p0 \in Price
    BY <1>2, QueueProperties
  <2>3. /\ DOMAIN L[s0] = DOMAIN bk.level[s0] \ {p0}
        /\ \A x \in DOMAIN bk.level[s0] : x # p0 => L[s0][x] = bk.level[s0][x]
    BY <1>2, <2>1, <2>2, EraseLevelProperties
  <2> QED BY <2>3 DEF L
<1> DEFINE S == Eligible(r, bk)
           f == TotalAt(r, bk)
           g == TotalAt(r, new)
<1>8. Eligible(r, new) = S \ {p0}
  BY <1>2, <1>7 DEF Eligible
<1>9. /\ IsFiniteSet(S) /\ (\A x \in S : f[x] \in Nat)
      /\ \A x \in S : f[x] = bk.level[s0][x].total_qty
  BY <1>2, DepthType
<1>10. \A x \in S \ {p0} : g[x] = f[x]
  BY <1>2, <1>7, <1>8, <1>9 DEF TotalAt, Eligible
<1>11. Depth(r, new) = SumFunctionOnSet(g, S \ {p0}) /\ Depth(r, bk) = SumFunctionOnSet(f, S)
  BY <1>8 DEF Depth
<1>12. p0 \in S => f[p0] = 0
  BY <1>5, <1>9
<1> HIDE DEF S, f, g
<1>13. \A x \in S : f[x] \in Int
  BY <1>9
<1>14. IsFiniteSet(S) /\ IsFiniteSet(S \ {p0})
  BY <1>9, FS_Subset
<1>15. SumFunctionOnSet(g, S \ {p0}) = SumFunctionOnSet(f, S \ {p0})
  <2>1. \A x \in S \ {p0} : f[x] \in Int /\ g[x] = f[x]
    BY <1>10, <1>13
  <2> HIDE DEF p0
  <2> DEFINE T == S \ {p0}
  <2>2. IsFiniteSet(T) /\ \A x \in T : f[x] \in Int /\ g[x] = f[x]
    BY <1>14, <2>1
  <2> HIDE DEF T
  <2>3. SumFunctionOnSet(g, T) = SumFunctionOnSet(f, T)
    BY <2>2, SumSame
  <2> QED BY <2>3 DEF T
<1>16. SumFunctionOnSet(f, S \ {p0}) = SumFunctionOnSet(f, S)
  <2>1. CASE p0 \in S
    <3> DEFINE rest == SumFunctionOnSet(f, S \ {p0})
               all  == SumFunctionOnSet(f, S)
    <3>1. all = f[p0] + rest
      <4> HIDE DEF p0
      <4>1. SumFunctionOnSet(f, S) = f[p0] + SumFunctionOnSet(f, S \ {p0})
        BY <1>13, <1>14, <2>1, SumRemove
      <4> QED BY <4>1
    <3>2. rest \in Int
      <4>1. \A x \in S \ {p0} : f[x] \in Int
        BY <1>13
      <4> QED BY <1>14, <4>1, SumType
    <3> HIDE DEF rest, all
    <3>3. rest = all
      BY <1>12, <2>1, <3>1, <3>2
    <3> QED BY <3>3 DEF rest, all
  <2>2. CASE p0 \notin S
    <3>1. S \ {p0} = S
      BY <2>2
    <3> QED BY <3>1
  <2> QED BY <2>1, <2>2
<1>17. Depth(r, new) = Depth(r, bk)
  BY <1>11, <1>15, <1>16
<1>18. FOKCovered'
  <2> SUFFICES ASSUME aggressor' # NoOrder, Taker'.tif = "FOK"
               PROVE  Remaining(Taker') <= Depth(Taker', TakerBook')
    BY DEF FOKCovered
  <2>1. Remaining(r) <= Depth(r, bk)
    BY <1>1, <1>6 DEF FOKCovered
  <2> QED BY <1>6, <1>17, <2>1
<1> QED BY <1>4, <1>18

(* When the loops end no level is left that the aggressor may trade with,  *)
(* or it needs nothing more.                                               *)
LEMMA NothingEligible ==
    ASSUME Inv, aggressor # NoOrder, ~MayFill, Remaining(Taker) > 0
    PROVE  Eligible(Taker, TakerBook) = {}
<1>1. CASE Taker.type = "LIMIT"
  <2>1. Taker.side \in Side /\ Taker.price \in Nat
    BY SweepFacts, OrderTypes, MaxPriceAssumption DEF Taker, Price
  <2>2. \A t \in Side : \A x \in DOMAIN TakerBook.level[t] : x \in Nat
    <3>1. IsBook(TakerBook)
      BY SweepFacts
    <3>2. Price \subseteq Nat
      BY MaxPriceAssumption DEF Price
    <3> QED BY <3>1, <3>2, QueueProperties
  <2>3. CASE Taker.side = "BUY"
    <3>1. \A x \in DOMAIN TakerBook.level["SELL"] : Taker.price < x /\ x \in Nat
      BY <1>1, <2>2, <2>3, SweptClean DEF Side
    <3> QED BY <1>1, <2>1, <2>3, <3>1 DEF Eligible, Crosses, Opposite
  <2>4. CASE Taker.side = "SELL"
    <3>1. \A x \in DOMAIN TakerBook.level["BUY"] : x < Taker.price /\ x \in Nat
      BY <1>1, <2>2, <2>4, SweptClean DEF Side
    <3> QED BY <1>1, <2>1, <2>4, <3>1 DEF Eligible, Crosses, Opposite
  <2> QED BY <2>1, <2>3, <2>4 DEF Side
<1>2. CASE Taker.type = "MARKET"
  BY <1>2 DEF MayFill, Crosses, HasLevels, Eligible, MakerSide
<1>3. Taker.type \in {"LIMIT", "MARKET"}
  <2>1. Taker \in OrderRecord
    BY SweepFacts, OrderTypes DEF Taker
  <2> QED BY <2>1 DEF OrderRecord, OrderType
<1> QED BY <1>1, <1>2, <1>3

LEMMA FinishFOK ==
    ASSUME Inv, LevelTotals, FOKAllOrNothing, FOKCovered, Finish
    PROVE  FOKCovered' /\ FOKAllOrNothing'
<1>1. aggressor # NoOrder /\ ~MayFill /\ aggressor' = NoOrder
  BY DEF Finish
<1>2. FOKCovered'
  BY <1>1 DEF FOKCovered
<1>3. /\ aggressor \in DOMAIN orders /\ Taker = orders[aggressor]
      /\ Remaining(Taker) \in Nat
  BY <1>1, SweepFacts, OrderTypes DEF Taker
<1>4. Taker.tif = "FOK" => Remaining(Taker) = 0
  <2> SUFFICES ASSUME Taker.tif = "FOK", Remaining(Taker) > 0 PROVE FALSE
    BY <1>3
  <2>1. Eligible(Taker, TakerBook) = {}
    BY <1>1, NothingEligible
  <2>2. Depth(Taker, TakerBook) = 0
    BY <2>1, SumEmpty DEF Depth
  <2>3. Remaining(Taker) <= 0
    BY <1>1, <2>2 DEF FOKCovered
  <2> QED BY <1>3, <2>3
<1>5. \A x \in DOMAIN orders' :
         /\ x \in DOMAIN orders
         /\ x # aggressor => orders'[x] = orders[x]
         /\ x = aggressor => orders'[x].tif = orders[x].tif
  <2>1. \A x \in DOMAIN orders : orders[x] \in OrderRecord
    BY OrderTypes
  <2>2. orders' = orders \/ orders' = [orders EXCEPT ![aggressor].status = "CANCELLED"]
    BY DEF Finish
  <2> QED BY <2>1, <2>2 DEF OrderRecord
<1>6. Taker.tif = "FOK" => orders' = orders
  BY <1>3, <1>4 DEF Finish, Leftover
<1>7. \A x \in DOMAIN orders' :
         orders'[x].tif = "FOK" =>
            \/ orders'[x].status = "CANCELLED" /\ orders'[x].filled_qty = 0
            \/ Remaining(orders'[x]) = 0
  <2> TAKE x \in DOMAIN orders'
  <2>1. CASE x = aggressor
    BY <1>3, <1>4, <1>5, <1>6, <2>1
  <2>2. CASE x # aggressor
    BY <1>5, <2>2 DEF FOKAllOrNothing
  <2> QED BY <2>1, <2>2
<1>8. FOKAllOrNothing'
  BY <1>7 DEF FOKAllOrNothing
<1> QED BY <1>2, <1>8

LEMMA NextFOK ==
    ASSUME Inv, LevelTotals, FOKCovered, FOKAllOrNothing, [Next]_vars
    PROVE  FOKCovered' /\ FOKAllOrNothing'
<1>0. Inv' /\ LevelTotals'
  BY NextInv, NextTotals
<1>1. ASSUME NEW o \in Order, NEW in \in Input, SubmitOrder(o, in)
      PROVE  FOKCovered' /\ FOKAllOrNothing'
  BY <1>0, <1>1, SubmitOrderFOK
<1>2. ASSUME NEW sym \in Symbol, NEW id \in OrderId, CancelOrder(sym, id)
      PROVE  FOKCovered' /\ FOKAllOrNothing'
  <2>1. orders' = orders /\ aggressor' = aggressor /\ aggressor = NoOrder
    BY <1>2 DEF CancelOrder
  <2> QED BY <2>1 DEF FOKCovered, FOKAllOrNothing
<1>3. CASE ExecuteFill
  BY <1>0, <1>3, ExecuteFillFOK
<1>4. CASE EraseLevel
  BY <1>4, EraseLevelFOK
<1>5. CASE Finish
  BY <1>5, FinishFOK
<1>6. CASE UNCHANGED vars
  BY <1>6 DEF vars, FOKCovered, FOKAllOrNothing, Taker, TakerBook
<1> QED BY <1>1, <1>2, <1>3, <1>4, <1>5, <1>6 DEF Next, EngineStep

(* A fill-or-kill order trades all of its quantity or nothing: what        *)
(* can_fill_completely counts before the sweep is there for the sweep.     *)
THEOREM FillOrKill == Spec => []FOKAllOrNothing
<1>1. Init => FOKCovered /\ FOKAllOrNothing
  BY DEF Init, EmptyMap, FOKCovered, FOKAllOrNothing
<1>2. Inv /\ LevelTotals /\ FOKCovered /\ FOKAllOrNothing /\ [Next]_vars
         => FOKCovered' /\ FOKAllOrNothing'
  BY NextFOK
<1> QED BY <1>1, <1>2, Invariance, TotalsAreSums, PTL DEF Spec

----------------------------------------------------------------------------
(* The other direction: a fill-or-kill order is refused only for want of   *)
(* shares, unless one of the totals that can_fill_completely casts to      *)
(* uint32_t does not fit.                                                  *)

(* What the eligible levels hold is what their orders have left. *)
LEMMA LiquidityIsDepth ==
    ASSUME Inv, LevelTotals, NEW r, r.side \in Side, r.symbol \in Symbol
    PROVE  Liquidity(r) = Depth(r, books[r.symbol])
<1> DEFINE sym == r.symbol
           bk == books[sym]
           s  == Opposite(r.side)
           P  == Eligible(r, bk)
           D  == [p \in P |-> ToSet(bk.level[s][p].orders)]
           f  == OpenQty(orders)
           g  == TotalAt(r, bk)
           M  == {m \in DOMAIN orders :
                     /\ RestsAt(bk, m, s, orders[m].price)
                     /\ Crosses(r, orders[m].price)}
<1>1. s \in Side /\ IsFiniteSet(P) /\ IsBook(bk)
  BY DepthType DEF Inv, TypeOK
<1>2. \A p \in P : p \in DOMAIN bk.level[s] /\ Crosses(r, p)
  BY DEF Eligible
<1>3. ASSUME NEW p \in P
      PROVE  /\ IsFiniteSet(D[p])
             /\ g[p] = SumFunctionOnSet(f, D[p])
             /\ \A y : y \in D[p] <=> RestsAt(bk, y, s, p)
  <2>1. p \in DOMAIN bk.level[s]
    BY <1>2
  <2>2. D[p] = ToSet(bk.level[s][p].orders) /\ g[p] = bk.level[s][p].total_qty
    BY DEF TotalAt
  <2>3. AddsUp(bk.level[s][p], orders)
    BY <1>1, <2>1 DEF LevelTotals
  <2>4. bk.level[s][p].orders \in Seq(Order)
    BY <1>1, <2>1, QueueProperties
  <2>5. IsFiniteSet(ToSet(bk.level[s][p].orders))
    BY <2>4, QueueFinite
  <2>6. \A y : y \in ToSet(bk.level[s][p].orders) <=> RestsAt(bk, y, s, p)
    BY <1>1, <2>1, RestsAtSet
  <2> QED BY <2>2, <2>3, <2>5, <2>6 DEF AddsUp
<1>4. ASSUME NEW p, NEW y, RestsAt(bk, y, s, p)
      PROVE  y \in DOMAIN orders /\ orders[y].price = p /\ f[y] \in Int
  <2>1. y \in DOMAIN orders /\ MayRestAt(orders[y], sym, s, p)
    BY <1>1, <1>4, RestingOrder
  <2>2. Remaining(orders[y]) \in Nat
    BY <2>1, OrderTypes
  <2> QED BY <2>1, <2>2 DEF MayRestAt, OpenQty
<1>5. Liquidity(r) = SumFunctionOnSet(f, M)
  BY DEF Liquidity
<1> HIDE DEF D, f, g, bk, s
<1>6. Parts(D, P) = M
  <2>1. ASSUME NEW y, y \in Parts(D, P) PROVE y \in M
    <3>1. PICK p \in P : y \in D[p]
      BY <2>1 DEF Parts
    <3>2. RestsAt(bk, y, s, p)
      BY <1>3, <3>1
    <3>3. y \in DOMAIN orders /\ orders[y].price = p
      BY <1>4, <3>2
    <3> QED BY <1>2, <3>2, <3>3
  <2>2. ASSUME NEW y \in M PROVE y \in Parts(D, P)
    <3> DEFINE p == orders[y].price
    <3>1. RestsAt(bk, y, s, p) /\ Crosses(r, p)
      OBVIOUS
    <3>2. p \in P
      BY <3>1 DEF RestsAt, Eligible, bk, s
    <3>3. y \in D[p]
      BY <1>3, <3>1, <3>2
    <3> QED BY <3>2, <3>3 DEF Parts
  <2> QED BY <2>1, <2>2
<1>7. \A p \in P : IsFiniteSet(D[p]) /\ \A y \in D[p] : f[y] \in Int
  BY <1>3, <1>4
<1>8. \A p, q \in P : p # q => D[p] \cap D[q] = {}
  <2> SUFFICES ASSUME NEW p \in P, NEW q \in P, NEW y, y \in D[p], y \in D[q]
               PROVE  p = q
    OBVIOUS
  <2>1. RestsAt(bk, y, s, p) /\ RestsAt(bk, y, s, q)
    BY <1>3
  <2> QED BY <1>4, <2>1
<1>9. \A p \in P : g[p] = SumFunctionOnSet(f, D[p])
  BY <1>3
<1> HIDE DEF P, M
<1>10. SumFunctionOnSet(f, Parts(D, P)) = SumFunctionOnSet(g, P)
  BY <1>1, <1>7, <1>8, <1>9, SumOfParts
<1> QED BY <1>5, <1>6, <1>10 DEF Depth, P, g, bk

(* What can_fill_completely refuses is not there, or is cut. *)
LEMMA RefusedIsNotThere ==
    ASSUME Inv, LevelTotals, NEW r, r.side \in Side, Remaining(r) \in Nat,
           r.symbol \in Symbol, ~CanFillCompletely(r, books[r.symbol]), ~CutLevel(r)
    PROVE  Liquidity(r) < Remaining(r)
<1> DEFINE bk == books[r.symbol]
           s  == Opposite(r.side)
           S  == Eligible(r, bk)
           f  == [p \in S |-> bk.level[s][p].total_qty % U32]
           g  == TotalAt(r, bk)
<1>1. /\ s \in Side /\ IsFiniteSet(S) /\ Depth(r, bk) \in Nat
      /\ \A p \in S : g[p] = bk.level[s][p].total_qty /\ g[p] \in Nat
  BY DepthType
<1>2. ~(SumFunctionOnSet(f, S) >= Remaining(r))
  BY DEF CanFillCompletely, Eligible
<1>3. \A p \in S : f[p] = g[p] % U32 /\ g[p] < U32
  <2>1. \A p \in S : p \in DOMAIN bk.level[s] /\ Crosses(r, p)
    BY DEF Eligible
  <2>2. \A p \in S : ~(g[p] >= U32)
    BY <1>1, <2>1 DEF CutLevel
  <2>3. \A p \in S : f[p] = g[p] % U32
    BY <1>1
  <2> QED BY <1>1, <2>2, <2>3, U32Assumption
<1>4. Liquidity(r) = Depth(r, bk)
  BY LiquidityIsDepth
<1> HIDE DEF S, f, g
<1>5. \A p \in S : f[p] = g[p] /\ g[p] \in Int
  BY <1>1, <1>3, U32Assumption
<1>6. SumFunctionOnSet(f, S) = SumFunctionOnSet(g, S)
  BY <1>1, <1>5, SumSame
<1>7. SumFunctionOnSet(f, S) = Depth(r, bk)
  BY <1>6 DEF Depth, S, g
<1> QED BY <1>1, <1>2, <1>4, <1>7

(* A fill-or-kill order is refused only when the orders it could trade     *)
(* with add up to less than its quantity, or when the total of a level it  *)
(* could trade at does not fit a uint32_t.                                 *)
THEOREM KillsJustified == Spec => FOKKillJustified
<1> DEFINE Justified == \A o \in DOMAIN orders' \ DOMAIN orders :
              LET r == orders'[o]
              IN  r.tif = "FOK" /\ r.status = "CANCELLED"
                     => Liquidity(r) < r.quantity \/ CutLevel(r)
<1>1. ASSUME Inv, LevelTotals, [Next]_vars
      PROVE  [Justified]_vars
  <2>1. CASE DOMAIN orders' = DOMAIN orders
    BY <2>1
  <2>2. ASSUME NEW o \in Order, NEW in \in Input, SubmitOrder(o, in)
        PROVE  Justified
    <3> DEFINE ords   == Put(orders, o, NewOrder(in))
               r      == ords[o]
               killed == r.tif = "FOK" /\ ~CanFillCompletely(r, books[r.symbol])
               n      == orders'[o]
    <3>1. /\ orders' = [ords EXCEPT ![o].status = IF killed THEN "CANCELLED" ELSE "NEW"]
          /\ DOMAIN orders' = DOMAIN orders \union {o}
          /\ r = NewOrder(in)
      BY <2>2 DEF SubmitOrder, Enter, Put
    <3>2. n = [r EXCEPT !.status = IF killed THEN "CANCELLED" ELSE "NEW"]
      BY <3>1 DEF Put
    <3>3. /\ r \in OrderRecord /\ r.side \in Side /\ r.symbol \in Symbol
          /\ r.filled_qty = 0 /\ r.quantity \in Nat
      <4>1. in \in OrderInput
        BY InputAssumption
      <4>2. /\ NewOrder(in) \in OrderRecord
            /\ NewOrder(in).filled_qty = 0 /\ NewOrder(in).quantity \in UInt32
        BY <4>1, U32Assumption DEF OrderInput, NewOrder, OrderRecord, OrderStatus, UInt32
      <4>3. UInt32 \subseteq Nat
        BY U32Assumption DEF UInt32
      <4> HIDE DEF ords
      <4> QED BY <3>1, <4>2, <4>3 DEF OrderRecord
    <3> HIDE DEF ords, killed
    <3> SUFFICES ASSUME n.tif = "FOK", n.status = "CANCELLED", ~CutLevel(n)
                 PROVE  Liquidity(n) < n.quantity
      BY <3>1
    <3>4. /\ n.side = r.side /\ n.type = r.type /\ n.price = r.price /\ n.symbol = r.symbol
          /\ n.quantity = r.quantity /\ killed
      BY <3>2, <3>3 DEF OrderRecord
    <3>5. Remaining(r) = r.quantity
      BY <3>3 DEF Remaining
    <3>6. Liquidity(r) < Remaining(r)
      <4>1. ~CutLevel(r)
        BY <3>4 DEF CutLevel, Crosses
      <4> QED BY <1>1, <3>3, <3>4, <3>5, <4>1, RefusedIsNotThere DEF killed
    <3>7. Liquidity(n) = Liquidity(r)
      BY <3>4 DEF Liquidity, Crosses
    <3> QED BY <3>4, <3>5, <3>6, <3>7
  <2>3. ASSUME NEW sym \in Symbol, NEW id \in OrderId, CancelOrder(sym, id)
        PROVE  DOMAIN orders' = DOMAIN orders
    BY <2>3 DEF CancelOrder
  <2>4. ExecuteFill => DOMAIN orders' = DOMAIN orders
    BY <1>1, FillEffect
  <2>5. EraseLevel \/ Finish => DOMAIN orders' = DOMAIN orders
    BY DEF EraseLevel, Finish
  <2> HIDE DEF Justified
  <2> QED BY <1>1, <2>1, <2>2, <2>3, <2>4, <2>5 DEF Next, EngineStep
<1>2. Spec => [][Justified]_vars
  <2> HIDE DEF Justified
  <2> QED BY <1>1, Invariance, TotalsAreSums, PTL DEF Spec
<1> QED BY <1>2 DEF FOKKillJustified

----------------------------------------------------------------------------
(* The refinement of PriceTimePriority.  The mapping, as a function of the *)
(* books and the order objects.                                            *)

InBook(bks, ords, o) ==
    RestsAt(bks[ords[o].symbol], o, ords[o].side, ords[o].price)

Entry(r) ==
    [symbol |-> r.symbol, side |-> r.side, price |-> r.price, qty |-> Remaining(r)]

Resting(bks, ords) ==
    [o \in {x \in DOMAIN ords : InBook(bks, ords, x)} |-> Entry(ords[o])]

Stands(bks, o) ==
    \E sym \in Symbol, s \in Side : \E p : RestsAt(bks[sym], o, s, p)

StandsBefore(bks, m, n) ==
    \E sym \in Symbol, s \in Side : \E p : Before(bks[sym], s, p, m, n)

Ahead(bks) ==
    {pair \in Order \X Order : StandsBefore(bks, pair[1], pair[2])}

LEMMA MappedResting ==
    restingMap = Resting(books, orders) /\ restingMap' = Resting(books', orders')
BY DEF restingMap, Resting, InBook, Entry

LEMMA AheadIs ==
    ASSUME NEW bks
    PROVE  Ahead(bks) =
             {pair \in Order \X Order :
                \E sym \in Symbol, s \in Side : \E p \in DOMAIN bks[sym].level[s] :
                    LET q == bks[sym].level[s][p].orders
                    IN  \E i, j \in DOMAIN q : i < j /\ pair = <<q[i], q[j]>>}
<1> DEFINE A(pair) ==
             \E sym \in Symbol, s \in Side : \E p \in DOMAIN bks[sym].level[s] :
                 LET q == bks[sym].level[s][p].orders
                 IN  \E i, j \in DOMAIN q : i < j /\ pair = <<q[i], q[j]>>
           B(pair) == StandsBefore(bks, pair[1], pair[2])
<1>1. ASSUME NEW m \in Order, NEW n \in Order, A(<<m, n>>)
      PROVE  B(<<m, n>>)
  <2>1. PICK sym \in Symbol, s \in Side : \E p \in DOMAIN bks[sym].level[s] :
           LET q == bks[sym].level[s][p].orders
           IN  \E i, j \in DOMAIN q : i < j /\ <<m, n>> = <<q[i], q[j]>>
    BY <1>1
  <2>2. PICK p \in DOMAIN bks[sym].level[s] :
           LET q == bks[sym].level[s][p].orders
           IN  \E i, j \in DOMAIN q : i < j /\ <<m, n>> = <<q[i], q[j]>>
    BY <2>1
  <2>3. InOrder(bks[sym].level[s][p].orders, m, n)
    BY <2>2 DEF InOrder
  <2> QED BY <2>3 DEF Before, StandsBefore
<1>2. ASSUME NEW m \in Order, NEW n \in Order, B(<<m, n>>)
      PROVE  A(<<m, n>>)
  <2>1. PICK sym \in Symbol, s \in Side : \E p : Before(bks[sym], s, p, m, n)
    BY <1>2 DEF StandsBefore
  <2>2. PICK p : Before(bks[sym], s, p, m, n)
    BY <2>1
  <2>3. p \in DOMAIN bks[sym].level[s] /\ InOrder(bks[sym].level[s][p].orders, m, n)
    BY <2>2 DEF Before
  <2> QED BY <2>3 DEF InOrder
<1>3. \A pair \in Order \X Order : A(pair) <=> B(pair)
  <2> HIDE DEF A, B
  <2> QED BY <1>1, <1>2
<1>4. Ahead(bks) = {pair \in Order \X Order : B(pair)}
  BY DEF Ahead
<1>5. {pair \in Order \X Order : B(pair)} = {pair \in Order \X Order : A(pair)}
  <2> HIDE DEF A, B
  <2> QED BY <1>3
<1> QED BY <1>4, <1>5

LEMMA MappedAhead == aheadMap = Ahead(books) /\ aheadMap' = Ahead(books')
BY AheadIs DEF aheadMap

(* Books and objects of which the mapping can be computed. *)
Fits(bks, ords) ==
    /\ bks = [sym \in Symbol |-> bks[sym]]
    /\ IsMap(ords, Order, OrderRecord)
    /\ \A sym \in Symbol : QueuedAreLive(bks[sym], ords, sym)

LEMMA InvFits ==
    /\ Inv => Fits(books, orders)
    /\ Inv' => Fits(books', orders')
BY DEF Inv, TypeOK, RestingOrdersLive, Fits

LEMMA RestingIsOrder ==
    ASSUME NEW bks, NEW ords, Fits(bks, ords),
           NEW sym \in Symbol, NEW s \in Side, NEW p, NEW o,
           RestsAt(bks[sym], o, s, p)
    PROVE  /\ o \in DOMAIN ords /\ o \in Order
           /\ MayRestAt(ords[o], sym, s, p)
           /\ o \in DOMAIN Resting(bks, ords)
<1>1. o \in DOMAIN ords /\ MayRestAt(ords[o], sym, s, p)
  <2>1. QueuedAreLive(bks[sym], ords, sym)
    BY DEF Fits
  <2> QED BY <2>1, LiveIffRests
<1>2. o \in Order
  BY <1>1 DEF Fits, IsMap
<1>3. InBook(bks, ords, o)
  BY <1>1 DEF MayRestAt, InBook
<1> QED BY <1>1, <1>2, <1>3 DEF Resting

LEMMA RestingEntry ==
    ASSUME NEW bks, NEW ords, Fits(bks, ords), NEW o \in DOMAIN Resting(bks, ords)
    PROVE  /\ o \in DOMAIN ords /\ o \in Order
           /\ Resting(bks, ords)[o] = Entry(ords[o])
           /\ ords[o].symbol \in Symbol /\ ords[o].side \in Side
           /\ RestsAt(bks[ords[o].symbol], o, ords[o].side, ords[o].price)
<1>1. o \in DOMAIN ords /\ InBook(bks, ords, o)
  BY DEF Resting
<1>2. o \in Order /\ ords[o] \in OrderRecord
  BY <1>1 DEF Fits, IsMap
<1>3. ords[o].symbol \in Symbol /\ ords[o].side \in Side
  BY <1>2 DEF OrderRecord
<1>4. Resting(bks, ords)[o] = Entry(ords[o])
  BY <1>1 DEF Resting
<1> QED BY <1>1, <1>2, <1>3, <1>4 DEF InBook

(* An order is mapped when it rests anywhere. *)
LEMMA RestingAnywhere ==
    ASSUME NEW bks, NEW ords, Fits(bks, ords)
    PROVE  \A o : o \in DOMAIN Resting(bks, ords) <=> Stands(bks, o)
<1>1. ASSUME NEW o, Stands(bks, o) PROVE o \in DOMAIN Resting(bks, ords)
  <2>1. PICK sym \in Symbol, s \in Side : \E p : RestsAt(bks[sym], o, s, p)
    BY <1>1 DEF Stands
  <2>2. PICK p : RestsAt(bks[sym], o, s, p)
    BY <2>1
  <2> QED BY <2>2, RestingIsOrder
<1>2. ASSUME NEW o \in DOMAIN Resting(bks, ords) PROVE Stands(bks, o)
  <2>1. /\ ords[o].symbol \in Symbol /\ ords[o].side \in Side
        /\ RestsAt(bks[ords[o].symbol], o, ords[o].side, ords[o].price)
    BY RestingEntry
  <2> QED BY <2>1 DEF Stands
<1> QED BY <1>1, <1>2

LEMMA AheadPairs ==
    ASSUME NEW bks
    PROVE  /\ Ahead(bks) \subseteq Order \X Order
           /\ \A m, n \in Order : <<m, n>> \in Ahead(bks) <=> StandsBefore(bks, m, n)
BY DEF Ahead

(* Who stands before someone rests, and so does the other. *)
LEMMA BeforeRest ==
    ASSUME NEW bk, NEW s, NEW p, NEW m, NEW n, Before(bk, s, p, m, n)
    PROVE  RestsAt(bk, m, s, p) /\ RestsAt(bk, n, s, p)
BY DEF Before, InOrder, RestsAt

(* No book moves anything: the same orders, in the same order. *)
LEMMA NothingMoves ==
    ASSUME NEW bks, NEW ords, NEW new, NEW nords,
           Fits(bks, ords), Fits(new, nords),
           \A sym \in Symbol : SamePlaces(bks[sym], new[sym])
    PROVE  /\ DOMAIN Resting(new, nords) = DOMAIN Resting(bks, ords)
           /\ Ahead(new) = Ahead(bks)
<1>1. \A o : Stands(new, o) <=> Stands(bks, o)
  BY DEF SamePlaces, Stands
<1>2. \A m, n : StandsBefore(new, m, n) <=> StandsBefore(bks, m, n)
  BY DEF SamePlaces, StandsBefore
<1>3. \A o : o \in DOMAIN Resting(bks, ords) <=> Stands(bks, o)
  BY RestingAnywhere
<1>4. \A o : o \in DOMAIN Resting(new, nords) <=> Stands(new, o)
  BY RestingAnywhere
<1>5. Ahead(new) = Ahead(bks)
  BY <1>2 DEF Ahead
<1> QED BY <1>1, <1>3, <1>4, <1>5

(* The other books are as they were. *)
OthersSame(bks, new, sym) == \A z \in Symbol : z # sym => new[z] = bks[z]

(* The pairs without r, and those of which r is the later one. *)
PairsWithout(bks, r) == {pair \in Ahead(bks) : pair[1] # r /\ pair[2] # r}

AtPlace(bks, ords, sym, s, p) ==
    {n \in DOMAIN Resting(bks, ords) :
        /\ Resting(bks, ords)[n].symbol = sym
        /\ Resting(bks, ords)[n].side = s
        /\ Resting(bks, ords)[n].price = p}

PairsBehind(bks, ords, sym, s, p, r) ==
    {<<m, r>> : m \in AtPlace(bks, ords, sym, s, p)}

(* r, which rests at (s, p) in the book of sym, leaves; nothing else moves. *)
LeavesBook(bks, new, sym, s, p, r) ==
    /\ sym \in Symbol /\ s \in Side
    /\ RestsAt(bks[sym], r, s, p)
    /\ LeavesPlace(bks[sym], new[sym], r)
    /\ OthersSame(bks, new, sym)

(* r joins the back of (s, p) in the book of sym; nothing else moves. *)
JoinsBook(bks, new, sym, s, p, r) ==
    /\ sym \in Symbol /\ s \in Side
    /\ JoinsPlace(bks[sym], new[sym], r, s, p)
    /\ OthersSame(bks, new, sym)

(* One order leaves one book. *)
LEMMA OneLeaves ==
    ASSUME NEW bks, NEW ords, NEW new, NEW nords,
           Fits(bks, ords), Fits(new, nords),
           NEW sym, NEW s, NEW p, NEW r, LeavesBook(bks, new, sym, s, p, r)
    PROVE  /\ r \in DOMAIN Resting(bks, ords)
           /\ DOMAIN Resting(new, nords) = DOMAIN Resting(bks, ords) \ {r}
           /\ Ahead(new) = PairsWithout(bks, r)
<1>. /\ sym \in Symbol /\ s \in Side
     /\ RestsAt(bks[sym], r, s, p)
     /\ LeavesPlace(bks[sym], new[sym], r)
     /\ OthersSame(bks, new, sym)
  BY DEF LeavesBook
<1>1. r \in DOMAIN Resting(bks, ords) /\ ords[r].symbol = sym
  <2>1. MayRestAt(ords[r], sym, s, p) /\ r \in DOMAIN Resting(bks, ords)
    BY RestingIsOrder
  <2> QED BY <2>1 DEF MayRestAt
\* r rests in no other book
<1>2. ASSUME NEW z \in Symbol, NEW t \in Side, NEW x, RestsAt(bks[z], r, t, x)
      PROVE  z = sym
  <2>1. MayRestAt(ords[r], z, t, x)
    BY <1>2, RestingIsOrder
  <2> QED BY <1>1, <2>1 DEF MayRestAt
<1>3. \A z \in Symbol, t \in Side : \A x, m :
         RestsAt(new[z], m, t, x) <=> RestsAt(bks[z], m, t, x) /\ m # r
  <2> TAKE z \in Symbol, t \in Side
  <2>1. CASE z = sym
    BY <2>1 DEF LeavesPlace
  <2>2. CASE z # sym
    BY <1>2, <2>2 DEF OthersSame
  <2> QED BY <2>1, <2>2
<1>4. \A z \in Symbol, t \in Side : \A x, m, n :
         Before(new[z], t, x, m, n) <=> Before(bks[z], t, x, m, n) /\ m # r /\ n # r
  <2> TAKE z \in Symbol, t \in Side
  <2>1. CASE z = sym
    BY <2>1 DEF LeavesPlace
  <2>2. CASE z # sym
    <3>1. \A x, m, n : Before(bks[z], t, x, m, n) => m # r /\ n # r
      BY <1>2, <2>2, BeforeRest
    <3>2. new[z] = bks[z]
      BY <2>2 DEF OthersSame
    <3> QED BY <3>1, <3>2
  <2> QED BY <2>1, <2>2
<1>5. \A o : o \in DOMAIN Resting(new, nords)
               <=> o \in DOMAIN Resting(bks, ords) /\ o # r
  <2>1. \A o : o \in DOMAIN Resting(bks, ords) <=> Stands(bks, o)
    BY RestingAnywhere
  <2>2. \A o : o \in DOMAIN Resting(new, nords) <=> Stands(new, o)
    BY RestingAnywhere
  <2>3. \A o : Stands(new, o) <=> Stands(bks, o) /\ o # r
    BY <1>3 DEF Stands
  <2> QED BY <2>1, <2>2, <2>3
<1>6. Ahead(new) = PairsWithout(bks, r)
  <2>1. \A m, n : StandsBefore(new, m, n) <=> StandsBefore(bks, m, n) /\ m # r /\ n # r
    BY <1>4 DEF StandsBefore
  <2> QED BY <2>1 DEF Ahead, PairsWithout
<1> QED BY <1>1, <1>5, <1>6

(* One order joins the back of a deque in one book. *)
LEMMA OneJoins ==
    ASSUME NEW bks, NEW ords, NEW new, NEW nords,
           Fits(bks, ords), Fits(new, nords),
           NEW sym, NEW s, NEW p, NEW o \in Order, JoinsBook(bks, new, sym, s, p, o)
    PROVE  /\ DOMAIN Resting(new, nords) = DOMAIN Resting(bks, ords) \union {o}
           /\ Ahead(new) = Ahead(bks) \union PairsBehind(bks, ords, sym, s, p, o)
<1>. /\ sym \in Symbol /\ s \in Side
     /\ JoinsPlace(bks[sym], new[sym], o, s, p)
     /\ OthersSame(bks, new, sym)
  BY DEF JoinsBook
<1>1. \A z \in Symbol, t \in Side : \A x, m :
         RestsAt(new[z], m, t, x) <=>
            RestsAt(bks[z], m, t, x) \/ (m = o /\ z = sym /\ t = s /\ x = p)
  BY DEF JoinsPlace, OthersSame
<1>2. \A z \in Symbol, t \in Side : \A x, m, n :
         Before(new[z], t, x, m, n) <=>
            \/ Before(bks[z], t, x, m, n)
            \/ n = o /\ z = sym /\ t = s /\ x = p /\ RestsAt(bks[sym], m, s, p)
  BY DEF JoinsPlace, OthersSame
<1>3. \A m : m \in DOMAIN Resting(new, nords)
                <=> m \in DOMAIN Resting(bks, ords) \/ m = o
  <2>1. \A m : m \in DOMAIN Resting(bks, ords) <=> Stands(bks, m)
    BY RestingAnywhere
  <2>2. \A m : m \in DOMAIN Resting(new, nords) <=> Stands(new, m)
    BY RestingAnywhere
  <2>3. \A m : Stands(new, m) <=> Stands(bks, m) \/ m = o
    BY <1>1 DEF Stands
  <2> QED BY <2>1, <2>2, <2>3
<1> DEFINE B == AtPlace(bks, ords, sym, s, p)
\* those that o joins are the orders resting at its price
<1>4. ASSUME NEW m \in B PROVE RestsAt(bks[sym], m, s, p) /\ m \in Order
  <2>1. /\ Resting(bks, ords)[m] = Entry(ords[m]) /\ m \in Order
        /\ RestsAt(bks[ords[m].symbol], m, ords[m].side, ords[m].price)
    BY RestingEntry DEF AtPlace
  <2> QED BY <2>1 DEF Entry, AtPlace
<1>5. ASSUME NEW m, RestsAt(bks[sym], m, s, p) PROVE m \in B
  <2>1. MayRestAt(ords[m], sym, s, p) /\ m \in DOMAIN Resting(bks, ords)
    BY <1>5, RestingIsOrder
  <2>2. Resting(bks, ords)[m] = Entry(ords[m])
    BY <2>1, RestingEntry
  <2> QED BY <2>1, <2>2 DEF Entry, MayRestAt, AtPlace
<1> HIDE DEF B
<1>6. \A m, n : StandsBefore(new, m, n)
                   <=> StandsBefore(bks, m, n) \/ (n = o /\ m \in B)
  <2> SUFFICES ASSUME NEW m, NEW n
               PROVE  StandsBefore(new, m, n)
                         <=> StandsBefore(bks, m, n) \/ (n = o /\ m \in B)
    OBVIOUS
  <2>1. m \in B <=> RestsAt(bks[sym], m, s, p)
    BY <1>4, <1>5
  <2>2. ASSUME StandsBefore(new, m, n)
        PROVE  StandsBefore(bks, m, n) \/ (n = o /\ m \in B)
    BY <1>2, <2>1, <2>2 DEF StandsBefore
  <2>3. ASSUME StandsBefore(bks, m, n) PROVE StandsBefore(new, m, n)
    BY <1>2, <2>3 DEF StandsBefore
  <2>4. ASSUME n = o, m \in B PROVE StandsBefore(new, m, n)
    <3>1. Before(new[sym], s, p, m, n)
      BY <1>2, <2>1, <2>4
    <3> QED BY <3>1 DEF StandsBefore
  <2> QED BY <2>2, <2>3, <2>4
<1>7. Ahead(new) = Ahead(bks) \union {<<m, o>> : m \in B}
  <2>1. Ahead(new) \subseteq Order \X Order /\ Ahead(bks) \subseteq Order \X Order
    BY AheadPairs
  <2>2. {<<m, o>> : m \in B} \subseteq Order \X Order
    BY <1>4
  <2>3. \A m \in Order, n \in Order :
           <<m, n>> \in {<<k, o>> : k \in B} <=> n = o /\ m \in B
    OBVIOUS
  <2>4. \A m \in Order, n \in Order :
           <<m, n>> \in Ahead(new) <=> <<m, n>> \in Ahead(bks) \/ (n = o /\ m \in B)
    BY <1>6, AheadPairs
  <2> QED BY <2>1, <2>2, <2>3, <2>4
<1> QED BY <1>3, <1>7 DEF B, PairsBehind

(* What is mapped is what the objects say. *)
LEMMA SameEntries ==
    ASSUME NEW bks, NEW ords, NEW new, NEW nords, NEW D,
           D = DOMAIN Resting(new, nords), D \subseteq DOMAIN Resting(bks, ords),
           \A o \in D : Entry(nords[o]) = Entry(ords[o])
    PROVE  Resting(new, nords) = [o \in D |-> Resting(bks, ords)[o]]
<1>1. Resting(new, nords) = [o \in D |-> Entry(nords[o])]
  BY DEF Resting
<1>2. \A o \in D : Resting(bks, ords)[o] = Entry(ords[o])
  BY DEF Resting
<1> QED BY <1>1, <1>2

(* A step that moves nothing and changes no entry. *)
LEMMA SameResting ==
    ASSUME NEW bks, NEW ords, NEW new, NEW nords,
           Fits(bks, ords), Fits(new, nords),
           \A sym \in Symbol : SamePlaces(bks[sym], new[sym]),
           \A o \in DOMAIN Resting(bks, ords) : Entry(nords[o]) = Entry(ords[o])
    PROVE  /\ Resting(new, nords) = Resting(bks, ords)
           /\ Ahead(new) = Ahead(bks)
<1>1. DOMAIN Resting(new, nords) = DOMAIN Resting(bks, ords) /\ Ahead(new) = Ahead(bks)
  BY NothingMoves
<1>2. Resting(new, nords) = [o \in DOMAIN Resting(bks, ords) |-> Resting(bks, ords)[o]]
  BY <1>1, SameEntries
<1>3. Resting(bks, ords) = [o \in DOMAIN Resting(bks, ords) |-> Resting(bks, ords)[o]]
  BY DEF Resting
<1> QED BY <1>1, <1>2, <1>3

LEMMA StaysPut == \A bk : SamePlaces(bk, bk)
BY DEF SamePlaces

(* The exchange of the abstract market begins empty. *)
LEMMA InitRefines == Init => Abstract!Init
<1> SUFFICES ASSUME Init PROVE Abstract!Init
  OBVIOUS
<1>1. DOMAIN orders = {} /\ aggressor = NoOrder
  BY DEF Init, EmptyMap
<1>2. \A sym \in Symbol : \A s \in Side : DOMAIN books[sym].level[s] = {}
  BY DEF Init, EmptyBook, EmptyMap
<1>3. restingMap = [o \in {} |-> o]
  BY <1>1 DEF restingMap
<1>4. aheadMap = {}
  BY <1>2 DEF aheadMap
<1>5. takerMap = [order |-> NoOrder]
  BY <1>1 DEF takerMap
<1> QED BY <1>3, <1>4, <1>5 DEF Abstract!Init, Abstract!NoTaker, Init

(* An order arrives, or is refused and leaves no trace. *)
LEMMA SubmitRefines ==
    ASSUME Inv, Inv', NEW o \in Order, NEW in, SubmitOrder(o, in)
    PROVE  [Abstract!Next]_(Abstract!abstractVars)
<1> DEFINE r      == NewOrder(in)
           ords   == Put(orders, o, r)
           killed == ords[o].tif = "FOK"
                        /\ ~CanFillCompletely(ords[o], books[ords[o].symbol])
           st     == IF killed THEN "CANCELLED" ELSE "NEW"
<1>1. /\ aggressor = NoOrder
      /\ o \notin DOMAIN orders
      /\ books' = books
      /\ orders' = [ords EXCEPT ![o].status = st]
      /\ aggressor' = IF killed THEN NoOrder ELSE o
      /\ UNCHANGED metrics
  BY DEF SubmitOrder, Enter
<1> HIDE DEF r, killed
<1>2. /\ \A y \in DOMAIN orders : orders'[y] = orders[y]
      /\ o \in DOMAIN orders'
  BY <1>1 DEF Put
<1> HIDE DEF ords, st
<1>3. Fits(books, orders) /\ Fits(books', orders')
  BY InvFits
<1>4. \A y \in DOMAIN Resting(books, orders) : y \in DOMAIN orders
  BY <1>3, RestingEntry
<1>5. Resting(books', orders') = Resting(books, orders) /\ Ahead(books') = Ahead(books)
  <2>1. \A y \in DOMAIN Resting(books, orders) : Entry(orders'[y]) = Entry(orders[y])
    BY <1>2, <1>4
  <2>2. \A sym \in Symbol : SamePlaces(books[sym], books'[sym])
    BY <1>1, StaysPut
  <2> QED BY <1>3, <2>1, <2>2, SameResting
<1>6. restingMap' = restingMap /\ aheadMap' = aheadMap
  BY <1>5, MappedResting, MappedAhead
<1>7. UNCHANGED <<volume_traded, total_value_traded>>
  BY <1>1 DEF metrics
<1>8. takerMap = [order |-> NoOrder]
  BY <1>1 DEF takerMap
<1>9. CASE killed
  <2>1. takerMap' = takerMap
    BY <1>1, <1>9 DEF takerMap
  <2> QED BY <1>6, <1>7, <2>1 DEF Abstract!abstractVars
<1>10. CASE ~killed
  <2>1. aggressor' = o /\ o # NoOrder
    BY <1>1, <1>10, NoOrderAssumption
  <2>2. /\ orders'[o].symbol \in Symbol /\ orders'[o].side \in Side
        /\ orders'[o].price \in Price /\ Remaining(orders'[o]) \in Nat
    <3>1. orders'[o] \in OrderRecord /\ orders'[o].filled_qty <= orders'[o].quantity
      BY <1>2 DEF Inv, TypeOK, IsMap, StatusMatchesFills
    <3>2. orders'[o].quantity \in Nat /\ orders'[o].filled_qty \in Nat
      BY <3>1, U32Assumption DEF OrderRecord, UInt32
    <3> QED BY <3>1, <3>2 DEF OrderRecord, Remaining
  <2>3. takerMap' = [order  |-> o,
                     symbol |-> orders'[o].symbol,
                     side   |-> orders'[o].side,
                     market |-> orders'[o].type = "MARKET",
                     price  |-> orders'[o].price,
                     qty    |-> Remaining(orders'[o]),
                     rests  |-> orders'[o].type = "LIMIT" /\ orders'[o].tif = "GTC"]
    BY <2>1 DEF takerMap, Taker
  <2>4. takerMap' \in Abstract!Takers
    BY <2>2, <2>3 DEF Abstract!Takers, Abstract!Sides, Side, Price
  <2>5. o \notin DOMAIN restingMap
    BY <1>1, <1>4, MappedResting
  <2>6. Abstract!Arrive(o)
    BY <1>6, <1>7, <1>8, <2>3, <2>4, <2>5 DEF Abstract!Arrive, Abstract!NoTaker
  <2> QED BY <2>6 DEF Abstract!Next
<1> QED BY <1>9, <1>10

(* An emptied level is no part of the market. *)
LEMMA EraseRefines ==
    ASSUME Inv, Inv', EraseLevel
    PROVE  UNCHANGED Abstract!abstractVars
<1>1. /\ aggressor # NoOrder /\ LevelSpent
      /\ books' = [books EXCEPT ![Taker.symbol] =
                      EraseLevelOf(TakerBook, MakerSide, SweepPrice)]
      /\ orders' = orders /\ aggressor' = aggressor
      /\ UNCHANGED metrics
  BY DEF EraseLevel
<1>2. /\ Taker.symbol \in Symbol /\ MakerSide \in Side /\ IsBook(TakerBook)
      /\ SweepPrice \in DOMAIN TakerBook.level[MakerSide]
      /\ TakerBook.level[MakerSide][SweepPrice].orders = <<>>
  BY <1>1, SweepFacts DEF LevelSpent, SweepLevel, BestLevel, SweepPrice
<1> DEFINE new == EraseLevelOf(TakerBook, MakerSide, SweepPrice)
<1>3. SamePlaces(TakerBook, new)
  <2>1. TakerBook.level = [t \in Side |-> TakerBook.level[t]]
    BY <1>2 DEF IsBook
  <2>2. new.level = [TakerBook.level EXCEPT ![MakerSide] =
                        Erase(TakerBook.level[MakerSide], SweepPrice)]
    BY DEF EraseLevelOf
  <2> HIDE DEF new
  <2>3. /\ new.level[MakerSide] = Erase(TakerBook.level[MakerSide], SweepPrice)
        /\ \A t \in Side : t # MakerSide => new.level[t] = TakerBook.level[t]
    BY <1>2, <2>1, <2>2, Zenon
  <2>4. \A t \in Side :
           /\ DOMAIN new.level[t] \subseteq DOMAIN TakerBook.level[t]
           /\ \A x \in DOMAIN new.level[t] :
                 new.level[t][x].orders = TakerBook.level[t][x].orders
           /\ \A x \in DOMAIN TakerBook.level[t] \ DOMAIN new.level[t] :
                 TakerBook.level[t][x].orders = <<>>
    BY <1>2, <2>3 DEF Erase
  <2> QED BY <2>4, SameQueuesPlaces
<1>4. \A sym \in Symbol : SamePlaces(books[sym], books'[sym])
  <2>1. books = [x \in Symbol |-> books[x]]
    BY DEF Inv, TypeOK
  <2> HIDE DEF new
  <2>2. /\ books'[Taker.symbol] = new
        /\ \A sym \in Symbol : sym # Taker.symbol => books'[sym] = books[sym]
    BY <1>1, <1>2, <2>1, Zenon DEF new
  <2> QED BY <1>3, <2>2, StaysPut DEF TakerBook
<1>5. Fits(books, orders) /\ Fits(books', orders')
  BY InvFits
<1>6. Resting(books', orders') = Resting(books, orders) /\ Ahead(books') = Ahead(books)
  <2>1. \A o \in DOMAIN Resting(books, orders) : Entry(orders'[o]) = Entry(orders[o])
    BY <1>1
  <2> QED BY <1>4, <1>5, <2>1, SameResting
<1>7. takerMap' = takerMap
  BY <1>1 DEF takerMap, Taker
<1> QED BY <1>1, <1>6, <1>7, MappedResting, MappedAhead
        DEF Abstract!abstractVars, metrics

(* A cancel: the order that the index leads to leaves, the others keep     *)
(* their places; an entry that leads to no order is no part of the market. *)
LEMMA CancelRefines ==
    ASSUME Inv, Inv', NEW sym \in Symbol, NEW id, CancelOrder(sym, id)
    PROVE  [Abstract!Next]_(Abstract!abstractVars)
<1> DEFINE bk  == books[sym]
           new == CancelInBook(bk, orders, id)
<1>1. /\ aggressor = NoOrder /\ id \in DOMAIN bk.order_index
      /\ books' = [books EXCEPT ![sym] = new]
      /\ orders' = orders /\ aggressor' = aggressor
      /\ UNCHANGED metrics
  BY DEF CancelOrder
<1>2. BookInv(bk)
  BY DEF Inv
<1>3. \A t \in Side : \A x \in DOMAIN bk.level[t] : \A j \in DOMAIN bk.level[t][x].orders :
         Remaining(orders[bk.level[t][x].orders[j]]) \in Int
  BY RestingOrder, OrderTypes DEF RestsAt
<1>4. \/ \E o : \E s \in Side, p \in Price :
             RestsAt(bk, o, s, p) /\ LeavesPlace(bk, new, o)
      \/ SamePlaces(bk, new)
  <2> HIDE DEF bk
  <2> QED BY <1>1, <1>2, <1>3, CancelPlaces
<1> HIDE DEF new
<1>5. books'[sym] = new /\ OthersSame(books, books', sym)
  <2>1. books = [x \in Symbol |-> books[x]]
    BY DEF Inv, TypeOK
  <2> QED BY <1>1, <2>1, Zenon DEF OthersSame
<1>6. Fits(books, orders) /\ Fits(books', orders')
  BY InvFits
<1>7. takerMap = [order |-> NoOrder] /\ takerMap' = takerMap
  BY <1>1 DEF takerMap, Taker
<1>8. ASSUME NEW o, NEW s \in Side, NEW p \in Price,
             RestsAt(bk, o, s, p), LeavesPlace(bk, new, o)
      PROVE  Abstract!Next
  <2>1. LeavesBook(books, books', sym, s, p, o)
    BY <1>5, <1>8 DEF LeavesBook
  <2>2. /\ o \in DOMAIN Resting(books, orders)
        /\ DOMAIN Resting(books', orders') = DOMAIN Resting(books, orders) \ {o}
        /\ Ahead(books') = PairsWithout(books, o)
    BY <1>6, <2>1, OneLeaves
  <2>3. Resting(books', orders') =
           [x \in DOMAIN Resting(books, orders) \ {o} |-> Resting(books, orders)[x]]
    <3>1. \A x \in DOMAIN Resting(books, orders) \ {o} : Entry(orders'[x]) = Entry(orders[x])
      BY <1>1
    <3> QED BY <2>2, <3>1, SameEntries
  <2>4. Abstract!Leave(o)
    BY <1>1, <1>7, <2>2, <2>3, MappedResting, MappedAhead
       DEF Abstract!Leave, Abstract!RestingWithout, Abstract!AheadWithout,
           Abstract!NoTaker, PairsWithout, metrics
  <2>5. o \in Order
    BY <1>8, RestingOrder, OrderTypes
  <2> QED BY <2>4, <2>5 DEF Abstract!Next
<1>9. CASE SamePlaces(bk, new)
  <2>1. \A z \in Symbol : SamePlaces(books[z], books'[z])
    BY <1>5, <1>9, StaysPut DEF OthersSame
  <2>2. Resting(books', orders') = Resting(books, orders) /\ Ahead(books') = Ahead(books)
    <3>1. \A o \in DOMAIN Resting(books, orders) : Entry(orders'[o]) = Entry(orders[o])
      BY <1>1
    <3> QED BY <1>6, <2>1, <3>1, SameResting
  <2>3. UNCHANGED Abstract!abstractVars
    BY <1>1, <1>7, <2>2, MappedResting, MappedAhead DEF Abstract!abstractVars, metrics
  <2> QED BY <2>3
<1> QED BY <1>4, <1>8, <1>9

(* The front of the best level comes first by price and then by arrival. *)
LEMMA MakerHasPriority ==
    ASSUME Inv, aggressor # NoOrder, MayFill, ~LevelSpent
    PROVE  /\ Maker \in DOMAIN restingMap
           /\ restingMap[Maker] = Entry(orders[Maker])
           /\ Abstract!Acceptable(Maker)
           /\ Abstract!HasPriority(Maker)
<1> DEFINE m == Maker
           q == TakerBook.level[MakerSide][SweepPrice].orders
           R == Resting(books, orders)
<1>1. /\ aggressor \in DOMAIN orders /\ Taker.symbol \in Symbol
      /\ Taker.side \in Side /\ MakerSide \in Side
      /\ (Taker.side = "BUY" <=> MakerSide = "SELL")
      /\ IsBook(TakerBook)
  BY SweepFacts
<1>2. /\ SweepPrice \in DOMAIN TakerBook.level[MakerSide]
      /\ q # <<>> /\ m = Head(q)
      /\ RestsAt(TakerBook, m, MakerSide, SweepPrice)
      /\ MayRestAt(orders[m], Taker.symbol, MakerSide, SweepPrice)
  BY FillFacts
<1>3. /\ HasLevels(TakerBook, MakerSide)
      /\ MakerSide = "BUY" =>
            \A p \in DOMAIN TakerBook.level[MakerSide] : p <= SweepPrice
      /\ MakerSide = "SELL" =>
            \A p \in DOMAIN TakerBook.level[MakerSide] : p >= SweepPrice
  BY SweepFacts DEF MayFill
<1>4. Fits(books, orders)
  BY InvFits
<1>5. m \in DOMAIN R /\ m \in Order /\ R[m] = Entry(orders[m])
  <2>1. RestsAt(books[Taker.symbol], m, MakerSide, SweepPrice)
    BY <1>2 DEF TakerBook
  <2>2. m \in DOMAIN R /\ m \in Order
    <3> HIDE DEF m
    <3> QED BY <1>1, <1>4, <2>1, RestingIsOrder
  <2> QED BY <1>4, <2>2, RestingEntry
<1>6. q[1] = m /\ 1 \in DOMAIN q /\ DOMAIN q \subseteq Nat \ {0}
  <2>1. q \in Seq(Order) /\ DOMAIN q = 1..Len(q)
    <3> DEFINE bk == TakerBook
               s  == MakerSide
               p  == SweepPrice
    <3>1. IsBook(bk) /\ s \in Side /\ p \in DOMAIN bk.level[s]
      BY <1>1, <1>2
    <3>2. bk.level[s][p].orders = q
      OBVIOUS
    <3> HIDE DEF bk, s, p, q, m
    <3> QED BY <3>1, <3>2, QueueProperties
  <2> HIDE DEF q, m
  <2> QED BY <1>2, <2>1, TailIsRemoveAt
<1>7. DOMAIN TakerBook.level[MakerSide] \subseteq Int
  <2>1. Price \subseteq Int
    BY MaxPriceAssumption DEF Price
  <2> QED BY <1>1, <2>1 DEF IsBook, IsMap
<1>8. ASSUME NEW n \in DOMAIN R, n # m,
             R[n].symbol = Taker.symbol, R[n].side = MakerSide
      PROVE  \/ MakerSide = "BUY"  /\ SweepPrice > R[n].price
             \/ MakerSide = "SELL" /\ SweepPrice < R[n].price
             \/ SweepPrice = R[n].price /\ <<m, n>> \in Ahead(books)
  <2>1. /\ n \in Order /\ R[n] = Entry(orders[n])
        /\ RestsAt(books[orders[n].symbol], n, orders[n].side, orders[n].price)
    BY <1>4, RestingEntry
  <2> DEFINE x == R[n].price
  <2>2. RestsAt(TakerBook, n, MakerSide, x)
    BY <1>8, <2>1 DEF Entry, TakerBook
  <2>3. x \in DOMAIN TakerBook.level[MakerSide]
    BY <2>2 DEF RestsAt
  <2>4. CASE x = SweepPrice
    <3>1. PICK j \in DOMAIN q : q[j] = n
      BY <2>2, <2>4 DEF RestsAt
    <3>2. 1 < j
      <4> HIDE DEF q, m
      <4> QED BY <1>6, <1>8, <3>1
    <3>3. InOrder(q, m, n)
      <4> HIDE DEF q, m
      <4> QED BY <1>6, <3>1, <3>2 DEF InOrder
    <3>4. Before(books[Taker.symbol], MakerSide, SweepPrice, m, n)
      BY <1>2, <3>3 DEF Before, TakerBook
    <3>5. StandsBefore(books, m, n)
      <4> HIDE DEF m
      <4> QED BY <1>1, <3>4 DEF StandsBefore
    <3>6. <<m, n>> \in Ahead(books)
      <4> HIDE DEF m
      <4> QED BY <1>5, <2>1, <3>5, AheadPairs
    <3> QED BY <2>4, <3>6
  <2>5. CASE x # SweepPrice
    <3>1. x \in Int /\ SweepPrice \in Int
      BY <1>2, <1>7, <2>3
    <3>2. MakerSide = "BUY" => SweepPrice > x
      BY <1>3, <2>3, <2>5, <3>1
    <3>3. MakerSide = "SELL" => SweepPrice < x
      BY <1>3, <2>3, <2>5, <3>1
    <3> HIDE DEF x
    <3> QED BY <1>1, <3>2, <3>3 DEF Side, x
  <2> QED BY <2>4, <2>5
<1>9. /\ takerMap.order = aggressor /\ takerMap.symbol = Taker.symbol
      /\ takerMap.side = Taker.side /\ takerMap.market = (Taker.type = "MARKET")
      /\ takerMap.price = Taker.price /\ takerMap.qty = Remaining(Taker)
  BY DEF takerMap
<1>10. takerMap # Abstract!NoTaker
  <2>1. Abstract!NoTaker.order = NoOrder
    BY DEF Abstract!NoTaker
  <2> QED BY <1>9, <2>1
<1>11. /\ R[m].symbol = Taker.symbol /\ R[m].side = MakerSide
       /\ R[m].price = SweepPrice
  <2>1. /\ orders[m].symbol = Taker.symbol /\ orders[m].side = MakerSide
        /\ orders[m].price = SweepPrice
    BY <1>2 DEF MayRestAt
  <2>2. R[m] = Entry(orders[m])
    BY <1>5
  <2> HIDE DEF m, q, R
  <2> QED BY <2>1, <2>2 DEF Entry
<1> HIDE DEF R, m
<1>12. restingMap = R /\ aheadMap = Ahead(books)
  BY MappedResting, MappedAhead DEF R
<1>13. Abstract!HasPriority(m)
  BY <1>8, <1>11, <1>12
     DEF Abstract!HasPriority, Abstract!SameSide, Abstract!Precedes
<1>14. Abstract!Acceptable(m)
  <2>1. Crosses(Taker, SweepPrice) /\ Remaining(Taker) > 0
    BY DEF MayFill
  <2> QED BY <1>1, <1>9, <1>10, <1>11, <1>12, <2>1
          DEF Abstract!Acceptable, Crosses, Side
<1> QED BY <1>5, <1>12, <1>13, <1>14 DEF m

LEMMA FillQtyIs ==
    ASSUME NEW a, NEW b
    PROVE  Abstract!Min({a, b}) = Min({a, b})
BY DEF Abstract!Min, Min

(* What execute_fill does to the abstract quantities. *)
LEMMA FillRefines ==
    ASSUME Inv, Inv', ExecuteFill
    PROVE  Abstract!Next
<1> DEFINE m    == Maker
           a    == aggressor
           qty  == FillQty
           sym0 == Taker.symbol
           s0   == MakerSide
           p0   == SweepPrice
           open == Remaining(orders[m])
           R    == Resting(books, orders)
           N    == Resting(books', orders')
<1>1. a # NoOrder /\ MayFill /\ ~LevelSpent
  BY DEF ExecuteFill
<1>2. /\ p0 \in DOMAIN TakerBook.level[s0]
      /\ TakerBook.level[s0][p0].orders # <<>>
      /\ m = Head(TakerBook.level[s0][p0].orders)
      /\ RestsAt(TakerBook, m, s0, p0)
      /\ m \in DOMAIN orders /\ m # a
      /\ MayRestAt(orders[m], sym0, s0, p0)
      /\ qty \in Nat /\ qty > 0 /\ qty <= open
  BY <1>1, FillFacts
<1>3. a \in DOMAIN orders /\ sym0 \in Symbol /\ s0 \in Side /\ BookInv(TakerBook)
  BY <1>1, SweepFacts
<1>4. /\ a' = a
      /\ \A x \in {a, m} :
            /\ Remaining(orders'[x]) = Remaining(orders[x]) - qty
            /\ orders'[x].symbol = orders[x].symbol
            /\ orders'[x].side = orders[x].side
            /\ orders'[x].type = orders[x].type
            /\ orders'[x].tif = orders[x].tif
            /\ orders'[x].price = orders[x].price
      /\ \A x \in DOMAIN orders : x # a /\ x # m => orders'[x] = orders[x]
      /\ books'[sym0] = FillFront(TakerBook, s0, p0, qty, qty = open)
      /\ \A x \in Symbol : x # sym0 => books'[x] = books[x]
      /\ volume_traded' = volume_traded + qty
  BY FillEffect
<1>5. total_value_traded' = total_value_traded + qty * p0
  BY DEF ExecuteFill
<1>6. /\ m \in DOMAIN R /\ R[m] = Entry(orders[m])
      /\ Abstract!Acceptable(m) /\ Abstract!HasPriority(m)
  BY <1>1, MakerHasPriority, MappedResting
<1>7. Fits(books, orders) /\ Fits(books', orders')
  BY InvFits
<1>8. open \in Nat
  BY <1>2, OrderTypes
<1>9. \A x \in DOMAIN R : x # m => Entry(orders'[x]) = Entry(orders[x])
  <2>1. \A x \in DOMAIN R : x \in DOMAIN orders
    BY DEF Resting
  <2>2. \A x : x # a /\ x # m /\ x \in DOMAIN orders => orders'[x] = orders[x]
    BY <1>4
  <2>3. a \notin DOMAIN R
    <3>1. ASSUME a \in DOMAIN R PROVE FALSE
      <4>1. /\ orders[a].symbol \in Symbol /\ orders[a].side \in Side
            /\ RestsAt(books[orders[a].symbol], a, orders[a].side, orders[a].price)
        <5> HIDE DEF a
        <5> QED BY <1>7, <3>1, RestingEntry
      <4> QED BY <4>1 DEF Inv, TakerAway
    <3> QED BY <3>1
  <2> QED BY <2>1, <2>2, <2>3
\* the book of the taker
<1> DEFINE done == qty = open
           new  == books'[sym0]
           bk   == TakerBook
<1>10. /\ done => LeavesPlace(bk, new, m)
       /\ ~done => SamePlaces(bk, new)
  <2>1. new = FillFront(bk, s0, p0, qty, done)
    BY <1>4
  <2>2. qty \in Int /\ done \in BOOLEAN
    BY <1>2
  <2>3. s0 \in Side /\ BookInv(bk)
    BY <1>3
  <2>4. p0 \in DOMAIN bk.level[s0] /\ bk.level[s0][p0].orders # <<>>
    BY <1>2
  <2>5. m = Head(bk.level[s0][p0].orders)
    BY <1>2
  <2> HIDE DEF m, qty, s0, p0, done, new, bk
  <2> QED BY <2>1, <2>2, <2>3, <2>4, <2>5, FillFrontPlaces
<1>11. LET left == open - qty
       IN  /\ N = IF left = 0 THEN [x \in DOMAIN R \ {m} |-> R[x]]
                  ELSE [R EXCEPT ![m].qty = left]
           /\ Ahead(books') = IF left = 0 THEN PairsWithout(books, m)
                              ELSE Ahead(books)
  <2>1. CASE qty = open
    <3>1. LeavesPlace(TakerBook, books'[sym0], m)
      BY <1>10, <2>1
    <3>2. LeavesBook(books, books', sym0, s0, p0, m)
      BY <1>2, <1>3, <1>4, <3>1 DEF LeavesBook, OthersSame, TakerBook
    <3> HIDE DEF m, sym0, s0, p0
    <3>3. DOMAIN N = DOMAIN R \ {m} /\ Ahead(books') = PairsWithout(books, m)
      BY <1>7, <3>2, OneLeaves
    <3>4. N = [x \in DOMAIN R \ {m} |-> R[x]]
      BY <1>9, <3>3, SameEntries
    <3>5. open - qty = 0
      BY <1>8, <2>1
    <3> QED BY <3>3, <3>4, <3>5
  <2>2. CASE qty # open
    <3>1. SamePlaces(TakerBook, books'[sym0])
      BY <1>10, <2>2
    <3>2. \A z \in Symbol : SamePlaces(books[z], books'[z])
      BY <1>4, <3>1, StaysPut DEF TakerBook
    <3> HIDE DEF m, a
    <3>3. DOMAIN N = DOMAIN R /\ Ahead(books') = Ahead(books)
      BY <1>7, <3>2, NothingMoves
    <3>4. open - qty # 0
      BY <1>2, <1>8, <2>2
    <3>5. Entry(orders'[m]) = [R[m] EXCEPT !.qty = open - qty]
      BY <1>4, <1>6 DEF Entry
    <3>6. N = [x \in DOMAIN R |-> Entry(orders'[x])]
      BY <3>3 DEF Resting
    <3>7. R = [x \in DOMAIN R |-> Entry(orders[x])]
      BY DEF Resting
    <3>8. \A x \in DOMAIN R : x # m => R[x] = Entry(orders[x])
      BY <3>7
    <3> HIDE DEF N, R, open
    <3>9. N = [R EXCEPT ![m].qty = open - qty]
      BY <1>6, <1>9, <3>5, <3>6, <3>7, <3>8
    <3> QED BY <3>3, <3>4, <3>9
  <2> QED BY <2>1, <2>2
<1>12. takerMap' = [takerMap EXCEPT !.qty = @ - qty]
  <2>1. takerMap = [order |-> a, symbol |-> Taker.symbol, side |-> Taker.side,
                    market |-> Taker.type = "MARKET", price |-> Taker.price,
                    qty |-> Remaining(Taker),
                    rests |-> Taker.type = "LIMIT" /\ Taker.tif = "GTC"]
    BY <1>1 DEF takerMap
  <2>2. takerMap' = [order |-> a, symbol |-> orders'[a].symbol,
                     side |-> orders'[a].side,
                     market |-> orders'[a].type = "MARKET",
                     price |-> orders'[a].price,
                     qty |-> Remaining(orders'[a]),
                     rests |-> orders'[a].type = "LIMIT" /\ orders'[a].tif = "GTC"]
    BY <1>1, <1>4 DEF takerMap, Taker
  <2>3. /\ Remaining(orders'[a]) = Remaining(Taker) - qty
        /\ orders'[a].symbol = Taker.symbol /\ orders'[a].side = Taker.side
        /\ orders'[a].type = Taker.type /\ orders'[a].tif = Taker.tif
        /\ orders'[a].price = Taker.price
    BY <1>4 DEF Taker
  <2> HIDE DEF a, qty
  <2> QED BY <2>1, <2>2, <2>3
<1>13. qty = Abstract!Min({takerMap.qty, restingMap[m].qty})
  <2>1. takerMap.qty = Remaining(Taker)
    BY <1>1 DEF takerMap
  <2>2. restingMap[m].qty = open
    <3>1. restingMap[m] = Entry(orders[m])
      BY <1>6, MappedResting
    <3> HIDE DEF m
    <3> QED BY <3>1 DEF Entry
  <2> QED BY <2>1, <2>2, FillQtyIs DEF FillQty
<1>14. restingMap[m].qty = open /\ restingMap[m].price = p0
  <2>1. restingMap[m] = Entry(orders[m]) /\ orders[m].price = p0
    BY <1>2, <1>6, MappedResting DEF MayRestAt
  <2> HIDE DEF m, p0
  <2>2. restingMap[m].qty = Remaining(orders[m]) /\ restingMap[m].price = orders[m].price
    BY <2>1 DEF Entry
  <2> QED BY <2>1, <2>2
<1>15. m \in DOMAIN restingMap
  BY <1>6, MappedResting
<1> HIDE DEF m, a, qty, sym0, s0, p0, open
<1>16. Abstract!Trade(m)
  <2>1. restingMap = R /\ restingMap' = N
    BY MappedResting
  <2>2. aheadMap = Ahead(books) /\ aheadMap' = Ahead(books')
    BY MappedAhead
  <2> HIDE DEF R, N
  <2>3. /\ restingMap' = IF open - qty = 0 THEN Abstract!RestingWithout(m)
                         ELSE [restingMap EXCEPT ![m].qty = open - qty]
        /\ aheadMap' = IF open - qty = 0 THEN Abstract!AheadWithout(m) ELSE aheadMap
    BY <1>11, <2>1, <2>2
       DEF Abstract!RestingWithout, Abstract!AheadWithout, PairsWithout
  <2> QED BY <1>4, <1>5, <1>6, <1>12, <1>13, <1>14, <2>3 DEF Abstract!Trade
<1> QED BY <1>15, <1>16 DEF Abstract!Next

(* When the loops end no resting order is acceptable to the taker. *)
LEMMA NoneAcceptable ==
    ASSUME Inv, aggressor # NoOrder, ~LevelSpent, ~MayFill
    PROVE  \A m \in DOMAIN restingMap : ~Abstract!Acceptable(m)
<1> DEFINE R == Resting(books, orders)
<1> SUFFICES ASSUME NEW m \in DOMAIN R, Abstract!Acceptable(m) PROVE FALSE
  BY MappedResting
<1>1. /\ takerMap.symbol = Taker.symbol /\ takerMap.side = Taker.side
      /\ takerMap.market = (Taker.type = "MARKET")
      /\ takerMap.price = Taker.price /\ takerMap.qty = Remaining(Taker)
  BY DEF takerMap
<1>2. restingMap = R
  BY MappedResting
<1>3. /\ orders[m].side \in Side
      /\ R[m] = Entry(orders[m])
      /\ RestsAt(books[orders[m].symbol], m, orders[m].side, orders[m].price)
  BY InvFits, RestingEntry
<1> DEFINE x == orders[m].price
           s == orders[m].side
<1>4. R[m].symbol = orders[m].symbol /\ R[m].side = s /\ R[m].price = x
  BY <1>3 DEF Entry
<1>5. /\ Remaining(Taker) > 0
      /\ orders[m].symbol = Taker.symbol
      /\ s # Taker.side
      /\ \/ Taker.type = "MARKET"
         \/ Taker.side = "BUY"  /\ x <= Taker.price
         \/ Taker.side = "SELL" /\ x >= Taker.price
  BY <1>1, <1>2, <1>4 DEF Abstract!Acceptable
<1>6. /\ aggressor \in DOMAIN orders
      /\ Taker.side \in Side /\ MakerSide \in Side
      /\ (Taker.side = "BUY" <=> MakerSide = "SELL")
      /\ IsBook(TakerBook)
  BY SweepFacts
<1>7. s = MakerSide
  BY <1>3, <1>5, <1>6 DEF Side
<1>8. x \in DOMAIN TakerBook.level[MakerSide]
  BY <1>3, <1>5, <1>7 DEF RestsAt, TakerBook
<1>9. ~Crosses(Taker, SweepPrice)
  BY <1>5, <1>8 DEF MayFill, HasLevels
<1>10. Taker.type = "LIMIT"
  <2>1. Taker.type # "MARKET"
    BY <1>9 DEF Crosses
  <2>2. Taker \in OrderRecord
    BY <1>6, OrderTypes DEF Taker
  <2> QED BY <2>1, <2>2 DEF OrderRecord, OrderType
<1>11. x \in Nat /\ Taker.price \in Nat
  <2>1. Price \subseteq Nat
    BY MaxPriceAssumption DEF Price
  <2>2. Taker.price \in Price
    BY <1>6, OrderTypes DEF Taker
  <2>3. x \in Price
    BY <1>6, <1>8 DEF IsBook, IsMap
  <2> QED BY <2>1, <2>2, <2>3
<1>12. /\ Taker.side = "BUY" => Taker.price < x
       /\ Taker.side = "SELL" => x < Taker.price
  <2>1. /\ Taker.side = "BUY" =>
              \A y \in DOMAIN TakerBook.level["SELL"] : Taker.price < y
        /\ Taker.side = "SELL" =>
              \A y \in DOMAIN TakerBook.level["BUY"] : y < Taker.price
    BY <1>5, <1>10, SweptClean
  <2> QED BY <1>6, <1>8, <2>1 DEF Side
<1> QED BY <1>5, <1>10, <1>11, <1>12

(* What is left of the taker rests exactly when the abstract rule says so. *)
LEMMA RestsIs ==
    ASSUME Inv, aggressor # NoOrder
    PROVE  RestsRemainder <=> takerMap.qty > 0 /\ takerMap.rests
<1>1. /\ takerMap.qty = Remaining(Taker)
      /\ takerMap.rests = (Taker.type = "LIMIT" /\ Taker.tif = "GTC")
  BY DEF takerMap
<1>2. aggressor \in DOMAIN orders
  BY SweepFacts
<1>3. Remaining(Taker) > 0 => IsActive(Taker)
  <2>1. Taker.status \in {"NEW", "PARTIALLY_FILLED", "FILLED"}
    BY DEF Inv, TakerOpen
  <2>2. Taker.status = "FILLED" => Taker.filled_qty = Taker.quantity
    BY <1>2 DEF Inv, StatusMatchesFills, Taker
  <2>3. Taker.filled_qty \in Nat /\ Taker.quantity \in Nat
    BY <1>2, OrderTypes DEF Taker
  <2> QED BY <2>1, <2>2, <2>3 DEF IsActive, Remaining
<1> QED BY <1>1, <1>3 DEF RestsRemainder, Leftover

(* The end of a call settles the taker. *)
LEMMA FinishRefines ==
    ASSUME Inv, Inv', Finish
    PROVE  Abstract!Next
<1> DEFINE a    == aggressor
           sym0 == Taker.symbol
           s0   == Taker.side
           p0   == Taker.price
           R    == Resting(books, orders)
           N    == Resting(books', orders')
<1>1. /\ a # NoOrder /\ ~LevelSpent /\ ~MayFill
      /\ aggressor' = NoOrder
      /\ UNCHANGED <<volume_traded, total_value_traded>>
  BY DEF Finish, metrics
<1>2. a \in DOMAIN orders /\ a \in Order /\ sym0 \in Symbol /\ s0 \in Side
  BY <1>1, SweepFacts, OrderTypes
<1>3. p0 \in Price /\ IsBook(TakerBook)
  BY <1>1, <1>2, SweepFacts, OrderTypes DEF Taker
<1>4. Fits(books, orders) /\ Fits(books', orders')
  BY InvFits
<1>5. takerMap = [order |-> a, symbol |-> sym0, side |-> s0,
                  market |-> Taker.type = "MARKET", price |-> p0,
                  qty |-> Remaining(Taker),
                  rests |-> Taker.type = "LIMIT" /\ Taker.tif = "GTC"]
  BY <1>1 DEF takerMap
<1>6. takerMap # Abstract!NoTaker
  <2>1. Abstract!NoTaker.order = NoOrder
    BY DEF Abstract!NoTaker
  <2> QED BY <1>1, <1>5, <2>1
<1>7. takerMap' = Abstract!NoTaker
  BY <1>1 DEF takerMap, Abstract!NoTaker
<1>8. restingMap = R /\ restingMap' = N
  BY MappedResting
<1>9. aheadMap = Ahead(books) /\ aheadMap' = Ahead(books')
  BY MappedAhead
<1>10. \A m \in DOMAIN restingMap : ~Abstract!Acceptable(m)
  BY <1>1, NoneAcceptable
<1>11. RestsRemainder <=> takerMap.qty > 0 /\ takerMap.rests
  BY <1>1, RestsIs
<1>12. ASSUME RestsRemainder
       PROVE  /\ N = [x \in DOMAIN R \union {a} |->
                         IF x = a THEN [symbol |-> sym0, side |-> s0, price |-> p0,
                                        qty |-> Remaining(Taker)]
                         ELSE R[x]]
              /\ Ahead(books') = Ahead(books)
                    \union PairsBehind(books, orders, sym0, s0, p0, a)
  <2>1. /\ books' = [books EXCEPT ![sym0] = AddLimitOrder(TakerBook, orders, a)]
        /\ orders' = orders
    BY <1>12 DEF Finish
  <2> DEFINE new == AddLimitOrder(TakerBook, orders, a)
  <2>2. JoinsPlace(TakerBook, new, a, s0, p0)
    <3>1. orders[a].side = s0 /\ orders[a].price = p0
      BY DEF Taker
    <3> HIDE DEF a, s0, p0
    <3> QED BY <1>2, <1>3, <3>1, AddLimitOrderPlaces
  <2>3. books'[sym0] = new /\ OthersSame(books, books', sym0)
    <3>1. books = [x \in Symbol |-> books[x]]
      BY DEF Inv, TypeOK
    <3> HIDE DEF new, sym0
    <3> QED BY <1>2, <2>1, <3>1, Zenon DEF OthersSame, new
  <2>4. JoinsBook(books, books', sym0, s0, p0, a)
    <3> HIDE DEF new
    <3> QED BY <1>2, <2>2, <2>3 DEF JoinsBook, TakerBook
  <2>5. /\ DOMAIN N = DOMAIN R \union {a}
        /\ Ahead(books') = Ahead(books)
              \union PairsBehind(books, orders, sym0, s0, p0, a)
    <3> HIDE DEF a, sym0, s0, p0
    <3> QED BY <1>2, <1>4, <2>4, OneJoins
  <2>6. N = [x \in DOMAIN R \union {a} |-> Entry(orders[x])]
    BY <2>1, <2>5 DEF Resting
  <2>7. R = [x \in DOMAIN R |-> Entry(orders[x])]
    BY DEF Resting
  <2>8. Entry(orders[a]) = [symbol |-> sym0, side |-> s0, price |-> p0,
                            qty |-> Remaining(Taker)]
    BY DEF Entry, Taker
  <2> DEFINE e == [symbol |-> sym0, side |-> s0, price |-> p0, qty |-> Remaining(Taker)]
  <2> HIDE DEF N, R, a, e
  <2>9. N = [x \in DOMAIN R \union {a} |-> IF x = a THEN e ELSE R[x]]
    BY <2>6, <2>7, <2>8 DEF e
  <2> QED BY <2>5, <2>9 DEF e
<1>13. ASSUME ~RestsRemainder PROVE N = R /\ Ahead(books') = Ahead(books)
  <2>1. /\ books' = books
        /\ orders' = IF Leftover THEN [orders EXCEPT ![a].status = "CANCELLED"]
                     ELSE orders
    BY <1>13 DEF Finish
  <2>2. \A x \in DOMAIN orders : Entry(orders'[x]) = Entry(orders[x])
    <3> SUFFICES ASSUME NEW x \in DOMAIN orders
                 PROVE  Entry(orders'[x]) = Entry(orders[x])
      OBVIOUS
    <3> DEFINE r == orders[x]
               q == orders'[x]
    <3>1. q = r \/ q = [r EXCEPT !.status = "CANCELLED"]
      BY <2>1
    <3>2. r \in OrderRecord
      BY OrderTypes
    <3> HIDE DEF r, q
    <3>3. /\ q.symbol = r.symbol /\ q.side = r.side /\ q.price = r.price
          /\ q.quantity = r.quantity /\ q.filled_qty = r.filled_qty
      BY <3>1, <3>2 DEF OrderRecord
    <3>4. Entry(q) = Entry(r)
      BY <3>3 DEF Entry, Remaining
    <3> QED BY <3>4 DEF q, r
  <2>3. \A x \in DOMAIN R : Entry(orders'[x]) = Entry(orders[x])
    BY <2>2 DEF Resting
  <2>4. \A sym \in Symbol : SamePlaces(books[sym], books'[sym])
    BY <2>1, StaysPut
  <2> QED BY <1>4, <2>3, <2>4, SameResting
<1> HIDE DEF a, sym0, s0, p0
<1>14. Abstract!Settle
  <2>1. CASE RestsRemainder
    <3>1. PairsBehind(books, orders, sym0, s0, p0, a) =
             {<<m, a>> : m \in {n \in DOMAIN restingMap :
                                  /\ restingMap[n].symbol = sym0
                                  /\ restingMap[n].side = s0
                                  /\ restingMap[n].price = p0}}
      BY <1>8 DEF PairsBehind, AtPlace
    <3>2. /\ takerMap.order = a /\ takerMap.symbol = sym0 /\ takerMap.side = s0
          /\ takerMap.price = p0 /\ takerMap.qty = Remaining(Taker)
      BY <1>5
    <3> HIDE DEF R, N
    <3>3. restingMap' = [o \in DOMAIN restingMap \union {takerMap.order} |->
             IF o = takerMap.order
             THEN [symbol |-> takerMap.symbol, side |-> takerMap.side,
                   price |-> takerMap.price, qty |-> takerMap.qty]
             ELSE restingMap[o]]
      BY <1>8, <1>12, <2>1, <3>2
    <3>4. aheadMap' = aheadMap \union
             {<<m, takerMap.order>> : m \in
                {n \in DOMAIN restingMap :
                   /\ restingMap[n].symbol = takerMap.symbol
                   /\ restingMap[n].side = takerMap.side
                   /\ restingMap[n].price = takerMap.price}}
      BY <1>9, <1>12, <2>1, <3>1, <3>2
    <3> QED BY <1>1, <1>6, <1>7, <1>10, <1>11, <2>1, <3>3, <3>4 DEF Abstract!Settle
  <2>2. CASE ~RestsRemainder
    <3>1. UNCHANGED <<restingMap, aheadMap>>
      BY <1>8, <1>9, <1>13, <2>2
    <3> QED BY <1>1, <1>6, <1>7, <1>10, <1>11, <2>2, <3>1 DEF Abstract!Settle
  <2> QED BY <2>1, <2>2
<1> QED BY <1>14 DEF Abstract!Next

(* Every step of the engine is a step of the abstract market, or none. *)
LEMMA NextRefines ==
    ASSUME Inv, Inv', [Next]_vars
    PROVE  [Abstract!Next]_(Abstract!abstractVars)
<1>1. ASSUME NEW o \in Order, NEW in \in Input, SubmitOrder(o, in)
      PROVE  [Abstract!Next]_(Abstract!abstractVars)
  BY <1>1, SubmitRefines
<1>2. ASSUME NEW sym \in Symbol, NEW id \in OrderId, CancelOrder(sym, id)
      PROVE  [Abstract!Next]_(Abstract!abstractVars)
  BY <1>2, CancelRefines
<1>3. CASE ExecuteFill
  BY <1>3, FillRefines
<1>4. CASE EraseLevel
  BY <1>4, EraseRefines
<1>5. CASE Finish
  BY <1>5, FinishRefines
<1>6. CASE UNCHANGED vars
  <2>1. /\ UNCHANGED <<books, orders, aggressor>>
        /\ UNCHANGED <<volume_traded, total_value_traded>>
    BY <1>6 DEF vars, metrics
  <2>2. restingMap' = restingMap /\ aheadMap' = aheadMap
    BY <2>1, MappedResting, MappedAhead
  <2>3. takerMap' = takerMap
    BY <2>1 DEF takerMap, Taker
  <2> QED BY <2>1, <2>2, <2>3 DEF Abstract!abstractVars
<1> QED BY <1>1, <1>2, <1>3, <1>4, <1>5, <1>6 DEF Next, EngineStep

(* Books of price levels and deques implement price-time priority: every   *)
(* fill takes the order that comes first by price and then by arrival, at  *)
(* its own price; no order settles while it could still trade; and no      *)
(* operation changes who stands before whom among those that stay.         *)
THEOREM BooksImplementPriority == Spec => ImplementsPriority
<1>1. Init => Abstract!Init
  BY InitRefines
<1>2. Inv /\ Inv' /\ [Next]_vars => [Abstract!Next]_(Abstract!abstractVars)
  BY NextRefines
<1>3. Spec => []Inv
  BY Invariance
<1> QED BY <1>1, <1>2, <1>3, PTL DEF Spec, ImplementsPriority, Abstract!Spec
============================================================================
