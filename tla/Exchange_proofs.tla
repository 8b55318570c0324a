------------------------- MODULE Exchange_proofs -------------------------
(***************************************************************************)
(* The invariants of the exchange: the engine's still hold when orders are *)
(* also rejected and modified, and it still implements price-time          *)
(* priority, whatever ids the orders carry.  The global index leads to     *)
(* every resting order whose id is its own.                                *)
(*                                                                         *)
(* The second half is about the program that runs on it, the main loop of  *)
(* MercuryServer with its agents: the market maker's quotes are tracked,   *)
(* never trade with each other and keep its position within bounds.        *)
(* There the agents' ids are their own by construction; the clients' need  *)
(* not be.                                                                 *)
(***************************************************************************)
EXTENDS MercuryServer, MatchingEngine_proofs

(* The global index leads to the book of order o, if its id is its own. *)
LeadsTo(o, sym) ==
    OwnId(order_id[o]) =>
        /\ order_id[o] \in DOMAIN global_order_index
        /\ global_order_index[order_id[o]] = sym

(* What rests can be reached: its id leads to the listed book it is in. *)
Routed ==
    \A sym \in Symbol : \A s \in Side : \A p, o :
        RestsAt(books[sym], o, s, p) => sym \in listed /\ LeadsTo(o, sym)

(* So can the order being matched, if it is one that may come to rest. *)
TakerRouted ==
    aggressor # NoOrder =>
        /\ Taker.symbol \in listed
        /\ Taker.type = "LIMIT" => LeadsTo(aggressor, Taker.symbol)

(* The engine is busy exactly while a call of the exchange is. *)
InCall == call = "none" <=> aggressor = NoOrder

(* The inductive invariant of the exchange. *)
ExInv ==
    /\ Inv
    /\ LevelTotals
    /\ listed \subseteq Symbol
    /\ InCall
    /\ Routed
    /\ TakerRouted

LEMMA RoutedImpliesRoutable ==
    ASSUME UniqueOrderIds, Inv, Routed
    PROVE  Routable
<1> SUFFICES ASSUME NEW sym \in Symbol, NEW id \in DOMAIN books[sym].order_index
             PROVE  /\ sym \in listed
                    /\ id \in DOMAIN global_order_index
                    /\ global_order_index[id] = sym
  BY DEF Routable
<1>1. BookInv(books[sym])
  BY DEF Inv
<1>2. PICK o \in Order : /\ order_id[o] = id
                         /\ RestsAt(books[sym], o, books[sym].order_index[id].side,
                                    books[sym].order_index[id].price)
  BY <1>1, UniqueIndexed DEF IndexedAreQueued
<1>3. books[sym].order_index[id].side \in Side
  BY <1>1 DEF BookInv, IsBook, IsMap, OrderLocation
<1>4. OwnId(order_id[o])
  BY AllOwn
<1>5. QED
  BY <1>2, <1>3, <1>4 DEF Routed, LeadsTo

LEMMA ExInitInv == ExInit => ExInv
<1> SUFFICES ASSUME ExInit PROVE ExInv
  OBVIOUS
<1>1. Inv
  BY InitInv DEF ExInit
<1>2. \A sym \in Symbol : books[sym] = EmptyBook
  BY DEF ExInit, Init
<1>3. LevelTotals
  BY <1>2, EmptyBookAddsUp, TotalsByBook
<1>4. Routed
  BY <1>2 DEF Routed, RestsAt, EmptyBook, EmptyMap
<1>5. QED
  BY <1>1, <1>3, <1>4 DEF ExInit, Init, ExInv, InCall, TakerRouted

----------------------------------------------------------------------------
(* Where the orders that rest after a step of the engine were before it.   *)

LEMMA FillPlaces ==
    ASSUME Inv, ExecuteFill,
           NEW sym \in Symbol, NEW s \in Side, NEW p, NEW o, RestsAt(books'[sym], o, s, p)
    PROVE  RestsAt(books[sym], o, s, p)
<1>1. aggressor # NoOrder /\ MayFill /\ ~LevelSpent
  BY DEF ExecuteFill
<1>2. /\ books'[Taker.symbol] =
            FillFront(TakerBook, MakerSide, SweepPrice, FillQty,
                      FillQty = Remaining(orders[Maker]))
      /\ sym # Taker.symbol => books'[sym] = books[sym]
  BY FillEffect
<1>3. /\ MakerSide \in Side /\ BookInv(TakerBook)
      /\ SweepPrice \in DOMAIN TakerBook.level[MakerSide]
      /\ TakerBook.level[MakerSide][SweepPrice].orders # <<>>
      /\ FillQty \in Int
  BY <1>1, SweepFacts, FillFacts
<1>4. CASE sym = Taker.symbol
  <2>1. \A y, t, x : RestsAt(books'[Taker.symbol], y, t, x) /\ t \in Side
           => RestsAt(TakerBook, y, t, x)
    <3> DEFINE new  == books'[Taker.symbol]
               done == FillQty = Remaining(orders[Maker])
    <3>1. done \in BOOLEAN /\ new = FillFront(TakerBook, MakerSide, SweepPrice, FillQty, done)
      BY <1>2
    <3> HIDE DEF new, done
    <3>2. \A y, t, x : RestsAt(new, y, t, x) /\ t \in Side => RestsAt(TakerBook, y, t, x)
      BY <1>3, <3>1, FillFrontInv
    <3> QED BY <3>2 DEF new
  <2> QED BY <1>4, <2>1 DEF TakerBook
<1>5. QED
  BY <1>2, <1>4

LEMMA ErasePlaces ==
    ASSUME Inv, EraseLevel,
           NEW sym \in Symbol, NEW s \in Side, NEW p, NEW o, RestsAt(books'[sym], o, s, p)
    PROVE  RestsAt(books[sym], o, s, p)
<1>1. aggressor # NoOrder /\ LevelSpent
  BY DEF EraseLevel
<1>2. /\ MakerSide \in Side /\ BookInv(TakerBook)
      /\ SweepPrice \in DOMAIN TakerBook.level[MakerSide]
      /\ TakerBook.level[MakerSide][SweepPrice].orders = <<>>
  BY <1>1, SweepFacts DEF LevelSpent, SweepLevel, BestLevel, SweepPrice
<1>3. /\ Taker.symbol \in Symbol
      /\ books'[Taker.symbol] = EraseLevelOf(TakerBook, MakerSide, SweepPrice)
      /\ sym # Taker.symbol => books'[sym] = books[sym]
  <2>1. books = [x \in Symbol |-> books[x]]
    BY DEF Inv, TypeOK
  <2>2. Taker.symbol \in Symbol
    BY <1>1, SweepFacts
  <2> QED BY <2>1, <2>2, Zenon DEF EraseLevel
<1>4. CASE sym = Taker.symbol
  <2>1. \A y, t, x : t \in Side /\ RestsAt(books'[Taker.symbol], y, t, x)
           => RestsAt(TakerBook, y, t, x)
    BY <1>2, <1>3, EraseLevelInv
  <2> QED BY <1>4, <2>1 DEF TakerBook
<1>5. QED
  BY <1>3, <1>4

LEMMA FinishPlaces ==
    ASSUME Inv, Finish,
           NEW sym \in Symbol, NEW s \in Side, NEW p, NEW o, RestsAt(books'[sym], o, s, p)
    PROVE  \/ RestsAt(books[sym], o, s, p)
           \/ o = aggressor /\ sym = Taker.symbol /\ RestsRemainder
<1>1. CASE ~RestsRemainder
  BY <1>1 DEF Finish
<1>2. CASE RestsRemainder
  <2>1. /\ aggressor # NoOrder /\ ~MayFill
        /\ books' = [books EXCEPT ![Taker.symbol] = AddLimitOrder(TakerBook, orders, aggressor)]
        /\ Taker.type = "LIMIT" /\ Remaining(Taker) > 0
    BY <1>2 DEF Finish, RestsRemainder, Leftover
  <2>2. /\ aggressor \in DOMAIN orders /\ Taker.symbol \in Symbol /\ Taker.side \in Side
        /\ BookInv(TakerBook)
    BY <2>1, SweepFacts
  <2>3. /\ books'[Taker.symbol] = AddLimitOrder(TakerBook, orders, aggressor)
        /\ sym # Taker.symbol => books'[sym] = books[sym]
    <3>1. books = [x \in Symbol |-> books[x]]
      BY DEF Inv, TypeOK
    <3> QED BY <2>1, <2>2, <3>1, Zenon
  <2>4. /\ aggressor \in Order /\ Taker.price \in Price /\ Remaining(Taker) \in Int
    BY <2>2, OrderTypes DEF Taker
  <2>5. \A t \in Side : \A x \in DOMAIN TakerBook.level[t] : ~RestsAt(TakerBook, aggressor, t, x)
    BY <2>2 DEF Inv, TakerAway, TakerBook
  <2>6. /\ Taker.side = "BUY" => \A x \in DOMAIN TakerBook.level["SELL"] : Taker.price < x
        /\ Taker.side = "SELL" => \A x \in DOMAIN TakerBook.level["BUY"] : x < Taker.price
    BY <2>1, SweptClean
  <2>7. \A y, t, x : RestsAt(books'[Taker.symbol], y, t, x) /\ t \in Side
           => RestsAt(TakerBook, y, t, x) \/ y = aggressor
    <3> DEFINE bk == TakerBook
               tp == Taker.price
               ts == Taker.side
    <3>1. orders[aggressor].side = ts /\ orders[aggressor].price = tp
          /\ Remaining(orders[aggressor]) \in Int
      BY <2>4 DEF Taker
    <3>2. /\ \A t \in Side : \A x \in DOMAIN bk.level[t] : ~RestsAt(bk, aggressor, t, x)
          /\ ts = "BUY" => \A x \in DOMAIN bk.level["SELL"] : tp < x
          /\ ts = "SELL" => \A x \in DOMAIN bk.level["BUY"] : x < tp
      BY <2>5, <2>6
    <3>3. ts \in Side /\ tp \in Price /\ BookInv(bk) /\ aggressor \in Order
      BY <2>2, <2>4
    <3>4. books'[Taker.symbol] = AddLimitOrder(bk, orders, aggressor)
      BY <2>3
    <3> HIDE DEF bk, tp, ts
    <3>5. \A y, t, x : RestsAt(AddLimitOrder(bk, orders, aggressor), y, t, x) /\ t \in Side
             => RestsAt(bk, y, t, x) \/ y = aggressor
      BY <3>1, <3>2, <3>3, AddLimitOrderInv
    <3> QED BY <3>4, <3>5 DEF bk
  <2> QED BY <1>2, <2>3, <2>7 DEF TakerBook
<1>3. QED
  BY <1>1, <1>2

----------------------------------------------------------------------------
(* bks are sound books without the order a cancel of the id finds in the   *)
(* book of sym0: nothing else came or moved, and no level was left empty.  *)
BooksWithout(bks, sym0, id) ==
    /\ bks = [sym \in Symbol |-> bks[sym]]
    /\ \A sym \in Symbol :
          /\ BookInv(bks[sym])
          /\ BookAddsUp(bks[sym], orders)
          /\ \A s \in Side : \A p \in DOMAIN bks[sym].level[s] :
                bks[sym].level[s][p].orders # <<>>
          /\ \A o, s, p : RestsAt(bks[sym], o, s, p) /\ s \in Side
                => /\ RestsAt(books[sym], o, s, p)
                   /\ Finds(books[sym0], id) => o # Found(books[sym0], id)
                   /\ OwnId(id) => order_id[o] # id

(* engine_.cancel_order on the book that holds the id. *)
LEMMA CancelLeaves ==
    ASSUME Inv, LevelTotals, aggressor = NoOrder, NEW sym0 \in Symbol,
           NEW id, id \in DOMAIN books[sym0].order_index, NEW bks,
           bks = [books EXCEPT ![sym0] = CancelInBook(books[sym0], orders, id)]
    PROVE  BooksWithout(bks, sym0, id)
<1> DEFINE bk  == books[sym0]
           new == CancelInBook(bk, orders, id)
<1>1. /\ bks = [sym \in Symbol |-> bks[sym]]
      /\ bks[sym0] = new
      /\ \A sym \in Symbol : sym # sym0 => bks[sym] = books[sym]
  <2>1. books = [x \in Symbol |-> books[x]]
    BY DEF Inv, TypeOK
  <2> HIDE DEF new
  <2>2. bks = [books EXCEPT ![sym0] = new]
    BY DEF new
  <2> QED BY <2>1, <2>2, Zenon
<1>2. \A sym \in Symbol : /\ BookInv(books[sym])
                          /\ BookBacked(books[sym], orders)
                          /\ BookAddsUp(books[sym], orders)
  BY BooksBacked, TotalsByBook DEF Inv
<1>3. BookInv(bk) /\ id \in DOMAIN bk.order_index /\ BookBacked(bk, orders) /\ BookAddsUp(bk, orders)
  BY <1>2
<1>4. \A t \in Side : \A x \in DOMAIN bk.level[t] : \A j \in DOMAIN bk.level[t][x].orders :
         Remaining(orders[bk.level[t][x].orders[j]]) \in Int
  BY <1>3 DEF BookBacked, Backed, ToSet
<1>5. /\ BookInv(new)
      /\ \A y, t, x : RestsAt(new, y, t, x) /\ t \in Side
            => /\ RestsAt(bk, y, t, x)
               /\ Finds(bk, id) => y # Found(bk, id)
               /\ OwnId(id) => order_id[y] # id
      /\ \A t \in Side : \A x \in DOMAIN new.level[t] :
            \/ new.level[t][x].orders # <<>>
            \/ x \in DOMAIN bk.level[t] /\ new.level[t][x] = bk.level[t][x]
  <2> HIDE DEF bk
  <2> QED BY <1>3, <1>4, CancelInBookInv
<1>6. BookAddsUp(new, orders)
  <2> HIDE DEF bk
  <2> QED BY <1>3, CancelInBookAddsUp
<1> HIDE DEF new
<1>7. ASSUME Finds(bk, id)
      PROVE  /\ order_id[Found(bk, id)] = id
             /\ Found(bk, id) \in DOMAIN orders /\ Found(bk, id) \in Order
             /\ orders[Found(bk, id)].symbol = sym0
  <2> DEFINE s == bk.order_index[id].side
             p == bk.order_index[id].price
             m == Found(bk, id)
  <2>1. s \in Side /\ order_id[m] = id /\ RestsAt(bk, m, s, p)
    BY <1>7 DEF Finds, FoundAt, Found, RestsAt
  <2> HIDE DEF s, p, m
  <2>2. m \in DOMAIN orders /\ MayRestAt(orders[m], sym0, s, p)
    BY <2>1, RestingOrder
  <2>3. m \in Order /\ orders[m].symbol = sym0
    BY <2>2, OrderTypes DEF MayRestAt
  <2> QED BY <2>1, <2>2, <2>3 DEF m
<1>8. OwnId(id) => Finds(bk, id)
  <2> HIDE DEF bk
  <2> QED BY <1>3, IndexedOrderFound
<1>9. ASSUME NEW sym \in Symbol, sym # sym0, NEW o, NEW s \in Side, NEW p,
             RestsAt(books[sym], o, s, p)
      PROVE  /\ Finds(bk, id) => o # Found(bk, id)
             /\ OwnId(id) => order_id[o] # id
  <2>1. o \in DOMAIN orders /\ MayRestAt(orders[o], sym, s, p)
    BY <1>9, RestingOrder
  <2>2. o \in Order /\ orders[o].symbol = sym
    BY <2>1, OrderTypes DEF MayRestAt
  <2> HIDE DEF bk
  <2>3. Finds(bk, id) => o # Found(bk, id)
    BY <1>7, <1>9, <2>2
  <2> QED BY <1>7, <1>8, <2>2, <2>3 DEF OwnId
<1>10. ASSUME NEW sym \in Symbol, NEW s \in Side, NEW p \in DOMAIN bks[sym].level[s]
       PROVE  bks[sym].level[s][p].orders # <<>>
  BY <1>1, <1>5, NoStaleWhenIdle
<1>11. ASSUME NEW sym \in Symbol, NEW o, NEW s \in Side, NEW p, RestsAt(bks[sym], o, s, p)
       PROVE  /\ RestsAt(books[sym], o, s, p)
              /\ Finds(bk, id) => o # Found(bk, id)
              /\ OwnId(id) => order_id[o] # id
  <2>1. CASE sym = sym0
    BY <1>1, <1>5, <1>11, <2>1
  <2>2. CASE sym # sym0
    <3>1. RestsAt(books[sym], o, s, p)
      BY <1>1, <1>11, <2>2
    <3> QED BY <1>9, <2>2, <3>1
  <2> QED BY <2>1, <2>2
<1>12. \A sym \in Symbol : BookInv(bks[sym]) /\ BookAddsUp(bks[sym], orders)
  BY <1>1, <1>2, <1>5, <1>6
<1>13. QED
  BY <1>1, <1>10, <1>11, <1>12 DEF BooksWithout

(* The order modify_order finds: a resting order that carries the id, and  *)
(* the one that a cancel of the id would take out.                         *)
LEMMA TargetFacts ==
    ASSUME ExInv, NEW id, NEW q, CanModify(id, q)
    PROVE  /\ aggressor = NoOrder
           /\ global_order_index[id] \in Symbol
           /\ global_order_index[id] \in listed
           /\ id \in DOMAIN BookOf(id).order_index
           /\ LocationOf(id).side \in Side
           /\ LocationOf(id).price \in DOMAIN BookOf(id).level[LocationOf(id).side]
           /\ RestsAt(BookOf(id), Target(id), LocationOf(id).side, LocationOf(id).price)
           /\ order_id[Target(id)] = id
           /\ Finds(BookOf(id), id)
           /\ Target(id) = Found(BookOf(id), id)
           /\ Target(id) \in DOMAIN orders
           /\ MayRestAt(orders[Target(id)], global_order_index[id],
                        LocationOf(id).side, LocationOf(id).price)
<1>1. /\ aggressor = NoOrder
      /\ global_order_index[id] \in Symbol
      /\ global_order_index[id] \in listed
      /\ id \in DOMAIN BookOf(id).order_index
  BY DEF ExInv, InCall, CanModify, HasBookFor
<1>2. BookInv(BookOf(id))
  BY <1>1 DEF ExInv, Inv, BookOf
<1>3. FoundAt(BookOf(id), id, LocationOf(id).side, LocationOf(id).price)
  <2>1. IsBook(BookOf(id))
    BY <1>2 DEF BookInv
  <2>2. LocationOf(id).side \in Side
    BY <1>1, <2>1 DEF IsBook, IsMap, OrderLocation, LocationOf
  <2>3. /\ LocationOf(id).price \in DOMAIN BookOf(id).level[LocationOf(id).side]
        /\ Matches(BookOf(id).level[LocationOf(id).side][LocationOf(id).price], id) # {}
    BY DEF CanModify, LevelOf
  <2> QED BY <2>1, <2>2, <2>3, MatchFound
<1>4. /\ LocationOf(id).side \in Side
      /\ LocationOf(id).price \in DOMAIN BookOf(id).level[LocationOf(id).side]
      /\ RestsAt(BookOf(id), Target(id), LocationOf(id).side, LocationOf(id).price)
      /\ order_id[Target(id)] = id
  BY <1>3 DEF FoundAt, Target, LevelOf, RestsAt
<1>5. /\ Target(id) \in DOMAIN orders
      /\ MayRestAt(orders[Target(id)], global_order_index[id],
                   LocationOf(id).side, LocationOf(id).price)
  BY <1>1, <1>4, RestingOrder DEF ExInv, BookOf
<1>6. Finds(BookOf(id), id) /\ Target(id) = Found(BookOf(id), id)
  BY <1>3 DEF Finds, Found, Target, LevelOf, LocationOf
<1>7. QED
  BY <1>1, <1>4, <1>5, <1>6

----------------------------------------------------------------------------
(* Case A of modify_order. *)

(* The order taken out of its book becomes the aggressor, as if it were    *)
(* new: nothing kills it, because what rests is good till cancelled.       *)
LEMMA ReplaceEffect ==
    ASSUME ExInv, NEW id, NEW np \in Price, NEW nq \in UInt32,
           ReplaceOrder(id, np, nq), NEW o, o = Target(id)
    PROVE  /\ books' = WithoutOrder(id)
           /\ DOMAIN orders' = DOMAIN orders
           /\ orders' = [x \in DOMAIN orders |-> orders'[x]]
           /\ orders'[o] = Restamped(orders[o], np, nq)
           /\ \A x \in DOMAIN orders : x # o => orders'[x] = orders[x]
           /\ aggressor' = o
           /\ orders_processed' = orders_processed + 1
           /\ UNCHANGED metrics
           /\ global_order_index' = Put(global_order_index, id, orders[o].symbol)
           /\ call' = "modify"
           /\ listed' = listed
<1> DEFINE r    == Restamped(orders[o], np, nq)
           ords == [orders EXCEPT ![o] = r]
<1>1. CanModify(id, nq) /\ Enter(o, ords, WithoutOrder(id))
  BY DEF ReplaceOrder
<1>2. o \in DOMAIN orders /\ orders[o].tif = "GTC" /\ orders[o] \in OrderRecord
  BY <1>1, TargetFacts, OrderTypes DEF MayRestAt, ExInv
<1>3. r.tif = "GTC" /\ r.status = "NEW" /\ [r EXCEPT !.status = "NEW"] = r
  BY <1>2 DEF Restamped, OrderRecord
<1>4. orders = [x \in DOMAIN orders |-> orders[x]]
  BY DEF ExInv, Inv, TypeOK, IsMap
<1> HIDE DEF r
<1>5. /\ DOMAIN ords = DOMAIN orders /\ ords[o] = r
      /\ \A x \in DOMAIN orders : x # o => ords[x] = orders[x]
  BY <1>2, <1>4
<1> HIDE DEF ords
<1>6. ords[o].tif # "FOK"
  BY <1>3, <1>5
<1>7. /\ books' = WithoutOrder(id)
      /\ orders' = [ords EXCEPT ![o].status = "NEW"]
      /\ aggressor' = o
      /\ orders_processed' = orders_processed + 1
      /\ UNCHANGED metrics
  BY <1>1, <1>6 DEF Enter
<1>8. /\ DOMAIN orders' = DOMAIN orders
      /\ orders' = [x \in DOMAIN orders |-> orders'[x]]
      /\ orders'[o] = [r EXCEPT !.status = "NEW"]
      /\ \A x \in DOMAIN orders : x # o => orders'[x] = orders[x]
  BY <1>2, <1>5, <1>7
<1>9. QED
  BY <1>3, <1>7, <1>8 DEF ReplaceOrder, r

LEMMA ReplaceStep ==
    ASSUME ExInv, NEW id, NEW np \in Price, NEW nq \in UInt32,
           ReplaceOrder(id, np, nq)
    PROVE  ExInv'
<1> DEFINE o == Target(id)
           g == global_order_index[id]
           r == Restamped(orders[o], np, nq)
<1>1. CanModify(id, nq)
  BY DEF ReplaceOrder
<1>2. /\ aggressor = NoOrder /\ g \in Symbol /\ g \in listed
      /\ id \in DOMAIN books[g].order_index
      /\ order_id[o] = id /\ o \in DOMAIN orders
      /\ Finds(books[g], id) /\ o = Found(books[g], id)
      /\ orders[o].symbol = g /\ orders[o].type = "LIMIT"
  BY <1>1, TargetFacts DEF MayRestAt, BookOf
<1>3. /\ books' = [books EXCEPT ![g] = CancelInBook(books[g], orders, id)]
      /\ DOMAIN orders' = DOMAIN orders
      /\ orders' = [x \in DOMAIN orders |-> orders'[x]]
      /\ orders'[o] = r
      /\ \A x \in DOMAIN orders : x # o => orders'[x] = orders[x]
      /\ aggressor' = o
      /\ orders_processed' = orders_processed + 1
      /\ UNCHANGED metrics
      /\ global_order_index' = Put(global_order_index, id, orders[o].symbol)
      /\ call' = "modify" /\ listed' = listed
  BY ReplaceEffect DEF WithoutOrder, BookOf
<1>4. /\ r \in OrderRecord /\ r.symbol = g /\ r.type = "LIMIT" /\ r.status = "NEW"
      /\ r.filled_qty = 0 /\ r.quantity \in Nat
  <2>1. orders[o] \in OrderRecord
    BY <1>2, OrderTypes DEF ExInv
  <2>2. nq \in Nat /\ 0 \in UInt32
    BY U32Assumption DEF UInt32
  <2> HIDE DEF o
  <2> QED BY <1>2, <2>1, <2>2 DEF Restamped, OrderRecord, OrderStatus
<1>5. Inv /\ LevelTotals
  BY DEF ExInv
<1>6. /\ books' = [sym \in Symbol |-> books'[sym]]
      /\ \A sym \in Symbol :
            /\ BookInv(books'[sym])
            /\ BookAddsUp(books'[sym], orders)
            /\ \A s \in Side : \A p \in DOMAIN books'[sym].level[s] :
                  books'[sym].level[s][p].orders # <<>>
            /\ \A y, s, p : RestsAt(books'[sym], y, s, p) /\ s \in Side
                  => RestsAt(books[sym], y, s, p) /\ y # o
  <2> HIDE DEF g, o
  <2>1. BooksWithout(books', g, id)
    BY <1>2, <1>3, <1>5, CancelLeaves
  <2> QED BY <1>2, <2>1 DEF BooksWithout
<1> HIDE DEF o, g, r
<1>7. ASSUME NEW sym \in Symbol, NEW s \in Side, NEW p, NEW y, RestsAt(books'[sym], y, s, p)
      PROVE  /\ y # o /\ y \in DOMAIN orders /\ orders'[y] = orders[y]
             /\ MayRestAt(orders[y], sym, s, p)
             /\ RestsAt(books[sym], y, s, p)
  <2>1. RestsAt(books[sym], y, s, p) /\ y # o
    BY <1>6, <1>7
  <2>2. y \in DOMAIN orders /\ MayRestAt(orders[y], sym, s, p)
    BY <1>5, <2>1, RestingOrder
  <2> QED BY <1>2, <1>3, <2>1, <2>2
<1>8. TypeOK'
  <2>1. IsMap(orders', Order, OrderRecord)
    <3>1. IsMap(orders, Order, OrderRecord)
      BY <1>5 DEF Inv, TypeOK
    <3>2. \A x \in DOMAIN orders : orders'[x] \in OrderRecord
      BY <1>3, <1>4, <3>1 DEF IsMap
    <3> QED BY <1>3, <3>1, <3>2 DEF IsMap
  <2>2. \A sym \in Symbol : IsBook(books'[sym])
    BY <1>6 DEF BookInv
  <2>3. aggressor' \in DOMAIN orders' \union {NoOrder}
    BY <1>2, <1>3
  <2>4. books' = [sym \in Symbol |-> books'[sym]]
    BY <1>6
  <2>5. orders_processed' \in Nat
    BY <1>3, <1>5 DEF Inv, TypeOK
  <2>6. /\ next_exec_id' \in Nat \ {0} /\ fills_generated' \in Nat
        /\ volume_traded' \in Nat /\ total_value_traded' \in Nat
    BY <1>3, <1>5 DEF Inv, TypeOK, metrics
  <2> QED BY <2>1, <2>2, <2>3, <2>4, <2>5, <2>6 DEF TypeOK
<1>9. RestingOrdersLive'
  <2> SUFFICES ASSUME NEW sym \in Symbol
               PROVE  QueuedAreLive(books'[sym], orders', sym)
    BY DEF RestingOrdersLive
  <2>1. \A t \in Side : \A y, x : RestsAt(books'[sym], y, t, x)
           => y \in DOMAIN orders' /\ MayRestAt(orders'[y], sym, t, x)
    BY <1>3, <1>7
  <2> QED BY <2>1, LiveIffRests
<1>10. TakerAway'
  BY <1>3, <1>7 DEF TakerAway
<1>11. TakerOpen'
  BY <1>3, <1>4 DEF TakerOpen, Taker
<1>12. NoStaleLevel'
  BY <1>6 DEF NoStaleLevel
<1>13. StatusMatchesFills'
  BY <1>3, <1>4, <1>5 DEF Inv, StatusMatchesFills
<1>14. Inv'
  BY <1>6, <1>8, <1>9, <1>10, <1>11, <1>12, <1>13 DEF Inv
<1>15. LevelTotals'
  <2>1. ASSUME NEW sym \in Symbol PROVE BookAddsUp(books'[sym], orders')
    <3> DEFINE bk   == books'[sym]
               news == orders'
    <3>1. IsBook(bk) /\ BookAddsUp(bk, orders)
      BY <1>6 DEF BookInv
    <3>2. \A s \in Side : \A p \in DOMAIN bk.level[s] : \A y :
             RestsAt(bk, y, s, p) => /\ y \in DOMAIN orders /\ y \in DOMAIN news
                                     /\ news[y] = orders[y]
                                     /\ Remaining(orders[y]) \in Int
      <4>1. \A y \in DOMAIN orders : Remaining(orders[y]) \in Int
        BY <1>5, OrderTypes
      <4>2. DOMAIN news = DOMAIN orders
        BY <1>3
      <4> QED BY <1>7, <4>1, <4>2
    <3> HIDE DEF bk, news
    <3>3. BookBacked(bk, orders) /\ BookBacked(bk, news)
      BY <3>1, <3>2, RestsAtSet, QueueProperties DEF BookBacked, Backed
    <3>4. \A s \in Side : \A p \in DOMAIN bk.level[s] : \A y :
             RestsAt(bk, y, s, p) => Remaining(news[y]) = Remaining(orders[y])
      BY <3>2
    <3>5. BookAddsUp(bk, news)
      BY <3>1, <3>3, <3>4, SameOpenQtyAddsUp
    <3> QED BY <3>5 DEF bk, news
  <2> QED BY <2>1 DEF LevelTotals, BookAddsUp
<1>16. Routed'
  <2> SUFFICES ASSUME NEW sym \in Symbol, NEW s \in Side, NEW p, NEW y,
                      RestsAt(books'[sym], y, s, p)
               PROVE  /\ sym \in listed'
                      /\ OwnId(order_id[y]) =>
                            /\ order_id[y] \in DOMAIN global_order_index'
                            /\ global_order_index'[order_id[y]] = sym
    BY DEF Routed, LeadsTo
  <2>1. RestsAt(books[sym], y, s, p) /\ y # o
    BY <1>6
  <2>2. sym \in listed /\ LeadsTo(y, sym)
    BY <2>1 DEF ExInv, Routed
  <2>3. y \in Order /\ o \in Order
    BY <1>2, <1>5, <1>7, OrderTypes
  <2>4. OwnId(order_id[y]) => order_id[y] # id
    BY <1>2, <2>1, <2>3 DEF OwnId
  <2> QED BY <1>3, <2>2, <2>4 DEF Put, LeadsTo
<1>17. TakerRouted'
  <2>1. aggressor' = o /\ orders'[o].symbol = g /\ g \in listed' /\ order_id[o] = id
    BY <1>2, <1>3, <1>4
  <2>2. id \in DOMAIN global_order_index' /\ global_order_index'[id] = g
    BY <1>2, <1>3 DEF Put
  <2> QED BY <2>1, <2>2 DEF TakerRouted, Taker, LeadsTo
<1>18. InCall' /\ listed' \subseteq Symbol
  BY <1>2, <1>3, <1>5, OrderTypes DEF InCall, ExInv
<1>19. QED
  BY <1>14, <1>15, <1>16, <1>17, <1>18 DEF ExInv

----------------------------------------------------------------------------
(* Case B of modify_order. *)

(* A level whose total falls with the quantity of one of its orders. *)
LEMMA AddsUpReduced ==
    ASSUME NEW lv \in PriceLevel, NEW ords, NEW news, AddsUp(lv, ords),
           Backed(lv.orders, ords), Backed(lv.orders, news),
           NEW o, o \in ToSet(lv.orders), NEW red \in Int,
           Remaining(news[o]) = Remaining(ords[o]) - red,
           \A x \in ToSet(lv.orders) : x # o => Remaining(news[x]) = Remaining(ords[x])
    PROVE  AddsUp(ReducedLevel(lv, red), news)
<1> DEFINE S == ToSet(lv.orders)
           f == OpenQty(ords)
           h == OpenQty(news)
<1>1. IsFiniteSet(S)
  BY BackedSum
<1>2. \A x \in S : f[x] \in Int
  BY BackedSum
<1>3. \A x \in S : f[x] = Remaining(ords[x]) /\ h[x] = Remaining(news[x])
  BY BackedSum
<1>4. \A x \in S : x # o => h[x] = f[x]
  BY <1>3
<1>5. h[o] = f[o] - red
  BY <1>3
<1>6. lv.total_qty = SumFunctionOnSet(f, S)
  BY DEF AddsUp
<1>7. /\ ReducedLevel(lv, red).orders = lv.orders
      /\ ReducedLevel(lv, red).total_qty = lv.total_qty - red
  BY DEF ReducedLevel, PriceLevel
<1>8. o \in S
  OBVIOUS
<1>9. SumFunctionOnSet(h, S) = SumFunctionOnSet(f, S) - red
  <2> HIDE DEF S, f, h
  <2>1. \A y \in S : f[y] \in Int /\ h[y] \in Int
    BY <1>2, <1>4, <1>5
  <2> DEFINE T == S \ {o}
  <2>2. SumFunctionOnSet(f, S) = f[o] + SumFunctionOnSet(f, T)
    BY <1>1, <1>2, <1>8, SumRemove
  <2>3. SumFunctionOnSet(h, S) = h[o] + SumFunctionOnSet(h, T)
    <3>1. \A y \in S : h[y] \in Int
      BY <2>1
    <3> QED BY <1>1, <1>8, <3>1, SumRemove
  <2>4. IsFiniteSet(T) /\ \A y \in T : f[y] \in Int /\ h[y] = f[y]
    BY <1>1, <1>2, <1>4, FS_Subset
  <2> HIDE DEF T
  <2>5. SumFunctionOnSet(h, T) = SumFunctionOnSet(f, T) /\ SumFunctionOnSet(f, T) \in Int
    <3>1. \A y \in T : f[y] \in Int
      BY <2>4
    <3> QED BY <2>4, <3>1, SumSame, SumType
  <2>6. f[o] \in Int
    BY <1>2, <1>8
  <2> QED BY <1>5, <2>2, <2>3, <2>5, <2>6
<1> HIDE DEF S, f, h
<1>10. QED
  BY <1>6, <1>7, <1>9 DEF AddsUp, S, h

LEMMA ReduceEffect ==
    ASSUME ExInv, NEW id, NEW np \in Price, NEW nq \in UInt32,
           ReduceOrder(id, np, nq),
           NEW o, o = Target(id), NEW g, g = global_order_index[id],
           NEW s, s = LocationOf(id).side, NEW p, p = LocationOf(id).price
    PROVE  LET red == Remaining(orders[o]) - nq
           IN  /\ nq \in Nat /\ nq > 0 /\ red \in Nat
               /\ np = p
               /\ DOMAIN orders' = DOMAIN orders
               /\ orders' = [x \in DOMAIN orders |-> orders'[x]]
               /\ orders'[o] = Reduced(orders[o], nq)
               /\ Reduced(orders[o], nq) =
                     [orders[o] EXCEPT !.quantity = orders[o].filled_qty + nq]
               /\ orders[o].filled_qty + nq <= orders[o].quantity
               /\ \A x \in DOMAIN orders : x # o => orders'[x] = orders[x]
               /\ books' = [sym \in Symbol |-> books'[sym]]
               /\ books'[g] =
                     [level |-> [books[g].level EXCEPT ![s] =
                                    Put(@, p, ReducedLevel(books[g].level[s][p], red))],
                      order_index |-> books[g].order_index]
               /\ \A sym \in Symbol : sym # g => books'[sym] = books[sym]
               /\ UNCHANGED <<aggressor, orders_processed, metrics,
                              listed, global_order_index, call>>
<1> DEFINE red == Remaining(orders[o]) - nq
<1>1. /\ CanModify(id, nq)
      /\ nq < Remaining(orders[o]) /\ nq # 0
      /\ ~MovesOrder(id, np, nq)
      /\ orders' = [orders EXCEPT ![o] = Reduced(orders[o], nq)]
      /\ UNCHANGED <<aggressor, orders_processed, metrics,
                     listed, global_order_index, call>>
  BY DEF ReduceOrder, CanModify
<1>2. /\ g \in Symbol /\ s \in Side /\ o \in DOMAIN orders
      /\ BookOf(id) = books[g] /\ LevelOf(id) = books[g].level[s][p]
  BY <1>1, TargetFacts DEF BookOf, LevelOf
<1>3. /\ orders[o] \in OrderRecord /\ orders[o].quantity \in Nat
      /\ orders[o].filled_qty \in Nat
  BY <1>2, OrderTypes DEF ExInv
<1>4. nq \in Nat /\ nq > 0 /\ red \in Nat
  <2>1. nq \in Nat
    BY U32Assumption DEF UInt32
  <2> QED BY <1>1, <1>3, <2>1 DEF Remaining
<1>5. /\ Reduced(orders[o], nq) = [orders[o] EXCEPT !.quantity = orders[o].filled_qty + nq]
      /\ orders[o].filled_qty + nq <= orders[o].quantity
  <2> DEFINE r == orders[o]
  <2>1. r.quantity - (Remaining(r) - nq) = r.filled_qty + nq /\ r.filled_qty + nq <= r.quantity
    BY <1>1, <1>3, <1>4 DEF Remaining
  <2> QED BY <2>1 DEF Reduced
<1>6. /\ DOMAIN orders' = DOMAIN orders
      /\ orders' = [x \in DOMAIN orders |-> orders'[x]]
      /\ orders'[o] = Reduced(orders[o], nq)
      /\ \A x \in DOMAIN orders : x # o => orders'[x] = orders[x]
  <2>1. orders = [x \in DOMAIN orders |-> orders[x]]
    BY DEF ExInv, Inv, TypeOK, IsMap
  <2> QED BY <1>1, <1>2, <2>1
<1>7. books' = [books EXCEPT ![g].level[s] =
                   Put(@, p, ReducedLevel(books[g].level[s][p], red))]
  BY <1>2 DEF ReduceOrder
<1>8. /\ books = [sym \in Symbol |-> books[sym]]
      /\ books[g] = [level |-> books[g].level, order_index |-> books[g].order_index]
  BY <1>2 DEF ExInv, Inv, TypeOK, IsBook
<1>9. /\ books' = [sym \in Symbol |-> books'[sym]]
      /\ \A sym \in Symbol : sym # g => books'[sym] = books[sym]
      /\ books'[g] = [books[g] EXCEPT !.level[s] =
                         Put(@, p, ReducedLevel(books[g].level[s][p], red))]
  <2> HIDE DEF red
  <2> QED BY <1>2, <1>7, <1>8, Zenon
<1>10. books'[g] = [level |-> [books[g].level EXCEPT ![s] =
                                  Put(@, p, ReducedLevel(books[g].level[s][p], red))],
                    order_index |-> books[g].order_index]
  <2> DEFINE new == Put(books[g].level[s], p, ReducedLevel(books[g].level[s][p], red))
  <2>1. books'[g] = [books[g] EXCEPT !.level = [books[g].level EXCEPT ![s] = new]]
    BY <1>9
  <2> HIDE DEF new
  <2>2. books'[g] = [level |-> [books[g].level EXCEPT ![s] = new],
                     order_index |-> books[g].order_index]
    BY <1>8, <2>1
  <2> QED BY <2>2 DEF new
<1>11. np = p
  BY <1>1 DEF MovesOrder
<1>12. QED
  BY <1>1, <1>4, <1>5, <1>6, <1>9, <1>10, <1>11

LEMMA ReduceStep ==
    ASSUME ExInv, NEW id, NEW np \in Price, NEW nq \in UInt32,
           ReduceOrder(id, np, nq)
    PROVE  ExInv'
<1> DEFINE o   == Target(id)
           g   == global_order_index[id]
           s   == LocationOf(id).side
           p   == LocationOf(id).price
           red == Remaining(orders[o]) - nq
           bk  == books[g]
           lv  == bk.level[s][p]
           r   == orders[o]
<1>1. CanModify(id, nq)
  BY DEF ReduceOrder
<1>2. /\ aggressor = NoOrder /\ g \in Symbol /\ s \in Side /\ p \in DOMAIN bk.level[s]
      /\ RestsAt(bk, o, s, p)
      /\ o \in DOMAIN orders /\ MayRestAt(r, g, s, p)
  BY <1>1, TargetFacts DEF BookOf
<1>3. /\ nq \in Nat /\ nq > 0 /\ red \in Nat
      /\ DOMAIN orders' = DOMAIN orders
      /\ orders' = [x \in DOMAIN orders |-> orders'[x]]
      /\ orders'[o] = [r EXCEPT !.quantity = r.filled_qty + nq]
      /\ r.filled_qty + nq <= r.quantity
      /\ \A x \in DOMAIN orders : x # o => orders'[x] = orders[x]
      /\ books' = [sym \in Symbol |-> books'[sym]]
      /\ \A sym \in Symbol : sym # g => books'[sym] = books[sym]
      /\ books'[g] = [level |-> [bk.level EXCEPT ![s] = Put(@, p, ReducedLevel(lv, red))],
                      order_index |-> bk.order_index]
      /\ UNCHANGED <<aggressor, orders_processed, metrics,
                     listed, global_order_index, call>>
  <2> HIDE DEF o, g, s, p
  <2>1. o = Target(id) /\ g = global_order_index[id]
        /\ s = LocationOf(id).side /\ p = LocationOf(id).price
    BY DEF o, g, s, p
  <2> QED BY <2>1, ReduceEffect
<1>4. Inv /\ LevelTotals /\ BookInv(bk) /\ IsBook(bk)
  BY <1>2 DEF ExInv, Inv, BookInv
<1>5. /\ r \in OrderRecord /\ r.filled_qty \in Nat /\ r.quantity \in Nat
      /\ lv \in PriceLevel /\ p \in Price
  BY <1>2, <1>4, OrderTypes, QueueProperties
<1>6. /\ orders'[o] \in OrderRecord
      /\ orders'[o].filled_qty = r.filled_qty
      /\ orders'[o].quantity = r.filled_qty + nq
      /\ orders'[o].symbol = r.symbol /\ orders'[o].side = r.side
      /\ orders'[o].price = r.price /\ orders'[o].type = r.type
      /\ orders'[o].tif = r.tif /\ orders'[o].status = r.status
      /\ Remaining(orders'[o]) = nq
  <2> HIDE DEF r, o
  <2>1. r.filled_qty + nq \in UInt32
    <3>1. r.quantity \in UInt32
      BY <1>5 DEF OrderRecord
    <3> QED BY <1>3, <1>5, <3>1, U32Assumption DEF UInt32
  <2>2. /\ orders'[o].filled_qty = r.filled_qty
        /\ orders'[o].quantity = r.filled_qty + nq
        /\ orders'[o].symbol = r.symbol /\ orders'[o].side = r.side
        /\ orders'[o].price = r.price /\ orders'[o].type = r.type
        /\ orders'[o].tif = r.tif /\ orders'[o].status = r.status
    BY <1>3, <1>5 DEF OrderRecord
  <2>3. orders'[o] \in OrderRecord
    BY <1>3, <1>5, <2>1 DEF OrderRecord
  <2> QED BY <1>3, <1>5, <2>2, <2>3 DEF Remaining
<1> DEFINE new == books'[g]
           rlv == ReducedLevel(lv, red)
<1>7. rlv \in PriceLevel /\ rlv.orders = lv.orders
  <2> DEFINE total == lv.total_qty - red
  <2> HIDE DEF lv, red
  <2>1. lv \in PriceLevel /\ total \in Int
    BY <1>3, <1>5 DEF PriceLevel
  <2>2. rlv = [lv EXCEPT !.total_qty = total]
    BY DEF ReducedLevel
  <2> HIDE DEF total, rlv
  <2> QED BY <2>1, <2>2 DEF PriceLevel
<1> HIDE DEF o, g, s, p, lv, r, red, bk
<1>8. /\ new = [level |-> new.level, order_index |-> new.order_index]
      /\ new.order_index = bk.order_index
      /\ new.level = [t \in Side |-> new.level[t]]
      /\ \A t \in Side : IsMap(new.level[t], Price, PriceLevel)
      /\ DOMAIN new.level[s] = DOMAIN bk.level[s]
      /\ new.level[s][p] = rlv
      /\ \A x \in DOMAIN bk.level[s] : x # p => new.level[s][x] = bk.level[s][x]
      /\ \A t \in Side : t # s => new.level[t] = bk.level[t]
  <2>1. /\ new.level = [bk.level EXCEPT ![s] = Put(bk.level[s], p, rlv)]
        /\ new.order_index = bk.order_index
        /\ new = [level |-> new.level, order_index |-> new.order_index]
    BY <1>3
  <2> HIDE DEF new, rlv
  <2> DEFINE L == new.level
  <2>2. L = [bk.level EXCEPT ![s] = Put(bk.level[s], p, rlv)]
    BY <2>1
  <2> HIDE DEF L
  <2>3. /\ L = [t \in Side |-> L[t]]
        /\ \A t \in Side : IsMap(L[t], Price, PriceLevel)
        /\ DOMAIN L[s] = DOMAIN bk.level[s] \union {p}
        /\ L[s][p] = rlv
        /\ \A x \in DOMAIN bk.level[s] : x # p => L[s][x] = bk.level[s][x]
        /\ \A t \in Side : t # s => L[t] = bk.level[t]
    BY <1>2, <1>4, <1>5, <1>7, <2>2, PutLevelProperties
  <2> QED BY <1>2, <2>1, <2>3 DEF L
<1> HIDE DEF new, rlv
<1>9. IsBook(new)
  <2>1. IsMap(new.order_index, OrderId, OrderLocation)
    BY <1>4, <1>8 DEF IsBook
  <2> QED BY <1>8, <2>1 DEF IsBook
<1>10. \A t \in Side : /\ DOMAIN new.level[t] = DOMAIN bk.level[t]
                       /\ \A x \in DOMAIN new.level[t] :
                             new.level[t][x].orders = bk.level[t][x].orders
  BY <1>2, <1>7, <1>8 DEF lv
<1>11. /\ BookInv(new)
       /\ \A y, t, x : t \in Side /\ RestsAt(new, y, t, x) => RestsAt(bk, y, t, x)
  BY <1>4, <1>8, <1>9, <1>10, SameQueuesInv
<1>12. ASSUME NEW sym \in Symbol, NEW t \in Side, NEW x, NEW y, RestsAt(books'[sym], y, t, x)
       PROVE  /\ RestsAt(books[sym], y, t, x)
              /\ y \in DOMAIN orders
              /\ MayRestAt(orders[y], sym, t, x)
  <2>1. RestsAt(books[sym], y, t, x)
    BY <1>3, <1>11, <1>12 DEF new, bk
  <2> QED BY <1>4, <2>1, RestingOrder
<1>13. \A sym \in Symbol : BookInv(books'[sym])
  BY <1>3, <1>4, <1>11 DEF Inv, new
<1>14. TypeOK'
  <2>1. IsMap(orders', Order, OrderRecord)
    <3>1. IsMap(orders, Order, OrderRecord)
      BY <1>4 DEF Inv, TypeOK
    <3>2. \A x \in DOMAIN orders : orders'[x] \in OrderRecord
      BY <1>3, <1>6, <3>1 DEF IsMap
    <3> QED BY <1>3, <3>1, <3>2 DEF IsMap
  <2>2. \A sym \in Symbol : IsBook(books'[sym])
    BY <1>13 DEF BookInv
  <2>3. aggressor' \in DOMAIN orders' \union {NoOrder}
    BY <1>2, <1>3
  <2>4. books' = [sym \in Symbol |-> books'[sym]]
    BY <1>3
  <2>5. /\ orders_processed' \in Nat /\ next_exec_id' \in Nat \ {0} /\ fills_generated' \in Nat
        /\ volume_traded' \in Nat /\ total_value_traded' \in Nat
    BY <1>3, <1>4 DEF Inv, TypeOK, metrics
  <2> QED BY <2>1, <2>2, <2>3, <2>4, <2>5 DEF TypeOK
<1>15. RestingOrdersLive'
  <2> SUFFICES ASSUME NEW sym \in Symbol
               PROVE  QueuedAreLive(books'[sym], orders', sym)
    BY DEF RestingOrdersLive
  <2>1. ASSUME NEW t \in Side, NEW y, NEW x, RestsAt(books'[sym], y, t, x)
        PROVE  y \in DOMAIN orders' /\ MayRestAt(orders'[y], sym, t, x)
    <3>1. y \in DOMAIN orders /\ MayRestAt(orders[y], sym, t, x)
      BY <1>12, <2>1
    <3>2. CASE y # o
      BY <1>3, <3>1, <3>2
    <3>3. CASE y = o
      BY <1>3, <1>6, <3>1, <3>3 DEF MayRestAt, IsActive, r
    <3> QED BY <3>2, <3>3
  <2> QED BY <2>1, LiveIffRests
<1>16. TakerAway' /\ TakerOpen'
  <2>1. TakerOpen'
    BY <1>2, <1>3 DEF TakerOpen
  <2>2. \A sym \in Symbol : \A t \in Side : \A x : ~RestsAt(books'[sym], NoOrder, t, x)
    BY <1>4, <1>12, OrderTypes
  <2> QED BY <1>2, <1>3, <2>1, <2>2 DEF TakerAway
<1>17. NoStaleLevel'
  <2> SUFFICES ASSUME NEW sym \in Symbol, NEW t \in Side,
                      NEW x \in DOMAIN books'[sym].level[t]
               PROVE  books'[sym].level[t][x].orders # <<>>
    BY DEF NoStaleLevel
  <2>1. CASE sym = g
    BY <1>2, <1>4, <1>10, <2>1, NoStaleWhenIdle DEF new, bk
  <2>2. CASE sym # g
    BY <1>2, <1>3, <1>4, <2>2, NoStaleWhenIdle
  <2> QED BY <2>1, <2>2
<1>18. StatusMatchesFills'
  <2>1. \A x \in DOMAIN orders : x = o \/ orders'[x] = orders[x]
    BY <1>3
  <2>2. /\ r.status \in {"NEW", "PARTIALLY_FILLED"}
        /\ r.status = "NEW" => r.filled_qty = 0
        /\ r.status = "PARTIALLY_FILLED" => r.filled_qty > 0
    BY <1>2, <1>4 DEF Inv, StatusMatchesFills, MayRestAt, IsActive, r
  <2>3. LET n == orders'[o]
        IN  /\ n.filled_qty <= n.quantity
            /\ n.status = "NEW" => n.filled_qty = 0
            /\ n.status = "PARTIALLY_FILLED" =>
                   n.filled_qty > 0 /\ n.filled_qty < n.quantity
            /\ n.status \notin {"FILLED", "CANCELLED"}
    BY <1>3, <1>5, <1>6, <2>2
  <2> QED BY <1>3, <1>4, <2>1, <2>3 DEF Inv, StatusMatchesFills
<1>19. Inv'
  BY <1>13, <1>14, <1>15, <1>16, <1>17, <1>18 DEF Inv
<1>20. \A sym \in Symbol : BookBacked(books[sym], orders) /\ BookAddsUp(books[sym], orders)
  BY <1>4, BooksBacked, TotalsByBook
<1>21. ASSUME NEW sym \in Symbol PROVE BookBacked(books[sym], orders')
  <2>1. \A x \in DOMAIN orders : x \in DOMAIN orders' /\ Remaining(orders'[x]) \in Int
    BY <1>3, <1>4, <1>6, OrderTypes
  <2>2. \A t \in Side : \A x \in DOMAIN books[sym].level[t] : Backed(books[sym].level[t][x].orders, orders)
    BY <1>20 DEF BookBacked
  <2> QED BY <2>1, <2>2 DEF BookBacked, Backed
<1>22. ASSUME NEW sym \in Symbol, sym # g PROVE BookAddsUp(books'[sym], orders')
  <2> DEFINE b    == books[sym]
             news == orders'
  <2>1. IsBook(b) /\ BookAddsUp(b, orders) /\ BookBacked(b, orders) /\ BookBacked(b, news)
    BY <1>4, <1>20, <1>21 DEF Inv, TypeOK
  <2>2. \A t \in Side : \A x \in DOMAIN b.level[t] : \A y :
           RestsAt(b, y, t, x) => Remaining(news[y]) = Remaining(orders[y])
    <3> SUFFICES ASSUME NEW t \in Side, NEW x \in DOMAIN b.level[t], NEW y, RestsAt(b, y, t, x)
                 PROVE  Remaining(news[y]) = Remaining(orders[y])
      OBVIOUS
    <3>1. y \in DOMAIN orders /\ MayRestAt(orders[y], sym, t, x)
      BY <1>4, RestingOrder
    <3>2. y # o
      BY <1>2, <1>22, <3>1 DEF MayRestAt, r
    <3> QED BY <1>3, <3>1, <3>2
  <2> HIDE DEF b, news
  <2>3. BookAddsUp(b, news)
    BY <2>1, <2>2, SameOpenQtyAddsUp
  <2> QED BY <1>3, <1>22, <2>3 DEF b, news
<1>23. BookAddsUp(new, orders')
  <2> DEFINE news == orders'
  <2>1. /\ \A y \in DOMAIN orders : y # o => Remaining(news[y]) = Remaining(orders[y])
        /\ Remaining(news[o]) = Remaining(orders[o]) - red
    <3>1. /\ red = Remaining(orders[o]) - nq /\ Remaining(orders[o]) \in Int
      BY <1>2, <1>4, OrderTypes DEF red
    <3> QED BY <1>3, <1>6, <3>1
  <2>2. /\ BookBacked(bk, orders) /\ BookBacked(bk, news) /\ BookAddsUp(bk, orders)
    BY <1>2, <1>20, <1>21 DEF bk
  <2>3. AddsUp(rlv, news)
    <3>1. /\ Backed(lv.orders, orders) /\ Backed(lv.orders, news) /\ AddsUp(lv, orders)
      BY <1>2, <2>2 DEF BookBacked, BookAddsUp, lv
    <3>2. o \in ToSet(lv.orders)
      BY <1>2, <1>4, RestsAtSet DEF lv
    <3>3. \A x \in ToSet(lv.orders) : x # o => Remaining(news[x]) = Remaining(orders[x])
      BY <2>1, <3>1 DEF Backed
    <3>4. Remaining(news[o]) = Remaining(orders[o]) - red /\ red \in Int
      BY <1>3, <2>1
    <3> HIDE DEF news
    <3> QED BY <1>5, <3>1, <3>2, <3>3, <3>4, AddsUpReduced DEF rlv
  <2>4. ASSUME NEW t \in Side, NEW x \in DOMAIN new.level[t], ~(t = s /\ x = p)
        PROVE  AddsUp(new.level[t][x], news)
    <3> DEFINE l == bk.level[t][x]
    <3>1. x \in DOMAIN bk.level[t] /\ new.level[t][x] = l
      BY <1>8, <1>10, <2>4
    <3>2. /\ Backed(l.orders, orders) /\ Backed(l.orders, news) /\ AddsUp(l, orders)
      BY <2>2, <3>1 DEF BookBacked, BookAddsUp
    <3>3. \A y \in ToSet(l.orders) : Remaining(news[y]) = Remaining(orders[y])
      <4> SUFFICES ASSUME NEW y \in ToSet(l.orders) PROVE y # o /\ y \in DOMAIN orders
        BY <2>1
      <4>1. RestsAt(bk, y, t, x)
        BY <1>4, <3>1, RestsAtSet
      <4>2. y \in DOMAIN orders /\ MayRestAt(orders[y], g, t, x)
        BY <1>2, <1>4, <4>1, RestingOrder DEF bk
      <4> QED BY <1>2, <2>4, <4>2 DEF MayRestAt, r
    <3> HIDE DEF news, l
    <3>4. AddsUp(l, news)
      BY <3>2, <3>3, AddsUpSame
    <3> QED BY <3>1, <3>4
  <2> HIDE DEF news
  <2>5. BookAddsUp(new, news)
    BY <1>8, <2>3, <2>4 DEF BookAddsUp
  <2> QED BY <2>5 DEF news
<1>24. LevelTotals'
  BY <1>22, <1>23 DEF LevelTotals, BookAddsUp, new
<1>25. Routed' /\ TakerRouted'
  <2>1. Routed'
    BY <1>3, <1>12 DEF ExInv, Routed, LeadsTo
  <2> QED BY <1>2, <1>3, <2>1 DEF TakerRouted
<1>26. InCall' /\ listed' \subseteq Symbol
  BY <1>3 DEF ExInv, InCall
<1>27. QED
  BY <1>19, <1>24, <1>25, <1>26 DEF ExInv

----------------------------------------------------------------------------
(* The other steps of the exchange. *)

(* A step that is one of the engine's, or leaves the engine alone. *)
LEMMA EngineKeeps ==
    ASSUME ExInv, [Next]_vars
    PROVE  Inv' /\ LevelTotals'
  BY NextInv, NextTotals DEF ExInv

LEMMA AddSymbolStep ==
    ASSUME ExInv, NEW sym0 \in Symbol, AddSymbol(sym0)
    PROVE  ExInv'
<1>1. UNCHANGED vars /\ UNCHANGED <<global_order_index, call>> /\ listed' = listed \union {sym0}
  BY DEF AddSymbol
<1>2. Inv' /\ LevelTotals'
  BY <1>1, EngineKeeps
<1>3. UNCHANGED <<books, orders, aggressor>>
  BY <1>1 DEF vars
<1>4. Routed'
  <2>1. \A sym \in Symbol : \A s \in Side : \A p, o :
           RestsAt(books[sym], o, s, p) => sym \in listed /\ LeadsTo(o, sym)
    BY DEF ExInv, Routed
  <2> QED BY <1>1, <1>3, <2>1 DEF Routed, LeadsTo
<1>5. TakerRouted' /\ InCall'
  BY <1>1, <1>3 DEF ExInv, TakerRouted, Taker, InCall, LeadsTo
<1>6. QED
  BY <1>1, <1>2, <1>4, <1>5 DEF ExInv

LEMMA RejectOrderStep ==
    ASSUME ExInv, NEW o \in Order, NEW in \in OrderInput, RejectOrder(o, in)
    PROVE  ExInv'
<1> DEFINE r == [NewOrder(in) EXCEPT !.status = "REJECTED"]
<1>1. /\ o \notin DOMAIN orders
      /\ orders' = Put(orders, o, r)
      /\ UNCHANGED <<books, aggressor, orders_processed, metrics,
                     listed, global_order_index, call>>
  BY DEF RejectOrder
<1>2. /\ r \in OrderRecord /\ r.filled_qty = 0 /\ r.quantity \in Nat /\ r.status = "REJECTED"
  <2>1. 0 \in UInt32 /\ UInt32 \subseteq Nat
    BY U32Assumption DEF UInt32
  <2> QED BY <2>1 DEF OrderInput, NewOrder, OrderRecord, OrderStatus
<1> HIDE DEF r
<1>3. /\ DOMAIN orders' = DOMAIN orders \union {o}
      /\ orders'[o] = r
      /\ \A x \in DOMAIN orders : orders'[x] = orders[x]
      /\ orders' = [x \in DOMAIN orders' |-> orders'[x]]
  BY <1>1 DEF Put
<1>4. Inv /\ LevelTotals
  BY DEF ExInv
<1>5. TypeOK'
  <2>1. IsMap(orders', Order, OrderRecord)
    BY <1>2, <1>3, <1>4 DEF Inv, TypeOK, IsMap
  <2>2. aggressor' \in DOMAIN orders' \union {NoOrder}
    BY <1>1, <1>3, <1>4 DEF Inv, TypeOK
  <2> QED BY <1>1, <1>4, <2>1, <2>2 DEF Inv, TypeOK, metrics
<1>6. RestingOrdersLive'
  <2> SUFFICES ASSUME NEW sym \in Symbol
               PROVE  QueuedAreLive(books'[sym], orders', sym)
    BY DEF RestingOrdersLive
  <2>1. \A t \in Side : \A y, x : RestsAt(books[sym], y, t, x)
           => y \in DOMAIN orders' /\ MayRestAt(orders'[y], sym, t, x)
    BY <1>3, <1>4, RestingOrder
  <2> QED BY <1>1, <2>1, LiveIffRests
<1>7. aggressor # NoOrder => orders'[aggressor] = orders[aggressor]
  BY <1>3, <1>4 DEF Inv, TypeOK
<1>8. TakerOpen' /\ TakerAway'
  BY <1>1, <1>4, <1>7 DEF Inv, TakerOpen, TakerAway, Taker
<1>9. NoStaleLevel'
  BY <1>1, <1>4, <1>7 DEF Inv, NoStaleLevel, Taker, MakerSide, SweepPrice, TakerBook
<1>10. StatusMatchesFills'
  <2>1. \A y \in DOMAIN orders' : y = o \/ (y \in DOMAIN orders /\ orders'[y] = orders[y])
    BY <1>3
  <2> QED BY <1>2, <1>3, <1>4, <2>1 DEF Inv, StatusMatchesFills
<1>11. Inv'
  BY <1>1, <1>4, <1>5, <1>6, <1>8, <1>9, <1>10 DEF Inv
<1>12. LevelTotals'
  <2>1. ASSUME NEW sym \in Symbol PROVE BookAddsUp(books'[sym], orders')
    <3> DEFINE bk   == books[sym]
               news == orders'
    <3>1. IsBook(bk) /\ BookAddsUp(bk, orders) /\ BookBacked(bk, orders)
      BY <1>4, BooksBacked, TotalsByBook DEF Inv, TypeOK
    <3>2. DOMAIN orders \subseteq DOMAIN news /\ \A x \in DOMAIN orders : news[x] = orders[x]
      BY <1>3
    <3>3. \A s \in Side : \A p \in DOMAIN bk.level[s] : \A x :
             RestsAt(bk, x, s, p) => Remaining(news[x]) = Remaining(orders[x])
      BY <1>4, <3>2, RestingOrder
    <3> HIDE DEF bk, news
    <3>4. BookBacked(bk, news)
      BY <3>1, <3>2 DEF BookBacked, Backed
    <3>5. BookAddsUp(bk, news)
      BY <3>1, <3>3, <3>4, SameOpenQtyAddsUp
    <3> QED BY <1>1, <3>5 DEF bk, news
  <2> QED BY <2>1 DEF LevelTotals, BookAddsUp
<1>13. Routed' /\ TakerRouted' /\ InCall' /\ listed' \subseteq Symbol
  BY <1>1, <1>7 DEF ExInv, Routed, TakerRouted, Taker, InCall, LeadsTo
<1>14. QED
  BY <1>11, <1>12, <1>13 DEF ExInv

LEMMA ExSubmitStep ==
    ASSUME ExInv, NEW o \in Order, NEW in \in OrderInput,
           ExSubmitOrder(o, in)
    PROVE  ExInv'
<1>1. /\ SubmitOrder(o, in)
      /\ in.symbol \in listed
      /\ global_order_index' = IF in.type = "LIMIT"
                               THEN Put(global_order_index, order_id[o], in.symbol)
                               ELSE global_order_index
      /\ call' = IF aggressor' = NoOrder THEN "none" ELSE "submit"
      /\ listed' = listed
  BY DEF ExSubmitOrder
<1>2. Inv' /\ LevelTotals'
  BY <1>1, SubmitOrderStep, SubmitOrderTotals DEF ExInv
<1>3. /\ o \notin DOMAIN orders
      /\ books' = books
      /\ aggressor' \in {NoOrder, o}
      /\ orders'[o].symbol = in.symbol
      /\ orders'[o].type = in.type
  BY <1>1 DEF SubmitOrder, Enter, Put, NewOrder
<1>4. ASSUME NEW sym \in Symbol, NEW s \in Side, NEW p, NEW y, RestsAt(books'[sym], y, s, p)
      PROVE  /\ sym \in listed'
             /\ OwnId(order_id[y]) =>
                   /\ order_id[y] \in DOMAIN global_order_index'
                   /\ global_order_index'[order_id[y]] = sym
  <2>1. RestsAt(books[sym], y, s, p)
    BY <1>3, <1>4
  <2>2. y \in DOMAIN orders /\ y \in Order
    BY <2>1, RestingOrder, OrderTypes DEF ExInv
  <2>3. OwnId(order_id[y]) => order_id[y] # order_id[o]
    BY <1>3, <2>2 DEF OwnId
  <2>4. sym \in listed /\ LeadsTo(y, sym)
    BY <2>1 DEF ExInv, Routed
  <2> QED BY <1>1, <2>3, <2>4 DEF Put, LeadsTo
<1>5. TakerRouted'
  <2> SUFFICES ASSUME aggressor' = o
               PROVE  /\ orders'[o].symbol \in listed'
                      /\ orders'[o].type = "LIMIT" =>
                            /\ order_id[o] \in DOMAIN global_order_index'
                            /\ global_order_index'[order_id[o]] = orders'[o].symbol
    BY <1>3 DEF TakerRouted, Taker, LeadsTo
  <2> QED BY <1>1, <1>3 DEF Put
<1>6. InCall' /\ listed' \subseteq Symbol
  BY <1>1 DEF ExInv, InCall
<1>7. QED
  BY <1>2, <1>4, <1>5, <1>6 DEF ExInv, Routed, LeadsTo

LEMMA ExFillStep ==
    ASSUME ExInv, ExExecuteFill
    PROVE  ExInv'
<1>1. ExecuteFill /\ UNCHANGED <<listed, global_order_index, call>>
  BY DEF ExExecuteFill
<1>2. Inv' /\ LevelTotals'
  BY <1>1, EngineKeeps DEF Next, EngineStep
<1>3. Routed'
  BY <1>1, FillPlaces DEF ExInv, Routed, LeadsTo
<1>4. /\ aggressor' = aggressor
      /\ orders'[aggressor].symbol = orders[aggressor].symbol
      /\ orders'[aggressor].type = orders[aggressor].type
  BY <1>1, FillEffect DEF ExInv
<1>5. TakerRouted' /\ InCall' /\ listed' \subseteq Symbol
  BY <1>1, <1>4 DEF ExInv, TakerRouted, Taker, InCall, LeadsTo
<1>6. QED
  BY <1>2, <1>3, <1>5 DEF ExInv

LEMMA ExEraseStep ==
    ASSUME ExInv, ExEraseLevel
    PROVE  ExInv'
<1>1. EraseLevel /\ UNCHANGED <<listed, global_order_index, call>>
  BY DEF ExEraseLevel, exchangeVars
<1>2. Inv' /\ LevelTotals'
  BY <1>1, EngineKeeps DEF Next, EngineStep
<1>3. Routed'
  BY <1>1, ErasePlaces DEF ExInv, Routed, LeadsTo
<1>4. orders' = orders /\ aggressor' = aggressor
  BY <1>1 DEF EraseLevel
<1>5. TakerRouted' /\ InCall' /\ listed' \subseteq Symbol
  BY <1>1, <1>4 DEF ExInv, TakerRouted, Taker, InCall, LeadsTo
<1>6. QED
  BY <1>2, <1>3, <1>5 DEF ExInv

(* The entry submit_order drops belongs to an order that does not rest. *)
LEMMA ExFinishStep ==
    ASSUME ExInv, ExFinish
    PROVE  ExInv'
<1>1. /\ Finish
      /\ global_order_index' = IF FilledAtOnce
                               THEN Erase(global_order_index, order_id[aggressor])
                               ELSE global_order_index
      /\ call' = "none" /\ listed' = listed
  BY DEF ExFinish
<1>2. Inv' /\ LevelTotals'
  BY <1>1, EngineKeeps DEF Next, EngineStep
<1>3. aggressor # NoOrder /\ aggressor' = NoOrder
  BY <1>1 DEF Finish
<1>4. aggressor \in DOMAIN orders /\ aggressor \in Order
  BY <1>3, SweepFacts, OrderTypes DEF ExInv
<1>5. FilledAtOnce => ~RestsRemainder
  <2>1. /\ Taker.status = "FILLED" => Taker.filled_qty = Taker.quantity
        /\ Taker.quantity \in Nat
    BY <1>4, OrderTypes DEF ExInv, Inv, StatusMatchesFills, Taker
  <2> QED BY <2>1 DEF FilledAtOnce, RestsRemainder, Leftover, Remaining
<1>6. ASSUME NEW sym \in Symbol, NEW s \in Side, NEW p, NEW y, RestsAt(books'[sym], y, s, p)
      PROVE  /\ sym \in listed'
             /\ OwnId(order_id[y]) =>
                   /\ order_id[y] \in DOMAIN global_order_index'
                   /\ global_order_index'[order_id[y]] = sym
  <2>1. CASE RestsAt(books[sym], y, s, p)
    <3>1. y \in DOMAIN orders /\ y \in Order /\ y # aggressor
      BY <2>1, RestingOrder, OrderTypes DEF ExInv
    <3>2. OwnId(order_id[y]) => order_id[y] # order_id[aggressor]
      BY <1>4, <3>1 DEF OwnId
    <3>3. sym \in listed /\ LeadsTo(y, sym)
      BY <2>1 DEF ExInv, Routed
    <3> QED BY <1>1, <3>2, <3>3 DEF Erase, LeadsTo
  <2>2. CASE y = aggressor /\ sym = Taker.symbol /\ RestsRemainder
    <3>1. global_order_index' = global_order_index /\ Taker.type = "LIMIT"
      BY <1>1, <1>5, <2>2 DEF RestsRemainder
    <3> QED BY <1>1, <1>3, <2>2, <3>1 DEF ExInv, TakerRouted, LeadsTo
  <2> QED BY <1>1, <1>6, <2>1, <2>2, FinishPlaces DEF ExInv
<1>7. TakerRouted' /\ InCall' /\ listed' \subseteq Symbol
  BY <1>1, <1>3 DEF ExInv, TakerRouted, InCall
<1>8. QED
  BY <1>2, <1>6, <1>7 DEF ExInv, Routed, LeadsTo

LEMMA ExCancelStep ==
    ASSUME ExInv, NEW id \in OrderId, ExCancelOrder(id)
    PROVE  ExInv'
<1> DEFINE g == global_order_index[id]
<1>1. /\ CancelOrder(g, id) /\ g \in Symbol
      /\ global_order_index' = Erase(global_order_index, id)
      /\ UNCHANGED <<listed, call>>
  BY DEF ExCancelOrder, HasBookFor, ExInv
<1> HIDE DEF g
<1>2. Inv' /\ LevelTotals'
  BY <1>1, EngineKeeps DEF Next
<1>3. /\ aggressor = NoOrder /\ aggressor' = NoOrder
      /\ id \in DOMAIN books[g].order_index
      /\ books' = [books EXCEPT ![g] = CancelInBook(books[g], orders, id)]
  BY <1>1 DEF CancelOrder
<1>4. BooksWithout(books', g, id)
  BY <1>1, <1>3, CancelLeaves DEF ExInv
<1>5. Routed'
  <2> SUFFICES ASSUME NEW sym \in Symbol, NEW s \in Side, NEW p, NEW y,
                      RestsAt(books'[sym], y, s, p)
               PROVE  /\ sym \in listed'
                      /\ OwnId(order_id[y]) =>
                            /\ order_id[y] \in DOMAIN global_order_index'
                            /\ global_order_index'[order_id[y]] = sym
    BY DEF Routed, LeadsTo
  <2>1. RestsAt(books[sym], y, s, p) /\ (OwnId(id) => order_id[y] # id)
    BY <1>4 DEF BooksWithout
  <2>2. sym \in listed /\ LeadsTo(y, sym)
    BY <2>1 DEF ExInv, Routed
  <2> QED BY <1>1, <2>1, <2>2 DEF Erase, LeadsTo
<1>6. TakerRouted' /\ InCall' /\ listed' \subseteq Symbol
  BY <1>1, <1>3 DEF ExInv, TakerRouted, InCall
<1>7. QED
  BY <1>2, <1>5, <1>6 DEF ExInv

LEMMA ExIdleStep ==
    ASSUME ExInv, UNCHANGED <<vars, listed, global_order_index, call>>
    PROVE  ExInv'
<1>1. Inv' /\ LevelTotals'
  BY EngineKeeps
<1>2. UNCHANGED <<books, orders, aggressor>>
  BY DEF vars
<1>3. QED
  BY <1>1, <1>2 DEF ExInv, Routed, TakerRouted, Taker, InCall, LeadsTo

LEMMA ExNextInv ==
    ASSUME ExInv, [ExNext]_exVars
    PROVE  ExInv'
<1>1. ASSUME NEW sym \in Symbol, AddSymbol(sym) PROVE ExInv'
  BY <1>1, AddSymbolStep
<1>2. ASSUME NEW o \in Order, NEW in \in Input, RejectOrder(o, in) \/ ExSubmitOrder(o, in)
      PROVE  ExInv'
  BY <1>2, InputAssumption, RejectOrderStep, ExSubmitStep
<1>3. ASSUME NEW id \in OrderId, ExCancelOrder(id) PROVE ExInv'
  BY <1>3, ExCancelStep
<1>4. ASSUME NEW id \in OrderId, NEW p \in Price, NEW q \in UInt32, ModifyOrder(id, p, q)
      PROVE  ExInv'
  <2>1. CASE ReplaceOrder(id, p, q)
    BY <2>1, ReplaceStep
  <2>2. CASE ReduceOrder(id, p, q)
    BY <2>2, ReduceStep
  <2>3. CASE KeepOrder(id, p, q)
    BY <2>3, ExIdleStep DEF KeepOrder
  <2> QED BY <1>4, <2>1, <2>2, <2>3 DEF ModifyOrder
<1>5. ASSUME ExEngineStep PROVE ExInv'
  BY <1>5, ExFillStep, ExEraseStep, ExFinishStep DEF ExEngineStep
<1>6. CASE UNCHANGED exVars
  BY <1>6, ExIdleStep DEF exVars, exchangeVars
<1>7. QED
  BY <1>1, <1>2, <1>3, <1>4, <1>5, <1>6 DEF ExNext

(* The invariant of the exchange holds in every reachable state. *)
(* What rests under an id no other order carries is found by it: both      *)
(* indexes lead to the level it is in.                                     *)
OwnIdsFound ==
    \A sym \in Symbol : \A s \in Side : \A p, o :
        RestsAt(books[sym], o, s, p) /\ OwnId(order_id[o]) =>
            /\ sym \in listed
            /\ order_id[o] \in DOMAIN global_order_index
            /\ global_order_index[order_id[o]] = sym
            /\ order_id[o] \in DOMAIN books[sym].order_index
            /\ books[sym].order_index[order_id[o]] = [side |-> s, price |-> p]

LEMMA OwnFound == ExInv => OwnIdsFound
<1> SUFFICES ASSUME ExInv, NEW sym \in Symbol, NEW s \in Side, NEW p, NEW o,
                    RestsAt(books[sym], o, s, p), OwnId(order_id[o])
             PROVE  /\ sym \in listed
                    /\ order_id[o] \in DOMAIN global_order_index
                    /\ global_order_index[order_id[o]] = sym
                    /\ order_id[o] \in DOMAIN books[sym].order_index
                    /\ books[sym].order_index[order_id[o]] = [side |-> s, price |-> p]
  BY DEF OwnIdsFound
<1>1. /\ sym \in listed
      /\ order_id[o] \in DOMAIN global_order_index
      /\ global_order_index[order_id[o]] = sym
  BY DEF ExInv, Routed, LeadsTo
<1> DEFINE bk == books[sym]
<1>2. OwnQueuedAreIndexed(bk) /\ RestsAt(bk, o, s, p)
  BY DEF ExInv, Inv, BookInv
<1> HIDE DEF bk
<1>3. PICK i \in DOMAIN bk.level[s][p].orders :
         p \in DOMAIN bk.level[s] /\ bk.level[s][p].orders[i] = o
  BY <1>2 DEF RestsAt
<1>4. /\ order_id[o] \in DOMAIN bk.order_index
      /\ bk.order_index[order_id[o]] = [side |-> s, price |-> p]
  BY <1>2, <1>3 DEF OwnQueuedAreIndexed
<1> QED BY <1>1, <1>4 DEF bk

THEOREM ExInvariance == ExSpec => []ExInv
<1>1. ExInit => ExInv
  BY ExInitInv
<1>2. ExInv /\ [ExNext]_exVars => ExInv'
  BY ExNextInv
<1>3. QED
  BY <1>1, <1>2, PTL DEF ExSpec

(* As long as no two orders carry one id, cancel_order and modify_order    *)
(* reach every resting order: whatever submit, fill, cancel and modify did *)
(* before, the global index sends the id of an order in a book to that     *)
(* book, and the book is listed.                                           *)
THEOREM AlwaysRoutable ==
    ASSUME UniqueOrderIds
    PROVE  ExSpec => []Routable
<1>1. ExInv => Routable
  BY RoutedImpliesRoutable DEF ExInv
<1>2. QED
  BY <1>1, ExInvariance, PTL

(* The books of the exchange are sound: modify_order, which takes a        *)
(* resting order out, restamps it and sends it through the engine again,   *)
(* or changes its quantity where it stands, keeps every property of the    *)
(* books that submitting and cancelling keep.                              *)
THEOREM BooksStaySound ==
    ASSUME UniqueOrderIds
    PROVE  ExSpec => []BooksSound
<1>1. ExInv => IndexConsistent
  BY UniqueIndexed DEF ExInv, Inv, IndexConsistent
<1>2. ExInv => BooksSound
  BY <1>1, InvImplies DEF ExInv, Inv, BooksSound
<1>3. QED
  BY <1>2, ExInvariance, PTL

(* Modifications keep status and fills in agreement: a reduction never     *)
(* goes below what has traded, and a replaced order starts from nothing.   *)
THEOREM ModifyKeepsStatus == ExSpec => []StatusMatchesFills
<1>1. ExInv => StatusMatchesFills
  BY DEF ExInv, Inv
<1>2. QED
  BY <1>1, ExInvariance, PTL

(* Modifications keep the totals of the levels: the level an order leaves  *)
(* or shrinks in loses exactly what the order gives up.                    *)
THEOREM ModifyKeepsTotals == ExSpec => []LevelTotals
<1>1. ExInv => LevelTotals
  BY DEF ExInv
<1>2. QED
  BY <1>1, ExInvariance, PTL

(* After modify_order the order is at new_price with new_qty open, however *)
(* much of it had traded and whichever of the three cases applied.         *)
THEOREM ModifySetsQty == ExSpec => ModifySetsOpenQty
<1> DEFINE Sets == ModifyStep => \A id \in OrderId, p \in Price, q \in UInt32 :
                      ModifyOrder(id, p, q) =>
                         LET r == orders'[Target(id)]
                         IN  r.price = p /\ Remaining(r) = q
<1>1. ASSUME ExInv PROVE Sets
  <2> SUFFICES ASSUME NEW id \in OrderId, NEW p \in Price, NEW q \in UInt32,
                      ModifyOrder(id, p, q)
               PROVE  orders'[Target(id)].price = p /\ Remaining(orders'[Target(id)]) = q
    OBVIOUS
  <2> HIDE DEF Sets
  <2> DEFINE o == Target(id)
  <2>1. CanModify(id, q)
    BY DEF ModifyOrder, ReplaceOrder, ReduceOrder, KeepOrder
  <2>2. /\ o \in DOMAIN orders /\ orders[o].price = LocationOf(id).price
    BY <1>1, <2>1, TargetFacts DEF MayRestAt
  <2>3. orders[o] \in OrderRecord /\ orders[o].quantity \in Nat /\ orders[o].filled_qty \in Nat
    BY <1>1, <2>2, OrderTypes DEF ExInv
  <2>4. q \in Nat
    BY U32Assumption DEF UInt32
  <2>5. CASE ReplaceOrder(id, p, q)
    <3>1. orders'[o] = Restamped(orders[o], p, q)
      BY <1>1, <2>5, ReplaceEffect
    <3> HIDE DEF o
    <3>2. /\ orders'[o].price = p /\ orders'[o].quantity = q /\ orders'[o].filled_qty = 0
      BY <2>3, <3>1 DEF Restamped, OrderRecord
    <3>3. orders'[o].price = p /\ Remaining(orders'[o]) = q
      BY <2>4, <3>2 DEF Remaining
    <3> QED BY <3>3 DEF o
  <2>6. CASE ReduceOrder(id, p, q)
    <3>1. p = LocationOf(id).price /\ orders' = [orders EXCEPT ![o] = Reduced(@, q)]
      BY <2>6 DEF ReduceOrder, MovesOrder
    <3>2. orders'[o] = Reduced(orders[o], q)
      BY <2>2, <3>1
    <3> HIDE DEF o
    <3>3. /\ orders'[o].price = orders[o].price
          /\ orders'[o].quantity = orders[o].quantity - (Remaining(orders[o]) - q)
          /\ orders'[o].filled_qty = orders[o].filled_qty
      BY <2>3, <3>2 DEF Reduced, OrderRecord
    <3>4. orders'[o].price = p /\ Remaining(orders'[o]) = q
      BY <2>2, <2>3, <2>4, <3>1, <3>3 DEF Remaining
    <3> QED BY <3>4 DEF o
  <2>7. CASE KeepOrder(id, p, q)
    <3>1. orders' = orders /\ q = Remaining(orders[o]) /\ p = LocationOf(id).price
      BY <2>7 DEF KeepOrder, vars, MovesOrder
    <3> QED BY <2>2, <3>1
  <2> QED BY <2>5, <2>6, <2>7 DEF ModifyOrder
<1>2. ExSpec => [][Sets]_exVars
  <2> HIDE DEF Sets
  <2> QED BY <1>1, ExInvariance, PTL DEF ExSpec
<1>3. QED
  BY <1>2 DEF ModifySetsOpenQty

----------------------------------------------------------------------------
(* The exchange implements price-time priority too: what modify_order does *)
(* is a Shrink or a Move of the abstract market.                           *)

(* An order for a symbol that is not listed never enters the market. *)
LEMMA RejectRefines ==
    ASSUME ExInv, ExInv', NEW o \in Order, NEW in, RejectOrder(o, in)
    PROVE  UNCHANGED Abstract!abstractVars
<1> DEFINE r == [NewOrder(in) EXCEPT !.status = "REJECTED"]
<1>1. /\ o \notin DOMAIN orders
      /\ orders' = Put(orders, o, r)
      /\ UNCHANGED <<books, aggressor, metrics>>
  BY DEF RejectOrder
<1> HIDE DEF r
<1>2. \A x \in DOMAIN orders : orders'[x] = orders[x]
  BY <1>1 DEF Put
<1>3. Fits(books, orders) /\ Fits(books', orders')
  BY InvFits DEF ExInv
<1>4. Resting(books', orders') = Resting(books, orders) /\ Ahead(books') = Ahead(books)
  <2>1. \A x \in DOMAIN Resting(books, orders) : Entry(orders'[x]) = Entry(orders[x])
    BY <1>2 DEF Resting
  <2>2. \A sym \in Symbol : SamePlaces(books[sym], books'[sym])
    BY <1>1, StaysPut
  <2> QED BY <1>3, <2>1, <2>2, SameResting
<1>5. takerMap' = takerMap
  <2>1. aggressor # NoOrder => orders'[aggressor] = orders[aggressor]
    BY <1>2 DEF ExInv, Inv, TypeOK
  <2> QED BY <1>1, <2>1 DEF takerMap, Taker
<1> QED BY <1>1, <1>4, <1>5, MappedResting, MappedAhead
        DEF Abstract!abstractVars, metrics

(* A modification that only takes quantity away keeps the order's place. *)
LEMMA ReduceRefines ==
    ASSUME ExInv, ExInv',
           NEW id, NEW np \in Price, NEW nq \in UInt32, ReduceOrder(id, np, nq)
    PROVE  Abstract!Next
<1> DEFINE o   == Target(id)
           g   == global_order_index[id]
           s   == LocationOf(id).side
           p   == LocationOf(id).price
           r   == orders[o]
           red == Remaining(r) - nq
           R   == Resting(books, orders)
           N   == Resting(books', orders')
<1>1. CanModify(id, nq) /\ nq < Remaining(r)
  BY DEF ReduceOrder
<1>2. /\ aggressor = NoOrder /\ g \in Symbol /\ s \in Side
      /\ p \in DOMAIN BookOf(id).level[s]
      /\ RestsAt(BookOf(id), o, s, p)
      /\ o \in DOMAIN orders
      /\ MayRestAt(r, g, s, p)
  BY <1>1, TargetFacts
<1>3. /\ nq \in Nat /\ nq > 0
      /\ orders'[o] = [r EXCEPT !.quantity = r.filled_qty + nq]
      /\ \A x \in DOMAIN orders : x # o => orders'[x] = orders[x]
      /\ books'[g] =
            [level |-> [books[g].level EXCEPT ![s] =
                           Put(@, p, ReducedLevel(books[g].level[s][p], red))],
             order_index |-> books[g].order_index]
      /\ \A sym \in Symbol : sym # g => books'[sym] = books[sym]
      /\ UNCHANGED <<aggressor, metrics>>
  BY ReduceEffect
<1>4. r \in OrderRecord /\ r.quantity \in Nat /\ r.filled_qty \in Nat /\ Remaining(r) \in Nat
  BY <1>2, OrderTypes DEF ExInv
<1>5. BookOf(id) = books[g] /\ BookInv(books[g])
  BY <1>2 DEF BookOf, ExInv, Inv
<1>6. Fits(books, orders) /\ Fits(books', orders')
  BY InvFits DEF ExInv
<1> HIDE DEF o, g, s, p, red
<1>7. SamePlaces(books[g], books'[g])
  <2> DEFINE bk  == books[g]
             new == books'[g]
             lv  == ReducedLevel(bk.level[s][p], red)
  <2>1. bk.level = [t \in Side |-> bk.level[t]]
    BY <1>5 DEF BookInv, IsBook
  <2>2. new.level = [bk.level EXCEPT ![s] = Put(@, p, lv)]
    BY <1>3
  <2>3. lv.orders = bk.level[s][p].orders
    <3>1. bk.level[s][p] \in PriceLevel
      BY <1>2, <1>5 DEF BookInv, IsBook, IsMap
    <3> QED BY <3>1 DEF ReducedLevel, PriceLevel
  <2> HIDE DEF bk, new, lv
  <2>4. /\ new.level[s] = Put(bk.level[s], p, lv)
        /\ \A t \in Side : t # s => new.level[t] = bk.level[t]
    BY <1>2, <2>1, <2>2, Zenon
  <2>5. p \in DOMAIN bk.level[s]
    BY <1>2, <1>5 DEF bk
  <2>6. \A t \in Side :
           /\ DOMAIN new.level[t] = DOMAIN bk.level[t]
           /\ \A x \in DOMAIN new.level[t] :
                 new.level[t][x].orders = bk.level[t][x].orders
    BY <2>3, <2>4, <2>5 DEF Put
  <2>7. SamePlaces(bk, new)
    BY <2>6, SameQueuesPlaces
  <2> QED BY <2>7 DEF bk, new
<1>8. \A sym \in Symbol : SamePlaces(books[sym], books'[sym])
  BY <1>3, <1>7, StaysPut
<1>9. DOMAIN N = DOMAIN R /\ Ahead(books') = Ahead(books)
  BY <1>6, <1>8, NothingMoves
<1>10. o \in DOMAIN R /\ R[o] = Entry(r)
  <2>1. RestsAt(books[g], o, s, p)
    BY <1>2, <1>5
  <2>2. o \in DOMAIN R
    BY <1>2, <1>6, <2>1, RestingIsOrder
  <2> QED BY <1>6, <2>2, RestingEntry
<1>11. Entry(orders'[o]) = [R[o] EXCEPT !.qty = nq]
  <2> DEFINE q == orders'[o]
  <2> HIDE DEF r
  <2>1. q.symbol = r.symbol /\ q.side = r.side /\ q.price = r.price
    BY <1>3, <1>4 DEF OrderRecord
  <2>2. q.quantity = r.filled_qty + nq /\ q.filled_qty = r.filled_qty
    BY <1>3, <1>4 DEF OrderRecord
  <2> HIDE DEF q
  <2>3. Remaining(q) = nq
    BY <1>3, <1>4, <2>2 DEF Remaining
  <2> QED BY <1>10, <2>1, <2>3 DEF Entry, q
<1>12. N = [R EXCEPT ![o].qty = nq]
  <2>1. N = [x \in DOMAIN R |-> Entry(orders'[x])]
    BY <1>9 DEF Resting
  <2>2. R = [x \in DOMAIN R |-> Entry(orders[x])]
    BY DEF Resting
  <2>3. \A x \in DOMAIN R : x # o => Entry(orders'[x]) = Entry(orders[x])
    <3>1. \A x \in DOMAIN R : x \in DOMAIN orders
      BY DEF Resting
    <3> QED BY <1>3, <3>1
  <2> HIDE DEF R, N, r
  <2> QED BY <1>10, <1>11, <2>1, <2>2, <2>3
<1>13. nq \in 1..(R[o].qty - 1)
  <2>1. R[o].qty = Remaining(r)
    BY <1>10 DEF Entry
  <2> HIDE DEF R, r
  <2> QED BY <1>1, <1>3, <1>4, <2>1 DEF o, r
<1>14. takerMap = Abstract!NoTaker /\ takerMap' = takerMap
  BY <1>2, <1>3 DEF takerMap, Abstract!NoTaker
<1>15. restingMap = R /\ restingMap' = N /\ aheadMap = Ahead(books) /\ aheadMap' = Ahead(books')
  BY MappedResting, MappedAhead
<1>16. o \in Order
  BY <1>2, OrderTypes DEF ExInv
<1> HIDE DEF R, N
<1>17. Abstract!Shrink(o)
  BY <1>3, <1>9, <1>10, <1>12, <1>13, <1>14, <1>15 DEF Abstract!Shrink, metrics
<1> QED BY <1>16, <1>17 DEF Abstract!Next

(* Any other modification sends the order round again: it leaves its place *)
(* and is matched like a new one, on the side and the book it was on.      *)
LEMMA ReplaceRefines ==
    ASSUME ExInv, ExInv',
           NEW id, NEW np \in Price, NEW nq \in UInt32, ReplaceOrder(id, np, nq)
    PROVE  Abstract!Next
<1> DEFINE o == Target(id)
           g == global_order_index[id]
           s == LocationOf(id).side
           p == LocationOf(id).price
           r == orders[o]
           R == Resting(books, orders)
           N == Resting(books', orders')
<1>1. CanModify(id, nq) /\ MovesOrder(id, np, nq)
  BY DEF ReplaceOrder
<1>2. /\ aggressor = NoOrder /\ g \in Symbol /\ s \in Side
      /\ id \in DOMAIN BookOf(id).order_index
      /\ RestsAt(BookOf(id), o, s, p)
      /\ Finds(BookOf(id), id) /\ o = Found(BookOf(id), id)
      /\ o \in DOMAIN orders
      /\ MayRestAt(r, g, s, p)
  BY <1>1, TargetFacts
<1>3. /\ books' = WithoutOrder(id)
      /\ orders'[o] = Restamped(r, np, nq)
      /\ \A x \in DOMAIN orders : x # o => orders'[x] = orders[x]
      /\ aggressor' = o
      /\ UNCHANGED metrics
  BY ReplaceEffect
<1>4. r \in OrderRecord /\ o \in Order /\ o # NoOrder
  BY <1>2, OrderTypes DEF ExInv
<1>5. BookOf(id) = books[g] /\ BookInv(books[g])
  BY <1>2 DEF BookOf, ExInv, Inv
<1>6. Fits(books, orders) /\ Fits(books', orders')
  BY InvFits DEF ExInv
<1> DEFINE bk  == books[g]
           new == CancelInBook(bk, orders, id)
<1>7. PICK t \in Side, x \in Price :
         RestsAt(bk, Found(bk, id), t, x) /\ LeavesPlace(bk, new, Found(bk, id))
  <2>1. \A u \in Side : \A z \in DOMAIN bk.level[u] : \A j \in DOMAIN bk.level[u][z].orders :
           Remaining(orders[bk.level[u][z].orders[j]]) \in Int
    <3>1. \A u \in Side : \A z, y : RestsAt(bk, y, u, z) => y \in DOMAIN orders
      BY <1>2, RestingOrder DEF ExInv
    <3>2. \A y \in DOMAIN orders : Remaining(orders[y]) \in Int
      BY OrderTypes DEF ExInv
    <3> HIDE DEF bk
    <3> QED BY <3>1, <3>2 DEF RestsAt
  <2> HIDE DEF bk, g
  <2> QED BY <1>2, <1>5, <2>1, CancelPlaces DEF bk
<1> HIDE DEF o, g, s, p, new
<1>8. Found(bk, id) = o
  BY <1>2, <1>5
<1>9. LeavesBook(books, books', g, t, x, o)
  <2>1. books' = [books EXCEPT ![g] = new]
    BY <1>3, <1>5 DEF WithoutOrder, new, g
  <2>2. books = [z \in Symbol |-> books[z]]
    BY DEF ExInv, Inv, TypeOK
  <2>3. books'[g] = new /\ OthersSame(books, books', g)
    BY <1>2, <2>1, <2>2, Zenon DEF OthersSame
  <2> QED BY <1>2, <1>7, <1>8, <2>3 DEF LeavesBook
<1>10. /\ o \in DOMAIN R
       /\ DOMAIN N = DOMAIN R \ {o}
       /\ Ahead(books') = PairsWithout(books, o)
  BY <1>6, <1>9, OneLeaves
<1>11. N = [z \in DOMAIN R \ {o} |-> R[z]]
  <2>1. \A z \in DOMAIN R \ {o} : Entry(orders'[z]) = Entry(orders[z])
    <3>1. \A z \in DOMAIN R : z \in DOMAIN orders
      BY DEF Resting
    <3> QED BY <1>3, <3>1
  <2> QED BY <1>10, <2>1, SameEntries
<1>12. R[o] = Entry(r)
  BY <1>6, <1>10, RestingEntry
<1>13. /\ R[o].symbol = r.symbol /\ R[o].side = r.side
       /\ R[o].price = r.price /\ R[o].qty = Remaining(r)
  BY <1>12 DEF Entry
<1> DEFINE q == orders'[o]
<1>14. /\ q.symbol = r.symbol /\ q.side = r.side /\ q.type = r.type /\ q.tif = r.tif
       /\ q.price = np /\ q.quantity = nq /\ q.filled_qty = 0
  <2> HIDE DEF r
  <2> QED BY <1>3, <1>4 DEF Restamped, OrderRecord
<1>15. /\ r.symbol \in Symbol /\ r.side \in Side
       /\ r.type = "LIMIT" /\ r.tif = "GTC" /\ r.price = p
  BY <1>2 DEF MayRestAt
<1>16. nq \in Nat
  BY U32Assumption DEF UInt32
<1>17. Remaining(q) = nq
  BY <1>14, <1>16 DEF Remaining
<1>18. takerMap' = [order |-> o, symbol |-> r.symbol, side |-> r.side,
                    market |-> FALSE, price |-> np, qty |-> nq, rests |-> TRUE]
  <2>1. takerMap' = [order |-> o, symbol |-> q.symbol, side |-> q.side,
                     market |-> q.type = "MARKET", price |-> q.price,
                     qty |-> Remaining(q),
                     rests |-> q.type = "LIMIT" /\ q.tif = "GTC"]
    BY <1>3, <1>4 DEF takerMap, Taker
  <2> HIDE DEF q, r
  <2> QED BY <1>14, <1>15, <1>17, <2>1
<1>19. np # r.price \/ nq > Remaining(r)
  BY <1>1, <1>15 DEF MovesOrder, p, o
<1>20. takerMap = Abstract!NoTaker
  BY <1>2 DEF takerMap, Abstract!NoTaker
<1>21. restingMap = R /\ restingMap' = N /\ aheadMap = Ahead(books) /\ aheadMap' = Ahead(books')
  BY MappedResting, MappedAhead
<1> HIDE DEF R, N, r, q
<1>22. takerMap' \in Abstract!Takers
  BY <1>4, <1>15, <1>16, <1>18 DEF Abstract!Takers, Abstract!Sides, Side, Price
<1>23. /\ takerMap'.order = o
       /\ takerMap'.symbol = restingMap[o].symbol
       /\ takerMap'.side = restingMap[o].side
       /\ takerMap'.rests /\ ~takerMap'.market
       /\ takerMap'.price # restingMap[o].price \/ takerMap'.qty > restingMap[o].qty
  BY <1>13, <1>18, <1>19, <1>21
<1>24. Abstract!Move(o)
  BY <1>3, <1>10, <1>11, <1>20, <1>21, <1>22, <1>23
     DEF Abstract!Move, Abstract!RestingWithout, Abstract!AheadWithout,
         PairsWithout, metrics
<1> QED BY <1>4, <1>24 DEF Abstract!Next

(* Every step of the exchange is a step of the abstract market, or none. *)
LEMMA ExNextRefines ==
    ASSUME ExInv, ExInv', [ExNext]_exVars
    PROVE  [Abstract!Next]_(Abstract!abstractVars)
<1>1. ASSUME [Next]_vars PROVE [Abstract!Next]_(Abstract!abstractVars)
  BY <1>1, NextRefines DEF ExInv
<1>2. ASSUME NEW sym \in Symbol, AddSymbol(sym) PROVE [Next]_vars
  BY <1>2 DEF AddSymbol
<1>3. ASSUME NEW o \in Order, NEW in \in Input, RejectOrder(o, in)
      PROVE  [Abstract!Next]_(Abstract!abstractVars)
  BY <1>3, RejectRefines
<1>4. ASSUME NEW o \in Order, NEW in \in Input, ExSubmitOrder(o, in) PROVE [Next]_vars
  BY <1>4 DEF ExSubmitOrder, Next
<1>5. ASSUME NEW id \in OrderId, ExCancelOrder(id) PROVE [Next]_vars
  <2>1. CancelOrder(global_order_index[id], id) /\ global_order_index[id] \in Symbol
    BY <1>5 DEF ExCancelOrder, HasBookFor, ExInv
  <2> QED BY <2>1 DEF Next
<1>6. ASSUME NEW id \in OrderId, NEW p \in Price, NEW q \in UInt32, ModifyOrder(id, p, q)
      PROVE  [Abstract!Next]_(Abstract!abstractVars)
  <2>1. CASE ReplaceOrder(id, p, q)
    BY <2>1, ReplaceRefines
  <2>2. CASE ReduceOrder(id, p, q)
    BY <2>2, ReduceRefines
  <2>3. CASE KeepOrder(id, p, q)
    BY <1>1, <2>3 DEF KeepOrder
  <2> QED BY <1>6, <2>1, <2>2, <2>3 DEF ModifyOrder
<1>7. ASSUME ExEngineStep PROVE [Next]_vars
  BY <1>7 DEF ExEngineStep, ExExecuteFill, ExEraseLevel, ExFinish, Next, EngineStep
<1>8. CASE UNCHANGED exVars
  BY <1>1, <1>8 DEF exVars
<1> QED BY <1>1, <1>2, <1>3, <1>4, <1>5, <1>6, <1>7, <1>8 DEF ExNext

(* The exchange, with its three ways of modifying an order, implements     *)
(* price-time priority: a reduction keeps the order's place, any other     *)
(* change sends it to the back after matching it afresh, and neither       *)
(* moves any other order.                                                  *)
THEOREM ExchangeImplementsPriority == ExSpec => ImplementsPriority
<1>1. ExInit => Abstract!Init
  BY InitRefines DEF ExInit
<1>2. ExInv /\ ExInv' /\ [ExNext]_exVars => [Abstract!Next]_(Abstract!abstractVars)
  BY ExNextRefines
<1>3. ExSpec => []ExInv
  BY ExInvariance
<1> QED BY <1>1, <1>2, <1>3, PTL DEF ExSpec, ImplementsPriority, Abstract!Spec

----------------------------------------------------------------------------
(* The arithmetic of the quotes.  std::round of n/d is within half of it,  *)
(* and of two halves the upper if n is not negative.                       *)
LEMMA DivFacts ==
    ASSUME NEW a \in Int, NEW b \in Nat \ {0}
    PROVE  /\ a \div b \in Int
           /\ b * (a \div b) <= a
           /\ a < b * (a \div b) + b
OBVIOUS

LEMMA RoundFacts ==
    ASSUME NEW n \in Int, NEW d \in Nat \ {0}
    PROVE  /\ Round(n, d) \in Int
           /\ 2 * n - d <= (2 * d) * Round(n, d)
           /\ (2 * d) * Round(n, d) <= 2 * n + d
           /\ n >= 0 => 2 * n + d < (2 * d) * Round(n, d) + 2 * d
<1> DEFINE b == 2 * d
<1>1. b \in Nat \ {0} /\ b = 2 * d
  OBVIOUS
<1> HIDE DEF b
<1>2. CASE n >= 0
  <2> DEFINE a == 2 * n + d
             r == a \div b
  <2>1. a \in Int /\ Round(n, d) = r
    BY <1>1, <1>2 DEF Round
  <2>2. r \in Int /\ b * r <= a /\ a < b * r + b
    <3> HIDE DEF a
    <3> QED BY <1>1, <2>1, DivFacts
  <2>3. a = 2 * n + d
    OBVIOUS
  <2> DEFINE x == b * r
  <2>4. x \in Int
    BY <1>1, <2>2
  <2> HIDE DEF r, a, x
  <2>5. 2 * n - d <= x /\ x <= 2 * n + d /\ 2 * n + d < x + 2 * d
    BY <1>1, <2>2, <2>3, <2>4 DEF x
  <2> QED BY <1>1, <2>1, <2>2, <2>5 DEF x
<1>3. CASE n < 0
  <2> DEFINE a == d - 2 * n
             m == a \div b
  <2>1. a \in Int /\ Round(n, d) = -m
    BY <1>1, <1>3 DEF Round
  <2>2. m \in Int /\ b * m <= a /\ a < b * m + b
    <3> HIDE DEF a
    <3> QED BY <1>1, <2>1, DivFacts
  <2>3. a = d - 2 * n
    OBVIOUS
  <2> DEFINE x == b * m
             r == -m
  <2>4. x \in Int /\ r \in Int /\ b * r = -x
    BY <1>1, <2>2
  <2>5. x <= a /\ a < x + b /\ Round(n, d) = r
    BY <2>1, <2>2
  <2> HIDE DEF m, a, x, r
  <2> QED BY <1>1, <1>3, <2>3, <2>4, <2>5
<1> QED BY <1>2, <1>3

LEMMA AtLeastOne ==
    ASSUME NEW p \in Int
    PROVE  Max({1, p}) = IF p >= 1 THEN p ELSE 1
BY DEF Max

LEMMA TimesMonotone ==
    ASSUME NEW a \in Int, NEW b \in Int, NEW c \in Nat, a <= b
    PROVE  a * c <= b * c
<1>1. (b - a) * c >= 0
  OBVIOUS
<1>2. (b - a) * c = b * c - a * c
  OBVIOUS
<1>3. a * c \in Int /\ b * c \in Int
  OBVIOUS
<1> QED BY <1>1, <1>2, <1>3

(* The bid and the ask of one tick, before and after the bid is raised. *)
LEMMA QuotesOfTick ==
    ASSUME mid2 \in Int, inventory \in Int
    PROVE  /\ QuotePrice("BUY") \in Int /\ QuotePrice("BUY") >= 1
           /\ QuotePrice("SELL") \in Int
           /\ mid2 >= 3 /\ inventory < max_position
                 => QuotePrice("BUY") < QuotePrice("SELL")
<1> DEFINE d  == 2 * Lot
           h  == half_spread
           k  == inventory * skew_factor
           nb == Lot * (mid2 + 2 * (-half_spread)) + 2 * (-inventory * skew_factor)
           na == Lot * (mid2 + 2 * half_spread) + 2 * (-inventory * skew_factor)
           b  == Round(nb, d)
           a  == Round(na, d)
           lm == Lot * mid2
           lh == Lot * half_spread
<1>1. /\ d \in Nat \ {0} /\ nb \in Int /\ na \in Int /\ k \in Int /\ h \in Nat /\ h >= 1
      /\ lm \in Int /\ lh \in Int /\ Lot \in Nat /\ Lot >= 1 /\ d = 2 * Lot
  BY ConfigAssumption
<1>2. nb = lm - 2 * lh - 2 * k /\ na = lm + 2 * lh - 2 * k
  BY ConfigAssumption
<1>3. QuotePrice("BUY") = Max({1, b}) /\ QuotePrice("SELL") = a
  BY DEF QuotePrice
<1>4. lh >= Lot
  BY ConfigAssumption, <1>1
<1>5. ASSUME mid2 >= 3, inventory < max_position
      PROVE  na >= 3 * Lot
  <2>1. k <= (max_position - 1) * skew_factor
    BY <1>5, TimesMonotone, ConfigAssumption
  <2>2. (max_position - 1) * skew_factor <= lh
    BY SkewAssumption, ConfigAssumption
  <2>3. (max_position - 1) * skew_factor \in Int
    BY ConfigAssumption
  <2>4. lm >= 3 * Lot
    <3>1. 3 * Lot <= mid2 * Lot
      BY <1>1, <1>5, TimesMonotone
    <3> QED BY <1>1, <3>1
  <2> DEFINE m == (max_position - 1) * skew_factor
  <2> HIDE DEF m, k, lh, lm, na, nb, d
  <2>5. m \in Int /\ k <= m /\ m <= lh
    BY <2>1, <2>2, <2>3 DEF m
  <2> QED BY <1>1, <1>2, <2>4, <2>5
<1> HIDE DEF d, k, nb, na, lm, lh
<1>6. /\ b \in Int /\ a \in Int
      /\ 2 * nb - d <= (2 * d) * b /\ (2 * d) * b <= 2 * nb + d
      /\ 2 * na - d <= (2 * d) * a /\ (2 * d) * a <= 2 * na + d
      /\ na >= 0 => 2 * na + d < (2 * d) * a + 2 * d
  BY <1>1, RoundFacts
<1> HIDE DEF a, b
<1>7. b < a
  <2> DEFINE x == d * b
             y == d * a
  <2>1. x \in Int /\ y \in Int /\ (2 * d) * b = 2 * x /\ (2 * d) * a = 2 * y
    BY <1>1, <1>6
  <2>2. 2 * x <= 2 * nb + d /\ 2 * na - d <= 2 * y
    BY <1>6, <2>1
  <2>3. na - nb >= 2 * d
    BY <1>1, <1>2, <1>4
  <2> HIDE DEF x, y
  <2>4. x < y
    BY <1>1, <2>1, <2>2, <2>3
  <2>5. ASSUME a <= b PROVE FALSE
    <3>1. a * d <= b * d
      BY <1>1, <1>6, <2>5, TimesMonotone
    <3>2. y <= x
      BY <1>1, <1>6, <3>1 DEF x, y
    <3> QED BY <2>1, <2>4, <3>2
  <2> QED BY <1>6, <2>5
<1>8. ASSUME mid2 >= 3, inventory < max_position
      PROVE  a >= 2
  <2>1. na >= 3 * Lot
    BY <1>5, <1>8
  <2> DEFINE y == d * a
  <2>2. y \in Int /\ (2 * d) * a = 2 * y
    BY <1>1, <1>6
  <2>3. 2 * na + d < 2 * y + 2 * d
    BY <1>1, <1>6, <2>1, <2>2
  <2> HIDE DEF y
  <2>4. y > d
    BY <1>1, <2>1, <2>2, <2>3
  <2>5. ASSUME a <= 1 PROVE FALSE
    <3>1. a * d <= 1 * d
      BY <1>1, <1>6, <2>5, TimesMonotone
    <3>2. y <= d
      BY <1>1, <1>6, <3>1 DEF y
    <3> QED BY <1>1, <2>2, <2>4, <3>2
  <2> QED BY <1>6, <2>5
<1>9. QuotePrice("BUY") = IF b >= 1 THEN b ELSE 1
  BY <1>3, <1>6, AtLeastOne
<1> QED BY <1>3, <1>6, <1>7, <1>8, <1>9
----------------------------------------------------------------------------
(* What the loop keeps in order. *)

(* The agents take their order objects in turn, the clients have their     *)
(* own, and the server knows whose each is.                                *)
Numbering ==
    /\ \E n \in Nat : DOMAIN orders \ ClientOrder = 1..n
    /\ DOMAIN owner = DOMAIN orders
    /\ \A o \in DOMAIN owner : o \in ClientOrder => owner[o] # "mm"

(* The engine runs only below ex.submit_order of the loop. *)
LoopWaits == call # "none" => phase \in {"submit", "poll"}

AgentTypes ==
    /\ active = [s \in Side |-> active[s]]
    /\ mid2 \in Int /\ inventory \in Int /\ position \in Int

(* o trades or may still trade. *)
Live(o) == o = aggressor \/ Stands(books, o)

(* An order the market maker has submitted. *)
Mine(o) == o \in DOMAIN orders /\ owner[o] = "mm"

QuoteInput == {LimitOrder(s, p, quote_qty) : s \in Side, p \in Int}

(* The i-th quote to be submitted is the one of side s, at p. *)
QueuedAt(s, p, i) ==
    quotes[i] = [order |-> active[s], in |-> LimitOrder(s, p, quote_qty)]

(* on_tick's orders are submitted before anything else, in the order of    *)
(* their numbers, and active is what they say.                             *)
QueueLinked ==
    /\ quotes \in Seq([order : Nat \ {0}, in : QuoteInput])
    /\ \A i \in DOMAIN quotes :
          /\ quotes[i].order = Fresh + i - 1
          /\ \E s \in Side, p \in Int : QueuedAt(s, p, i) /\ (s = "BUY" => p >= 1)

QueueUsed == phase # "submit" => quotes = <<>>

(* active names no order, one of the market maker's, or a queued one. *)
ActiveKnown ==
    \A s \in Side :
        \/ active[s] = NoOrder
        \/ Mine(active[s]) /\ orders[active[s]].side = s
        \/ \E i \in DOMAIN quotes, p \in Int : QueuedAt(s, p, i)

ActiveCleared ==
    /\ phase \in {"cancel_ask", "quote"} => active["BUY"] = NoOrder
    /\ phase = "quote" => active["SELL"] = NoOrder

(* What of the market maker's may trade is the active quote of its side. *)
MineTracked ==
    \A o \in DOMAIN orders :
        Mine(o) => /\ orders[o].type = "LIMIT" /\ orders[o].symbol = "AAPL"
                   /\ Live(o) => o = active[orders[o].side]

TrackInv ==
    /\ ExInv
    /\ Numbering
    /\ LoopWaits
    /\ AgentTypes
    /\ QueueLinked
    /\ QueueUsed
    /\ ActiveKnown
    /\ ActiveCleared
    /\ MineTracked

(* The ids of the agents' orders are their own. *)
LEMMA OwnNumbers == \A o \in AgentOrder : order_id[o] = o /\ OwnId(o)
<1> SUFFICES ASSUME NEW o \in AgentOrder, NEW x \in Order, order_id[x] = o
             PROVE  order_id[o] = o /\ x = o
  BY NumberAssumption DEF OwnId
<1>1. x \notin ClientOrder
  BY NumberAssumption
<1> QED BY <1>1, NumberAssumption DEF AgentOrder

LEMMA MineIsAgents ==
    ASSUME TrackInv, NEW o, Mine(o)
    PROVE  o \in AgentOrder /\ order_id[o] = o /\ OwnId(o) /\ o # NoOrder
<1>1. o \in DOMAIN orders /\ o \notin ClientOrder
  BY DEF TrackInv, Numbering, Mine
<1>2. o \in Order /\ o # NoOrder
  BY <1>1, OrderTypes DEF TrackInv, ExInv
<1> QED BY <1>1, <1>2, OwnNumbers DEF AgentOrder

(* What of the market maker's rests, cancel_order finds. *)
LEMMA MineIsFound ==
    ASSUME TrackInv, NEW o, Mine(o), NEW s \in Side, NEW p, RestsAt(Book, o, s, p)
    PROVE  /\ CanCancel(o) /\ global_order_index[o] = "AAPL"
           /\ Book.order_index[o] = [side |-> s, price |-> p]
<1>1. "AAPL" \in Symbol /\ RestsAt(books["AAPL"], o, s, p)
  BY SourceAssumption DEF Book
<1>2. order_id[o] = o /\ OwnId(o)
  BY MineIsAgents
<1>3. "AAPL" \in listed /\ o \in DOMAIN global_order_index /\ global_order_index[o] = "AAPL"
  BY <1>1, <1>2 DEF TrackInv, ExInv, Routed, LeadsTo
<1>4. o \in DOMAIN Book.order_index /\ Book.order_index[o] = [side |-> s, price |-> p]
  <2>1. OwnQueuedAreIndexed(Book)
    BY SourceAssumption DEF TrackInv, ExInv, Inv, BookInv, Book
  <2> DEFINE bk == Book
  <2> HIDE DEF bk
  <2>2. OwnQueuedAreIndexed(bk) /\ RestsAt(bk, o, s, p)
    BY <2>1 DEF bk
  <2>3. PICK i \in DOMAIN bk.level[s][p].orders :
           p \in DOMAIN bk.level[s] /\ bk.level[s][p].orders[i] = o
    BY <2>2 DEF RestsAt
  <2>4. OwnId(order_id[o])
    BY <1>2
  <2>5. /\ order_id[o] \in DOMAIN bk.order_index
        /\ bk.order_index[order_id[o]] = [side |-> s, price |-> p]
    BY <2>2, <2>3, <2>4 DEF OwnQueuedAreIndexed
  <2> QED BY <1>2, <2>5 DEF bk
<1> QED BY <1>3, <1>4 DEF CanCancel, HasBookFor, BookOf, Book

LEMMA TrackedQuotes ==
    ASSUME TrackInv
    PROVE  QuotesTracked
<1> SUFFICES ASSUME NEW o \in DOMAIN owner, NEW s \in Side,
                    NEW p \in DOMAIN Book.level[s], owner[o] = "mm", RestsAt(Book, o, s, p)
             PROVE  /\ o = active[s] /\ CanCancel(o) /\ global_order_index[o] = "AAPL"
                    /\ Book.order_index[o] = [side |-> s, price |-> p]
  BY DEF QuotesTracked
<1>1. "AAPL" \in Symbol /\ RestsAt(books["AAPL"], o, s, p)
  BY SourceAssumption DEF Book
<1>2. o \in DOMAIN orders /\ orders[o].side = s
  BY <1>1, RestingOrder DEF TrackInv, ExInv, MayRestAt
<1>3. Mine(o) /\ Live(o)
  BY <1>1, <1>2 DEF Mine, Live, Stands
<1>4. o = active[s]
  BY <1>2, <1>3 DEF TrackInv, MineTracked
<1> QED BY <1>3, <1>4, MineIsFound

LEMMA FreshIs ==
    /\ \A n \in Nat : DOMAIN orders \ ClientOrder = 1..n => Fresh = n + 1
    /\ \A n \in Nat : DOMAIN orders' \ ClientOrder = 1..n => Fresh' = n + 1
<1>1. ASSUME NEW n \in Nat PROVE Cardinality(1..n) = n
  <2>1. 1 \in Int /\ n \in Int
    OBVIOUS
  <2>2. Cardinality(1..n) = IF 1 > n THEN 0 ELSE n - 1 + 1
    BY <2>1, FS_Interval
  <2> QED BY <2>2
<1> QED BY <1>1 DEF Fresh

LEMMA FreshType ==
    ASSUME Numbering
    PROVE  /\ Fresh \in Nat \ {0} /\ Fresh \notin DOMAIN orders
           /\ \A n \in DOMAIN orders : n \in Nat => n < Fresh
           /\ DOMAIN orders \ ClientOrder = 1..(Fresh - 1)
           /\ NoOrder \notin DOMAIN orders /\ NoOrder = 0
<1>1. PICK n \in Nat : DOMAIN orders \ ClientOrder = 1..n
  BY DEF Numbering
<1>2. Fresh = n + 1
  BY <1>1, FreshIs
<1>3. \A m \in Nat : m \notin ClientOrder
  BY NumberAssumption
<1>4. \A m \in DOMAIN orders : m \in Nat => m \in 1..n
  BY <1>1, <1>3
<1> QED BY <1>1, <1>2, <1>4, NumberAssumption

LEMMA TrackInit == ServerInit => TrackInv
<1> SUFFICES ASSUME ServerInit PROVE TrackInv
  OBVIOUS
<1>1. ExInv
  BY ExInitInv DEF ServerInit
<1>2. DOMAIN orders = {} /\ DOMAIN owner = {} /\ quotes = <<>> /\ call = "none"
      /\ phase = "boot" /\ active = [s \in Side |-> NoOrder]
      /\ mid2 = 0 /\ inventory = 0 /\ position = 0
  BY DEF ServerInit, ExInit, Init, EmptyMap
<1>3. Numbering
  <2>1. {} \ ClientOrder = 1..0 /\ 0 \in Nat
    OBVIOUS
  <2> QED BY <1>2, <2>1 DEF Numbering
<1>4. QueueLinked
  BY <1>2 DEF QueueLinked
<1> QED BY <1>1, <1>2, <1>3, <1>4
        DEF TrackInv, LoopWaits, AgentTypes, QueueUsed, ActiveKnown, ActiveCleared, MineTracked

----------------------------------------------------------------------------
(* Steps that enter no order and change no quote. *)
SameOrders ==
    /\ DOMAIN orders' = DOMAIN orders
    /\ \A o \in DOMAIN orders :
          /\ orders'[o].side = orders[o].side
          /\ orders'[o].type = orders[o].type
          /\ orders'[o].symbol = orders[o].symbol
          /\ orders'[o].price = orders[o].price

NoneRevives == \A o \in DOMAIN orders : Live(o)' => Live(o)

Quiet == SameOrders /\ NoneRevives /\ UNCHANGED <<active, quotes, owner>>

LEMMA QuietStep ==
    ASSUME TrackInv, Quiet
    PROVE  Numbering' /\ QueueLinked' /\ ActiveKnown' /\ MineTracked'
<1>1. /\ DOMAIN orders' = DOMAIN orders /\ owner' = owner /\ active' = active
      /\ quotes' = quotes /\ Fresh' = Fresh
  BY DEF Quiet, SameOrders, Fresh
<1>2. Numbering'
  BY <1>1 DEF TrackInv, Numbering
<1>3. QueueLinked'
  BY <1>1 DEF TrackInv, QueueLinked, QueuedAt
<1>4. \A o : Mine(o)' <=> Mine(o)
  BY <1>1 DEF Mine
<1>5. ActiveKnown'
  <2> SUFFICES ASSUME NEW s \in Side
               PROVE  \/ active[s] = NoOrder
                      \/ Mine(active[s])' /\ orders'[active[s]].side = s
                      \/ \E i \in DOMAIN quotes, p \in Int : QueuedAt(s, p, i)
    BY <1>1 DEF ActiveKnown, QueuedAt
  <2>1. Mine(active[s]) => orders'[active[s]].side = orders[active[s]].side
    BY DEF Quiet, SameOrders, Mine
  <2>2. \/ active[s] = NoOrder
        \/ Mine(active[s]) /\ orders[active[s]].side = s
        \/ \E i \in DOMAIN quotes, p \in Int : QueuedAt(s, p, i)
    BY DEF TrackInv, ActiveKnown
  <2>3. Mine(active[s])' <=> Mine(active[s])
    BY <1>1 DEF Mine
  <2> HIDE DEF Mine, QueuedAt
  <2> QED BY <2>1, <2>2, <2>3
<1>6. MineTracked'
  <2> SUFFICES ASSUME NEW o \in DOMAIN orders, Mine(o)'
               PROVE  /\ orders'[o].type = "LIMIT" /\ orders'[o].symbol = "AAPL"
                      /\ Live(o)' => o = active'[orders'[o].side]
    BY <1>1 DEF MineTracked
  <2>1. Mine(o)
    BY <1>4
  <2> QED BY <1>1, <2>1 DEF Quiet, SameOrders, NoneRevives, TrackInv, MineTracked
<1> QED BY <1>2, <1>3, <1>5, <1>6

LEMMA UnchangedQuiet ==
    ASSUME UNCHANGED <<books, orders, aggressor>>, UNCHANGED <<active, quotes, owner>>
    PROVE  Quiet
BY DEF Quiet, SameOrders, NoneRevives, Live, Stands

(* The three steps of the engine. *)
LEMMA EngineQuiet ==
    ASSUME ExInv, ExExecuteFill \/ ExEraseLevel \/ ExFinish
    PROVE  /\ ExInv' /\ SameOrders /\ NoneRevives
           /\ call' \in {call, "none"} /\ call # "none"
<1>1. Inv
  BY DEF ExInv
<1>2. CASE ExExecuteFill
  <2>1. ExecuteFill /\ call' = call
    BY <1>2 DEF ExExecuteFill
  <2>2. ExInv'
    BY <1>2, ExFillStep
  <2>3. SameOrders
    <3>1. /\ DOMAIN orders' = DOMAIN orders
          /\ \A x \in {aggressor, Maker} :
                /\ orders'[x].symbol = orders[x].symbol
                /\ orders'[x].side = orders[x].side
                /\ orders'[x].type = orders[x].type
                /\ orders'[x].price = orders[x].price
          /\ \A x \in DOMAIN orders : x # aggressor /\ x # Maker => orders'[x] = orders[x]
      BY <1>1, <2>1, FillEffect
    <3> DEFINE m == Maker
    <3> HIDE DEF m
    <3>2. \A x \in DOMAIN orders : x # aggressor /\ x # m => orders'[x] = orders[x]
      BY <3>1 DEF m
    <3>3. \A x \in {aggressor, m} :
                /\ orders'[x].symbol = orders[x].symbol
                /\ orders'[x].side = orders[x].side
                /\ orders'[x].type = orders[x].type
                /\ orders'[x].price = orders[x].price
      BY <3>1 DEF m
    <3> QED BY <3>1, <3>2, <3>3 DEF SameOrders
  <2>4. NoneRevives
    <3>1. aggressor' = aggressor
      BY <2>1 DEF ExecuteFill
    <3>2. \A o : Stands(books', o) => Stands(books, o)
      BY <1>1, <2>1, FillPlaces DEF Stands
    <3> QED BY <3>1, <3>2 DEF NoneRevives, Live
  <2>5. call # "none"
    BY <2>1 DEF ExInv, InCall, ExecuteFill
  <2> QED BY <2>1, <2>2, <2>3, <2>4, <2>5
<1>3. CASE ExEraseLevel
  <2>1. EraseLevel /\ call' = call
    BY <1>3 DEF ExEraseLevel, exchangeVars
  <2>2. ExInv'
    BY <1>3, ExEraseStep
  <2>3. orders' = orders /\ aggressor' = aggressor /\ aggressor # NoOrder
    BY <2>1 DEF EraseLevel
  <2>4. \A o : Stands(books', o) => Stands(books, o)
    BY <1>1, <2>1, ErasePlaces DEF Stands
  <2> QED BY <2>1, <2>2, <2>3, <2>4 DEF SameOrders, NoneRevives, Live, ExInv, InCall
<1>4. CASE ExFinish
  <2>1. Finish /\ call' = "none"
    BY <1>4 DEF ExFinish
  <2>2. ExInv'
    BY <1>4, ExFinishStep
  <2>3. SameOrders
    <3>1. aggressor \in DOMAIN orders
      BY <1>1, <2>1, SweepFacts DEF Finish
    <3>2. orders' \in {orders, [orders EXCEPT ![aggressor].status = "CANCELLED"]}
      BY <2>1 DEF Finish
    <3>3. ASSUME orders' = [orders EXCEPT ![aggressor].status = "CANCELLED"]
          PROVE  SameOrders
      <4> DEFINE r == [orders[aggressor] EXCEPT !.status = "CANCELLED"]
      <4>1. orders' = [orders EXCEPT ![aggressor] = r]
        BY <3>3
      <4>2. /\ r.side = orders[aggressor].side /\ r.type = orders[aggressor].type
            /\ r.symbol = orders[aggressor].symbol /\ r.price = orders[aggressor].price
        OBVIOUS
      <4> HIDE DEF r
      <4>3. /\ DOMAIN orders' = DOMAIN orders
            /\ \A o \in DOMAIN orders :
                  orders'[o] = IF o = aggressor THEN r ELSE orders[o]
        BY <3>1, <4>1
      <4> QED BY <4>2, <4>3 DEF SameOrders
    <3> QED BY <3>2, <3>3 DEF SameOrders
  <2>4. aggressor' = NoOrder /\ aggressor # NoOrder
    BY <2>1 DEF Finish
  <2>5. \A o : Stands(books', o) => Stands(books, o) \/ o = aggressor
    BY <1>1, <2>1, FinishPlaces DEF Stands
  <2>6. NoneRevives
    <3>1. \A o \in DOMAIN orders : o # NoOrder
      BY <1>1, OrderTypes
    <3> QED BY <2>4, <2>5, <3>1 DEF NoneRevives, Live
  <2> QED BY <2>1, <2>2, <2>3, <2>4, <2>6 DEF ExInv, InCall
<1> QED BY <1>2, <1>3, <1>4
----------------------------------------------------------------------------
(* The steps of the loop that submit nothing. *)

LEMMA MidIs ==
    ASSUME ExInv
    PROVE  /\ MidPrice2 \in Int
           /\ MidPrice2 # 0 =>
                 /\ \A s \in Side : BestPrice(Book, s) \in DOMAIN Book.level[s]
                 /\ MidPrice2 = BestPrice(Book, "BUY") + BestPrice(Book, "SELL")
                 /\ BestPrice(Book, "BUY") \in Nat /\ BestPrice(Book, "SELL") \in Nat
<1>1. IsBook(Book)
  BY SourceAssumption DEF ExInv, Inv, TypeOK, Book
<1>2. CASE \A s \in Side : HasLevels(Book, s)
  <2>1. \A s \in Side : BestPrice(Book, s) \in DOMAIN Book.level[s]
    BY <1>1, <1>2, BestPriceIsBest
  <2>2. \A s \in Side : DOMAIN Book.level[s] \subseteq Nat
    BY <1>1, MaxPriceAssumption DEF IsBook, IsMap, Price
  <2>3. "BUY" \in Side /\ "SELL" \in Side
    BY DEF Side
  <2>4. BestPrice(Book, "BUY") \in Nat /\ BestPrice(Book, "SELL") \in Nat
    BY <2>1, <2>2, <2>3
  <2> QED BY <1>2, <2>1, <2>4 DEF MidPrice2
<1>3. CASE ~(\A s \in Side : HasLevels(Book, s))
  BY <1>3 DEF MidPrice2
<1> QED BY <1>2, <1>3

LEMMA IdleStep ==
    ASSUME ExInv, UNCHANGED exVars
    PROVE  ExInv' /\ call' = call /\ UNCHANGED <<books, orders, aggressor>>
<1>1. UNCHANGED vars /\ UNCHANGED <<listed, global_order_index, call>>
  BY DEF exVars, exchangeVars
<1> QED BY <1>1, ExIdleStep DEF vars

LEMMA TickSteps ==
    ASSUME TrackInv, Boot \/ MMTick \/ QuotesSubmitted \/ QueueEmpty
    PROVE  TrackInv' /\ Quiet
<1>1. /\ ExInv' /\ UNCHANGED <<books, orders, aggressor>> /\ call' = call
      /\ UNCHANGED <<active, quotes, owner, inventory, position>>
      /\ mid2' = mid2 \/ mid2' = MidPrice2
  <2>1. CASE Boot
    <3>1. AddSymbol("AAPL") /\ UNCHANGED <<active, quotes, owner, inventory, position, mid2>>
      BY <2>1 DEF Boot, agentVars
    <3>2. ExInv'
      BY <3>1, AddSymbolStep, SourceAssumption DEF TrackInv
    <3>3. UNCHANGED vars /\ call' = call
      BY <3>1 DEF AddSymbol
    <3> QED BY <3>1, <3>2, <3>3 DEF vars
  <2>2. CASE MMTick
    <3>1. UNCHANGED exVars /\ UNCHANGED <<active, quotes, owner, inventory, position>>
          /\ mid2' = MidPrice2
      BY <2>2 DEF MMTick
    <3> QED BY <3>1, IdleStep DEF TrackInv
  <2>3. CASE QuotesSubmitted \/ QueueEmpty
    <3>1. UNCHANGED exVars /\ UNCHANGED <<active, quotes, owner, inventory, position, mid2>>
      BY <2>3 DEF QuotesSubmitted, QueueEmpty, agentVars
    <3> QED BY <3>1, IdleStep DEF TrackInv
  <2> QED BY <2>1, <2>2, <2>3
<1>2. Quiet
  BY <1>1, UnchangedQuiet
<1>3. Numbering' /\ QueueLinked' /\ ActiveKnown' /\ MineTracked'
  BY <1>2, QuietStep
<1>4. /\ call = "none" /\ quotes = <<>>
      /\ phase' \in {"mm", "noise", "cancel_bid"}
  BY DEF TrackInv, LoopWaits, QueueUsed, Boot, AddSymbol, MMTick, QuotesSubmitted, QueueEmpty
<1>5. LoopWaits' /\ QueueUsed' /\ ActiveCleared'
  BY <1>1, <1>4 DEF LoopWaits, QueueUsed, ActiveCleared
<1>6. AgentTypes'
  BY <1>1, MidIs DEF TrackInv, AgentTypes
<1> QED BY <1>1, <1>2, <1>3, <1>5, <1>6 DEF TrackInv

(* After the cancel the quote of that side is in no book. *)
LEMMA CancelEffect ==
    ASSUME TrackInv, NEW s \in Side, NEW from \in {"cancel_bid", "cancel_ask"}, NEW to,
           CancelQuote(s, from, to)
    PROVE  /\ ExInv' /\ call = "none" /\ call' = "none" /\ quotes = <<>>
           /\ orders' = orders /\ aggressor' = NoOrder /\ aggressor = NoOrder
           /\ \A o \in DOMAIN orders : Mine(o) /\ Live(o)' => Live(o) /\ o # active[s]
<1>1. /\ phase = from /\ call = "none" /\ quotes = <<>>
  BY DEF CancelQuote, TrackInv, LoopWaits, QueueUsed
<1>2. aggressor = NoOrder /\ Inv /\ LevelTotals
  BY <1>1 DEF TrackInv, ExInv, InCall
<1> DEFINE id == active[s]
<1>3. \A o \in DOMAIN orders : o # NoOrder
  BY <1>2, OrderTypes
<1>4. CASE id # NoOrder /\ CanCancel(id)
  <2>1. ExCancelOrder(id)
    BY <1>4 DEF CancelQuote
  <2> DEFINE g == global_order_index[id]
  <2>2. /\ g \in listed /\ id \in DOMAIN books[g].order_index
        /\ books' = [books EXCEPT ![g] = CancelInBook(books[g], orders, id)]
        /\ orders' = orders /\ aggressor' = aggressor /\ call' = call
    BY <2>1 DEF ExCancelOrder, HasBookFor, CancelOrder
  <2>3. g \in Symbol
    BY <2>2 DEF TrackInv, ExInv
  <2> HIDE DEF g, id
  <2>4. id \in OrderId
    <3>1. IsBook(books[g])
      BY <1>2, <2>3 DEF Inv, TypeOK
    <3> QED BY <2>2, <3>1 DEF IsBook, IsMap
  <2>5. ExInv'
    BY <2>1, <2>4, ExCancelStep DEF TrackInv, id
  <2>6. BooksWithout(books', g, id)
    BY <1>2, <2>2, <2>3, CancelLeaves
  <2>7. \A o : Stands(books', o) => Stands(books, o) /\ (OwnId(id) => order_id[o] # id)
    BY <2>6 DEF BooksWithout, Stands
  <2>8. ASSUME NEW o \in DOMAIN orders, Mine(o), Live(o)'
        PROVE  Live(o) /\ o # id
    <3>1. Stands(books', o)
      BY <1>2, <1>3, <2>2, <2>8 DEF Live
    <3>2. order_id[o] = o /\ OwnId(o)
      BY <2>8, MineIsAgents
    <3> QED BY <2>7, <3>1, <3>2 DEF Live
  <2> QED BY <1>1, <1>2, <2>2, <2>5, <2>8 DEF id
<1>5. CASE ~(id # NoOrder /\ CanCancel(id))
  <2>1. UNCHANGED exVars
    BY <1>5 DEF CancelQuote
  <2>2. ExInv' /\ call' = call /\ UNCHANGED <<books, orders, aggressor>>
    BY <2>1, IdleStep DEF TrackInv
  <2>3. ASSUME NEW o \in DOMAIN orders, Mine(o), Live(o)'
        PROVE  Live(o) /\ o # id
    <3>1. Stands(books, o)
      BY <1>2, <1>3, <2>2, <2>3 DEF Live
    <3>2. PICK sym \in Symbol, t \in Side : \E p : RestsAt(books[sym], o, t, p)
      BY <3>1 DEF Stands
    <3>3. PICK p : RestsAt(books[sym], o, t, p)
      BY <3>2
    <3>4. orders[o].symbol = sym
      BY <1>2, <3>3, RestingOrder DEF MayRestAt
    <3>5. sym = "AAPL"
      BY <2>3, <3>4 DEF TrackInv, MineTracked
    <3>6. t \in Side /\ RestsAt(Book, o, t, p)
      BY <3>2, <3>3, <3>5 DEF Book
    <3>7. CanCancel(o) /\ o # NoOrder
      BY <1>3, <2>3, <3>6, MineIsFound
    <3> QED BY <1>5, <3>1, <3>7 DEF Live
  <2> QED BY <1>1, <1>2, <2>2, <2>3
<1> QED BY <1>4, <1>5

LEMMA CancelStep ==
    ASSUME TrackInv,
           NEW s \in Side, NEW from, NEW to, CancelQuote(s, from, to),
           \/ s = "BUY" /\ from = "cancel_bid" /\ to = "cancel_ask"
           \/ s = "SELL" /\ from = "cancel_ask" /\ to = "quote"
    PROVE  TrackInv'
<1>1. /\ ExInv' /\ call = "none" /\ call' = "none" /\ quotes = <<>>
      /\ orders' = orders /\ aggressor' = NoOrder /\ aggressor = NoOrder
      /\ \A o \in DOMAIN orders : Mine(o) /\ Live(o)' => Live(o) /\ o # active[s]
  BY CancelEffect
<1>2. /\ phase = from /\ phase' = to
      /\ active' = [active EXCEPT ![s] = NoOrder]
      /\ quotes' = <<>> /\ UNCHANGED <<owner, mid2, inventory, position>>
  BY <1>1 DEF CancelQuote
<1>3. \A t \in Side : active'[t] = IF t = s THEN NoOrder ELSE active[t]
  BY <1>2 DEF TrackInv, AgentTypes
<1>4. Numbering' /\ LoopWaits' /\ QueueUsed'
  BY <1>1, <1>2 DEF TrackInv, Numbering, LoopWaits, QueueUsed
<1>5. AgentTypes'
  BY <1>2 DEF TrackInv, AgentTypes
<1>6. QueueLinked'
  BY <1>2 DEF QueueLinked
<1>7. \A o : Mine(o)' <=> Mine(o)
  BY <1>1, <1>2 DEF Mine
<1>8. ActiveKnown'
  <2>1. ASSUME NEW t \in Side
        PROVE  \/ active'[t] = NoOrder
               \/ Mine(active[t])' /\ orders'[active'[t]].side = t
    <3>1. active[t] = NoOrder \/ (Mine(active[t]) /\ orders[active[t]].side = t)
      BY <1>1 DEF TrackInv, ActiveKnown
    <3>2. active'[t] = NoOrder \/ active'[t] = active[t]
      BY <1>3
    <3>3. active'[t] = active[t] => (Mine(active[t])' <=> Mine(active[t]))
      BY <1>1, <1>2 DEF Mine
    <3> HIDE DEF Mine
    <3> QED BY <1>1, <3>1, <3>2, <3>3
  <2> QED BY <2>1 DEF ActiveKnown
<1>9. ActiveCleared'
  BY <1>2, <1>3 DEF TrackInv, ActiveCleared, Side
<1>10. MineTracked'
  <2> SUFFICES ASSUME NEW o \in DOMAIN orders, Mine(o)
               PROVE  /\ orders[o].type = "LIMIT" /\ orders[o].symbol = "AAPL"
                      /\ Live(o)' => o = active'[orders[o].side]
    BY <1>1, <1>7 DEF MineTracked
  <2>1. /\ orders[o].type = "LIMIT" /\ orders[o].symbol = "AAPL"
        /\ Live(o) => o = active[orders[o].side]
    BY DEF TrackInv, MineTracked
  <2>2. Live(o)' => Live(o) /\ o # active[s]
    BY <1>1
  <2>3. orders[o].side \in Side
    BY OrderTypes DEF TrackInv, ExInv
  <2> HIDE DEF Live
  <2> QED BY <1>3, <2>1, <2>2, <2>3
<1> QED BY <1>1, <1>4, <1>5, <1>6, <1>8, <1>9, <1>10 DEF TrackInv

LEMMA ShortSequences ==
    ASSUME NEW a, NEW b
    PROVE  <<a>> \o <<b>> = <<a, b>> /\ <<a>> \o <<>> = <<a>> /\ <<>> \o <<b>> = <<b>>
<1> DEFINE S == {a, b}
           s == <<a>>
           t == <<b>>
           u == <<a, b>>
<1>1. /\ s \in Seq(S) /\ t \in Seq(S) /\ u \in Seq(S)
      /\ Len(s) = 1 /\ Len(t) = 1 /\ Len(u) = 2
      /\ s[1] = a /\ t[1] = b /\ u[1] = a /\ u[2] = b
  OBVIOUS
<1> HIDE DEF S, s, t, u
<1>2. s \o <<>> = s /\ <<>> \o t = t
  BY <1>1, ConcatEmptySeq
<1>3. /\ s \o t \in Seq(S) /\ Len(s \o t) = 2
      /\ \A i \in 1..2 : (s \o t)[i] = IF i <= 1 THEN s[i] ELSE t[i - 1]
  BY <1>1, ConcatProperties
<1>4. \A i \in 1..2 : (s \o t)[i] = u[i]
  BY <1>1, <1>3
<1>5. s \o t = u
  BY <1>1, <1>3, <1>4, SeqEqual
<1> QED BY <1>2, <1>5 DEF s, t, u

LEMMA FunctionIsSeq ==
    ASSUME NEW T, NEW n \in Nat, NEW f \in [1..n -> T]
    PROVE  f \in Seq(T)
OBVIOUS

(* What on_tick asks for: a quote on each side that is not at its limit.   *)
NewQuote(s, o) == [order |-> o, in |-> LimitOrder(s, QuotePrice(s), quote_qty)]

LEMMA QuoteEffect ==
    ASSUME TrackInv, Quote
    PROVE  /\ active' = [s \in Side |-> active'[s]]
           /\ quotes' \in Seq([order : Nat \ {0}, in : QuoteInput])
           /\ \A i \in DOMAIN quotes' :
                 /\ quotes'[i].order = Fresh + i - 1
                 /\ \E s \in Side : QuotesOn(s) /\ quotes'[i] = NewQuote(s, active'[s])
           /\ \A s \in Side :
                 IF QuotesOn(s)
                 THEN /\ active'[s] >= Fresh /\ active'[s] \in Nat
                      /\ \E i \in DOMAIN quotes' : quotes'[i] = NewQuote(s, active'[s])
                 ELSE active'[s] = active[s]
<1> DEFINE sides == (IF QuotesOn("BUY") THEN <<"BUY">> ELSE <<>>)
                        \o (IF QuotesOn("SELL") THEN <<"SELL">> ELSE <<>>)
           new   == [i \in DOMAIN sides |->
                        [order |-> Fresh + i - 1,
                         in    |-> LimitOrder(sides[i], QuotePrice(sides[i]), quote_qty)]]
<1>1. /\ quotes' = new
      /\ active' = [s \in Side |-> IF QuotesOn(s)
                                   THEN new[CHOOSE i \in DOMAIN sides : sides[i] = s].order
                                   ELSE active[s]]
  BY DEF Quote
<1>2. QuotesOn("BUY") \/ QuotesOn("SELL")
  BY ConfigAssumption DEF QuotesOn, TrackInv, AgentTypes
<1>3. Fresh \in Nat \ {0}
  BY FreshType DEF TrackInv
<1>4. \A s \in Side, n \in Nat \ {0} : NewQuote(s, n) \in [order : Nat \ {0}, in : QuoteInput]
  BY QuotesOfTick DEF TrackInv, AgentTypes, NewQuote, QuoteInput, Side
<1>5. \A s, n : NewQuote(s, n).order = n
  BY DEF NewQuote
<1> DEFINE f == Fresh
           T == [order : Nat \ {0}, in : QuoteInput]
<1>6. CASE QuotesOn("BUY") /\ QuotesOn("SELL")
  <2>1. sides = <<"BUY", "SELL">>
    BY <1>6, ShortSequences
  <2>2. /\ DOMAIN sides = 1..2 /\ sides[1] = "BUY" /\ sides[2] = "SELL"
    BY <2>1
  <2> HIDE DEF sides
  <2>3. /\ (CHOOSE i \in DOMAIN sides : sides[i] = "BUY") = 1
        /\ (CHOOSE i \in DOMAIN sides : sides[i] = "SELL") = 2
    <3>1. \A i \in 1..2 : (sides[i] = "BUY" <=> i = 1) /\ (sides[i] = "SELL" <=> i = 2)
      BY <2>2
    <3> QED BY <2>2, <3>1
  <2>4. /\ DOMAIN new = 1..2
        /\ new[1] = NewQuote("BUY", f) /\ new[2] = NewQuote("SELL", f + 1)
        /\ new = [i \in 1..2 |-> new[i]]
    BY <1>3, <2>2 DEF NewQuote
  <2> HIDE DEF new
  <2>5. active' = [s \in Side |-> IF s = "BUY" THEN f ELSE f + 1]
    <3>1. new[1].order = f /\ new[2].order = f + 1
      BY <1>5, <2>4
    <3> HIDE DEF f
    <3>2. active'["BUY"] = f /\ active'["SELL"] = f + 1
      BY <1>1, <1>6, <2>3, <3>1 DEF Side
    <3>3. active' = [s \in Side |-> active'[s]]
      BY <1>1
    <3> QED BY <3>2, <3>3 DEF Side
  <2> HIDE DEF f
  <2>6. new \in Seq(T)
    <3>1. new[1] \in T /\ new[2] \in T
      BY <1>3, <1>4, <2>4 DEF Side, f
    <3>2. new \in [1..2 -> T]
      BY <2>4, <3>1
    <3> HIDE DEF T, new
    <3> QED BY <3>2, FunctionIsSeq
  <2>7. active'["BUY"] = f /\ active'["SELL"] = f + 1
    BY <2>5 DEF Side
  <2> HIDE DEF T
  <2> QED BY <1>1, <1>3, <1>5, <1>6, <2>4, <2>5, <2>6, <2>7 DEF Side, f, T
<1>7. ASSUME NEW s \in Side, QuotesOn(s), \A t \in Side : t # s => ~QuotesOn(t)
      PROVE  /\ active' = [t \in Side |-> active'[t]]
             /\ quotes' \in Seq(T)
             /\ \A i \in DOMAIN quotes' :
                   /\ quotes'[i].order = f + i - 1
                   /\ \E t \in Side : QuotesOn(t) /\ quotes'[i] = NewQuote(t, active'[t])
             /\ \A t \in Side :
                   IF QuotesOn(t)
                   THEN /\ active'[t] >= f /\ active'[t] \in Nat
                        /\ \E i \in DOMAIN quotes' : quotes'[i] = NewQuote(t, active'[t])
                   ELSE active'[t] = active[t]
  <2>1. sides = <<s>>
    <3>1. CASE s = "BUY"
      <4>1. QuotesOn("BUY") /\ ~QuotesOn("SELL")
        BY <1>7, <3>1 DEF Side
      <4> QED BY <3>1, <4>1, ShortSequences
    <3>2. CASE s = "SELL"
      <4>1. ~QuotesOn("BUY") /\ QuotesOn("SELL")
        BY <1>7, <3>2 DEF Side
      <4> QED BY <3>2, <4>1, ShortSequences
    <3> QED BY <3>1, <3>2 DEF Side
  <2>2. DOMAIN sides = 1..1 /\ sides[1] = s
    <3> HIDE DEF sides
    <3> QED BY <2>1
  <2> HIDE DEF sides
  <2>3. (CHOOSE i \in DOMAIN sides : sides[i] = s) = 1
    BY <2>2
  <2>4. DOMAIN new = 1..1 /\ new[1] = NewQuote(s, f) /\ new = [i \in 1..1 |-> new[i]]
    BY <1>3, <2>2 DEF NewQuote
  <2> HIDE DEF new
  <2>5. /\ active' = [t \in Side |-> active'[t]]
        /\ active'[s] = f
        /\ \A t \in Side : t # s => active'[t] = active[t]
    <3>1. new[1].order = f
      BY <1>5, <2>4
    <3> HIDE DEF f
    <3>2. active'[s] = f
      BY <1>1, <1>7, <2>3, <3>1
    <3>3. ASSUME NEW t \in Side, t # s PROVE active'[t] = active[t]
      BY <1>1, <1>7, <3>3
    <3>4. active' = [t \in Side |-> active'[t]]
      BY <1>1
    <3> QED BY <3>2, <3>3, <3>4
  <2> HIDE DEF f
  <2>6. new \in Seq(T)
    <3>1. new[1] \in T
      BY <1>3, <1>4, <2>4 DEF f
    <3>2. new \in [1..1 -> T]
      BY <2>4, <3>1
    <3> HIDE DEF T, new
    <3> QED BY <3>2, FunctionIsSeq
  <2> HIDE DEF T
  <2>7. DOMAIN quotes' = 1..1 /\ quotes'[1] = NewQuote(s, active'[s]) /\ quotes'[1].order = f
    BY <1>1, <1>5, <2>4, <2>5
  <2>8. \A i \in DOMAIN quotes' : i = 1 /\ f + i - 1 = f
    BY <1>3, <2>7 DEF f
  <2>9. f \in Nat /\ f >= f
    BY <1>3 DEF f
  <2>10. 1 \in DOMAIN quotes'
    BY <2>7
  <2> QED BY <1>1, <1>7, <2>5, <2>6, <2>7, <2>8, <2>9, <2>10
<1>8. CASE QuotesOn("BUY") /\ ~QuotesOn("SELL")
  BY <1>7, <1>8 DEF Side
<1>9. CASE ~QuotesOn("BUY") /\ QuotesOn("SELL")
  BY <1>7, <1>9 DEF Side
<1> QED BY <1>2, <1>6, <1>8, <1>9

LEMMA QuoteStep ==
    ASSUME TrackInv, Quote
    PROVE  TrackInv'
<1>1. /\ active' = [s \in Side |-> active'[s]]
      /\ quotes' \in Seq([order : Nat \ {0}, in : QuoteInput])
      /\ \A i \in DOMAIN quotes' :
            /\ quotes'[i].order = Fresh + i - 1
            /\ \E s \in Side : QuotesOn(s) /\ quotes'[i] = NewQuote(s, active'[s])
      /\ \A s \in Side :
            IF QuotesOn(s)
            THEN /\ active'[s] >= Fresh /\ active'[s] \in Nat
                 /\ \E i \in DOMAIN quotes' : quotes'[i] = NewQuote(s, active'[s])
            ELSE active'[s] = active[s]
  BY QuoteEffect
<1>2. /\ phase = "quote" /\ phase' = "submit" /\ UNCHANGED exVars
      /\ mid2' = mid2 /\ owner' = owner /\ inventory' = inventory /\ position' = position
  BY DEF Quote
<1>3. ExInv' /\ call' = call /\ orders' = orders /\ aggressor' = aggressor /\ books' = books
  BY <1>2, IdleStep DEF TrackInv
<1>4. Fresh' = Fresh
  BY <1>3 DEF Fresh
<1>5. Numbering' /\ LoopWaits' /\ QueueUsed'
  BY <1>2, <1>3 DEF TrackInv, Numbering, LoopWaits, QueueUsed
<1>6. AgentTypes'
  BY <1>1, <1>2 DEF TrackInv, AgentTypes
<1>7. \A s \in Side : QuotePrice(s) \in Int /\ (s = "BUY" => QuotePrice(s) >= 1)
  BY QuotesOfTick DEF TrackInv, AgentTypes, Side
<1>8. \A s \in Side, i \in DOMAIN quotes' :
         quotes'[i] = NewQuote(s, active'[s])
            => \E p \in Int : QueuedAt(s, p, i)' /\ (s = "BUY" => p >= 1)
  <2>1. \A s, i, p : quotes'[i] = [order |-> active'[s], in |-> LimitOrder(s, p, quote_qty)]
                      => QueuedAt(s, p, i)'
    BY DEF QueuedAt, LimitOrder
  <2> QED BY <1>7, <2>1 DEF NewQuote
<1>9. QueueLinked'
  BY <1>1, <1>4, <1>8 DEF QueueLinked
<1>10. \A s \in Side : active[s] = NoOrder
  BY <1>2 DEF TrackInv, ActiveCleared, Side
<1>11. ActiveKnown'
  BY <1>1, <1>8, <1>10 DEF ActiveKnown
<1>12. ActiveCleared'
  BY <1>2 DEF ActiveCleared
<1>13. MineTracked'
  <2> SUFFICES ASSUME NEW o \in DOMAIN orders, Mine(o)
               PROVE  /\ orders[o].type = "LIMIT" /\ orders[o].symbol = "AAPL"
                      /\ ~Live(o)
    BY <1>2, <1>3 DEF MineTracked, Mine, Live
  <2>1. /\ orders[o].type = "LIMIT" /\ orders[o].symbol = "AAPL"
        /\ Live(o) => o = active[orders[o].side]
    BY DEF TrackInv, MineTracked
  <2>2. orders[o].side \in Side
    BY OrderTypes DEF TrackInv, ExInv
  <2>3. o # NoOrder
    BY FreshType DEF TrackInv
  <2> QED BY <1>10, <2>1, <2>2, <2>3
<1> QED BY <1>3, <1>5, <1>6, <1>9, <1>11, <1>12, <1>13 DEF TrackInv

----------------------------------------------------------------------------
(* The steps that submit an order. *)

(* The fields of an order before the range of the prices is asked for. *)
FreeInput ==
    {in \in [symbol : Symbol, side : Side, type : OrderType,
             tif : TimeInForce, price : Int, quantity : UInt32] :
        in.type = "MARKET" => in.price = 0}

Copies(r, in) ==
    /\ r.symbol = in.symbol /\ r.side = in.side /\ r.type = in.type
    /\ r.price = in.price /\ Remaining(r) = in.quantity

LEMMA EntryEffect ==
    ASSUME NEW o, NEW in \in FreeInput, RejectOrder(o, in) \/ ExSubmitOrder(o, in)
    PROVE  /\ books' = books /\ o \notin DOMAIN orders /\ aggressor' \in {aggressor, o, NoOrder}
           /\ DOMAIN orders' = DOMAIN orders \union {o}
           /\ Copies(orders'[o], in)
           /\ \A x \in DOMAIN orders : orders'[x] = orders[x]
<1>1. in.quantity \in Int
  BY U32Assumption DEF FreeInput, UInt32
<1>2. ASSUME NEW st
      PROVE  Copies([NewOrder(in) EXCEPT !.status = st], in)
  <2> DEFINE r == [NewOrder(in) EXCEPT !.status = st]
  <2>1. /\ r.symbol = in.symbol /\ r.side = in.side /\ r.type = in.type
        /\ r.price = in.price /\ r.quantity = in.quantity /\ r.filled_qty = 0
    BY DEF NewOrder
  <2> HIDE DEF r
  <2>2. Copies(r, in)
    BY <1>1, <2>1 DEF Copies, Remaining
  <2> QED BY <2>2 DEF r
<1>3. CASE RejectOrder(o, in)
  <2> DEFINE r == [NewOrder(in) EXCEPT !.status = "REJECTED"]
  <2>1. /\ o \notin DOMAIN orders /\ orders' = Put(orders, o, r)
        /\ books' = books /\ aggressor' = aggressor
    BY <1>3 DEF RejectOrder
  <2>2. Copies(r, in)
    BY <1>2
  <2> HIDE DEF r
  <2> QED BY <2>1, <2>2 DEF Put
<1>4. CASE ExSubmitOrder(o, in)
  <2> DEFINE ords   == Put(orders, o, NewOrder(in))
             killed == /\ ords[o].tif = "FOK"
                       /\ ~CanFillCompletely(ords[o], books[ords[o].symbol])
             st     == IF killed THEN "CANCELLED" ELSE "NEW"
             r      == [NewOrder(in) EXCEPT !.status = st]
  <2>1. /\ o \notin DOMAIN orders /\ books' = books
        /\ orders' = [ords EXCEPT ![o].status = st]
        /\ aggressor' = IF killed THEN NoOrder ELSE o
    BY <1>4 DEF ExSubmitOrder, SubmitOrder, Enter
  <2>2. /\ DOMAIN ords = DOMAIN orders \union {o} /\ ords[o] = NewOrder(in)
        /\ \A x \in DOMAIN orders : ords[x] = orders[x]
    BY <2>1 DEF Put
  <2>3. Copies(r, in)
    BY <1>2
  <2> HIDE DEF killed
  <2>4. orders' = [ords EXCEPT ![o] = r]
    BY <2>1, <2>2
  <2> HIDE DEF st, r, ords
  <2>5. /\ DOMAIN orders' = DOMAIN orders \union {o} /\ orders'[o] = r
        /\ \A x \in DOMAIN orders : orders'[x] = orders[x]
    BY <2>1, <2>2, <2>4
  <2> QED BY <2>1, <2>3, <2>5
<1> QED BY <1>3, <1>4

(* What Submit does to the orders and to their owners.  The new order is   *)
(* the agents' next one or a client's.                                     *)
IsNew(who, o) == o = Fresh \/ (o \in ClientOrder /\ who # "mm")

Entered(who, o, in) ==
    /\ o \notin DOMAIN orders /\ o # NoOrder
    /\ DOMAIN orders' = DOMAIN orders \union {o}
    /\ Copies(orders'[o], in)
    /\ \A x \in DOMAIN orders : orders'[x] = orders[x]
    /\ owner' = Put(owner, o, who)
    /\ UNCHANGED <<active, mid2, inventory, position>>

LEMMA SubmitEffect ==
    ASSUME TrackInv, PricesFit', NEW in \in FreeInput, NEW who, NEW o, Submit(who, o, in)
    PROVE  /\ ExInv' /\ Entered(who, o, in) /\ call = "none"
           /\ books' = books /\ aggressor = NoOrder /\ aggressor' \in {NoOrder, o}
<1>1. /\ call = "none" /\ o \in Order /\ owner' = Put(owner, o, who)
      /\ RejectOrder(o, in) \/ ExSubmitOrder(o, in)
      /\ UNCHANGED <<active, mid2, inventory, position>>
  BY DEF Submit
<1>2. /\ books' = books /\ aggressor' \in {aggressor, o, NoOrder}
      /\ o \notin DOMAIN orders
      /\ DOMAIN orders' = DOMAIN orders \union {o}
      /\ Copies(orders'[o], in)
      /\ \A x \in DOMAIN orders : orders'[x] = orders[x]
  BY <1>1, EntryEffect
<1>3. aggressor = NoOrder
  BY <1>1 DEF TrackInv, ExInv, InCall
<1>4. in \in OrderInput
  <2>1. in.price \in Price
    BY <1>2 DEF PricesFit, Copies
  <2> QED BY <2>1 DEF FreeInput, OrderInput
<1>5. ExInv'
  BY <1>1, <1>4, RejectOrderStep, ExSubmitStep DEF TrackInv
<1>6. o # NoOrder
  BY <1>1, NoOrderAssumption
<1> QED BY <1>1, <1>2, <1>3, <1>5, <1>6 DEF Entered

LEMMA EnteredKeeps ==
    ASSUME TrackInv, NEW in, NEW who, NEW o, IsNew(who, o), Entered(who, o, in),
           books' = books, aggressor = NoOrder, aggressor' \in {NoOrder, o}
    PROVE  /\ Numbering' /\ AgentTypes'
           /\ o = Fresh => Fresh' = Fresh + 1
           /\ o \in DOMAIN orders' /\ owner'[o] = who
           /\ ~Stands(books', o)
           /\ \A x \in DOMAIN orders : /\ Mine(x)' <=> Mine(x)
                                       /\ Live(x)' => Live(x)
<1>1. /\ Fresh \in Nat \ {0} /\ Fresh \notin DOMAIN orders
      /\ DOMAIN orders \ ClientOrder = 1..(Fresh - 1)
      /\ NoOrder \notin DOMAIN orders /\ NoOrder = 0
  BY FreshType DEF TrackInv
<1> DEFINE f == Fresh
<1>2. o = f \/ (o \in ClientOrder /\ who # "mm")
  BY DEF IsNew
<1> HIDE DEF f
<1>3. /\ f \in Nat \ {0} /\ f \notin ClientOrder /\ DOMAIN orders \ ClientOrder = 1..(f - 1)
      /\ o \notin DOMAIN orders
      /\ DOMAIN orders' = DOMAIN orders \union {o} /\ owner' = Put(owner, o, who)
      /\ DOMAIN owner = DOMAIN orders
  BY <1>1, NumberAssumption DEF Entered, f, TrackInv, Numbering
<1>4. /\ o = f => DOMAIN orders' \ ClientOrder = 1..f
      /\ o # f => DOMAIN orders' \ ClientOrder = 1..(f - 1)
  <2>1. CASE o = f
    <3>1. DOMAIN orders' \ ClientOrder = (DOMAIN orders \ ClientOrder) \union {f}
      BY <1>3, <2>1
    <3> QED BY <1>3, <2>1, <3>1
  <2>2. CASE o # f
    BY <1>2, <1>3, <2>2
  <2> QED BY <2>1, <2>2
<1>5. DOMAIN owner' = DOMAIN orders' /\ owner'[o] = who
      /\ \A x \in DOMAIN orders : owner'[x] = owner[x]
  BY <1>3 DEF Put
<1>6. Numbering'
  <2>1. \E n \in Nat : DOMAIN orders' \ ClientOrder = 1..n
    <3>1. f \in Nat /\ f - 1 \in Nat
      BY <1>3
    <3> QED BY <1>4, <3>1
  <2>2. \A x \in DOMAIN owner' : x \in ClientOrder => owner'[x] # "mm"
    BY <1>2, <1>3, <1>5 DEF TrackInv, Numbering
  <2> QED BY <1>5, <2>1, <2>2 DEF Numbering
<1>7. o = f => Fresh' = f + 1
  BY <1>3, <1>4, FreshIs
<1>8. AgentTypes'
  BY DEF TrackInv, AgentTypes, Entered
<1>9. \A x \in DOMAIN orders : Mine(x)' <=> Mine(x)
  BY <1>3, <1>5 DEF Mine
<1>10. ~Stands(books', o)
  <2> SUFFICES ASSUME Stands(books, o) PROVE FALSE
    OBVIOUS
  <2>1. PICK sym \in Symbol, s \in Side : \E p : RestsAt(books[sym], o, s, p)
    BY DEF Stands
  <2> QED BY <1>3, <2>1, RestingOrder DEF TrackInv, ExInv
<1>11. \A x \in DOMAIN orders : Live(x)' => Live(x)
  BY <1>1, <1>3 DEF Live
<1> QED BY <1>3, <1>5, <1>6, <1>7, <1>8, <1>9, <1>10, <1>11 DEF f

LEMMA OtherSubmitStep ==
    ASSUME TrackInv, PricesFit', NEW in \in FreeInput, NEW who, who # "mm",
           NEW new, IsNew(who, new), Submit(who, new, in),
           phase # "submit", phase' = "poll", quotes' = quotes
    PROVE  TrackInv'
<1>1. /\ ExInv' /\ Entered(who, new, in)
      /\ books' = books /\ aggressor = NoOrder /\ aggressor' \in {NoOrder, new}
  BY SubmitEffect
<1>2. /\ Numbering' /\ AgentTypes' /\ owner'[new] = who
      /\ \A o \in DOMAIN orders : /\ Mine(o)' <=> Mine(o)
                                  /\ Live(o)' => Live(o)
  BY <1>1, EnteredKeeps
<1>3. /\ active' = active /\ \A x \in DOMAIN orders : orders'[x] = orders[x]
      /\ DOMAIN orders' = DOMAIN orders \union {new}
  BY <1>1 DEF Entered
<1>4. quotes = <<>>
  BY DEF TrackInv, QueueUsed
<1>5. LoopWaits' /\ QueueLinked' /\ QueueUsed' /\ ActiveCleared'
  BY <1>4 DEF LoopWaits, QueueLinked, QueueUsed, ActiveCleared
<1>6. ActiveKnown'
  <2> SUFFICES ASSUME NEW s \in Side, active[s] # NoOrder
               PROVE  Mine(active[s])' /\ orders'[active[s]].side = s
    BY <1>3 DEF ActiveKnown, Mine
  <2>1. Mine(active[s]) /\ orders[active[s]].side = s
    BY <1>4 DEF TrackInv, ActiveKnown
  <2>2. active[s] \in DOMAIN orders
    BY <2>1 DEF Mine
  <2> DEFINE o == active[s]
  <2>3. active'[s] = o
    BY <1>3
  <2> HIDE DEF o
  <2>4. ASSUME o \in DOMAIN orders, Mine(o) PROVE o \in DOMAIN orders' /\ owner'[o] = "mm"
    BY <1>2, <2>4 DEF Mine
  <2> QED BY <1>3, <2>1, <2>2, <2>3, <2>4 DEF o, Mine
<1>7. MineTracked'
  <2> SUFFICES ASSUME NEW o \in DOMAIN orders', Mine(o)'
               PROVE  /\ orders'[o].type = "LIMIT" /\ orders'[o].symbol = "AAPL"
                      /\ Live(o)' => o = active'[orders'[o].side]
    BY DEF MineTracked
  <2>1. o \in DOMAIN orders
    BY <1>2, <1>3 DEF Mine
  <2> QED BY <1>2, <1>3, <2>1 DEF TrackInv, MineTracked
<1> QED BY <1>1, <1>2, <1>5, <1>6, <1>7 DEF TrackInv

LEMMA TailFacts ==
    ASSUME NEW T, NEW q \in Seq(T), q # <<>>
    PROVE  /\ 1 \in DOMAIN q /\ Head(q) = q[1] /\ Tail(q) \in Seq(T)
           /\ \A i \in DOMAIN Tail(q) : i \in Nat /\ i + 1 \in DOMAIN q /\ Tail(q)[i] = q[i + 1]
           /\ \A i \in DOMAIN q : i = 1 \/ (i - 1 \in DOMAIN Tail(q) /\ Tail(q)[i - 1] = q[i])
OBVIOUS

(* The first of the queued quotes. *)
LEMMA FirstQuote ==
    ASSUME TrackInv, SubmitQuote
    PROVE  \E s \in Side, p \in Int :
              /\ QueuedAt(s, p, 1) /\ (s = "BUY" => p >= 1) /\ active[s] = Fresh
              /\ LimitOrder(s, p, quote_qty) \in FreeInput
              /\ Submit("mm", Fresh, LimitOrder(s, p, quote_qty))
<1>1. /\ quotes \in Seq([order : Nat \ {0}, in : QuoteInput]) /\ quotes # <<>>
      /\ Submit("mm", Head(quotes).order, Head(quotes).in)
  BY DEF SubmitQuote, TrackInv, QueueLinked
<1>2. 1 \in DOMAIN quotes /\ Head(quotes) = quotes[1]
  BY <1>1, TailFacts
<1>3. PICK s \in Side, p \in Int : QueuedAt(s, p, 1) /\ (s = "BUY" => p >= 1)
  BY <1>2 DEF TrackInv, QueueLinked
<1>4. quotes[1].order = Fresh
  BY <1>2, FreshType DEF TrackInv, QueueLinked
<1>5. quotes[1].order = active[s] /\ quotes[1].in = LimitOrder(s, p, quote_qty)
  BY <1>3 DEF QueuedAt
<1>6. LimitOrder(s, p, quote_qty) \in FreeInput
  BY ConfigAssumption, SourceAssumption DEF LimitOrder, FreeInput, OrderType, TimeInForce
<1> QED BY <1>1, <1>2, <1>3, <1>4, <1>5, <1>6

LEMMA SubmitQuoteStep ==
    ASSUME TrackInv, PricesFit', SubmitQuote
    PROVE  TrackInv'
<1>1. PICK s \in Side, p \in Int :
              /\ QueuedAt(s, p, 1) /\ (s = "BUY" => p >= 1) /\ active[s] = Fresh
              /\ LimitOrder(s, p, quote_qty) \in FreeInput
              /\ Submit("mm", Fresh, LimitOrder(s, p, quote_qty))
  BY FirstQuote
<1> DEFINE in == LimitOrder(s, p, quote_qty)
           f  == Fresh
<1>2. in.side = s /\ in.type = "LIMIT" /\ in.symbol = "AAPL"
  BY DEF LimitOrder
<1>3. /\ ExInv' /\ Entered("mm", f, in)
      /\ books' = books /\ aggressor = NoOrder /\ aggressor' \in {NoOrder, f}
  <2> HIDE DEF in
  <2>1. in \in FreeInput /\ Submit("mm", f, in)
    BY <1>1 DEF in
  <2> HIDE DEF f
  <2> QED BY <2>1, SubmitEffect
<1> HIDE DEF in
<1>4. /\ Numbering' /\ AgentTypes' /\ owner'[f] = "mm"
      /\ Fresh' = f + 1 /\ f \in Nat \ {0} /\ f \notin DOMAIN orders
      /\ \A o \in DOMAIN orders : /\ Mine(o)' <=> Mine(o)
                                  /\ Live(o)' => Live(o)
  <2>1. IsNew("mm", f) /\ f = Fresh
    BY DEF IsNew
  <2>2. f \in Nat \ {0} /\ f \notin DOMAIN orders
    BY FreshType DEF TrackInv
  <2> HIDE DEF f
  <2> QED BY <1>3, <2>1, <2>2, EnteredKeeps
<1> HIDE DEF f
<1>5. /\ active' = active /\ \A x \in DOMAIN orders : orders'[x] = orders[x]
      /\ DOMAIN orders' = DOMAIN orders \union {f} /\ Copies(orders'[f], in)
  BY <1>3 DEF Entered, f
<1>6. phase = "submit" /\ phase' = "submit" /\ quotes # <<>> /\ quotes' = Tail(quotes)
  BY DEF SubmitQuote
<1>7. /\ 1 \in DOMAIN quotes /\ quotes' \in Seq([order : Nat \ {0}, in : QuoteInput])
      /\ \A i \in DOMAIN quotes' : i \in Nat /\ i + 1 \in DOMAIN quotes /\ quotes'[i] = quotes[i + 1]
      /\ \A i \in DOMAIN quotes :
            i = 1 \/ (i - 1 \in DOMAIN quotes' /\ quotes'[i - 1] = quotes[i])
  <2>1. quotes \in Seq([order : Nat \ {0}, in : QuoteInput])
    BY DEF TrackInv, QueueLinked
  <2> QED BY <1>6, <2>1, TailFacts
<1>8. LoopWaits' /\ QueueUsed' /\ ActiveCleared'
  BY <1>6 DEF LoopWaits, QueueUsed, ActiveCleared
<1>9. QueueLinked'
  <2>1. ASSUME NEW i \in DOMAIN quotes'
        PROVE  /\ quotes'[i].order = Fresh' + i - 1
               /\ \E t \in Side, x \in Int : QueuedAt(t, x, i)' /\ (t = "BUY" => x >= 1)
    <3>1. i \in Nat /\ i + 1 \in DOMAIN quotes /\ quotes'[i] = quotes[i + 1]
      BY <1>7
    <3>2. quotes[i + 1].order = f + (i + 1) - 1
      BY <3>1 DEF TrackInv, QueueLinked, f
    <3>3. PICK t \in Side, x \in Int : QueuedAt(t, x, i + 1) /\ (t = "BUY" => x >= 1)
      BY <3>1 DEF TrackInv, QueueLinked
    <3>4. QueuedAt(t, x, i)'
      BY <1>5, <3>1, <3>3 DEF QueuedAt
    <3>5. f \in Nat /\ Fresh' = f + 1
      BY <1>4 DEF f
    <3>6. quotes'[i].order = Fresh' + i - 1
      BY <3>1, <3>2, <3>5
    <3> QED BY <3>3, <3>4, <3>6
  <2> QED BY <1>7, <2>1 DEF QueueLinked
<1>10. ActiveKnown'
  <2> SUFFICES ASSUME NEW t \in Side, active[t] # NoOrder
               PROVE  \/ active[t] \in DOMAIN orders' /\ owner'[active[t]] = "mm"
                            /\ orders'[active[t]].side = t
                      \/ \E i \in DOMAIN quotes', x \in Int : QueuedAt(t, x, i)'
    BY <1>5 DEF ActiveKnown, Mine
  <2>1. CASE Mine(active[t]) /\ orders[active[t]].side = t
    <3> DEFINE o == active[t]
    <3>1. Mine(o) /\ orders[o].side = t
      BY <2>1
    <3> HIDE DEF o
    <3>2. o \in DOMAIN orders' /\ owner'[o] = "mm" /\ orders'[o].side = t
      BY <1>4, <1>5, <3>1 DEF Mine
    <3> QED BY <3>2 DEF o
  <2>2. ASSUME NEW i \in DOMAIN quotes, NEW x \in Int, QueuedAt(t, x, i)
        PROVE  \/ active[t] \in DOMAIN orders' /\ owner'[active[t]] = "mm"
                     /\ orders'[active[t]].side = t
               \/ \E j \in DOMAIN quotes', y \in Int : QueuedAt(t, y, j)'
    <3>1. CASE i = 1
      <4>1. quotes[1] = [order |-> active[t], in |-> LimitOrder(t, x, quote_qty)]
        BY <2>2, <3>1 DEF QueuedAt
      <4>2. quotes[1] = [order |-> active[s], in |-> in]
        BY <1>1 DEF QueuedAt, in
      <4>3. active[t] = f /\ LimitOrder(t, x, quote_qty) = in
        BY <1>1, <4>1, <4>2 DEF f
      <4>4. in.side = t
        BY <4>3 DEF LimitOrder
      <4>5. f \in DOMAIN orders' /\ owner'[f] = "mm" /\ orders'[f].side = t
        BY <1>4, <1>5, <4>4 DEF f, Copies
      <4> QED BY <4>3, <4>5
    <3>2. CASE i # 1
      <4>1. i - 1 \in DOMAIN quotes' /\ quotes'[i - 1] = quotes[i]
        BY <1>7, <3>2
      <4>2. QueuedAt(t, x, i - 1)'
        BY <1>5, <2>2, <4>1 DEF QueuedAt
      <4> QED BY <4>1, <4>2
    <3> QED BY <3>1, <3>2
  <2>3. \/ Mine(active[t]) /\ orders[active[t]].side = t
        \/ \E i \in DOMAIN quotes, x \in Int : QueuedAt(t, x, i)
    BY DEF TrackInv, ActiveKnown
  <2> QED BY <2>1, <2>2, <2>3
<1>11. MineTracked'
  <2> SUFFICES ASSUME NEW o \in DOMAIN orders', Mine(o)'
               PROVE  /\ orders'[o].type = "LIMIT" /\ orders'[o].symbol = "AAPL"
                      /\ Live(o)' => o = active'[orders'[o].side]
    BY DEF MineTracked
  <2>1. CASE o = f
    <3>1. orders'[o].type = "LIMIT" /\ orders'[o].symbol = "AAPL" /\ orders'[o].side = s
      BY <1>2, <1>5, <2>1 DEF Copies
    <3>2. active'[s] = f
      BY <1>1, <1>5 DEF f
    <3> QED BY <2>1, <3>1, <3>2
  <2>2. CASE o \in DOMAIN orders
    BY <1>4, <1>5, <2>2 DEF TrackInv, MineTracked
  <2> QED BY <1>5, <2>1, <2>2
<1> QED BY <1>3, <1>4, <1>8, <1>9, <1>10, <1>11 DEF TrackInv

LEMMA NoiseInputFits ==
    ASSUME NEW m2 \in Int, NEW in \in NoiseInput(m2)
    PROVE  /\ in \in FreeInput
           /\ in.type = "LIMIT" => in.price >= 1
<1>1. CASE in \in {[symbol |-> "AAPL", side |-> s, type |-> "MARKET", tif |-> "GTC",
                    price |-> 0, quantity |-> q] : s \in Side, q \in NoiseQty}
  <2>1. PICK s \in Side, q \in NoiseQty :
           in = [symbol |-> "AAPL", side |-> s, type |-> "MARKET", tif |-> "GTC",
                 price |-> 0, quantity |-> q]
    BY <1>1
  <2> QED BY <2>1, SourceAssumption DEF FreeInput, OrderType, TimeInForce
<1>2. ASSUME NEW s \in Side, NEW q \in NoiseQty,
             NEW p \in Round(m2 - 2 * NoiseWidth, 2)..Round(m2 + 2 * NoiseWidth, 2),
             in = LimitOrder(s, Max({1, p}), q)
      PROVE  in \in FreeInput /\ in.price >= 1
  <2>1. Max({1, p}) \in Int /\ Max({1, p}) >= 1
    BY AtLeastOne
  <2> DEFINE x == Max({1, p})
  <2> HIDE DEF x
  <2>2. x \in Int /\ x >= 1 /\ in = LimitOrder(s, x, q)
    BY <1>2, <2>1 DEF x
  <2> QED BY <2>2, SourceAssumption DEF FreeInput, LimitOrder, OrderType, TimeInForce
<1> DEFINE A == {[symbol |-> "AAPL", side |-> s, type |-> "MARKET", tif |-> "GTC",
                  price |-> 0, quantity |-> q] : s \in Side, q \in NoiseQty}
           R == Round(m2 - 2 * NoiseWidth, 2)..Round(m2 + 2 * NoiseWidth, 2)
           B == {LimitOrder(s, Max({1, p}), q) : s \in Side, q \in NoiseQty, p \in R}
<1>3. in \in A \/ in \in B
  <2>1. NoiseInput(m2) = A \union B
    BY DEF NoiseInput
  <2> HIDE DEF A, B
  <2> QED BY <2>1
<1>4. CASE in \in B
  <2> HIDE DEF R
  <2>1. PICK s \in Side, q \in NoiseQty, p \in R : in = LimitOrder(s, Max({1, p}), q)
    BY <1>4
  <2>2. in \in FreeInput /\ in.price >= 1
    BY <1>2, <2>1 DEF R
  <2> QED BY <2>2
<1>5. CASE in \in A
  BY <1>1, <1>5
<1> HIDE DEF A, B
<1> QED BY <1>3, <1>4, <1>5

LEMMA NoiseStep ==
    ASSUME TrackInv, PricesFit', NoiseTick
    PROVE  TrackInv'
<1>1. phase = "noise" /\ phase' = "poll"
  BY DEF NoiseTick
<1>2. CASE MidPrice2 = 0
  <2>1. UNCHANGED exVars /\ UNCHANGED <<active, mid2, quotes, owner, inventory, position>>
    BY <1>2 DEF NoiseTick, agentVars
  <2>2. ExInv' /\ call' = call /\ UNCHANGED <<books, orders, aggressor>>
    BY <2>1, IdleStep DEF TrackInv
  <2>3. Numbering' /\ QueueLinked' /\ ActiveKnown' /\ MineTracked'
    BY <2>1, <2>2, UnchangedQuiet, QuietStep
  <2>4. LoopWaits' /\ QueueUsed' /\ ActiveCleared' /\ AgentTypes'
    BY <1>1, <2>1 DEF TrackInv, LoopWaits, QueueUsed, ActiveCleared, AgentTypes
  <2> QED BY <2>2, <2>3, <2>4 DEF TrackInv
<1>3. CASE MidPrice2 # 0
  <2>1. PICK in \in NoiseInput(MidPrice2) : Submit("noise", Fresh, in)
    BY <1>3 DEF NoiseTick
  <2>2. quotes' = quotes
    BY <1>3 DEF NoiseTick
  <2>3. in \in FreeInput
    BY MidIs, NoiseInputFits DEF TrackInv
  <2>4. IsNew("noise", Fresh)
    BY DEF IsNew
  <2> QED BY <1>1, <2>1, <2>2, <2>3, <2>4, OtherSubmitStep
<1> QED BY <1>2, <1>3

LEMMA OrderInputIsFree == OrderInput \subseteq FreeInput
BY MaxPriceAssumption DEF OrderInput, FreeInput, Price

LEMMA ExternalStep ==
    ASSUME TrackInv, PricesFit', NEW o, NEW in \in ExtInput, SubmitExternal(o, in)
    PROVE  TrackInv'
<1>1. /\ phase = "poll" /\ phase' = phase /\ quotes' = quotes
      /\ Submit("client", o, in) /\ IsNew("client", o)
  BY DEF SubmitExternal, IsNew
<1>2. in \in FreeInput
  BY SourceAssumption, OrderInputIsFree
<1> QED BY <1>1, <1>2, OtherSubmitStep

(* The fills and the end of a call. *)
LEMMA EngineStepTracks ==
    ASSUME TrackInv, LoopFill \/ LoopEngine
    PROVE  TrackInv'
<1>1. /\ ExExecuteFill \/ ExEraseLevel \/ ExFinish
      /\ UNCHANGED <<phase, active, mid2, quotes, owner>>
  BY DEF LoopFill, LoopEngine, agentVars
<1>2. /\ ExInv' /\ SameOrders /\ NoneRevives
      /\ call' \in {call, "none"} /\ call # "none"
  BY <1>1, EngineQuiet DEF TrackInv
<1>3. Numbering' /\ QueueLinked' /\ ActiveKnown' /\ MineTracked'
  BY <1>1, <1>2, QuietStep DEF Quiet
<1>4. LoopWaits' /\ QueueUsed' /\ ActiveCleared'
  BY <1>1, <1>2 DEF TrackInv, LoopWaits, QueueUsed, ActiveCleared
<1>5. AgentTypes'
  <2>1. CASE LoopFill
    <3>1. aggressor # NoOrder /\ MayFill /\ ~LevelSpent /\ Inv
      BY <2>1 DEF LoopFill, ExExecuteFill, ExecuteFill, TrackInv, ExInv
    <3>2. FillQty \in Nat
      BY <3>1, FillFacts
    <3>3. Bought(aggressor) \in Int /\ Bought(Maker) \in Int
      BY <3>2 DEF Bought
    <3>4. /\ inventory' \in {inventory, inventory + Bought(aggressor) + Bought(Maker)}
          /\ position' = position + Bought(aggressor) + Bought(Maker)
      BY <2>1 DEF LoopFill
    <3> DEFINE a == Bought(aggressor)
               m == Bought(Maker)
    <3> HIDE DEF a, m
    <3>5. inventory' \in Int /\ position' \in Int
      <4>1. /\ a \in Int /\ m \in Int /\ inventory' \in {inventory, inventory + a + m}
            /\ position' = position + a + m
        BY <3>3, <3>4 DEF a, m
      <4> QED BY <4>1 DEF TrackInv, AgentTypes
    <3> QED BY <1>1, <3>5 DEF TrackInv, AgentTypes
  <2>2. CASE LoopEngine
    BY <2>2 DEF LoopEngine, agentVars, TrackInv, AgentTypes
  <2> QED BY <2>1, <2>2
<1> QED BY <1>2, <1>3, <1>4, <1>5 DEF TrackInv

LEMMA TrackNext ==
    ASSUME TrackInv, PricesFit', [ServerNext]_serverVars
    PROVE  TrackInv'
<1>1. CASE UNCHANGED serverVars
  <2>1. UNCHANGED exVars /\ UNCHANGED <<phase, active, mid2, quotes, owner, inventory, position>>
    BY <1>1 DEF serverVars, agentVars
  <2>2. ExInv' /\ call' = call /\ UNCHANGED <<books, orders, aggressor>>
    BY <2>1, IdleStep DEF TrackInv
  <2>3. Numbering' /\ QueueLinked' /\ ActiveKnown' /\ MineTracked'
    BY <2>1, <2>2, UnchangedQuiet, QuietStep
  <2>4. LoopWaits' /\ QueueUsed' /\ ActiveCleared' /\ AgentTypes'
    BY <2>1, <2>2 DEF TrackInv, LoopWaits, QueueUsed, ActiveCleared, AgentTypes
  <2> QED BY <2>2, <2>3, <2>4 DEF TrackInv
<1>2. CASE Boot \/ MMTick \/ QuotesSubmitted \/ QueueEmpty
  BY <1>2, TickSteps
<1>3. CASE CancelQuote("BUY", "cancel_bid", "cancel_ask")
  BY <1>3, CancelStep DEF Side
<1>4. CASE CancelQuote("SELL", "cancel_ask", "quote")
  BY <1>4, CancelStep DEF Side
<1>5. CASE Quote
  BY <1>5, QuoteStep
<1>6. CASE SubmitQuote
  BY <1>6, SubmitQuoteStep
<1>7. CASE NoiseTick
  BY <1>7, NoiseStep
<1>8. CASE \E o \in ClientOrder, in \in ExtInput : SubmitExternal(o, in)
  BY <1>8, ExternalStep
<1>9. CASE LoopFill \/ LoopEngine
  BY <1>9, EngineStepTracks
<1> QED BY <1>1, <1>2, <1>3, <1>4, <1>5, <1>6, <1>7, <1>8, <1>9 DEF ServerNext

----------------------------------------------------------------------------
(* The market maker's quotes stay apart.                                   *)

(* The quote of side s, submitted or about to be, is at p. *)
QuotedAt(s, p) ==
    \/ active[s] \in DOMAIN orders /\ orders[active[s]].price = p
    \/ \E i \in DOMAIN quotes : QueuedAt(s, p, i)

QuotesApart ==
    \A p, q \in Int : QuotedAt("BUY", p) /\ QuotedAt("SELL", q) => p < q

(* No bid is below one cent. *)
BuysPositive ==
    \A o \in DOMAIN orders :
        orders[o].type = "LIMIT" /\ orders[o].side = "BUY" => orders[o].price >= 1

(* The best bid is at least one cent, the best ask at least two. *)
MidKnown == phase \in {"cancel_bid", "cancel_ask", "quote"} => mid2 >= 3

SpreadInv == TrackInv /\ QuotesApart /\ BuysPositive /\ MidKnown

LEMMA ActiveNotNew ==
    ASSUME TrackInv, quotes = <<>>, NEW s \in Side,
           NEW o, o \notin DOMAIN orders, o # NoOrder
    PROVE  active[s] # o
BY DEF TrackInv, ActiveKnown, Mine

LEMMA ActiveIsMine ==
    ASSUME TrackInv, NEW s \in Side, active[s] \in DOMAIN orders
    PROVE  Mine(active[s]) /\ orders[active[s]].side = s
<1>1. /\ Fresh \in Nat \ {0} /\ NoOrder \notin DOMAIN orders
      /\ \A n \in DOMAIN orders : n \in Nat => n < Fresh
  BY FreshType DEF TrackInv
<1>2. ASSUME NEW i \in DOMAIN quotes, NEW p \in Int, QueuedAt(s, p, i) PROVE FALSE
  <2>1. i \in Nat /\ i >= 1
    BY DEF TrackInv, QueueLinked
  <2>2. quotes[i].order = Fresh + i - 1
    BY DEF TrackInv, QueueLinked
  <2>3. quotes[i].order = active[s]
    BY <1>2 DEF QueuedAt
  <2> DEFINE a == active[s]
             f == Fresh
  <2> HIDE DEF a, f
  <2>4. a = f + i - 1 /\ f \in Nat /\ (a \in Nat => a < f)
    BY <1>1, <2>2, <2>3 DEF a, f
  <2> QED BY <2>1, <2>4
<1> QED BY <1>1, <1>2 DEF TrackInv, ActiveKnown

LEMMA SpreadParts ==
    ASSUME SpreadInv,
           \A s \in Side, p \in Int : QuotedAt(s, p)' => QuotedAt(s, p)
    PROVE  QuotesApart'
BY DEF SpreadInv, QuotesApart, Side

LEMMA QuietSpread ==
    ASSUME SpreadInv, Quiet
    PROVE  QuotesApart' /\ BuysPositive'
<1>1. /\ DOMAIN orders' = DOMAIN orders /\ active' = active /\ quotes' = quotes
      /\ \A o \in DOMAIN orders : /\ orders'[o].side = orders[o].side
                                  /\ orders'[o].type = orders[o].type
                                  /\ orders'[o].price = orders[o].price
  BY DEF Quiet, SameOrders
<1>2. ASSUME NEW s \in Side, NEW p \in Int, QuotedAt(s, p)'
      PROVE  QuotedAt(s, p)
  BY <1>1, <1>2 DEF QuotedAt, QueuedAt
<1>3. QuotesApart'
  BY <1>2, SpreadParts
<1>4. BuysPositive'
  BY <1>1 DEF SpreadInv, BuysPositive
<1> QED BY <1>3, <1>4

LEMMA SubmitSpread ==
    ASSUME SpreadInv, NEW in, NEW who, NEW f, Entered(who, f, in),
           in.type = "LIMIT" /\ in.side = "BUY" => in.price >= 1,
           \A s \in Side, p \in Int, i \in DOMAIN quotes' :
               QueuedAt(s, p, i)' => QuotedAt(s, p),
           \A s \in Side : active[s] = f => QuotedAt(s, in.price)
    PROVE  QuotesApart' /\ BuysPositive'
<1>1. /\ DOMAIN orders' = DOMAIN orders \union {f} /\ active' = active
      /\ Copies(orders'[f], in) /\ \A x \in DOMAIN orders : orders'[x] = orders[x]
  BY DEF Entered
<1>2. \A s \in Side : active[s] = f => QuotedAt(s, in.price)
  OBVIOUS
<1>3. ASSUME NEW s \in Side, NEW p \in Int, QuotedAt(s, p)'
      PROVE  QuotedAt(s, p)
  <2>1. CASE active[s] \in DOMAIN orders' /\ orders'[active[s]].price = p
    <3>1. CASE active[s] = f
      BY <1>1, <1>2, <2>1, <3>1 DEF Copies
    <3>2. CASE active[s] \in DOMAIN orders
      BY <1>1, <2>1, <3>2 DEF QuotedAt
    <3> QED BY <1>1, <2>1, <3>1, <3>2
  <2>2. CASE \E i \in DOMAIN quotes' : QueuedAt(s, p, i)'
    BY <2>2
  <2>3. \/ active[s] \in DOMAIN orders' /\ orders'[active[s]].price = p
        \/ \E i \in DOMAIN quotes' : QueuedAt(s, p, i)'
    BY <1>1, <1>3 DEF QuotedAt
  <2> QED BY <2>1, <2>2, <2>3
<1>4. QuotesApart'
  BY <1>3, SpreadParts
<1>5. BuysPositive'
  BY <1>1 DEF SpreadInv, BuysPositive, Copies
<1> QED BY <1>4, <1>5

LEMMA MidAtLeastThree ==
    ASSUME SpreadInv, MMTick, MidPrice2 # 0
    PROVE  MidPrice2 >= 3
<1>1. /\ ExInv /\ Inv /\ NoStaleLevel /\ \A sym \in Symbol : BidsBelowAsks(books[sym])
  BY DEF SpreadInv, TrackInv, ExInv, Inv, BookInv
<1>2. aggressor = NoOrder
  BY DEF MMTick, SpreadInv, TrackInv, LoopWaits, ExInv, InCall
<1> DEFINE b == BestPrice(Book, "BUY")
           a == BestPrice(Book, "SELL")
<1>3. /\ MidPrice2 = b + a /\ b \in Nat /\ a \in Nat
      /\ b \in DOMAIN Book.level["BUY"] /\ a \in DOMAIN Book.level["SELL"]
  BY <1>1, MidIs DEF Side
<1> HIDE DEF a, b
<1>4. "AAPL" \in Symbol /\ Book = books["AAPL"] /\ "BUY" \in Side /\ "SELL" \in Side
  BY SourceAssumption DEF Book, Side
<1>5. b < a
  BY <1>1, <1>3, <1>4 DEF BidsBelowAsks
<1>6. b >= 1
  <2> DEFINE q == Book.level["BUY"][b].orders
  <2>1. q # <<>>
    BY <1>1, <1>2, <1>3, <1>4 DEF NoStaleLevel
  <2>2. q \in Seq(Order)
    <3>1. IsBook(Book)
      BY <1>1, <1>4 DEF Inv, TypeOK
    <3> QED BY <1>3, <1>4, <3>1 DEF IsBook, IsMap, PriceLevel
  <2>3. 1 \in DOMAIN q
    <3> HIDE DEF q
    <3> QED BY <2>1, <2>2
  <2>4. RestsAt(books["AAPL"], q[1], "BUY", b)
    BY <1>3, <1>4, <2>3 DEF RestsAt
  <2> DEFINE o == q[1]
  <2> HIDE DEF q
  <2>5. RestsAt(books["AAPL"], o, "BUY", b)
    BY <2>4
  <2> HIDE DEF o
  <2>6. o \in DOMAIN orders /\ MayRestAt(orders[o], "AAPL", "BUY", b)
    BY <1>1, <1>4, <2>5, RestingOrder
  <2> QED BY <2>6 DEF MayRestAt, SpreadInv, BuysPositive
<1> QED BY <1>3, <1>5, <1>6

LEMMA SpreadInit == ServerInit => SpreadInv
<1> SUFFICES ASSUME ServerInit PROVE SpreadInv
  OBVIOUS
<1>1. DOMAIN orders = {} /\ quotes = <<>> /\ phase = "boot"
  BY DEF ServerInit, ExInit, Init, EmptyMap
<1> QED BY <1>1, TrackInit DEF SpreadInv, QuotesApart, QuotedAt, BuysPositive, MidKnown

LEMMA CancelSpread ==
    ASSUME SpreadInv, TrackInv', NEW s \in Side, NEW from \in {"cancel_bid", "cancel_ask"},
           NEW to, CancelQuote(s, from, to)
    PROVE  QuotesApart' /\ BuysPositive' /\ MidKnown'
<1>1. /\ orders' = orders /\ quotes = <<>>
  BY CancelEffect DEF SpreadInv
<1>2. phase = from /\ quotes' = quotes /\ mid2' = mid2
      /\ active' = [active EXCEPT ![s] = NoOrder]
  BY DEF CancelQuote
<1>3. \A t \in Side : active'[t] = IF t = s THEN NoOrder ELSE active[t]
  BY <1>2 DEF SpreadInv, TrackInv, AgentTypes
<1>4. NoOrder \notin DOMAIN orders
  BY FreshType DEF SpreadInv, TrackInv
<1>5. \A t \in Side, p \in Int : QuotedAt(t, p)' => QuotedAt(t, p)
  BY <1>1, <1>2, <1>3, <1>4 DEF QuotedAt
<1>6. QuotesApart'
  BY <1>5, SpreadParts
<1>7. BuysPositive' /\ MidKnown'
  BY <1>1, <1>2 DEF SpreadInv, BuysPositive, MidKnown
<1> QED BY <1>6, <1>7

LEMMA QuoteSpread ==
    ASSUME SpreadInv, TrackInv', Quote
    PROVE  QuotesApart' /\ BuysPositive' /\ MidKnown'
<1>1. /\ \A i \in DOMAIN quotes' :
            \E s \in Side : QuotesOn(s) /\ quotes'[i] = NewQuote(s, active'[s])
      /\ \A s \in Side :
            IF QuotesOn(s)
            THEN active'[s] >= Fresh /\ active'[s] \in Nat
            ELSE active'[s] = active[s]
  BY QuoteEffect DEF SpreadInv
<1>2. phase = "quote" /\ phase' = "submit" /\ orders' = orders
  BY DEF Quote, exVars, vars
<1>3. mid2 >= 3 /\ mid2 \in Int /\ inventory \in Int
  BY <1>2 DEF SpreadInv, MidKnown, TrackInv, AgentTypes
<1>4. /\ Fresh \in Nat /\ NoOrder \notin DOMAIN orders
      /\ \A n \in DOMAIN orders : n \in Nat => n < Fresh
  BY FreshType DEF SpreadInv, TrackInv
<1>5. \A s \in Side : active[s] = NoOrder
  BY <1>2 DEF SpreadInv, TrackInv, ActiveCleared, Side
<1>6. \A s \in Side : active'[s] \notin DOMAIN orders
  <2> SUFFICES ASSUME NEW s \in Side PROVE active'[s] \notin DOMAIN orders
    OBVIOUS
  <2>1. CASE QuotesOn(s)
    BY <1>1, <1>4, <2>1
  <2>2. CASE ~QuotesOn(s)
    BY <1>1, <1>4, <1>5, <2>2
  <2> QED BY <2>1, <2>2
<1>7. ASSUME NEW s \in Side, NEW p \in Int, QuotedAt(s, p)'
      PROVE  QuotesOn(s) /\ p = QuotePrice(s)
  <2>1. PICK i \in DOMAIN quotes' :
           quotes'[i] = [order |-> active'[s], in |-> LimitOrder(s, p, quote_qty)]
    BY <1>2, <1>6, <1>7 DEF QuotedAt, QueuedAt, LimitOrder
  <2>2. PICK t \in Side : QuotesOn(t) /\ quotes'[i] = NewQuote(t, active'[t])
    BY <1>1
  <2>3. quotes'[i].in = LimitOrder(s, p, quote_qty)
        /\ quotes'[i].in = LimitOrder(t, QuotePrice(t), quote_qty)
    BY <2>1, <2>2 DEF NewQuote
  <2>4. LimitOrder(s, p, quote_qty).side = s /\ LimitOrder(s, p, quote_qty).price = p
        /\ LimitOrder(t, QuotePrice(t), quote_qty).side = t
        /\ LimitOrder(t, QuotePrice(t), quote_qty).price = QuotePrice(t)
    BY DEF LimitOrder
  <2> QED BY <2>2, <2>3, <2>4
<1>8. QuotesApart'
  <2> SUFFICES ASSUME NEW p \in Int, NEW q \in Int,
                      QuotedAt("BUY", p)', QuotedAt("SELL", q)'
               PROVE  p < q
    BY DEF QuotesApart
  <2>1. QuotesOn("BUY") /\ p = QuotePrice("BUY") /\ q = QuotePrice("SELL")
    BY <1>7 DEF Side
  <2>2. inventory < max_position
    BY <2>1 DEF QuotesOn
  <2> QED BY <1>3, <2>1, <2>2, QuotesOfTick
<1>9. BuysPositive' /\ MidKnown'
  BY <1>2 DEF SpreadInv, BuysPositive, MidKnown
<1> QED BY <1>8, <1>9

LEMMA SubmitQuoteSpread ==
    ASSUME SpreadInv, TrackInv', PricesFit', SubmitQuote
    PROVE  QuotesApart' /\ BuysPositive' /\ MidKnown'
<1>1. TrackInv
  BY DEF SpreadInv
<1>2. PICK s \in Side, p \in Int :
              /\ QueuedAt(s, p, 1) /\ (s = "BUY" => p >= 1) /\ active[s] = Fresh
              /\ LimitOrder(s, p, quote_qty) \in FreeInput
              /\ Submit("mm", Fresh, LimitOrder(s, p, quote_qty))
  BY <1>1, FirstQuote
<1> DEFINE in == LimitOrder(s, p, quote_qty)
<1>3. in.side = s /\ in.price = p
  BY DEF LimitOrder
<1>4. phase = "submit" /\ phase' = "submit" /\ quotes # <<>> /\ quotes' = Tail(quotes)
  BY DEF SubmitQuote
<1>5. /\ 1 \in DOMAIN quotes
      /\ \A i \in DOMAIN quotes' : i \in Nat /\ i + 1 \in DOMAIN quotes /\ quotes'[i] = quotes[i + 1]
  <2>1. quotes \in Seq([order : Nat \ {0}, in : QuoteInput])
    BY <1>1 DEF TrackInv, QueueLinked
  <2> QED BY <1>4, <2>1, TailFacts
<1> DEFINE f == Fresh
<1>6. Entered("mm", f, in)
  <2>1. in \in FreeInput /\ Submit("mm", f, in)
    BY <1>2
  <2> HIDE DEF in, f
  <2> QED BY <1>1, <2>1, SubmitEffect
<1>7. active' = active
  BY <1>6 DEF Entered
<1>8. \A t \in Side, x \in Int, i \in DOMAIN quotes' : QueuedAt(t, x, i)' => QuotedAt(t, x)
  <2> SUFFICES ASSUME NEW t \in Side, NEW x \in Int, NEW i \in DOMAIN quotes', QueuedAt(t, x, i)'
               PROVE  QuotedAt(t, x)
    OBVIOUS
  <2>1. QueuedAt(t, x, i + 1)
    BY <1>5, <1>7 DEF QueuedAt
  <2> QED BY <1>5, <2>1 DEF QuotedAt
<1>9. \A t \in Side : active[t] = Fresh => QuotedAt(t, p)
  <2> SUFFICES ASSUME NEW t \in Side, active[t] = Fresh PROVE QuotedAt(t, p)
    OBVIOUS
  <2>1. t = s
    <3>1. \/ Mine(active[t]) /\ orders[active[t]].side = t
          \/ \E i \in DOMAIN quotes, x \in Int : QueuedAt(t, x, i)
      BY <1>1, FreshType DEF TrackInv, ActiveKnown
    <3>2. ~Mine(active[t])
      BY <1>1, FreshType DEF TrackInv, Mine
    <3>3. PICK i \in DOMAIN quotes, x \in Int : QueuedAt(t, x, i)
      BY <3>1, <3>2
    <3>4. i = 1
      <4>1. quotes[i].order = Fresh + i - 1 /\ i \in Nat
        BY <1>1 DEF TrackInv, QueueLinked
      <4>2. quotes[i].order = Fresh
        BY <3>3 DEF QueuedAt
      <4> DEFINE n == Fresh
      <4>3. n \in Nat /\ n = n + i - 1
        BY <1>1, <4>1, <4>2, FreshType DEF TrackInv
      <4> HIDE DEF n
      <4> QED BY <4>1, <4>3
    <3>5. quotes[1].in = LimitOrder(t, x, quote_qty) /\ quotes[1].in = LimitOrder(s, p, quote_qty)
      BY <1>2, <3>3, <3>4 DEF QueuedAt
    <3>6. LimitOrder(t, x, quote_qty).side = t
      BY DEF LimitOrder
    <3> QED BY <1>3, <3>5, <3>6
  <2> QED BY <1>2, <1>5, <2>1 DEF QuotedAt
<1>10. QuotesApart' /\ BuysPositive'
  <2>1. in.type = "LIMIT" /\ in.side = "BUY" => in.price >= 1
    BY <1>2, <1>3
  <2>2. \A t \in Side : active[t] = f => QuotedAt(t, in.price)
    BY <1>3, <1>9
  <2> HIDE DEF in, f
  <2> QED BY <1>6, <1>8, <2>1, <2>2, SubmitSpread
<1>11. MidKnown'
  BY <1>4 DEF MidKnown
<1> QED BY <1>10, <1>11

LEMMA OtherSubmitSpread ==
    ASSUME SpreadInv, TrackInv', PricesFit', NEW in \in FreeInput, NEW who, NEW o,
           Submit(who, o, in), phase # "submit", phase' = "poll", quotes' = quotes,
           in.type = "LIMIT" /\ in.side = "BUY" => in.price >= 1
    PROVE  QuotesApart' /\ BuysPositive' /\ MidKnown'
<1>1. TrackInv /\ quotes = <<>>
  BY DEF SpreadInv, TrackInv, QueueUsed
<1>2. Entered(who, o, in)
  BY <1>1, SubmitEffect
<1>3. \A t \in Side, x \in Int, i \in DOMAIN quotes' : QueuedAt(t, x, i)' => QuotedAt(t, x)
  BY <1>1
<1>4. \A t \in Side : active[t] # o
  BY <1>1, <1>2, ActiveNotNew DEF Entered
<1>5. QuotesApart' /\ BuysPositive'
  BY <1>2, <1>3, <1>4, SubmitSpread
<1>6. MidKnown'
  BY DEF MidKnown
<1> QED BY <1>5, <1>6

LEMMA SpreadNext ==
    ASSUME PositiveBids, SpreadInv, PricesFit', [ServerNext]_serverVars
    PROVE  SpreadInv'
<1>1. TrackInv /\ TrackInv'
  BY TrackNext DEF SpreadInv
<1>2. CASE UNCHANGED serverVars
  <2>1. UNCHANGED <<books, orders, aggressor>> /\ UNCHANGED <<phase, active, mid2, quotes, owner>>
    BY <1>2 DEF serverVars, agentVars, exVars, vars
  <2>2. QuotesApart' /\ BuysPositive'
    BY <2>1, UnchangedQuiet, QuietSpread
  <2>3. MidKnown'
    BY <2>1 DEF SpreadInv, MidKnown
  <2> QED BY <1>1, <2>2, <2>3 DEF SpreadInv
<1>3. CASE Boot \/ MMTick \/ QuotesSubmitted \/ QueueEmpty
  <2>1. QuotesApart' /\ BuysPositive'
    BY <1>1, <1>3, TickSteps, QuietSpread
  <2>2. MidKnown'
    <3>1. CASE MMTick
      BY <3>1, MidAtLeastThree DEF MMTick, MidKnown
    <3>2. CASE Boot \/ QuotesSubmitted \/ QueueEmpty
      BY <3>2 DEF Boot, QuotesSubmitted, QueueEmpty, MidKnown
    <3> QED BY <1>3, <3>1, <3>2
  <2> QED BY <1>1, <2>1, <2>2 DEF SpreadInv
<1>4. CASE CancelQuote("BUY", "cancel_bid", "cancel_ask")
  BY <1>1, <1>4, CancelSpread DEF SpreadInv, Side
<1>5. CASE CancelQuote("SELL", "cancel_ask", "quote")
  BY <1>1, <1>5, CancelSpread DEF SpreadInv, Side
<1>6. CASE Quote
  BY <1>1, <1>6, QuoteSpread DEF SpreadInv
<1>7. CASE SubmitQuote
  BY <1>1, <1>7, SubmitQuoteSpread DEF SpreadInv
<1>8. CASE NoiseTick
  <2>1. phase = "noise" /\ phase' = "poll"
    BY <1>8 DEF NoiseTick
  <2>2. CASE MidPrice2 = 0
    <3>1. UNCHANGED <<books, orders, aggressor>> /\ UNCHANGED <<active, quotes, owner>>
      BY <1>8, <2>2 DEF NoiseTick, agentVars, exVars, vars
    <3>2. QuotesApart' /\ BuysPositive'
      BY <3>1, UnchangedQuiet, QuietSpread
    <3> QED BY <1>1, <2>1, <3>2 DEF SpreadInv, MidKnown
  <2>3. CASE MidPrice2 # 0
    <3>1. PICK in \in NoiseInput(MidPrice2) : Submit("noise", Fresh, in)
      BY <1>8, <2>3 DEF NoiseTick
    <3>2. quotes' = quotes
      BY <1>8, <2>3 DEF NoiseTick
    <3>3. in \in FreeInput /\ (in.type = "LIMIT" => in.price >= 1)
      BY <1>1, MidIs, NoiseInputFits DEF TrackInv
    <3>4. QuotesApart' /\ BuysPositive' /\ MidKnown'
      BY <1>1, <2>1, <3>1, <3>2, <3>3, OtherSubmitSpread
    <3> QED BY <1>1, <3>4 DEF SpreadInv
  <2> QED BY <2>2, <2>3
<1>9. CASE \E o \in ClientOrder, in \in ExtInput : SubmitExternal(o, in)
  <2>1. PICK o \in ClientOrder, in \in ExtInput : SubmitExternal(o, in)
    BY <1>9
  <2>2. /\ phase = "poll" /\ phase' = phase /\ quotes' = quotes /\ Submit("client", o, in)
    BY <2>1 DEF SubmitExternal
  <2>3. in \in FreeInput /\ in.price \in Int
    BY SourceAssumption, OrderInputIsFree DEF FreeInput
  <2>4. in.type = "LIMIT" /\ in.side = "BUY" => in.price >= 1
    BY <2>3 DEF PositiveBids
  <2>5. QuotesApart' /\ BuysPositive' /\ MidKnown'
    BY <1>1, <2>2, <2>3, <2>4, OtherSubmitSpread
  <2> QED BY <1>1, <2>5 DEF SpreadInv
<1>10. CASE LoopFill \/ LoopEngine
  <2>1. /\ ExExecuteFill \/ ExEraseLevel \/ ExFinish
        /\ UNCHANGED <<phase, active, mid2, quotes, owner>>
    BY <1>10 DEF LoopFill, LoopEngine, agentVars
  <2>2. Quiet
    BY <1>1, <2>1, EngineQuiet DEF TrackInv, Quiet
  <2>3. QuotesApart' /\ BuysPositive'
    BY <2>2, QuietSpread
  <2>4. MidKnown'
    BY <2>1 DEF SpreadInv, MidKnown
  <2> QED BY <1>1, <2>3, <2>4 DEF SpreadInv
<1> QED BY <1>2, <1>3, <1>4, <1>5, <1>6, <1>7, <1>8, <1>9, <1>10 DEF ServerNext

(* Two quotes that are apart cannot trade with each other. *)
LEMMA ApartNoSelfTrade ==
    ASSUME SpreadInv
    PROVE  NoSelfTrade
<1> SUFFICES ASSUME aggressor # NoOrder, MayFill, ~LevelSpent,
                    owner[aggressor] = "mm", owner[Maker] = "mm"
             PROVE  FALSE
  BY DEF NoSelfTrade
<1>1. TrackInv /\ Inv
  BY DEF SpreadInv, TrackInv, ExInv
<1> DEFINE m == Maker
           a == aggressor
           p == SweepPrice
           t == Taker.side
           s == MakerSide
<1>2. /\ m \in DOMAIN orders /\ orders[m].side = s /\ orders[m].price = p
      /\ RestsAt(TakerBook, m, s, p)
  BY <1>1, FillFacts DEF MayRestAt
<1>3. /\ a \in DOMAIN orders /\ s \in Side /\ t \in Side /\ (t = "BUY" <=> s = "SELL")
      /\ Taker.symbol \in Symbol
  BY <1>1, SweepFacts
<1>4. orders[a].side = t /\ Crosses(orders[a], p)
  BY DEF MayFill, Taker
<1>5. Live(m) /\ Live(a)
  BY <1>2, <1>3 DEF Live, Stands, TakerBook
<1> HIDE DEF m, a, p, t, s
<1>6. Mine(m) /\ Mine(a)
  BY <1>2, <1>3 DEF Mine, m, a
<1>7. m = active[s] /\ a = active[t] /\ orders[a].type = "LIMIT"
  BY <1>1, <1>2, <1>3, <1>4, <1>5, <1>6 DEF TrackInv, MineTracked
<1>8. QuotedAt(s, orders[m].price) /\ QuotedAt(t, orders[a].price)
  BY <1>2, <1>3, <1>7 DEF QuotedAt
<1>9. orders[m].price \in Int /\ orders[a].price \in Int
  BY <1>1, <1>2, <1>3, OrderTypes, MaxPriceAssumption DEF Price
<1>10. \/ t = "BUY" /\ p <= orders[a].price
       \/ t = "SELL" /\ p >= orders[a].price
  BY <1>4, <1>7 DEF Crosses
<1>11. CASE t = "BUY"
  <2>1. orders[a].price < orders[m].price
    BY <1>3, <1>8, <1>9, <1>11 DEF SpreadInv, QuotesApart
  <2> QED BY <1>2, <1>9, <1>10, <1>11, <2>1
<1>12. CASE t = "SELL"
  <2>1. orders[m].price < orders[a].price
    BY <1>3, <1>8, <1>9, <1>12 DEF SpreadInv, QuotesApart, Side
  <2> QED BY <1>2, <1>9, <1>10, <1>12, <2>1
<1> QED BY <1>3, <1>11, <1>12 DEF Side

----------------------------------------------------------------------------
(* What the market maker holds and may still buy or sell.                  *)

(* What its quote of side s may still trade. *)
Open(s) ==
    IF active[s] = NoOrder THEN 0
    ELSE IF active[s] \in DOMAIN orders THEN Remaining(orders[active[s]])
    ELSE quote_qty

WithinLimits ==
    /\ position + Open("BUY") < max_position + quote_qty
    /\ -position + Open("SELL") < max_position + quote_qty

PosInv ==
    /\ TrackInv
    /\ inventory = position
    /\ WithinLimits

LEMMA QtyFacts ==
    /\ quote_qty \in Nat /\ max_position \in Nat
    /\ quote_qty >= 1 /\ max_position >= 1
BY ConfigAssumption, U32Assumption DEF UInt32

OpenFits == Open("BUY") \in Nat /\ Open("SELL") \in Nat

LEMMA OpenType == TrackInv => OpenFits
<1> SUFFICES ASSUME TrackInv PROVE OpenFits
  OBVIOUS
<1>1. \A o \in DOMAIN orders : Remaining(orders[o]) \in Nat
  BY OrderTypes DEF TrackInv, ExInv
<1> QED BY <1>1, QtyFacts DEF Open, OpenFits

LEMMA NextOpenType == TrackInv' => OpenFits'
BY OpenType, PTL

LEMMA PosInit == ServerInit => PosInv
<1> SUFFICES ASSUME ServerInit PROVE PosInv
  OBVIOUS
<1>1. inventory = 0 /\ position = 0 /\ active = [s \in Side |-> NoOrder]
  BY DEF ServerInit
<1>2. Open("BUY") = 0 /\ Open("SELL") = 0
  BY <1>1 DEF Open, Side
<1> QED BY <1>1, <1>2, TrackInit, QtyFacts DEF PosInv, WithinLimits

(* A step that changes neither the position nor makes more to trade. *)
LEMMA NoMoreOpen ==
    ASSUME PosInv, TrackInv', UNCHANGED <<position, inventory>>,
           \A s \in Side : Open(s)' <= Open(s)
    PROVE  PosInv'
<1> DEFINE b  == Open("BUY")
           c  == Open("SELL")
           b1 == Open("BUY")'
           c1 == Open("SELL")'
           m  == max_position + quote_qty
<1>1. b \in Nat /\ c \in Nat /\ b1 \in Nat /\ c1 \in Nat /\ m \in Nat
  BY OpenType, NextOpenType, QtyFacts DEF PosInv, OpenFits
<1>2. b1 <= b /\ c1 <= c
  BY DEF Side
<1>3. position \in Int /\ position' = position /\ inventory' = inventory /\ inventory = position
      /\ position + b < m /\ -position + c < m
  BY DEF PosInv, WithinLimits, TrackInv, AgentTypes
<1> HIDE DEF b, c, b1, c1, m
<1>4. position + b1 < m /\ -position + c1 < m
  BY <1>1, <1>2, <1>3
<1> QED BY <1>3, <1>4 DEF PosInv, WithinLimits, b1, c1, m

LEMMA SameOpen ==
    ASSUME PosInv, TrackInv', UNCHANGED <<position, inventory, active>>,
           DOMAIN orders' = DOMAIN orders,
           \A o \in DOMAIN orders : Remaining(orders'[o]) = Remaining(orders[o])
    PROVE  PosInv'
<1>1. ASSUME NEW s \in Side PROVE Open(s)' <= Open(s)
  <2>1. Open(s)' = Open(s)
    BY DEF Open
  <2>2. Open(s) \in Nat
    BY OpenType DEF PosInv, OpenFits, Side
  <2> QED BY <2>1, <2>2
<1> QED BY <1>1, NoMoreOpen

LEMMA CancelPos ==
    ASSUME PosInv, TrackInv', NEW s \in Side, NEW from \in {"cancel_bid", "cancel_ask"},
           NEW to, CancelQuote(s, from, to)
    PROVE  PosInv'
<1>1. orders' = orders
  BY CancelEffect DEF PosInv
<1>2. /\ UNCHANGED <<position, inventory>> /\ active' = [active EXCEPT ![s] = NoOrder]
  BY DEF CancelQuote
<1>3. \A t \in Side : active'[t] = IF t = s THEN NoOrder ELSE active[t]
  BY <1>2 DEF PosInv, TrackInv, AgentTypes
<1>4. ASSUME NEW t \in Side PROVE Open(t)' <= Open(t)
  <2>1. Open(t)' = IF t = s THEN 0 ELSE Open(t)
    BY <1>1, <1>3 DEF Open
  <2>2. Open(t) \in Nat
    BY OpenType DEF PosInv, OpenFits, Side
  <2> QED BY <2>1, <2>2
<1> QED BY <1>2, <1>4, NoMoreOpen

LEMMA QuotePos ==
    ASSUME PosInv, TrackInv', Quote
    PROVE  PosInv'
<1>1. \A s \in Side :
            IF QuotesOn(s)
            THEN active'[s] >= Fresh /\ active'[s] \in Nat
            ELSE active'[s] = active[s]
  BY QuoteEffect DEF PosInv
<1>2. /\ phase = "quote" /\ orders' = orders
      /\ inventory' = inventory /\ position' = position
  BY DEF Quote, exVars, vars
<1>3. /\ Fresh \in Nat \ {0} /\ NoOrder = 0
      /\ \A n \in DOMAIN orders : n \in Nat => n < Fresh
  BY FreshType DEF PosInv, TrackInv
<1>4. \A s \in Side : active[s] = NoOrder
  BY <1>2 DEF PosInv, TrackInv, ActiveCleared, Side
<1>5. \A s \in Side : Open(s) = 0
  BY <1>4 DEF Open
<1>6. ASSUME NEW s \in Side
      PROVE  Open(s)' = IF QuotesOn(s) THEN quote_qty ELSE 0
  <2>1. CASE QuotesOn(s)
    <3>1. active'[s] # NoOrder /\ active'[s] \notin DOMAIN orders
      BY <1>1, <1>3, <2>1
    <3> QED BY <1>2, <2>1, <3>1 DEF Open
  <2>2. CASE ~QuotesOn(s)
    <3>1. active'[s] = NoOrder
      BY <1>1, <1>4, <2>2
    <3> QED BY <2>2, <3>1 DEF Open
  <2> QED BY <2>1, <2>2
<1> DEFINE b1 == Open("BUY")'
           c1 == Open("SELL")'
<1>7. /\ b1 = IF inventory < max_position THEN quote_qty ELSE 0
      /\ c1 = IF inventory > -max_position THEN quote_qty ELSE 0
  BY <1>6 DEF QuotesOn, Side
<1>8. /\ inventory = position /\ position \in Int
      /\ position + 0 < max_position + quote_qty
      /\ -position + 0 < max_position + quote_qty
  BY <1>5 DEF PosInv, WithinLimits, TrackInv, AgentTypes, Side
<1> HIDE DEF b1, c1
<1>9. position + b1 < max_position + quote_qty /\ -position + c1 < max_position + quote_qty
  BY <1>7, <1>8, QtyFacts
<1> QED BY <1>2, <1>8, <1>9 DEF PosInv, WithinLimits, b1, c1

LEMMA SubmitPos ==
    ASSUME PosInv, TrackInv', NEW in, NEW who, NEW f, Entered(who, f, in),
           \A s \in Side : active[s] = f => in.quantity = quote_qty
    PROVE  PosInv'
<1>1. /\ DOMAIN orders' = DOMAIN orders \union {f} /\ UNCHANGED <<active, inventory, position>>
      /\ Remaining(orders'[f]) = in.quantity /\ \A x \in DOMAIN orders : orders'[x] = orders[x]
  BY DEF Entered, Copies
<1>2. f \notin DOMAIN orders /\ f # NoOrder
  BY DEF Entered
<1>3. \A s \in Side : active[s] = f => in.quantity = quote_qty
  OBVIOUS
<1>4. ASSUME NEW s \in Side PROVE Open(s)' <= Open(s)
  <2>1. Open(s)' = Open(s)
    <3>1. active'[s] = active[s]
      BY <1>1
    <3>2. CASE active[s] = f
      <4>1. Open(s)' = in.quantity
        BY <1>1, <1>2, <3>1, <3>2 DEF Open
      <4>2. Open(s) = quote_qty
        BY <1>2, <3>2 DEF Open
      <4> QED BY <1>3, <3>2, <4>1, <4>2
    <3>3. CASE active[s] # f
      BY <1>1, <3>1, <3>3 DEF Open
    <3> QED BY <3>2, <3>3
  <2>2. Open(s) \in Nat
    BY OpenType DEF PosInv, OpenFits, Side
  <2> QED BY <2>1, <2>2
<1> QED BY <1>1, <1>4, NoMoreOpen

(* The quantity q that trades is added to the position on the side of the  *)
(* market maker's order and taken from what that order may still trade.    *)
LEMMA FillPos ==
    ASSUME Wired, PosInv, TrackInv', LoopFill
    PROVE  PosInv'
<1>1. TrackInv /\ Inv /\ ExecuteFill /\ aggressor # NoOrder /\ MayFill /\ ~LevelSpent
  BY DEF PosInv, TrackInv, ExInv, LoopFill, ExExecuteFill, ExecuteFill
<1> DEFINE a == aggressor
           m == Maker
           q == FillQty
           x == Bought(aggressor)
           y == Bought(Maker)
<1>2. /\ active' = active /\ inventory' = inventory + x + y /\ position' = position + x + y
  BY DEF LoopFill
<1>3. /\ DOMAIN orders' = DOMAIN orders
      /\ \A z \in {a, m} : Remaining(orders'[z]) = Remaining(orders[z]) - q
      /\ \A z \in DOMAIN orders : z # a /\ z # m => orders'[z] = orders[z]
  BY <1>1, FillEffect
<1>4. /\ m \in DOMAIN orders /\ a # m /\ orders[m].side = MakerSide /\ q \in Nat
      /\ RestsAt(TakerBook, m, MakerSide, SweepPrice)
  BY <1>1, FillFacts DEF MayRestAt
<1>5. /\ a \in DOMAIN orders /\ orders[a].side = Taker.side
      /\ MakerSide \in Side /\ Taker.side \in Side /\ Taker.symbol \in Symbol
      /\ (Taker.side = "BUY" <=> MakerSide = "SELL")
  BY <1>1, SweepFacts DEF Taker
<1>6. Live(a) /\ Live(m)
  BY <1>4, <1>5 DEF Live, Stands, TakerBook
<1>7. /\ x = IF owner[a] # "mm" THEN 0 ELSE IF orders[a].side = "BUY" THEN q ELSE -q
      /\ y = IF owner[m] # "mm" THEN 0 ELSE IF orders[m].side = "BUY" THEN q ELSE -q
  BY DEF Bought
<1> HIDE DEF a, m, q, x, y
<1>8. ASSUME NEW o \in {a, m}
      PROVE  /\ owner[o] = "mm" => o = active[orders[o].side]
             /\ \A s \in Side : o = active[s] => owner[o] = "mm" /\ orders[o].side = s
  <2>1. o \in DOMAIN orders /\ Live(o)
    BY <1>4, <1>5, <1>6
  <2>2. owner[o] = "mm" => o = active[orders[o].side]
    BY <1>1, <2>1 DEF TrackInv, MineTracked, Mine
  <2>3. \A s \in Side : o = active[s] => owner[o] = "mm" /\ orders[o].side = s
    BY <1>1, <2>1, ActiveIsMine DEF Mine
  <2> QED BY <2>2, <2>3
<1>9. \A z \in DOMAIN orders : z # NoOrder /\ Remaining(orders[z]) \in Nat
  BY <1>1, OrderTypes
<1> DEFINE T(o, s) == owner[o] = "mm" /\ orders[o].side = s
<1>10. ASSUME NEW s \in Side
       PROVE  Open(s)' = IF T(a, s) \/ T(m, s) THEN Open(s) - q ELSE Open(s)
  <2>1. active'[s] = active[s]
    BY <1>2
  <2>2. T(a, s) \/ T(m, s) <=> active[s] \in {a, m}
    BY <1>8
  <2> HIDE DEF T
  <2>3. CASE active[s] \in {a, m}
    <3>1. active[s] \in DOMAIN orders /\ active[s] # NoOrder
      BY <1>4, <1>5, <1>9, <2>3
    <3>2. Open(s) = Remaining(orders[active[s]]) /\ Open(s)' = Remaining(orders'[active[s]])
      BY <1>3, <2>1, <3>1 DEF Open
    <3>3. Remaining(orders'[active[s]]) = Remaining(orders[active[s]]) - q
      BY <1>3, <2>3
    <3> QED BY <2>2, <2>3, <3>2, <3>3
  <2>4. CASE active[s] \notin {a, m}
    <3>1. Open(s)' = Open(s)
      BY <1>3, <2>1, <2>4 DEF Open
    <3> QED BY <2>2, <2>4, <3>1
  <2> QED BY <2>3, <2>4
<1> DEFINE b  == Open("BUY")
           c  == Open("SELL")
           b1 == Open("BUY")'
           c1 == Open("SELL")'
           n  == max_position + quote_qty
<1>11. /\ b1 = IF T(a, "BUY") \/ T(m, "BUY") THEN b - q ELSE b
       /\ c1 = IF T(a, "SELL") \/ T(m, "SELL") THEN c - q ELSE c
  BY <1>10 DEF Side
<1>12. /\ b \in Nat /\ c \in Nat /\ n \in Nat /\ q \in Nat
       /\ position \in Int /\ inventory = position
       /\ position + b < n /\ -position + c < n
  BY <1>1, <1>4, OpenType, QtyFacts DEF PosInv, WithinLimits, OpenFits, TrackInv, AgentTypes
<1>13. /\ orders[a].side \in {"BUY", "SELL"}
       /\ orders[m].side = IF orders[a].side = "BUY" THEN "SELL" ELSE "BUY"
  BY <1>4, <1>5 DEF Side
<1> HIDE DEF b, c, b1, c1, n
<1>14. position + x + y + b1 < n /\ -(position + x + y) + c1 < n /\ x \in Int /\ y \in Int
  BY <1>7, <1>11, <1>12, <1>13
<1>15. position' + b1 < n /\ -position' + c1 < n /\ inventory' = position'
  BY <1>2, <1>12, <1>14
<1> QED BY <1>15 DEF PosInv, WithinLimits, b1, c1, n

LEMMA PosNext ==
    ASSUME Wired, PosInv, PricesFit', [ServerNext]_serverVars
    PROVE  PosInv'
<1>1. TrackInv /\ TrackInv'
  BY TrackNext DEF PosInv
<1>2. CASE UNCHANGED serverVars \/ Boot \/ MMTick \/ QuotesSubmitted \/ QueueEmpty
  <2>1. orders' = orders /\ UNCHANGED <<position, inventory, active>>
    BY <1>2 DEF serverVars, agentVars, exVars, vars, Boot, AddSymbol, MMTick,
                QuotesSubmitted, QueueEmpty
  <2> QED BY <1>1, <2>1, SameOpen
<1>3. CASE CancelQuote("BUY", "cancel_bid", "cancel_ask")
  BY <1>1, <1>3, CancelPos DEF Side
<1>4. CASE CancelQuote("SELL", "cancel_ask", "quote")
  BY <1>1, <1>4, CancelPos DEF Side
<1>5. CASE Quote
  BY <1>1, <1>5, QuotePos
<1>6. CASE SubmitQuote
  <2>1. PICK s \in Side, p \in Int :
              /\ LimitOrder(s, p, quote_qty) \in FreeInput
              /\ Submit("mm", Fresh, LimitOrder(s, p, quote_qty))
    BY <1>1, <1>6, FirstQuote
  <2> DEFINE in == LimitOrder(s, p, quote_qty)
             f  == Fresh
  <2>2. in.quantity = quote_qty
    BY DEF LimitOrder
  <2>3. in \in FreeInput /\ Submit("mm", f, in)
    BY <2>1
  <2> HIDE DEF in, f
  <2>4. Entered("mm", f, in)
    BY <1>1, <2>3, SubmitEffect
  <2> QED BY <1>1, <2>2, <2>4, SubmitPos
<1>7. ASSUME NEW in \in FreeInput, NEW who, NEW o, Submit(who, o, in), phase # "submit"
      PROVE  PosInv'
  <2>1. Entered(who, o, in)
    BY <1>1, <1>7, SubmitEffect
  <2>2. \A s \in Side : active[s] # o
    BY <1>1, <1>7, <2>1, ActiveNotNew DEF TrackInv, QueueUsed, Entered
  <2> QED BY <1>1, <2>1, <2>2, SubmitPos
<1>8. CASE NoiseTick
  <2>1. phase = "noise"
    BY <1>8 DEF NoiseTick
  <2>2. CASE MidPrice2 = 0
    <3>1. orders' = orders /\ UNCHANGED <<position, inventory, active>>
      BY <1>8, <2>2 DEF NoiseTick, agentVars, exVars, vars
    <3> QED BY <1>1, <3>1, SameOpen
  <2>3. CASE MidPrice2 # 0
    <3>1. PICK in \in NoiseInput(MidPrice2) : Submit("noise", Fresh, in)
      BY <1>8, <2>3 DEF NoiseTick
    <3>2. in \in FreeInput
      BY <1>1, MidIs, NoiseInputFits DEF TrackInv
    <3> QED BY <1>7, <2>1, <3>1, <3>2
  <2> QED BY <2>2, <2>3
<1>9. CASE \E o \in ClientOrder, in \in ExtInput : SubmitExternal(o, in)
  <2>1. PICK o \in ClientOrder, in \in ExtInput : SubmitExternal(o, in)
    BY <1>9
  <2>2. phase = "poll" /\ Submit("client", o, in)
    BY <2>1 DEF SubmitExternal
  <2>3. in \in FreeInput
    BY SourceAssumption, OrderInputIsFree
  <2> QED BY <1>7, <2>2, <2>3
<1>10. CASE LoopFill
  BY <1>1, <1>10, FillPos
<1>11. CASE LoopEngine
  <2>1. UNCHANGED <<position, inventory, active>> /\ (ExEraseLevel \/ ExFinish)
    BY <1>11 DEF LoopEngine, agentVars
  <2>2. CASE ExEraseLevel
    BY <1>1, <2>1, <2>2, SameOpen DEF ExEraseLevel, EraseLevel
  <2>3. CASE ExFinish
    <3>1. aggressor \in DOMAIN orders
      BY <1>1, <2>3, SweepFacts DEF TrackInv, ExInv, ExFinish, Finish
    <3>2. orders' \in {orders, [orders EXCEPT ![aggressor].status = "CANCELLED"]}
      BY <2>3 DEF ExFinish, Finish
    <3>3. ASSUME orders' = [orders EXCEPT ![aggressor].status = "CANCELLED"]
          PROVE  /\ DOMAIN orders' = DOMAIN orders
                 /\ \A o \in DOMAIN orders : Remaining(orders'[o]) = Remaining(orders[o])
      <4> DEFINE r == [orders[aggressor] EXCEPT !.status = "CANCELLED"]
      <4>1. orders' = [orders EXCEPT ![aggressor] = r]
        BY <3>3
      <4>2. Remaining(r) = Remaining(orders[aggressor])
        BY DEF Remaining
      <4> HIDE DEF r
      <4> QED BY <3>1, <4>1, <4>2
    <3>4. /\ DOMAIN orders' = DOMAIN orders
          /\ \A o \in DOMAIN orders : Remaining(orders'[o]) = Remaining(orders[o])
      BY <3>2, <3>3
    <3> QED BY <1>1, <2>1, <3>4, SameOpen
  <2> QED BY <2>1, <2>2, <2>3
<1> QED BY <1>2, <1>3, <1>4, <1>5, <1>6, <1>8, <1>9, <1>10, <1>11 DEF ServerNext

LEMMA LimitsBound ==
    ASSUME PosInv
    PROVE  PositionBounded
<1> DEFINE b == Open("BUY")
           c == Open("SELL")
           n == max_position + quote_qty
<1>1. /\ b \in Nat /\ c \in Nat /\ n \in Nat /\ position \in Int
      /\ position + b < n /\ -position + c < n
  BY OpenType, QtyFacts DEF PosInv, WithinLimits, OpenFits, TrackInv, AgentTypes
<1> HIDE DEF b, c, n
<1>2. position < n /\ -position < n
  BY <1>1
<1> QED BY <1>2 DEF PositionBounded, n

----------------------------------------------------------------------------
(* The theorems of the server.                                             *)

(* The exchange behind the server stays sound although several clients'    *)
(* orders may carry one id: the deques hold what may trade there and       *)
(* nothing twice, no empty level stays behind, no book is crossed, every   *)
(* order's status agrees with its fills, and what rests under an id no     *)
(* other order carries is found by it.                                     *)
THEOREM ServerKeepsExchange ==
    ServerSpec /\ []PricesFit =>
        [](/\ RestsOnce /\ RestingOrdersLive /\ NoStaleLevel /\ Uncrossed
           /\ StatusMatchesFills /\ OwnIdsFound)
<1>1. ExInv => /\ RestsOnce /\ RestingOrdersLive /\ NoStaleLevel /\ Uncrossed
               /\ StatusMatchesFills /\ OwnIdsFound
  BY InvImplies, OwnFound DEF ExInv, Inv
<1>2. TrackInv => ExInv
  BY DEF TrackInv
<1> QED BY <1>1, <1>2, TrackInit, TrackNext, PTL DEF ServerSpec

(* No turn of the loop leaves a quote behind: what of the market maker     *)
(* rests is what its next tick cancels.                                    *)
THEOREM QuotesStayTracked == ServerSpec /\ []PricesFit => []QuotesTracked
<1> QED BY TrackedQuotes, TrackInit, TrackNext, PTL DEF ServerSpec

(* As long as clients bid at least one cent, the bid and the ask of the    *)
(* market maker never meet.                                                *)
THEOREM NeverTradesWithItself ==
    ASSUME PositiveBids
    PROVE  ServerSpec /\ []PricesFit => []NoSelfTrade
<1>1. SpreadInv /\ PricesFit' /\ [ServerNext]_serverVars => SpreadInv'
  BY SpreadNext
<1> QED BY <1>1, ApartNoSelfTrade, SpreadInit, PTL DEF ServerSpec

(* If its fills reach it, the market maker never holds more than its       *)
(* maximal position and less than one quote, long or short.                *)
THEOREM PositionStaysBounded ==
    ASSUME Wired
    PROVE  ServerSpec /\ []PricesFit => []PositionBounded
<1>1. PosInv /\ PricesFit' /\ [ServerNext]_serverVars => PosInv'
  BY PosNext
<1> QED BY <1>1, LimitsBound, PosInit, PTL DEF ServerSpec

LEMMA ServerNextRefines ==
    ASSUME TrackInv, TrackInv', [ServerNext]_serverVars
    PROVE  [Abstract!Next]_(Abstract!abstractVars)
<1>1. ASSUME [Next]_vars PROVE [Abstract!Next]_(Abstract!abstractVars)
  BY <1>1, NextRefines DEF TrackInv, ExInv
<1>2. ASSUME NEW who, NEW o, NEW in, Submit(who, o, in)
      PROVE  [Abstract!Next]_(Abstract!abstractVars)
  <2>1. o \in Order /\ (RejectOrder(o, in) \/ ExSubmitOrder(o, in))
    BY <1>2 DEF Submit
  <2>2. CASE RejectOrder(o, in)
    BY <2>1, <2>2, RejectRefines DEF TrackInv
  <2>3. CASE ExSubmitOrder(o, in)
    BY <2>1, <2>3, SubmitRefines DEF ExSubmitOrder, TrackInv, ExInv
  <2> QED BY <2>1, <2>2, <2>3
<1>3. ASSUME UNCHANGED exVars PROVE [Next]_vars
  BY <1>3 DEF exVars
<1>4. CASE UNCHANGED serverVars \/ Boot \/ MMTick \/ Quote \/ QuotesSubmitted \/ QueueEmpty
  <2>1. UNCHANGED vars
    BY <1>4 DEF serverVars, exVars, Boot, AddSymbol, MMTick, Quote, QuotesSubmitted, QueueEmpty
  <2> QED BY <1>1, <2>1
<1>5. ASSUME NEW s \in Side, NEW from, NEW to, CancelQuote(s, from, to)
      PROVE  [Next]_vars
  <2> DEFINE id == active[s]
             g  == global_order_index[id]
  <2>1. CASE id # NoOrder /\ CanCancel(id)
    <3>1. ExCancelOrder(id)
      BY <1>5, <2>1 DEF CancelQuote
    <3>2. g \in Symbol /\ CancelOrder(g, id) /\ id \in DOMAIN books[g].order_index
      BY <3>1 DEF ExCancelOrder, HasBookFor, CancelOrder, TrackInv, ExInv
    <3> HIDE DEF id, g
    <3>3. id \in OrderId
      <4>1. IsBook(books[g])
        BY <3>2 DEF TrackInv, ExInv, Inv, TypeOK
      <4> QED BY <3>2, <4>1 DEF IsBook, IsMap
    <3> QED BY <3>2, <3>3 DEF Next
  <2>2. CASE ~(id # NoOrder /\ CanCancel(id))
    BY <1>3, <1>5, <2>2 DEF CancelQuote
  <2> QED BY <2>1, <2>2
<1>6. CASE CancelQuote("BUY", "cancel_bid", "cancel_ask")
  BY <1>1, <1>5, <1>6 DEF Side
<1>7. CASE CancelQuote("SELL", "cancel_ask", "quote")
  BY <1>1, <1>5, <1>7 DEF Side
<1>8. CASE SubmitQuote \/ NoiseTick \/ \E o \in ClientOrder, in \in ExtInput : SubmitExternal(o, in)
  <2>1. CASE SubmitQuote
    BY <1>2, <2>1 DEF SubmitQuote
  <2>2. CASE NoiseTick
    <3>1. CASE MidPrice2 = 0
      BY <1>1, <1>3, <2>2, <3>1 DEF NoiseTick
    <3>2. CASE MidPrice2 # 0
      BY <1>2, <2>2, <3>2 DEF NoiseTick
    <3> QED BY <3>1, <3>2
  <2>3. CASE \E o \in ClientOrder, in \in ExtInput : SubmitExternal(o, in)
    BY <1>2, <2>3 DEF SubmitExternal
  <2> QED BY <1>8, <2>1, <2>2, <2>3
<1>9. CASE LoopFill \/ LoopEngine
  <2>1. Next
    BY <1>9 DEF LoopFill, LoopEngine, ExExecuteFill, ExEraseLevel, ExFinish, Next, EngineStep
  <2> QED BY <1>1, <2>1
<1> QED BY <1>4, <1>6, <1>7, <1>8, <1>9 DEF ServerNext

(* The whole server implements price-time priority: the market maker, the  *)
(* random trader and the clients share one market in which every order     *)
(* trades when price and then arrival say.                                 *)
THEOREM ServerImplementsPriority == ServerSpec /\ []PricesFit => ImplementsPriority
<1>1. ServerInit => Abstract!Init
  BY InitRefines DEF ServerInit, ExInit
<1>2. TrackInv /\ TrackInv' /\ [ServerNext]_serverVars => [Abstract!Next]_(Abstract!abstractVars)
  BY ServerNextRefines
<1> QED BY <1>1, <1>2, TrackInit, TrackNext, PTL
           DEF ServerSpec, ImplementsPriority, Abstract!Spec
============================================================================
