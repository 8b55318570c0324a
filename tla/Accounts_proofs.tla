-------------------------- MODULE Accounts_proofs --------------------------
(***************************************************************************)
(* The two places where numbers are kept for an account: the risk engine's *)
(* positions and exposures (RiskEngine), and the inventory, cost, profit   *)
(* and drawdown of a trading agent (Traders).  The theorems hold for any   *)
(* orders, quantities, prices, limits and window sizes.                    *)
(*                                                                         *)
(* Risk engine.  WorstCaseWithinLimits needs to know that what on_cancel   *)
(* gives back is never negative, hence that the exposure of an order never *)
(* falls below 0 by a fill, hence that the exposure is what the market     *)
(* still holds: the invariant is the conjunction with RTypeOK and          *)
(* MarketCovered, with the fact that the limits in force are among those   *)
(* counted, and with the fact that an exposure fits its uint32_t, so that  *)
(* the subtraction of a fill does not wrap around.  CountersAddUp comes    *)
(* from sums over the exposures.                                           *)
(*                                                                         *)
(* Agents.  The doubles of an account are fractions in lowest terms.  What *)
(* is proved of their values goes through Is(x, n, d), "x has the value    *)
(* n/d", which does not mention the greatest common divisor; where two     *)
(* fractions must be equal as they are written, LowestUnique says that     *)
(* equal values in lowest terms are.                                       *)
(***************************************************************************)
EXTENDS RiskEngine, Traders, SumTheorems

(* The limits in force are no wider than the widest ever. *)
LimitsInWidest ==
    \A a \in Account :
        /\ limits[a].max_long_position <= widest[a].max_long_position
        /\ limits[a].max_short_position <= widest[a].max_short_position

(* No exposure is more than a uint32_t holds. *)
ExposuresFit == \A o \in DOMAIN order_exposures : order_exposures[o].qty < U32

RInv == RTypeOK /\ MarketCovered /\ WorstCaseWithinLimits /\ LimitsInWidest /\ ExposuresFit

LEMMA RInitInv == RInit => RInv
  <1> SUFFICES ASSUME RInit PROVE RInv
    OBVIOUS
  <1>1. RTypeOK
    BY LimitsAssumption DEF RInit, RTypeOK
  <1>2. MarketCovered
    BY DEF RInit, MarketCovered
  <1>3. WorstCaseWithinLimits
    BY LimitsAssumption DEF RInit, WorstCaseWithinLimits
  <1>4. LimitsInWidest
    BY LimitsAssumption DEF RInit, LimitsInWidest
  <1>5. ExposuresFit
    BY DEF RInit, ExposuresFit
  <1> QED
    BY <1>1, <1>2, <1>3, <1>4, <1>5 DEF RInv

(* What the numbers of an account are, before a step. *)
LEMMA AccountTypes ==
    ASSUME RTypeOK, NEW a \in Account
    PROVE  /\ position[a] \in Int
           /\ open_buy_qty[a] \in Int
           /\ open_sell_qty[a] \in Int
           /\ limits[a].max_long_position \in Nat
           /\ limits[a].max_short_position \in Nat
           /\ widest[a].max_long_position \in Nat
           /\ widest[a].max_short_position \in Nat
  BY DEF RTypeOK

LEMMA SetLimitsInv ==
    ASSUME RInv, NEW a \in Account, NEW l \in Limits, SetLimits(a, l)
    PROVE  RInv'
  <1>1. /\ l.max_long_position \in Nat
        /\ l.max_short_position \in Nat
        /\ l \in [max_long_position : Nat, max_short_position : Nat]
    BY LimitsAssumption
  <1>2. RTypeOK'
    BY <1>1 DEF RInv, RTypeOK, SetLimits, Wider
  <1>3. MarketCovered'
    BY DEF RInv, MarketCovered, SetLimits
  <1>4. WorstCaseWithinLimits'
    <2> SUFFICES ASSUME NEW b \in Account
                 PROVE  /\ position[b] + open_buy_qty[b] <= widest'[b].max_long_position
                        /\ position[b] - open_sell_qty[b] >= -widest'[b].max_short_position
      BY DEF WorstCaseWithinLimits, SetLimits
    <2>1. /\ widest'[b].max_long_position >= widest[b].max_long_position
          /\ widest'[b].max_short_position >= widest[b].max_short_position
      BY <1>1 DEF RInv, RTypeOK, SetLimits, Wider
    <2>2. /\ position[b] \in Int /\ open_buy_qty[b] \in Int /\ open_sell_qty[b] \in Int
          /\ widest[b].max_long_position \in Nat /\ widest[b].max_short_position \in Nat
          /\ widest'[b].max_long_position \in Nat /\ widest'[b].max_short_position \in Nat
      BY <1>2 DEF RInv, RTypeOK
    <2>3. /\ position[b] + open_buy_qty[b] <= widest[b].max_long_position
          /\ position[b] - open_sell_qty[b] >= -widest[b].max_short_position
      BY DEF RInv, WorstCaseWithinLimits
    <2> QED
      BY <2>1, <2>2, <2>3
  <1>5. LimitsInWidest'
    <2> SUFFICES ASSUME NEW b \in Account
                 PROVE  /\ limits'[b].max_long_position <= widest'[b].max_long_position
                        /\ limits'[b].max_short_position <= widest'[b].max_short_position
      BY DEF LimitsInWidest
    <2>1. CASE b = a
      BY <1>1, <2>1 DEF RInv, RTypeOK, SetLimits, Wider
    <2>2. CASE b # a
      BY <2>2 DEF RInv, RTypeOK, LimitsInWidest, SetLimits
    <2> QED
      BY <2>1, <2>2
  <1>6. ExposuresFit'
    BY DEF RInv, ExposuresFit, SetLimits
  <1> QED
    BY <1>2, <1>3, <1>4, <1>5, <1>6 DEF RInv

LEMMA WithdrawInv ==
    ASSUME RInv, NEW o \in DOMAIN working, Withdraw(o)
    PROVE  RInv'
  <1>1. RTypeOK'
    BY DEF RInv, RTypeOK, Withdraw, Without
  <1>2. MarketCovered'
    BY DEF RInv, MarketCovered, Withdraw, Without
  <1>3. WorstCaseWithinLimits'
    BY DEF RInv, WorstCaseWithinLimits, Withdraw
  <1>4. LimitsInWidest'
    BY DEF RInv, LimitsInWidest, Withdraw
  <1>5. ExposuresFit'
    BY DEF RInv, ExposuresFit, Withdraw
  <1> QED
    BY <1>1, <1>2, <1>3, <1>4, <1>5 DEF RInv

LEMMA CheckOrderInv ==
    ASSUME RInv, NEW o \in Order, NEW a \in Account, NEW side \in RiskSide,
           NEW qty \in Quantity, CheckOrder(o, a, side, qty)
    PROVE  RInv'
  <1>1. qty \in Nat
    BY QuantityAssumption
  <1>2. RTypeOK'
    <2>1. open_buy_qty' \in [Account -> Int] /\ open_sell_qty' \in [Account -> Int]
      BY <1>1 DEF RInv, RTypeOK, CheckOrder, Added
    <2>2. /\ DOMAIN order_exposures' \subseteq Order
          /\ order_exposures' \in [DOMAIN order_exposures' ->
                                     [qty : Nat, side : RiskSide, account : Account]]
      BY <1>1 DEF RInv, RTypeOK, CheckOrder, Assign
    <2>3. DOMAIN working' \subseteq Order /\ working' \in [DOMAIN working' -> Nat]
      BY <1>1 DEF RInv, RTypeOK, CheckOrder, Assign
    <2> QED
      BY <2>1, <2>2, <2>3 DEF RInv, RTypeOK, CheckOrder
  <1>3. MarketCovered'
    BY DEF RInv, MarketCovered, CheckOrder, Assign
  <1>4. WorstCaseWithinLimits'
    <2> SUFFICES ASSUME NEW b \in Account
                 PROVE  /\ position[b] + open_buy_qty'[b] <= widest[b].max_long_position
                        /\ position[b] - open_sell_qty'[b] >= -widest[b].max_short_position
      BY DEF WorstCaseWithinLimits, CheckOrder
    <2>1. /\ position[b] + open_buy_qty[b] <= widest[b].max_long_position
          /\ position[b] - open_sell_qty[b] >= -widest[b].max_short_position
          /\ limits[b].max_long_position <= widest[b].max_long_position
          /\ limits[b].max_short_position <= widest[b].max_short_position
      BY DEF RInv, WorstCaseWithinLimits, LimitsInWidest
    <2>2. open_buy_qty'[b] = IF side = "BUY" /\ b = a THEN open_buy_qty[b] + qty
                             ELSE open_buy_qty[b]
      BY DEF RInv, RTypeOK, CheckOrder, Added
    <2>3. open_sell_qty'[b] = IF side = "SELL" /\ b = a THEN open_sell_qty[b] + qty
                              ELSE open_sell_qty[b]
      BY DEF RInv, RTypeOK, CheckOrder, Added
    <2>4. /\ side = "BUY" => position[a] + open_buy_qty[a] + qty
                               <= limits[a].max_long_position
          /\ side # "BUY" => position[a] - open_sell_qty[a] - qty
                               >= -limits[a].max_short_position
      BY DEF CheckOrder, Admits
    <2>5. RTypeOK
      BY DEF RInv
    <2> QED
      BY <1>1, <2>1, <2>2, <2>3, <2>4, <2>5, AccountTypes
  <1>5. LimitsInWidest'
    BY DEF RInv, LimitsInWidest, CheckOrder
  <1>6. ExposuresFit'
    BY QuantityAssumption DEF RInv, ExposuresFit, CheckOrder, Assign
  <1> QED
    BY <1>2, <1>3, <1>4, <1>5, <1>6 DEF RInv

(* What Freed returns for the exposure e of some order. *)
LEMMA FreedValue ==
    ASSUME RTypeOK, NEW e \in [qty : Nat, side : RiskSide, account : Account]
    PROVE  /\ Freed("BUY", e) \in [Account -> Int]
           /\ Freed("SELL", e) \in [Account -> Int]
           /\ \A b \in Account :
                 /\ Freed("BUY", e)[b] = IF e.side = "BUY" /\ b = e.account
                                         THEN open_buy_qty[b] - e.qty
                                         ELSE open_buy_qty[b]
                 /\ Freed("SELL", e)[b] = IF e.side = "SELL" /\ b = e.account
                                          THEN open_sell_qty[b] - e.qty
                                          ELSE open_sell_qty[b]
  <1>1. e.qty \in Nat /\ e.side \in RiskSide /\ e.account \in Account
    OBVIOUS
  <1>2. open_buy_qty \in [Account -> Int] /\ open_sell_qty \in [Account -> Int]
    BY DEF RTypeOK
  <1> QED
    BY <1>1, <1>2 DEF Freed, RiskSide

(* A fill is of at most what is left, so its subtraction does not wrap.    *)
LEMMA FillDoesNotWrap ==
    ASSUME RInv, NEW o \in DOMAIN working, NEW qty \in 1..working[o]
    PROVE  ExposuresAfter(o, qty) =
              IF order_exposures[o].qty - qty <= 0 THEN Without(order_exposures, o)
              ELSE [order_exposures EXCEPT ![o].qty = order_exposures[o].qty - qty]
<1> DEFINE n == order_exposures[o].qty
<1>1. n \in Nat /\ n < U32 /\ qty \in 1..n
  BY DEF RInv, RTypeOK, MarketCovered, ExposuresFit
<1> HIDE DEF n
<1>2. (n - qty) % U32 = n - qty
  BY <1>1, QuantityAssumption
<1> QED BY <1>2, Zenon DEF n, ExposuresAfter

LEMMA OnFillInv ==
    ASSUME RInv, NEW o \in DOMAIN working, NEW qty \in 1..working[o], OnFill(o, qty)
    PROVE  RInv'
  <1> DEFINE e == order_exposures[o]
             f == [e EXCEPT !.qty = qty]
  <1>1. /\ RTypeOK /\ o \in DOMAIN order_exposures
        /\ working[o] \in Nat /\ e.qty = working[o]
        /\ e \in [qty : Nat, side : RiskSide, account : Account]
    BY DEF RInv, RTypeOK, MarketCovered
  <1>2. /\ qty \in Nat /\ qty >= 1 /\ qty <= e.qty
        /\ f \in [qty : Nat, side : RiskSide, account : Account]
        /\ f.qty = qty /\ f.side = e.side /\ f.account = e.account
    BY <1>1
  <1>3. /\ position' = [position EXCEPT ![e.account] =
                           IF e.side = "BUY" THEN @ + qty ELSE @ - qty]
        /\ open_buy_qty' = Freed("BUY", f)
        /\ open_sell_qty' = Freed("SELL", f)
    BY DEF OnFill
  <1> HIDE DEF f
  <1>4. RTypeOK'
    <2>1. position' \in [Account -> Int]
      BY <1>1, <1>2, <1>3 DEF RTypeOK
    <2>2. open_buy_qty' \in [Account -> Int] /\ open_sell_qty' \in [Account -> Int]
      BY <1>1, <1>2, <1>3, FreedValue
    <2>3. /\ DOMAIN order_exposures' \subseteq Order
          /\ order_exposures' \in [DOMAIN order_exposures' ->
                                     [qty : Nat, side : RiskSide, account : Account]]
      <3>1. order_exposures' = IF e.qty - qty <= 0 THEN Without(order_exposures, o)
                               ELSE [order_exposures EXCEPT ![o].qty = e.qty - qty]
        BY FillDoesNotWrap DEF OnFill
      <3>2. e.qty - qty \in Nat
        BY <1>1, <1>2
      <3>3. CASE e.qty - qty <= 0
        BY <1>1, <3>1, <3>3 DEF RTypeOK, Without
      <3>4. CASE ~(e.qty - qty <= 0)
        BY <1>1, <3>1, <3>2, <3>4 DEF RTypeOK
      <3> QED BY <3>3, <3>4
    <2>4. DOMAIN working' \subseteq Order /\ working' \in [DOMAIN working' -> Nat]
      BY <1>1, <1>2 DEF RTypeOK, OnFill, Without
    <2> QED
      BY <1>1, <2>1, <2>2, <2>3, <2>4 DEF RTypeOK, OnFill
  <1>5. MarketCovered'
    <2>1. working[o] = qty <=> e.qty - qty <= 0
      BY <1>1, <1>2
    <2>2. CASE working[o] = qty
      <3>1. working' = Without(working, o) /\ order_exposures' = Without(order_exposures, o)
        BY <2>1, <2>2, FillDoesNotWrap DEF OnFill
      <3> QED
        BY <3>1 DEF RInv, MarketCovered, Without
    <2>3. CASE working[o] # qty
      <3>1. /\ working' = [working EXCEPT ![o] = working[o] - qty]
            /\ order_exposures' = [order_exposures EXCEPT ![o].qty = e.qty - qty]
        BY <2>1, <2>3, FillDoesNotWrap DEF OnFill
      <3>2. /\ DOMAIN working' = DOMAIN working
            /\ DOMAIN order_exposures' = DOMAIN order_exposures
            /\ working'[o] = working[o] - qty
            /\ order_exposures'[o] = [e EXCEPT !.qty = e.qty - qty]
        BY <1>1, <3>1
      <3>3. order_exposures'[o].qty = working'[o]
        BY <1>1, <3>2
      <3>4. \A x \in DOMAIN working : x # o =>
               /\ x \in DOMAIN order_exposures
               /\ order_exposures'[x] = order_exposures[x]
               /\ working'[x] = working[x]
        BY <3>1 DEF RInv, MarketCovered
      <3> QED
        BY <1>1, <3>2, <3>3, <3>4 DEF RInv, MarketCovered
    <2> QED
      BY <2>2, <2>3
  <1>6. WorstCaseWithinLimits'
    <2> SUFFICES ASSUME NEW b \in Account
                 PROVE  /\ position'[b] + open_buy_qty'[b] <= widest[b].max_long_position
                        /\ position'[b] - open_sell_qty'[b] >= -widest[b].max_short_position
      BY DEF WorstCaseWithinLimits, OnFill
    <2>1. /\ position[b] + open_buy_qty[b] <= widest[b].max_long_position
          /\ position[b] - open_sell_qty[b] >= -widest[b].max_short_position
      BY DEF RInv, WorstCaseWithinLimits
    <2>2. /\ open_buy_qty'[b] = IF e.side = "BUY" /\ b = e.account
                                THEN open_buy_qty[b] - qty ELSE open_buy_qty[b]
          /\ open_sell_qty'[b] = IF e.side = "SELL" /\ b = e.account
                                 THEN open_sell_qty[b] - qty ELSE open_sell_qty[b]
      BY <1>1, <1>2, <1>3, FreedValue
    <2>3. position'[b] = IF b # e.account THEN position[b]
                         ELSE IF e.side = "BUY" THEN position[b] + qty
                         ELSE position[b] - qty
      BY <1>1, <1>3 DEF RTypeOK
    <2>4. e.side \in RiskSide
      BY <1>1
    <2> HIDE DEF e
    <2> QED
      BY <1>1, <1>2, <2>1, <2>2, <2>3, <2>4, AccountTypes DEF RiskSide
  <1>7. LimitsInWidest'
    BY DEF RInv, LimitsInWidest, OnFill
  <1>8. ExposuresFit'
    <2>1. order_exposures' = IF e.qty - qty <= 0 THEN Without(order_exposures, o)
                             ELSE [order_exposures EXCEPT ![o].qty = e.qty - qty]
      BY FillDoesNotWrap DEF OnFill
    <2>2. ASSUME NEW x \in DOMAIN order_exposures'
          PROVE  order_exposures'[x].qty < U32
      <3>1. /\ x \in DOMAIN order_exposures
            /\ order_exposures[x] \in [qty : Nat, side : RiskSide, account : Account]
            /\ order_exposures[x].qty < U32
        BY <1>1, <2>1 DEF RInv, ExposuresFit, RTypeOK, Without
      <3>2. \/ order_exposures'[x] = order_exposures[x]
            \/ x = o /\ order_exposures'[x].qty = e.qty - qty
        BY <1>1, <2>1, <3>1 DEF Without
      <3> QED BY <1>2, <3>1, <3>2, QuantityAssumption
    <2> QED BY <2>2 DEF ExposuresFit
  <1> QED
    BY <1>4, <1>5, <1>6, <1>7, <1>8 DEF RInv

LEMMA OnCancelInv ==
    ASSUME RInv, NEW o \in DOMAIN order_exposures, OnCancel(o)
    PROVE  RInv'
  <1> DEFINE e == order_exposures[o]
  <1>1. RTypeOK /\ e \in [qty : Nat, side : RiskSide, account : Account]
    BY DEF RInv, RTypeOK
  <1>2. open_buy_qty' = Freed("BUY", e) /\ open_sell_qty' = Freed("SELL", e)
    BY DEF OnCancel
  <1>3. e.qty \in Nat
    BY <1>1
  <1>4. RTypeOK'
    <2>1. open_buy_qty' \in [Account -> Int] /\ open_sell_qty' \in [Account -> Int]
      BY <1>1, <1>2, FreedValue
    <2>2. /\ DOMAIN order_exposures' \subseteq Order
          /\ order_exposures' \in [DOMAIN order_exposures' ->
                                     [qty : Nat, side : RiskSide, account : Account]]
      BY <1>1 DEF RTypeOK, OnCancel, Without
    <2> QED
      BY <1>1, <2>1, <2>2 DEF RTypeOK, OnCancel
  <1>5. MarketCovered'
    BY DEF RInv, MarketCovered, OnCancel, Without
  <1>6. WorstCaseWithinLimits'
    <2> SUFFICES ASSUME NEW b \in Account
                 PROVE  /\ position[b] + open_buy_qty'[b] <= widest[b].max_long_position
                        /\ position[b] - open_sell_qty'[b] >= -widest[b].max_short_position
      BY DEF WorstCaseWithinLimits, OnCancel
    <2>1. /\ position[b] + open_buy_qty[b] <= widest[b].max_long_position
          /\ position[b] - open_sell_qty[b] >= -widest[b].max_short_position
      BY DEF RInv, WorstCaseWithinLimits
    <2>2. /\ open_buy_qty'[b] = IF e.side = "BUY" /\ b = e.account
                                THEN open_buy_qty[b] - e.qty ELSE open_buy_qty[b]
          /\ open_sell_qty'[b] = IF e.side = "SELL" /\ b = e.account
                                 THEN open_sell_qty[b] - e.qty ELSE open_sell_qty[b]
      BY <1>1, <1>2, FreedValue
    <2> HIDE DEF e
    <2> QED
      BY <1>1, <1>3, <2>1, <2>2, AccountTypes
  <1>7. LimitsInWidest'
    BY DEF RInv, LimitsInWidest, OnCancel
  <1>8. ExposuresFit'
    BY DEF RInv, ExposuresFit, OnCancel, Without
  <1> QED
    BY <1>4, <1>5, <1>6, <1>7, <1>8 DEF RInv

(* Every call of the risk engine and every step of the market respects it. *)
THEOREM RiskInvariance == RSpec => []RInv
  <1>1. RInit => RInv
    BY RInitInv
  <1>2. RInv /\ [RNext]_riskVars => RInv'
    <2> SUFFICES ASSUME RInv, [RNext]_riskVars PROVE RInv'
      OBVIOUS
    <2>1. CASE UNCHANGED riskVars
      BY <2>1 DEF RInv, RTypeOK, MarketCovered, WorstCaseWithinLimits,
                  LimitsInWidest, ExposuresFit, riskVars
    <2>2. ASSUME NEW a \in Account, NEW l \in Limits, SetLimits(a, l) PROVE RInv'
      BY <2>2, SetLimitsInv
    <2>3. ASSUME NEW o \in Order, NEW a \in Account, NEW side \in RiskSide,
                 NEW qty \in Quantity, CheckOrder(o, a, side, qty)
          PROVE  RInv'
      BY <2>3, CheckOrderInv
    <2>4. ASSUME NEW o \in DOMAIN working, Withdraw(o) PROVE RInv'
      BY <2>4, WithdrawInv
    <2>5. ASSUME NEW o \in DOMAIN working, NEW qty \in 1..working[o], OnFill(o, qty)
          PROVE  RInv'
      BY <2>5, OnFillInv
    <2>6. ASSUME NEW o \in DOMAIN order_exposures, OnCancel(o) PROVE RInv'
      BY <2>6, OnCancelInv
    <2> QED
      BY <2>1, <2>2, <2>3, <2>4, <2>5, <2>6 DEF RNext
  <1> QED
    BY <1>1, <1>2, PTL DEF RSpec

(* check_order admits nothing that could, with everything else that is     *)
(* open, take an account beyond the widest limits it was given.            *)
THEOREM WorstCaseBounded == RSpec => []WorstCaseWithinLimits
  <1>1. RInv => WorstCaseWithinLimits
    BY DEF RInv
  <1> QED
    BY <1>1, RiskInvariance, PTL

(* Every order in the market is on the books of the risk engine with       *)
(* exactly the shares it may still trade.                                  *)
THEOREM ExposureCoversMarket == RSpec => []MarketCovered
  <1>1. RInv => MarketCovered
    BY DEF RInv
  <1> QED
    BY <1>1, RiskInvariance, PTL

----------------------------------------------------------------------------
(* The counters. *)

Exposure == [qty : Nat, side : RiskSide, account : Account]

(* A finite map from orders to exposures. *)
IsExposures(ex) == IsFiniteSet(DOMAIN ex) /\ ex \in [DOMAIN ex -> Exposure]

(* What exposure e counts on a side of an account. *)
Share(e, a, side) == IF e.account = a /\ e.side = side THEN e.qty ELSE 0

(* The summands of OpenOn and the orders it sums over. *)
Qty(ex) == [o \in DOMAIN ex |-> ex[o].qty]
Exposed(ex, a, side) == {o \in DOMAIN ex : ex[o].account = a /\ ex[o].side = side}

LEMMA OpenOnParts ==
    ASSUME NEW ex, IsExposures(ex), NEW a, NEW side
    PROVE  /\ OpenOn(ex, a, side) = SumFunctionOnSet(Qty(ex), Exposed(ex, a, side))
           /\ IsFiniteSet(Exposed(ex, a, side))
           /\ \A o \in DOMAIN ex : Qty(ex)[o] \in Int /\ Qty(ex)[o] = ex[o].qty
           /\ OpenOn(ex, a, side) \in Int
  <1>1. OpenOn(ex, a, side) = SumFunctionOnSet(Qty(ex), Exposed(ex, a, side))
    BY Zenon DEF OpenOn, Qty, Exposed
  <1>2. Exposed(ex, a, side) \in SUBSET DOMAIN ex
    BY DEF Exposed
  <1>3. IsFiniteSet(Exposed(ex, a, side))
    BY <1>2, FS_Subset DEF IsExposures
  <1>4. \A o \in DOMAIN ex : Qty(ex)[o] \in Int /\ Qty(ex)[o] = ex[o].qty
    BY DEF IsExposures, Exposure, Qty
  <1> QED
    BY <1>1, <1>2, <1>3, <1>4, SumType

(* check_order records an exposure. *)
LEMMA OpenOnAdd ==
    ASSUME NEW ex, IsExposures(ex), NEW o, o \notin DOMAIN ex,
           NEW e \in Exposure, NEW a, NEW side
    PROVE  /\ IsExposures(Assign(ex, o, e))
           /\ OpenOn(Assign(ex, o, e), a, side) = OpenOn(ex, a, side) + Share(e, a, side)
  <1> DEFINE new == Assign(ex, o, e)
             S == Exposed(ex, a, side)
             T == Exposed(new, a, side)
  <1>1. /\ DOMAIN new = DOMAIN ex \union {o} /\ new[o] = e
        /\ \A x \in DOMAIN ex : new[x] = ex[x]
    BY DEF Assign
  <1>2. IsExposures(new)
    <2>1. IsFiniteSet(DOMAIN new)
      BY <1>1, FS_AddElement DEF IsExposures
    <2>2. new \in [DOMAIN new -> Exposure]
      BY DEF Assign, IsExposures
    <2> QED BY <2>1, <2>2 DEF IsExposures
  <1> HIDE DEF new
  <1>3. T = IF e.account = a /\ e.side = side THEN S \union {o} ELSE S
    BY <1>1 DEF Exposed
  <1>4. o \notin S /\ S \subseteq DOMAIN ex /\ S \subseteq DOMAIN new /\ o \in DOMAIN new
    BY <1>1 DEF Exposed
  <1>5. /\ OpenOn(ex, a, side) = SumFunctionOnSet(Qty(ex), S)
        /\ OpenOn(new, a, side) = SumFunctionOnSet(Qty(new), T)
        /\ IsFiniteSet(S) /\ OpenOn(ex, a, side) \in Int
        /\ \A x \in DOMAIN new : Qty(new)[x] \in Int /\ Qty(new)[x] = new[x].qty
        /\ \A x \in DOMAIN ex : Qty(ex)[x] \in Int /\ Qty(ex)[x] = ex[x].qty
    BY <1>2, OpenOnParts
  <1> HIDE DEF S, T
  <1>6. SumFunctionOnSet(Qty(new), S) = SumFunctionOnSet(Qty(ex), S)
    BY <1>1, <1>4, <1>5, SumSame
  <1>7. SumFunctionOnSet(Qty(new), S \union {o}) = SumFunctionOnSet(Qty(new), S) + e.qty
    <2>1. (\A y \in S : Qty(new)[y] \in Int) /\ Qty(new)[o] \in Int
      BY <1>4, <1>5
    <2>2. Qty(new)[o] = e.qty
      BY <1>1, <1>4, <1>5
    <2>3. SumFunctionOnSet(Qty(new), S \union {o})
             = SumFunctionOnSet(Qty(new), S) + Qty(new)[o]
      BY <1>4, <1>5, <2>1, SumAdd
    <2> QED BY <2>2, <2>3
  <1>8. OpenOn(new, a, side) = OpenOn(ex, a, side) + Share(e, a, side)
    <2>1. CASE e.account = a /\ e.side = side
      BY <1>3, <1>5, <1>6, <1>7, <2>1 DEF Share
    <2>2. CASE ~(e.account = a /\ e.side = side)
      BY <1>3, <1>5, <1>6, <2>2 DEF Share
    <2> QED BY <2>1, <2>2
  <1> QED
    BY <1>2, <1>8 DEF new

(* An exposure that is used up or cancelled is dropped. *)
LEMMA OpenOnDrop ==
    ASSUME NEW ex, IsExposures(ex), NEW o \in DOMAIN ex, NEW a, NEW side
    PROVE  /\ IsExposures(Without(ex, o))
           /\ OpenOn(Without(ex, o), a, side) = OpenOn(ex, a, side) - Share(ex[o], a, side)
  <1> DEFINE new == Without(ex, o)
             S == Exposed(ex, a, side)
             T == Exposed(new, a, side)
  <1>1. /\ DOMAIN new = DOMAIN ex \ {o}
        /\ \A x \in DOMAIN new : new[x] = ex[x]
    BY DEF Without
  <1>2. IsExposures(new)
    <2>1. IsFiniteSet(DOMAIN new)
      BY <1>1, FS_RemoveElement DEF IsExposures
    <2>2. new \in [DOMAIN new -> Exposure]
      BY DEF Without, IsExposures
    <2> QED BY <2>1, <2>2 DEF IsExposures
  <1> HIDE DEF new
  <1>3. T = IF ex[o].account = a /\ ex[o].side = side THEN S \ {o} ELSE S
    BY <1>1 DEF Exposed
  <1>4. /\ S \subseteq DOMAIN ex /\ T \subseteq DOMAIN new /\ T \subseteq DOMAIN ex
        /\ ex[o].account = a /\ ex[o].side = side => o \in S
    BY <1>1 DEF Exposed
  <1>5. /\ OpenOn(ex, a, side) = SumFunctionOnSet(Qty(ex), S)
        /\ OpenOn(new, a, side) = SumFunctionOnSet(Qty(new), T)
        /\ IsFiniteSet(S) /\ IsFiniteSet(T) /\ OpenOn(ex, a, side) \in Int
        /\ \A x \in DOMAIN new : Qty(new)[x] \in Int /\ Qty(new)[x] = new[x].qty
        /\ \A x \in DOMAIN ex : Qty(ex)[x] \in Int /\ Qty(ex)[x] = ex[x].qty
    BY <1>2, OpenOnParts
  <1> HIDE DEF S, T
  <1>6. SumFunctionOnSet(Qty(new), T) = SumFunctionOnSet(Qty(ex), T)
    <2>1. \A x \in T : Qty(ex)[x] \in Int /\ Qty(new)[x] = Qty(ex)[x]
      BY <1>1, <1>4, <1>5
    <2> QED BY <1>5, <2>1, SumSame
  <1>7. /\ SumFunctionOnSet(Qty(ex), T) \in Int
        /\ Qty(ex)[o] \in Int /\ Qty(ex)[o] = ex[o].qty
    BY <1>4, <1>5, SumType
  <1>8. OpenOn(new, a, side) = OpenOn(ex, a, side) - Share(ex[o], a, side)
    <2>1. CASE ex[o].account = a /\ ex[o].side = side
      <3>1. SumFunctionOnSet(Qty(ex), S) = Qty(ex)[o] + SumFunctionOnSet(Qty(ex), T)
        <4>1. SumFunctionOnSet(Qty(ex), S) = Qty(ex)[o] + SumFunctionOnSet(Qty(ex), S \ {o})
          BY <1>4, <1>5, <2>1, SumRemove
        <4> QED BY <1>3, <2>1, <4>1
      <3> QED BY <1>5, <1>6, <1>7, <2>1, <3>1 DEF Share
    <2>2. CASE ~(ex[o].account = a /\ ex[o].side = side)
      <3>1. T = S
        BY <1>3, <2>2
      <3> QED BY <1>5, <1>6, <2>2, <3>1 DEF Share
    <2> QED BY <2>1, <2>2
  <1> QED
    BY <1>2, <1>8 DEF new

(* A partial fill takes its shares out of an exposure. *)
LEMMA OpenOnReduce ==
    ASSUME NEW ex, IsExposures(ex), NEW o \in DOMAIN ex, NEW q \in Nat,
           q <= ex[o].qty, NEW a, NEW side
    PROVE  /\ IsExposures([ex EXCEPT ![o].qty = ex[o].qty - q])
           /\ OpenOn([ex EXCEPT ![o].qty = ex[o].qty - q], a, side)
                 = OpenOn(ex, a, side) - Share([ex[o] EXCEPT !.qty = q], a, side)
  <1> DEFINE new == [ex EXCEPT ![o].qty = ex[o].qty - q]
             S == Exposed(ex, a, side)
  <1>0. ex[o] \in Exposure /\ ex[o].qty \in Nat
    BY DEF IsExposures, Exposure
  <1>1. /\ DOMAIN new = DOMAIN ex
        /\ new[o] = [ex[o] EXCEPT !.qty = ex[o].qty - q]
        /\ \A x \in DOMAIN ex : x # o => new[x] = ex[x]
    BY DEF IsExposures
  <1>2. /\ new[o].qty = ex[o].qty - q /\ new[o] \in Exposure
        /\ new[o].account = ex[o].account /\ new[o].side = ex[o].side
    BY <1>0, <1>1 DEF Exposure
  <1>3. IsExposures(new)
    <2>1. \A x \in DOMAIN ex : ex[x] \in Exposure /\ new[x] \in Exposure
      BY <1>1, <1>2 DEF IsExposures
    <2>2. new = [x \in DOMAIN new |-> new[x]]
      BY DEF IsExposures
    <2> HIDE DEF new
    <2>3. new \in [DOMAIN new -> Exposure]
      BY <1>1, <2>1, <2>2
    <2> QED BY <1>1, <2>3 DEF IsExposures
  <1>4. Share([ex[o] EXCEPT !.qty = q], a, side)
           = IF ex[o].account = a /\ ex[o].side = side THEN q ELSE 0
    BY <1>0 DEF Share, Exposure
  <1> HIDE DEF new
  <1>5. Exposed(new, a, side) = S
    BY <1>1, <1>2 DEF Exposed
  <1>6. /\ S \subseteq DOMAIN ex
        /\ ex[o].account = a /\ ex[o].side = side <=> o \in S
    BY DEF Exposed
  <1>7. /\ OpenOn(ex, a, side) = SumFunctionOnSet(Qty(ex), S)
        /\ OpenOn(new, a, side) = SumFunctionOnSet(Qty(new), S)
        /\ IsFiniteSet(S) /\ OpenOn(ex, a, side) \in Int
        /\ \A x \in DOMAIN ex : Qty(new)[x] \in Int /\ Qty(new)[x] = new[x].qty
        /\ \A x \in DOMAIN ex : Qty(ex)[x] \in Int /\ Qty(ex)[x] = ex[x].qty
    BY <1>1, <1>3, <1>5, OpenOnParts
  <1> HIDE DEF S
  <1>8. CASE o \in S
    <2>1. SumFunctionOnSet(Qty(new), S)
             = SumFunctionOnSet(Qty(ex), S) + (Qty(new)[o] - Qty(ex)[o])
      <3>1. /\ \A y \in S : Qty(ex)[y] \in Int /\ Qty(new)[y] \in Int
            /\ \A y \in S : y # o => Qty(new)[y] = Qty(ex)[y]
        BY <1>1, <1>6, <1>7
      <3> QED BY <1>7, <1>8, <3>1, SumChange
    <2>2. Qty(new)[o] - Qty(ex)[o] = -q
      BY <1>0, <1>2, <1>7
    <2>3. OpenOn(new, a, side) = OpenOn(ex, a, side) - q
      BY <1>7, <2>1, <2>2
    <2> QED BY <1>3, <1>4, <1>6, <1>8, <2>3 DEF new
  <1>9. CASE o \notin S
    <2>1. SumFunctionOnSet(Qty(new), S) = SumFunctionOnSet(Qty(ex), S)
      BY <1>1, <1>6, <1>7, <1>9, SumSame
    <2>2. OpenOn(new, a, side) = OpenOn(ex, a, side) - 0
      BY <1>7, <2>1
    <2> QED BY <1>3, <1>4, <1>6, <1>9, <2>2 DEF new
  <1> QED
    BY <1>8, <1>9

(* What CountersAddUp needs besides RInv: the sums are finite, and an      *)
(* order is on record only if it was approved, so check_order never        *)
(* overwrites an exposure.                                                 *)
CInv ==
    /\ CountersAddUp
    /\ IsFiniteSet(DOMAIN order_exposures)
    /\ DOMAIN order_exposures \subseteq approved

LEMMA CInvStep ==
    ASSUME RInv, CInv, [RNext]_riskVars
    PROVE  CInv'
  <1>0. IsExposures(order_exposures) /\ RTypeOK
    BY DEF RInv, RTypeOK, CInv, IsExposures, Exposure
  <1>1. ASSUME UNCHANGED <<open_buy_qty, open_sell_qty, order_exposures, approved>>
        PROVE  CInv'
    BY <1>1 DEF CInv, CountersAddUp
  <1>2. ASSUME NEW o \in Order, NEW a \in Account, NEW side \in RiskSide,
               NEW qty \in Quantity, CheckOrder(o, a, side, qty)
        PROVE  CInv'
    <2> DEFINE e == [qty |-> qty, side |-> side, account |-> a]
    <2>1. e \in Exposure /\ e.qty = qty /\ e.side = side /\ e.account = a /\ qty \in Nat
      BY QuantityAssumption DEF Exposure
    <2>2. /\ order_exposures' = Assign(order_exposures, o, e)
          /\ approved' = approved \union {o} /\ o \notin DOMAIN order_exposures
      BY <1>2 DEF CheckOrder, CInv
    <2> HIDE DEF e
    <2>3. IsExposures(order_exposures')
      BY <1>0, <2>1, <2>2, OpenOnAdd
    <2>4. ASSUME NEW b \in Account
          PROVE  /\ open_buy_qty'[b] = OpenOn(order_exposures', b, "BUY")
                 /\ open_sell_qty'[b] = OpenOn(order_exposures', b, "SELL")
      <3>1. /\ OpenOn(order_exposures', b, "BUY")
                  = OpenOn(order_exposures, b, "BUY") + Share(e, b, "BUY")
            /\ OpenOn(order_exposures', b, "SELL")
                  = OpenOn(order_exposures, b, "SELL") + Share(e, b, "SELL")
        BY <1>0, <2>1, <2>2, OpenOnAdd
      <3>2. /\ open_buy_qty[b] = OpenOn(order_exposures, b, "BUY")
            /\ open_sell_qty[b] = OpenOn(order_exposures, b, "SELL")
            /\ open_buy_qty[b] \in Int /\ open_sell_qty[b] \in Int
        BY <1>0, AccountTypes DEF CInv, CountersAddUp
      <3>3. open_buy_qty'[b] = IF side = "BUY" /\ b = a THEN open_buy_qty[b] + qty
                               ELSE open_buy_qty[b]
        BY <1>0, <1>2 DEF RTypeOK, CheckOrder, Added
      <3>4. open_sell_qty'[b] = IF side = "SELL" /\ b = a THEN open_sell_qty[b] + qty
                                ELSE open_sell_qty[b]
        BY <1>0, <1>2 DEF RTypeOK, CheckOrder, Added
      <3>5. open_buy_qty'[b] = open_buy_qty[b] + Share(e, b, "BUY")
        BY <2>1, <3>2, <3>3 DEF Share
      <3>6. open_sell_qty'[b] = open_sell_qty[b] + Share(e, b, "SELL")
        BY <2>1, <3>2, <3>4 DEF Share
      <3> QED BY <3>1, <3>2, <3>5, <3>6
    <2> QED
      BY <2>2, <2>3, <2>4 DEF CInv, CountersAddUp, Assign, IsExposures
  <1>3. ASSUME NEW e \in Exposure,
               open_buy_qty' = Freed("BUY", e), open_sell_qty' = Freed("SELL", e),
               IsExposures(order_exposures'),
               \A b \in Account, s \in RiskSide :
                  OpenOn(order_exposures', b, s)
                     = OpenOn(order_exposures, b, s) - Share(e, b, s),
               DOMAIN order_exposures' \subseteq DOMAIN order_exposures,
               approved' = approved
        PROVE  CInv'
    <2>1. ASSUME NEW b \in Account
          PROVE  /\ open_buy_qty'[b] = OpenOn(order_exposures', b, "BUY")
                 /\ open_sell_qty'[b] = OpenOn(order_exposures', b, "SELL")
      <3>1. /\ open_buy_qty'[b] = IF e.side = "BUY" /\ b = e.account
                                  THEN open_buy_qty[b] - e.qty ELSE open_buy_qty[b]
            /\ open_sell_qty'[b] = IF e.side = "SELL" /\ b = e.account
                                   THEN open_sell_qty[b] - e.qty ELSE open_sell_qty[b]
        BY <1>0, <1>3, FreedValue DEF Exposure
      <3>2. /\ open_buy_qty[b] = OpenOn(order_exposures, b, "BUY")
            /\ open_sell_qty[b] = OpenOn(order_exposures, b, "SELL")
            /\ open_buy_qty[b] \in Int /\ open_sell_qty[b] \in Int
        BY <1>0, AccountTypes DEF CInv, CountersAddUp
      <3>3. /\ open_buy_qty'[b] = open_buy_qty[b] - Share(e, b, "BUY")
            /\ open_sell_qty'[b] = open_sell_qty[b] - Share(e, b, "SELL")
        BY <3>1, <3>2 DEF Share
      <3> QED BY <1>3, <3>2, <3>3 DEF RiskSide
    <2> QED
      BY <1>3, <2>1 DEF CInv, CountersAddUp, IsExposures
  <1>4. ASSUME NEW o \in DOMAIN working, NEW qty \in 1..working[o], OnFill(o, qty)
        PROVE  CInv'
    <2> DEFINE e == order_exposures[o]
               f == [e EXCEPT !.qty = qty]
    <2>1. /\ o \in DOMAIN order_exposures /\ working[o] \in Nat /\ e.qty = working[o]
          /\ e \in Exposure
      BY DEF RInv, RTypeOK, MarketCovered, Exposure
    <2>2. /\ qty \in Nat /\ qty <= e.qty /\ f \in Exposure /\ e.qty \in Nat
      BY <2>1 DEF Exposure
    <2>3. /\ open_buy_qty' = Freed("BUY", f) /\ open_sell_qty' = Freed("SELL", f)
          /\ order_exposures' = ExposuresAfter(o, qty) /\ approved' = approved
      BY <1>4 DEF OnFill
    <2>4. CASE e.qty - qty <= 0
      <3>1. order_exposures' = Without(order_exposures, o)
        BY <1>4, <2>3, <2>4, FillDoesNotWrap
      <3>2. f = e
        BY <2>1, <2>2, <2>4 DEF Exposure
      <3>3. DOMAIN order_exposures' \subseteq DOMAIN order_exposures
        BY <3>1 DEF Without
      <3>4. IsExposures(order_exposures')
        BY <1>0, <2>1, <3>1, OpenOnDrop
      <3>5. \A b \in Account, s \in RiskSide :
               OpenOn(order_exposures', b, s)
                  = OpenOn(order_exposures, b, s) - Share(f, b, s)
        BY <1>0, <2>1, <3>1, <3>2, OpenOnDrop
      <3> HIDE DEF f
      <3> QED BY <1>3, <2>2, <2>3, <3>3, <3>4, <3>5
    <2>5. CASE ~(e.qty - qty <= 0)
      <3>1. order_exposures' = [order_exposures EXCEPT ![o].qty = order_exposures[o].qty - qty]
        BY <1>4, <2>3, <2>5, FillDoesNotWrap
      <3>2. DOMAIN order_exposures' \subseteq DOMAIN order_exposures
        BY <3>1
      <3>3. IsExposures(order_exposures')
        BY <1>0, <2>1, <2>2, <3>1, OpenOnReduce
      <3>4. \A b \in Account, s \in RiskSide :
               OpenOn(order_exposures', b, s)
                  = OpenOn(order_exposures, b, s) - Share(f, b, s)
        <4> TAKE b \in Account, s \in RiskSide
        <4>1. OpenOn([order_exposures EXCEPT ![o].qty = order_exposures[o].qty - qty], b, s)
                 = OpenOn(order_exposures, b, s)
                     - Share([order_exposures[o] EXCEPT !.qty = qty], b, s)
          BY <1>0, <2>1, <2>2, OpenOnReduce
        <4> QED BY <3>1, <4>1
      <3> HIDE DEF f
      <3> QED BY <1>3, <2>2, <2>3, <3>2, <3>3, <3>4
    <2> QED
      BY <2>4, <2>5
  <1>5. ASSUME NEW o \in DOMAIN order_exposures, OnCancel(o)
        PROVE  CInv'
    <2> DEFINE e == order_exposures[o]
    <2>1. e \in Exposure
      BY <1>0 DEF IsExposures
    <2>2. /\ open_buy_qty' = Freed("BUY", e) /\ open_sell_qty' = Freed("SELL", e)
          /\ order_exposures' = Without(order_exposures, o) /\ approved' = approved
      BY <1>5 DEF OnCancel
    <2>3. DOMAIN order_exposures' \subseteq DOMAIN order_exposures
      BY <2>2 DEF Without
    <2>4. IsExposures(order_exposures')
      BY <1>0, <2>2, OpenOnDrop
    <2>5. \A b \in Account, s \in RiskSide :
             OpenOn(order_exposures', b, s)
                = OpenOn(order_exposures, b, s) - Share(e, b, s)
      BY <1>0, <2>2, OpenOnDrop
    <2> HIDE DEF e
    <2> QED BY <1>3, <2>1, <2>2, <2>3, <2>4, <2>5
  <1>6. ASSUME NEW a \in Account, NEW l \in Limits, SetLimits(a, l) PROVE CInv'
    BY <1>1, <1>6 DEF SetLimits
  <1>7. ASSUME NEW o \in DOMAIN working, Withdraw(o) PROVE CInv'
    BY <1>1, <1>7 DEF Withdraw
  <1>8. CASE UNCHANGED riskVars
    BY <1>1, <1>8 DEF riskVars
  <1> QED
    BY <1>2, <1>4, <1>5, <1>6, <1>7, <1>8 DEF RNext

(* However fills, partial fills and cancels are mixed, open_buy_qty and    *)
(* open_sell_qty of risk_engine.h are the sums of the open exposures of    *)
(* the account: nothing is given back twice and nothing is forgotten.      *)
THEOREM CountersAreSums == RSpec => []CountersAddUp
  <1>1. RInit => CInv
    <2> SUFFICES ASSUME RInit PROVE CInv
      OBVIOUS
    <2>1. DOMAIN order_exposures = {}
      BY DEF RInit
    <2>2. \A a \in Account, s \in RiskSide : OpenOn(order_exposures, a, s) = 0
      <3> TAKE a \in Account, s \in RiskSide
      <3>1. Exposed(order_exposures, a, s) = {}
        BY <2>1 DEF Exposed
      <3>2. OpenOn(order_exposures, a, s)
               = SumFunctionOnSet(Qty(order_exposures), Exposed(order_exposures, a, s))
        BY Zenon DEF OpenOn, Qty, Exposed
      <3> QED BY <3>1, <3>2, SumEmpty
    <2>3. CountersAddUp
      BY <2>2 DEF RInit, CountersAddUp, RiskSide
    <2> QED
      BY <2>1, <2>3, FS_EmptySet DEF CInv
  <1>2. RInv /\ CInv /\ [RNext]_riskVars => CInv'
    BY CInvStep
  <1>3. CInv => CountersAddUp
    BY DEF CInv
  <1> QED
    BY <1>1, <1>2, <1>3, RiskInvariance, PTL DEF RSpec

----------------------------------------------------------------------------
(* Exact fractions.                                                        *)

Positive == Nat \ {0}

IsFraction(x) == x \in Int \X Positive

(* The fraction x has the value n/d. *)
Is(x, n, d) == IsFraction(x) /\ x[1] * d = n * x[2]

LEMMA Cancel ==
    ASSUME NEW a \in Int, NEW b \in Int, NEW k \in Positive, a * k = b * k
    PROVE  a = b
  BY DEF Positive

LEMMA DivExact ==
    ASSUME NEW n \in Int, NEW g \in Positive, n % g = 0
    PROVE  n \div g \in Int /\ n = (n \div g) * g
  BY DEF Positive

LEMMA DivPositive ==
    ASSUME NEW d \in Positive, NEW g \in Positive, d % g = 0
    PROVE  d \div g \in Positive /\ d = (d \div g) * g
  BY DEF Positive

(* The greatest common divisor of a numerator and a denominator. *)
Common(n, d) == {k \in 1..d : n % k = 0 /\ d % k = 0}

LEMMA CommonMax ==
    ASSUME NEW n \in Int, NEW d \in Positive
    PROVE  /\ Max(Common(n, d)) \in Common(n, d)
           /\ \A k \in Common(n, d) : k <= Max(Common(n, d))
<1> DEFINE S == Common(n, d)
           T == {d - k : k \in S}
<1>1. d \in Nat /\ d >= 1
  BY DEF Positive
<1>2. 1 \in S
  <2>1. n % 1 = 0 /\ d % 1 = 0
    BY <1>1
  <2> QED BY <1>1, <2>1 DEF Common
<1>3. S \subseteq 1..d
  BY DEF Common
<1> HIDE DEF S
<1>4. T \in SUBSET Nat /\ T # {}
  BY <1>1, <1>2, <1>3
<1>5. PICK t \in T : \A u \in T : t <= u
  <2> HIDE DEF T
  <2> QED BY <1>4, LeastNat
<1>6. PICK g \in S : t = d - g
  BY <1>5
<1>7. \A k \in S : k <= g
  BY <1>1, <1>3, <1>5, <1>6
<1>8. \A k \in S : k \in Int
  BY <1>3
<1>9. g \in S /\ \A k \in S : g >= k
  BY <1>6, <1>7, <1>8
<1>10. Max(S) \in S /\ \A k \in S : Max(S) >= k
  BY <1>9 DEF Max
<1> QED BY <1>8, <1>10 DEF S

LEMMA FracIs ==
    ASSUME NEW n \in Int, NEW d \in Positive
    PROVE  Is(Frac(n, d), n, d)
<1> DEFINE g == Max(Common(n, d))
<1>1. g \in Positive /\ n % g = 0 /\ d % g = 0
  <2>1. g \in Common(n, d)
    BY CommonMax
  <2> HIDE DEF g
  <2> QED BY <2>1 DEF Common, Positive
<1>2. Frac(n, d) = <<n \div g, d \div g>>
  BY DEF Frac, Common
<1> HIDE DEF g
<1> DEFINE a == n \div g
           b == d \div g
<1>3. a \in Int /\ n = a * g
  BY <1>1, DivExact
<1>4. b \in Positive /\ d = b * g
  BY <1>1, DivPositive
<1> HIDE DEF a, b
<1>5. a * d = n * b
  <2>1. g \in Int /\ b \in Int
    BY <1>1, <1>4 DEF Positive
  <2>2. a * (b * g) = (a * g) * b
    BY <1>3, <2>1
  <2> QED BY <1>3, <1>4, <2>2
<1>6. Frac(n, d) = <<a, b>>
  BY <1>2 DEF a, b
<1> QED BY <1>3, <1>4, <1>5, <1>6 DEF Is, IsFraction

LEMMA FracWhole ==
    ASSUME NEW k \in Int, NEW d \in Positive
    PROVE  Frac(k * d, d) = <<k, 1>>
<1> DEFINE n == k * d
           g == Max(Common(n, d))
<1>1. n \in Int /\ d \in Int /\ d > 0
  BY DEF Positive
<1>2. n % d = 0 /\ n \div d = k
  BY <1>1
<1>3. d % d = 0 /\ d \div d = 1
  BY <1>1
<1> HIDE DEF n
<1>4. d \in Common(n, d)
  BY <1>1, <1>2, <1>3 DEF Common
<1>5. g \in 1..d /\ d <= g
  BY <1>1, <1>4, CommonMax DEF Common
<1>6. g = d
  BY <1>1, <1>5
<1>7. Frac(n, d) = <<n \div g, d \div g>>
  BY DEF Frac, Common
<1> HIDE DEF g
<1> QED BY <1>2, <1>3, <1>6, <1>7 DEF n

(* Values do not depend on how they are written. *)
LEMMA IsSame ==
    ASSUME NEW x, NEW n \in Int, NEW d \in Positive, Is(x, n, d),
           NEW m \in Int, NEW e \in Positive, n * e = m * d
    PROVE  Is(x, m, e)
<1> DEFINE a == x[1]
           b == x[2]
<1>1. a \in Int /\ b \in Int /\ a * d = n * b /\ d \in Int /\ e \in Int
  BY DEF Is, IsFraction, Positive
<1>2. IsFraction(x)
  BY DEF Is
<1> HIDE DEF a, b
<1>3. (a * e) * d = (m * b) * d
  <2>1. (a * e) * d = (a * d) * e
    BY <1>1
  <2>2. (n * b) * e = (n * e) * b
    BY <1>1
  <2>3. (m * d) * b = (m * b) * d
    BY <1>1
  <2> QED BY <1>1, <2>1, <2>2, <2>3
<1>4. a * e = m * b
  <2>1. a * e \in Int /\ m * b \in Int
    BY <1>1
  <2> QED BY <1>3, <2>1, Cancel
<1> QED BY <1>2, <1>4 DEF Is, a, b

LEMMA FractionParts ==
    ASSUME NEW x, IsFraction(x)
    PROVE  /\ x[1] \in Int /\ x[2] \in Positive /\ x[2] \in Int
           /\ Is(x, x[1], x[2])
  BY DEF IsFraction, Is, Positive

LEMMA TimesPositive ==
    ASSUME NEW d \in Positive, NEW e \in Positive
    PROVE  d * e \in Positive
  BY DEF Positive

LEMMA AddIs ==
    ASSUME NEW x, NEW n \in Int, NEW d \in Positive, Is(x, n, d),
           NEW y, NEW m \in Int, NEW e \in Positive, Is(y, m, e)
    PROVE  Is(Add(x, y), n * e + m * d, d * e)
<1> DEFINE a == x[1]
           b == x[2]
           f == y[1]
           h == y[2]
<1>1. /\ a \in Int /\ b \in Positive /\ b \in Int /\ a * d = n * b
      /\ f \in Int /\ h \in Positive /\ h \in Int /\ f * e = m * h
      /\ d \in Int /\ e \in Int
  BY FractionParts DEF Is, Positive
<1>2. Add(x, y) = Frac(a * h + f * b, b * h)
  BY DEF Add
<1> HIDE DEF a, b, f, h
<1>3. a * h + f * b \in Int /\ b * h \in Positive /\ d * e \in Positive
      /\ n * e + m * d \in Int
  BY <1>1, TimesPositive
<1>4. Is(Add(x, y), a * h + f * b, b * h)
  BY <1>2, <1>3, FracIs
<1>5. (a * h + f * b) * (d * e) = (n * e + m * d) * (b * h)
  <2>1. (a * h + f * b) * (d * e) = (a * d) * (h * e) + (f * e) * (b * d)
    BY <1>1
  <2>2. (n * b) * (h * e) + (m * h) * (b * d) = (n * e + m * d) * (b * h)
    BY <1>1
  <2> QED BY <1>1, <2>1, <2>2
<1> QED BY <1>3, <1>4, <1>5, IsSame

LEMMA TimesIs ==
    ASSUME NEW x, NEW n \in Int, NEW d \in Positive, Is(x, n, d), NEW k \in Int
    PROVE  Is(Times(k, x), k * n, d)
<1> DEFINE a == x[1]
           b == x[2]
<1>1. a \in Int /\ b \in Positive /\ b \in Int /\ d \in Int /\ a * d = n * b
  BY FractionParts DEF Is, Positive
<1>2. Times(k, x) = Frac(k * a, b)
  BY DEF Times
<1> HIDE DEF a, b
<1>3. Is(Times(k, x), k * a, b) /\ k * a \in Int /\ k * n \in Int
  BY <1>1, <1>2, FracIs
<1>4. (k * a) * d = (k * n) * b
  <2>1. (k * a) * d = k * (a * d)
    BY <1>1
  <2>2. k * (n * b) = (k * n) * b
    BY <1>1
  <2> QED BY <1>1, <2>1, <2>2
<1> QED BY <1>1, <1>3, <1>4, IsSame

LEMMA SubIs ==
    ASSUME NEW x, NEW n \in Int, NEW d \in Positive, Is(x, n, d),
           NEW y, NEW m \in Int, NEW e \in Positive, Is(y, m, e)
    PROVE  Is(Sub(x, y), n * e - m * d, d * e)
<1>1. Is(Times(-1, y), -1 * m, e) /\ -1 * m \in Int
  BY TimesIs
<1>2. Is(Sub(x, y), n * e + (-1 * m) * d, d * e)
  <2> HIDE DEF Is
  <2> QED BY <1>1, AddIs DEF Sub
<1>3. n * e + (-1 * m) * d = n * e - m * d
  BY DEF Positive
<1> QED BY <1>2, <1>3

(* A sum whose value is whole is written so. *)
LEMMA AddWhole ==
    ASSUME NEW x, IsFraction(x), NEW y, IsFraction(y),
           NEW k \in Int, Is(Add(x, y), k, 1)
    PROVE  Add(x, y) = <<k, 1>>
<1> DEFINE n == x[1] * y[2] + y[1] * x[2]
           d == x[2] * y[2]
           z == Add(x, y)
<1>1. n \in Int /\ d \in Positive
  BY FractionParts, TimesPositive
<1>2. z = Frac(n, d)
  BY DEF Add
<1> HIDE DEF n, d, z
<1>3. Is(z, n, d)
  BY <1>1, <1>2, FracIs
<1>4. n = k * d
  <2> DEFINE a == z[1]
             b == z[2]
  <2>1. a \in Int /\ b \in Positive /\ b \in Int /\ d \in Int /\ a * d = n * b /\ a * 1 = k * b
    BY <1>1, <1>3 DEF Is, IsFraction, Positive, z
  <2> HIDE DEF a, b
  <2>2. n * b = (k * d) * b
    <3>1. (k * b) * d = (k * d) * b
      BY <2>1
    <3> QED BY <2>1, <3>1
  <2>3. k * d \in Int
    BY <2>1
  <2> QED BY <1>1, <2>1, <2>2, <2>3, Cancel
<1>5. z = <<k, 1>>
  BY <1>1, <1>2, <1>4, FracWhole
<1> QED BY <1>5 DEF z

----------------------------------------------------------------------------
(* What the agents order, and their position.                              *)

(* A set of at most one element as a sequence. *)
LEMMA SequenceOfNone == SetToSeq({}) = <<>>
  BY FS_EmptySet DEF SetToSeq, IsInjective

LEMMA SequenceOfOne ==
    ASSUME NEW o
    PROVE  SetToSeq({o}) = <<o>>
<1> DEFINE P(f) == f \in [1..Cardinality({o}) -> {o}] /\ IsInjective(f)
<1>1. Cardinality({o}) = 1
  BY FS_Singleton
<1>2. P(<<o>>)
  <2>1. <<o>> = [i \in 1..1 |-> o] /\ 1..1 = {1}
    OBVIOUS
  <2> QED BY <1>1, <2>1 DEF IsInjective
<1>3. SetToSeq({o}) = CHOOSE f : P(f)
  BY DEF SetToSeq
<1>4. P(SetToSeq({o}))
  BY <1>2, <1>3, Zenon
<1> QED BY <1>1, <1>4

----------------------------------------------------------------------------
(* The momentum trader: what it ordered last is last_signal_, and so is    *)
(* the last signal there was; nothing but its own tick changes any of them.*)
MomentumInv ==
    /\ ordered \in Seq({"BUY", "SELL"})
    /\ \A i \in 2..Len(ordered) : ordered[i] # ordered[i - 1]
    /\ ordered # <<>> => ordered[Len(ordered)] = last_signal /\ trend = {last_signal}

LEMMA MomentumTickInv ==
    ASSUME MomentumInv, NEW mid, MomentumTick(mid)
    PROVE  MomentumInv'
<1> DEFINE h      == Push(price_history, mid, long_window)
           signal == IF Len(h) < long_window THEN {}
                     ELSE IF Diverges(h, 1) THEN {"BUY"}
                     ELSE IF Diverges(h, -1) THEN {"SELL"} ELSE {}
           sides  == IF TradesOn(signal) THEN signal ELSE {}
<1>1. /\ last_signal' = IF sides = {} THEN last_signal ELSE CHOOSE s \in sides : TRUE
      /\ trend' = IF signal = {} THEN trend ELSE signal
      /\ ordered' = ordered \o SetToSeq(sides)
  BY Zenon DEF MomentumTick
<1>2. signal \in {{}, {"BUY"}, {"SELL"}}
  OBVIOUS
<1> HIDE DEF signal
<1>3. \/ sides = {} /\ (signal = {} \/ signal = {last_signal})
      \/ \E s \in {"BUY", "SELL"} : sides = {s} /\ signal = {s} /\ last_signal # s
  BY <1>2 DEF TradesOn
<1> HIDE DEF sides
<1>4. CASE sides = {} /\ (signal = {} \/ signal = {last_signal})
  <2>1. ordered' = ordered /\ last_signal' = last_signal
    <3>1. ordered \o <<>> = ordered
      BY DEF MomentumInv
    <3> QED BY <1>1, <1>4, <3>1, SequenceOfNone
  <2>2. trend' = trend \/ trend' = {last_signal}
    BY <1>1, <1>4
  <2> QED BY <2>1, <2>2 DEF MomentumInv
<1>5. ASSUME NEW s \in {"BUY", "SELL"}, sides = {s}, signal = {s}, last_signal # s
      PROVE  MomentumInv'
  <2>1. last_signal' = s /\ trend' = {s}
    BY <1>1, <1>5
  <2>2. ordered' = ordered \o <<s>>
    BY <1>1, <1>5, SequenceOfOne
  <2> DEFINE q == ordered
             n == Len(q)
             r == q \o <<s>>
  <2>3. q \in Seq({"BUY", "SELL"}) /\ n \in Nat
    BY DEF MomentumInv
  <2>4. /\ r \in Seq({"BUY", "SELL"}) /\ Len(r) = n + 1 /\ r[n + 1] = s
        /\ \A i \in 1..n : r[i] = q[i]
    BY <2>3
  <2>5. \A i \in 2..n : q[i] # q[i - 1]
    BY DEF MomentumInv
  <2>6. n # 0 => q[n] = last_signal
    BY DEF MomentumInv
  <2> HIDE DEF q, n, r
  <2>7. ASSUME NEW i \in 2..Len(r)
        PROVE  r[i] # r[i - 1]
    <3>1. CASE i = n + 1
      <4>1. n \in 1..n /\ i - 1 = n /\ n # 0
        BY <2>3, <2>4, <3>1
      <4>2. r[i - 1] = last_signal /\ r[i] = s
        BY <2>4, <2>6, <3>1, <4>1
      <4> QED BY <1>5, <4>2
    <3>2. CASE i # n + 1
      <4>1. i \in 2..n /\ i \in 1..n /\ i - 1 \in 1..n
        BY <2>3, <2>4, <3>2
      <4> QED BY <2>4, <2>5, <4>1
    <3> QED BY <3>1, <3>2
  <2>8. ordered' = r
    BY <2>2 DEF q, r
  <2>9. r[Len(r)] = s
    BY <2>4
  <2> QED BY <2>1, <2>4, <2>7, <2>8, <2>9 DEF MomentumInv
<1> QED BY <1>3, <1>4, <1>5

LEMMA MomentumNextInv == MomentumInv /\ [TradersNext]_traderVars => MomentumInv'
<1> SUFFICES ASSUME MomentumInv, [TradersNext]_traderVars PROVE MomentumInv'
  OBVIOUS
<1>1. ASSUME last_signal' = last_signal, UNCHANGED followed
      PROVE  MomentumInv'
  <2>1. trend' = trend /\ ordered' = ordered
    BY <1>1 DEF followed
  <2> QED BY <1>1, <2>1 DEF MomentumInv
<1>2. CASE NoMidPrice
  BY <1>1, <1>2 DEF NoMidPrice
<1>3. ASSUME NEW mid \in MidPrice \ {0}, MomentumTick(mid)
      PROVE  MomentumInv'
  BY <1>3, MomentumTickInv
<1>4. ASSUME NEW mid \in MidPrice \ {0}, ReversionTick(mid) \/ MakerTick(mid)
      PROVE  MomentumInv'
  BY <1>1, <1>4 DEF ReversionTick, MakerTick
<1>5. ASSUME NEW side \in {"BUY", "SELL"}, NEW q \in 1..trade_qty, NEW p \in FillPrice,
             MakerFill(side, q, p)
      PROVE  MomentumInv'
  BY <1>1, <1>5 DEF MakerFill, Fill
<1>6. ASSUME NEW i \in DOMAIN open,
             \/ \E q \in 1..trade_qty, p \in FillPrice : OrderFill(i, q, p)
             \/ Discard(i)
      PROVE  MomentumInv'
  BY <1>1, <1>6 DEF OrderFill, Fill, Discard
<1>7. CASE UNCHANGED traderVars
  BY <1>1, <1>7 DEF traderVars
<1> QED BY <1>2, <1>3, <1>4, <1>5, <1>6, <1>7 DEF TradersNext

(* MomentumFollowsTrend for all windows, thresholds, prices and            *)
(* quantities: however the signals follow on each other, the orders of     *)
(* MomentumTrader::on_tick alternate and end with the last signal.         *)
THEOREM MomentumOrdersFollow == TradersSpec => []MomentumFollowsTrend
<1>1. TradersInit => MomentumInv
  BY DEF TradersInit, MomentumInv
<1>2. MomentumInv => MomentumFollowsTrend
  BY DEF MomentumInv, MomentumFollowsTrend, Last
<1> QED BY <1>1, <1>2, MomentumNextInv, PTL DEF TradersSpec

----------------------------------------------------------------------------
(* Sums over the open orders. *)
OfAgent ==
    [side : {"BUY", "SELL"}, type : {"LIMIT", "MARKET"}, qty : Nat \ {0}, price : Int]

(* What the order o has of the shares on side. *)
Count(o, side) == IF o.side = side THEN o.qty ELSE 0

Counts(q, side) == [i \in DOMAIN q |-> Count(q[i], side)]

LEMMA SharesParts ==
    ASSUME NEW q \in Seq(OfAgent), NEW side
    PROVE  /\ Shares(q, side) = SumFunctionOnSet(Counts(q, side), 1..Len(q))
           /\ \A i \in 1..Len(q) : /\ Counts(q, side)[i] = Count(q[i], side)
                                   /\ Counts(q, side)[i] \in Nat
           /\ IsFiniteSet(1..Len(q))
           /\ Shares(q, side) \in Nat
<1>1. DOMAIN q = 1..Len(q) /\ Len(q) \in Nat
  OBVIOUS
<1>2. Shares(q, side) = SumFunctionOnSet(Counts(q, side), 1..Len(q))
  BY <1>1, Zenon DEF Shares, Counts, Count
<1>3. \A i \in 1..Len(q) : Counts(q, side)[i] = Count(q[i], side) /\ Counts(q, side)[i] \in Nat
  <2> TAKE i \in 1..Len(q)
  <2>1. q[i] \in OfAgent
    OBVIOUS
  <2>2. q[i].qty \in Nat
    BY <2>1 DEF OfAgent
  <2> QED BY <1>1, <2>2 DEF Counts, Count
<1>4. IsFiniteSet(1..Len(q))
  <2>1. 1 \in Int /\ Len(q) \in Int
    BY <1>1
  <2> QED BY <2>1, FS_Interval
<1>5. SumFunctionOnSet(Counts(q, side), 1..Len(q)) \in Nat
  BY <1>3, <1>4, SumNatural
<1> QED BY <1>2, <1>3, <1>4, <1>5

LEMMA SharesAppend ==
    ASSUME NEW q \in Seq(OfAgent), NEW o \in OfAgent, NEW side
    PROVE  /\ q \o <<o>> \in Seq(OfAgent)
           /\ Shares(q \o <<o>>, side) = Shares(q, side) + Count(o, side)
<1> DEFINE n == Len(q)
           r == q \o <<o>>
           f == Counts(q, side)
           g == Counts(r, side)
<1>1. n \in Nat /\ r \in Seq(OfAgent) /\ Len(r) = n + 1 /\ r[n + 1] = o
      /\ \A i \in 1..n : r[i] = q[i]
  OBVIOUS
<1> HIDE DEF r
<1>2. /\ Shares(q, side) = SumFunctionOnSet(f, 1..n)
      /\ \A i \in 1..n : f[i] = Count(q[i], side) /\ f[i] \in Nat
      /\ IsFiniteSet(1..n) /\ Shares(q, side) \in Nat
  BY SharesParts, Zenon
<1>3. /\ Shares(r, side) = SumFunctionOnSet(g, 1..Len(r))
      /\ \A i \in 1..Len(r) : g[i] = Count(r[i], side) /\ g[i] \in Nat
  BY <1>1, SharesParts, Zenon
<1> HIDE DEF f, g, n
<1>4. 1..Len(r) = (1..n) \union {n + 1} /\ n + 1 \notin 1..n /\ n + 1 \in 1..Len(r)
      /\ \A i \in 1..n : i \in 1..Len(r)
  BY <1>1
<1>5. \A i \in 1..n : f[i] \in Int /\ g[i] = f[i]
  BY <1>1, <1>2, <1>3, <1>4
<1>6. g[n + 1] \in Int /\ g[n + 1] = Count(o, side)
  BY <1>1, <1>3, <1>4
<1>7. SumFunctionOnSet(g, 1..n) = SumFunctionOnSet(f, 1..n)
  BY <1>2, <1>5, SumSame
<1>8. \A i \in 1..n : g[i] \in Int
  BY <1>5
<1>9. SumFunctionOnSet(g, (1..n) \union {n + 1}) = SumFunctionOnSet(g, 1..n) + g[n + 1]
  <2> DEFINE S == 1..n
             x == n + 1
  <2>1. IsFiniteSet(S) /\ x \notin S
    BY <1>2, <1>4
  <2>2. (\A y \in S : g[y] \in Int) /\ g[x] \in Int
    BY <1>6, <1>8
  <2> HIDE DEF S, x
  <2>3. SumFunctionOnSet(g, S \union {x}) = SumFunctionOnSet(g, S) + g[x]
    BY <2>1, <2>2, SumAdd
  <2> QED BY <2>3 DEF S, x
<1>10. Shares(r, side) = Shares(q, side) + Count(o, side)
  BY <1>2, <1>3, <1>4, <1>6, <1>7, <1>9
<1> QED BY <1>1, <1>10 DEF r

LEMMA SharesRemove ==
    ASSUME NEW q \in Seq(OfAgent), NEW i \in 1..Len(q), NEW side
    PROVE  /\ RemoveAt(q, i) \in Seq(OfAgent)
           /\ Shares(RemoveAt(q, i), side) = Shares(q, side) - Count(q[i], side)
<1> DEFINE n == Len(q)
           r == RemoveAt(q, i)
           f == Counts(q, side)
           g == Counts(r, side)
<1>1. /\ r \in Seq(OfAgent) /\ Len(r) = n - 1
      /\ \A j \in 1..(n - 1) : r[j] = IF j < i THEN q[j] ELSE q[j + 1]
  BY RemoveAtProperties, Zenon
<1>2. n \in Nat
  OBVIOUS
<1> HIDE DEF r
<1>3. /\ Shares(q, side) = SumFunctionOnSet(f, 1..n)
      /\ \A j \in 1..n : f[j] = Count(q[j], side) /\ f[j] \in Nat
  BY SharesParts, Zenon
<1>4. /\ Shares(r, side) = SumFunctionOnSet(g, 1..(n - 1))
      /\ \A j \in 1..(n - 1) : g[j] = Count(r[j], side)
  <2>1. /\ Shares(r, side) = SumFunctionOnSet(g, 1..Len(r))
        /\ \A j \in 1..Len(r) : g[j] = Count(r[j], side)
    BY <1>1, SharesParts, Zenon
  <2> HIDE DEF g, n
  <2> QED BY <1>1, <2>1
<1> HIDE DEF f, g
<1>5. \A j \in 1..(n - 1) : g[j] = IF j < i THEN f[j] ELSE f[j + 1]
  <2> TAKE j \in 1..(n - 1)
  <2> HIDE DEF n
  <2>1. j \in 1..n /\ j + 1 \in 1..n
    BY <1>2
  <2> QED BY <1>1, <1>3, <1>4, <2>1
<1>6. \A j \in 1..n : f[j] \in Int
  BY <1>3
<1>7. SumFunctionOnSet(g, 1..(n - 1)) = SumFunctionOnSet(f, 1..n) - f[i]
  BY <1>2, <1>5, <1>6, SumShift
<1> QED BY <1>1, <1>3, <1>4, <1>7 DEF r

(* Order i of q has lost k shares in r. *)
Reduced(q, i, k, r) ==
    /\ Len(r) = Len(q)
    /\ r[i].side = q[i].side
    /\ r[i].qty = q[i].qty - k
    /\ \A j \in 1..Len(q) : j # i => r[j] = q[j]

LEMMA ReduceOrder ==
    ASSUME NEW q \in Seq(OfAgent), NEW i \in 1..Len(q), NEW k \in Nat, k < q[i].qty,
           NEW r, r = [q EXCEPT ![i].qty = @ - k]
    PROVE  r \in Seq(OfAgent) /\ Reduced(q, i, k, r)
<1> DEFINE n == Len(q)
           o == [q[i] EXCEPT !.qty = @ - k]
<1>1. n \in Nat /\ q[i] \in OfAgent /\ DOMAIN q = 1..n /\ q = [j \in 1..n |-> q[j]]
  OBVIOUS
<1>2. o \in OfAgent /\ o.side = q[i].side /\ o.qty = q[i].qty - k
  <2> DEFINE w == q[i]
  <2>1. w \in OfAgent /\ k < w.qty
    BY <1>1
  <2> HIDE DEF w
  <2>2. w.qty - k \in Nat \ {0}
    BY <2>1 DEF OfAgent
  <2>3. [w EXCEPT !.qty = w.qty - k] \in OfAgent
    BY <2>1, <2>2 DEF OfAgent
  <2>4. /\ [w EXCEPT !.qty = w.qty - k].side = w.side
        /\ [w EXCEPT !.qty = w.qty - k].qty = w.qty - k
    BY <2>1 DEF OfAgent
  <2> QED BY <2>3, <2>4 DEF w
<1>3. r = [q EXCEPT ![i] = o]
  BY Zenon
<1> HIDE DEF o
<1>4. /\ r \in Seq(OfAgent) /\ Len(r) = n /\ r[i] = o
      /\ \A j \in 1..n : j # i => r[j] = q[j]
  BY <1>1, <1>2, <1>3
<1> QED BY <1>2, <1>4 DEF Reduced

LEMMA SharesReduce ==
    ASSUME NEW q \in Seq(OfAgent), NEW n \in Nat, n = Len(q), NEW i \in 1..n, NEW k \in Nat,
           NEW r \in Seq(OfAgent), Reduced(q, i, k, r), NEW side
    PROVE  Shares(r, side) = Shares(q, side) - (IF q[i].side = side THEN k ELSE 0)
<1> DEFINE f == Counts(q, side)
           g == Counts(r, side)
           d == IF q[i].side = side THEN k ELSE 0
<1>1. /\ Shares(q, side) = SumFunctionOnSet(f, 1..n)
      /\ \A j \in 1..n : f[j] = Count(q[j], side) /\ f[j] \in Nat
      /\ Shares(q, side) \in Nat
  <2> HIDE DEF f
  <2> QED BY SharesParts DEF f
<1>2. /\ Shares(r, side) = SumFunctionOnSet(g, 1..n)
      /\ \A j \in 1..n : g[j] = Count(r[j], side) /\ g[j] \in Nat
  <2>1. /\ Shares(r, side) = SumFunctionOnSet(g, 1..Len(r))
        /\ \A j \in 1..Len(r) : g[j] = Count(r[j], side) /\ g[j] \in Nat
    BY SharesParts, Zenon
  <2>2. Len(r) = n
    BY DEF Reduced
  <2> HIDE DEF g
  <2> QED BY <2>1, <2>2
<1>3. /\ r[i].side = q[i].side /\ r[i].qty = q[i].qty - k
      /\ \A j \in 1..n : j # i => r[j] = q[j]
  BY DEF Reduced
<1>4. q[i].qty \in Nat /\ d \in Int
  <2>1. q[i] \in OfAgent
    OBVIOUS
  <2> QED BY <2>1 DEF OfAgent
<1> HIDE DEF f, g
<1>5. \A j \in 1..n : f[j] \in Int /\ g[j] \in Int
  BY <1>1, <1>2
<1>6. \A j \in 1..n : j # i => g[j] = f[j]
  BY <1>1, <1>2, <1>3
<1>7. f[i] \in Int /\ g[i] = f[i] - d
  BY <1>1, <1>2, <1>3, <1>4 DEF Count
<1>8. SumFunctionOnSet(g, 1..n) = SumFunctionOnSet(f, 1..n) + (g[i] - f[i])
  BY <1>5, <1>6, SumChangeAt
<1> HIDE DEF d
<1>9. Shares(r, side) = Shares(q, side) - d
  BY <1>1, <1>2, <1>4, <1>7, <1>8
<1> QED BY <1>9 DEF d

----------------------------------------------------------------------------
(* The mean reversion trader.  That the position is within the bound now   *)
(* is not inductive, as open orders may fill: what is kept is that it      *)
(* would be with all the orders of one side filled.  The shares that were  *)
(* open when a tick added to them are at most `uncounted'.                 *)
Covered(inv, q, u) ==
    /\ inv + Shares(q, "BUY") < max_pos + trade_qty + u
    /\ -(max_pos + trade_qty + u) < inv - Shares(q, "SELL")

ReversionInv ==
    agent = "reversion" =>
        /\ account.inventory \in Int /\ "inventory" \in DOMAIN account
        /\ uncounted \in Nat
        /\ open \in Seq(OfAgent)
        /\ Covered(account.inventory, open, uncounted)

LEMMA MinOfTwo ==
    ASSUME NEW a \in Int, NEW b \in Int
    PROVE  Min({a, b}) = IF a <= b THEN a ELSE b
  BY DEF Min

LEMMA MaxOfTwo ==
    ASSUME NEW a \in Int, NEW b \in Int
    PROVE  Max({a, b}) = IF a >= b THEN a ELSE b
  BY DEF Max

(* Were there no other order open, the order o would keep the position inv *)
(* below one order more than max_pos.                                      *)
Allowed(inv, o) ==
    IF o.side = "BUY" THEN inv + o.qty < max_pos + trade_qty
                      ELSE -(max_pos + trade_qty) < inv - o.qty

LEMMA ReversionOrderAllowed ==
    ASSUME NEW h, NEW mid \in Nat, account.inventory \in Int
    PROVE  \/ ReversionOrders(h, mid) = <<>>
           \/ \E o \in OfAgent : /\ ReversionOrders(h, mid) = <<o>>
                                 /\ Allowed(account.inventory, o)
<1> DEFINE inv   == account.inventory
           side  == EntrySide(h, mid)
           price == EntryPrice(side, mid)
           entry == MakeOrder(side, "LIMIT", trade_qty, price)
           n     == Min({trade_qty, Abs(inv)})
           out   == IF inv > 0 THEN "SELL" ELSE "BUY"
           exit  == MakeOrder(out, "MARKET", n, 0)
<1>1. trade_qty \in Nat \ {0} /\ max_pos \in Nat \ {0} /\ inv \in Int
  BY WindowAssumption
<1>2. \/ ReversionOrders(h, mid) = <<>>
      \/ ReversionOrders(h, mid) = <<entry>> /\ MayEnter(side)
      \/ ReversionOrders(h, mid) = <<exit>> /\ inv # 0
  BY Zenon DEF ReversionOrders
<1>3. side \in {"BUY", "SELL"}
  BY DEF EntrySide
<1>4. price \in Int
  <2> HIDE DEF side
  <2> QED BY DEF EntryPrice, Round
<1> HIDE DEF inv, side, price
<1> DEFINE Good(o) == o \in OfAgent /\ Allowed(inv, o)
<1>5. ASSUME MayEnter(side)
      PROVE  Good(entry)
  <2>1. entry \in OfAgent /\ entry.side = side /\ entry.qty = trade_qty
    BY <1>1, <1>3, <1>4 DEF OfAgent, MakeOrder
  <2>2. IF side = "SELL" THEN inv > -max_pos ELSE inv < max_pos
    BY <1>5 DEF MayEnter, inv
  <2> HIDE DEF entry
  <2>3. Allowed(inv, entry)
    BY <1>1, <1>3, <2>1, <2>2 DEF Allowed
  <2> QED BY <2>1, <2>3
<1>6. ASSUME inv # 0
      PROVE  Good(exit)
  <2>1. Abs(inv) \in Nat \ {0} /\ Abs(inv) = IF inv < 0 THEN -inv ELSE inv
    BY <1>1, <1>6 DEF Abs
  <2>2. n = IF trade_qty <= Abs(inv) THEN trade_qty ELSE Abs(inv)
    BY <1>1, <2>1, MinOfTwo
  <2>3. n \in Nat \ {0} /\ n <= Abs(inv)
    BY <1>1, <2>1, <2>2
  <2> HIDE DEF n
  <2>4. exit \in OfAgent /\ exit.side = out /\ exit.qty = n
    BY <2>3 DEF OfAgent, MakeOrder
  <2> HIDE DEF exit
  <2>5. Allowed(inv, exit)
    BY <1>1, <1>6, <2>1, <2>3, <2>4 DEF Allowed
  <2> QED BY <2>4, <2>5
<1> HIDE DEF entry, exit, Good
<1>7. ReversionOrders(h, mid) = <<>> \/ \E o : ReversionOrders(h, mid) = <<o>> /\ Good(o)
  BY <1>2, <1>5, <1>6
<1> QED BY <1>7 DEF Good, inv

(* An order allowed by the position alone, whatever else is open. *)
LEMMA AllowedCovered ==
    ASSUME NEW inv \in Int, NEW q \in Seq(OfAgent), NEW u \in Nat, Covered(inv, q, u),
           NEW o \in OfAgent, Allowed(inv, o)
    PROVE  LET w == Max({u, Shares(q, o.side)})
           IN  /\ w \in Nat
               /\ q \o <<o>> \in Seq(OfAgent)
               /\ Covered(inv, q \o <<o>>, w)
<1> DEFINE w == Max({u, Shares(q, o.side)})
           b == Shares(q, "BUY")
           s == Shares(q, "SELL")
           r == q \o <<o>>
           n == o.qty
<1>1. trade_qty \in Nat \ {0} /\ max_pos \in Nat \ {0}
  BY WindowAssumption
<1>2. b \in Nat /\ s \in Nat
  BY SharesParts, Zenon
<1>3. o.side \in {"BUY", "SELL"} /\ n \in Nat \ {0}
  BY DEF OfAgent
<1>4. r \in Seq(OfAgent) /\ Shares(r, "BUY") = b + Count(o, "BUY")
      /\ Shares(r, "SELL") = s + Count(o, "SELL")
  BY SharesAppend, Zenon
<1>5. inv + b < max_pos + trade_qty + u /\ -(max_pos + trade_qty + u) < inv - s
  BY DEF Covered
<1> HIDE DEF r
<1>6. CASE o.side = "BUY"
  <2>1. w = IF u >= b THEN u ELSE b
    BY <1>2, <1>6, MaxOfTwo
  <2>2. Count(o, "BUY") = n /\ Count(o, "SELL") = 0
    BY <1>6 DEF Count
  <2>3. inv + n < max_pos + trade_qty
    BY <1>6 DEF Allowed
  <2> HIDE DEF w, b, s, n
  <2>4. w \in Nat /\ w >= u /\ w >= b
    BY <1>2, <2>1
  <2>5. inv + (b + n) < max_pos + trade_qty + w /\ -(max_pos + trade_qty + w) < inv - (s + 0)
    BY <1>1, <1>2, <1>3, <1>5, <2>3, <2>4
  <2> QED BY <1>4, <2>2, <2>4, <2>5 DEF Covered, r, w
<1>7. CASE o.side = "SELL"
  <2>1. w = IF u >= s THEN u ELSE s
    BY <1>2, <1>7, MaxOfTwo
  <2>2. Count(o, "BUY") = 0 /\ Count(o, "SELL") = n
    BY <1>7 DEF Count
  <2>3. -(max_pos + trade_qty) < inv - n
    BY <1>7 DEF Allowed
  <2> HIDE DEF w, b, s, n
  <2>4. w \in Nat /\ w >= u /\ w >= s
    BY <1>2, <2>1
  <2>5. inv + (b + 0) < max_pos + trade_qty + w /\ -(max_pos + trade_qty + w) < inv - (s + n)
    BY <1>1, <1>2, <1>3, <1>5, <2>3, <2>4
  <2> QED BY <1>4, <2>2, <2>4, <2>5 DEF Covered, r, w
<1> QED BY <1>3, <1>6, <1>7

(* A fill changes the position by its signed quantity. *)
LEMMA FillPosition ==
    ASSUME NEW side \in {"BUY", "SELL"}, NEW q, NEW p, Fill(side, q, p),
           account.inventory \in Int, "inventory" \in DOMAIN account, q \in Int
    PROVE  /\ account'.inventory = account.inventory + Signed(side, q)
           /\ "inventory" \in DOMAIN account'
<1>1. account' = RecordFill(account, side, q, p)
  BY DEF Fill
<1> DEFINE a == account
<1> HIDE DEF a
<1>2. a.inventory \in Int /\ "inventory" \in DOMAIN a
  BY DEF a
<1>3. CASE side = "BUY"
  <2>1. account' = RecordBuy(a, q, p)
    BY <1>1, <1>3 DEF RecordFill, a
  <2>2. account'.inventory = a.inventory + q /\ "inventory" \in DOMAIN account'
    BY <1>2, <2>1 DEF RecordBuy
  <2> QED BY <1>3, <2>2 DEF Signed, a
<1>4. CASE side = "SELL"
  <2>1. account' = RecordSell(a, q, p)
    BY <1>1, <1>4 DEF RecordFill, a
  <2>2. account'.inventory = a.inventory - q /\ "inventory" \in DOMAIN account'
    BY <1>2, <2>1 DEF RecordSell
  <2> QED BY <1>2, <1>4, <2>2 DEF Signed, a
<1> QED BY <1>3, <1>4

LEMMA ReversionTickInv ==
    ASSUME ReversionInv, NEW mid \in MidPrice \ {0}, ReversionTick(mid)
    PROVE  ReversionInv'
<1> DEFINE h    == Push(price_history, mid, window)
           new  == IF Len(h) = window /\ Spread(h) > 0 THEN ReversionOrders(h, mid) ELSE <<>>
           seen == {Shares(open, new[i].side) : i \in DOMAIN new}
           inv  == account.inventory
<1>1. agent = "reversion" /\ agent' = agent /\ account' = account
      /\ open' = open \o new /\ uncounted' = Max({uncounted} \union seen)
  BY Zenon DEF ReversionTick, Tick
<1>2. /\ inv \in Int /\ "inventory" \in DOMAIN account /\ uncounted \in Nat
      /\ open \in Seq(OfAgent) /\ Covered(inv, open, uncounted)
  BY <1>1 DEF ReversionInv
<1>3. mid \in Nat
  BY PriceAssumption
<1>4. new = <<>> \/ \E o \in OfAgent : new = <<o>> /\ Allowed(inv, o)
  BY <1>2, <1>3, ReversionOrderAllowed, Zenon
<1> HIDE DEF new, inv
<1>5. CASE new = <<>>
  <2>1. open' = open
    <3>1. open \o <<>> = open
      BY <1>2
    <3> QED BY <1>1, <1>5, <3>1
  <2>2. uncounted' = uncounted
    <3>1. {uncounted} \union seen = {uncounted, uncounted}
      BY <1>5
    <3>2. uncounted' = Max({uncounted, uncounted})
      BY <1>1, <3>1
    <3>3. uncounted \in Int
      BY <1>2
    <3> QED BY <3>2, <3>3, MaxOfTwo
  <2> QED BY <1>1, <1>2, <2>1, <2>2 DEF ReversionInv, inv
<1>6. ASSUME NEW o \in OfAgent, new = <<o>>, Allowed(inv, o)
      PROVE  ReversionInv'
  <2>1. {uncounted} \union seen = {uncounted, Shares(open, o.side)}
    BY <1>6
  <2>2. open' = open \o <<o>> /\ uncounted' = Max({uncounted, Shares(open, o.side)})
    BY <1>1, <1>6, <2>1
  <2>3. /\ Max({uncounted, Shares(open, o.side)}) \in Nat
        /\ open \o <<o>> \in Seq(OfAgent)
        /\ Covered(inv, open \o <<o>>, Max({uncounted, Shares(open, o.side)}))
    BY <1>2, <1>6, AllowedCovered, Zenon
  <2>4. uncounted' \in Nat /\ open' \in Seq(OfAgent) /\ Covered(inv, open', uncounted')
    BY <2>2, <2>3, Zenon
  <2>5. account'.inventory = inv
    BY <1>1 DEF inv
  <2> QED BY <1>1, <1>2, <2>4, <2>5 DEF ReversionInv
<1> QED BY <1>4, <1>5, <1>6

(* What an order loses of its shares the position has of them, or nobody. *)
LEMMA LessCovered ==
    ASSUME NEW inv \in Int, NEW q \in Seq(OfAgent), NEW r \in Seq(OfAgent), NEW u \in Nat,
           Covered(inv, q, u), NEW side \in {"BUY", "SELL"}, NEW n \in Nat,
           NEW m \in 0..n,
           \A t \in {"BUY", "SELL"} :
               Shares(r, t) = Shares(q, t) - (IF side = t THEN n ELSE 0)
    PROVE  Covered(inv + Signed(side, m), r, u)
<1> DEFINE b == Shares(q, "BUY")
           s == Shares(q, "SELL")
<1>1. trade_qty \in Nat \ {0} /\ max_pos \in Nat \ {0}
  BY WindowAssumption
<1>2. b \in Nat /\ s \in Nat
  BY SharesParts, Zenon
<1>3. Shares(r, "BUY") = b - (IF side = "BUY" THEN n ELSE 0)
      /\ Shares(r, "SELL") = s - (IF side = "SELL" THEN n ELSE 0)
  OBVIOUS
<1>4. inv + b < max_pos + trade_qty + u /\ -(max_pos + trade_qty + u) < inv - s
  BY DEF Covered
<1> HIDE DEF b, s
<1>5. CASE side = "BUY"
  BY <1>1, <1>2, <1>3, <1>4, <1>5 DEF Covered, Signed
<1>6. CASE side = "SELL"
  BY <1>1, <1>2, <1>3, <1>4, <1>6 DEF Covered, Signed
<1> QED BY <1>5, <1>6

LEMMA ReversionFillInv ==
    ASSUME ReversionInv, NEW i \in DOMAIN open, NEW q, NEW p, OrderFill(i, q, p)
    PROVE  ReversionInv'
<1> DEFINE inv  == account.inventory
           o    == open[i]
           side == open[i].side
<1>1. agent' = agent /\ uncounted' = uncounted
  BY DEF OrderFill, Fill
<1> SUFFICES ASSUME agent = "reversion" PROVE ReversionInv'
  BY <1>1 DEF ReversionInv
<1>2. /\ inv \in Int /\ "inventory" \in DOMAIN account /\ uncounted \in Nat
      /\ open \in Seq(OfAgent) /\ Covered(inv, open, uncounted)
  BY DEF ReversionInv
<1>3. i \in 1..Len(open) /\ o \in OfAgent
  BY <1>2
<1>4. side \in {"BUY", "SELL"} /\ o.qty \in Nat \ {0}
  BY <1>3 DEF OfAgent
<1>5. /\ q \in 1..o.qty /\ Fill(side, q, p)
      /\ open' = IF q = o.qty THEN RemoveAt(open, i) ELSE [open EXCEPT ![i].qty = @ - q]
  BY DEF OrderFill
<1>6. q \in Nat /\ q <= o.qty /\ q \in 0..q
  BY <1>4, <1>5
<1>7. account'.inventory = inv + Signed(side, q) /\ "inventory" \in DOMAIN account'
  BY <1>2, <1>4, <1>5, <1>6, FillPosition
<1>8. /\ open' \in Seq(OfAgent)
      /\ \A t \in {"BUY", "SELL"} :
            Shares(open', t) = Shares(open, t) - (IF side = t THEN q ELSE 0)
  <2>1. CASE q = o.qty
    <3>1. \A t : /\ RemoveAt(open, i) \in Seq(OfAgent)
                 /\ Shares(RemoveAt(open, i), t) = Shares(open, t) - Count(o, t)
      BY <1>2, <1>3, SharesRemove, Zenon
    <3>2. open' = RemoveAt(open, i)
      BY <1>5, <2>1
    <3>3. \A t : Count(o, t) = IF side = t THEN q ELSE 0
      BY <2>1 DEF Count
    <3> QED BY <3>1, <3>2, <3>3, Zenon
  <2>2. CASE q # o.qty
    <3>1. q < o.qty
      BY <1>4, <1>6, <2>2
    <3>2. open' = [open EXCEPT ![i].qty = @ - q]
      BY <1>5, <2>2
    <3>3. open \in Seq(OfAgent) /\ i \in 1..Len(open) /\ q \in Nat /\ q < open[i].qty
      BY <1>2, <1>3, <1>6, <3>1
    <3>4. open' \in Seq(OfAgent) /\ Reduced(open, i, q, open')
      BY <3>2, <3>3, ReduceOrder, Zenon
    <3>5. \A t : Shares(open', t) = Shares(open, t) - (IF side = t THEN q ELSE 0)
      <4>1. PICK n \in Nat : n = Len(open)
        BY <3>3
      <4>2. i \in 1..n
        BY <3>3, <4>1
      <4>3. ASSUME NEW t
            PROVE  Shares(open', t) = Shares(open, t) - (IF side = t THEN q ELSE 0)
        <5> HIDE DEF inv, o
        <5> QED BY <3>3, <3>4, <4>1, <4>2, SharesReduce
      <4> QED BY <4>3
    <3> QED BY <3>4, <3>5
  <2> QED BY <2>1, <2>2
<1> DEFINE new == inv + Signed(side, q)
<1>9. Covered(new, open', uncounted)
  BY <1>2, <1>4, <1>6, <1>8, LessCovered, Zenon
<1>10. new \in Int
  <2> HIDE DEF inv, side
  <2> QED BY <1>2, <1>4, <1>6 DEF Signed
<1> HIDE DEF new
<1>11. account'.inventory = new
  BY <1>7 DEF new
<1> QED BY <1>1, <1>2, <1>7, <1>8, <1>9, <1>10, <1>11 DEF ReversionInv

LEMMA ReversionDiscardInv ==
    ASSUME ReversionInv, NEW i \in DOMAIN open, Discard(i)
    PROVE  ReversionInv'
<1> DEFINE inv == account.inventory
           o   == open[i]
<1>1. agent' = agent /\ account' = account /\ uncounted' = uncounted
      /\ open' = RemoveAt(open, i)
  BY DEF Discard, history
<1> SUFFICES ASSUME agent = "reversion" PROVE ReversionInv'
  BY <1>1 DEF ReversionInv
<1>2. /\ inv \in Int /\ "inventory" \in DOMAIN account /\ uncounted \in Nat
      /\ open \in Seq(OfAgent) /\ Covered(inv, open, uncounted)
  BY DEF ReversionInv
<1>3. i \in 1..Len(open) /\ o \in OfAgent
  BY <1>2
<1>4. o.side \in {"BUY", "SELL"} /\ o.qty \in Nat /\ 0 \in 0..o.qty
  BY <1>3 DEF OfAgent
<1>5. \A t : /\ RemoveAt(open, i) \in Seq(OfAgent)
             /\ Shares(RemoveAt(open, i), t) = Shares(open, t) - Count(o, t)
  BY <1>2, <1>3, SharesRemove, Zenon
<1>6. \A t \in {"BUY", "SELL"} :
         Shares(open', t) = Shares(open, t) - (IF o.side = t THEN o.qty ELSE 0)
  BY <1>1, <1>5, Zenon DEF Count
<1>7. open' \in Seq(OfAgent)
  BY <1>1, <1>5
<1>8. Covered(inv + Signed(o.side, 0), open', uncounted)
  BY <1>2, <1>4, <1>6, <1>7, LessCovered, Zenon
<1>9. inv + Signed(o.side, 0) = inv
  BY <1>2 DEF Signed
<1>10. Covered(inv, open', uncounted)
  BY <1>8, <1>9
<1> QED BY <1>1, <1>2, <1>7, <1>10 DEF ReversionInv

LEMMA ReversionNextInv == ReversionInv /\ [TradersNext]_traderVars => ReversionInv'
<1> SUFFICES ASSUME ReversionInv, [TradersNext]_traderVars PROVE ReversionInv'
  OBVIOUS
<1>1. ASSUME agent' = agent, agent # "reversion"
      PROVE  ReversionInv'
  BY <1>1 DEF ReversionInv
<1>2. ASSUME agent' = agent, account' = account, open' = open, uncounted' = uncounted
      PROVE  ReversionInv'
  BY <1>2 DEF ReversionInv
<1>3. CASE NoMidPrice
  <2>1. agent' = agent /\ account' = account /\ open' = open \o <<>>
        /\ uncounted' = Max({uncounted} \union {Shares(open, <<>>[i].side) : i \in DOMAIN <<>>})
    BY <1>3, Zenon DEF NoMidPrice, Tick
  <2> SUFFICES ASSUME agent = "reversion" PROVE ReversionInv'
    BY <2>1, Zenon DEF ReversionInv
  <2>2. uncounted \in Nat /\ open \in Seq(OfAgent)
    BY DEF ReversionInv
  <2>3. open \o <<>> = open
    BY <2>2
  <2>4. {uncounted} \union {Shares(open, <<>>[i].side) : i \in DOMAIN <<>>} = {uncounted, uncounted}
    OBVIOUS
  <2>5. uncounted' = uncounted
    BY <2>1, <2>2, <2>4, MaxOfTwo
  <2> QED BY <1>2, <2>1, <2>3, <2>5
<1>4. ASSUME NEW mid \in MidPrice \ {0}, ReversionTick(mid)
      PROVE  ReversionInv'
  BY <1>4, ReversionTickInv
<1>5. ASSUME NEW mid \in MidPrice \ {0}, MomentumTick(mid) \/ MakerTick(mid)
      PROVE  ReversionInv'
  <2>1. agent' = agent /\ agent # "reversion"
    BY <1>5, Zenon DEF MomentumTick, MakerTick, Tick
  <2> QED BY <1>1, <2>1
<1>6. ASSUME NEW side \in {"BUY", "SELL"}, NEW q \in 1..trade_qty, NEW p \in FillPrice,
             MakerFill(side, q, p)
      PROVE  ReversionInv'
  <2>1. agent' = agent /\ agent # "reversion"
    BY <1>6 DEF MakerFill, Fill
  <2> QED BY <1>1, <2>1
<1>7. ASSUME NEW i \in DOMAIN open, NEW q \in 1..trade_qty, NEW p \in FillPrice,
             OrderFill(i, q, p)
      PROVE  ReversionInv'
  BY <1>7, ReversionFillInv
<1>8. ASSUME NEW i \in DOMAIN open, Discard(i)
      PROVE  ReversionInv'
  BY <1>8, ReversionDiscardInv
<1>9. CASE UNCHANGED traderVars
  <2>1. agent' = agent /\ account' = account /\ open' = open /\ uncounted' = uncounted
    BY <1>9 DEF traderVars
  <2> QED BY <1>2, <2>1
<1> QED BY <1>3, <1>4, <1>5, <1>6, <1>7, <1>8, <1>9 DEF TradersNext

(* ReversionBounded for all windows, thresholds, limits and quantities:    *)
(* whatever fills come, late, in whatever parts and against whatever else  *)
(* is still open, the position passes max_pos by less than one order and   *)
(* the shares that MeanReversionTrader::on_tick did not count when it      *)
(* added to them.                                                          *)
THEOREM ReversionPositionBounded == TradersSpec => []ReversionBounded
<1>1. TradersInit => ReversionInv
  <2> SUFFICES ASSUME TradersInit PROVE ReversionInv
    OBVIOUS
  <2>1. account.inventory = 0 /\ "inventory" \in DOMAIN account /\ open = <<>> /\ uncounted = 0
    BY DEF TradersInit, NewAccount
  <2>2. <<>> \in Seq(OfAgent)
    OBVIOUS
  <2>3. \A side : Shares(<<>>, side) = 0
    <3> TAKE side
    <3>1. Shares(<<>>, side) = SumFunctionOnSet(Counts(<<>>, side), {})
      <4>1. DOMAIN <<>> = {}
        OBVIOUS
      <4> QED BY <4>1, Zenon DEF Shares, Counts, Count
    <3> QED BY <3>1, SumEmpty
  <2>4. Covered(0, <<>>, 0)
    BY <2>3, WindowAssumption DEF Covered
  <2> QED BY <2>1, <2>2, <2>4 DEF ReversionInv
<1>2. ReversionInv => ReversionBounded
  <2> SUFFICES ASSUME ReversionInv, agent = "reversion"
               PROVE  Abs(account.inventory) < max_pos + trade_qty + uncounted
    BY DEF ReversionBounded
  <2> DEFINE inv == account.inventory
             b   == Shares(open, "BUY")
             s   == Shares(open, "SELL")
  <2>1. /\ inv \in Int /\ uncounted \in Nat /\ open \in Seq(OfAgent)
        /\ inv + b < max_pos + trade_qty + uncounted
        /\ -(max_pos + trade_qty + uncounted) < inv - s
    BY DEF ReversionInv, Covered
  <2>2. b \in Nat /\ s \in Nat
    BY <2>1, SharesParts, Zenon
  <2> HIDE DEF inv, b, s
  <2>3. Abs(inv) < max_pos + trade_qty + uncounted
    BY <2>1, <2>2, WindowAssumption DEF Abs
  <2> QED BY <2>3 DEF inv
<1> QED BY <1>1, <1>2, ReversionNextInv, PTL DEF TradersSpec

----------------------------------------------------------------------------
(* The accounts.  While the agent has not been short, the realised profit  *)
(* is the cash taken in plus the shares held at their average cost: this   *)
(* is the invariant behind PnlAddsUp.  The average cost is positive once   *)
(* there are shares, or unrealized_pnl would count them for nothing.       *)
AccountType(a) ==
    /\ DOMAIN a = DOMAIN NewAccount
    /\ a.inventory \in Int
    /\ IsFraction(a.realized_pnl)
    /\ IsFraction(a.avg_cost)

Balanced(a, c) ==
    LET cost == a.avg_cost
    IN  /\ a.inventory >= 0
        /\ cost[1] >= 0
        /\ a.inventory > 0 => cost[1] > 0
        /\ Is(a.realized_pnl, c * cost[2] + a.inventory * cost[1], cost[2])

LEMMA PositiveValue ==
    ASSUME NEW x, NEW n \in Int, NEW d \in Positive, Is(x, n, d)
    PROVE  (n >= 0 => x[1] >= 0) /\ (n > 0 => x[1] > 0)
<1> DEFINE a == x[1]
           b == x[2]
<1>1. a \in Int /\ b \in Int /\ b > 0 /\ d \in Int /\ d > 0 /\ a * d = n * b
  BY FractionParts DEF Is, Positive
<1> HIDE DEF a, b
<1>2. (n >= 0 => n * b >= 0) /\ (n > 0 => n * b > 0)
  BY <1>1
<1>3. (a < 0 => a * d < 0) /\ (a <= 0 => a * d <= 0)
  BY <1>1
<1>4. (n >= 0 => a >= 0) /\ (n > 0 => a > 0)
  BY <1>1, <1>2, <1>3
<1> QED BY <1>4 DEF a, b

(* Integers are fractions. *)
LEMMA WholeIs ==
    ASSUME NEW k \in Int
    PROVE  Is(<<k, 1>>, k, 1) /\ IsFraction(<<k, 1>>) /\ 1 \in Positive
  BY DEF Is, IsFraction, Positive

LEMMA BuyBalanced ==
    ASSUME NEW a, AccountType(a), NEW c \in Int, Balanced(a, c),
           NEW q \in Positive, NEW p \in Positive
    PROVE  AccountType(RecordBuy(a, q, p)) /\ Balanced(RecordBuy(a, q, p), c - q * p)
<1> DEFINE b    == RecordBuy(a, q, p)
           inv  == a.inventory
           old  == Times(Max({inv, 0}), a.avg_cost)
           tot  == Add(old, <<p * q, 1>>)
           new  == inv + q
           cost == Frac(tot[1], tot[2] * new)
           c1   == a.avg_cost[1]
           c2   == a.avg_cost[2]
           r    == a.realized_pnl
<1>1. /\ inv \in Nat /\ new \in Positive /\ q \in Int /\ q > 0 /\ p \in Int /\ p > 0
      /\ p * q \in Int /\ p * q > 0
  BY DEF AccountType, Balanced, Positive
<1>2. /\ c1 \in Int /\ c1 >= 0 /\ c2 \in Positive /\ c2 \in Int
      /\ Is(a.avg_cost, c1, c2) /\ Is(r, c * c2 + inv * c1, c2)
  BY FractionParts DEF AccountType, Balanced
<1>3. Max({inv, 0}) = inv
  BY <1>1 DEF Max
<1>4. Is(old, inv * c1, c2) /\ inv * c1 \in Int /\ inv * c1 >= 0
  <2>1. inv \in Int
    BY <1>1
  <2> HIDE DEF inv, c1, c2
  <2>2. Is(old, inv * c1, c2)
    BY <1>2, <1>3, <2>1, TimesIs
  <2> QED BY <1>1, <1>2, <2>2
<1>5. Is(tot, inv * c1 + (p * q) * c2, c2)
  <2> DEFINE m == p * q
             n == inv * c1
  <2>1. m \in Int /\ n \in Int
    BY <1>1, <1>4
  <2> HIDE DEF m, n, c2, old
  <2>2. Is(Add(old, <<m, 1>>), n * 1 + m * c2, c2 * 1)
    <3>1. Is(<<m, 1>>, m, 1) /\ 1 \in Positive /\ 1 \in Int
      BY <2>1, WholeIs
    <3>2. Is(old, n, c2)
      BY <1>4 DEF n
    <3> QED BY <1>2, <2>1, <3>1, <3>2, AddIs
  <2>3. n * 1 + m * c2 = n + m * c2 /\ c2 * 1 = c2
    BY <1>2, <2>1
  <2> QED BY <2>2, <2>3 DEF m, n
<1>6. /\ b.inventory = new /\ b.avg_cost = cost /\ b.realized_pnl = r
      /\ DOMAIN b = DOMAIN a
  <2>1. new > 0
    BY <1>1 DEF Positive
  <2>2. {"inventory", "avg_cost", "realized_pnl", "fill_count"} \subseteq DOMAIN a
    BY DEF AccountType, NewAccount
  <2> HIDE DEF cost, new
  <2>3. b = [a EXCEPT !.fill_count = @ + 1, !.inventory = new, !.avg_cost = cost]
    BY <2>1 DEF RecordBuy, cost, new
  <2> QED BY <2>2, <2>3
<1> DEFINE T  == inv * c1 + (p * q) * c2
           t1 == tot[1]
           t2 == tot[2]
           k1 == cost[1]
           k2 == cost[2]
<1>7. T \in Int /\ T > 0
  <2> DEFINE m == p * q
             n == inv * c1
  <2>1. m \in Int /\ m > 0 /\ n \in Int /\ n >= 0 /\ c2 \in Int /\ c2 > 0
    BY <1>1, <1>2, <1>4 DEF Positive
  <2> HIDE DEF m, n, c2
  <2>2. n + m * c2 \in Int /\ n + m * c2 > 0
    <3>1. m * c2 \in Int /\ m * c2 > 0
      BY <2>1
    <3> QED BY <2>1, <3>1
  <2> QED BY <2>2 DEF m, n
<1>8. Is(tot, T, c2)
  BY <1>5
<1> HIDE DEF T
<1>9. /\ t1 \in Int /\ t1 > 0 /\ t2 \in Positive /\ t2 \in Int
      /\ t1 * c2 = T * t2
  <2>1. t1 \in Int /\ t2 \in Positive /\ t2 \in Int
    BY <1>8, FractionParts DEF Is
  <2>2. t1 > 0
    BY <1>2, <1>7, <1>8, PositiveValue
  <2> QED BY <1>8, <2>1, <2>2 DEF Is
<1>10. Is(cost, t1, t2 * new) /\ t2 * new \in Positive
  BY <1>1, <1>9, FracIs, TimesPositive
<1> HIDE DEF cost, t1, t2
<1>11. /\ k1 \in Int /\ k1 > 0 /\ k2 \in Positive /\ k2 \in Int
       /\ k1 * (t2 * new) = t1 * k2
  <2>1. k1 \in Int /\ k2 \in Positive /\ k2 \in Int
    BY <1>10, FractionParts DEF Is
  <2>2. k1 > 0
    BY <1>9, <1>10, PositiveValue
  <2> QED BY <1>10, <2>1, <2>2 DEF Is
<1> HIDE DEF k1, k2
<1>12. (new * k1) * c2 = T * k2
  <2>1. new \in Int
    BY <1>1
  <2> HIDE DEF new, c2
  <2>2. ((new * k1) * c2) * t2 = (k1 * (t2 * new)) * c2
    BY <1>2, <1>9, <1>11, <2>1
  <2>3. (t1 * k2) * c2 = (t1 * c2) * k2
    BY <1>2, <1>9, <1>11
  <2>4. (T * t2) * k2 = (T * k2) * t2
    BY <1>7, <1>9, <1>11
  <2>5. ((new * k1) * c2) * t2 = (T * k2) * t2
    BY <1>9, <1>11, <2>2, <2>3, <2>4
  <2>6. (new * k1) * c2 \in Int /\ T * k2 \in Int
    BY <1>2, <1>7, <1>11, <2>1
  <2> QED BY <1>9, <2>5, <2>6, Cancel
<1>13. Is(r, (c - q * p) * k2 + new * k1, k2)
  <2>1. new \in Int /\ inv \in Int
    BY <1>1
  <2> DEFINE n == c * c2 + inv * c1
             m == (c - q * p) * k2 + new * k1
  <2>2. n \in Int
    <3> HIDE DEF c1, c2, inv
    <3> QED BY <1>2, <2>1
  <2>3. m \in Int
    <3> HIDE DEF new
    <3> QED BY <1>1, <1>11, <2>1
  <2>4. n * k2 = m * c2
    <3> DEFINE x == p * q
               y == inv * c1
               z == new * k1
    <3>1. x \in Int /\ y \in Int /\ z \in Int /\ q * p = x
      <4> HIDE DEF c1, new
      <4> QED BY <1>1, <1>4, <1>11, <2>1
    <3>2. z * c2 = T * k2 /\ T = y + x * c2
      BY <1>12 DEF T
    <3> HIDE DEF x, y, z, c2
    <3>3. n = c * c2 + y /\ m = (c - x) * k2 + z
      BY <3>1 DEF y, z
    <3> HIDE DEF n, m
    <3>4. n * k2 = c * c2 * k2 + y * k2
      BY <1>2, <1>11, <3>1, <3>3
    <3>5. m * c2 = (c - x) * k2 * c2 + z * c2
      BY <1>2, <1>11, <3>1, <3>3
    <3>6. T * k2 = y * k2 + x * c2 * k2
      BY <1>2, <1>11, <3>1, <3>2
    <3>7. (c - x) * k2 * c2 + (y * k2 + x * c2 * k2) = c * c2 * k2 + y * k2
      BY <1>2, <1>11, <3>1
    <3> QED BY <3>2, <3>4, <3>5, <3>6, <3>7
  <2>5. Is(r, n, c2)
    BY <1>2
  <2> HIDE DEF n, m, c2
  <2>6. Is(r, m, k2)
    BY <1>2, <1>11, <2>2, <2>3, <2>4, <2>5, IsSame
  <2> QED BY <2>6 DEF m
<1>14. AccountType(b)
  <2>1. IsFraction(cost) /\ IsFraction(r) /\ DOMAIN a = DOMAIN NewAccount
    BY <1>2, <1>10 DEF Is, AccountType
  <2>2. new \in Int
    BY <1>1
  <2> HIDE DEF b, r, new
  <2> QED BY <1>6, <2>1, <2>2 DEF AccountType
<1>15. Balanced(b, c - q * p)
  <2>1. new >= 0
    BY <1>1
  <2>2. b.avg_cost[1] = k1 /\ b.avg_cost[2] = k2 /\ b.inventory = new /\ b.realized_pnl = r
    BY <1>6 DEF k1, k2
  <2> HIDE DEF b, r, new
  <2>3. k1 >= 0
    BY <1>11
  <2> QED BY <1>11, <1>13, <2>1, <2>2, <2>3 DEF Balanced
<1> QED BY <1>14, <1>15

(* A sale of shares that are held. *)
LEMMA SellBalanced ==
    ASSUME NEW a, AccountType(a), NEW c \in Int, Balanced(a, c),
           NEW q \in Positive, NEW p \in Positive, q <= a.inventory
    PROVE  AccountType(RecordSell(a, q, p)) /\ Balanced(RecordSell(a, q, p), c + q * p)
<1> DEFINE b    == RecordSell(a, q, p)
           inv  == a.inventory
           gain == Times(Min({q, Max({inv, 0})}), Sub(<<p, 1>>, a.avg_cost))
           c1   == a.avg_cost[1]
           c2   == a.avg_cost[2]
           r    == a.realized_pnl
           new  == Add(r, gain)
<1>1. /\ inv \in Nat /\ inv - q \in Nat /\ q \in Int /\ q > 0 /\ p \in Int
      /\ inv \in Int /\ inv > 0 /\ inv - q \in Int
  BY DEF AccountType, Balanced, Positive
<1>2. /\ c1 \in Int /\ c1 > 0 /\ c2 \in Positive /\ c2 \in Int
      /\ Is(a.avg_cost, c1, c2) /\ Is(r, c * c2 + inv * c1, c2)
  BY <1>1, FractionParts DEF AccountType, Balanced
<1>3. Min({q, Max({inv, 0})}) = q
  <2>1. Max({inv, 0}) = inv
    BY <1>1 DEF Max
  <2>2. Min({q, inv}) = q
    BY <1>1 DEF Min
  <2> HIDE DEF inv
  <2> QED BY <2>1, <2>2
<1>4. Is(gain, q * (p * c2 - c1), c2)
  <2> HIDE DEF c1, c2
  <2>1. Is(<<p, 1>>, p, 1) /\ 1 \in Positive
    BY <1>1, WholeIs
  <2>2. Is(Sub(<<p, 1>>, a.avg_cost), p * c2 - c1 * 1, 1 * c2)
    <3> DEFINE x == <<p, 1>>
    <3>1. Is(x, p, 1) /\ 1 \in Positive
      BY <2>1
    <3> HIDE DEF x
    <3>2. Is(Sub(x, a.avg_cost), p * c2 - c1 * 1, 1 * c2)
      BY <1>1, <1>2, <3>1, SubIs
    <3> QED BY <3>2 DEF x
  <2>3. p * c2 - c1 * 1 = p * c2 - c1 /\ 1 * c2 = c2
    BY <1>1, <1>2
  <2> DEFINE s == Sub(<<p, 1>>, a.avg_cost)
             n == p * c2 - c1
  <2>4. Is(s, n, c2)
    BY <2>2, <2>3
  <2>5. n \in Int
    BY <1>1, <1>2
  <2> HIDE DEF s, n
  <2>6. Is(Times(q, s), q * n, c2)
    BY <1>1, <1>2, <2>4, <2>5, TimesIs
  <2>7. gain = Times(q, s)
    BY <1>3 DEF s
  <2> HIDE DEF gain
  <2> QED BY <2>6, <2>7 DEF n
<1> DEFINE n == c * c2 + inv * c1
           m == q * (p * c2 - c1)
           w == (c + q * p) * c2 + (inv - q) * c1
<1>5. n \in Int /\ m \in Int /\ w \in Int /\ w = n + m
  <2> HIDE DEF c1, c2, inv
  <2> QED BY <1>1, <1>2
<1>6. Is(gain, m, c2) /\ Is(r, n, c2)
  BY <1>2, <1>4
<1> HIDE DEF n, m, w, gain, r, c2, c1
<1>7. Is(new, w, c2)
  <2>1. Is(new, n * c2 + m * c2, c2 * c2)
    BY <1>2, <1>5, <1>6, AddIs
  <2>2. (n * c2 + m * c2) * c2 = w * (c2 * c2)
    BY <1>2, <1>5
  <2>3. n * c2 + m * c2 \in Int /\ c2 * c2 \in Positive
    BY <1>2, <1>5, TimesPositive
  <2> HIDE DEF new
  <2> QED BY <1>2, <1>5, <2>1, <2>2, <2>3, IsSame
<1>8. /\ b.inventory = inv - q /\ b.avg_cost = a.avg_cost /\ b.realized_pnl = new
      /\ DOMAIN b = DOMAIN a
  <2>1. {"inventory", "avg_cost", "realized_pnl", "fill_count", "closing_trades"} \subseteq DOMAIN a
    BY DEF AccountType, NewAccount
  <2> DEFINE x == Min({q, Max({inv, 0})})
  <2>2. b = [a EXCEPT !.fill_count = @ + 1, !.inventory = @ - q, !.realized_pnl = new,
                      !.closing_trades = @ + x]
    BY Zenon DEF RecordSell, gain, r
  <2> HIDE DEF b, new, x
  <2> QED BY <2>1, <2>2
<1> HIDE DEF b, new
<1>9. AccountType(b)
  <2>1. IsFraction(new) /\ IsFraction(a.avg_cost) /\ DOMAIN a = DOMAIN NewAccount
    BY <1>7 DEF Is, AccountType
  <2> QED BY <1>1, <1>8, <2>1 DEF AccountType
<1>10. Balanced(b, c + q * p)
  <2>1. b.avg_cost[1] = c1 /\ b.avg_cost[2] = c2
    BY <1>8 DEF c1, c2
  <2>2. b.inventory >= 0 /\ c1 >= 0
    BY <1>1, <1>2, <1>8
  <2>3. (c + q * p) * c2 + b.inventory * c1 = w
    BY <1>8 DEF w
  <2> QED BY <1>2, <1>7, <1>8, <2>1, <2>2, <2>3 DEF Balanced
<1> QED BY <1>9, <1>10 DEF b

(* total_pnl at any mid price. *)
LEMMA BalancedPnl ==
    ASSUME NEW a, AccountType(a), NEW c \in Int, Balanced(a, c), NEW mid \in Int
    PROVE  TotalPnl(a, mid) = <<c + a.inventory * mid, 1>>
<1> DEFINE inv == a.inventory
           c1  == a.avg_cost[1]
           c2  == a.avg_cost[2]
           r   == a.realized_pnl
           u   == UnrealizedPnl(a, mid)
           k   == c + inv * mid
<1>1. inv \in Int /\ inv >= 0
  BY DEF AccountType, Balanced
<1>2. /\ c1 \in Int /\ (inv > 0 => c1 > 0) /\ c2 \in Positive /\ c2 \in Int
      /\ Is(a.avg_cost, c1, c2) /\ Is(r, c * c2 + inv * c1, c2)
      /\ IsFraction(r)
  BY FractionParts DEF AccountType, Balanced
<1>3. k \in Int
  <2> HIDE DEF inv
  <2> QED BY <1>1
<1>4. TotalPnl(a, mid) = Add(r, u)
  BY DEF TotalPnl
<1>5. CASE inv = 0
  <2>1. u = Zero
    BY <1>5 DEF UnrealizedPnl
  <2>2. Is(u, 0, 1) /\ IsFraction(u) /\ 1 \in Positive
    BY <2>1, WholeIs DEF Zero
  <2> HIDE DEF r, u, c1, c2, inv
  <2>3. Is(r, c, 1)
    <3> DEFINE n == c * c2 + inv * c1
    <3>1. n \in Int /\ n * 1 = c * c2
      BY <1>1, <1>2, <1>5
    <3>2. Is(r, n, c2)
      BY <1>2
    <3> HIDE DEF n
    <3> QED BY <1>2, <2>2, <3>1, <3>2, IsSame
  <2>4. Is(Add(r, u), c * 1 + 0 * 1, 1 * 1)
    BY <2>2, <2>3, AddIs
  <2>5. c * 1 + 0 * 1 = k /\ 1 * 1 = 1
    BY <1>5
  <2> HIDE DEF k
  <2>6. Is(Add(r, u), k, 1)
    BY <2>4, <2>5
  <2>7. Add(r, u) = <<k, 1>>
    BY <1>2, <1>3, <2>2, <2>6, AddWhole
  <2> QED BY <1>4, <2>7 DEF k, inv
<1>6. CASE inv > 0
  <2>1. u = Times(inv, Sub(<<mid, 1>>, a.avg_cost))
    <3>1. c1 > 0
      BY <1>2, <1>6
    <3>2. a.avg_cost # Zero
      BY <3>1 DEF Zero
    <3> QED BY <1>6, <3>2 DEF UnrealizedPnl
  <2> DEFINE x == <<mid, 1>>
             n == mid * c2 - c1
             m == inv * n
             v == c * c2 + inv * c1
  <2>2. Is(x, mid, 1) /\ 1 \in Positive
    BY WholeIs
  <2>3. n \in Int /\ m \in Int /\ v \in Int
    <3> HIDE DEF inv, c1, c2
    <3> QED BY <1>1, <1>2
  <2>4. (v + m) = k * c2
    <3> HIDE DEF inv, c1, c2
    <3> QED BY <1>1, <1>2
  <2>5. Is(r, v, c2)
    BY <1>2
  <2> HIDE DEF x, r, u, c1, c2, inv, m, v
  <2>6. Is(Sub(x, a.avg_cost), n, c2)
    <3>1. Is(Sub(x, a.avg_cost), mid * c2 - c1 * 1, 1 * c2)
      BY <1>2, <2>2, SubIs
    <3>2. mid * c2 - c1 * 1 = n /\ 1 * c2 = c2
      BY <1>2
    <3> HIDE DEF n
    <3> QED BY <3>1, <3>2
  <2> HIDE DEF n
  <2>7. Is(u, m, c2)
    <3>1. Is(Times(inv, Sub(x, a.avg_cost)), inv * n, c2)
      BY <1>1, <1>2, <2>3, <2>6, TimesIs
    <3> QED BY <2>1, <3>1 DEF m, x
  <2> HIDE DEF k
  <2>8. Is(Add(r, u), k, 1)
    <3>1. Is(Add(r, u), v * c2 + m * c2, c2 * c2)
      BY <1>2, <2>3, <2>5, <2>7, AddIs
    <3>2. (v * c2 + m * c2) * 1 = k * (c2 * c2)
      <4>1. v * c2 + m * c2 = (v + m) * c2
        BY <1>2, <2>3
      <4>2. (k * c2) * c2 = k * (c2 * c2)
        BY <1>2, <1>3
      <4>3. v * c2 + m * c2 \in Int
        BY <1>2, <2>3
      <4> QED BY <2>4, <4>1, <4>2, <4>3
    <3>3. v * c2 + m * c2 \in Int /\ c2 * c2 \in Positive
      BY <1>2, <2>3, TimesPositive
    <3> QED BY <1>3, <2>2, <3>1, <3>2, <3>3, IsSame
  <2>9. IsFraction(u)
    BY <2>7 DEF Is
  <2>10. Add(r, u) = <<k, 1>>
    BY <1>2, <1>3, <2>8, <2>9, AddWhole
  <2> QED BY <1>4, <2>10 DEF k, inv
<1> QED BY <1>1, <1>5, <1>6

PnlInv ==
    ~short =>
        /\ AccountType(account)
        /\ cash \in Int
        /\ Balanced(account, cash)

LEMMA FillPnl ==
    ASSUME PnlInv, NEW side, NEW q \in 1..trade_qty, NEW p \in FillPrice, Fill(side, q, p)
    PROVE  PnlInv'
<1>1. /\ account' = RecordFill(account, side, q, p)
      /\ cash' = cash - Signed(side, q * p)
      /\ short' = (short \/ account'.inventory < 0)
  BY DEF Fill
<1> SUFFICES ASSUME ~short' PROVE PnlInv'
  BY DEF PnlInv
<1> DEFINE a == account
<1>2. ~short /\ ~(account'.inventory < 0)
  BY <1>1
<1>3. AccountType(a) /\ cash \in Int /\ Balanced(a, cash)
  BY <1>2 DEF PnlInv
<1>4. q \in Positive /\ p \in Positive /\ q * p \in Int
  BY PriceAssumption, WindowAssumption DEF Positive
<1> HIDE DEF a
<1>5. CASE side = "BUY"
  <2>1. account' = RecordBuy(a, q, p) /\ cash' = cash - q * p
    BY <1>1, <1>5 DEF RecordFill, Signed, a
  <2>2. AccountType(account') /\ Balanced(account', cash')
    BY <1>3, <1>4, <2>1, BuyBalanced
  <2>3. cash' \in Int
    BY <1>3, <1>4, <2>1
  <2> QED BY <2>2, <2>3 DEF PnlInv
<1>6. CASE side # "BUY"
  <2>1. account' = RecordSell(a, q, p) /\ cash' = cash - (-(q * p))
    BY <1>1, <1>6 DEF RecordFill, Signed, a
  <2>2. cash' = cash + q * p /\ cash' \in Int
    BY <1>3, <1>4, <2>1
  <2>3. account'.inventory = a.inventory - q
    <3>1. "inventory" \in DOMAIN a
      BY <1>3 DEF AccountType, NewAccount
    <3> QED BY <2>1, <3>1 DEF RecordSell
  <2>4. q <= a.inventory
    <3>1. a.inventory \in Int /\ q \in Int
      BY <1>3, <1>4 DEF AccountType, Positive
    <3> QED BY <1>2, <2>3, <3>1
  <2>5. AccountType(account') /\ Balanced(account', cash')
    BY <1>3, <1>4, <2>1, <2>2, <2>4, SellBalanced
  <2> QED BY <2>2, <2>5 DEF PnlInv
<1> QED BY <1>5, <1>6

LEMMA PnlNextInv == PnlInv /\ [TradersNext]_traderVars => PnlInv'
<1> SUFFICES ASSUME PnlInv, [TradersNext]_traderVars PROVE PnlInv'
  OBVIOUS
<1>1. ASSUME account' = account, cash' = cash, short' = short
      PROVE  PnlInv'
  BY <1>1 DEF PnlInv
<1>2. CASE NoMidPrice
  BY <1>1, <1>2 DEF NoMidPrice, Tick, history
<1>3. ASSUME NEW mid \in MidPrice \ {0}, MomentumTick(mid) \/ ReversionTick(mid)
      PROVE  PnlInv'
  BY <1>1, <1>3, Zenon DEF MomentumTick, ReversionTick, Tick, history
<1>4. ASSUME NEW mid \in MidPrice \ {0}, MakerTick(mid)
      PROVE  PnlInv'
  <2>1. account' = RecordPnlSample(account, mid) /\ cash' = cash /\ short' = short
    BY <1>4 DEF MakerTick, Tick, history
  <2> DEFINE a == account
             b == RecordPnlSample(a, mid)
  <2>2. /\ DOMAIN b = DOMAIN a /\ b.inventory = a.inventory
        /\ b.realized_pnl = a.realized_pnl /\ b.avg_cost = a.avg_cost
    BY DEF RecordPnlSample
  <2>3. account' = b
    BY <2>1
  <2> HIDE DEF b
  <2> QED BY <2>1, <2>2, <2>3 DEF PnlInv, AccountType, Balanced
<1>5. ASSUME NEW side \in {"BUY", "SELL"}, NEW q \in 1..trade_qty, NEW p \in FillPrice,
             MakerFill(side, q, p)
      PROVE  PnlInv'
  BY <1>5, FillPnl DEF MakerFill
<1>6. ASSUME NEW i \in DOMAIN open, NEW q \in 1..trade_qty, NEW p \in FillPrice,
             OrderFill(i, q, p)
      PROVE  PnlInv'
  <2>1. Fill(open[i].side, q, p)
    BY <1>6 DEF OrderFill
  <2> QED BY <2>1, FillPnl
<1>7. ASSUME NEW i \in DOMAIN open, Discard(i)
      PROVE  PnlInv'
  BY <1>1, <1>7 DEF Discard, history
<1>8. CASE UNCHANGED traderVars
  BY <1>1, <1>8 DEF traderVars, history
<1> QED BY <1>2, <1>3, <1>4, <1>5, <1>6, <1>7, <1>8 DEF TradersNext

(* PnlAddsUp for all quantities and prices: whatever an agent buys and     *)
(* sells, as long as it has never been short, the profit that record_fill  *)
(* and total_pnl compute from an average cost is the cash taken in plus    *)
(* the shares held at the mid price.                                       *)
THEOREM AverageCostAddsUp == TradersSpec => []PnlAddsUp
<1>1. TradersInit => PnlInv
  <2> SUFFICES ASSUME TradersInit PROVE PnlInv
    OBVIOUS
  <2>1. account = NewAccount /\ cash = 0
    BY DEF TradersInit
  <2>2. Zero[1] = 0 /\ Zero[2] = 1 /\ IsFraction(Zero)
    BY WholeIs DEF Zero
  <2>3. /\ NewAccount.inventory = 0 /\ NewAccount.realized_pnl = Zero
        /\ NewAccount.avg_cost = Zero
    BY DEF NewAccount
  <2>4. Is(Zero, 0 * 1 + 0 * 0, 1)
    BY <2>2 DEF Is
  <2> HIDE DEF Zero, NewAccount
  <2>5. AccountType(NewAccount)
    BY <2>2, <2>3 DEF AccountType
  <2>6. Balanced(NewAccount, 0)
    BY <2>2, <2>3, <2>4 DEF Balanced
  <2> QED BY <2>1, <2>5, <2>6 DEF PnlInv
<1>2. PnlInv => PnlAddsUp
  <2> SUFFICES ASSUME PnlInv, ~short, NEW mid \in MidPrice \ {0}
               PROVE  TotalPnl(account, mid) = <<cash + account.inventory * mid, 1>>
    BY DEF PnlAddsUp
  <2>1. mid \in Int
    BY PriceAssumption
  <2> QED BY <2>1, BalancedPnl DEF PnlInv
<1> QED BY <1>1, <1>2, PnlNextInv, PTL DEF TradersSpec

----------------------------------------------------------------------------
(* Lowest terms: Frac writes equal values in the same way.  Its            *)
(* denominator is the least one the value can be written with.             *)
Lowest(x) == \E n \in Int, d \in Positive : x = Frac(n, d)

Denominators(n, d) == {b \in Positive : \E a \in Int : a * d = n * b}

LEMMA LeastDenominator ==
    ASSUME NEW n \in Int, NEW d \in Positive
    PROVE  /\ Frac(n, d)[2] \in Denominators(n, d)
           /\ \A b \in Denominators(n, d) : Frac(n, d)[2] <= b
<1> DEFINE S == Denominators(n, d)
           g == Max(Common(n, d))
           y == d \div g
<1>0. d \in Int /\ d > 0
  BY DEF Positive
<1>1. g \in Positive /\ g \in Int /\ d % g = 0 /\ \A k \in Common(n, d) : k <= g
  <2>1. g \in Common(n, d) /\ \A k \in Common(n, d) : k <= g
    BY CommonMax
  <2> HIDE DEF g
  <2> QED BY <2>1 DEF Common, Positive
<1>2. Frac(n, d)[2] = y
  BY DEF Frac, Common
<1>3. y \in Positive /\ y \in Int /\ d = y * g
  <2> HIDE DEF g
  <2> QED BY <1>1, DivPositive DEF Positive
<1>4. y \in S
  <2>1. Is(Frac(n, d), n, d)
    BY FracIs
  <2> DEFINE z == Frac(n, d)
  <2>2. z[1] * d = n * z[2] /\ z[1] \in Int
    BY <2>1, FractionParts DEF Is
  <2> HIDE DEF z
  <2>3. z[2] = y
    BY <1>2 DEF z
  <2> QED BY <1>3, <2>2, <2>3 DEF Denominators
<1>5. PICK b \in S : \A c \in S : b <= c
  <2>1. S \in SUBSET Nat /\ S # {}
    BY <1>4 DEF Denominators, Positive
  <2> HIDE DEF S
  <2> QED BY <2>1, LeastNat
<1>6. b \in Positive /\ b \in Int /\ b > 0 /\ \E a \in Int : a * d = n * b
  BY DEF Denominators, Positive
<1>7. PICK a \in Int : a * d = n * b
  BY <1>6
<1> HIDE DEF S, g, y
<1> DEFINE k == d \div b
           r == d % b
<1>8. k \in Int /\ k >= 0 /\ r \in Int /\ 0 <= r /\ r < b /\ d = b * k + r
  BY <1>0, <1>6
<1> HIDE DEF k, r
<1>9. r = 0
  <2> SUFFICES ASSUME r > 0 PROVE FALSE
    BY <1>8
  <2> DEFINE e == n - k * a
  <2>1. e \in Int
    BY <1>8
  <2>2. e * d = n * r
    <3>1. e * d = n * d - k * (a * d)
      BY <1>0, <1>8
    <3>2. k * (n * b) = n * (b * k)
      BY <1>6, <1>8
    <3>3. n * d = n * (b * k) + n * r
      BY <1>6, <1>8
    <3> QED BY <1>0, <1>6, <1>7, <1>8, <3>1, <3>2, <3>3
  <2>3. r \in Positive
    BY <1>8 DEF Positive
  <2> HIDE DEF e
  <2>4. r \in S
    BY <2>1, <2>2, <2>3 DEF S, Denominators
  <2>5. b <= r
    BY <1>5, <2>4
  <2> QED BY <1>6, <1>8, <2>5
<1>10. d = b * k /\ k > 0 /\ k \in Positive
  <2>1. d = b * k
    BY <1>0, <1>6, <1>8, <1>9
  <2>2. k # 0
    BY <1>0, <1>6, <2>1
  <2> QED BY <1>8, <2>1, <2>2 DEF Positive
<1>11. n = a * k
  <2>1. n * b = (a * k) * b
    <3>1. a * (b * k) = (a * k) * b
      BY <1>6, <1>8
    <3> QED BY <1>7, <1>10, <3>1
  <2>2. a * k \in Int
    BY <1>8
  <2> QED BY <1>6, <2>1, <2>2, Cancel
<1>12. k <= g
  <2>1. n % k = 0
    BY <1>10, <1>11 DEF Positive
  <2>2. d % k = 0
    BY <1>6, <1>10 DEF Positive
  <2>3. k \in 1..d
    <3>1. b * k >= k
      BY <1>6, <1>10
    <3> QED BY <1>0, <1>8, <1>10, <3>1
  <2> QED BY <1>1, <2>1, <2>2, <2>3 DEF Common
<1>13. y <= b
  <2> SUFFICES ASSUME y > b PROVE FALSE
    BY <1>3, <1>6
  <2>1. y * g > b * g
    BY <1>1, <1>3, <1>6 DEF Positive
  <2>2. b * g >= b * k
    BY <1>1, <1>6, <1>8, <1>12
  <2> QED BY <1>0, <1>1, <1>3, <1>6, <1>8, <1>10, <2>1, <2>2
<1>14. \A c \in S : c \in Int
  BY DEF S, Denominators, Positive
<1>15. \A c \in S : y <= c
  BY <1>3, <1>5, <1>6, <1>13, <1>14
<1> QED BY <1>2, <1>4, <1>15 DEF S

LEMMA LowestUnique ==
    ASSUME NEW x, Lowest(x), NEW y, Lowest(y),
           NEW n \in Int, NEW d \in Positive, Is(x, n, d), Is(y, n, d)
    PROVE  x = y
<1>1. ASSUME NEW z, Lowest(z), Is(z, n, d)
      PROVE  /\ z[2] \in Denominators(n, d)
             /\ \A b \in Denominators(n, d) : z[2] <= b
  <2>1. PICK m \in Int, e \in Positive : z = Frac(m, e)
    BY <1>1 DEF Lowest
  <2>2. Is(z, m, e) /\ z[1] \in Int /\ z[2] \in Positive /\ z[2] \in Int
    BY <2>1, FracIs, FractionParts DEF Is
  <2>3. n * e = m * d
    <3> DEFINE a == z[1]
               b == z[2]
    <3>1. a \in Int /\ b \in Positive /\ b \in Int /\ a * e = m * b /\ a * d = n * b
          /\ d \in Int /\ e \in Int
      BY <1>1, <2>2 DEF Is, Positive
    <3> HIDE DEF a, b
    <3>2. (n * e) * b = (m * d) * b
      <4>1. (n * b) * e = (n * e) * b /\ (a * d) * e = (a * e) * d /\ (m * b) * d = (m * d) * b
        BY <3>1
      <4> QED BY <3>1, <4>1
    <3> DEFINE u == n * e
               v == m * d
    <3>3. u \in Int /\ v \in Int /\ u * b = v * b
      BY <3>1, <3>2
    <3> HIDE DEF u, v
    <3>4. u = v
      BY <3>1, <3>3, Cancel
    <3> QED BY <3>4 DEF u, v
  <2>4. ASSUME NEW b \in Positive
        PROVE  (\E a \in Int : a * d = n * b) <=> (\E a \in Int : a * e = m * b)
    <3>0. d \in Int /\ e \in Int /\ b \in Int
      BY DEF Positive
    <3>1. ASSUME NEW a \in Int, a * d = n * b
          PROVE  a * e = m * b
      <4>1. (a * e) * d = (m * b) * d
        <5>1. (a * d) * e = (a * e) * d /\ (n * b) * e = (n * e) * b /\ (m * d) * b = (m * b) * d
          BY <3>0
        <5> QED BY <2>3, <3>1, <5>1
      <4>2. a * e \in Int /\ m * b \in Int
        BY <3>0
      <4> QED BY <4>1, <4>2, Cancel
    <3>2. ASSUME NEW a \in Int, a * e = m * b
          PROVE  a * d = n * b
      <4>1. (a * d) * e = (n * b) * e
        <5>1. (a * d) * e = (a * e) * d /\ (n * b) * e = (n * e) * b /\ (m * d) * b = (m * b) * d
          BY <3>0
        <5> QED BY <2>3, <3>2, <5>1
      <4>2. a * d \in Int /\ n * b \in Int
        BY <3>0
      <4> QED BY <4>1, <4>2, Cancel
    <3> QED BY <3>1, <3>2
  <2>5. Denominators(n, d) = Denominators(m, e)
    BY <2>4, Zenon DEF Denominators
  <2> QED BY <2>1, <2>5, LeastDenominator
<1>2. x[2] \in Denominators(n, d) /\ \A b \in Denominators(n, d) : x[2] <= b
  BY <1>1
<1>3. y[2] \in Denominators(n, d) /\ \A b \in Denominators(n, d) : y[2] <= b
  BY <1>1
<1>4. /\ x[1] \in Int /\ x[2] \in Positive /\ x[2] \in Int
      /\ y[1] \in Int /\ y[2] \in Positive /\ y[2] \in Int
      /\ x = <<x[1], x[2]>> /\ y = <<y[1], y[2]>>
  BY FractionParts DEF Is, IsFraction
<1>5. x[2] = y[2]
  BY <1>2, <1>3, <1>4
<1>6. x[1] = y[1]
  <2> DEFINE a == x[1]
             b == y[1]
  <2>1. a * d = b * d /\ a \in Int /\ b \in Int
    BY <1>4, <1>5 DEF Is
  <2> HIDE DEF a, b
  <2>2. a = b
    BY <2>1, Cancel
  <2> QED BY <2>2 DEF a, b
<1> QED BY <1>4, <1>5, <1>6

----------------------------------------------------------------------------
(* The sum of a sequence of returns.                                       *)
Total(s) == FoldLeft(Add, Zero, s)

(* g has the totals of the subsequences of s with indices in 1..n. *)
Totals(g, s, n) ==
    g = [S \in SUBSET (1..n) |->
            IF S = {} THEN Zero ELSE Add(g[S \ {Max(S)}], s[Max(S)])]

LEMMA TotalsExist ==
    ASSUME NEW s, NEW n \in Nat
    PROVE  \E g : Totals(g, s, n)
<1> DEFINE Solved(k) == \E g : Totals(g, s, k)
           Bad == {k \in Nat : ~Solved(k)}
<1> SUFFICES ASSUME Bad # {} PROVE FALSE
  OBVIOUS
<1>1. PICK k \in Bad : \A m \in Bad : k <= m
  <2>1. Bad \in SUBSET Nat
    OBVIOUS
  <2> HIDE DEF Bad
  <2> QED BY <2>1, LeastNat
<1>2. k \in Nat /\ ~Solved(k)
  BY <1>1
<1>3. CASE k = 0
  <2> DEFINE g == [S \in SUBSET (1..0) |-> Zero]
  <2>1. SUBSET (1..0) = {{}}
    OBVIOUS
  <2>2. Totals(g, s, 0)
    BY <2>1, Zenon DEF Totals
  <2> QED BY <1>2, <1>3, <2>2
<1>4. CASE k # 0
  <2> DEFINE m == k - 1
  <2>1. m \in Nat /\ k = m + 1 /\ ~(k <= m)
    BY <1>2, <1>4
  <2>2. Solved(m)
    <3>1. m \notin Bad
      BY <1>1, <2>1
    <3> QED BY <2>1, <3>1
  <2> HIDE DEF m
  <2>3. PICK h : Totals(h, s, m)
    BY <2>2
  <2> DEFINE E(f, S) == IF S = {} THEN Zero ELSE Add(f[S \ {Max(S)}], s[Max(S)])
             g1 == [S \in SUBSET (1..k) |-> IF k \in S THEN Zero ELSE h[S]]
             g  == [S \in SUBSET (1..k) |-> E(g1, S)]
  <2>4. ASSUME NEW S \in SUBSET (1..k), k \notin S
        PROVE  S \in SUBSET (1..m)
    BY <1>2, <2>1, <2>4
  <2>5. ASSUME NEW S \in SUBSET (1..m)
        PROVE  g[S] = h[S]
    <3>1. S \in SUBSET (1..k) /\ k \notin S
      BY <2>1
    <3>2. CASE S = {}
      <4>1. h[S] = Zero
        BY <2>3, <2>5, <3>2, Zenon DEF Totals
      <4>2. g[S] = Zero
        BY <3>1, <3>2, Zenon
      <4> QED BY <4>1, <4>2
    <3>3. CASE S # {}
      <4>1. S \ {Max(S)} \in SUBSET (1..m) /\ S \ {Max(S)} \in SUBSET (1..k) /\ k \notin S \ {Max(S)}
        BY <3>1
      <4>2. h[S] = Add(h[S \ {Max(S)}], s[Max(S)])
        BY <2>3, <2>5, <3>3, Zenon DEF Totals
      <4>3. g[S] = Add(g1[S \ {Max(S)}], s[Max(S)])
        BY <3>1, <3>3, Zenon
      <4>4. g1[S \ {Max(S)}] = h[S \ {Max(S)}]
        BY <4>1, Zenon
      <4> QED BY <4>2, <4>3, <4>4
    <3> QED BY <3>2, <3>3
  <2>6. ASSUME NEW S \in SUBSET (1..k), S # {}
        PROVE  g1[S \ {Max(S)}] = g[S \ {Max(S)}]
    <3> DEFINE T == S \ {Max(S)}
    <3>1. Max(S) \in S /\ \A j \in S : j <= Max(S)
      BY <1>2, <2>6, MaxIn
    <3>2. k \notin T /\ T \in SUBSET (1..k)
      <4> DEFINE x == Max(S)
      <4>1. x \in 1..k /\ (k \in S => k <= x)
        BY <3>1
      <4> HIDE DEF x
      <4>2. k \in S => x = k
        BY <1>2, <4>1
      <4>3. T = S \ {x}
        BY DEF x
      <4> HIDE DEF T
      <4> QED BY <4>2, <4>3
    <3>3. T \in SUBSET (1..m)
      BY <2>4, <3>2
    <3> HIDE DEF T
    <3>4. g1[T] = h[T]
      BY <3>2, Zenon
    <3>5. g[T] = h[T]
      BY <2>5, <3>3
    <3> QED BY <3>4, <3>5 DEF T
  <2>7. \A S \in SUBSET (1..k) : E(g1, S) = E(g, S)
    <3> HIDE DEF g, g1
    <3> QED BY <2>6
  <2>8. Totals(g, s, k)
    <3>1. g = [S \in SUBSET (1..k) |-> E(g, S)]
      <4>1. g = [S \in SUBSET (1..k) |-> E(g1, S)]
        OBVIOUS
      <4> HIDE DEF g, g1, E
      <4> QED BY <2>7, <4>1, Zenon
    <3> HIDE DEF g
    <3> QED BY <3>1, Zenon DEF Totals
  <2> QED BY <1>2, <2>8
<1> QED BY <1>3, <1>4

(* The total of the first k returns depends on those only. *)
LEMMA TotalsAgree ==
    ASSUME NEW s, NEW n \in Nat, NEW g, Totals(g, s, n),
           NEW t, NEW m \in Nat, NEW h, Totals(h, t, m), n <= m,
           \A i \in 1..n : s[i] = t[i]
    PROVE  g[1..n] = h[1..n]
<1> DEFINE Same(k) == g[1..k] = h[1..k]
           Bad == {k \in 0..n : ~Same(k)}
<1> SUFFICES ASSUME Bad # {} PROVE FALSE
  BY DEF Same
<1>1. PICK k \in Bad : \A j \in Bad : k <= j
  <2>1. Bad \in SUBSET Nat
    OBVIOUS
  <2> HIDE DEF Bad
  <2> QED BY <2>1, LeastNat
<1>2. k \in 0..n /\ ~Same(k)
  BY <1>1
<1>3. k # 0
  <2> SUFFICES ASSUME k = 0 PROVE FALSE
    OBVIOUS
  <2>1. 1..k = {}
    OBVIOUS
  <2>2. g[{}] = Zero /\ h[{}] = Zero
    BY Zenon DEF Totals
  <2> QED BY <1>2, <2>1, <2>2
<1> DEFINE j == k - 1
<1>4. j \in 0..n /\ ~(k <= j) /\ k \in 1..n
  BY <1>2, <1>3
<1>5. Same(j)
  <2>1. j \notin Bad
    BY <1>1, <1>4
  <2> QED BY <1>4, <2>1
<1>6. Max(1..k) = k /\ (1..k) \ {Max(1..k)} = 1..j /\ 1..k # {}
      /\ 1..k \in SUBSET (1..n) /\ 1..k \in SUBSET (1..m)
  <2>1. k \in 1..k /\ (\A i \in 1..k : k >= i) /\ k \in Nat
    BY <1>4
  <2>2. \A i \in 1..k : (\A l \in 1..k : i >= l) => i = k
    BY <2>1
  <2>3. Max(1..k) = k
    BY <2>1, <2>2 DEF Max
  <2>4. (1..k) \ {k} = 1..j
    BY <2>1
  <2> QED BY <1>4, <2>1, <2>3, <2>4
<1>7. g[1..k] = Add(g[1..j], s[k])
  <2>1. g[1..k] = Add(g[(1..k) \ {Max(1..k)}], s[Max(1..k)])
    <3> DEFINE S == 1..k
    <3>1. S \in SUBSET (1..n) /\ S # {}
      BY <1>6
    <3> HIDE DEF S
    <3>2. g[S] = Add(g[S \ {Max(S)}], s[Max(S)])
      BY <3>1, Zenon DEF Totals
    <3> QED BY <3>2 DEF S
  <2> QED BY <1>6, <2>1
<1>8. h[1..k] = Add(h[1..j], t[k])
  <2>1. h[1..k] = Add(h[(1..k) \ {Max(1..k)}], t[Max(1..k)])
    <3> DEFINE S == 1..k
    <3>1. S \in SUBSET (1..m) /\ S # {}
      BY <1>6
    <3> HIDE DEF S
    <3>2. h[S] = Add(h[S \ {Max(S)}], t[Max(S)])
      BY <3>1, Zenon DEF Totals
    <3> QED BY <3>2 DEF S
  <2> QED BY <1>6, <2>1
<1>9. s[k] = t[k]
  BY <1>4
<1> QED BY <1>2, <1>5, <1>7, <1>8, <1>9

(* One more return. *)
LEMMA TotalIs ==
    ASSUME NEW s, NEW n \in Nat, DOMAIN s = 1..n
    PROVE  \E g : Totals(g, s, n) /\ Total(s) = g[1..n]
<1> DEFINE f == CHOOSE g : Totals(g, s, n)
<1>1. Totals(f, s, n)
  BY TotalsExist, Zenon
<1>2. Total(s) = f[1..n]
  BY Zenon DEF Total, FoldLeft, MapThenFoldSet, Totals, f
<1> QED BY <1>1, <1>2

LEMMA TotalNone == Total(<<>>) = Zero
<1>1. DOMAIN <<>> = 1..0 /\ 1..0 = {}
  OBVIOUS
<1>2. PICK g : Totals(g, <<>>, 0) /\ Total(<<>>) = g[1..0]
  BY <1>1, TotalIs
<1>3. g[{}] = Zero
  BY <1>2, Zenon DEF Totals
<1> QED BY <1>1, <1>2, <1>3

(* One more return. *)
LEMMA TotalAppend ==
    ASSUME NEW V, NEW s \in Seq(V), NEW x
    PROVE  Total(Append(s, x)) = Add(Total(s), x)
<1> DEFINE n == Len(s)
           t == Append(s, x)
<1>1. /\ n \in Nat /\ DOMAIN s = 1..n /\ DOMAIN t = 1..(n + 1)
      /\ t[n + 1] = x /\ \A i \in 1..n : s[i] = t[i]
  OBVIOUS
<1> HIDE DEF n, t
<1>2. PICK g : Totals(g, s, n) /\ Total(s) = g[1..n]
  BY <1>1, TotalIs
<1>3. PICK h : Totals(h, t, n + 1) /\ Total(t) = h[1..(n + 1)]
  <2> DEFINE m == n + 1
  <2>1. m \in Nat /\ DOMAIN t = 1..m
    BY <1>1
  <2> HIDE DEF m
  <2>2. \E h : Totals(h, t, m) /\ Total(t) = h[1..m]
    BY <2>1, TotalIs
  <2> QED BY <2>2 DEF m
<1>4. g[1..n] = h[1..n]
  <2>1. n + 1 \in Nat /\ n <= n + 1
    BY <1>1
  <2> QED BY <1>1, <1>2, <1>3, <2>1, TotalsAgree
<1> DEFINE S == 1..(n + 1)
<1>5. S # {} /\ Max(S) = n + 1 /\ S \ {n + 1} = 1..n
  <2>1. n + 1 \in S /\ \A i \in S : n + 1 >= i
    BY <1>1
  <2>2. \A i \in S : (\A l \in S : i >= l) => i = n + 1
    BY <1>1, <2>1
  <2>3. S \ {n + 1} = 1..n
    BY <1>1
  <2> HIDE DEF S
  <2>4. Max(S) = n + 1
    BY <2>1, <2>2 DEF Max
  <2> QED BY <2>1, <2>3, <2>4
<1>6. h[S] = Add(h[S \ {Max(S)}], t[Max(S)])
  <2>1. S \in SUBSET (1..(n + 1)) /\ S # {}
    BY <1>5
  <2> HIDE DEF S
  <2> QED BY <1>3, <2>1, Zenon DEF Totals
<1> HIDE DEF S
<1>7. h[S] = Add(h[1..n], t[n + 1])
  BY <1>5, <1>6
<1> QED BY <1>1, <1>2, <1>3, <1>4, <1>7 DEF S, t

----------------------------------------------------------------------------
(* Fractions over one denominator compare and subtract like integers.      *)
LEMMA Widen ==
    ASSUME NEW x, NEW n \in Int, NEW d \in Positive, Is(x, n, d), NEW e \in Positive
    PROVE  Is(x, n * e, d * e) /\ n * e \in Int /\ d * e \in Positive
<1>1. n * e \in Int /\ d * e \in Positive /\ d \in Int /\ e \in Int
  BY TimesPositive DEF Positive
<1>2. n * (d * e) = (n * e) * d
  BY <1>1
<1> QED BY <1>1, <1>2, IsSame

LEMMA LessOver ==
    ASSUME NEW d \in Positive, NEW x, NEW n \in Int, Is(x, n, d),
           NEW y, NEW m \in Int, Is(y, m, d)
    PROVE  Less(x, y) <=> n < m
<1> DEFINE a == x[1]
           b == x[2]
           f == y[1]
           h == y[2]
<1>1. /\ a \in Int /\ b \in Int /\ b > 0 /\ a * d = n * b
      /\ f \in Int /\ h \in Int /\ h > 0 /\ f * d = m * h
      /\ d \in Int /\ d > 0
  BY FractionParts DEF Is, Positive
<1>2. Less(x, y) <=> a * h < f * b
  BY DEF Less
<1> HIDE DEF a, b, f, h
<1> DEFINE u == a * h
           v == f * b
           w == b * h
<1>3. u * d = n * w /\ v * d = m * w
  <2>1. u * d = (a * d) * h /\ v * d = (f * d) * b
    BY <1>1
  <2>2. (n * b) * h = n * w /\ (m * h) * b = m * w
    BY <1>1
  <2> QED BY <1>1, <2>1, <2>2
<1>4. u \in Int /\ v \in Int /\ w \in Int /\ w > 0
  BY <1>1
<1> HIDE DEF u, v, w
<1>5. u < v <=> u * d < v * d
  BY <1>1, <1>4
<1>6. n < m <=> n * w < m * w
  BY <1>4
<1> QED BY <1>2, <1>3, <1>5, <1>6 DEF u, v

LEMMA SubOver ==
    ASSUME NEW d \in Positive, NEW x, NEW n \in Int, Is(x, n, d),
           NEW y, NEW m \in Int, Is(y, m, d)
    PROVE  Is(Sub(x, y), n - m, d)
<1>1. Is(Sub(x, y), n * d - m * d, d * d)
  BY SubIs
<1>2. /\ n * d - m * d \in Int /\ d * d \in Positive /\ n - m \in Int
      /\ (n * d - m * d) * d = (n - m) * (d * d)
  BY TimesPositive DEF Positive
<1> QED BY <1>1, <1>2, IsSame

LEMMA AddOver ==
    ASSUME NEW d \in Positive, NEW x, NEW n \in Int, Is(x, n, d),
           NEW y, NEW m \in Int, Is(y, m, d)
    PROVE  Is(Add(x, y), n + m, d)
<1>1. Is(Add(x, y), n * d + m * d, d * d)
  BY AddIs
<1>2. /\ n * d + m * d \in Int /\ d * d \in Positive /\ n + m \in Int
      /\ (n * d + m * d) * d = (n + m) * (d * d)
  BY TimesPositive DEF Positive
<1> QED BY <1>1, <1>2, IsSame

LEMMA NegOver ==
    ASSUME NEW d \in Positive, NEW x, NEW n \in Int, Is(x, n, d)
    PROVE  Is(Times(-1, x), -n, d) /\ Lowest(Times(-1, x))
<1>1. Is(Times(-1, x), -1 * n, d) /\ -1 * n = -n
  BY TimesIs
<1>2. Lowest(Times(-1, x))
  <2>1. x[1] \in Int /\ x[2] \in Positive
    BY FractionParts DEF Is
  <2>2. (-1) * x[1] \in Int
    BY <2>1
  <2>3. Times(-1, x) = Frac((-1) * x[1], x[2])
    BY DEF Times
  <2> QED BY <2>1, <2>2, <2>3, Zenon DEF Lowest
<1> QED BY <1>1, <1>2

LEMMA SubLowest ==
    ASSUME NEW x, IsFraction(x), NEW y, IsFraction(y)
    PROVE  Lowest(Sub(x, y)) /\ IsFraction(Sub(x, y))
<1> DEFINE z == Times(-1, y)
           n == x[1] * z[2] + z[1] * x[2]
           d == x[2] * z[2]
<1>1. IsFraction(z)
  <2>1. Is(y, y[1], y[2]) /\ y[1] \in Int /\ y[2] \in Positive
    BY FractionParts
  <2>2. Is(z, -y[1], y[2])
    BY <2>1, NegOver
  <2> HIDE DEF z
  <2> QED BY <2>2 DEF Is
<1> HIDE DEF z
<1>2. n \in Int /\ d \in Positive
  BY <1>1, FractionParts, TimesPositive
<1>3. Sub(x, y) = Frac(n, d)
  BY DEF Sub, Add, z
<1> HIDE DEF n, d
<1> QED BY <1>2, <1>3, FracIs, Zenon DEF Lowest, Is

(* Any three fractions have a denominator in common. *)
LEMMA ThreeOver ==
    ASSUME NEW x, IsFraction(x), NEW y, IsFraction(y), NEW z, IsFraction(z)
    PROVE  \E d \in Positive : \E n, m, k \in Int : Is(x, n, d) /\ Is(y, m, d) /\ Is(z, k, d)
<1> DEFINE a == x[2]
           b == y[2]
           c == z[2]
<1>1. /\ a \in Positive /\ a \in Int /\ Is(x, x[1], a) /\ x[1] \in Int
      /\ b \in Positive /\ b \in Int /\ Is(y, y[1], b) /\ y[1] \in Int
      /\ c \in Positive /\ c \in Int /\ Is(z, z[1], c) /\ z[1] \in Int
  BY FractionParts
<1> HIDE DEF a, b, c
<1> DEFINE d == a * (b * c)
<1>2. b * c \in Positive /\ a * c \in Positive /\ a * b \in Positive /\ d \in Positive
  BY <1>1, TimesPositive
<1>3. d = b * (a * c) /\ d = c * (a * b)
  BY <1>1
<1>4. Is(x, x[1] * (b * c), d) /\ x[1] * (b * c) \in Int
  BY <1>1, <1>2, Widen
<1>5. Is(y, y[1] * (a * c), b * (a * c)) /\ y[1] * (a * c) \in Int
  BY <1>1, <1>2, Widen
<1>6. Is(z, z[1] * (a * b), c * (a * b)) /\ z[1] * (a * b) \in Int
  BY <1>1, <1>2, Widen
<1> HIDE DEF d
<1> QED BY <1>2, <1>3, <1>4, <1>5, <1>6

----------------------------------------------------------------------------
(* The drawdown.  Beside the property the invariant has that the present   *)
(* fall, from the peak to the last sample, is the worst over the runs of   *)
(* returns that end now, the empty run among them: the one thing that      *)
(* record_pnl_sample extends by the next return.                           *)
LossOf(s, i, j) == Times(-1, Total(SubSeq(s, i, j)))

RunsTyped(s) ==
    \A i \in 1..(Len(s) + 1), j \in 0..Len(s) : IsFraction(Total(SubSeq(s, i, j)))

FallIsWorst(s, fall) ==
    /\ \E i \in 1..(Len(s) + 1) : fall = LossOf(s, i, Len(s))
    /\ \A i \in 1..(Len(s) + 1) : ~Less(fall, LossOf(s, i, Len(s)))

WorstOf(s, worst) ==
    /\ worst = Zero \/ \E i, j \in 1..Len(s) : worst = LossOf(s, i, j)
    /\ ~Less(worst, Zero)
    /\ \A i, j \in 1..Len(s) : ~Less(worst, LossOf(s, i, j))

Drawn(a) ==
    /\ a.pnl_returns \in Seq(Int \X Positive)
    /\ IsFraction(a.last_pnl_sample) /\ IsFraction(a.peak_pnl) /\ IsFraction(a.max_drawdown)
    /\ RunsTyped(a.pnl_returns)
    /\ FallIsWorst(a.pnl_returns, Sub(a.peak_pnl, a.last_pnl_sample))
    /\ WorstOf(a.pnl_returns, a.max_drawdown)

(* The runs of returns with one more return. *)
LEMMA RunsAppend ==
    ASSUME NEW V, NEW s \in Seq(V), NEW x \in V
    PROVE  /\ Append(s, x) \in Seq(V) /\ Len(Append(s, x)) = Len(s) + 1
           /\ \A i \in 1..(Len(s) + 2), j \in 0..Len(s) :
                 SubSeq(Append(s, x), i, j) = SubSeq(s, i, j)
           /\ \A i \in 1..(Len(s) + 1) :
                 SubSeq(Append(s, x), i, Len(s) + 1) = Append(SubSeq(s, i, Len(s)), x)
           /\ SubSeq(Append(s, x), Len(s) + 2, Len(s) + 1) = <<>>
           /\ \A i \in 1..(Len(s) + 1) : SubSeq(s, i, Len(s)) \in Seq(V)
<1> DEFINE n == Len(s)
           t == Append(s, x)
<1>1. /\ n \in Nat /\ t \in Seq(V) /\ Len(t) = n + 1 /\ t[n + 1] = x
      /\ \A k \in 1..n : t[k] = s[k]
  OBVIOUS
<1> HIDE DEF t, n
<1>2. ASSUME NEW i \in 1..(n + 2), NEW j \in 0..n
      PROVE  SubSeq(t, i, j) = SubSeq(s, i, j)
  <2>1. CASE i <= j
    <3>1. /\ SubSeq(t, i, j) \in Seq(V) /\ SubSeq(s, i, j) \in Seq(V)
          /\ Len(SubSeq(t, i, j)) = j - i + 1 /\ Len(SubSeq(s, i, j)) = j - i + 1
          /\ \A k \in 1..(j - i + 1) : /\ SubSeq(t, i, j)[k] = t[i + k - 1]
                                     /\ SubSeq(s, i, j)[k] = s[i + k - 1]
                                     /\ i + k - 1 \in 1..n
      BY <1>1, <2>1, SubSeqProperties DEF n
    <3> QED BY <1>1, <3>1, SeqEqual
  <2>2. CASE ~(i <= j)
    <3>1. SubSeq(t, i, j) = <<>> /\ SubSeq(s, i, j) = <<>>
      BY <1>1, <2>2, SubSeqEmpty
    <3> QED BY <3>1
  <2> QED BY <2>1, <2>2
<1>3. ASSUME NEW i \in 1..(n + 1)
      PROVE  SubSeq(t, i, n + 1) = Append(SubSeq(s, i, n), x) /\ SubSeq(s, i, n) \in Seq(V)
  <2> DEFINE u == SubSeq(s, i, n)
             w == SubSeq(t, i, n + 1)
             l == n - i + 1
  <2>1. /\ l \in Nat /\ u \in Seq(V) /\ Len(u) = l
        /\ \A k \in 1..l : u[k] = s[i + k - 1]
    BY <1>1, SubSeqProperties DEF n
  <2>2. /\ w \in Seq(V) /\ Len(w) = l + 1
        /\ \A k \in 1..(l + 1) : w[k] = t[i + k - 1]
    BY <1>1, SubSeqProperties
  <2>3. \A k \in 1..l : i + k - 1 \in 1..n
    BY <1>1
  <2>4. i + (l + 1) - 1 = n + 1
    BY <1>1
  <2> HIDE DEF u, w, l
  <2>5. /\ Append(u, x) \in Seq(V) /\ Len(Append(u, x)) = l + 1
        /\ \A k \in 1..l : Append(u, x)[k] = u[k]
        /\ Append(u, x)[l + 1] = x
    BY <2>1
  <2>6. \A k \in 1..(l + 1) : w[k] = Append(u, x)[k]
    <3> TAKE k \in 1..(l + 1)
    <3>1. CASE k = l + 1
      BY <1>1, <2>1, <2>2, <2>4, <2>5, <3>1
    <3>2. CASE k \in 1..l
      BY <1>1, <2>1, <2>2, <2>3, <2>5, <3>2
    <3> QED BY <2>1, <3>1, <3>2
  <2>7. w = Append(u, x)
    BY <2>2, <2>5, <2>6, SeqEqual
  <2> QED BY <2>1, <2>7 DEF u, w
<1>4. SubSeq(t, n + 2, n + 1) = <<>>
  BY <1>1, SubSeqEmpty
<1> QED BY <1>1, <1>2, <1>3, <1>4 DEF t, n

(* Any four fractions have a denominator in common. *)
LEMMA FourOver ==
    ASSUME NEW x, IsFraction(x), NEW y, IsFraction(y),
           NEW z, IsFraction(z), NEW w, IsFraction(w)
    PROVE  \E d \in Positive : \E n, m, k, l \in Int :
              Is(x, n, d) /\ Is(y, m, d) /\ Is(z, k, d) /\ Is(w, l, d)
<1>1. PICK d \in Positive : \E n, m, k \in Int : Is(x, n, d) /\ Is(y, m, d) /\ Is(z, k, d)
  BY ThreeOver
<1>2. PICK n \in Int, m \in Int, k \in Int : Is(x, n, d) /\ Is(y, m, d) /\ Is(z, k, d)
  BY <1>1
<1> DEFINE e == w[2]
<1>3. e \in Positive /\ e \in Int /\ Is(w, w[1], e) /\ w[1] \in Int /\ d \in Int
  BY FractionParts DEF Positive
<1> HIDE DEF e
<1>4. Is(x, n * e, d * e) /\ n * e \in Int /\ d * e \in Positive
  BY <1>2, <1>3, Widen
<1>5. Is(y, m * e, d * e) /\ m * e \in Int
  BY <1>2, <1>3, Widen
<1>6. Is(z, k * e, d * e) /\ k * e \in Int
  BY <1>2, <1>3, Widen
<1>7. Is(w, w[1] * d, e * d) /\ w[1] * d \in Int
  BY <1>3, Widen
<1>8. e * d = d * e
  BY <1>3
<1> QED BY <1>4, <1>5, <1>6, <1>7, <1>8

(* Not less is an order. *)
LEMMA NotLess ==
    ASSUME NEW x, IsFraction(x), NEW y, IsFraction(y), NEW z, IsFraction(z)
    PROVE  /\ ~Less(x, x)
           /\ Less(x, y) => ~Less(y, x)
           /\ ~Less(x, y) /\ ~Less(y, z) => ~Less(x, z)
<1>1. PICK d \in Positive : \E n, m, k \in Int : Is(x, n, d) /\ Is(y, m, d) /\ Is(z, k, d)
  BY ThreeOver
<1>2. PICK n \in Int, m \in Int, k \in Int : Is(x, n, d) /\ Is(y, m, d) /\ Is(z, k, d)
  BY <1>1
<1>3. Less(x, x) <=> n < n
  BY <1>2, LessOver
<1>4. Less(x, y) <=> n < m
  BY <1>2, LessOver
<1>5. Less(y, x) <=> m < n
  BY <1>2, LessOver
<1>6. Less(y, z) <=> m < k
  BY <1>2, LessOver
<1>7. Less(x, z) <=> n < k
  BY <1>2, LessOver
<1> QED BY <1>3, <1>4, <1>5, <1>6, <1>7

LEMMA LargerOf ==
    ASSUME NEW x, IsFraction(x), NEW y, IsFraction(y)
    PROVE  /\ IsFraction(Larger(x, y))
           /\ ~Less(Larger(x, y), x) /\ ~Less(Larger(x, y), y)
  BY NotLess DEF Larger

LEMMA ZeroLowest == Lowest(Zero) /\ IsFraction(Zero) /\ Is(Zero, 0, 1) /\ Times(-1, Zero) = Zero
<1>1. Frac(0 * 1, 1) = <<0, 1>>
  <2>1. 0 \in Int /\ 1 \in Positive
    BY DEF Positive
  <2> QED BY <2>1, FracWhole
<1>2. 0 * 1 = 0
  OBVIOUS
<1>3. Frac(0, 1) = Zero
  BY <1>1, <1>2 DEF Zero
<1>4. Is(Zero, 0, 1) /\ IsFraction(Zero) /\ 1 \in Positive
  BY WholeIs DEF Zero
<1>5. Lowest(Zero)
  BY <1>3, <1>4 DEF Lowest
<1>6. Times(-1, Zero) = Zero
  <2>1. Zero[1] = 0 /\ Zero[2] = 1
    BY DEF Zero
  <2>2. Times(-1, Zero) = Frac((-1) * Zero[1], Zero[2])
    BY DEF Times
  <2>3. (-1) * 0 = 0
    OBVIOUS
  <2> QED BY <1>3, <2>1, <2>2, <2>3
<1> QED BY <1>4, <1>5, <1>6

(* One more sample s, after the last l, for a run of returns that adds up  *)
(* to f and ends at l, p being the peak.                                   *)
LEMMA SampleRun ==
    ASSUME NEW p, IsFraction(p), NEW l, IsFraction(l), NEW s, IsFraction(s),
           NEW f, IsFraction(f)
    PROVE  /\ ~Less(Sub(p, l), Times(-1, f))
                 => ~Less(Sub(Larger(p, s), s), Times(-1, Add(f, Sub(s, l))))
           /\ Sub(p, l) = Times(-1, f) /\ ~Less(p, s)
                 => Sub(p, s) = Times(-1, Add(f, Sub(s, l)))
           /\ ~Less(Sub(Larger(p, s), s), Zero)
           /\ Sub(s, s) = Zero
<1>1. PICK d \in Positive : \E P, L, S, F \in Int :
              Is(p, P, d) /\ Is(l, L, d) /\ Is(s, S, d) /\ Is(f, F, d)
  BY FourOver
<1>2. PICK P \in Int, L \in Int, S \in Int, F \in Int :
              Is(p, P, d) /\ Is(l, L, d) /\ Is(s, S, d) /\ Is(f, F, d)
  BY <1>1
<1> DEFINE x    == Sub(s, l)
           loss == Times(-1, Add(f, x))
           q    == Larger(p, s)
           Q    == IF P < S THEN S ELSE P
<1>3. Is(x, S - L, d) /\ S - L \in Int
  BY <1>2, SubOver
<1> HIDE DEF x
<1>4. Is(Add(f, x), F + (S - L), d) /\ F + (S - L) \in Int
  BY <1>2, <1>3, AddOver
<1>5. Is(loss, -(F + (S - L)), d) /\ Lowest(loss) /\ -(F + (S - L)) \in Int
  BY <1>4, NegOver
<1> HIDE DEF loss
<1>6. Is(Sub(p, l), P - L, d) /\ Lowest(Sub(p, l)) /\ P - L \in Int
  BY <1>2, SubOver, SubLowest
<1>7. Is(Times(-1, f), -F, d) /\ -F \in Int
  BY <1>2, NegOver
<1>8. Less(p, s) <=> P < S
  BY <1>2, LessOver
<1>9. Is(q, Q, d) /\ Q \in Int
  <2>1. CASE P < S
    <3>1. q = s /\ Q = S
      BY <1>8, <2>1 DEF Larger
    <3> HIDE DEF q, Q
    <3> QED BY <1>2, <3>1
  <2>2. CASE ~(P < S)
    <3>1. q = p /\ Q = P
      BY <1>8, <2>2 DEF Larger
    <3> HIDE DEF q, Q
    <3> QED BY <1>2, <3>1
  <2> QED BY <2>1, <2>2
<1>10. Q >= P /\ Q >= S
  OBVIOUS
<1> HIDE DEF q, Q
<1>11. Is(Sub(q, s), Q - S, d) /\ Q - S \in Int
  BY <1>2, <1>9, SubOver
<1>12. Is(Zero, 0, d)
  <2>1. Is(Zero, 0, 1) /\ 0 \in Int /\ 1 \in Positive /\ 0 * d = 0 * 1
    BY ZeroLowest DEF Positive
  <2> QED BY <2>1, IsSame
<1>13. ~Less(Sub(p, l), Times(-1, f)) => ~Less(Sub(q, s), loss)
  <2>1. Less(Sub(p, l), Times(-1, f)) <=> P - L < -F
    BY <1>6, <1>7, LessOver
  <2>2. Less(Sub(q, s), loss) <=> Q - S < -(F + (S - L))
    BY <1>5, <1>11, LessOver
  <2> QED BY <1>2, <1>9, <1>10, <2>1, <2>2
<1>14. Sub(p, l) = Times(-1, f) => Sub(p, s) = loss
  <2> SUFFICES ASSUME Sub(p, l) = Times(-1, f) PROVE Sub(p, s) = loss
    OBVIOUS
  <2>1. Less(Sub(p, l), Times(-1, f)) <=> P - L < -F
    BY <1>6, <1>7, LessOver
  <2>2. Less(Times(-1, f), Sub(p, l)) <=> -F < P - L
    BY <1>6, <1>7, LessOver
  <2>3. ~Less(Sub(p, l), Sub(p, l))
    BY <1>6, NotLess DEF Is
  <2>4. P - L = -F
    BY <1>2, <2>1, <2>2, <2>3
  <2>5. P - S = -(F + (S - L))
    BY <1>2, <2>4
  <2>6. Is(Sub(p, s), P - S, d) /\ Lowest(Sub(p, s)) /\ P - S \in Int
    BY <1>2, SubOver, SubLowest
  <2> QED BY <1>5, <2>5, <2>6, LowestUnique
<1>15. ~Less(Sub(q, s), Zero)
  <2>1. Less(Sub(q, s), Zero) <=> Q - S < 0
    BY <1>11, <1>12, LessOver
  <2> QED BY <1>2, <1>9, <1>10, <2>1
<1>16. Sub(s, s) = Zero
  <2>1. Is(Sub(s, s), S - S, d) /\ Lowest(Sub(s, s)) /\ S - S = 0
    BY <1>2, SubOver, SubLowest
  <2> QED BY <1>12, <2>1, ZeroLowest, LowestUnique
<1> QED BY <1>13, <1>14, <1>15, <1>16 DEF loss, x, q

(* The state after one more return x, with the new fall and maximum. *)
LEMMA SampleDrawn ==
    ASSUME NEW s \in Seq(Int \X Positive), RunsTyped(s),
           NEW l, IsFraction(l), NEW p, IsFraction(p), NEW m, IsFraction(m),
           FallIsWorst(s, Sub(p, l)), WorstOf(s, m),
           NEW v, IsFraction(v)
    PROVE  LET t    == Append(s, Sub(v, l))
               peak == Larger(p, v)
               fall == Sub(peak, v)
           IN  /\ t \in Seq(Int \X Positive) /\ RunsTyped(t)
               /\ IsFraction(peak) /\ IsFraction(Larger(m, fall))
               /\ FallIsWorst(t, fall)
               /\ WorstOf(t, Larger(m, fall))
<1> DEFINE V     == Int \X Positive
           x     == Sub(v, l)
           t     == Append(s, x)
           peak  == Larger(p, v)
           fall  == Sub(peak, v)
           worst == Larger(m, fall)
           n     == Len(s)
<1>1. x \in V /\ IsFraction(x)
  BY SubLowest DEF IsFraction
<1>2. IsFraction(peak) /\ IsFraction(fall)
  <2>1. IsFraction(peak)
    BY LargerOf
  <2> HIDE DEF peak
  <2> QED BY <2>1, SubLowest
<1>3. IsFraction(worst) /\ ~Less(worst, m) /\ ~Less(worst, fall)
      /\ (worst = m \/ worst = fall)
  <2> HIDE DEF fall
  <2>1. IsFraction(worst) /\ ~Less(worst, m) /\ ~Less(worst, fall)
    BY <1>2, LargerOf
  <2> QED BY <2>1 DEF Larger
<1>4. /\ t \in Seq(V) /\ Len(t) = n + 1 /\ n \in Nat
      /\ \A i \in 1..(n + 2), j \in 0..n : SubSeq(t, i, j) = SubSeq(s, i, j)
      /\ \A i \in 1..(n + 1) : SubSeq(t, i, n + 1) = Append(SubSeq(s, i, n), x)
      /\ SubSeq(t, n + 2, n + 1) = <<>>
      /\ \A i \in 1..(n + 1) : SubSeq(s, i, n) \in Seq(V)
  <2>1. s \in Seq(V)
    OBVIOUS
  <2>2. n \in Nat
    OBVIOUS
  <2> HIDE DEF V, x
  <2> QED BY <1>1, <2>1, <2>2, RunsAppend, Zenon
<1> HIDE DEF t, V, x
<1>5. ASSUME NEW i \in 1..(n + 1)
      PROVE  Total(SubSeq(t, i, n + 1)) = Add(Total(SubSeq(s, i, n)), x)
  <2> DEFINE u == SubSeq(s, i, n)
  <2>1. u \in Seq(V) /\ SubSeq(t, i, n + 1) = Append(u, x)
    BY <1>4
  <2> HIDE DEF u
  <2>2. Total(Append(u, x)) = Add(Total(u), x)
    BY <2>1, TotalAppend
  <2> QED BY <2>1, <2>2 DEF u
<1>6. Total(SubSeq(t, n + 2, n + 1)) = Zero
  BY <1>4, TotalNone
<1>7. ASSUME NEW i \in 1..(n + 1)
      PROVE  IsFraction(Total(SubSeq(s, i, n)))
  BY <1>4 DEF RunsTyped
<1>8. ASSUME NEW j \in 0..n
      PROVE  Total(SubSeq(t, n + 2, j)) = Zero /\ Total(SubSeq(t, n + 1, j)) = Zero
  <2>1. SubSeq(t, n + 2, j) = <<>> /\ SubSeq(t, n + 1, j) = <<>>
    BY <1>4, SubSeqEmpty
  <2> QED BY <2>1, TotalNone
<1>9. RunsTyped(t)
  <2> SUFFICES ASSUME NEW i \in 1..(n + 2), NEW j \in 0..(n + 1)
               PROVE  IsFraction(Total(SubSeq(t, i, j)))
    BY <1>4 DEF RunsTyped
  <2>1. CASE i \in 1..(n + 1) /\ j \in 0..n
    BY <1>4, <2>1 DEF RunsTyped
  <2>2. CASE i = n + 2 /\ j \in 0..n
    BY <1>8, <2>2, ZeroLowest
  <2>3. CASE i \in 1..(n + 1) /\ j = n + 1
    <3> DEFINE f == Total(SubSeq(s, i, n))
    <3>1. IsFraction(f) /\ Total(SubSeq(t, i, j)) = Add(f, x)
      BY <1>5, <1>7, <2>3
    <3> HIDE DEF f
    <3>2. IsFraction(Add(f, x))
      BY <1>1, <3>1, FractionParts, AddIs DEF Is
    <3> QED BY <3>1, <3>2
  <2>4. CASE i = n + 2 /\ j = n + 1
    BY <1>6, <2>4, ZeroLowest
  <2> QED BY <1>4, <2>1, <2>2, <2>3, <2>4
<1>10. ASSUME NEW i \in 1..(n + 1)
       PROVE  /\ ~Less(fall, LossOf(t, i, n + 1))
              /\ Sub(p, l) = LossOf(s, i, n) /\ ~Less(p, v) => fall = LossOf(t, i, n + 1)
  <2> DEFINE f == Total(SubSeq(s, i, n))
  <2>1. IsFraction(f) /\ LossOf(t, i, n + 1) = Times(-1, Add(f, Sub(v, l)))
    BY <1>5, <1>7 DEF LossOf, x
  <2>2. LossOf(s, i, n) = Times(-1, f) /\ ~Less(Sub(p, l), Times(-1, f))
    BY DEF LossOf, FallIsWorst
  <2> HIDE DEF f
  <2>3. ~Less(Sub(Larger(p, v), v), Times(-1, Add(f, Sub(v, l))))
    BY <2>1, <2>2, SampleRun
  <2>4. Sub(p, l) = Times(-1, f) /\ ~Less(p, v) => Sub(p, v) = Times(-1, Add(f, Sub(v, l)))
    BY <2>1, SampleRun
  <2>5. ~Less(p, v) => fall = Sub(p, v)
    BY DEF Larger
  <2>6. fall = Sub(Larger(p, v), v)
    OBVIOUS
  <2> HIDE DEF fall
  <2> QED BY <2>1, <2>2, <2>3, <2>4, <2>5, <2>6
<1>11. /\ LossOf(t, n + 2, n + 1) = Zero
       /\ ~Less(fall, Zero)
       /\ Less(p, v) => fall = Zero
  <2>1. LossOf(t, n + 2, n + 1) = Zero
    BY <1>6, ZeroLowest DEF LossOf
  <2>2. ~Less(Sub(Larger(p, v), v), Zero) /\ Sub(v, v) = Zero
    <3>1. IsFraction(Zero)
      BY ZeroLowest
    <3> QED BY <3>1, SampleRun
  <2> QED BY <2>1, <2>2 DEF Larger
<1>12. FallIsWorst(t, fall)
  <2>1. n + 2 \in 1..(Len(t) + 1) /\ Len(t) + 1 = n + 2 /\ \A i \in 1..(n + 2) : i \in 1..(n + 1) \/ i = n + 2
    BY <1>4
  <2>2. \A i \in 1..(n + 2) : ~Less(fall, LossOf(t, i, n + 1))
    BY <1>10, <1>11, <2>1
  <2>3. \E i \in 1..(n + 2) : fall = LossOf(t, i, n + 1)
    <3>1. CASE Less(p, v)
      BY <1>11, <2>1, <3>1
    <3>2. CASE ~Less(p, v)
      <4>1. PICK i \in 1..(n + 1) : Sub(p, l) = LossOf(s, i, n)
        BY DEF FallIsWorst
      <4>2. fall = LossOf(t, i, n + 1)
        BY <1>10, <3>2, <4>1
      <4>3. i \in 1..(n + 2)
        BY <1>4
      <4> QED BY <4>2, <4>3
    <3> QED BY <3>1, <3>2
  <2> HIDE DEF fall, n
  <2> QED BY <1>4, <2>1, <2>2, <2>3 DEF FallIsWorst
<1>13. ~Less(worst, Zero)
  BY <1>2, <1>3, ZeroLowest, NotLess DEF WorstOf
<1>14. ASSUME NEW i \in 1..n, NEW j \in 1..n
       PROVE  LossOf(t, i, j) = LossOf(s, i, j)
  <2>1. i \in 1..(n + 2) /\ j \in 0..n
    BY <1>4
  <2>2. SubSeq(t, i, j) = SubSeq(s, i, j)
    BY <1>4, <2>1
  <2> QED BY <2>2 DEF LossOf
<1>15. ASSUME NEW i \in 1..(n + 1), NEW j \in 1..(n + 1)
       PROVE  ~Less(worst, LossOf(t, i, j))
  <2>1. CASE j = n + 1
    <3>1. IsFraction(LossOf(t, i, j)) /\ ~Less(fall, LossOf(t, i, j))
      <4>1. IsFraction(Total(SubSeq(t, i, j)))
        BY <1>4, <1>9 DEF RunsTyped
      <4>2. ~Less(fall, LossOf(t, i, j))
        BY <1>10, <2>1
      <4> QED BY <4>1, <4>2, FractionParts, NegOver DEF LossOf, Is
    <3> QED BY <1>2, <1>3, <3>1, NotLess
  <2>2. CASE i = n + 1 /\ j \in 1..n
    <3>1. LossOf(t, i, j) = Zero
      BY <1>8, <2>2, ZeroLowest DEF LossOf
    <3> QED BY <1>13, <3>1
  <2>3. CASE i \in 1..n /\ j \in 1..n
    <3>1. LossOf(t, i, j) = LossOf(s, i, j)
      BY <1>14, <2>3
    <3>2. ~Less(m, LossOf(s, i, j))
      BY <2>3 DEF WorstOf
    <3>3. IsFraction(LossOf(s, i, j))
      <4>1. IsFraction(Total(SubSeq(s, i, j)))
        BY <1>4, <2>3 DEF RunsTyped
      <4> QED BY <4>1, FractionParts, NegOver DEF LossOf, Is
    <3> QED BY <1>3, <3>1, <3>2, <3>3, NotLess
  <2> QED BY <1>4, <2>1, <2>2, <2>3
<1>16. worst = Zero \/ \E i, j \in 1..(n + 1) : worst = LossOf(t, i, j)
  <2>1. CASE worst = m
    <3>1. CASE m = Zero
      BY <2>1, <3>1
    <3>2. CASE \E i, j \in 1..n : m = LossOf(s, i, j)
      <4>1. PICK i \in 1..n, j \in 1..n : m = LossOf(s, i, j)
        BY <3>2
      <4>2. LossOf(t, i, j) = LossOf(s, i, j)
        BY <1>14
      <4>3. i \in 1..(n + 1) /\ j \in 1..(n + 1)
        BY <1>4
      <4> QED BY <2>1, <4>1, <4>2, <4>3
    <3> QED BY <3>1, <3>2 DEF WorstOf
  <2>2. CASE worst = fall
    <3>1. PICK i \in 1..(n + 2) : fall = LossOf(t, i, n + 1)
      <4>1. Len(t) + 1 = n + 2
        BY <1>4
      <4> HIDE DEF fall, n
      <4> QED BY <1>4, <1>12, <4>1 DEF FallIsWorst
    <3>2. CASE i = n + 2
      BY <1>11, <2>2, <3>1, <3>2
    <3>3. CASE i \in 1..(n + 1)
      <4>1. n + 1 \in 1..(n + 1)
        BY <1>4
      <4> QED BY <2>2, <3>1, <3>3, <4>1
    <3> QED BY <1>4, <3>2, <3>3
  <2> QED BY <1>3, <2>1, <2>2
<1>17. WorstOf(t, worst)
  <2> HIDE DEF worst, n
  <2> QED BY <1>4, <1>13, <1>15, <1>16 DEF WorstOf
<1> QED BY <1>2, <1>3, <1>4, <1>9, <1>12, <1>17 DEF t, x, V

----------------------------------------------------------------------------
(* Sums, products and differences of fractions are fractions.              *)
LEMMA FractionsClosed ==
    ASSUME NEW x, IsFraction(x), NEW y, IsFraction(y), NEW k \in Int
    PROVE  IsFraction(Add(x, y)) /\ IsFraction(Times(k, x)) /\ IsFraction(Sub(x, y))
<1>1. /\ x[1] \in Int /\ x[2] \in Positive /\ Is(x, x[1], x[2])
      /\ y[1] \in Int /\ y[2] \in Positive /\ Is(y, y[1], y[2])
  BY FractionParts
<1>2. IsFraction(Add(x, y))
  BY <1>1, AddIs, Zenon DEF Is
<1>3. IsFraction(Times(k, x))
  BY <1>1, TimesIs, Zenon DEF Is
<1>4. IsFraction(Sub(x, y))
  BY SubLowest
<1> QED BY <1>2, <1>3, <1>4

(* The numbers of an account after a fill, and what a fill leaves alone.   *)
LEMMA FillTyped ==
    ASSUME NEW a, AccountType(a), NEW side, NEW q \in Int, NEW p \in Int
    PROVE  LET b == RecordFill(a, side, q, p)
           IN  /\ AccountType(b)
               /\ b.pnl_returns = a.pnl_returns /\ b.last_pnl_sample = a.last_pnl_sample
               /\ b.peak_pnl = a.peak_pnl /\ b.max_drawdown = a.max_drawdown
<1> DEFINE inv  == a.inventory
           held == Max({inv, 0})
<1>1. /\ inv \in Int /\ IsFraction(a.realized_pnl) /\ IsFraction(a.avg_cost)
      /\ DOMAIN a = {"inventory", "realized_pnl", "avg_cost", "closing_trades", "fill_count",
                     "pnl_returns", "last_pnl_sample", "peak_pnl", "max_drawdown"}
  BY DEF AccountType, NewAccount
<1>2. DOMAIN NewAccount = DOMAIN a
  BY DEF AccountType
<1> HIDE DEF inv
<1>3. held \in Int
  <2>1. CASE inv >= 0
    <3>1. held = inv
      BY <1>1, <2>1 DEF Max
    <3> QED BY <1>1, <3>1
  <2>2. CASE inv < 0
    <3>1. held = 0
      BY <1>1, <2>2 DEF Max
    <3> QED BY <3>1
  <2> QED BY <1>1, <2>1, <2>2
<1> HIDE DEF held
<1>4. CASE side = "BUY"
  <2> DEFINE old  == Times(held, a.avg_cost)
             tot  == Add(old, <<p * q, 1>>)
             new  == inv + q
             cost == IF new > 0 THEN Frac(tot[1], tot[2] * new) ELSE a.avg_cost
             b    == [a EXCEPT !.fill_count = @ + 1, !.inventory = new, !.avg_cost = cost]
  <2>1. RecordFill(a, side, q, p) = b
    BY <1>4 DEF RecordFill, RecordBuy, inv, held
  <2>2. IsFraction(tot)
    <3>1. IsFraction(old)
      BY <1>1, <1>3, FractionsClosed
    <3> DEFINE m == p * q
    <3>2. m \in Int
      OBVIOUS
    <3> HIDE DEF old, m
    <3>3. IsFraction(<<m, 1>>)
      BY <3>2, WholeIs
    <3> DEFINE y == <<m, 1>>
    <3> HIDE DEF y
    <3>4. IsFraction(Add(old, y))
      BY <3>1, <3>3, FractionsClosed DEF y
    <3> QED BY <3>4 DEF m, y
  <2> HIDE DEF tot
  <2>3. new \in Int
    BY <1>1
  <2> HIDE DEF new
  <2>4. IsFraction(cost)
    <3>1. CASE new > 0
      <4>1. new \in Positive
        BY <2>3, <3>1 DEF Positive
      <4>2. tot[1] \in Int /\ tot[2] * new \in Positive
        BY <2>2, <4>1, FractionParts, TimesPositive
      <4>3. Is(Frac(tot[1], tot[2] * new), tot[1], tot[2] * new)
        BY <4>2, FracIs
      <4> QED BY <3>1, <4>3 DEF Is
    <3>2. CASE ~(new > 0)
      BY <1>1, <3>2
    <3> QED BY <3>1, <3>2
  <2> HIDE DEF cost
  <2>5. /\ DOMAIN b = DOMAIN a /\ b.inventory = new /\ b.avg_cost = cost
        /\ b.realized_pnl = a.realized_pnl
        /\ b.pnl_returns = a.pnl_returns /\ b.last_pnl_sample = a.last_pnl_sample
        /\ b.peak_pnl = a.peak_pnl /\ b.max_drawdown = a.max_drawdown
    BY <1>1
  <2> HIDE DEF b
  <2>6. AccountType(b)
    BY <1>1, <1>2, <2>3, <2>4, <2>5 DEF AccountType
  <2> QED BY <2>1, <2>5, <2>6
<1>5. CASE side # "BUY"
  <2> DEFINE close == Min({q, held})
             gain  == Times(close, Sub(<<p, 1>>, a.avg_cost))
             new   == Add(a.realized_pnl, gain)
             b     == [a EXCEPT !.fill_count = @ + 1, !.inventory = @ - q,
                                !.realized_pnl = new, !.closing_trades = @ + close]
  <2>1. RecordFill(a, side, q, p) = b
    BY <1>5, Zenon DEF RecordFill, RecordSell, inv, held
  <2>2. close \in Int
    <3>1. CASE q <= held
      <4>1. close = q
        BY <1>3, <3>1 DEF Min
      <4> QED BY <4>1
    <3>2. CASE ~(q <= held)
      <4>1. close = held
        BY <1>3, <3>2 DEF Min
      <4> QED BY <1>3, <4>1
    <3> QED BY <3>1, <3>2
  <2> HIDE DEF close
  <2>3. IsFraction(new)
    <3> DEFINE x == <<p, 1>>
    <3>1. IsFraction(x)
      BY WholeIs
    <3> HIDE DEF x
    <3>2. IsFraction(Sub(x, a.avg_cost))
      BY <1>1, <3>1, FractionsClosed
    <3> DEFINE y == Sub(x, a.avg_cost)
    <3>3. IsFraction(y)
      BY <3>2
    <3> HIDE DEF y
    <3>4. IsFraction(Times(close, y))
      BY <2>2, <3>3, FractionsClosed
    <3>5. IsFraction(gain)
      BY <3>4 DEF x, y
    <3> HIDE DEF gain
    <3> QED BY <1>1, <3>5, FractionsClosed
  <2> HIDE DEF new
  <2>4. /\ DOMAIN b = DOMAIN a /\ b.inventory = a.inventory - q /\ b.avg_cost = a.avg_cost
        /\ b.realized_pnl = new
        /\ b.pnl_returns = a.pnl_returns /\ b.last_pnl_sample = a.last_pnl_sample
        /\ b.peak_pnl = a.peak_pnl /\ b.max_drawdown = a.max_drawdown
    BY <1>1
  <2> HIDE DEF b
  <2>5. a.inventory - q \in Int
    BY <1>1 DEF inv
  <2>6. AccountType(b)
    BY <1>1, <1>2, <2>3, <2>4, <2>5 DEF AccountType
  <2> QED BY <2>1, <2>4, <2>6
<1> QED BY <1>4, <1>5

LEMMA PnlFraction ==
    ASSUME NEW a, AccountType(a), NEW mid \in Int
    PROVE  IsFraction(TotalPnl(a, mid))
<1> DEFINE x == <<mid, 1>>
           y == Sub(x, a.avg_cost)
           u == UnrealizedPnl(a, mid)
<1>1. IsFraction(x)
  BY WholeIs
<1>2. IsFraction(a.avg_cost) /\ IsFraction(a.realized_pnl) /\ a.inventory \in Int
  BY DEF AccountType
<1>3. IsFraction(y)
  <2> HIDE DEF x
  <2> QED BY <1>1, <1>2, FractionsClosed
<1>4. IsFraction(Times(a.inventory, y))
  <2> HIDE DEF y
  <2> QED BY <1>2, <1>3, FractionsClosed
<1>5. IsFraction(u)
  BY <1>4, ZeroLowest DEF UnrealizedPnl
<1> HIDE DEF u
<1>6. IsFraction(Add(a.realized_pnl, u))
  BY <1>2, <1>5, FractionsClosed
<1> QED BY <1>6 DEF TotalPnl, u

DrawInv == AccountType(account) /\ Drawn(account)

(* record_pnl_sample. *)
LEMMA SampleDrawInv ==
    ASSUME NEW a, AccountType(a), Drawn(a), NEW mid \in Int
    PROVE  AccountType(RecordPnlSample(a, mid)) /\ Drawn(RecordPnlSample(a, mid))
<1> DEFINE s     == a.pnl_returns
           l     == a.last_pnl_sample
           p     == a.peak_pnl
           m     == a.max_drawdown
           v     == TotalPnl(a, mid)
           t     == Append(s, Sub(v, l))
           peak  == Larger(p, v)
           fall  == Sub(peak, v)
           worst == Larger(m, fall)
           b     == [a EXCEPT !.pnl_returns = t, !.last_pnl_sample = v,
                              !.peak_pnl = peak, !.max_drawdown = worst]
<1>1. /\ s \in Seq(Int \X Positive) /\ RunsTyped(s)
      /\ IsFraction(l) /\ IsFraction(p) /\ IsFraction(m)
      /\ FallIsWorst(s, Sub(p, l)) /\ WorstOf(s, m)
  BY DEF Drawn
<1>2. IsFraction(v)
  BY PnlFraction
<1>3. DOMAIN NewAccount = DOMAIN a /\ IsFraction(a.avg_cost) /\ IsFraction(a.realized_pnl)
      /\ a.inventory \in Int
  BY DEF AccountType
<1>4. {"inventory", "avg_cost", "realized_pnl", "pnl_returns", "last_pnl_sample", "peak_pnl",
       "max_drawdown"} \subseteq DOMAIN a
  BY <1>3 DEF NewAccount
<1>5. RecordPnlSample(a, mid) = b
  BY Zenon DEF RecordPnlSample
<1> HIDE DEF s, l, p, m, v
<1>6. /\ t \in Seq(Int \X Positive) /\ RunsTyped(t)
      /\ IsFraction(peak) /\ IsFraction(worst)
      /\ FallIsWorst(t, fall)
      /\ WorstOf(t, worst)
  BY <1>1, <1>2, SampleDrawn
<1>7. fall = Sub(peak, v)
  OBVIOUS
<1> HIDE DEF t, peak, worst, fall
<1>8. /\ DOMAIN b = DOMAIN a /\ b.inventory = a.inventory /\ b.avg_cost = a.avg_cost
      /\ b.realized_pnl = a.realized_pnl
      /\ b.pnl_returns = t /\ b.last_pnl_sample = v /\ b.peak_pnl = peak
      /\ b.max_drawdown = worst
  BY <1>4
<1> HIDE DEF b
<1>9. AccountType(b)
  BY <1>3, <1>8 DEF AccountType
<1>10. Drawn(b)
  BY <1>2, <1>6, <1>7, <1>8, Zenon DEF Drawn
<1> QED BY <1>5, <1>9, <1>10

LEMMA FillDrawInv ==
    ASSUME DrawInv, NEW side, NEW q \in 1..trade_qty, NEW p \in FillPrice, Fill(side, q, p)
    PROVE  DrawInv'
<1> DEFINE a == account
           b == RecordFill(a, side, q, p)
<1>1. account' = b
  BY DEF Fill
<1>2. q \in Int /\ p \in Int
  BY PriceAssumption
<1>3. AccountType(a) /\ Drawn(a)
  BY DEF DrawInv
<1> HIDE DEF a
<1>4. /\ AccountType(b)
      /\ b.pnl_returns = a.pnl_returns /\ b.last_pnl_sample = a.last_pnl_sample
      /\ b.peak_pnl = a.peak_pnl /\ b.max_drawdown = a.max_drawdown
  BY <1>2, <1>3, FillTyped
<1> HIDE DEF b
<1>5. Drawn(b)
  BY <1>3, <1>4, Zenon DEF Drawn
<1> QED BY <1>1, <1>4, <1>5 DEF DrawInv

LEMMA DrawNextInv == DrawInv /\ [TradersNext]_traderVars => DrawInv'
<1> SUFFICES ASSUME DrawInv, [TradersNext]_traderVars PROVE DrawInv'
  OBVIOUS
<1>1. ASSUME account' = account PROVE DrawInv'
  BY <1>1, Zenon DEF DrawInv
<1>2. CASE NoMidPrice
  BY <1>1, <1>2 DEF NoMidPrice
<1>3. ASSUME NEW mid \in MidPrice \ {0}, MomentumTick(mid) \/ ReversionTick(mid)
      PROVE  DrawInv'
  BY <1>1, <1>3, Zenon DEF MomentumTick, ReversionTick
<1>4. ASSUME NEW mid \in MidPrice \ {0}, MakerTick(mid)
      PROVE  DrawInv'
  <2>1. account' = RecordPnlSample(account, mid)
    BY <1>4 DEF MakerTick
  <2>2. mid \in Int
    BY PriceAssumption
  <2>3. AccountType(RecordPnlSample(account, mid)) /\ Drawn(RecordPnlSample(account, mid))
    BY <2>2, SampleDrawInv DEF DrawInv
  <2> QED BY <2>1, <2>3 DEF DrawInv
<1>5. ASSUME NEW side \in {"BUY", "SELL"}, NEW q \in 1..trade_qty, NEW p \in FillPrice,
             MakerFill(side, q, p)
      PROVE  DrawInv'
  BY <1>5, FillDrawInv DEF MakerFill
<1>6. ASSUME NEW i \in DOMAIN open, NEW q \in 1..trade_qty, NEW p \in FillPrice,
             OrderFill(i, q, p)
      PROVE  DrawInv'
  <2>1. Fill(open[i].side, q, p)
    BY <1>6 DEF OrderFill
  <2> QED BY <2>1, FillDrawInv
<1>7. ASSUME NEW i \in DOMAIN open, Discard(i)
      PROVE  DrawInv'
  BY <1>1, <1>7 DEF Discard
<1>8. CASE UNCHANGED traderVars
  BY <1>1, <1>8 DEF traderVars
<1> QED BY <1>2, <1>3, <1>4, <1>5, <1>6, <1>7, <1>8 DEF TradersNext

(* DrawdownIsWorstFall for all numbers and prices: the running peak and    *)
(* maximum that record_pnl_sample keeps are enough, whatever is sampled    *)
(* and however the agent trades in between, short or not.                  *)
THEOREM DrawdownIsExact == TradersSpec => []DrawdownIsWorstFall
<1>1. TradersInit => DrawInv
  <2> SUFFICES ASSUME TradersInit PROVE DrawInv
    OBVIOUS
  <2> DEFINE a == NewAccount
             s == a.pnl_returns
  <2>1. account = a
    BY DEF TradersInit
  <2>2. /\ a.inventory = 0 /\ a.realized_pnl = Zero /\ a.avg_cost = Zero /\ s = <<>>
        /\ a.last_pnl_sample = Zero /\ a.peak_pnl = Zero /\ a.max_drawdown = Zero
    BY DEF NewAccount
  <2>3. s \in Seq(Int \X Positive) /\ Len(s) = 0
    BY <2>2
  <2>4. \A i \in 1..1, j \in 0..0 : SubSeq(s, i, j) = <<>>
    BY <2>3, SubSeqEmpty
  <2> HIDE DEF a, s
  <2>5. AccountType(a)
    BY <2>2, ZeroLowest DEF AccountType, a
  <2>6. \A i \in 1..1, j \in 0..0 : Total(SubSeq(s, i, j)) = Zero
    BY <2>4, TotalNone
  <2>7. RunsTyped(s)
    BY <2>3, <2>6, ZeroLowest DEF RunsTyped
  <2>8. Sub(Zero, Zero) = Zero
    BY ZeroLowest, SampleRun
  <2>9. LossOf(s, 1, 0) = Zero
    BY <2>6, ZeroLowest DEF LossOf
  <2>10. ~Less(Zero, Zero)
    BY ZeroLowest, NotLess
  <2>11. FallIsWorst(s, Zero)
    BY <2>3, <2>9, <2>10 DEF FallIsWorst
  <2>12. WorstOf(s, Zero)
    BY <2>3, <2>10 DEF WorstOf
  <2>13. Drawn(a)
    BY <2>2, <2>3, <2>7, <2>8, <2>11, <2>12, ZeroLowest DEF Drawn, s
  <2> QED BY <2>1, <2>5, <2>13 DEF DrawInv
<1>2. DrawInv => DrawdownIsWorstFall
  <2> SUFFICES ASSUME DrawInv PROVE DrawdownIsWorstFall
    OBVIOUS
  <2> DEFINE s == account.pnl_returns
             m == account.max_drawdown
             n == Len(s)
             losses == {Zero} \union {Loss(i, j) : i, j \in 1..n}
  <2>1. WorstOf(s, m)
    BY DEF DrawInv, Drawn
  <2>2. \A i, j : Loss(i, j) = LossOf(s, i, j)
    BY Zenon DEF Loss, LossOf, Total
  <2>3. m \in losses
    BY <2>1, <2>2 DEF WorstOf
  <2>4. \A x \in losses : ~Less(m, x)
    BY <2>1, <2>2 DEF WorstOf
  <2> QED BY <2>3, <2>4 DEF DrawdownIsWorstFall
<1> QED BY <1>1, <1>2, DrawNextInv, PTL DEF TradersSpec
============================================================================
