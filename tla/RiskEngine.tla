--------------------------- MODULE RiskEngine ---------------------------
(***************************************************************************)
(* The pre-trade risk engine (src/src/risk/risk_engine.h).  It is asked    *)
(* before an order goes to the market and told of fills and cancels        *)
(* afterwards; it never sees the market itself.  The market is the         *)
(* environment here: `working' holds the shares of approved orders that    *)
(* can still trade.  An order leaves it by fills, which the risk engine    *)
(* hears of in the same step (the fill callback), or by being withdrawn (a *)
(* cancel, or the discarded rest of a market, IOC or FOK order), which it  *)
(* hears of only later, when the client calls on_cancel.                   *)
(*                                                                         *)
(* A definition named Mutant_X is X with one plausible bug; it is not part *)
(* of the model.  The properties are tested by putting it in X's place.    *)
(*                                                                         *)
(* An account is a pair of trader and symbol, one entry of state_.         *)
(***************************************************************************)
EXTENDS Integers, Functions

CONSTANTS
    Order,      \* order ids
    Account,    \* (trader_id, symbol)
    Quantity,   \* the quantities of orders
    Limits,     \* the RiskLimits that are ever set
    U32         \* 2^32: the quantity of an exposure is a uint32_t

ASSUME QuantityAssumption ==
    /\ U32 \in Nat \ {0}
    /\ Quantity \subseteq 0..(U32 - 1)
ASSUME LimitsAssumption ==
    Limits \subseteq [max_long_position : Nat, max_short_position : Nat]

VARIABLES
    position, open_buy_qty, open_sell_qty, limits,   \* state_, by account
    order_exposures,    \* approved order -> [qty, side, account]
    working,            \* external: order in the market -> shares it may trade
    approved,           \* external: the orders approved so far
    widest              \* history: the widest limits ever in force

riskVars == <<position, open_buy_qty, open_sell_qty, limits, order_exposures,
              working, approved, widest>>

RiskSide == {"BUY", "SELL"}

(* The limits are set before trading begins. *)
RInit ==
    /\ position = [a \in Account |-> 0]
    /\ open_buy_qty = [a \in Account |-> 0]
    /\ open_sell_qty = [a \in Account |-> 0]
    /\ limits \in [Account -> Limits]
    /\ order_exposures = [o \in {} |-> o]
    /\ working = [o \in {} |-> o]
    /\ approved = {}
    /\ widest = limits

Assign(m, k, v) == [x \in DOMAIN m \union {k} |-> IF x = k THEN v ELSE m[x]]
Without(m, k)   == [x \in DOMAIN m \ {k} |-> m[x]]

(* The open quantities of side s once qty shares are added for `side'. *)
Added(open, s, side, a, qty) ==
    IF s = side THEN [open EXCEPT ![a] = @ + qty] ELSE open

----------------------------------------------------------------------------
Wider(m, n) == IF m > n THEN m ELSE n

(* set_limits, at any time. *)
SetLimits(a, l) ==
    /\ limits' = [limits EXCEPT ![a] = l]
    /\ widest' = [widest EXCEPT ![a] =
          [max_long_position  |-> Wider(@.max_long_position, l.max_long_position),
           max_short_position |-> Wider(@.max_short_position, l.max_short_position)]]
    /\ UNCHANGED <<position, open_buy_qty, open_sell_qty, order_exposures,
                   working, approved>>

(* Open exposure is not counted. *)
Mutant_Admits(a, side, qty) ==
    IF side = "BUY"
    THEN position[a] + qty <= limits[a].max_long_position
    ELSE position[a] - qty >= -limits[a].max_short_position

(* The check: what the account would hold if everything open filled. *)
Admits(a, side, qty) ==
    IF side = "BUY"
    THEN position[a] + open_buy_qty[a] + qty <= limits[a].max_long_position
    ELSE position[a] - open_sell_qty[a] - qty >= -limits[a].max_short_position

(* check_order approves, and the client sends the order to the market.  A  *)
(* rejected order changes nothing and may be tried again.                  *)
CheckOrder(o, a, side, qty) ==
    /\ o \notin approved
    /\ Admits(a, side, qty)
    /\ open_buy_qty' = Added(open_buy_qty, "BUY", side, a, qty)
    /\ open_sell_qty' = Added(open_sell_qty, "SELL", side, a, qty)
    /\ order_exposures' =
          Assign(order_exposures, o, [qty |-> qty, side |-> side, account |-> a])
    /\ working' = Assign(working, o, qty)
    /\ approved' = approved \union {o}
    /\ UNCHANGED <<position, limits, widest>>

(* on_cancel forgets the sell side. *)
Mutant_Freed(side, e) ==
    IF side = "BUY" /\ e.side = "BUY"
    THEN [open_buy_qty EXCEPT ![e.account] = @ - e.qty]
    ELSE IF side = "BUY" THEN open_buy_qty ELSE open_sell_qty

(* The open quantity on a side once exposure e is given back. *)
Freed(side, e) ==
    LET open == IF side = "BUY" THEN open_buy_qty ELSE open_sell_qty
    IN  IF e.side = side THEN [open EXCEPT ![e.account] = @ - e.qty] ELSE open

(* A partial fill drops the exposure of the whole order. *)
Mutant_ExposuresAfter(o, qty) == Without(order_exposures, o)

(* order_exposures_ after a fill of qty shares.  The subtraction is one of *)
(* uint32_t: "qty <= 0" finds 0 and nothing below it.                      *)
ExposuresAfter(o, qty) ==
    LET left == (order_exposures[o].qty - qty) % U32
    IN  IF left <= 0 THEN Without(order_exposures, o)
        ELSE [order_exposures EXCEPT ![o].qty = left]

(* qty shares of o trade and on_fill is called with the report. *)
OnFill(o, qty) ==
    /\ o \in DOMAIN working
    /\ qty \in 1..working[o]
    /\ o \in DOMAIN order_exposures
    /\ LET e == order_exposures[o]
       IN  /\ position' = [position EXCEPT ![e.account] =
                              IF e.side = "BUY" THEN @ + qty ELSE @ - qty]
           /\ open_buy_qty' = Freed("BUY", [e EXCEPT !.qty = qty])
           /\ open_sell_qty' = Freed("SELL", [e EXCEPT !.qty = qty])
    /\ order_exposures' = ExposuresAfter(o, qty)
    /\ working' = IF working[o] = qty THEN Without(working, o)
                  ELSE [working EXCEPT ![o] = @ - qty]
    /\ UNCHANGED <<limits, approved, widest>>

(* External: the market takes the order out; the risk engine is not told. *)
Withdraw(o) ==
    /\ o \in DOMAIN working
    /\ working' = Without(working, o)
    /\ UNCHANGED <<position, open_buy_qty, open_sell_qty, limits,
                   order_exposures, approved, widest>>

(* on_cancel, which the client calls once the order is out of the market.  *)
(* For an order whose fills have used up its exposure it does nothing.     *)
OnCancel(o) ==
    /\ o \notin DOMAIN working
    /\ o \in DOMAIN order_exposures
    /\ open_buy_qty' = Freed("BUY", order_exposures[o])
    /\ open_sell_qty' = Freed("SELL", order_exposures[o])
    /\ order_exposures' = Without(order_exposures, o)
    /\ UNCHANGED <<position, limits, working, approved, widest>>

RNext ==
    \/ \E a \in Account, l \in Limits : SetLimits(a, l)
    \/ \E o \in Order, a \in Account, side \in RiskSide, qty \in Quantity :
          CheckOrder(o, a, side, qty)
    \/ \E o \in DOMAIN working : Withdraw(o) \/ \E qty \in 1..working[o] : OnFill(o, qty)
    \/ \E o \in DOMAIN order_exposures : OnCancel(o)

RSpec == RInit /\ [][RNext]_riskVars

----------------------------------------------------------------------------
(* Type correctness. *)
RTypeOK ==
    /\ position \in [Account -> Int]
    /\ open_buy_qty \in [Account -> Int]
    /\ open_sell_qty \in [Account -> Int]
    /\ limits \in [Account -> [max_long_position : Nat, max_short_position : Nat]]
    /\ widest \in [Account -> [max_long_position : Nat, max_short_position : Nat]]
    /\ DOMAIN order_exposures \subseteq Order
    /\ order_exposures \in [DOMAIN order_exposures ->
                              [qty : Nat, side : RiskSide, account : Account]]
    /\ DOMAIN working \subseteq Order
    /\ working \in [DOMAIN working -> Nat]
    /\ approved \subseteq Order

(* Every share that can still trade is counted: an order in the market has *)
(* its exposure on record, for exactly the shares it may still trade.  The *)
(* risk engine lags behind the market only on the safe side.               *)
MarketCovered ==
    \A o \in DOMAIN working :
        o \in DOMAIN order_exposures /\ order_exposures[o].qty = working[o]

(* The two counters of an account are the sums of its open exposures, so   *)
(* they return to 0 when its orders are done, whatever mix of partial      *)
(* fills and cancels ended them.                                           *)
OpenOn(exposures, a, side) ==
    SumFunctionOnSet([o \in DOMAIN exposures |-> exposures[o].qty],
        {o \in DOMAIN exposures :
            exposures[o].account = a /\ exposures[o].side = side})

CountersAddUp ==
    \A a \in Account :
        /\ open_buy_qty[a] = OpenOn(order_exposures, a, "BUY")
        /\ open_sell_qty[a] = OpenOn(order_exposures, a, "SELL")

(* If everything open filled, no account would be beyond the widest limits *)
(* it ever had: risk_engine.h, "if both orders fill, you will hold 1,500   *)
(* shares, exceeding your limit."                                          *)
WorstCaseWithinLimits ==
    \A a \in Account :
        /\ position[a] + open_buy_qty[a] <= widest[a].max_long_position
        /\ position[a] - open_sell_qty[a] >= -widest[a].max_short_position
============================================================================
