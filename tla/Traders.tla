----------------------------- MODULE Traders -----------------------------
(***************************************************************************)
(* The agents that trade on a price signal                                 *)
(* (src/src/traders/momentum_trader.h, mean_reversion_trader.h) and the    *)
(* accounts they and the market maker keep (trading_agent.h).  A behaviour *)
(* follows one agent; its quotes apart, which are in MercuryServer, the    *)
(* market maker is here a holder of an account that trades on both sides   *)
(* and samples its profit at every tick.                                   *)
(*                                                                         *)
(* The market is the environment: any mid price at each tick, and fills of *)
(* the agent's orders as the engine makes them.  A market order trades at  *)
(* once, perhaps in part, and the rest is discarded before the next tick;  *)
(* a limit order may rest and trade at any later time.  No agent here      *)
(* cancels.                                                                *)
(*                                                                         *)
(* Means, deviations and thresholds are compared after multiplying out, so *)
(* the signals are exact; the thresholds are fractions <<n, d>>.           *)
(***************************************************************************)
EXTENDS TradingAgent, Ticks

CONSTANTS
    Agent,                        \* which of "momentum", "reversion", "maker"
    MidPrice,                     \* mid prices in half cents; 0: no two-sided market
    FillPrice,                    \* prices of fills, in half cents
    short_window, long_window, threshold,   \* MomentumTrader::Config
    window, entry_z, exit_z, max_pos,       \* MeanReversionTrader::Config
    trade_qty,                    \* of both
    MaxTicks, MaxFills            \* bounds, for each agent

ASSUME WindowAssumption ==
    /\ short_window \in 1..long_window
    /\ window \in Nat \ {0}
    /\ trade_qty \in Nat \ {0}
    /\ max_pos \in Nat \ {0}

(* Trades have a positive price: unrealized_pnl takes an average cost of 0 *)
(* for no position.                                                        *)
ASSUME PriceAssumption ==
    /\ MidPrice \subseteq Nat
    /\ FillPrice \subseteq Nat \ {0}

VARIABLES
    agent,          \* the agent followed
    account,
    price_history,  \* the last mid prices
    last_signal,    \* last_signal_ of the momentum trader
    open,           \* orders submitted and not yet filled or discarded
    ticks,
    cash, short,    \* history: money received less money paid; was it ever short;
    uncounted,      \* the most shares open on the side of a new order;
    trend, ordered  \* the last signal, the sides momentum orders have had

history == <<cash, short>>
followed == <<trend, ordered>>
traderVars == <<agent, account, price_history, last_signal, open, ticks,
                history, uncounted, followed>>

TradersInit ==
    /\ agent \in Agent
    /\ account = NewAccount
    /\ price_history = <<>>
    /\ last_signal = "BUY"
    /\ open = <<>>
    /\ ticks = 0
    /\ cash = 0 /\ short = FALSE /\ uncounted = 0
    /\ trend = {} /\ ordered = <<>>

----------------------------------------------------------------------------
(* push_back, and pop_front when the window is exceeded. *)
Push(h, mid, n) ==
    LET h1 == Append(h, mid) IN IF Len(h1) > n THEN Tail(h1) ELSE h1

(* The sum of the last n prices. *)
LastSum(h, n) == FoldLeft(LAMBDA x, y : x + y, 0, SubSeq(h, Len(h) - n + 1, Len(h)))

SumOfSquares(h) == FoldLeft(LAMBDA x, y : x + y * y, 0, h)

(* fast_ma > slow_ma * (1 + threshold); side = -1 for < and 1 - threshold. *)
Diverges(h, side) ==
    LET fast == LastSum(h, short_window) * long_window * threshold[2]
        slow == LastSum(h, long_window) * short_window
    IN  side * fast > side * slow * (threshold[2] + side * threshold[1])

MakeOrder(side, type, qty, price) ==
    [side |-> side, type |-> type, qty |-> qty, price |-> price]

Signed(side, qty) == IF side = "BUY" THEN qty ELSE -qty

(* The shares of the orders of one side. *)
Shares(orders, side) ==
    SumFunctionOnSet([i \in DOMAIN orders |->
                         IF orders[i].side = side THEN orders[i].qty ELSE 0],
                     DOMAIN orders)

(* A call of on_tick, after which the loop submits the orders new.         *)
(* An order of an earlier tick that is still open rests in the book.       *)
Tick(h, new) ==
    /\ ticks < MaxTicks[agent]
    /\ \A i \in DOMAIN open : open[i].type = "LIMIT"
    /\ ticks' = ticks + 1
    /\ price_history' = h
    /\ open' = open \o new
    /\ uncounted' = Max({uncounted} \union {Shares(open, new[i].side) : i \in DOMAIN new})
    /\ UNCHANGED <<agent, history>>

(* Without a mid price on_tick returns at once. *)
NoMidPrice == 0 \in MidPrice /\ Tick(price_history, <<>>)
                             /\ UNCHANGED <<account, last_signal, followed>>

----------------------------------------------------------------------------
(* The test against the last signal is missing. *)
Mutant_TradesOn(signal) == signal # {}

(* There is a signal, and it is not the one last traded on. *)
TradesOn(signal) == signal # {} /\ signal # {last_signal}

MomentumTick(mid) ==
    LET h      == Push(price_history, mid, long_window)
        signal == IF Len(h) < long_window THEN {}
                  ELSE IF Diverges(h, 1) THEN {"BUY"}
                  ELSE IF Diverges(h, -1) THEN {"SELL"} ELSE {}
        sides  == IF TradesOn(signal) THEN signal ELSE {}
    IN  /\ agent = "momentum"
        /\ Tick(h, SetToSeq({MakeOrder(s, "MARKET", trade_qty, 0) : s \in sides}))
        /\ last_signal' = IF sides = {} THEN last_signal ELSE CHOOSE s \in sides : TRUE
        /\ trend' = IF signal = {} THEN trend ELSE signal
        /\ ordered' = ordered \o SetToSeq(sides)
        /\ UNCHANGED account

----------------------------------------------------------------------------
(* |z| compared with the threshold t: with d = window * (mid - mean) and   *)
(* v = window^2 * variance, z^2 = d^2 / v.                                 *)
Deviation(h, mid) == window * mid - LastSum(h, window)
Spread(h) == window * SumOfSquares(h) - LastSum(h, window) * LastSum(h, window)

Exceeds(h, mid, t) ==
    Deviation(h, mid) * Deviation(h, mid) * t[2] * t[2] > t[1] * t[1] * Spread(h)

Within(h, mid, t) ==
    Deviation(h, mid) * Deviation(h, mid) * t[2] * t[2] < t[1] * t[1] * Spread(h)

(* The limit is not looked at when buying. *)
Mutant_MayEnter(side) ==
    IF side = "SELL" THEN account.inventory > -max_pos ELSE TRUE

MayEnter(side) ==
    IF side = "SELL" THEN account.inventory > -max_pos
                     ELSE account.inventory < max_pos

(* The entry side the price calls for. *)
EntrySide(h, mid) == IF Deviation(h, mid) > 0 THEN "SELL" ELSE "BUY"

(* The limit price of an entry: a cent beyond mid, rounded to the cent. *)
EntryPrice(side, mid) == 2 * Round(IF side = "SELL" THEN mid - 2 ELSE mid + 2, 2)

(* The orders on_tick returns once the window is full and not flat. *)
ReversionOrders(h, mid) ==
    LET side == EntrySide(h, mid)
        inv  == account.inventory
    IN  IF Exceeds(h, mid, entry_z) /\ MayEnter(side)
        THEN <<MakeOrder(side, "LIMIT", trade_qty, EntryPrice(side, mid))>>
        ELSE IF Within(h, mid, exit_z) /\ inv # 0
        THEN <<MakeOrder(IF inv > 0 THEN "SELL" ELSE "BUY", "MARKET",
                     Min({trade_qty, Abs(inv)}), 0)>>
        ELSE <<>>

ReversionTick(mid) ==
    LET h     == Push(price_history, mid, window)
        ready == Len(h) = window /\ Spread(h) > 0     \* stddev < 1e-6: flat
    IN  /\ agent = "reversion"
        /\ Tick(h, IF ready THEN ReversionOrders(h, mid) ELSE <<>>)
        /\ UNCHANGED <<account, last_signal, followed>>

----------------------------------------------------------------------------
(* on_tick of the market maker samples the profit before it quotes. *)
MakerTick(mid) ==
    /\ agent = "maker"
    /\ Tick(price_history, <<>>)
    /\ account' = RecordPnlSample(account, mid)
    /\ UNCHANGED <<last_signal, followed>>

----------------------------------------------------------------------------
(* on_fill: each agent's is record_fill. *)
Fill(side, q, p) ==
    /\ account.fill_count < MaxFills[agent]
    /\ account' = RecordFill(account, side, q, p)
    /\ cash' = cash - Signed(side, q * p)
    /\ short' = (short \/ account'.inventory < 0)
    /\ UNCHANGED <<agent, price_history, last_signal, ticks, uncounted, followed>>

(* A quote of the market maker trades. *)
MakerFill(side, q, p) ==
    /\ agent = "maker"
    /\ Fill(side, q, p)
    /\ UNCHANGED open

(* q shares of open order i trade at p; a market order is done with at the *)
(* end of its submit_order, a limit order when nothing of it is left.      *)
OrderFill(i, q, p) ==
    /\ i \in DOMAIN open
    /\ q \in 1..open[i].qty
    /\ open[i].type = "LIMIT" =>
          IF open[i].side = "BUY" THEN p <= open[i].price ELSE p >= open[i].price
    /\ \A j \in DOMAIN open : open[j].type = "MARKET" => j = i
    /\ Fill(open[i].side, q, p)
    /\ open' = IF q = open[i].qty THEN RemoveAt(open, i)
               ELSE [open EXCEPT ![i].qty = @ - q]

(* The engine cancels what is left of a market order. *)
Discard(i) ==
    /\ i \in DOMAIN open
    /\ open[i].type = "MARKET"
    /\ open' = RemoveAt(open, i)
    /\ UNCHANGED <<agent, account, price_history, last_signal, ticks,
                   history, uncounted, followed>>

TradersNext ==
    \/ NoMidPrice
    \/ \E mid \in MidPrice \ {0} : MomentumTick(mid) \/ ReversionTick(mid) \/ MakerTick(mid)
    \/ \E side \in {"BUY", "SELL"}, q \in 1..trade_qty, p \in FillPrice : MakerFill(side, q, p)
    \/ \E i \in DOMAIN open :
          \/ \E q \in 1..trade_qty, p \in FillPrice : OrderFill(i, q, p)
          \/ Discard(i)

TradersSpec == TradersInit /\ [][TradersNext]_traderVars

----------------------------------------------------------------------------
(* Profit adds up: as long as the agent has never been short, total_pnl at *)
(* any mid price is the money it has taken in plus what its shares are     *)
(* worth, however its purchases and sales alternate.  (Short positions are *)
(* valued with the cost of earlier purchases, or not at all.)              *)
PnlAddsUp ==
    ~short => \A mid \in MidPrice \ {0} :
                  TotalPnl(account, mid) = <<cash + account.inventory * mid, 1>>

(* max_drawdown is the worst fall of the sampled profit: the largest loss  *)
(* over any run of consecutive returns, or 0.  The code keeps only a       *)
(* running peak and maximum.                                               *)
Loss(i, j) ==
    Times(-1, FoldLeft(Add, Zero, SubSeq(account.pnl_returns, i, j)))

DrawdownIsWorstFall ==
    LET n      == Len(account.pnl_returns)
        losses == {Zero} \union {Loss(i, j) : i, j \in 1..n}
    IN  /\ account.max_drawdown \in losses
        /\ \A x \in losses : ~Less(account.max_drawdown, x)

(* The momentum trader follows the trend: once it has ordered anything,    *)
(* its last order is on the side of the last signal, so no turn is missed, *)
(* and its orders alternate, so no signal that goes on is traded on twice. *)
(* (Whether it trades on the first signal depends on what that is:         *)
(* last_signal_ starts as BUY, so a first bullish signal is passed over,   *)
(* although momentum_trader.h says "BULLISH  -> submit MARKET BUY".)       *)
MomentumFollowsTrend ==
    /\ \A i \in 2..Len(ordered) : ordered[i] # ordered[i - 1]
    /\ ordered # <<>> => trend = {Last(ordered)}

(* mean_reversion_trader.h: "max absolute position before stopping".  The  *)
(* test counts the inventory and not the entries of earlier ticks, limit   *)
(* orders that may rest and are never cancelled.  That is the only way     *)
(* past the limit: the position exceeds max_pos by less than one order     *)
(* plus the shares that were open, on the side of a new order, when a tick *)
(* made it, whatever trades late, in part or not at all.                   *)
ReversionBounded ==
    agent = "reversion" => Abs(account.inventory) < max_pos + trade_qty + uncounted
============================================================================
