-------------------------- MODULE MercuryServer --------------------------
(***************************************************************************)
(* The main loop of the standalone server                                  *)
(* (src/src/networking/mercury_server.cpp) with its two agents, the market *)
(* maker (src/src/traders/market_maker.h) and the random trader            *)
(* (random_trader.h), on top of the exchange.  One thread does it all:     *)
(* each turn asks the market maker for quotes and submits them, asks the   *)
(* random trader, then submits what the ring buffer of the TCP server      *)
(* holds.  The exchange starts empty: the first two-sided market comes     *)
(* from outside.                                                           *)
(*                                                                         *)
(* An agent numbers its orders in turn from a range of its own             *)
(* (next_order_id of trading_agent.h puts its trader id in the upper half  *)
(* of the number), so their ids are their own: here the order objects of   *)
(* the agents are the numbers 1, 2, ..., and the id of each is its number. *)
(* The clients' orders are other objects.  Every connection counts from    *)
(* 5000001 again (tcp_server.h), so orders of several clients may carry    *)
(* one id, which is never an agent's.  Prices are ticks of a cent; twice   *)
(* the mid price is an integer.                                            *)
(***************************************************************************)
EXTENDS Exchange, Ticks

CONSTANTS
    half_spread, quote_qty, max_position, skew_factor,  \* MarketMaker::Config
    Lot,          \* the quotes move by skew_factor for this much inventory
    NoiseWidth,   \* how far from mid the random trader's limit prices are
    NoiseQty,     \* the quantities it draws from
    ClientOrder,  \* the order objects of the clients
    ExtInput,     \* the orders external clients send
    Wired         \* does the fill callback of the exchange reach the agents?

ASSUME ConfigAssumption ==
    /\ half_spread \in Nat \ {0}
    /\ quote_qty \in UInt32 \ {0}
    /\ max_position \in Nat \ {0}
    /\ skew_factor \in Nat
    /\ Lot \in Nat \ {0}
    /\ Wired \in BOOLEAN

AgentOrder == Order \ ClientOrder

(* 0 stands for the null pointer and for no active quote.  Nothing is      *)
(* asked of the clients' ids but that they are not an agent's.             *)
ASSUME NumberAssumption ==
    /\ NoOrder = 0
    /\ AgentOrder \subseteq Nat \ {0}
    /\ ClientOrder \subseteq Order \ Nat
    /\ \A o \in AgentOrder : order_id[o] = o
    /\ \A o \in ClientOrder : order_id[o] \notin AgentOrder \union {NoOrder}

(* Clients and the random trader fill in the fields of an order, whatever  *)
(* the symbol; the agents trade in AAPL.                                   *)
ASSUME SourceAssumption ==
    /\ "AAPL" \in Symbol
    /\ NoiseWidth \in Nat
    /\ NoiseQty \subseteq UInt32
    /\ ExtInput \subseteq OrderInput

(* The inventory at which both sides are quoted never moves the ask below  *)
(* mid.  The default Config gives 499 shares, 4.99 cents against 5.        *)
ASSUME SkewAssumption == (max_position - 1) * skew_factor <= half_spread * Lot

VARIABLES
    phase,       \* where the main loop is
    active,      \* active_bid_id_ and active_ask_id_ by side, NoOrder for 0
    mid2,        \* twice the mid price on_tick read
    quotes,      \* mm_orders not yet submitted: order and its fields
    owner,       \* whose each order is
    inventory,   \* inventory_ of the market maker
    position     \* what it really holds (history)

agentVars == <<active, mid2, quotes, owner, inventory, position>>
serverVars == <<exVars, phase, agentVars>>

Book == books["AAPL"]

ServerInit ==
    /\ ExInit
    /\ phase = "boot"
    /\ active = [s \in Side |-> NoOrder]
    /\ mid2 = 0
    /\ quotes = <<>>
    /\ owner = EmptyMap
    /\ inventory = 0
    /\ position = 0

(* ex.add_symbol("AAPL") before the loop. *)
Boot ==
    /\ phase = "boot"
    /\ AddSymbol("AAPL")
    /\ phase' = "mm"
    /\ UNCHANGED agentVars

----------------------------------------------------------------------------
(* mid_price() is 0 unless both sides have a level. *)
MidPrice2 ==
    IF \A s \in Side : HasLevels(Book, s)
    THEN BestPrice(Book, "BUY") + BestPrice(Book, "SELL")
    ELSE 0

(* The next order object of an agent. *)
Fresh == Cardinality(DOMAIN orders \ ClientOrder) + 1

LimitOrder(s, p, q) ==
    [symbol |-> "AAPL", side |-> s, type |-> "LIMIT", tif |-> "GTC",
     price |-> p, quantity |-> q]

----------------------------------------------------------------------------
(* MarketMaker::on_tick.  Without a mid price it returns before it cancels *)
(* anything: the old quotes stay.  (A tick begins only while order objects *)
(* are left for it.)                                                       *)
MMTick ==
    /\ phase = "mm"
    /\ Fresh + 2 \in AgentOrder
    /\ mid2' = MidPrice2
    /\ phase' = IF MidPrice2 = 0 THEN "noise" ELSE "cancel_bid"
    /\ UNCHANGED <<exVars, active, quotes, owner, inventory, position>>

(* The cancel is left out. *)
Mutant_CancelQuote(s, from, to) ==
    /\ phase = from
    /\ UNCHANGED exVars
    /\ active' = [active EXCEPT ![s] = NoOrder]
    /\ phase' = to
    /\ UNCHANGED <<mid2, quotes, owner, inventory, position>>

(* cancel_order finds an order with this id. *)
CanCancel(id) == HasBookFor(id) /\ id \in DOMAIN BookOf(id).order_index

(* cancel_order of the last quote on side s, if there is one; it fails if  *)
(* the quote has traded completely meanwhile.                              *)
CancelQuote(s, from, to) ==
    /\ phase = from
    /\ IF active[s] # NoOrder /\ CanCancel(active[s])
       THEN ExCancelOrder(active[s])
       ELSE UNCHANGED exVars
    /\ active' = [active EXCEPT ![s] = NoOrder]
    /\ phase' = to
    /\ UNCHANGED <<mid2, quotes, owner, inventory, position>>

(* The bid is skewed the other way. *)
Mutant_QuotePrice(s) ==
    LET half == IF s = "BUY" THEN -half_spread ELSE half_spread
        skew == (IF s = "BUY" THEN inventory ELSE -inventory) * skew_factor
        p    == Round(Lot * (mid2 + 2 * half) + 2 * skew, 2 * Lot)
    IN  IF s = "BUY" THEN Max({1, p}) ELSE p

(* mid -/+ half_spread + skew, rounded to the cent; a bid that is not      *)
(* positive becomes one cent.  bid_price >= ask_price, which the code also *)
(* provides for, cannot happen before that: the two are two half spreads,  *)
(* at least two cents, apart.                                              *)
QuotePrice(s) ==
    LET half == IF s = "BUY" THEN -half_spread ELSE half_spread
        skew == -inventory * skew_factor
        p    == Round(Lot * (mid2 + 2 * half) + 2 * skew, 2 * Lot)
    IN  IF s = "BUY" THEN Max({1, p}) ELSE p

(* The limit of one side is off by one. *)
Mutant_QuotesOn(s) ==
    IF s = "BUY" THEN inventory < max_position ELSE inventory >= -max_position

QuotesOn(s) ==
    IF s = "BUY" THEN inventory < max_position ELSE inventory > -max_position

(* New quotes: a bid unless at the maximal long position, then an ask      *)
(* unless at the maximal short one.                                        *)
Quote ==
    /\ phase = "quote"
    /\ LET sides == (IF QuotesOn("BUY") THEN <<"BUY">> ELSE <<>>)
                        \o (IF QuotesOn("SELL") THEN <<"SELL">> ELSE <<>>)
           new   == [i \in DOMAIN sides |->
                        [order |-> Fresh + i - 1,
                         in    |-> LimitOrder(sides[i], QuotePrice(sides[i]), quote_qty)]]
       IN  /\ quotes' = new
           /\ active' = [s \in Side |->
                            IF QuotesOn(s)
                            THEN new[CHOOSE i \in DOMAIN sides : sides[i] = s].order
                            ELSE active[s]]
    /\ phase' = "submit"
    /\ UNCHANGED <<exVars, mid2, owner, inventory, position>>

(* ex.submit_order(o) of the main loop, for the order of an agent or a     *)
(* client.                                                                 *)
Submit(who, o, in) ==
    /\ call = "none"
    /\ o \in Order
    /\ RejectOrder(o, in) \/ ExSubmitOrder(o, in)
    /\ owner' = Put(owner, o, who)
    /\ UNCHANGED <<active, mid2, inventory, position>>

SubmitQuote ==
    /\ phase = "submit"
    /\ quotes # <<>>
    /\ Submit("mm", Head(quotes).order, Head(quotes).in)
    /\ quotes' = Tail(quotes)
    /\ UNCHANGED phase

QuotesSubmitted ==
    /\ phase = "submit"
    /\ quotes = <<>>
    /\ call = "none"
    /\ phase' = "noise"
    /\ UNCHANGED <<exVars, agentVars>>

----------------------------------------------------------------------------
(* RandomTrader::on_tick: any side, a market order, or a limit order near  *)
(* mid, rounded to the cent and at least one cent.                         *)
NoiseInput(m2) ==
    {[symbol |-> "AAPL", side |-> s, type |-> "MARKET", tif |-> "GTC",
      price |-> 0, quantity |-> q] : s \in Side, q \in NoiseQty}
    \union
    {LimitOrder(s, Max({1, p}), q) :
        s \in Side, q \in NoiseQty,
        p \in Round(m2 - 2 * NoiseWidth, 2)..Round(m2 + 2 * NoiseWidth, 2)}

NoiseTick ==
    /\ phase = "noise"
    /\ IF MidPrice2 = 0
       THEN UNCHANGED <<exVars, agentVars>>
       ELSE /\ \E in \in NoiseInput(MidPrice2) : Submit("noise", Fresh, in)
            /\ UNCHANGED quotes
    /\ phase' = "poll"

----------------------------------------------------------------------------
(* An order popped from the ring: any object a client made.                *)
SubmitExternal(o, in) ==
    /\ phase = "poll"
    /\ o \in ClientOrder
    /\ Submit("client", o, in)
    /\ UNCHANGED <<quotes, phase>>

(* The ring is empty. *)
QueueEmpty ==
    /\ phase = "poll"
    /\ call = "none"
    /\ phase' = "mm"
    /\ UNCHANGED <<exVars, agentVars>>

----------------------------------------------------------------------------
(* Each fill makes two reports.  on_fill of the market maker adds what it  *)
(* bought and subtracts what it sold, if the callback passes reports on.   *)
Bought(o) ==
    IF owner[o] # "mm" THEN 0
    ELSE IF orders[o].side = "BUY" THEN FillQty ELSE -FillQty

LoopFill ==
    /\ ExExecuteFill
    /\ position' = position + Bought(aggressor) + Bought(Maker)
    /\ inventory' = IF Wired
                    THEN inventory + Bought(aggressor) + Bought(Maker)
                    ELSE inventory
    /\ UNCHANGED <<phase, active, mid2, quotes, owner>>

LoopEngine ==
    /\ ExEraseLevel \/ ExFinish
    /\ UNCHANGED <<phase, agentVars>>

ServerNext ==
    \/ Boot
    \/ MMTick
    \/ CancelQuote("BUY", "cancel_bid", "cancel_ask")
    \/ CancelQuote("SELL", "cancel_ask", "quote")
    \/ Quote \/ SubmitQuote \/ QuotesSubmitted
    \/ NoiseTick
    \/ \E o \in ClientOrder, in \in ExtInput : SubmitExternal(o, in)
    \/ QueueEmpty
    \/ LoopFill \/ LoopEngine

ServerSpec == ServerInit /\ [][ServerNext]_serverVars

----------------------------------------------------------------------------
(* No order leaves the range of prices the model represents. *)
PricesFit == \A o \in DOMAIN orders : orders[o].price \in Price

(* The clients bid at least one cent; the server does not ask them to. *)
PositiveBids ==
    \A in \in ExtInput : in.type = "LIMIT" /\ in.side = "BUY" => in.price > 0

----------------------------------------------------------------------------
(* Every order of the market maker that rests in the book is the one whose *)
(* id it remembers for that side, and cancel_order finds it by that id, so *)
(* the next tick can cancel it: no tick leaves a forgotten quote behind,   *)
(* neither when on_tick returns early for want of a mid price nor when a   *)
(* quote has traded in part or at once, and clients whose orders share an  *)
(* id lose one another's index entries but never the market maker's.       *)
QuotesTracked ==
    \A o \in DOMAIN owner, s \in Side :
        \A p \in DOMAIN Book.level[s] :
            owner[o] = "mm" /\ RestsAt(Book, o, s, p) =>
                /\ o = active[s]
                /\ CanCancel(o)
                /\ global_order_index[o] = "AAPL"
                /\ Book.order_index[o] = [side |-> s, price |-> p]

(* The market maker never trades with itself, although mid is read before  *)
(* the old quotes are cancelled, the new bid is submitted before the new   *)
(* ask, and a bid near zero is raised to one cent after the test for       *)
(* crossed quotes.  It rests on SkewAssumption and on prices of at least   *)
(* one cent: with a larger skew the raised bid can meet the lowered ask.   *)
NoSelfTrade ==
    aggressor # NoOrder /\ MayFill /\ ~LevelSpent
        => ~(owner[aggressor] = "mm" /\ owner[Maker] = "mm")

(* market_maker.h: "max_position   = 500     (Stops quoting on one side if *)
(* limit reached)".  The limit is tested before the quote is posted, so    *)
(* the position may pass it by less than one quote, and never by more,     *)
(* however many ticks the fills are spread over.                           *)
PositionBounded ==
    /\ position < max_position + quote_qty
    /\ -position < max_position + quote_qty
============================================================================
