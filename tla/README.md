# MERCURY matching engine: TLA+ models, TLC runs and TLAPS proofs

The repository is a C++ electronic exchange: order books, a price-time
priority matching engine, an exchange that routes to one book per symbol, a
risk engine, a lock-free queue and an object pool that connect gateway threads
to the matching thread, a TCP gateway, trading agents and an ITCH replay
parser. This directory models all of these and says what holds of them. Paths below
are relative to the repository, `src/src/...` as in `PROJECT.json`.

## 1. Inventory

| Part | State it keeps | Operations | Talks to |
|---|---|---|---|
| Order book (`orderbook/`) | two sorted maps price -> level (total, deque), `order_index` id -> (side, price) | add_limit_order, cancel_order, level add/remove/update, best prices, depth | changed by the engine and by `modify_order` |
| Matching engine (`matching/`) | exec id and counters | submit_order (limit, market; GTC, IOC, FOK), cancel_order; one callback per report, two reports per fill | book by reference; callback to the exchange |
| Exchange (`exchange/`) | books by symbol, `global_order_index_` id -> symbol, statistics | add_symbol, submit_order, cancel_order, modify_order (three cases) | owns the engine; user callback |
| Risk engine (`risk/`) | per trader and symbol: position, open buys and sells, limits; exposure per order | set_limits, check_order, on_fill, on_cancel | called by a client around the exchange; nothing in `src/` wires it |
| SPSC queue (`utils/`) | ring, head, tail | push (producer thread), pop (consumer thread) | TCP threads -> main loop |
| Object pool (`utils/`) | blocks, free list, spinlock | acquire, recycle (the deleter of the shared_ptr) | every thread that makes or drops an order |
| TCP server (`networking/tcp_server.h`) | `running_`, listener thread, one thread per client, order counter per client | start, stop, accept, parse, acquire, push with retry, ACK | pool, queue |
| Main loop (`networking/mercury_server.cpp`) | exchange, market maker, random trader, queue | tick the agents, submit, poll the queue | all of the above |
| Agents (`traders/`) | inventory, average cost, realised profit, drawdown; price window, last signal, working quotes | on_tick, on_fill | read the book, return orders; the market maker cancels |
| ITCH parser (`replay/`) | position in a file, orders so far | parse_file | pool |

What is hard here and what makes each part right:

* **Book and engine.** The same order is recorded in a deque, in `order_index`,
  in a level total and in its own fields, and adds, cancels, partial and
  complete fills, discards and modifications each change some of them. The
  callback runs in the middle of a sweep. Right means: the records agree after
  any history and between any two fills; nothing crossed, stale, queued twice
  or over-filled; fill-or-kill is all or nothing; every fill goes to the order
  with price-time priority; every call returns.
* **Exchange.** A second index, written before and cleaned after the engine
  runs. Right means: every resting order stays reachable; a modification keeps
  or loses the queue position by the rules in `exchange.h`.
* **SPSC queue.** Two threads act on old values of each other's index. Right
  means: no slot is touched by both, items come out once and in order.
* **Object pool.** Threads contend on a spinlock. Right means: no object has
  two owners, none is lost, no thread is left spinning on a lock nobody clears.
* **Risk engine.** It follows the market by messages. Right means: an account
  is never beyond its limits, even if everything open fills.
* **TCP server.** Each client has a thread, none is waited for, and all push to
  a queue made for one producer. Right means: an order that is acknowledged is
  delivered, once and in order; `stop` does not hang and frees every thread.
* **Main loop and agents.** Fills happen between an agent's decisions, mid
  prices come and go. Right means: no forgotten quotes, no trade with oneself,
  positions within their limits, profits that add up.
* **ITCH parser.** Lengths come from the file. Right means: exactly the complete
  Add messages, whatever the lengths and wherever the file ends.

The hazards, each at its source line with the properties that watch it, are in
`PROJECT.json`.

## 2. Modules

| Module | Models | Role |
|---|---|---|
| `OrderBook` | types.h, order_book.h/.cpp | data and pure operations of one book; the conditions that make a book consistent |
| `MatchingEngine` | matching_engine.h/.cpp | the state machine of the engine over one book per symbol |
| `PriceTimePriority` | the rules | abstract market: a set of resting orders, who is ahead of whom, a taker |
| `PriorityMapping` | | refinement mapping from books to the abstract market |
| `Exchange` | exchange.h/.cpp | extends `MatchingEngine` with listing, routing, modify, statistics |
| `SPSCQueue`, `BoundedFIFO` | spsc_queue.h | the ring, memory access by memory access, and what it promises |
| `ObjectPool` | object_pool.h | free list under a spinlock |
| `RiskEngine` | risk_engine.h | the risk engine with the market as environment |
| `TcpServer` | tcp_server.h, the polling loop of mercury_server.cpp | listener, client threads and main thread around the ring |
| `MercuryServer` | mercury_server.cpp, market_maker.h, random_trader.h | extends `Exchange` with the main loop and its agents |
| `TradingAgent`, `Ticks` | trading_agent.h, `std::round` to the cent | pure operators on accounts and prices |
| `Traders` | momentum_trader.h, mean_reversion_trader.h, accounts of all agents | one agent against any market |
| `ItchParser` | itch_parser.h | `parse_file` message by message |
| `OrderBook_proofs`, `MatchingEngine_proofs`, `TcpServer_proofs`, `ItchParser_proofs` | | theorems about the module of that name |
| `Exchange_proofs` | | theorems about `Exchange` and, on top of it, `MercuryServer` |
| `Accounts_proofs` | | theorems about `RiskEngine` and `Traders` |
| `Utils_proofs` | | theorems about `SPSCQueue` and `ObjectPool` |
| `SumTheorems` | | what `SumFunctionOnSet` computes, for every finite set; used by the proofs about totals, counters and bytes |
| `MC*` | | instances for TLC |

A definition named `Mutant_X` is `X` with one plausible bug. It is used only to
test that a property notices: `PROJECT.json` lists, for each property of each
run, the mutant under which TLC finds it violated.

### How state and actions correspond to the code

* An order object is a member of `Order` (the pointer); its fields are
  `orders[o]`. Its id is `order_id[o]`: pointer and id are different things.
* A `std::map` is a function on the keys present; `bids` and `asks` are
  `level["BUY"]` and `level["SELL"]`, `begin()` is `BestPrice`.
* `submit_order` is a sequence of steps, because each `execute_fill` ends in
  the callback: `SubmitOrder` (entry and fill-or-kill check), then `ExecuteFill`
  for each turn of the inner loop, `EraseLevel` when the loop has run a level
  dry, `Finish` (rest, discard, relabel). `aggressor` is the order of the call
  in progress; no other operation starts while it is set, since the engine is
  single-threaded. (A callback that calls back into the exchange is not
  modelled; none in the repository does.)
* In `Exchange` the epilogues of `submit_order` and `modify_order` are part of
  the step that ends the engine's call. `ReplaceOrder`, `ReduceOrder` and
  `KeepOrder` are the cases A, B and C of `modify_order`. Calls that return
  false and change nothing are not steps.
* In `SPSCQueue` each access to shared memory is a step. An acquire load may
  return any value stored since the last one the thread saw (`Visible`), so the
  two threads may lag behind each other arbitrarily.
* In `RiskEngine` the market is external: `working` is what can still trade.
  A fill reaches the engine at once (callback), a withdrawal only when the
  client calls `on_cancel`. The quantity of an exposure is a `uint32_t`: a fill
  is subtracted modulo `U32`, so a fill of more shares than were approved would
  leave a huge exposure and not a negative one. In the model no such fill
  exists, because the market trades what was approved. `modify_order` could
  enlarge an order, but the risk engine has no call for it and nothing connects
  the two.
* In `ObjectPool` an allocation succeeds (`AllocateBlock`) or throws while the
  flag is held (`AllocationThrows`). Nothing in the repository catches it, so
  `std::terminate` ends the process (`Ended`); were it caught, every other
  thread would spin for ever.
* In `TcpServer` every client thread is a producer. `push` is split at each
  access of shared memory: `PushLoad` (`tail_`, which fixes the slot),
  `PushRoom` or `PushFull` (`head_`), `PushWrite` (the slot), `PushStore`
  (`tail_`); `Retry` is the test of the loop around it; `ClientLoop`, `Recv`, `RecvFails` and `SendAck` the rest of
  `handle_client`. `Startup`, `CheckRunning`, `AcceptNone` and `Accept` are
  `listen_loop`. `recv` may return several segments at once or fail at any time
  (accepted sockets inherit the non-blocking mode, so an idle client can get
  WSAEWOULDBLOCK, which ends its thread). `Stop` and `StopReturn` are the two
  halves of `stop`, around the wait. Memory is sequentially consistent here;
  the weaker order is in `SPSCQueue`.
* In `MercuryServer` the variable `phase` is the place in the loop body:
  `MMTick`, `CancelQuote` for each side, `Quote` are `MarketMaker::on_tick`,
  `SubmitQuote` the loop over its orders, `NoiseTick` the random trader (its
  random choices are nondeterministic), `SubmitExternal` one pop of the queue.
  Every submission is matched fill by fill by the actions of `Exchange`.
  An agent's order is its number, and its id too (`next_order_id` puts the
  trader id in the upper half, so these ids are its own). A client's order is
  an object of `ClientOrder`, whose id other clients' orders may have as well,
  since every connection counts from 5000001 (`tcp_server.h:121,138`).
  `Wired` says whether the exchange's callback hands reports to the agents: it
  does in the repository's simulation tests (`tests/stage3_test.cpp:462`) and
  does not in `mercury_server.cpp:19`.
* In `Traders` the market is the environment. Signals are compared after
  multiplying out, so they are exact; `TradingAgent` computes on fractions.
  Limit entries of the mean reversion trader may rest for any number of ticks
  and trade at any of them (`open`).
* In `ItchParser` a byte is a digit in base `Base`; `Native` is what a
  little-endian machine reads, `bswap` what the code makes of it. The reference
  (`MessageStarts`, `BigEndian`, `Says`) reads the file without either:
  `StartsFrom` goes along it from message to message, and the order at place n
  of the result is compared with the n-th Add message.

Abstractions: prices are ticks `0..MaxPrice` (the code compares doubles for
order and equality only; sums of value lose no precision here); totals and
counters are unbounded integers except where the code narrows them
(`can_fill_completely` takes the level total modulo `U32`); doubles of the
agents are exact fractions, without rounding errors; timestamps and
trader ids are left out (no decision of the engine reads them); a limit order
may have price 0 in the specifications, the instances use positive prices.
`execute_fill` reads `resting` after `pop_front`: the model assumes that the
client still holds the order, so the read is of a live object.

## 3. Runs

| Run | Instance | Shows |
|---|---|---|
| `engine` | 4 orders, 2 prices, quantities 0..2, 1 symbol, fair | all invariants of the engine, conservation of shares, final orders stay final, fill-or-kill all or nothing and refused for two reasons only, refinement of `PriceTimePriority`, every call returns |
| `exchange` | 3 orders of 1 or 3 shares, 2 symbols that need not be listed, 4 submissions and modifications together | routing, soundness of the books, totals and statuses under chains of modifications between partial fills, refinement |
| `ring` | 4 slots, 2 items, fair consumer | FIFO refinement, no slot race, the ring drains |
| `pool` | 3 threads, blocks of 2, growing once or failing to | one place per object, progress or the end of the process |
| `risk` | 3 orders of 0..3 shares, 2 accounts, 2 limit settings | exposure, counters and worst case |
| `server` | 2 clients with 3 and 1 segments, a ring of 4 slots (3 usable), 2 starts, fair | delivery once and in the order of the pushes, after an overlap still of what was pushed before it; an ACK means pushed until the server stops; `stop` returns and frees the client threads |
| `loop` | 8 agents' orders, 3 of clients, two of them with one id; quotes of 2 shares, limit 2 | no quote forgotten or out of reach of `cancel_order`, no self trade, position limit |
| `strategies` | 7 ticks and 4 fills (market maker: 4 and 3), windows of 2 and 3 | profit adds up, drawdown is the worst fall, momentum follows the trend, mean reversion keeps its limit up to one order and what rested uncounted |
| `itch` | 2 messages, or 3 short ones, cut after any byte | exactly the complete Add messages |
| `lost_order`, `unwired`, `itch_length` | as `server`, `loop`, `itch` | the findings below |

Bounds and why they are enough.

* Two resting orders and a taker make every situation of a sweep: a partial and
  a complete fill of maker and taker, two makers at one price (time) or two
  prices (price), a level run dry with and without taker left over; quantity 2
  makes partial fills. The fourth order adds a history (a cancel or fill) before
  such a sweep. `InTurn` submits the order objects, which are alike, in one
  order (in place of TLC's symmetry, which liveness does not allow);
  `OnePasses` lets one order of a history, the third or fourth, be of a kind
  that does not rest: before that there is at most one order it could meet.
* `U32` is 4 in `engine`, the total of two resting orders of 2 shares, so the
  cast of `can_fill_completely` cuts a total to 0 and a fill-or-kill order that
  could be filled is killed: the second case of `FOKKillJustified` happens.
  In `risk` it is 4 as well, one more than the largest quantity.
* `modify_order` can be repeated for ever: `MaxOps` bounds modifications and
  submissions together, so three orders are modified once and one order up to
  three times. `ListedEarly` lists symbols before the second order; `Priced`
  keeps prices positive.
* In `server` the ring of four slots holds three orders, so there is an order
  among those in it that could be lost; the four segments of the two clients
  fill it, so a full ring, retries, overlaps (of two pushes that load the same
  `tail_`, and of one that stores an old one) and a stop during a retry all
  happen. `MaxSegments` and `MaxStarts` bound what clients send and how often
  the server is started.
  In `lost_order` two slots suffice.
* In `loop` the eight agents' orders are two to three ticks; the inputs of
  `MCExtInput` make a wide market, a narrow one at the bottom of the price
  range, and trades with either quote. Two of the three clients' orders carry
  one id, so `order_index` loses one of them (`IndexConsistent` would be
  violated here), while quotes are posted, traded and cancelled around them.
* In `ObjectPool`, `RoomToAcquire` keeps acquires within `MaxBlocks`.
* In `itch`, bytes have 8 values and no two bytes of a number are alike, so any
  misplaced byte shows.

Deadlock is checked in `ring`, `pool` (where `Ended` repeats once the process
has ended) and `risk`. It is not in the others: when all order objects,
segments, ticks or bytes are used there is nothing left to do.

Fairness. `Fairness` of the engine (weak fairness of its steps): a call runs on
one thread and never waits. `QFairSpec`: the main loop polls the queue for
ever, and a store becomes visible in finite time; nothing is asked of the
producer. `PoolFairSpec`: a thread inside the critical section runs on, and a
clear flag is set by some spinning thread; no thread is promised its turn.
An allocation may fail each time.
`TcpFairness`: threads are scheduled, the non-blocking accept and the wait for
a dead thread return, the main thread polls until it stops; nothing is asked of
clients, of `recv`, or of who calls `start` and `stop`. This does not promise a
client its answer while the server runs, and no property claims it: the threads
that retry a full ring compete for each slot that gets free, in no order, and
one may lose every time (that the finite instance would show otherwise is due
to `MaxSegments`). What is claimed, `StopFreesClients`, does not depend on the
others: once `running_` is clear a thread leaves the loop the next time it
looks, whatever they push.

### Findings

1. `lost_order`: two client threads that push at once write the same slot; one
   order is gone and both clients hold an ACK (`tcp_server.h:151` against
   `tcp_server.h:150` and `spsc_queue.h:9`). Without overlap nothing is lost,
   and what was in the ring before the first overlap is not lost to it
   (`DeliveredInOrder`).
2. `unwired`: the server's fill callback is empty, so the market maker's
   inventory stays 0 and its position limit is never applied
   (`mercury_server.cpp:19` against `market_maker.h:26`). With the callback
   passed on, as the tests do, `PositionBounded` holds (`loop`).
3. `itch_length`: an Add message is parsed only if its length is at least 38,
   because `sizeof(ItchAddOrder)` is 37 without the type byte; messages of the
   36 bytes the comment names are skipped (`itch_parser.h:86` against
   `itch_parser.h:46`).

Also met, without a run of their own:

* `can_fill_completely` casts a level's 64-bit total to `uint32_t`
  (`matching_engine.cpp:163`): a level with 2^32 shares or more counts modulo
  2^32 and a fill-or-kill order that could be filled is killed, against
  `matching_engine.h:72` ("Checks if a FOK order can be fully executed at the
  current book state"). `FOKKillJustified` says that this is the only
  exception; without its second disjunct (`CutLevel`) the run `engine`
  violates it.
* `cancel_order` does not mark the order CANCELLED (`matching_engine.cpp:53`
  against `matching_engine.h:36`).
* `total_volume` counts each share twice (`exchange.cpp:14` against
  `exchange.h:36`), once per report.
* `modify_order` in case A sets `filled_qty` to 0, so an order's fill history
  is lost and conservation over `filled_qty` is stated for the engine alone;
  `global_order_index_` keeps entries of orders that filled while resting or
  were killed.
* All TCP clients number their orders from 5000001, so ids repeat
  (`tcp_server.h:121` against `types.h`, "Globally unique ID"). Of two resting
  orders with one id the index knows one place, the later one's, and when
  either trades completely or is cancelled the entry is erased for both: the
  one that is left can be neither cancelled nor modified. The books
  themselves, the refinement of price-time priority and whatever belongs to an
  order with an id of its own are not affected (section 4).
* The ACK is sent for an order that was given up; a second order in one `recv`
  is dropped; a listener that fails to bind leaves `running_` set.
* The momentum trader passes a first bullish signal over, since `last_signal_`
  starts as BUY and `has_signal_` is never read (`momentum_trader.h:76` against
  `momentum_trader.h:10`, "BULLISH  -> submit MARKET BUY", and
  `stage3_test.cpp:315`, where a rising market should trigger a BUY). No property
  takes a side: `MomentumFollowsTrend` holds of the code as it is and would hold
  of one that buys on that signal.
* The mean reversion trader can pass `max_pos` ("max absolute position before
  stopping") by any number of entries that rest, since the test of
  `mean_reversion_trader.h:73` counts only shares held and nothing cancels old
  entries. `ReversionBounded` says by how much: one order and the shares that
  were open on the side of a new order when it was made. A bound of one order
  alone is violated in `strategies`.
* A short position is valued with the cost of earlier purchases or not at all
  (`PnlAddsUp` is about agents that were never short).
* With a larger skew, or prices of a cent, the market maker's raised bid can
  meet its own ask (`market_maker.h:85`): `NoSelfTrade` rests on
  `SkewAssumption`, which the default configuration satisfies.
* The ITCH parser and the agents leave `tif` (the parser `filled_qty` too) as
  the pooled object last held it; a length of 0 makes `parse_file` throw. The
  models of the agents use the tif of a fresh object, GTC: in the server nobody
  sets another.

## 4. Proofs

The theorems hold for every value of the constants that satisfies the named
assumptions of the modules. Each invariant below was checked by TLC on the
instances of section 3 before it was proved. Every safety invariant, action
property and refinement that a run checks is proved. The assumptions worth
knowing:

* `UniqueOrderIds` (types.h: "Globally unique ID"). Only the three theorems
  about the whole index assume it: `BooksConsistent`, `AlwaysRoutable` and
  `BooksStaySound`. All others, the refinements included, hold whatever ids
  orders share.
* `NumberAssumption` of `MercuryServer`: an agent's ids are its own, as
  `next_order_id` makes them. Of clients' ids it asks only that they are not an
  agent's.
* `NoneAssumption`: the null pointer is no block of the pool.
* `PriceAssumption` of `Traders`: trades have positive prices, which
  `unrealized_pnl` needs, as it takes an average cost of 0 for no position.
* `SkewAssumption` of `MercuryServer`, which the default configuration satisfies.

**Sums** (`SumTheorems`). Level totals, positions and traded volume are sums
over finite sets, which the library defines by a fold. The module shows that a
recursive function with the fold's equations exists on every finite set and is
the only one, by taking a smallest set that would refute it, since the
induction theorems of the library cannot be instantiated here. From that come
the facts the other proofs use: the sum of nothing, of a set with one element
more or less, of a function changed at one or two places.

**Book and engine** (`OrderBook_proofs`, `MatchingEngine_proofs`). `BookInv`
says of one book that it is well typed, that what `order_index` says of an id
no two orders carry (`OwnId`) is what the deques say, that no
deque repeats an order and that bids are below asks. One lemma per operation
shows that it keeps `BookInv` and says what rests afterwards; another that
every level's total stays the sum of what rests there. The inductive invariant
of the engine is

    Inv == TypeOK, BookInv of every book, RestingOrdersLive, TakerAway,
           TakerOpen, NoStaleLevel, StatusMatchesFills

`IndexConsistent` alone is not inductive: a fill pops the front of a deque and
erases that id from the index, which is right only if the order is in the deque
once and the id is its own; `Uncrossed` needs that a taker rests only when the
best opposite price does not cross, hence that the best level is not a stale
empty one; `StatusMatchesFills` needs that whatever rests has shares left and
that the taker, which is in no book (`TakerAway`), is still open (`TakerOpen`).
From `Inv`: `TypeCorrect`, `BooksConsistent`, `OrdersRestOnce`,
`RestingStaysLive`, `NoLevelGoesStale`, `NeverCrossed`, `NeverOverfilled` and, as
an action property, `FinalStatusKept`.

Three results add a part about sums to `Inv`. `TotalsAreSums` is inductive
with it: a fill changes a level's total and one order's remaining quantity by
the same amount. `SharesConserved`: a fill changes two orders on opposite
sides, so each side's sum grows by what `volume_traded` grows by.
`FillOrKill` needs `FOKCovered`: throughout the sweep of a fill-or-kill taker,
the levels it may trade with still hold at least what remains of it, so the
sweep cannot stop early. (The check counts totals modulo `U32`, never more
than the level holds; that is why the result needs no bound on them.) The
converse, `KillsJustified`, has two cases: where every total the check adds up
is below `U32` it adds up what the orders have open, so a refusal means that
they have too little; otherwise some total was cut (`CutLevel`).

`BooksImplementPriority` is the refinement of `PriceTimePriority` under the
mapping of `PriorityMapping`, for every book size. The lemmas on *places* in
`OrderBook_proofs` say of each operation what it does to who rests where and
who stands before whom: nothing (`SamePlaces`), one order leaves
(`LeavesPlace`) or one joins the back of its deque (`JoinsPlace`). On the
abstract side that is no change, `RestingWithout`/`AheadWithout`, or the pairs
added by `Settle`. The two facts about prices are `MakerHasPriority` (the front of
the best level precedes every other order on its side) and `NoneAcceptable`
(when the loops end, nothing that rests is acceptable to the taker); both need
`NoStaleLevel`, and `RestsIs` needs `TakerOpen`. Submitting maps to `Arrive`,
a refused fill-or-kill order and the erasure of an empty level to a stutter,
a fill to `Trade`, the end of a call to `Settle`, a cancel to `Leave`.

**Exchange** (`Exchange_proofs`). The exchange takes the engine's steps and
adds an epilogue, and `modify_order` starts in the middle: it takes an order out
of a book and submits the same object again. `ExInv` is the engine's `Inv` and
`LevelTotals`, with: the engine is busy exactly while a call of the exchange
is (`InCall`); every resting order is in a listed book and, if its id is its
own, in `global_order_index_` under its symbol (`Routed`), and so is the order
being matched, because it may rest when the call ends (`TakerRouted`). Results: `AlwaysRoutable`, `BooksStaySound`,
`ModifyKeepsTotals`, `ModifyKeepsStatus`, `ModifySetsQty`, and
`ExchangeImplementsPriority`: the refinement again, in which a reduction is
`Shrink`, any other modification is `Move`, and rejecting an order or listing a
symbol is a stutter.

**Main loop** (second half of `Exchange_proofs`). The steps of `MercuryServer`
are those of the exchange with inputs that the agents make, so the first
result, `ServerKeepsExchange`, carries `ExInv` over to every schedule of the
loop, and `ServerImplementsPriority` the refinement. Nothing is asked of the ids
of clients' orders: they may all be the same. So what it says of the indexes is
`OwnIdsFound`: every resting order with an id of its own, as the agents' have, is
found under it through both. The theorems are about
behaviours whose prices stay among those the model represents (`[]PricesFit`;
all behaviours of the instance `loop` do): what it leaves out is a large
inventory that skews the ask below 0 or above `MaxPrice`.

* `QuotesStayTracked`. `TrackInv` says that every order of the market maker
  that may still trade is the active quote of its side (`MineTracked`), that
  the quotes about to be submitted are the next order objects in turn
  (`QueueLinked`, `QueueUsed`), and which of the two active ids is set at which
  place of `on_tick` (`ActiveKnown`, `ActiveCleared`). That `cancel_order`
  then finds the quote is `OwnIdsFound` for an agent's id.
* `NeverTradesWithItself`, if clients bid at least a cent (`PositiveBids`).
  `SpreadInv` adds that bid and ask of the market maker are apart wherever they
  are, in the book or still in the queue (`QuotesApart`), and why: the mid price
  read is at least a cent and a half (`MidKnown`), since no bid is below one
  cent (`BuysPositive`) and bids are below asks; with `SkewAssumption` the ask
  stays above the bid even when that is raised to a cent.
* `PositionStaysBounded`, if fills reach the agent (`Wired`). The bound on the
  position is not inductive, since a quote in the book may trade: `PosInv`
  bounds the position with everything the active quotes may still trade, and
  says that the agent's inventory is the position.

**Queue** (`Utils_proofs`), for every capacity. The invariant is the order
of four indexes round the ring: what the producer has seen of head, head, what
the consumer has seen of tail, tail, and one free slot (`ViewsInOrder`), with
what the two checks established (`ChecksHold`). The modulo is removed once, in
lemmas about `NextSlot` and `Distance`. Results: `ViewsStayInOrder`,
`SlotsNeverRace`, and `RingIsFIFO`: under the mapping of `SPSCQueue`, every
step is a step of `BoundedFIFO` or leaves it alone.

**Risk engine** (`Accounts_proofs`). `WorstCaseWithinLimits` is inductive
together with `MarketCovered` (a fill never exceeds the exposure, so exposures
stay natural numbers and a cancel never raises the worst case) and
`LimitsInWidest`, and with the fact that every exposure fits its `uint32_t`
(`ExposuresFit`), so that the subtraction of a fill does not wrap. Results: `WorstCaseBounded`, `ExposureCoversMarket`, and
`CountersAreSums`: the open buys and sells of an account are the sums over its
orders.

**Agents** (`Accounts_proofs`), for any prices, window sizes and thresholds.

* `MomentumOrdersFollow`: the orders alternate, and once there is one, the
  last order, `last_signal_` and the last signal are one side (`MomentumInv`).
* `ReversionPositionBounded`: that the position is within the bound is not
  inductive, since any number of open entries may trade later. `ReversionInv`
  says that it would be within the bound with all open orders of one side
  filled (`Covered`): a new order passes a position within `max_pos` by at most
  itself and what was open on its side, which `uncounted` has recorded. An exit
  is never larger than the position.
* `AverageCostAddsUp`: while an agent was never short, `Balanced` says that the
  realised profit is the cash taken in plus the shares at their average cost.
  The average is a quotient, so the proof works with the values of fractions
  (`Is`) and never with numerators; `LowestUnique` (equal values in lowest terms
  are equal) turns the result back into an equation of accounts.
* `DrawdownIsExact`: the present fall from the peak is the worst loss of a run
  of samples that ends now, and `max_drawdown` the worst of all runs (`Drawn`).
  A new sample extends the runs that end now, or starts one.

**Object pool** (`Utils_proofs`), for any threads and block size.
`EachObjectInOnePlace` says of every object ever made that it is on the free
list, with an owner or in the hands of one thread. `PoolInv` adds what this
rests on: one thread in the critical section and none without the flag
(`Exclusive`), what a thread holds at each of its steps (`HandFull`), that a
pop finds a list that is not empty (`AtPop`), and that no object is twice on
the list (`FreeDistinct`) or in two hands (`HandsApart`).

**TCP server** (`TcpServer_proofs`), for any clients, segments and capacity.
`TcpInv` has one part on the ring and one on the clients. `AckInv`: a client
thread gets to its ACK only by a push that succeeded or by giving up after
`running_` was cleared, so while the server has not been stopped an
acknowledged order was pushed (`AckedIsPushed`). `RingInv`: while pushes have
not overlapped, at most one thread is inside `push`, its slot is at `tail_` and
outside of the slots from head to tail, which hold what was pushed and not yet
popped (`OneProducer`). After an overlap `tail_` may be stored twice or move
back, but never behind the orders pushed before it that are still in the ring:
every tail and slot a thread has loaded lies beyond them (`Kept`). Together:
`PushedIsDelivered`.

**ITCH parser** (`ItchParser_proofs`), for any files and any `Base`; the code
has 256. `NumberIsBigEndian`: reading two, four or eight bytes as the machine
does and swapping them gives the big-endian number. Byte i is digit i of the
number read (`NativeDigit`: the bytes below it sum to less than its weight,
those above to a multiple of the next), and the swapped sum obeys Horner's
scheme, which is what the library's fold computes. Where messages begin is a
recursion along the file; `BeginsExists` shows that it has a solution. `ItchInv`:
what begins from `pos` on is what is still to be read (`ReadSoFar`), the result
is the Add messages before `pos` in order (`ParsedSoFar`), and the parser has
ended where nothing begins or threw at a message of length 0 (`Ended`). Result:
`ParserIsExact`.

Only model-checked: the liveness properties (`CallReturns`, `QueueDrains`,
`PoolProgress`, `StopReturns`, `StopFreesClients`), since fairness and ENABLED are
out of the prover's reach, and the three findings, which are counterexamples.

## 5. Not modelled, and the plan

Not modelled: depth snapshots, spread, statistics printing, the agents'
diagnostics (`sharpe_ratio`, `avg_spread_captured`, last z-score and averages)
and the maintenance scripts, all read-only or tooling; rounding errors of
doubles; several producers on weakly ordered memory, and a torn `shared_ptr`
when two threads assign one slot; what an order object in the pool last held,
beyond `filled_qty` in the parser; the read of `resting` after `pop_front`
(`matching_engine.cpp:242`) when the book held the last pointer; a callback that
calls back into the exchange; the risk engine around the exchange, which nothing
in `src/` connects.

What is left is to model more of the surroundings: the risk engine as a client
of `Exchange`, the TCP server on weakly ordered memory, and callbacks that call
back. For the proofs, the hypothesis `[]PricesFit` of the main loop could go if
the engine's model had no upper bound on prices.

## 6. Running

    tlc -config MCMatchingEngine.cfg MCMatchingEngine
    tlapm MatchingEngine_proofs.tla

The pairs of module and configuration are in `PROJECT.json` under `runs`.
