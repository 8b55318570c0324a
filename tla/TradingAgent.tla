-------------------------- MODULE TradingAgent --------------------------
(***************************************************************************)
(* The accounts of a trading agent (src/src/traders/trading_agent.h):      *)
(* inventory, average cost, realised profit, and the samples from which    *)
(* the drawdown is computed.  Pure operators on an account record.         *)
(*                                                                         *)
(* Prices are integers, in half cents so that a mid price is one as well.  *)
(* The doubles avg_cost_, realized_pnl_, ... are exact fractions <<n, d>>  *)
(* in lowest terms; their rounding errors are not represented.             *)
(***************************************************************************)
EXTENDS Integers, Sequences, FiniteSetsExt, SequencesExt

Abs(n) == IF n < 0 THEN -n ELSE n

Frac(n, d) ==
    LET g == Max({k \in 1..d : n % k = 0 /\ d % k = 0})
    IN  <<n \div g, d \div g>>

Zero      == <<0, 1>>
Add(x, y) == Frac(x[1] * y[2] + y[1] * x[2], x[2] * y[2])
Times(k, x) == Frac(k * x[1], x[2])
Sub(x, y) == Add(x, Times(-1, y))
Less(x, y) == x[1] * y[2] < y[1] * x[2]
Larger(x, y) == IF Less(x, y) THEN y ELSE x

----------------------------------------------------------------------------
NewAccount ==
    [inventory |-> 0, realized_pnl |-> Zero, avg_cost |-> Zero,
     closing_trades |-> 0, fill_count |-> 0,
     pnl_returns |-> <<>>, last_pnl_sample |-> Zero,
     peak_pnl |-> Zero, max_drawdown |-> Zero]

(* The average is taken over the shares bought last only. *)
Mutant_RecordBuy(a, q, p) ==
    LET inv == a.inventory + q
    IN  [a EXCEPT !.fill_count = @ + 1,
                  !.inventory = inv,
                  !.avg_cost = IF inv > 0 THEN Frac(p, 1) ELSE @]

(* record_fill of a purchase of q shares at p. *)
RecordBuy(a, q, p) ==
    LET old_cost == Times(Max({a.inventory, 0}), a.avg_cost)
        inv      == a.inventory + q
        total    == Add(old_cost, <<p * q, 1>>)
    IN  [a EXCEPT !.fill_count = @ + 1,
                  !.inventory = inv,
                  !.avg_cost = IF inv > 0 THEN Frac(total[1], total[2] * inv) ELSE @]

(* record_fill of a sale: what closes a long position is realised. *)
RecordSell(a, q, p) ==
    LET closing == Min({q, Max({a.inventory, 0})})
    IN  [a EXCEPT !.fill_count = @ + 1,
                  !.inventory = @ - q,
                  !.realized_pnl = Add(@, Times(closing, Sub(<<p, 1>>, a.avg_cost))),
                  !.closing_trades = @ + closing]

RecordFill(a, side, q, p) ==
    IF side = "BUY" THEN RecordBuy(a, q, p) ELSE RecordSell(a, q, p)

UnrealizedPnl(a, mid) ==
    IF a.inventory = 0 \/ a.avg_cost = Zero THEN Zero
    ELSE Times(a.inventory, Sub(<<mid, 1>>, a.avg_cost))

TotalPnl(a, mid) == Add(a.realized_pnl, UnrealizedPnl(a, mid))

(* The peak is the last sample. *)
Mutant_RecordPnlSample(a, mid) ==
    LET pnl  == TotalPnl(a, mid)
    IN  [a EXCEPT !.pnl_returns = Append(@, Sub(pnl, a.last_pnl_sample)),
                  !.last_pnl_sample = pnl,
                  !.peak_pnl = pnl,
                  !.max_drawdown = Larger(@, Sub(a.peak_pnl, pnl))]

(* record_pnl_sample *)
RecordPnlSample(a, mid) ==
    LET pnl  == TotalPnl(a, mid)
        peak == Larger(a.peak_pnl, pnl)
    IN  [a EXCEPT !.pnl_returns = Append(@, Sub(pnl, a.last_pnl_sample)),
                  !.last_pnl_sample = pnl,
                  !.peak_pnl = peak,
                  !.max_drawdown = Larger(@, Sub(peak, pnl))]
============================================================================
