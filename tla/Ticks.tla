------------------------------ MODULE Ticks ------------------------------
(* Rounding prices to the cent, as the trading agents do. *)
EXTENDS Integers

(* std::round of n/d: to the nearest, halves away from zero. *)
Round(n, d) ==
    IF n >= 0 THEN (2 * n + d) \div (2 * d) ELSE -((d - 2 * n) \div (2 * d))
============================================================================
