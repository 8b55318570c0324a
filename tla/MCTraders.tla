---------------------------- MODULE MCTraders ----------------------------
(* Small instances of Traders for TLC. *)
EXTENDS Traders

MCthreshold == <<1, 10>>
MCentry_z   == <<1, 1>>
MCexit_z    == <<1, 2>>

(* The accounts of the market maker take many states, the signals few. *)
MCMaxTicks == [a \in Agent |-> IF a = "maker" THEN 4 ELSE 7]
MCMaxFills == [a \in Agent |-> IF a = "maker" THEN 3 ELSE 4]
============================================================================
