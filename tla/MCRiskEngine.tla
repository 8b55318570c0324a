-------------------------- MODULE MCRiskEngine --------------------------
(* A small instance of RiskEngine for TLC. *)
EXTENDS RiskEngine, TLC

CONSTANTS o1, o2, o3

MCLimits ==
    {[max_long_position |-> 3, max_short_position |-> 2],
     [max_long_position |-> 1, max_short_position |-> 3]}

OrderSymmetry == Permutations(Order)
============================================================================
