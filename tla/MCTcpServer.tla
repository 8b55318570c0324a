--------------------------- MODULE MCTcpServer ---------------------------
(* Small instances of TcpServer for TLC. *)
EXTENDS TcpServer

CONSTANTS c1, c2

MCMaxSegments == [c \in Client |-> IF c = c1 THEN 3 ELSE 1]

MCSpec == TcpSpec /\ TcpFairness
============================================================================
