--------------------------- MODULE BoundedFIFO ---------------------------
(* What SPSCQueue promises: a first-in first-out queue of at most Limit    *)
(* items; `received' is the item the last successful pop returned.         *)
EXTENDS Naturals, Sequences

CONSTANTS Item, NoItem, Limit

VARIABLES queue, received

Init == queue = <<>> /\ received = NoItem

Push ==
    /\ Len(queue) < Limit
    /\ \E x \in Item : queue' = Append(queue, x)
    /\ UNCHANGED received

Pop ==
    /\ queue # <<>>
    /\ received' = Head(queue)
    /\ queue' = Tail(queue)

Spec == Init /\ [][Push \/ Pop]_<<queue, received>>
============================================================================
