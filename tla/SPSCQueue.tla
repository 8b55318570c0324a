---------------------------- MODULE SPSCQueue ----------------------------
(***************************************************************************)
(* The lock-free ring buffer between an order gateway and the matching     *)
(* thread (src/src/utils/spsc_queue.h): one producer thread in push, one   *)
(* consumer thread in pop, each access to shared memory a step of its own. *)
(*                                                                         *)
(* Memory order.  head_ and tail_ are read with acquire and written with   *)
(* release by the other thread.  A thread reads its own index exactly; its *)
(* load of the other's may return any value stored since the last one it   *)
(* saw (seen_head, seen_tail), not always the newest.  The acquire/release *)
(* pair then makes every slot access before the store visible after the    *)
(* load, so a slot is an ordinary variable as long as the two threads are  *)
(* never in the same slot at once, which is what NoSlotRace says.          *)
(***************************************************************************)
EXTENDS Integers, Sequences

CONSTANTS
    Item,       \* what is queued
    NoItem,     \* the value of a fresh slot, T()
    capacity    \* slots; one of them is always kept free

ASSUME CapacityAssumption == capacity \in Nat \ {0}
ASSUME NoItemAssumption == NoItem \notin Item

VARIABLES
    buffer, tail, head,
    push_pc, item, seen_head,      \* the producer: where it is in push(item)
    pop_pc, out, seen_tail,        \* the consumer: where it is in pop
    received                       \* what the last successful pop returned

producer == <<push_pc, item, seen_head>>
consumer == <<pop_pc, out, seen_tail>>
queueVars == <<buffer, tail, head, producer, consumer, received>>

Slot == 0..(capacity - 1)

(* A definition named Mutant_X is X with one plausible bug; it is not part *)
(* of the model.  The properties are tested by putting it in X's place.    *)

(* (i + 1) % capacity_ *)
NextSlot(i) == (i + 1) % capacity

(* How many times an index has been advanced from a to reach b. *)
Distance(a, b) == (b - a) % capacity

(* The values a load may return that follows one that returned `seen'. *)
Visible(seen, current) ==
    {i \in Slot : Distance(seen, i) <= Distance(seen, current)}

QInit ==
    /\ buffer = [i \in Slot |-> NoItem]
    /\ tail = 0
    /\ head = 0
    /\ push_pc = "idle" /\ item = NoItem /\ seen_head = 0
    /\ pop_pc = "idle" /\ out = NoItem /\ seen_tail = 0
    /\ received = NoItem

----------------------------------------------------------------------------
(* push does not look whether there is room. *)
Mutant_PushLoad(x) ==
    /\ push_pc = "idle"
    /\ item' = x
    /\ seen_head' \in Visible(seen_head, head)
    /\ push_pc' = "write"
    /\ UNCHANGED <<buffer, tail, head, consumer, received>>

(* push: load the indexes; full returns false at once. *)
PushLoad(x) ==
    /\ push_pc = "idle"
    /\ item' = x
    /\ seen_head' \in Visible(seen_head, head)
    /\ push_pc' = IF NextSlot(tail) = seen_head' THEN "idle" ELSE "write"
    /\ UNCHANGED <<buffer, tail, head, consumer, received>>

(* The item goes to the slot after tail. *)
Mutant_PushWrite ==
    /\ push_pc = "write"
    /\ buffer' = [buffer EXCEPT ![NextSlot(tail)] = item]
    /\ push_pc' = "store"
    /\ UNCHANGED <<tail, head, item, seen_head, consumer, received>>

PushWrite ==
    /\ push_pc = "write"
    /\ buffer' = [buffer EXCEPT ![tail] = item]
    /\ push_pc' = "store"
    /\ UNCHANGED <<tail, head, item, seen_head, consumer, received>>

PushStore ==
    /\ push_pc = "store"
    /\ tail' = NextSlot(tail)
    /\ push_pc' = "idle"
    /\ UNCHANGED <<buffer, head, item, seen_head, consumer, received>>

(* pop does not look whether there is an item. *)
Mutant_PopLoad ==
    /\ pop_pc = "idle"
    /\ seen_tail' \in Visible(seen_tail, tail)
    /\ pop_pc' = "copy"
    /\ UNCHANGED <<buffer, tail, head, producer, out, received>>

(* pop takes a queue of one item for empty. *)
Mutant2_PopLoad ==
    /\ pop_pc = "idle"
    /\ seen_tail' \in Visible(seen_tail, tail)
    /\ pop_pc' = IF seen_tail' \in {head, NextSlot(head)} THEN "idle" ELSE "copy"
    /\ UNCHANGED <<buffer, tail, head, producer, out, received>>

(* pop: load the indexes; empty returns false at once. *)
PopLoad ==
    /\ pop_pc = "idle"
    /\ seen_tail' \in Visible(seen_tail, tail)
    /\ pop_pc' = IF head = seen_tail' THEN "idle" ELSE "copy"
    /\ UNCHANGED <<buffer, tail, head, producer, out, received>>

PopCopy ==
    /\ pop_pc = "copy"
    /\ out' = buffer[head]
    /\ pop_pc' = "store"
    /\ UNCHANGED <<buffer, tail, head, producer, seen_tail, received>>

PopStore ==
    /\ pop_pc = "store"
    /\ head' = NextSlot(head)
    /\ received' = out
    /\ pop_pc' = "idle"
    /\ UNCHANGED <<buffer, tail, producer, out, seen_tail>>

QNext ==
    \/ \E x \in Item : PushLoad(x)
    \/ PushWrite \/ PushStore
    \/ PopLoad \/ PopCopy \/ PopStore

QSpec == QInit /\ [][QNext]_queueVars

(* The consumer polls for ever, finishes the pop it has begun, and the     *)
(* producer's store reaches it in the end.  Nothing is asked of the        *)
(* producer.                                                               *)
QFairSpec ==
    /\ QSpec
    /\ WF_queueVars(PopLoad /\ seen_tail' = tail)
    /\ WF_queueVars(PopCopy)
    /\ WF_queueVars(PopStore)

----------------------------------------------------------------------------
(* Type correctness. *)
QTypeOK ==
    /\ buffer \in [Slot -> Item \union {NoItem}]
    /\ tail \in Slot /\ head \in Slot
    /\ seen_head \in Slot /\ seen_tail \in Slot
    /\ push_pc \in {"idle", "write", "store"}
    /\ pop_pc \in {"idle", "copy", "store"}
    /\ item \in Item \union {NoItem}
    /\ out \in Item \union {NoItem}
    /\ received \in Item \union {NoItem}

(* Going round the ring one meets what the producer has seen of head,      *)
(* head, what the consumer has seen of tail, tail, and at least one slot   *)
(* more before one is back: neither index ever laps the other, although    *)
(* each thread acts on an old value of the other's.                        *)
ViewsInOrder ==
    Distance(seen_head, head) + Distance(head, seen_tail)
        + Distance(seen_tail, tail) < capacity

(* The producer never writes the slot the consumer is copying, so the      *)
(* plain accesses to buffer_ do not race and no item is overwritten before *)
(* it is read.                                                             *)
NoSlotRace == ~(push_pc = "write" /\ pop_pc = "copy" /\ tail = head)

(* The items between head and tail, oldest first. *)
contents ==
    [k \in 1..Distance(head, tail) |-> buffer[(head + k - 1) % capacity]]

FIFO == INSTANCE BoundedFIFO
            WITH queue <- contents, Limit <- capacity - 1

(* The ring is a bounded FIFO queue: an item becomes visible with the      *)
(* store of tail and leaves with the store of head; items come out once,   *)
(* complete, and in the order they went in; at most capacity - 1 are held. *)
ImplementsFIFO == FIFO!Spec

(* While an item is queued the consumer gets on: it does not stay at the   *)
(* same slot for ever.                                                     *)
QueueDrains == \A i \in Slot : head = i /\ tail # i ~> head # i
============================================================================
