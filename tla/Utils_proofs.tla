-------------------------- MODULE Utils_proofs --------------------------
(***************************************************************************)
(* The two shared structures of src/src/utils.                             *)
(*                                                                         *)
(* SPSCQueue, for every capacity: the two threads never meet in a slot,    *)
(* although each decides on an old value of the other's index, and what    *)
(* they do to the ring is what a bounded FIFO queue does.  The invariant   *)
(* is the order of the four indexes round the ring (ViewsInOrder) together *)
(* with what the checks of push and pop have established and the steps     *)
(* after them rely on.  The refinement needs, on top of it, what the       *)
(* threads carry between two of their steps (ItemsInPlace).                *)
(*                                                                         *)
(* ObjectPool, for any number of threads, any block size and any number of *)
(* blocks: every object is in exactly one place.                           *)
(***************************************************************************)
EXTENDS SPSCQueue, ObjectPool, SequenceTheorems, FiniteSetTheorems, TLAPS

----------------------------------------------------------------------------
(* The queue.                                                              *)

(* Between the load and the store, push knows that the slot after tail is  *)
(* not the head it saw, and pop that head is not the tail it saw.          *)
ChecksHold ==
    /\ push_pc # "idle" => NextSlot(tail) # seen_head
    /\ pop_pc # "idle" => head # seen_tail

QInv == QTypeOK /\ ViewsInOrder /\ ChecksHold

----------------------------------------------------------------------------
(* Indexes modulo the capacity, without the modulo. *)

(* The index after i, used by both push and pop. *)
LEMMA NextSlotValue ==
    ASSUME NEW i \in Slot
    PROVE  NextSlot(i) = IF i = capacity - 1 THEN 0 ELSE i + 1
  BY CapacityAssumption DEF NextSlot, Slot

(* The distance between two indexes of the ring. *)
LEMMA DistanceValue ==
    ASSUME NEW i \in Slot, NEW j \in Slot
    PROVE  Distance(i, j) = IF i <= j THEN j - i ELSE j - i + capacity
  BY CapacityAssumption DEF Distance, Slot

(* A distance is less than the capacity, and 0 only from i to i. *)
LEMMA DistanceRange ==
    ASSUME NEW i \in Slot, NEW j \in Slot
    PROVE  /\ Distance(i, j) \in Nat
           /\ Distance(i, j) < capacity
           /\ Distance(i, j) = 0 => i = j
  BY DistanceValue, CapacityAssumption DEF Slot

(* Going from i to j, to k and to l in less than one turn goes from i to l. *)
LEMMA DistanceAdds ==
    ASSUME NEW i \in Slot, NEW j \in Slot, NEW k \in Slot, NEW l \in Slot,
           Distance(i, j) + Distance(j, k) + Distance(k, l) < capacity
    PROVE  Distance(i, l) = Distance(i, j) + Distance(j, k) + Distance(k, l)
  <1>1. Distance(i, j) + Distance(j, k) = Distance(i, k)
    <2>1. Distance(i, j) + Distance(j, k) < capacity
      BY DistanceRange, CapacityAssumption
    <2> QED
      BY <2>1, DistanceValue, CapacityAssumption DEF Slot
  <1>2. Distance(i, k) + Distance(k, l) < capacity
    BY <1>1
  <1>3. Distance(i, k) + Distance(k, l) = Distance(i, l)
    BY <1>2, DistanceValue, CapacityAssumption DEF Slot
  <1> QED
    BY <1>1, <1>3

(* Advancing the far index: one more, unless it comes round to the near    *)
(* one from the slot before it.                                            *)
LEMMA AdvanceFar ==
    ASSUME NEW i \in Slot, NEW j \in Slot
    PROVE  /\ NextSlot(j) # i => Distance(i, NextSlot(j)) = Distance(i, j) + 1
           /\ NextSlot(j) = i => Distance(i, j) = capacity - 1
           /\ Distance(i, NextSlot(j)) <= Distance(i, j) + 1
  <1>1. NextSlot(j) \in Slot
    BY NextSlotValue, CapacityAssumption DEF Slot
  <1>2. ASSUME NextSlot(j) # i
        PROVE  Distance(i, NextSlot(j)) = Distance(i, j) + 1
    BY <1>1, <1>2, NextSlotValue, DistanceValue, CapacityAssumption DEF Slot
  <1>3. ASSUME NextSlot(j) = i
        PROVE  /\ Distance(i, j) = capacity - 1
               /\ Distance(i, NextSlot(j)) = 0
    BY <1>1, <1>3, NextSlotValue, DistanceValue, CapacityAssumption DEF Slot
  <1>4. Distance(i, j) \in Nat
    BY DistanceRange
  <1>5. Distance(i, NextSlot(j)) <= Distance(i, j) + 1
    <2>1. CASE NextSlot(j) = i
      BY <2>1, <1>3, <1>4
    <2>2. CASE NextSlot(j) # i
      BY <2>2, <1>2, <1>4
    <2> QED
      BY <2>1, <2>2
  <1> QED
    BY <1>2, <1>3, <1>5

(* Advancing the near index towards a different far one: one less. *)
LEMMA AdvanceNear ==
    ASSUME NEW i \in Slot, NEW j \in Slot, i # j
    PROVE  Distance(NextSlot(i), j) = Distance(i, j) - 1
  <1>1. NextSlot(i) \in Slot
    BY NextSlotValue, CapacityAssumption DEF Slot
  <1> QED
    BY <1>1, NextSlotValue, DistanceValue, CapacityAssumption DEF Slot

----------------------------------------------------------------------------
LEMMA QInitInv == QInit => QInv
  <1> SUFFICES ASSUME QInit PROVE QInv
    OBVIOUS
  <1>1. 0 \in Slot
    BY CapacityAssumption DEF Slot
  <1>2. Distance(0, 0) = 0
    BY <1>1, DistanceValue
  <1>3. QTypeOK
    BY <1>1 DEF QInit, QTypeOK
  <1>4. ViewsInOrder
    BY <1>2, CapacityAssumption DEF QInit, ViewsInOrder
  <1> QED
    BY <1>3, <1>4 DEF QInit, QInv, ChecksHold

LEMMA PushLoadInv ==
    ASSUME QInv, NEW x \in Item, PushLoad(x)
    PROVE  QInv'
  <1>1. QTypeOK'
    BY DEF QInv, QTypeOK, PushLoad, Visible, consumer
  <1>2. ViewsInOrder'
    <2>1. /\ tail \in Slot /\ head \in Slot /\ seen_head \in Slot
          /\ seen_tail \in Slot /\ seen_head' \in Slot
      BY <1>1 DEF QInv, QTypeOK
    <2>2. Distance(seen_head, seen_head') <= Distance(seen_head, head)
      BY DEF PushLoad, Visible
    <2>3. Distance(seen_head', head) <= Distance(seen_head, head)
      BY <2>1, <2>2, DistanceValue, CapacityAssumption DEF Slot
    <2>4. /\ Distance(seen_head', head) \in Int
          /\ Distance(seen_head, head) \in Int
          /\ Distance(head, seen_tail) \in Int
          /\ Distance(seen_tail, tail) \in Int
      BY <2>1, DistanceRange
    <2> QED
      BY <2>3, <2>4, CapacityAssumption DEF QInv, ViewsInOrder, PushLoad, consumer
  <1>3. ChecksHold'
    BY DEF QInv, ChecksHold, PushLoad, consumer
  <1> QED
    BY <1>1, <1>2, <1>3 DEF QInv

LEMMA PopLoadInv ==
    ASSUME QInv, PopLoad
    PROVE  QInv'
  <1>1. QTypeOK'
    BY DEF QInv, QTypeOK, PopLoad, Visible, producer
  <1>2. ViewsInOrder'
    <2>1. /\ tail \in Slot /\ head \in Slot /\ seen_head \in Slot
          /\ seen_tail \in Slot /\ seen_tail' \in Slot
      BY <1>1 DEF QInv, QTypeOK
    <2>2. Distance(seen_tail, seen_tail') <= Distance(seen_tail, tail)
      BY DEF PopLoad, Visible
    <2>3. Distance(head, seen_tail) + Distance(seen_tail, tail) < capacity
      <3>1. /\ Distance(seen_head, head) \in Nat
            /\ Distance(head, seen_tail) \in Nat
            /\ Distance(seen_tail, tail) \in Nat
        BY <2>1, DistanceRange
      <3> QED
        BY <3>1, CapacityAssumption DEF QInv, ViewsInOrder
    <2>4. Distance(head, seen_tail') + Distance(seen_tail', tail)
             = Distance(head, seen_tail) + Distance(seen_tail, tail)
      BY <2>1, <2>2, <2>3, DistanceValue, CapacityAssumption, SMTT(40) DEF Slot
    <2>5. /\ Distance(seen_head, head) \in Int
          /\ Distance(head, seen_tail) \in Int
          /\ Distance(seen_tail, tail) \in Int
          /\ Distance(head, seen_tail') \in Int
          /\ Distance(seen_tail', tail) \in Int
      BY <2>1, DistanceRange
    <2> QED
      BY <2>4, <2>5, CapacityAssumption DEF QInv, ViewsInOrder, PopLoad, producer
  <1>3. ChecksHold'
    BY DEF QInv, ChecksHold, PopLoad, producer
  <1> QED
    BY <1>1, <1>2, <1>3 DEF QInv

LEMMA PushWriteInv ==
    ASSUME QInv, PushWrite
    PROVE  QInv'
  BY DEF QInv, QTypeOK, ViewsInOrder, ChecksHold, PushWrite, consumer

LEMMA PopCopyInv ==
    ASSUME QInv, PopCopy
    PROVE  QInv'
  BY DEF QInv, QTypeOK, ViewsInOrder, ChecksHold, PopCopy, producer

LEMMA PushStoreInv ==
    ASSUME QInv, PushStore
    PROVE  QInv'
  <1>1. tail' = NextSlot(tail) /\ tail' \in Slot
    BY NextSlotValue, CapacityAssumption DEF QInv, QTypeOK, PushStore, Slot
  <1>2. QTypeOK'
    BY <1>1 DEF QInv, QTypeOK, PushStore, consumer
  <1>3. ViewsInOrder'
    <2>1. /\ tail \in Slot /\ head \in Slot /\ seen_head \in Slot
          /\ seen_tail \in Slot
      BY DEF QInv, QTypeOK
    <2>2. tail' # seen_head
      BY <1>1 DEF QInv, ChecksHold, PushStore
    <2>3. /\ Distance(seen_head, head) \in Nat
          /\ Distance(head, seen_tail) \in Nat
          /\ Distance(seen_tail, tail) \in Nat
          /\ Distance(seen_tail, tail') \in Nat
      BY <1>1, <2>1, DistanceRange
    <2>4. Distance(seen_head, head) + Distance(head, seen_tail)
             + Distance(seen_tail, tail) < capacity
      BY DEF QInv, ViewsInOrder
    <2>5. Distance(seen_head, head) + Distance(head, seen_tail)
             + Distance(seen_tail, tail) # capacity - 1
      <3>1. Distance(seen_head, tail) # capacity - 1
        <4>1. Distance(seen_head, tail') = Distance(seen_head, tail) + 1
          BY <1>1, <2>1, <2>2, AdvanceFar
        <4>2. /\ Distance(seen_head, tail') < capacity
              /\ Distance(seen_head, tail) \in Nat
          BY <1>1, <2>1, DistanceRange
        <4> QED
          BY <4>1, <4>2, CapacityAssumption
      <3>2. Distance(seen_head, tail) = Distance(seen_head, head)
               + Distance(head, seen_tail) + Distance(seen_tail, tail)
        BY <2>1, <2>3, <2>4, DistanceAdds
      <3> QED
        BY <3>1, <3>2
    <2>6. tail' # seen_tail
      <3> SUFFICES ASSUME tail' = seen_tail PROVE FALSE
        OBVIOUS
      <3>1. Distance(seen_tail, tail) = capacity - 1
        BY <1>1, <2>1, AdvanceFar
      <3> QED
        BY <2>3, <2>4, <2>5, <3>1, CapacityAssumption
    <2>7. Distance(seen_tail, tail') = Distance(seen_tail, tail) + 1
      BY <1>1, <2>1, <2>6, AdvanceFar
    <2>8. Distance(seen_head, head) + Distance(head, seen_tail)
             + Distance(seen_tail, tail') < capacity
      BY <2>3, <2>4, <2>5, <2>7, CapacityAssumption
    <2> QED
      BY <2>8 DEF ViewsInOrder, PushStore, consumer
  <1>4. ChecksHold'
    BY DEF QInv, ChecksHold, PushStore, consumer
  <1> QED
    BY <1>2, <1>3, <1>4 DEF QInv

LEMMA PopStoreInv ==
    ASSUME QInv, PopStore
    PROVE  QInv'
  <1>1. head' = NextSlot(head) /\ head' \in Slot
    BY NextSlotValue, CapacityAssumption DEF QInv, QTypeOK, PopStore, Slot
  <1>2. QTypeOK'
    BY <1>1 DEF QInv, QTypeOK, PopStore, producer
  <1>3. ViewsInOrder'
    <2>1. /\ tail \in Slot /\ head \in Slot /\ seen_head \in Slot
          /\ seen_tail \in Slot
      BY DEF QInv, QTypeOK
    <2>2. head # seen_tail
      BY DEF QInv, ChecksHold, PopStore
    <2>3. /\ Distance(seen_head, head) \in Nat
          /\ Distance(head, seen_tail) \in Nat
          /\ Distance(seen_tail, tail) \in Nat
          /\ Distance(seen_head, head') \in Nat
          /\ Distance(head', seen_tail) \in Nat
      BY <1>1, <2>1, DistanceRange
    <2>4. Distance(head', seen_tail) = Distance(head, seen_tail) - 1
      BY <1>1, <2>1, <2>2, AdvanceNear
    <2>5. Distance(seen_head, head') <= Distance(seen_head, head) + 1
      BY <1>1, <2>1, AdvanceFar
    <2>6. Distance(seen_head, head) + Distance(head, seen_tail)
             + Distance(seen_tail, tail) < capacity
      BY DEF QInv, ViewsInOrder
    <2>7. Distance(seen_head, head') + Distance(head', seen_tail)
             + Distance(seen_tail, tail) < capacity
      BY <2>3, <2>4, <2>5, <2>6, CapacityAssumption
    <2> QED
      BY <2>7 DEF ViewsInOrder, PopStore, producer
  <1>4. ChecksHold'
    BY DEF QInv, ChecksHold, PopStore, producer
  <1> QED
    BY <1>2, <1>3, <1>4 DEF QInv

(* Both threads respect the invariant in every step. *)
THEOREM QueueInvariance == QSpec => []QInv
  <1>1. QInit => QInv
    BY QInitInv
  <1>2. QInv /\ [QNext]_queueVars => QInv'
    <2> SUFFICES ASSUME QInv, [QNext]_queueVars PROVE QInv'
      OBVIOUS
    <2>1. CASE UNCHANGED queueVars
      BY <2>1 DEF QInv, QTypeOK, ViewsInOrder, ChecksHold, queueVars,
                  producer, consumer
    <2>2. ASSUME NEW x \in Item, PushLoad(x) PROVE QInv'
      BY <2>2, PushLoadInv
    <2>3. CASE PushWrite
      BY <2>3, PushWriteInv
    <2>4. CASE PushStore
      BY <2>4, PushStoreInv
    <2>5. CASE PopLoad
      BY <2>5, PopLoadInv
    <2>6. CASE PopCopy
      BY <2>6, PopCopyInv
    <2>7. CASE PopStore
      BY <2>7, PopStoreInv
    <2> QED
      BY <2>1, <2>2, <2>3, <2>4, <2>5, <2>6, <2>7 DEF QNext
  <1> QED
    BY <1>1, <1>2, PTL DEF QSpec

(* push and pop of spsc_queue.h are never in the same slot of buffer_: for *)
(* every capacity and every delay of the two index updates.                *)
THEOREM SlotsNeverRace == QSpec => []NoSlotRace
  <1>1. QInv => NoSlotRace
    <2> SUFFICES ASSUME QInv, push_pc = "write", pop_pc = "copy", tail = head
                 PROVE  FALSE
      BY DEF NoSlotRace
    <2>1. /\ head \in Slot /\ seen_head \in Slot /\ seen_tail \in Slot
          /\ head # seen_tail
      BY DEF QInv, QTypeOK, ChecksHold
    <2>2. Distance(head, seen_tail) + Distance(seen_tail, head) = capacity
      BY <2>1, DistanceValue, CapacityAssumption DEF Slot
    <2>3. Distance(seen_head, head) >= 0
      BY <2>1, DistanceValue, CapacityAssumption DEF Slot
    <2>4. /\ Distance(seen_head, head) \in Int
          /\ Distance(head, seen_tail) \in Int
          /\ Distance(seen_tail, head) \in Int
      BY <2>1, DistanceValue, CapacityAssumption DEF Slot
    <2> QED
      BY <2>2, <2>3, <2>4, CapacityAssumption DEF QInv, ViewsInOrder
  <1> QED
    BY <1>1, QueueInvariance, PTL

(* What the producer has seen of head, head, what the consumer has seen of *)
(* tail and tail stay in this order round the ring, for every capacity and *)
(* however old the values are that the acquire loads return.               *)
THEOREM ViewsStayInOrder == QSpec => []ViewsInOrder
  <1>1. QInv => ViewsInOrder
    BY DEF QInv
  <1> QED
    BY <1>1, QueueInvariance, PTL

----------------------------------------------------------------------------
(* The ring as a queue. *)

(* What a thread has in hand between two of its steps is what is in the    *)
(* slot it works on: the other thread has not touched that slot.           *)
ItemsInPlace ==
    /\ push_pc # "idle" => item \in Item
    /\ push_pc = "store" => buffer[tail] = item
    /\ pop_pc = "store" => out = buffer[head]

(* The slot k steps after i. *)
LEMMA SlotAt ==
    ASSUME NEW i \in Slot, NEW k \in Slot
    PROVE  (i + k) % capacity = IF i + k < capacity THEN i + k ELSE i + k - capacity
  BY CapacityAssumption DEF Slot

(* A pop that goes on after its check has an item to take. *)
LEMMA PopFindsItem ==
    ASSUME QInv, pop_pc # "idle"
    PROVE  head # tail
  <1>1. /\ head \in Slot /\ seen_head \in Slot /\ seen_tail \in Slot
        /\ tail \in Slot /\ head # seen_tail
    BY DEF QInv, QTypeOK, ChecksHold
  <1>2. /\ Distance(seen_head, head) \in Nat
        /\ Distance(head, seen_tail) \in Nat
        /\ Distance(seen_tail, tail) \in Nat
    BY <1>1, DistanceRange
  <1>3. Distance(head, seen_tail) + Distance(seen_tail, tail) < capacity
    BY <1>2, CapacityAssumption DEF QInv, ViewsInOrder
  <1> QED
    BY <1>1, <1>3, DistanceValue, CapacityAssumption DEF Slot

(* A push that goes on after its check has a slot to spare. *)
LEMMA PushFindsRoom ==
    ASSUME QInv, push_pc # "idle"
    PROVE  /\ NextSlot(tail) # head
           /\ Distance(head, tail) < capacity - 1
  <1>1. /\ head \in Slot /\ seen_head \in Slot /\ seen_tail \in Slot
        /\ tail \in Slot /\ NextSlot(tail) # seen_head
    BY DEF QInv, QTypeOK, ChecksHold
  <1>2. NextSlot(tail) \in Slot
    BY <1>1, NextSlotValue, CapacityAssumption DEF Slot
  <1>3. /\ Distance(seen_head, head) \in Nat
        /\ Distance(head, seen_tail) \in Nat
        /\ Distance(seen_tail, tail) \in Nat
        /\ Distance(seen_head, tail) \in Nat
        /\ Distance(head, tail) \in Nat
    BY <1>1, DistanceRange
  <1>4. Distance(seen_head, head) + Distance(head, seen_tail)
           + Distance(seen_tail, tail) < capacity
    BY DEF QInv, ViewsInOrder
  <1>5. Distance(seen_head, tail) = Distance(seen_head, head)
           + Distance(head, seen_tail) + Distance(seen_tail, tail)
    BY <1>1, <1>4, DistanceAdds
  <1>6. Distance(seen_head, tail) < capacity - 1
    <2>1. Distance(seen_head, NextSlot(tail)) = Distance(seen_head, tail) + 1
      BY <1>1, AdvanceFar
    <2>2. Distance(seen_head, NextSlot(tail)) < capacity
      BY <1>1, <1>2, DistanceRange
    <2> QED
      BY <1>3, <2>1, <2>2, CapacityAssumption
  <1>7. Distance(head, tail) = Distance(head, seen_tail) + Distance(seen_tail, tail)
    <2>1. Distance(head, seen_tail) + Distance(seen_tail, tail) < capacity
      BY <1>3, <1>4, CapacityAssumption
    <2> QED
      BY <1>1, <2>1, DistanceValue, CapacityAssumption DEF Slot
  <1>8. Distance(head, tail) < capacity - 1
    BY <1>3, <1>5, <1>6, <1>7, CapacityAssumption
  <1>9. NextSlot(tail) = head => Distance(head, tail) = capacity - 1
    BY <1>1, AdvanceFar
  <1> QED
    BY <1>3, <1>8, <1>9, CapacityAssumption

(* The two invariants together are inductive. *)
LEMMA ItemsInPlaceStep ==
    ASSUME QInv, ItemsInPlace, [QNext]_queueVars
    PROVE  ItemsInPlace'
  <1>1. CASE UNCHANGED queueVars
    BY <1>1 DEF ItemsInPlace, queueVars, producer, consumer
  <1>2. ASSUME NEW x \in Item, PushLoad(x) PROVE ItemsInPlace'
    BY <1>2 DEF ItemsInPlace, PushLoad, consumer
  <1>3. CASE PushWrite
    <2>1. /\ buffer' = [buffer EXCEPT ![tail] = item]
          /\ tail \in Slot /\ head \in Slot
          /\ buffer \in [Slot -> Item \union {NoItem}]
      BY <1>3 DEF PushWrite, QInv, QTypeOK
    <2>2. buffer'[tail] = item
      BY <2>1
    <2>3. pop_pc = "store" => buffer'[head] = buffer[head]
      BY <2>1, PopFindsItem
    <2> QED
      BY <1>3, <2>2, <2>3 DEF ItemsInPlace, PushWrite, consumer
  <1>4. CASE PushStore
    BY <1>4 DEF ItemsInPlace, PushStore, consumer
  <1>5. CASE PopLoad
    BY <1>5 DEF ItemsInPlace, PopLoad, producer
  <1>6. CASE PopCopy
    BY <1>6 DEF ItemsInPlace, PopCopy, producer
  <1>7. CASE PopStore
    BY <1>7 DEF ItemsInPlace, PopStore, producer
  <1> QED
    BY <1>1, <1>2, <1>3, <1>4, <1>5, <1>6, <1>7 DEF QNext

----------------------------------------------------------------------------
(* The slots that contents reads: k - 1 steps after head, short of tail. *)
LEMMA ContentsSlots ==
    ASSUME NEW h \in Slot, NEW t \in Slot, NEW k \in 1..Distance(h, t)
    PROVE  /\ (h + k - 1) % capacity \in Slot
           /\ (h + k - 1) % capacity # t
  <1>1. k \in Nat /\ k >= 1 /\ k <= Distance(h, t)
    BY DistanceRange
  <1>2. k - 1 \in Slot /\ h + k - 1 = h + (k - 1)
    BY <1>1, DistanceRange, CapacityAssumption DEF Slot
  <1>3. (h + k - 1) % capacity = IF h + (k - 1) < capacity
                                 THEN h + (k - 1)
                                 ELSE h + (k - 1) - capacity
    BY <1>2, SlotAt
  <1>4. Distance(h, t) = IF h <= t THEN t - h ELSE t - h + capacity
    BY DistanceValue
  <1> HIDE DEF Distance
  <1>5. h \in Nat /\ t \in Nat /\ h < capacity /\ t < capacity
    BY CapacityAssumption DEF Slot
  <1>6. CASE h + (k - 1) < capacity
    BY <1>1, <1>3, <1>4, <1>5, <1>6, CapacityAssumption DEF Slot
  <1>7. CASE ~(h + (k - 1) < capacity)
    BY <1>1, <1>3, <1>4, <1>5, <1>7, CapacityAssumption DEF Slot
  <1> QED
    BY <1>6, <1>7

(* contents is a sequence of what is in those slots. *)
LEMMA ContentsIsSeq ==
    ASSUME QInv
    PROVE  /\ contents \in Seq(Item \union {NoItem})
           /\ Len(contents) = Distance(head, tail)
           /\ \A k \in 1..Distance(head, tail) :
                 contents[k] = buffer[(head + k - 1) % capacity]
  <1>1. /\ head \in Slot /\ tail \in Slot
        /\ buffer \in [Slot -> Item \union {NoItem}]
    BY DEF QInv, QTypeOK
  <1>2. Distance(head, tail) \in Nat
    BY <1>1, DistanceRange
  <1>3. \A k \in 1..Distance(head, tail) :
           buffer[(head + k - 1) % capacity] \in Item \union {NoItem}
    BY <1>1, ContentsSlots
  <1> QED
    BY <1>2, <1>3 DEF contents

(* The item is not visible yet when it is written to its slot. *)
LEMMA PushWriteHides ==
    ASSUME QInv, PushWrite
    PROVE  contents' = contents
  <1>1. /\ head \in Slot /\ tail \in Slot /\ head' = head /\ tail' = tail
        /\ buffer \in [Slot -> Item \union {NoItem}]
        /\ buffer' = [buffer EXCEPT ![tail] = item]
    BY DEF QInv, QTypeOK, PushWrite
  <1>2. \A k \in 1..Distance(head, tail) :
           buffer'[(head + k - 1) % capacity] = buffer[(head + k - 1) % capacity]
    BY <1>1, ContentsSlots
  <1>3. contents' = [k \in 1..Distance(head, tail) |->
                        buffer'[(head + k - 1) % capacity]]
    BY <1>1 DEF contents
  <1> QED
    BY <1>2, <1>3 DEF contents

(* The store of tail is the abstract push. *)
LEMMA PushStoreIsPush ==
    ASSUME QInv, ItemsInPlace, PushStore
    PROVE  FIFO!Push
  <1>1. /\ head \in Slot /\ tail \in Slot /\ head' = head
        /\ tail' = NextSlot(tail) /\ buffer' = buffer /\ received' = received
        /\ push_pc = "store" /\ item \in Item /\ buffer[tail] = item
    BY DEF QInv, QTypeOK, PushStore, ItemsInPlace
  <1>2. NextSlot(tail) # head /\ Distance(head, tail) < capacity - 1
    BY <1>1, PushFindsRoom
  <1> DEFINE n == Distance(head, tail)
  <1>3. n \in Nat /\ Distance(head, tail') = n + 1
    BY <1>1, <1>2, AdvanceFar, DistanceRange
  <1>4. (head + (n + 1) - 1) % capacity = tail
    <2>1. n \in Slot /\ head + (n + 1) - 1 = head + n
      <3>1. n < capacity
        BY <1>1, DistanceRange
      <3> HIDE DEF n
      <3> QED BY <1>1, <1>3, <3>1, CapacityAssumption DEF Slot
    <2>2. (head + n) % capacity = IF head + n < capacity
                                  THEN head + n ELSE head + n - capacity
      BY <1>1, <2>1, SlotAt
    <2>3. n = IF head <= tail THEN tail - head ELSE tail - head + capacity
      BY <1>1, DistanceValue
    <2> HIDE DEF n
    <2> QED
      BY <1>1, <2>1, <2>2, <2>3, CapacityAssumption DEF Slot
  <1>5. contents' = [k \in 1..(n + 1) |-> buffer[(head + k - 1) % capacity]]
    BY <1>1, <1>3 DEF contents
  <1>6. /\ contents \in Seq(Item \union {NoItem}) /\ Len(contents) = n
        /\ \A k \in 1..n : contents[k] = buffer[(head + k - 1) % capacity]
    BY ContentsIsSeq
  <1> HIDE DEF n
  <1>7. contents' = Append(contents, item)
    <2> DEFINE c == contents
               d == contents'
    <2> SUFFICES d = Append(c, item)
      OBVIOUS
    <2>1. d = [k \in 1..(n + 1) |-> buffer[(head + k - 1) % capacity]]
      BY <1>5
    <2>2. c \in Seq(Item \union {NoItem}) /\ Len(c) = n
      BY <1>6
    <2>3. \A k \in 1..n : d[k] = c[k]
      BY <1>3, <1>6, <2>1
    <2>4. d[n + 1] = item
      BY <1>1, <1>3, <1>4, <2>1
    <2>5. d \in Seq(Item \union {NoItem}) /\ Len(d) = n + 1
      <3>1. \A k \in 1..(n + 1) : d[k] \in Item \union {NoItem}
        <4> TAKE k \in 1..(n + 1)
        <4>1. CASE k = n + 1
          BY <1>1, <2>4, <4>1
        <4>2. CASE k \in 1..n
          BY <2>2, <2>3, <4>2
        <4> QED BY <1>3, <4>1, <4>2
      <3> HIDE DEF d
      <3> QED BY <1>3, <2>1, <3>1
    <2>6. /\ Append(c, item) \in Seq(Item \union {NoItem})
          /\ Len(Append(c, item)) = n + 1
          /\ \A k \in 1..n : Append(c, item)[k] = c[k]
          /\ Append(c, item)[n + 1] = item
      BY <1>1, <2>2
    <2>7. \A k \in 1..(n + 1) : d[k] = Append(c, item)[k]
      BY <1>3, <2>3, <2>4, <2>6
    <2> HIDE DEF c, d
    <2> QED
      BY <2>5, <2>6, <2>7, SeqEqual
  <1> QED
    BY <1>1, <1>2, <1>6, <1>7 DEF FIFO!Push, n

(* The store of head is the abstract pop. *)
LEMMA PopStoreIsPop ==
    ASSUME QInv, ItemsInPlace, PopStore
    PROVE  FIFO!Pop
  <1>1. /\ head \in Slot /\ tail \in Slot /\ head' = NextSlot(head)
        /\ tail' = tail /\ buffer' = buffer /\ received' = out
        /\ pop_pc = "store" /\ out = buffer[head]
    BY DEF QInv, QTypeOK, PopStore, ItemsInPlace, producer
  <1>2. head # tail /\ head' \in Slot
    BY <1>1, PopFindsItem, NextSlotValue, CapacityAssumption DEF Slot
  <1> DEFINE n == Distance(head, tail)
  <1>3. n \in Nat /\ n >= 1 /\ n < capacity /\ Distance(head', tail) = n - 1
    BY <1>1, <1>2, AdvanceNear, DistanceRange
  <1>4. \A k \in 1..(n - 1) : (head' + k - 1) % capacity = (head + (k + 1) - 1) % capacity
    <2> SUFFICES ASSUME NEW k \in 1..(n - 1)
                 PROVE  (head' + k - 1) % capacity = (head + (k + 1) - 1) % capacity
      OBVIOUS
    <2>1. /\ k \in Slot /\ k - 1 \in Slot
          /\ head' + k - 1 = head' + (k - 1) /\ head + (k + 1) - 1 = head + k
      BY <1>1, <1>2, <1>3, CapacityAssumption DEF Slot
    <2>2. /\ (head + k) % capacity = IF head + k < capacity
                                     THEN head + k ELSE head + k - capacity
          /\ (head' + (k - 1)) % capacity = IF head' + (k - 1) < capacity
                                     THEN head' + (k - 1) ELSE head' + (k - 1) - capacity
      BY <1>1, <1>2, <2>1, SlotAt
    <2> QED
      BY <1>1, <1>2, <2>1, <2>2, NextSlotValue, CapacityAssumption DEF Slot
  <1>5. (head + 1 - 1) % capacity = head
    BY <1>1, CapacityAssumption DEF Slot
  <1>6. /\ contents \in Seq(Item \union {NoItem}) /\ Len(contents) = n
        /\ \A k \in 1..n : contents[k] = buffer[(head + k - 1) % capacity]
    BY ContentsIsSeq
  <1>7. contents' = [k \in 1..(n - 1) |-> buffer[(head' + k - 1) % capacity]]
    BY <1>1, <1>3 DEF contents
  <1> HIDE DEF n
  <1>8. contents # <<>> /\ Head(contents) = out
    <2>1. contents[1] = out
      BY <1>1, <1>3, <1>5, <1>6
    <2> QED
      BY <1>3, <1>6, <2>1
  <1>9. contents' = Tail(contents)
    <2> DEFINE c == contents
               d == contents'
    <2> SUFFICES d = Tail(c)
      OBVIOUS
    <2>1. d = [k \in 1..(n - 1) |-> buffer[(head' + k - 1) % capacity]]
      BY <1>7
    <2>2. c \in Seq(Item \union {NoItem}) /\ Len(c) = n /\ c # <<>>
      BY <1>6, <1>8
    <2>3. \A k \in 1..(n - 1) : d[k] = c[k + 1]
      BY <1>3, <1>4, <1>6, <2>1
    <2>4. d \in Seq(Item \union {NoItem}) /\ Len(d) = n - 1
      <3>1. \A k \in 1..(n - 1) : d[k] \in Item \union {NoItem}
        BY <1>3, <2>2, <2>3
      <3> HIDE DEF d
      <3> QED BY <1>3, <2>1, <3>1
    <2>5. /\ Tail(c) \in Seq(Item \union {NoItem}) /\ Len(Tail(c)) = n - 1
          /\ \A k \in 1..(n - 1) : Tail(c)[k] = c[k + 1]
      BY <2>2, HeadTailProperties
    <2> HIDE DEF c, d
    <2> QED
      BY <2>3, <2>4, <2>5, SeqEqual
  <1> QED
    BY <1>1, <1>8, <1>9 DEF FIFO!Pop

(* For every capacity, spsc_queue.h is a bounded first-in first-out queue: *)
(* the initial ring is the empty queue; the store of tail in push appends  *)
(* the item, the store of head in pop returns the oldest one and removes   *)
(* it, and no other step of either thread changes what the queue holds.    *)
THEOREM RingIsFIFO == QSpec => ImplementsFIFO
  <1>1. QInit => FIFO!Init
    <2> SUFFICES ASSUME QInit PROVE contents = <<>> /\ received = NoItem
      BY DEF FIFO!Init
    <2>1. 0 \in Slot
      BY CapacityAssumption DEF Slot
    <2>2. Distance(head, tail) = 0
      BY <2>1, DistanceValue DEF QInit
    <2> QED
      BY <2>2 DEF QInit, contents
  <1>2. QInit => ItemsInPlace
    BY DEF QInit, ItemsInPlace
  <1>3. QInv /\ ItemsInPlace /\ [QNext]_queueVars => ItemsInPlace'
    BY ItemsInPlaceStep
  <1>4. QInv /\ ItemsInPlace /\ [QNext]_queueVars
           => [FIFO!Push \/ FIFO!Pop]_<<contents, received>>
    <2> SUFFICES ASSUME QInv, ItemsInPlace, [QNext]_queueVars
                 PROVE  \/ FIFO!Push \/ FIFO!Pop
                        \/ contents' = contents /\ received' = received
      OBVIOUS
    <2>1. CASE UNCHANGED queueVars
      BY <2>1 DEF contents, queueVars
    <2>2. ASSUME NEW x \in Item, PushLoad(x)
          PROVE  contents' = contents /\ received' = received
      BY <2>2 DEF contents, PushLoad
    <2>3. CASE PushWrite
      BY <2>3, PushWriteHides DEF PushWrite
    <2>4. CASE PushStore
      BY <2>4, PushStoreIsPush
    <2>5. CASE PopLoad
      BY <2>5 DEF contents, PopLoad
    <2>6. CASE PopCopy
      BY <2>6 DEF contents, PopCopy
    <2>7. CASE PopStore
      BY <2>7, PopStoreIsPop
    <2> QED
      BY <2>1, <2>2, <2>3, <2>4, <2>5, <2>6, <2>7 DEF QNext
  <1> QED
    BY <1>1, <1>2, <1>3, <1>4, QueueInvariance, PTL DEF QSpec, ImplementsFIFO, FIFO!Spec

----------------------------------------------------------------------------
(* The pool.                                                               *)

Objects == 1..(blocks * BlockSize)

(* Thread t is between acquire_lock and release_lock. *)
InLock(t) == pc[t] \in {"back", "pop", "push", "got", "put"}

(* Object x is in the hands of thread t.  At "pop" the thread has read the *)
(* last element of the list, which is still in the list.                   *)
Holds(t, x) == pc[t] # "pop" /\ obj[t] = x

Free(x) == \E i \in DOMAIN free_list : free_list[i] = x
Held(x) == \E t \in Thread : Holds(t, x)

PoolTypeOK ==
    /\ blocks \in Nat \ {0}
    /\ free_list \in Seq(Objects)
    /\ pc \in [Thread -> {"idle", "acquire", "recycle", "back", "pop",
                          "push", "got", "put", "ended"}]
    /\ obj \in [Thread -> Objects \union {None}]
    /\ owned \subseteq Objects

(* The spinlock excludes. *)
Exclusive ==
    /\ \A t \in Thread : InLock(t) => lock
    /\ \A t, u \in Thread : InLock(t) /\ InLock(u) => t = u

(* A thread has an object in its hands exactly where the code has one. *)
HandFull ==
    \A t \in Thread :
        pc[t] # "ended" => (obj[t] # None <=> pc[t] \in {"recycle", "push", "pop", "got"})

(* What a thread has read is what it pops. *)
AtPop ==
    \A t \in Thread :
        pc[t] = "pop" => free_list # <<>> /\ obj[t] = free_list[Len(free_list)]

FreeDistinct ==
    \A i, j \in DOMAIN free_list : free_list[i] = free_list[j] => i = j

HandsApart ==
    \A t, u \in Thread : \A x \in Objects : Holds(t, x) /\ Holds(u, x) => t = u

(* No object is lost, none is in two kinds of places. *)
Somewhere == \A x \in Objects : Free(x) \/ Held(x) \/ x \in owned

NotTwice ==
    \A x \in Objects :
        /\ ~(Free(x) /\ Held(x))
        /\ ~(Free(x) /\ x \in owned)
        /\ ~(Held(x) /\ x \in owned)

(* The inductive invariant. *)
PoolInv ==
    /\ PoolTypeOK
    /\ Exclusive
    /\ HandFull
    /\ AtPop
    /\ FreeDistinct
    /\ HandsApart
    /\ Somewhere
    /\ NotTwice

----------------------------------------------------------------------------
(* Sequences and blocks. *)

(* pop_back. *)
LEMMA FrontLast ==
    ASSUME NEW S, NEW q \in Seq(S), q # <<>>
    PROVE  /\ Front(q) \in Seq(S)
           /\ DOMAIN Front(q) = 1..(Len(q) - 1)
           /\ \A i \in 1..(Len(q) - 1) : Front(q)[i] = q[i]
           /\ Last(q) = q[Len(q)]
           /\ DOMAIN q = 1..Len(q)
           /\ Len(q) \in Nat /\ Len(q) > 0 /\ Len(q) \in 1..Len(q)
<1>1. Len(q) \in Nat /\ Len(q) > 0 /\ DOMAIN q = 1..Len(q)
  BY LenProperties, EmptySeq
<1>2. \A k \in 1..(Len(q) - 1) : q[k] \in S
  BY <1>1, ElementOfSeq
<1>3. /\ Front(q) \in Seq(S)
      /\ Len(Front(q)) = IF 1 <= Len(q) - 1 THEN (Len(q) - 1) - 1 + 1 ELSE 0
      /\ \A k \in 1..((Len(q) - 1) - 1 + 1) : Front(q)[k] = q[1 + k - 1]
  BY <1>1, <1>2, SubSeqProperties DEF Front
<1>4. DOMAIN Front(q) = 1..Len(Front(q))
  BY <1>3, LenProperties
<1>5. QED
  <2> DEFINE n == Len(q)
             f == Front(q)
  <2>0. /\ n \in Nat /\ n > 0
        /\ Len(f) = IF 1 <= n - 1 THEN (n - 1) - 1 + 1 ELSE 0
        /\ \A k \in 1..((n - 1) - 1 + 1) : f[k] = q[1 + k - 1]
    BY <1>1, <1>3
  <2> HIDE DEF n, f
  <2>1. Len(f) = n - 1
    BY <2>0
  <2>2. \A k \in 1..(n - 1) : f[k] = q[k]
    <3> TAKE k \in 1..(n - 1)
    <3>1. k \in 1..((n - 1) - 1 + 1) /\ 1 + k - 1 = k
      BY <2>0
    <3> QED BY <2>0, <3>1
  <2>3. n \in 1..n
    BY <2>0
  <2> USE DEF n, f
  <2> QED BY <2>3, <1>1, <1>3, <1>4, <2>1, <2>2 DEF Last

(* One more block adds BlockSize objects to the blocks * BlockSize there are. *)
LEMMA NextBlock ==
    ASSUME NEW b \in Nat
    PROVE  /\ b * BlockSize \in Nat
           /\ (b + 1) * BlockSize = b * BlockSize + BlockSize
           /\ ((b + 1) - 1) * BlockSize = b * BlockSize
  BY BlockSizeAssumption

(* allocate_block pushes each object of the block once. *)
LEMMA BlockProperties ==
    ASSUME NEW b \in Nat, NEW S, (b * BlockSize + 1)..(b * BlockSize + BlockSize) \subseteq S
    PROVE  /\ Block(b + 1) \in Seq(S)
           /\ DOMAIN Block(b + 1) = 1..BlockSize
           /\ \A i \in 1..BlockSize : Block(b + 1)[i] = b * BlockSize + i
<1> DEFINE n == b * BlockSize
<1>1. n \in Nat /\ ((b + 1) - 1) * BlockSize = n
  BY NextBlock
<1>2. Block(b + 1) = [i \in 1..BlockSize |-> n + i]
  BY <1>1 DEF Block
<1> HIDE DEF n
<1>3. \A i \in 1..BlockSize : n + i \in S
  BY <1>1, BlockSizeAssumption DEF n
<1>4. [i \in 1..BlockSize |-> n + i] \in Seq(S)
  BY <1>3, IsASeq, BlockSizeAssumption
<1>5. QED
  BY <1>2, <1>4 DEF n

----------------------------------------------------------------------------
(* The invariant says that there is one place for each object. *)
LEMMA InvInOnePlace ==
    ASSUME PoolInv
    PROVE  InOnePlace
<1> SUFFICES ASSUME NEW x \in Objects PROVE Cardinality(Places(x)) = 1
  BY DEF InOnePlace, Objects
<1> DEFINE F == {<<"free", i>> : i \in {j \in DOMAIN free_list : free_list[j] = x}}
           H == {<<"hand", t>> : t \in {u \in Thread : pc[u] # "pop" /\ obj[u] = x}}
           O == {<<"owned", y>> : y \in owned \intersect {x}}
<1>1. Places(x) = F \union H \union O
  BY DEF Places
<1>2. F = {} <=> ~Free(x)
  BY DEF Free
<1>3. H = {} <=> ~Held(x)
  BY DEF Held, Holds
<1>4. O = {} <=> x \notin owned
  OBVIOUS
<1>5. Free(x) => \E e : F = {e}
  <2> SUFFICES ASSUME NEW i \in DOMAIN free_list, free_list[i] = x PROVE F = {<<"free", i>>}
    BY DEF Free
  <2>1. \A j \in DOMAIN free_list : free_list[j] = x => j = i
    BY DEF PoolInv, FreeDistinct
  <2> QED BY <2>1
<1>6. Held(x) => \E e : H = {e}
  <2> SUFFICES ASSUME NEW t \in Thread, Holds(t, x) PROVE H = {<<"hand", t>>}
    BY DEF Held
  <2>1. \A u \in Thread : Holds(u, x) => u = t
    BY DEF PoolInv, HandsApart
  <2> QED BY <2>1 DEF Holds
<1>7. x \in owned => \E e : O = {e}
  OBVIOUS
<1> HIDE DEF F, H, O
<1>8. \E e : Places(x) = {e}
  BY <1>1, <1>2, <1>3, <1>4, <1>5, <1>6, <1>7 DEF PoolInv, Somewhere, NotTwice
<1>9. QED
  BY <1>8, FS_Singleton

LEMMA PoolInitInv == PoolInit => PoolInv
<1> SUFFICES ASSUME PoolInit PROVE PoolInv
  OBVIOUS
<1>1. Objects = 1..BlockSize
  BY BlockSizeAssumption DEF PoolInit, Objects
<1>2. /\ Block(0 + 1) \in Seq(1..BlockSize)
      /\ DOMAIN Block(0 + 1) = 1..BlockSize
      /\ \A i \in 1..BlockSize : Block(0 + 1)[i] = 0 * BlockSize + i
  <2>1. (0 * BlockSize + 1)..(0 * BlockSize + BlockSize) \subseteq 1..BlockSize
    BY BlockSizeAssumption
  <2> QED BY <2>1, BlockProperties
<1>3. /\ free_list \in Seq(1..BlockSize) /\ DOMAIN free_list = 1..BlockSize
      /\ \A i \in 1..BlockSize : free_list[i] = i
  BY <1>2, BlockSizeAssumption DEF PoolInit
<1>4. \A x \in Objects : Free(x)
  BY <1>1, <1>3 DEF Free
<1>5. \A x \in Objects : ~Held(x)
  BY <1>1, NoneAssumption DEF Held, Holds, PoolInit
<1>6. PoolTypeOK
  BY <1>1, <1>3 DEF PoolTypeOK, PoolInit
<1>7. Exclusive /\ HandFull /\ AtPop
  BY DEF PoolInit, Exclusive, HandFull, AtPop, InLock
<1>8. FreeDistinct
  BY <1>3 DEF FreeDistinct
<1>9. HandsApart /\ Somewhere /\ NotTwice
  BY <1>4, <1>5 DEF HandsApart, Somewhere, NotTwice, Held, PoolInit
<1>10. QED
  BY <1>6, <1>7, <1>8, <1>9 DEF PoolInv

----------------------------------------------------------------------------
(* A step of thread t leaves the other threads alone. *)
OthersStay(t) ==
    /\ pc' \in [Thread -> {"idle", "acquire", "recycle", "back", "pop", "push", "got", "put", "ended"}]
    /\ \A u \in Thread : u # t => pc'[u] = pc[u] /\ obj'[u] = obj[u]

(* A thread that gets the lock, or keeps it, is alone with it. *)
LEMMA ExclusiveStep ==
    ASSUME PoolInv, NEW t \in Thread, OthersStay(t),
           \/ InLock(t) /\ lock' = lock
           \/ ~lock /\ lock' = TRUE
           \/ ~InLock(t)' /\ lock' = lock
           \/ ~InLock(t)' /\ InLock(t)
    PROVE  Exclusive'
  BY DEF PoolInv, Exclusive, InLock, OthersStay

LEMMA PoolStepInv ==
    ASSUME PoolInv, NEW t \in Thread,
           \/ BeginAcquire(t)
           \/ \E x \in owned : BeginRecycle(t, x)
           \/ AcquireLock(t)
           \/ Critical(t)
    PROVE  PoolInv'
<1>1. /\ blocks \in Nat \ {0} /\ free_list \in Seq(Objects)
      /\ pc \in [Thread -> {"idle", "acquire", "recycle", "back", "pop", "push", "got", "put", "ended"}]
      /\ obj \in [Thread -> Objects \union {None}]
      /\ owned \subseteq Objects
  BY DEF PoolInv, PoolTypeOK
<1>2. None \notin Objects
  <2>1. blocks * BlockSize \in Nat
    BY <1>1, NextBlock
  <2> QED BY <2>1, NoneAssumption DEF Objects
<1>3. CASE BeginAcquire(t)
  <2>1. /\ pc[t] = "idle" /\ pc' = [pc EXCEPT ![t] = "acquire"]
        /\ UNCHANGED <<lock, blocks, free_list, obj, owned>>
    BY <1>3 DEF BeginAcquire
  <2>2. pc'[t] = "acquire" /\ OthersStay(t)
    BY <1>1, <2>1 DEF OthersStay
  <2>3. /\ Objects' = Objects
        /\ \A x : Free(x)' <=> Free(x)
        /\ \A u \in Thread : \A x : Holds(u, x)' <=> Holds(u, x)
        /\ \A x : Held(x)' <=> Held(x)
    BY <2>1, <2>2 DEF Objects, Free, Held, Holds, OthersStay
  <2>4. Exclusive'
    BY <2>1, <2>2, ExclusiveStep DEF InLock
  <2>5. HandFull' /\ AtPop'
    BY <2>1, <2>2 DEF PoolInv, HandFull, AtPop, OthersStay
  <2>6. PoolTypeOK'
    BY <1>1, <2>1, <2>2, <2>3 DEF PoolTypeOK, OthersStay
  <2>7. FreeDistinct'
    BY <2>1 DEF PoolInv, FreeDistinct
  <2>8. HandsApart' /\ Somewhere' /\ NotTwice'
    BY <2>1, <2>3 DEF PoolInv, HandsApart, Somewhere, NotTwice
  <2> QED BY <2>4, <2>5, <2>6, <2>7, <2>8 DEF PoolInv
<1>4. ASSUME NEW x \in owned, BeginRecycle(t, x) PROVE PoolInv'
  <2>1. /\ pc[t] = "idle" /\ pc' = [pc EXCEPT ![t] = "recycle"]
        /\ owned' = owned \ {x} /\ obj' = [obj EXCEPT ![t] = x]
        /\ UNCHANGED <<lock, blocks, free_list>>
    BY <1>4 DEF BeginRecycle
  <2>2. /\ pc'[t] = "recycle" /\ obj'[t] = x /\ obj[t] = None /\ OthersStay(t)
        /\ x \in Objects
    BY <1>1, <2>1 DEF OthersStay, PoolInv, HandFull
  <2>3. Objects' = Objects /\ \A y : Free(y)' <=> Free(y)
    BY <2>1 DEF Objects, Free
  <2>4. /\ \A u \in Thread : \A y \in Objects :
              Holds(u, y)' <=> (u = t /\ y = x) \/ Holds(u, y)
        /\ \A y \in Objects : ~Holds(t, y)
    BY <1>2, <2>1, <2>2 DEF Holds, OthersStay
  <2>5. \A y \in Objects : Held(y)' <=> y = x \/ Held(y)
    BY <2>4 DEF Held
  <2>6. Exclusive'
    BY <2>1, <2>2, ExclusiveStep DEF InLock
  <2>7. HandFull' /\ AtPop'
    BY <1>2, <2>1, <2>2 DEF PoolInv, HandFull, AtPop, OthersStay
  <2>8. PoolTypeOK'
    BY <1>1, <2>1, <2>2, <2>3 DEF PoolTypeOK, OthersStay
  <2>9. FreeDistinct'
    BY <2>1 DEF PoolInv, FreeDistinct
  <2>10. HandsApart'
    BY <2>2, <2>3, <2>4 DEF PoolInv, HandsApart, NotTwice, Held
  <2>11. Somewhere' /\ NotTwice'
    BY <2>1, <2>3, <2>5 DEF PoolInv, Somewhere, NotTwice
  <2> QED BY <2>6, <2>7, <2>8, <2>9, <2>10, <2>11 DEF PoolInv
<1>5. CASE AcquireLock(t)
  <2>1. /\ pc[t] \in {"acquire", "recycle"} /\ ~lock /\ lock' = TRUE
        /\ pc' = [pc EXCEPT ![t] = IF pc[t] = "acquire" THEN "back" ELSE "push"]
        /\ UNCHANGED <<blocks, free_list, obj, owned>>
    BY <1>5 DEF AcquireLock
  <2>2. /\ pc'[t] = IF pc[t] = "acquire" THEN "back" ELSE "push"
        /\ OthersStay(t)
    BY <1>1, <2>1 DEF OthersStay
  <2>3. /\ Objects' = Objects
        /\ \A x : Free(x)' <=> Free(x)
        /\ \A u \in Thread : \A x : Holds(u, x)' <=> Holds(u, x)
        /\ \A x : Held(x)' <=> Held(x)
    BY <2>1, <2>2 DEF Objects, Free, Held, Holds, OthersStay
  <2>4. Exclusive'
    BY <2>1, <2>2, ExclusiveStep
  <2>5. HandFull' /\ AtPop'
    BY <2>1, <2>2 DEF PoolInv, HandFull, AtPop, OthersStay
  <2>6. PoolTypeOK'
    BY <1>1, <2>1, <2>2, <2>3 DEF PoolTypeOK, OthersStay
  <2>7. FreeDistinct'
    BY <2>1 DEF PoolInv, FreeDistinct
  <2>8. HandsApart' /\ Somewhere' /\ NotTwice'
    BY <2>1, <2>3 DEF PoolInv, HandsApart, Somewhere, NotTwice
  <2> QED BY <2>4, <2>5, <2>6, <2>7, <2>8 DEF PoolInv
<1>6. CASE ReadBack(t)
  <2>1. /\ pc[t] = "back" /\ free_list # <<>>
        /\ obj' = [obj EXCEPT ![t] = Last(free_list)]
        /\ pc' = [pc EXCEPT ![t] = "pop"]
        /\ UNCHANGED <<lock, blocks, free_list, owned>>
    BY <1>6 DEF ReadBack
  <2>2. Last(free_list) = free_list[Len(free_list)] /\ Last(free_list) \in Objects
    <3>1. /\ Last(free_list) = free_list[Len(free_list)]
          /\ Len(free_list) \in 1..Len(free_list)
      BY <1>1, <2>1, FrontLast
    <3> QED BY <1>1, <3>1, ElementOfSeq
  <2>3. /\ pc'[t] = "pop" /\ obj'[t] = Last(free_list) /\ obj[t] = None /\ OthersStay(t)
    BY <1>1, <2>1 DEF OthersStay, PoolInv, HandFull
  <2>4. /\ Objects' = Objects
        /\ \A x : Free(x)' <=> Free(x)
        /\ \A u \in Thread : \A x \in Objects : Holds(u, x)' <=> Holds(u, x)
        /\ \A x \in Objects : Held(x)' <=> Held(x)
    BY <1>2, <2>1, <2>3 DEF Objects, Free, Held, Holds, OthersStay
  <2>5. Exclusive'
    BY <2>1, <2>3, ExclusiveStep DEF InLock
  <2>6. HandFull' /\ AtPop'
    BY <1>2, <2>1, <2>2, <2>3 DEF PoolInv, HandFull, AtPop, OthersStay
  <2>7. PoolTypeOK'
    BY <1>1, <2>1, <2>2, <2>3, <2>4 DEF PoolTypeOK, OthersStay
  <2>8. FreeDistinct'
    BY <2>1 DEF PoolInv, FreeDistinct
  <2>9. HandsApart' /\ Somewhere' /\ NotTwice'
    BY <2>1, <2>4 DEF PoolInv, HandsApart, Somewhere, NotTwice
  <2> QED BY <2>5, <2>6, <2>7, <2>8, <2>9 DEF PoolInv
<1>7. CASE PopBack(t)
  <2> DEFINE n == Len(free_list)
             x == free_list[n]
  <2>1. /\ pc[t] = "pop" /\ free_list # <<>>
        /\ free_list' = Front(free_list)
        /\ pc' = [pc EXCEPT ![t] = "got"]
        /\ UNCHANGED <<lock, blocks, obj, owned>>
    BY <1>7 DEF PopBack
  <2>2. /\ Front(free_list) \in Seq(Objects)
        /\ DOMAIN Front(free_list) = 1..(n - 1)
        /\ \A i \in 1..(n - 1) : Front(free_list)[i] = free_list[i]
        /\ DOMAIN free_list = 1..n /\ n \in Nat /\ n > 0 /\ n \in 1..n
    BY <1>1, <2>1, FrontLast
  <2>3. pc'[t] = "got" /\ obj[t] = x /\ x \in Objects /\ OthersStay(t)
    <3>1. x \in Objects
      BY <1>1, <2>2, ElementOfSeq
    <3> QED BY <1>1, <2>1, <3>1 DEF OthersStay, PoolInv, AtPop
  <2>4. FreeDistinct'
    BY <2>1, <2>2 DEF PoolInv, FreeDistinct
  <2>5. \A y : Free(y)' <=> Free(y) /\ y # x
    <3> HIDE DEF n
    <3>1. \A i \in 1..(n - 1) : i \in 1..n /\ i # n
      BY <2>2
    <3>2. n \in 1..n /\ \A i \in 1..n : i = n \/ i \in 1..(n - 1)
      BY <2>2
    <3>3. \A i \in 1..n : free_list[i] = x => i = n
      BY <2>2, <3>2 DEF PoolInv, FreeDistinct
    <3>4. \A y : Free(y)' <=> \E i \in 1..(n - 1) : free_list[i] = y
      BY <2>1, <2>2 DEF Free
    <3> QED BY <2>2, <3>1, <3>2, <3>3, <3>4 DEF Free
  <2> HIDE DEF n, x
  <2>6. Objects' = Objects
    BY <2>1 DEF Objects
  <2>7. /\ \A u \in Thread : \A y : Holds(u, y)' <=> (u = t /\ y = x) \/ Holds(u, y)
        /\ \A y : ~Holds(t, y)
    BY <2>1, <2>3 DEF Holds, OthersStay
  <2>8. \A y : Held(y)' <=> y = x \/ Held(y)
    BY <2>7 DEF Held
  <2>9. Free(x)
    BY <2>2 DEF Free, x
  <2>10. Exclusive'
    BY <2>1, <2>3, ExclusiveStep DEF InLock
  <2>11. \A u \in Thread : u # t => pc[u] # "pop"
    BY <2>1 DEF PoolInv, Exclusive, InLock
  <2>12. HandFull' /\ AtPop'
    BY <2>1, <2>3, <2>11 DEF PoolInv, HandFull, AtPop, OthersStay
  <2>13. PoolTypeOK'
    BY <1>1, <2>1, <2>2, <2>3, <2>6 DEF PoolTypeOK, OthersStay
  <2>14. HandsApart'
    BY <2>3, <2>6, <2>7, <2>9 DEF PoolInv, HandsApart, NotTwice, Held
  <2>15. Somewhere' /\ NotTwice'
    BY <2>1, <2>5, <2>6, <2>8, <2>9 DEF PoolInv, Somewhere, NotTwice
  <2> QED BY <2>4, <2>10, <2>12, <2>13, <2>14, <2>15 DEF PoolInv
<1>8. CASE PushBack(t)
  <2> DEFINE n == Len(free_list)
             x == obj[t]
             q == Append(free_list, x)
  <2>1. /\ pc[t] = "push"
        /\ free_list' = q
        /\ obj' = [obj EXCEPT ![t] = None]
        /\ pc' = [pc EXCEPT ![t] = "put"]
        /\ UNCHANGED <<lock, blocks, owned>>
    BY <1>8 DEF PushBack
  <2>2. /\ pc'[t] = "put" /\ obj'[t] = None /\ x \in Objects /\ OthersStay(t)
    BY <1>1, <2>1 DEF OthersStay, PoolInv, HandFull
  <2>3. /\ q \in Seq(Objects) /\ Len(q) = n + 1 /\ n \in Nat
        /\ DOMAIN q = 1..(n + 1) /\ DOMAIN free_list = 1..n
        /\ \A i \in 1..n : q[i] = free_list[i]
        /\ q[n + 1] = x
    <3>1. /\ q \in Seq(Objects) /\ Len(q) = n + 1 /\ n \in Nat
          /\ \A i \in 1..n : q[i] = free_list[i]
          /\ q[n + 1] = x
      BY <1>1, <2>2, AppendProperties, LenProperties
    <3> QED BY <1>1, <3>1, LenProperties
  <2> HIDE DEF q
  <2>4. /\ \A i \in 1..(n + 1) : i = n + 1 \/ i \in 1..n
        /\ n + 1 \in 1..(n + 1) /\ \A i \in 1..n : i \in 1..(n + 1)
    BY <2>3
  <2> HIDE DEF n, x
  <2>5. \A y : Free(y)' <=> Free(y) \/ y = x
    BY <2>1, <2>3, <2>4 DEF Free
  <2>6. Held(x) /\ \A u \in Thread : Holds(u, x) => u = t
    BY <2>1, <2>2 DEF Held, Holds, PoolInv, HandsApart, x
  <2>7. ~Free(x)
    BY <2>2, <2>6 DEF PoolInv, NotTwice
  <2>8. FreeDistinct'
    BY <2>1, <2>3, <2>4, <2>7 DEF PoolInv, FreeDistinct, Free
  <2>9. Objects' = Objects
    BY <2>1 DEF Objects
  <2>10. \A u \in Thread : \A y \in Objects : Holds(u, y)' <=> u # t /\ Holds(u, y)
    BY <1>2, <2>2 DEF Holds, OthersStay
  <2>11. \A y \in Objects : Held(y)' <=> Held(y) /\ y # x
    BY <2>1, <2>6, <2>10 DEF Held, Holds, x
  <2>12. Exclusive'
    BY <2>1, <2>2, ExclusiveStep DEF InLock
  <2>13. \A u \in Thread : u # t => pc[u] # "pop"
    BY <2>1 DEF PoolInv, Exclusive, InLock
  <2>14. HandFull' /\ AtPop'
    BY <2>1, <2>2, <2>13 DEF PoolInv, HandFull, AtPop, OthersStay
  <2>15. PoolTypeOK'
    BY <1>1, <2>1, <2>2, <2>3, <2>9 DEF PoolTypeOK, OthersStay
  <2>16. HandsApart'
    BY <2>9, <2>10 DEF PoolInv, HandsApart
  <2>17. Somewhere' /\ NotTwice'
    BY <2>1, <2>2, <2>5, <2>6, <2>9, <2>11 DEF PoolInv, Somewhere, NotTwice
  <2> QED BY <2>8, <2>12, <2>14, <2>15, <2>16, <2>17 DEF PoolInv
<1>9. CASE ReleaseLock(t)
  <2> DEFINE x == obj[t]
  <2>1. /\ pc[t] \in {"got", "put"} /\ lock' = FALSE
        /\ owned' = IF pc[t] = "got" THEN owned \union {x} ELSE owned
        /\ obj' = [obj EXCEPT ![t] = None]
        /\ pc' = [pc EXCEPT ![t] = "idle"]
        /\ UNCHANGED <<blocks, free_list>>
    BY <1>9 DEF ReleaseLock
  <2>2. /\ pc'[t] = "idle" /\ obj'[t] = None /\ OthersStay(t)
        /\ pc[t] = "got" => x \in Objects
        /\ pc[t] = "put" => x = None
    BY <1>1, <2>1 DEF OthersStay, PoolInv, HandFull
  <2>3. Objects' = Objects /\ \A y : Free(y)' <=> Free(y)
    BY <2>1 DEF Objects, Free
  <2>4. \A u \in Thread : \A y \in Objects : Holds(u, y)' <=> u # t /\ Holds(u, y)
    BY <1>2, <2>2 DEF Holds, OthersStay
  <2>5. Holds(t, x)
    BY <2>1 DEF Holds
  <2>6. \A u \in Thread : x \in Objects /\ Holds(u, x) => u = t
    BY <2>5 DEF PoolInv, HandsApart
  <2>7. \A y \in Objects : Held(y)' <=> Held(y) /\ y # x
    <3>1. \A y : Holds(t, y) => y = x
      BY DEF Holds
    <3> HIDE DEF x
    <3> QED BY <2>4, <2>5, <2>6, <3>1 DEF Held
  <2>8. \A y \in Objects : y \in owned' <=> y \in owned \/ y = x
    BY <1>2, <2>1, <2>2
  <2>9. x \in Objects => Held(x)
    BY <2>5 DEF Held
  <2> HIDE DEF x
  <2>10. Exclusive'
    BY <2>1, <2>2, ExclusiveStep DEF InLock
  <2>11. HandFull' /\ AtPop'
    BY <2>1, <2>2 DEF PoolInv, HandFull, AtPop, OthersStay
  <2>12. PoolTypeOK'
    BY <1>1, <2>1, <2>2, <2>3 DEF PoolTypeOK, OthersStay
  <2>13. FreeDistinct'
    BY <2>1 DEF PoolInv, FreeDistinct
  <2>14. HandsApart'
    BY <2>3, <2>4 DEF PoolInv, HandsApart
  <2>15. Somewhere' /\ NotTwice'
    BY <2>3, <2>7, <2>8, <2>9 DEF PoolInv, Somewhere, NotTwice
  <2> QED BY <2>10, <2>11, <2>12, <2>13, <2>14, <2>15 DEF PoolInv
<1>10. CASE AllocateBlock(t)
  <2> DEFINE n == blocks * BlockSize
             q == Block(blocks + 1)
  <2>1. /\ pc[t] = "back" /\ free_list = <<>>
        /\ blocks' = blocks + 1
        /\ free_list' = q
        /\ UNCHANGED <<lock, pc, obj, owned>>
    BY <1>10 DEF AllocateBlock
  <2>2. /\ n \in Nat /\ Objects = 1..n /\ Objects' = 1..(n + BlockSize)
        /\ BlockSize \in Nat
    BY <1>1, <2>1, NextBlock, BlockSizeAssumption DEF Objects
  <2>3. /\ q \in Seq(1..(n + BlockSize))
        /\ DOMAIN q = 1..BlockSize
        /\ \A i \in 1..BlockSize : q[i] = n + i
    <3>1. (n + 1)..(n + BlockSize) \subseteq 1..(n + BlockSize)
      <4> HIDE DEF n
      <4> QED BY <2>2
    <3> QED BY <1>1, <3>1, BlockProperties
  <2> HIDE DEF n, q
  <2>4. \A x : ~Free(x)
    BY <2>1 DEF Free
  <2>5. \A x \in Objects' : Free(x)' <=> x \notin Objects
    <3>1. \A x \in 1..(n + BlockSize) : x \notin 1..n => x - n \in 1..BlockSize /\ n + (x - n) = x
      BY <2>2
    <3>2. \A i \in 1..BlockSize : n + i \notin 1..n
      BY <2>2
    <3>3. \A x : Free(x)' <=> \E i \in 1..BlockSize : n + i = x
      BY <2>1, <2>3 DEF Free
    <3>4. \A x \in 1..(n + BlockSize) :
             (\E i \in 1..BlockSize : n + i = x) <=> x \notin 1..n
      BY <3>1, <3>2
    <3> QED BY <2>2, <3>3, <3>4
  <2>6. /\ \A u \in Thread : \A x : Holds(u, x)' <=> Holds(u, x)
        /\ \A x : Held(x)' <=> Held(x)
    BY <2>1 DEF Holds, Held
  <2>7. Objects \subseteq Objects'
    BY <2>2
  <2>8. \A x \in Objects' : Held(x) => x \in Objects
    BY <1>1, <1>2, <2>2, NoneAssumption DEF Held, Holds
  <2>9. Exclusive'
    BY <2>1 DEF PoolInv, Exclusive, InLock
  <2>10. \A u \in Thread : pc[u] # "pop"
    BY <2>1 DEF PoolInv, Exclusive, InLock
  <2>11. HandFull' /\ AtPop'
    BY <2>1, <2>10 DEF PoolInv, HandFull, AtPop
  <2>12. PoolTypeOK'
    BY <1>1, <2>1, <2>2, <2>3, <2>7 DEF PoolTypeOK
  <2>13. FreeDistinct'
    <3>1. \A i, j \in 1..BlockSize : n + i = n + j => i = j
      BY <2>2
    <3> QED BY <2>1, <2>3, <3>1 DEF FreeDistinct
  <2>14. HandsApart'
    BY <2>6, <2>8 DEF PoolInv, HandsApart, Held
  <2>15. Somewhere' /\ NotTwice'
    BY <1>1, <2>1, <2>4, <2>5, <2>6, <2>8 DEF PoolInv, Somewhere, NotTwice
  <2> QED BY <2>9, <2>11, <2>12, <2>13, <2>14, <2>15 DEF PoolInv
<1>11. CASE AllocationThrows(t)
  <2>1. /\ pc[t] = "back" /\ pc' = [u \in Thread |-> "ended"]
        /\ UNCHANGED <<lock, blocks, free_list, obj, owned>>
    BY <1>11 DEF AllocationThrows
  <2>2. \A u \in Thread : pc[u] # "pop" /\ pc'[u] = "ended"
    BY <2>1 DEF PoolInv, Exclusive, InLock
  <2>3. /\ Objects' = Objects
        /\ \A x : Free(x)' <=> Free(x)
        /\ \A u \in Thread : \A x : Holds(u, x)' <=> Holds(u, x)
        /\ \A x : Held(x)' <=> Held(x)
    BY <2>1, <2>2 DEF Objects, Free, Held, Holds
  <2>4. Exclusive' /\ HandFull' /\ AtPop'
    BY <2>2 DEF Exclusive, InLock, HandFull, AtPop
  <2>5. PoolTypeOK'
    BY <1>1, <2>1, <2>3 DEF PoolTypeOK
  <2>6. FreeDistinct'
    BY <2>1 DEF PoolInv, FreeDistinct
  <2>7. HandsApart' /\ Somewhere' /\ NotTwice'
    BY <2>1, <2>3 DEF PoolInv, HandsApart, Somewhere, NotTwice
  <2> QED BY <2>4, <2>5, <2>6, <2>7 DEF PoolInv
<1>12. QED
  BY <1>3, <1>4, <1>5, <1>6, <1>7, <1>8, <1>9, <1>10, <1>11 DEF Critical

(* Acquire and recycle, called by any number of threads at once, never     *)
(* hand out an object twice and never lose one: every object of every      *)
(* block is in one slot of free_list_, in the hands of one thread inside   *)
(* the pool, or outside it, and in one of these only.                      *)
THEOREM EachObjectInOnePlace == PoolSpec => []InOnePlace
<1>1. PoolInit => PoolInv
  BY PoolInitInv
<1>2. PoolInv /\ [PoolNext]_poolVars => PoolInv'
  <2>1. CASE PoolNext /\ ~Ended
    BY <2>1, PoolStepInv DEF PoolNext
  <2>2. CASE UNCHANGED poolVars
    BY <2>2 DEF poolVars, PoolInv, PoolTypeOK, Exclusive, HandFull, AtPop, FreeDistinct,
                HandsApart, Somewhere, NotTwice, Objects, InLock, Holds, Free, Held
  <2> QED BY <2>1, <2>2 DEF Ended
<1>3. PoolInv => InOnePlace
  BY InvInOnePlace
<1>4. QED
  BY <1>1, <1>2, <1>3, PTL DEF PoolSpec
============================================================================
