------------------------ MODULE TcpServer_proofs ------------------------
(***************************************************************************)
(* The order gateway, for any set of clients, any capacity of the ring and *)
(* any number of starts: what an ACK means, and what is delivered, as long *)
(* as the pushes of two client threads have not overlapped and afterwards. *)
(***************************************************************************)
EXTENDS TcpServer, SequenceTheorems, TLAPS

Label == {"away", "backlog", "unserved", "loop", "recv", "push", "check", "retry",
          "write", "store", "ack", "closed"}
Segment == [kind : {"order", "junk"}, n : Nat]
Order == [client : Client, segment : Nat, id : Nat]
Item == Order \union {NoOrder}

ThreadTypeOK ==
    /\ running \in BOOLEAN /\ stopped \in BOOLEAN
    /\ listener \in {"none", "startup", "check", "accept", "exited"}
    /\ main \in {"idle", "poll", "stop"}
    /\ starts \in Nat
    /\ pc \in [Client -> Label]
    /\ wire \in [Client -> Seq(Segment)]
    /\ sent \in [Client -> Nat]
    /\ order_id_counter \in [Client -> Nat]
    /\ order \in [Client -> Item]

RingTypeOK ==
    /\ slot \in [Client -> Slot]
    /\ buffer \in [Slot -> Item]
    /\ tail \in Slot /\ head \in Slot
    /\ clean \in Seq(Item) /\ submitted \in Seq(Item)
    /\ overlapped \in BOOLEAN

(* Nobody is served before the first start. *)
Unserved ==
    \/ stopped \/ running
    \/ listener = "none" /\ \A c \in Client : pc[c] = "away"

(* A thread about to send an ACK has pushed its order. *)
AckComes ==
    ~stopped => \A c \in Client : pc[c] = "ack" => order[c] \in pushed

Owns(c) == pc[c] \in {"write", "store"}   \* push has found room for c

(* Until two pushes overlap there is one producer: it uses the slot at     *)
(* tail, there is room, and what it has written is there when it stores.   *)
OneProducer ==
    ~overlapped =>
        /\ \A c, d \in Client : Pushing(c) /\ Pushing(d) => c = d
        /\ \A c \in Client : Pushing(c) => slot[c] = tail
        /\ \A c \in Client : Owns(c) => NextSlot(tail) # head
        /\ \A c \in Client : pc[c] = "store" => buffer[tail] = order[c]

(* How far slot i is ahead of slot h. *)
Ahead(i, h) == (i - h) % capacity

(* As long as some of the orders pushed before the first overlap have not  *)
(* been popped, neither tail nor any slot a thread has loaded is among     *)
(* them, and no tail a thread is about to store empties the ring.          *)
Unpopped == Len(clean) - Len(submitted)

Kept ==
    Unpopped > 0 =>
        /\ Unpopped <= Ahead(tail, head)
        /\ \A c \in Client : Pushing(c) => Unpopped <= Ahead(slot[c], head)
        /\ \A c \in Client : Owns(c) => NextSlot(slot[c]) # head

(* The inductive invariant. *)
AckInv == Unserved /\ AckComes /\ AckMeansPushed
RingInv == OneProducer /\ Kept /\ DeliveredInOrder
TcpInv == ThreadTypeOK /\ RingTypeOK /\ AckInv /\ RingInv

----------------------------------------------------------------------------
(* The ring, as a function of its buffer and its two indexes. *)

Between(b, h, t) == [k \in 1..((t - h) % capacity) |-> b[(h + k - 1) % capacity]]

LEMMA NextSlotValue ==
    ASSUME NEW i \in Slot
    PROVE  /\ NextSlot(i) = IF i = capacity - 1 THEN 0 ELSE i + 1
           /\ NextSlot(i) \in Slot
  BY CapacityAssumption DEF NextSlot, Slot

(* How many items there are. *)
LEMMA FilledSlots ==
    ASSUME NEW h \in Slot, NEW t \in Slot
    PROVE  /\ (t - h) % capacity = IF h <= t THEN t - h ELSE t - h + capacity
           /\ (t - h) % capacity \in 0..(capacity - 1)
  BY CapacityAssumption DEF Slot

(* The slot of the k-th. *)
LEMMA SlotOf ==
    ASSUME NEW h \in Slot, NEW k \in Nat, k >= 1, k <= capacity
    PROVE  /\ (h + k - 1) % capacity = IF h + k - 1 < capacity
                                       THEN h + k - 1 ELSE h + k - 1 - capacity
           /\ (h + k - 1) % capacity \in Slot
  BY CapacityAssumption DEF Slot

LEMMA BetweenSeq ==
    ASSUME NEW V, NEW b \in [Slot -> V], NEW h \in Slot, NEW t \in Slot
    PROVE  /\ Between(b, h, t) \in Seq(V)
           /\ Len(Between(b, h, t)) = (t - h) % capacity
           /\ \A k \in 1..((t - h) % capacity) :
                 Between(b, h, t)[k] = b[(h + k - 1) % capacity]
<1> DEFINE n == (t - h) % capacity
<1>1. n \in Nat /\ n < capacity /\ capacity \in Nat
  BY FilledSlots, CapacityAssumption
<1>2. \A k \in 1..n : b[(h + k - 1) % capacity] \in V
  <2> HIDE DEF n
  <2> TAKE k \in 1..n
  <2>1. k \in Nat /\ k >= 1 /\ k <= capacity
    BY <1>1
  <2> QED BY <2>1, SlotOf
<1> HIDE DEF n
<1>3. [k \in 1..n |-> b[(h + k - 1) % capacity]] \in Seq(V)
  BY <1>1, <1>2
<1>4. Between(b, h, t) = [k \in 1..n |-> b[(h + k - 1) % capacity]]
  BY DEF Between, n
<1>5. QED
  <2>1. DOMAIN Between(b, h, t) = 1..n
    BY <1>4
  <2>2. Len(Between(b, h, t)) = n
    BY <1>1, <1>3, <1>4, <2>1
  <2>3. \A k \in 1..n : Between(b, h, t)[k] = b[(h + k - 1) % capacity]
    BY <1>4
  <2> QED BY <1>3, <1>4, <2>2, <2>3 DEF n

(* Writing the slot at tail changes nothing that is in the ring. *)
LEMMA WriteAtTail ==
    ASSUME NEW V, NEW b \in [Slot -> V], NEW h \in Slot, NEW t \in Slot, NEW x
    PROVE  Between([b EXCEPT ![t] = x], h, t) = Between(b, h, t)
<1> DEFINE n == (t - h) % capacity
           e == [b EXCEPT ![t] = x]
<1>1. /\ n = IF h <= t THEN t - h ELSE t - h + capacity
      /\ n \in Nat /\ n < capacity /\ capacity \in Nat
      /\ h \in Nat /\ t \in Nat /\ h < capacity /\ t < capacity
  BY FilledSlots, CapacityAssumption DEF Slot
<1> HIDE DEF n
<1>2. ASSUME NEW k \in 1..n
      PROVE  e[(h + k - 1) % capacity] = b[(h + k - 1) % capacity]
  <2> DEFINE i == (h + k - 1) % capacity
  <2>1. k \in Nat /\ k >= 1 /\ k <= n /\ k <= capacity
    BY <1>1
  <2>2. i = (IF h + k - 1 < capacity THEN h + k - 1 ELSE h + k - 1 - capacity) /\ i \in Slot
    BY <2>1, SlotOf
  <2> HIDE DEF i
  <2>3. i # t
    BY <1>1, <2>1, <2>2
  <2> QED BY <2>2, <2>3 DEF i
<1> HIDE DEF e
<1>3. [k \in 1..n |-> e[(h + k - 1) % capacity]] = [k \in 1..n |-> b[(h + k - 1) % capacity]]
  BY <1>2
<1>4. QED
  BY <1>3 DEF Between, n, e

(* Moving tail on appends what is in its slot. *)
LEMMA AdvanceTail ==
    ASSUME NEW V, NEW b \in [Slot -> V], NEW h \in Slot, NEW t \in Slot, NextSlot(t) # h
    PROVE  Between(b, h, NextSlot(t)) = Append(Between(b, h, t), b[t])
<1> DEFINE n == (t - h) % capacity
           u == NextSlot(t)
           m == (u - h) % capacity
           c == Between(b, h, t)
           d == Between(b, h, u)
<1>1. /\ n = IF h <= t THEN t - h ELSE t - h + capacity
      /\ n \in Nat /\ n < capacity /\ capacity \in Nat
      /\ h \in Nat /\ t \in Nat /\ h < capacity /\ t < capacity
  BY FilledSlots, CapacityAssumption DEF Slot
<1>2. u = (IF t = capacity - 1 THEN 0 ELSE t + 1) /\ u \in Slot
  BY NextSlotValue
<1>2a. u # h
  OBVIOUS
<1> HIDE DEF u
<1>2b. m = IF h <= u THEN u - h ELSE u - h + capacity
  BY <1>2, FilledSlots
<1>3. /\ c \in Seq(V) /\ Len(c) = n
      /\ \A k \in 1..n : c[k] = b[(h + k - 1) % capacity]
  BY BetweenSeq, ZenonT(60)
<1>4. /\ d \in Seq(V) /\ Len(d) = m
      /\ \A k \in 1..m : d[k] = b[(h + k - 1) % capacity]
  <2>1. u \in Slot
    BY <1>2
  <2> QED BY <2>1, BetweenSeq, ZenonT(60)
<1> HIDE DEF n, m, c, d
<1>5. m = n + 1
  BY <1>1, <1>2, <1>2a, <1>2b
<1>6. (h + (n + 1) - 1) % capacity = t
  <2>1. /\ (h + (n + 1) - 1) % capacity = IF h + (n + 1) - 1 < capacity
                                          THEN h + (n + 1) - 1 ELSE h + (n + 1) - 1 - capacity
    BY <1>1, SlotOf
  <2> QED BY <1>1, <2>1, SMTT(30)
<1>7. b[t] \in V
  OBVIOUS
<1>8. /\ Append(c, b[t]) \in Seq(V) /\ Len(Append(c, b[t])) = n + 1
      /\ \A k \in 1..n : Append(c, b[t])[k] = c[k]
      /\ Append(c, b[t])[n + 1] = b[t]
  BY <1>3, <1>7, AppendProperties
<1>9. \A k \in 1..(n + 1) : d[k] = Append(c, b[t])[k]
  <2> TAKE k \in 1..(n + 1)
  <2>1. CASE k = n + 1
    BY <1>1, <1>4, <1>5, <1>6, <1>8, <2>1, SMTT(30)
  <2>2. CASE k \in 1..n
    BY <1>3, <1>4, <1>5, <1>8, <2>2
  <2>3. k = n + 1 \/ k \in 1..n
    BY <1>1
  <2> QED BY <2>1, <2>2, <2>3
<1>10. d = Append(c, b[t])
  BY <1>4, <1>5, <1>8, <1>9, SeqEqual
<1>11. QED
  BY <1>10 DEF c, d, u

(* Moving head on takes the first away: what has been popped and what is   *)
(* in the ring is the same as before.                                      *)
LEMMA AdvanceHead ==
    ASSUME NEW V, NEW b \in [Slot -> V], NEW h \in Slot, NEW t \in Slot, h # t,
           NEW s \in Seq(V)
    PROVE  Append(s, b[h]) \o Between(b, NextSlot(h), t) = s \o Between(b, h, t)
<1> DEFINE n == (t - h) % capacity
           g == NextSlot(h)
           m == (t - g) % capacity
           c == Between(b, h, t)
           d == Between(b, g, t)
           l == Len(s)
<1>1. /\ n = IF h <= t THEN t - h ELSE t - h + capacity
      /\ n \in Nat /\ n < capacity /\ capacity \in Nat
      /\ h \in Nat /\ t \in Nat /\ h < capacity /\ t < capacity
  BY FilledSlots, CapacityAssumption DEF Slot
<1>2. /\ g = IF h = capacity - 1 THEN 0 ELSE h + 1
      /\ g \in Slot
  BY NextSlotValue
<1> HIDE DEF g
<1>2a. m = IF g <= t THEN t - g ELSE t - g + capacity
  BY <1>2, FilledSlots
<1>3. /\ c \in Seq(V) /\ Len(c) = n
      /\ \A k \in 1..n : c[k] = b[(h + k - 1) % capacity]
  BY BetweenSeq, ZenonT(60)
<1>4. /\ d \in Seq(V) /\ Len(d) = m
      /\ \A k \in 1..m : d[k] = b[(g + k - 1) % capacity]
  <2>1. g \in Slot
    BY <1>2
  <2> QED BY <2>1, BetweenSeq, ZenonT(60)
<1>4a. l \in Nat
  BY LenProperties
<1> HIDE DEF n, m, c, d, l
<1>5. m = n - 1 /\ n >= 1
  BY <1>1, <1>2, <1>2a, SMTT(30)
<1>6. c[1] = b[h]
  <2>1. (h + 1 - 1) % capacity = h
    BY <1>1, CapacityAssumption
  <2>2. 1 \in 1..n
    BY <1>1, <1>5
  <2> QED BY <1>3, <2>1, <2>2
<1>7. ASSUME NEW k \in 1..m PROVE d[k] = c[k + 1]
  <2>1. k \in Nat /\ k >= 1 /\ k + 1 <= n /\ k + 1 \in 1..n
    BY <1>1, <1>5
  <2>2. /\ (g + k - 1) % capacity = IF g + k - 1 < capacity
                                    THEN g + k - 1 ELSE g + k - 1 - capacity
        /\ (h + (k + 1) - 1) % capacity = IF h + (k + 1) - 1 < capacity
                                    THEN h + (k + 1) - 1 ELSE h + (k + 1) - 1 - capacity
    BY <1>1, <1>2, <2>1, SlotOf, SMTT(30)
  <2>3. (g + k - 1) % capacity = (h + (k + 1) - 1) % capacity
    BY <1>1, <1>2, <2>1, <2>2
  <2> QED BY <1>3, <1>4, <2>1, <2>3
<1> DEFINE a == Append(s, b[h])
<1>8. /\ a \in Seq(V) /\ Len(a) = l + 1
      /\ \A k \in 1..l : a[k] = s[k]
      /\ a[l + 1] = b[h]
  <2>1. b[h] \in V
    OBVIOUS
  <2> QED BY <2>1, AppendProperties DEF l
<1> HIDE DEF a
<1>9. /\ a \o d \in Seq(V) /\ Len(a \o d) = l + 1 + m
      /\ \A i \in 1..(l + 1 + m) : (a \o d)[i] = IF i <= l + 1 THEN a[i] ELSE d[i - (l + 1)]
  <2>1. /\ a \o d \in Seq(V) /\ Len(a \o d) = Len(a) + Len(d)
        /\ \A i \in 1..(Len(a) + Len(d)) :
              (a \o d)[i] = IF i <= Len(a) THEN a[i] ELSE d[i - Len(a)]
    BY <1>4, <1>8, ConcatProperties
  <2>2. Len(a) = l + 1 /\ Len(d) = m
    BY <1>4, <1>8
  <2> QED BY <2>1, <2>2
<1>10. /\ s \o c \in Seq(V) /\ Len(s \o c) = l + n
       /\ \A i \in 1..(l + n) : (s \o c)[i] = IF i <= l THEN s[i] ELSE c[i - l]
  BY <1>3, ConcatProperties DEF l
<1>11. ASSUME NEW i \in 1..(l + n) PROVE (a \o d)[i] = (s \o c)[i]
  <2>0. i \in Nat /\ i >= 1 /\ i <= l + n /\ i \in 1..(l + 1 + m)
    BY <1>1, <1>4a, <1>5
  <2>1. CASE i <= l
    BY <1>4a, <1>8, <1>9, <1>10, <2>0, <2>1
  <2>2. CASE i = l + 1
    BY <1>4a, <1>6, <1>8, <1>9, <1>10, <2>0, <2>2
  <2>3. CASE i > l + 1
    <3>1. i - (l + 1) \in 1..m /\ (i - (l + 1)) + 1 = i - l
      BY <1>1, <1>4a, <1>5, <2>0, <2>3
    <3>2. (a \o d)[i] = d[i - (l + 1)] /\ (s \o c)[i] = c[i - l]
      BY <1>4a, <1>9, <1>10, <2>0, <2>3
    <3> QED BY <1>7, <3>1, <3>2
  <2>4. i <= l \/ i = l + 1 \/ i > l + 1
    BY <1>4a, <2>0
  <2> QED BY <2>1, <2>2, <2>3, <2>4
<1>12. l + 1 + m = l + n
  BY <1>1, <1>4a, <1>5
<1>13. a \o d = s \o c
  BY <1>9, <1>10, <1>11, <1>12, SeqEqual
<1>14. QED
  BY <1>13 DEF a, c, d, g

(* The same for an order stored in the ring. *)
LEMMA AppendLast ==
    ASSUME NEW V, NEW s \in Seq(V), NEW c \in Seq(V), NEW x \in V
    PROVE  s \o Append(c, x) = Append(s \o c, x)
<1>1. Append(c, x) = c \o <<x>> /\ <<x>> \in Seq(V)
  BY AppendIsConcat
<1>2. s \o c \in Seq(V)
  BY ConcatProperties
<1>3. Append(s \o c, x) = (s \o c) \o <<x>>
  BY <1>2, AppendIsConcat
<1>4. QED
  BY <1>1, <1>3, ConcatAssociative

(* A prefix, index by index. *)
LEMMA PrefixByIndex ==
    ASSUME NEW V, NEW p \in Seq(V), NEW t \in Seq(V)
    PROVE  IsPrefix(p, t) <=> Len(p) <= Len(t) /\ \A i \in 1..Len(p) : p[i] = t[i]
<1> DEFINE n == Len(p)
           q == SubSeq(t, 1, n)
<1>1. n \in Nat /\ Len(t) \in Nat
  BY LenProperties
<1>2. SubSeq(p, 1, n) = p
  <2>1. \A i \in 1..n : p[i] \in V
    BY ElementOfSeq
  <2>2. /\ SubSeq(p, 1, n) \in Seq(V) /\ Len(SubSeq(p, 1, n)) = n
        /\ \A i \in 1..n : SubSeq(p, 1, n)[i] = p[i]
    BY <1>1, <2>1
  <2> HIDE DEF n
  <2> QED BY <1>1, <2>2, SeqEqual DEF n
<1>3. CASE n <= Len(t)
  <2>1. \A i \in 1..n : t[i] \in V
    BY <1>1, <1>3, ElementOfSeq
  <2>2. /\ q \in Seq(V) /\ Len(q) = n
        /\ \A i \in 1..n : q[i] = t[i]
    <3> HIDE DEF n
    <3> QED BY <1>1, <1>3, <2>1
  <2> HIDE DEF q
  <2>3. p = q <=> \A i \in 1..n : p[i] = t[i]
    <3>1. ASSUME \A i \in 1..n : p[i] = t[i] PROVE p = q
      BY <1>1, <2>2, <3>1, SeqEqual
    <3> QED BY <2>2, <3>1
  <2> QED BY <1>2, <1>3, <2>3 DEF IsPrefix, q
<1>4. CASE ~(n <= Len(t))
  BY <1>4 DEF IsPrefix
<1> QED BY <1>3, <1>4

(* What follows s may change beyond the prefix. *)
LEMMA PrefixKept ==
    ASSUME NEW V, NEW p \in Seq(V), NEW s \in Seq(V), NEW c \in Seq(V), NEW d \in Seq(V),
           IsPrefix(p, s \o c),
           Len(p) - Len(s) <= Len(d),
           \A k \in 1..(Len(p) - Len(s)) : d[k] = c[k]
    PROVE  IsPrefix(p, s \o d)
<1> DEFINE n == Len(p)
           l == Len(s)
<1>1. n \in Nat /\ l \in Nat /\ Len(c) \in Nat /\ Len(d) \in Nat
  BY LenProperties
<1>2. /\ s \o c \in Seq(V) /\ Len(s \o c) = l + Len(c)
      /\ \A i \in 1..(l + Len(c)) : (s \o c)[i] = IF i <= l THEN s[i] ELSE c[i - l]
  BY ConcatProperties
<1>3. /\ s \o d \in Seq(V) /\ Len(s \o d) = l + Len(d)
      /\ \A i \in 1..(l + Len(d)) : (s \o d)[i] = IF i <= l THEN s[i] ELSE d[i - l]
  BY ConcatProperties
<1>4. n <= l + Len(c) /\ \A i \in 1..n : p[i] = (s \o c)[i]
  <2> DEFINE t == s \o c
  <2>1. t \in Seq(V) /\ Len(t) = l + Len(c) /\ IsPrefix(p, t)
    BY <1>2
  <2> HIDE DEF t
  <2>2. Len(p) <= Len(t) /\ \A i \in 1..Len(p) : p[i] = t[i]
    BY <2>1, PrefixByIndex
  <2> QED BY <2>1, <2>2 DEF t
<1>5. n - l <= Len(d) /\ \A k \in 1..(n - l) : d[k] = c[k]
  OBVIOUS
<1> HIDE DEF n, l
<1>6. ASSUME NEW i \in 1..n PROVE p[i] = (s \o d)[i]
  <2>1. /\ i \in Nat /\ i \in 1..(l + Len(c)) /\ i \in 1..(l + Len(d))
        /\ i > l => i - l \in 1..(n - l)
    BY <1>1, <1>4, <1>5
  <2>2. p[i] = IF i <= l THEN s[i] ELSE c[i - l]
    BY <1>2, <1>4, <2>1
  <2>3. (s \o d)[i] = IF i <= l THEN s[i] ELSE d[i - l]
    BY <1>3, <2>1
  <2> QED BY <1>1, <1>5, <2>1, <2>2, <2>3
<1>7. n <= Len(s \o d)
  BY <1>1, <1>3, <1>5
<1> QED BY <1>3, <1>6, <1>7, PrefixByIndex DEF n

(* Going round the ring. *)
LEMMA AheadOf ==
    ASSUME NEW i \in Slot, NEW h \in Slot
    PROVE  /\ Ahead(i, h) \in 0..(capacity - 1)
           /\ Ahead(i, h) = 0 <=> i = h
           /\ NextSlot(i) # h => Ahead(NextSlot(i), h) = Ahead(i, h) + 1
           /\ i # h => Ahead(i, NextSlot(h)) = Ahead(i, h) - 1
<1>1. /\ capacity \in Nat /\ i \in Nat /\ h \in Nat /\ i < capacity /\ h < capacity
      /\ capacity > 1
  BY CapacityAssumption DEF Slot
<1> DEFINE j == NextSlot(i)
           g == NextSlot(h)
<1>2. /\ j = (IF i = capacity - 1 THEN 0 ELSE i + 1) /\ j \in Slot
      /\ g = (IF h = capacity - 1 THEN 0 ELSE h + 1) /\ g \in Slot
  BY NextSlotValue
<1> HIDE DEF j, g
<1>3. /\ Ahead(i, h) = IF h <= i THEN i - h ELSE i - h + capacity
      /\ Ahead(j, h) = IF h <= j THEN j - h ELSE j - h + capacity
      /\ Ahead(i, g) = IF g <= i THEN i - g ELSE i - g + capacity
  BY <1>2, FilledSlots DEF Ahead
<1>4. /\ Ahead(i, h) \in 0..(capacity - 1)
      /\ Ahead(i, h) = 0 <=> i = h
  BY <1>1, <1>3
<1>5. j # h => Ahead(j, h) = Ahead(i, h) + 1
  BY <1>1, <1>2, <1>3, SMTT(30)
<1>6. i # h => Ahead(i, g) = Ahead(i, h) - 1
  BY <1>1, <1>2, <1>3, SMTT(30)
<1> QED BY <1>4, <1>5, <1>6 DEF j, g

(* The slots of the n oldest come before one that is n ahead. *)
LEMMA SlotBehind ==
    ASSUME NEW h \in Slot, NEW i \in Slot, NEW n \in Nat, n <= Ahead(i, h), NEW k \in 1..n
    PROVE  (h + k - 1) % capacity \in Slot /\ (h + k - 1) % capacity # i
<1> DEFINE q == (h + k - 1) % capacity
<1>1. /\ Ahead(i, h) = IF h <= i THEN i - h ELSE i - h + capacity
      /\ capacity \in Nat
      /\ h \in Nat /\ i \in Nat /\ h < capacity /\ i < capacity
  BY FilledSlots, CapacityAssumption DEF Slot, Ahead
<1>2. k \in Nat /\ k >= 1 /\ k <= n /\ k <= capacity
  BY <1>1
<1>3. q = (IF h + k - 1 < capacity THEN h + k - 1 ELSE h + k - 1 - capacity) /\ q \in Slot
  BY <1>2, SlotOf
<1> HIDE DEF q
<1>4. q # i
  BY <1>1, <1>2, <1>3
<1> QED BY <1>3, <1>4 DEF q

----------------------------------------------------------------------------
(* Types. *)

LEMMA TcpTypeInit ==
    TcpInit => ThreadTypeOK /\ RingTypeOK
<1> SUFFICES ASSUME TcpInit PROVE ThreadTypeOK /\ RingTypeOK
  OBVIOUS
<1>1. 0 \in Slot
  BY CapacityAssumption DEF Slot
<1>2. /\ running = FALSE /\ listener = "none" /\ main = "idle" /\ starts = 0
      /\ pc = [c \in Client |-> "away"] /\ wire = [c \in Client |-> <<>>]
      /\ sent = [c \in Client |-> 0] /\ order = [c \in Client |-> NoOrder]
      /\ stopped = FALSE
  BY SMT DEF TcpInit
<1>3. order_id_counter \in [Client -> Nat]
  BY SMT DEF TcpInit
<1>4. /\ slot = [c \in Client |-> 0]
      /\ buffer = [i \in Slot |-> NoOrder] /\ tail = 0 /\ head = 0
      /\ clean = <<>> /\ submitted = <<>> /\ overlapped = FALSE
  BY SMT DEF TcpInit
<1>5. ThreadTypeOK
  <2>1. wire \in [Client -> Seq(Segment)]
    BY <1>2, EmptySeq
  <2>2. pc \in [Client -> Label] /\ sent \in [Client -> Nat] /\ order \in [Client -> Item]
    BY <1>2 DEF Label, Item
  <2> QED BY <1>2, <1>3, <2>1, <2>2 DEF ThreadTypeOK
<1>6. RingTypeOK
  BY <1>1, <1>4 DEF RingTypeOK, Item
<1> QED BY <1>5, <1>6

LEMMA ThreadTypeStep ==
    ThreadTypeOK /\ [TcpNext]_tcpVars => ThreadTypeOK'
<1> SUFFICES ASSUME ThreadTypeOK, [TcpNext]_tcpVars PROVE ThreadTypeOK'
  OBVIOUS
<1> USE DEF ThreadTypeOK, control, threads, ring, history, Goto, Label
<1>1. CASE Start
  BY <1>1 DEF Start
<1>2. CASE Stop
  BY <1>2 DEF Stop
<1>3. CASE StopReturn
  BY <1>3 DEF StopReturn
<1>4. CASE Poll
  BY <1>4 DEF Poll
<1>5. CASE Startup \/ CheckRunning \/ AcceptNone
  BY <1>5 DEF Startup, CheckRunning, AcceptNone, Listen
<1>6. ASSUME NEW c \in Client, Accept(c) PROVE ThreadTypeOK'
  BY <1>6 DEF Accept, Listen
<1>7. ASSUME NEW c \in Client, Connect(c) PROVE ThreadTypeOK'
  BY <1>7 DEF Connect
<1>8. ASSUME NEW c \in Client, NEW kind \in {"order", "junk"}, Send(c, kind)
      PROVE  ThreadTypeOK'
  <2> DEFINE q == wire[c]
             m == [kind |-> kind, n |-> sent[c] + 1]
  <2>1. q \in Seq(Segment) /\ m \in Segment
    BY DEF Segment
  <2>2. Append(q, m) \in Seq(Segment)
    <3> HIDE DEF q, m
    <3> QED BY <2>1, AppendProperties
  <2>3. wire' = [wire EXCEPT ![c] = Append(q, m)]
    BY <1>8 DEF Send
  <2> HIDE DEF q, m
  <2>4. wire' \in [Client -> Seq(Segment)]
    BY <2>2, <2>3
  <2> QED BY <1>8, <2>4 DEF Send
<1>9. ASSUME NEW c \in Client, ClientLoop(c) \/ RecvFails(c) PROVE ThreadTypeOK'
  BY <1>9 DEF ClientLoop, RecvFails
<1>10. ASSUME NEW c \in Client, NEW k, Recv(c, k) PROVE ThreadTypeOK'
  <2> DEFINE q == wire[c]
             r == SubSeq(q, k + 1, Len(q))
  <2>1. q \in Seq(Segment) /\ Len(q) \in Nat /\ k \in 1..Len(q)
    BY <1>10, LenProperties DEF Recv
  <2>2. r \in Seq(Segment)
    <3> HIDE DEF q
    <3>1. \A i \in (k + 1)..Len(q) : q[i] \in Segment
      BY <2>1, ElementOfSeq
    <3> QED BY <2>1, <3>1, SubSeqProperties
  <2>3. Head(q) \in Segment
    <3> HIDE DEF q
    <3>1. 1 \in 1..Len(q) /\ Head(q) = q[1]
      BY <2>1
    <3> QED BY <2>1, <3>1, ElementOfSeq
  <2>4. wire' = [wire EXCEPT ![c] = r]
    BY <1>10 DEF Recv
  <2>5. wire' \in [Client -> Seq(Segment)]
    <3> HIDE DEF r
    <3> QED BY <2>2, <2>4
  <2>6. CASE Head(q).kind = "order"
    <3> DEFINE o == OrderOf(c, Head(q).n, order_id_counter[c] + 1)
    <3>1. o \in Item
      BY <2>3 DEF Segment, OrderOf, Item, Order
    <3>2. order' = [order EXCEPT ![c] = o]
      BY <1>10, <2>6 DEF Recv
    <3>3. order' \in [Client -> Item]
      <4> HIDE DEF o
      <4> QED BY <3>1, <3>2
    <3>4. /\ order_id_counter' = [order_id_counter EXCEPT ![c] = @ + 1]
          /\ pc' = [pc EXCEPT ![c] = "push"]
      BY <1>10, <2>6 DEF Recv
    <3>5. order_id_counter' \in [Client -> Nat]
      BY <3>4
    <3>6. pc' \in [Client -> Label]
      BY <3>4
    <3> QED BY <1>10, <2>5, <3>3, <3>5, <3>6 DEF Recv
  <2>7. CASE Head(q).kind # "order"
    <3>1. UNCHANGED <<order, order_id_counter>> /\ pc' \in [Client -> Label]
      BY <1>10, <2>7 DEF Recv
    <3> QED BY <1>10, <2>5, <3>1 DEF Recv
  <2> QED BY <2>6, <2>7
<1>11. ASSUME NEW c \in Client, PushLoad(c) \/ PushRoom(c) \/ PushFull(c) \/ Retry(c)
       PROVE  ThreadTypeOK'
  BY <1>11 DEF PushLoad, PushRoom, PushFull, Retry
<1>12. ASSUME NEW c \in Client, PushWrite(c) \/ PushStore(c) PROVE ThreadTypeOK'
  BY <1>12 DEF PushWrite, PushStore
<1>13. ASSUME NEW c \in Client, SendAck(c) PROVE ThreadTypeOK'
  BY <1>13 DEF SendAck, Item
<1>14. CASE UNCHANGED tcpVars
  BY <1>14 DEF tcpVars
<1>15. QED
  BY <1>1, <1>2, <1>3, <1>4, <1>5, <1>6, <1>7, <1>8, <1>9, <1>10, <1>11, <1>12,
     <1>13, <1>14 DEF TcpNext, ListenerStep, ClientStep, PushStep

LEMMA RingTypeStep ==
    ThreadTypeOK /\ RingTypeOK /\ [TcpNext]_tcpVars => RingTypeOK'
<1> SUFFICES ASSUME ThreadTypeOK, RingTypeOK, [TcpNext]_tcpVars PROVE RingTypeOK'
  OBVIOUS
<1> DEFINE Same == UNCHANGED <<slot, buffer, tail, head, clean, submitted, overlapped>>
<1>0. Same => RingTypeOK'
  BY DEF RingTypeOK
<1> HIDE DEF Same
<1>1. CASE Start \/ Stop \/ StopReturn
  <2>1. Same
    BY <1>1 DEF Same, Start, Stop, StopReturn, threads, ring, history
  <2> QED BY <1>0, <2>1
<1>2. CASE Poll
  <2>1. /\ NextSlot(head) \in Slot /\ buffer[head] \in Item
    BY NextSlotValue DEF RingTypeOK
  <2>2. Append(submitted, buffer[head]) \in Seq(Item)
    BY <2>1, AppendProperties DEF RingTypeOK
  <2> QED BY <1>2, <2>1, <2>2 DEF Poll, RingTypeOK, threads
<1>3. CASE Startup \/ CheckRunning \/ AcceptNone
  <2>1. Same
    BY <1>3 DEF Same, Startup, CheckRunning, AcceptNone, Listen, threads, ring, history
  <2> QED BY <1>0, <2>1
<1>4. ASSUME NEW c \in Client, Accept(c) \/ Connect(c) PROVE RingTypeOK'
  <2>1. Same
    BY <1>4 DEF Same, Accept, Connect, Listen, ring, history
  <2> QED BY <1>0, <2>1
<1>5. ASSUME NEW c \in Client, NEW kind, Send(c, kind) PROVE RingTypeOK'
  <2>1. Same
    BY <1>5 DEF Same, Send, ring, history
  <2> QED BY <1>0, <2>1
<1>6. ASSUME NEW c \in Client, NEW k, ClientLoop(c) \/ RecvFails(c) \/ Recv(c, k)
      PROVE  RingTypeOK'
  <2>1. Same
    BY <1>6 DEF Same, ClientLoop, RecvFails, Recv, ring, history
  <2> QED BY <1>0, <2>1
<1>7. ASSUME NEW c \in Client, PushRoom(c) \/ PushFull(c) \/ Retry(c) \/ SendAck(c)
      PROVE  RingTypeOK'
  <2>1. Same
    BY <1>7 DEF Same, PushRoom, PushFull, Retry, SendAck, ring, history
  <2> QED BY <1>0, <2>1
<1>8. ASSUME NEW c \in Client, PushLoad(c) PROVE RingTypeOK'
  <2>1. (overlapped \/ \E d \in Client : Pushing(d)) \in BOOLEAN
    OBVIOUS
  <2> QED BY <1>8, <2>1 DEF PushLoad, RingTypeOK, ring
<1>9. ASSUME NEW c \in Client, PushWrite(c) PROVE RingTypeOK'
  BY <1>9 DEF PushWrite, RingTypeOK, ThreadTypeOK, history
<1>10. ASSUME NEW c \in Client, PushStore(c) PROVE RingTypeOK'
  <2>1. NextSlot(slot[c]) \in Slot
    BY NextSlotValue DEF RingTypeOK
  <2>2. (IF overlapped THEN clean ELSE Append(clean, order[c])) \in Seq(Item)
    BY AppendProperties DEF RingTypeOK, ThreadTypeOK
  <2> QED BY <1>10, <2>1, <2>2 DEF PushStore, RingTypeOK
<1>11. CASE UNCHANGED tcpVars
  <2>1. Same
    BY <1>11 DEF Same, tcpVars, control, threads, ring, history
  <2> QED BY <1>0, <2>1
<1>12. QED
  BY <1>1, <1>2, <1>3, <1>4, <1>5, <1>6, <1>7, <1>8, <1>9, <1>10, <1>11
     DEF TcpNext, ListenerStep, ClientStep, PushStep

----------------------------------------------------------------------------
(* ACKs. *)

(* A step after which no thread is newly about to send an ACK, in a server *)
(* that runs or has run, or that has done nothing yet.                     *)
NoNewAck ==
    /\ UNCHANGED <<pushed, acked>>
    /\ stopped => stopped'
    /\ \A d \in Client : pc'[d] = "ack" => pc[d] = "ack" /\ order'[d] = order[d]
    /\ \/ stopped' \/ running'
       \/ UNCHANGED <<stopped, running, listener, pc>>

LEMMA NoNewAckStep ==
    ASSUME ThreadTypeOK, RingTypeOK, AckInv, NoNewAck, RingTypeOK'
    PROVE  AckInv'
<1>1. Unserved'
  BY DEF AckInv, Unserved, NoNewAck
<1>2. AckComes'
  BY DEF AckInv, AckComes, NoNewAck
<1>3. AckMeansPushed'
  BY DEF AckInv, AckMeansPushed, NoNewAck
<1> QED BY <1>1, <1>2, <1>3 DEF AckInv

(* Thread c moves on, and not to the ACK. *)
LEMMA MovesOn ==
    ASSUME ThreadTypeOK, AckInv, NEW c \in Client, NEW l \in Label \ {"ack"},
           Goto(c, l), pc[c] # "away",
           UNCHANGED <<pushed, acked, running, stopped>>,
           \A d \in Client : d # c => order'[d] = order[d]
    PROVE  NoNewAck
<1>1. \A d \in Client : pc'[d] = IF d = c THEN l ELSE pc[d]
  BY DEF ThreadTypeOK, Goto
<1>2. stopped \/ running
  BY DEF AckInv, Unserved
<1> QED BY <1>1, <1>2 DEF NoNewAck

LEMMA AckStep ==
    ThreadTypeOK /\ RingTypeOK /\ AckInv /\ [TcpNext]_tcpVars => AckInv'
<1> SUFFICES ASSUME ThreadTypeOK, RingTypeOK, AckInv, [TcpNext]_tcpVars PROVE AckInv'
  OBVIOUS
<1>0. RingTypeOK'
  BY RingTypeStep
<1>a. NoNewAck => AckInv'
  BY <1>0, NoNewAckStep
<1>1. CASE Start \/ Stop \/ StopReturn \/ Poll
  <2>1. UNCHANGED <<pushed, acked, pc, order>> /\ (stopped => stopped')
    BY <1>1 DEF Start, Stop, StopReturn, Poll, control, threads, history
  <2>2. \/ stopped' \/ running'
        \/ UNCHANGED <<stopped, running, listener, pc>>
    BY <1>1 DEF Start, Stop, StopReturn, Poll, control, threads, AckInv, Unserved
  <2> QED BY <1>a, <2>1, <2>2 DEF NoNewAck
<1>2. CASE Startup \/ CheckRunning \/ AcceptNone
  <2>1. UNCHANGED <<pushed, acked, pc, order, running, stopped>> /\ listener # "none"
    BY <1>2 DEF Startup, CheckRunning, AcceptNone, Listen, threads, history
  <2>2. stopped \/ running
    BY <2>1 DEF AckInv, Unserved
  <2> QED BY <1>a, <2>1, <2>2 DEF NoNewAck
<1>3. ASSUME NEW c \in Client, Accept(c) PROVE AckInv'
  <2>1. PICK to \in {"loop", "unserved"} : Goto(c, to)
    BY <1>3 DEF Accept
  <2>2. pc[c] # "away" /\ UNCHANGED <<pushed, acked, running, stopped, order>>
    BY <1>3 DEF Accept, Listen, history
  <2>3. to \in Label \ {"ack"}
    BY DEF Label
  <2> QED BY <1>a, <2>1, <2>2, <2>3, MovesOn
<1>4. ASSUME NEW c \in Client, Connect(c) PROVE AckInv'
  <2>1. /\ UNCHANGED <<pushed, acked, order, running, stopped>> /\ listener # "none"
        /\ pc' = [pc EXCEPT ![c] = "backlog"]
    BY <1>4 DEF Connect, Goto, control, history
  <2>2. stopped \/ running
    BY <2>1 DEF AckInv, Unserved
  <2>3. \A d \in Client : pc'[d] = "ack" => pc[d] = "ack"
    BY <2>1 DEF ThreadTypeOK
  <2> QED BY <1>a, <2>1, <2>2, <2>3 DEF NoNewAck
<1>5. ASSUME NEW c \in Client, NEW kind, Send(c, kind) PROVE AckInv'
  <2>1. UNCHANGED <<pushed, acked, pc, order, running, stopped, listener>>
    BY <1>5 DEF Send, control, history
  <2> QED BY <1>a, <2>1 DEF NoNewAck
<1>6. ASSUME NEW c \in Client, ClientLoop(c) \/ RecvFails(c) \/ PushLoad(c)
             \/ PushRoom(c) \/ PushFull(c) \/ PushWrite(c)
      PROVE  AckInv'
  <2>1. /\ pc[c] # "away"
        /\ UNCHANGED <<pushed, acked, order, running, stopped>>
        /\ Goto(c, "recv") \/ Goto(c, "closed") \/ Goto(c, "check")
              \/ Goto(c, "write") \/ Goto(c, "retry") \/ Goto(c, "store")
    BY <1>6 DEF ClientLoop, RecvFails, PushLoad, PushRoom, PushFull, PushWrite,
                control, history
  <2>2. {"recv", "closed", "check", "write", "retry", "store"} \subseteq Label \ {"ack"}
    BY DEF Label
  <2> QED BY <1>a, <2>1, <2>2, MovesOn
<1>7. ASSUME NEW c \in Client, NEW k, Recv(c, k) PROVE AckInv'
  <2>1. /\ pc[c] # "away"
        /\ UNCHANGED <<pushed, acked, running, stopped>>
        /\ Goto(c, "push") \/ Goto(c, "loop")
    BY <1>7 DEF Recv, control, history
  <2>2. \A d \in Client : d # c => order'[d] = order[d]
    BY <1>7 DEF Recv, ThreadTypeOK
  <2>3. {"push", "loop"} \subseteq Label \ {"ack"}
    BY DEF Label
  <2> QED BY <1>a, <2>1, <2>2, <2>3, MovesOn
<1>8. ASSUME NEW c \in Client, Retry(c) PROVE AckInv'
  <2>1. /\ pc[c] # "away"
        /\ UNCHANGED <<pushed, acked, order, running, stopped>>
        /\ Goto(c, IF running THEN "push" ELSE "ack")
    BY <1>8 DEF Retry, control, history
  <2>2. stopped \/ running
    BY <2>1 DEF AckInv, Unserved
  <2>3. CASE stopped
    BY <2>1, <2>3 DEF AckInv, Unserved, AckComes, AckMeansPushed
  <2>4. CASE running
    <3>1. Goto(c, "push") /\ "push" \in Label \ {"ack"}
      BY <2>1, <2>4 DEF Label
    <3> QED BY <1>a, <2>1, <3>1, MovesOn
  <2> QED BY <2>2, <2>3, <2>4
<1>9. ASSUME NEW c \in Client, PushStore(c) PROVE AckInv'
  <2>1. /\ pc[c] # "away"
        /\ UNCHANGED <<acked, order, running, stopped>>
        /\ pc' = [pc EXCEPT ![c] = "ack"]
        /\ pushed' = pushed \union {order[c]}
    BY <1>9 DEF PushStore, Goto, control
  <2>3. \A d \in Client : pc'[d] = "ack" => pc[d] = "ack" \/ d = c
    BY <2>1 DEF ThreadTypeOK
  <2>4. Unserved'
    BY <2>1 DEF AckInv, Unserved
  <2>5. AckComes'
    BY <2>1, <2>3 DEF AckInv, AckComes
  <2>6. AckMeansPushed'
    BY <2>1 DEF AckInv, AckMeansPushed
  <2> QED BY <2>4, <2>5, <2>6 DEF AckInv
<1>10. ASSUME NEW c \in Client, SendAck(c) PROVE AckInv'
  <2>1. /\ pc[c] = "ack"
        /\ UNCHANGED <<pushed, running, stopped>>
        /\ pc' = [pc EXCEPT ![c] = "loop"]
        /\ order' = [order EXCEPT ![c] = NoOrder]
        /\ acked' = acked \union {order[c]}
    BY <1>10 DEF SendAck, Goto, control
  <2>2. \A d \in Client : pc'[d] = "ack" => pc[d] = "ack" /\ order'[d] = order[d]
    BY <2>1 DEF ThreadTypeOK
  <2>4. Unserved'
    BY <2>1 DEF AckInv, Unserved
  <2>5. AckComes'
    BY <2>1, <2>2 DEF AckInv, AckComes
  <2>6. AckMeansPushed'
    BY <2>1 DEF AckInv, AckMeansPushed, AckComes
  <2> QED BY <2>4, <2>5, <2>6 DEF AckInv
<1>11. CASE UNCHANGED tcpVars
  BY <1>a, <1>11 DEF NoNewAck, tcpVars, control, threads, history
<1>12. QED
  BY <1>1, <1>2, <1>3, <1>4, <1>5, <1>6, <1>7, <1>8, <1>9, <1>10, <1>11
     DEF TcpNext, ListenerStep, ClientStep, PushStep

----------------------------------------------------------------------------
(* Delivery. *)

LEMMA ContentsAreBetween ==
    /\ contents = Between(buffer, head, tail)
    /\ contents' = Between(buffer', head', tail')
  BY DEF contents, Between

LEMMA ContentsSeq ==
    ASSUME RingTypeOK
    PROVE  /\ contents \in Seq(Item)
           /\ Len(contents) = Ahead(tail, head)
           /\ \A k \in 1..Ahead(tail, head) : contents[k] = buffer[(head + k - 1) % capacity]
<1>1. buffer \in [Slot -> Item] /\ head \in Slot /\ tail \in Slot
  BY DEF RingTypeOK
<1>2. /\ Between(buffer, head, tail) \in Seq(Item)
      /\ Len(Between(buffer, head, tail)) = (tail - head) % capacity
      /\ \A k \in 1..((tail - head) % capacity) :
            Between(buffer, head, tail)[k] = buffer[(head + k - 1) % capacity]
  BY <1>1, BetweenSeq, ZenonT(60)
<1> QED BY <1>2, ContentsAreBetween DEF Ahead

LEMMA Lengths ==
    ASSUME RingTypeOK
    PROVE  Len(clean) \in Nat /\ Len(submitted) \in Nat /\ Unpopped \in Int
<1>1. Len(clean) \in Nat /\ Len(submitted) \in Nat
  BY LenProperties DEF RingTypeOK
<1> QED BY <1>1 DEF Unpopped

(* Before the first overlap everything in the ring is unpopped. *)
LEMMA AllUnpopped ==
    ASSUME RingTypeOK, DeliveredInOrder, ~overlapped
    PROVE  Unpopped = Ahead(tail, head)
<1>1. contents \in Seq(Item) /\ Len(contents) = Ahead(tail, head)
  BY ContentsSeq
<1>2. submitted \in Seq(Item)
  BY DEF RingTypeOK
<1>3. Len(submitted \o contents) = Len(submitted) + Len(contents)
  BY <1>1, <1>2, ConcatProperties
<1>4. Len(clean) = Len(submitted) + Len(contents)
  BY <1>3 DEF DeliveredInOrder
<1>5. Len(submitted) \in Nat /\ Len(contents) \in Nat
  BY <1>1, <1>2, LenProperties
<1> QED BY <1>1, <1>4, <1>5 DEF Unpopped

(* Both forms of DeliveredInOrder make what is clean a prefix. *)
LEMMA CleanIsPrefix ==
    ASSUME RingTypeOK, DeliveredInOrder
    PROVE  IsPrefix(clean, submitted \o contents)
<1>1. CASE overlapped
  BY <1>1 DEF DeliveredInOrder
<1>2. CASE ~overlapped
  <2>1. clean \in Seq(Item) /\ Len(clean) \in Nat
    BY Lengths DEF RingTypeOK
  <2>2. IsPrefix(clean, clean)
    BY <2>1, PrefixByIndex
  <2>3. clean = submitted \o contents
    BY <1>2 DEF DeliveredInOrder
  <2> QED BY <2>2, <2>3, Zenon
<1> QED BY <1>1, <1>2

LEMMA RingInvInit ==
    TcpInit => RingInv
<1> SUFFICES ASSUME TcpInit PROVE RingInv
  OBVIOUS
<1>1. /\ pc = [c \in Client |-> "away"]
      /\ buffer = [i \in Slot |-> NoOrder] /\ tail = 0 /\ head = 0
      /\ clean = <<>> /\ submitted = <<>> /\ overlapped = FALSE
  BY SMT DEF TcpInit
<1>2. OneProducer
  BY <1>1 DEF OneProducer, Pushing, Owns
<1>3. RingTypeOK
  BY TcpTypeInit
<1>4. contents \in Seq(Item) /\ Len(contents) = Ahead(tail, head)
  BY <1>3, ContentsSeq
<1>5. Ahead(tail, head) = 0
  BY <1>1, <1>3, AheadOf DEF RingTypeOK
<1>6. contents = <<>>
  BY <1>4, <1>5, EmptySeq
<1>7. DeliveredInOrder
  BY <1>1, <1>6, ConcatEmptySeq DEF DeliveredInOrder
<1>8. Unpopped = 0
  BY <1>1, <1>3, <1>5, <1>7, AllUnpopped
<1>9. Kept
  BY <1>8 DEF Kept
<1> QED BY <1>2, <1>7, <1>9 DEF RingInv

(* A step that leaves the ring alone and begins and continues no push. *)
NoPush ==
    /\ UNCHANGED <<buffer, tail, head, clean, submitted, overlapped, slot>>
    /\ \A d \in Client : pc'[d] \in {"check", "write", "store"} =>
           pc'[d] = pc[d] /\ order'[d] = order[d]

LEMMA NoPushStep ==
    ASSUME RingInv, NoPush
    PROVE  RingInv'
<1>1. OneProducer'
  BY DEF RingInv, OneProducer, NoPush, Pushing, Owns
<1>2. contents' = contents
  BY ContentsAreBetween DEF NoPush
<1>3. DeliveredInOrder'
  BY <1>2 DEF RingInv, DeliveredInOrder, NoPush
<1>4. Kept'
  BY DEF RingInv, Kept, Unpopped, NoPush, Pushing, Owns
<1> QED BY <1>1, <1>3, <1>4 DEF RingInv

(* Thread c moves on, and not within a push. *)
LEMMA OutsidePush ==
    ASSUME ThreadTypeOK, NEW c \in Client, NEW l \in Label \ {"check", "write", "store"},
           Goto(c, l),
           UNCHANGED <<buffer, tail, head, clean, submitted, overlapped, slot>>,
           \A d \in Client : d # c => order'[d] = order[d]
    PROVE  NoPush
<1>1. \A d \in Client : pc'[d] = IF d = c THEN l ELSE pc[d]
  BY DEF ThreadTypeOK, Goto
<1> QED BY <1>1 DEF NoPush

(* The main thread takes the oldest order. *)
LEMMA PollStep ==
    ASSUME RingTypeOK, RingInv, Poll PROVE RingInv'
<1>1. /\ head # tail /\ submitted' = Append(submitted, buffer[head])
      /\ head' = NextSlot(head)
      /\ UNCHANGED <<pc, order, slot, buffer, tail, clean, overlapped>>
  BY DEF Poll, threads
<1>2. \A i \in Slot : i # head => NextSlot(i) # NextSlot(head)
  <2> TAKE i \in Slot
  <2>1. /\ NextSlot(i) = IF i = capacity - 1 THEN 0 ELSE i + 1
        /\ NextSlot(head) = IF head = capacity - 1 THEN 0 ELSE head + 1
    BY NextSlotValue DEF RingTypeOK
  <2>2. head \in Nat /\ i \in Nat /\ capacity \in Nat
    BY CapacityAssumption DEF RingTypeOK, Slot
  <2> QED BY <2>1, <2>2
<1>3. OneProducer'
  <2>1. NextSlot(tail) # NextSlot(head)
    BY <1>1, <1>2 DEF RingTypeOK
  <2> QED BY <1>1, <2>1 DEF RingInv, OneProducer, Pushing, Owns
<1>4. Append(submitted, buffer[head]) \o Between(buffer, NextSlot(head), tail)
        = submitted \o Between(buffer, head, tail)
  BY <1>1, AdvanceHead DEF RingTypeOK
<1>5. submitted' \o contents' = submitted \o contents
  BY <1>1, <1>4, ContentsAreBetween
<1>6. DeliveredInOrder'
  BY <1>1, <1>5 DEF RingInv, DeliveredInOrder
<1>7. Len(clean) \in Nat /\ Len(submitted) \in Nat /\ Len(submitted') = Len(submitted) + 1
  <2>1. buffer[head] \in Item /\ submitted \in Seq(Item)
    BY DEF RingTypeOK
  <2> QED BY <1>1, <2>1, Lengths, AppendProperties
<1>8. Kept'
  <2> DEFINE n == Unpopped
             m == Unpopped'
  <2>1. m = n - 1 /\ n \in Int
    BY <1>1, <1>7 DEF Unpopped
  <2> SUFFICES ASSUME m > 0
               PROVE  /\ m <= Ahead(tail', head')
                      /\ \A c \in Client : Pushing(c)' => m <= Ahead(slot'[c], head')
                      /\ \A c \in Client : Owns(c)' => NextSlot(slot'[c]) # head'
    BY DEF Kept
  <2> HIDE DEF n, m
  <2>2. n > 1
    BY <2>1
  <2>3. /\ n <= Ahead(tail, head)
        /\ \A c \in Client : Pushing(c) => n <= Ahead(slot[c], head)
    BY <2>1, <2>2 DEF RingInv, Kept, n
  <2>4. ASSUME NEW i \in Slot, n <= Ahead(i, head)
        PROVE  m <= Ahead(i, NextSlot(head)) /\ i # head
    <3>1. /\ Ahead(i, head) \in Int
          /\ Ahead(i, head) = 0 <=> i = head
          /\ i # head => Ahead(i, NextSlot(head)) = Ahead(i, head) - 1
      BY AheadOf DEF RingTypeOK
    <3>2. i # head
      BY <2>1, <2>2, <2>4, <3>1
    <3> QED BY <2>1, <2>4, <3>1, <3>2
  <2>5. m <= Ahead(tail', head')
    BY <1>1, <2>3, <2>4 DEF RingTypeOK
  <2>6. ASSUME NEW c \in Client, Pushing(c)
        PROVE  m <= Ahead(slot[c], NextSlot(head)) /\ NextSlot(slot[c]) # NextSlot(head)
    <3>1. slot[c] \in Slot /\ n <= Ahead(slot[c], head)
      BY <2>3, <2>6 DEF RingTypeOK
    <3> QED BY <1>2, <2>4, <3>1
  <2> QED BY <1>1, <2>5, <2>6 DEF Pushing, Owns
<1> QED BY <1>3, <1>6, <1>8 DEF RingInv

(* A push begins: if another is under way the two overlap. *)
LEMMA PushLoadStep ==
    ASSUME ThreadTypeOK, RingTypeOK, RingInv, NEW c \in Client, PushLoad(c)
    PROVE  RingInv'
<1>1. /\ slot' = [slot EXCEPT ![c] = tail]
      /\ pc' = [pc EXCEPT ![c] = "check"]
      /\ UNCHANGED <<order, buffer, tail, head, clean, submitted>>
      /\ overlapped' <=> (overlapped \/ \E d \in Client : Pushing(d))
  BY DEF PushLoad, Goto, ring
<1>2. \A d \in Client :
          /\ pc'[d] = IF d = c THEN "check" ELSE pc[d]
          /\ slot'[d] = IF d = c THEN tail ELSE slot[d]
  BY <1>1 DEF ThreadTypeOK, RingTypeOK
<1>3. ~overlapped' => ~overlapped /\ \A d \in Client : ~Pushing(d)
  BY <1>1
<1>4. OneProducer'
  BY <1>1, <1>2, <1>3 DEF RingInv, OneProducer, Pushing, Owns
<1>5. contents' = contents
  BY <1>1, ContentsAreBetween
<1>6. IsPrefix(clean, submitted \o contents)
  BY CleanIsPrefix DEF RingInv
<1>7. DeliveredInOrder'
  BY <1>1, <1>3, <1>5, <1>6 DEF RingInv, DeliveredInOrder
<1>8. Kept'
  BY <1>1, <1>2 DEF RingInv, Kept, Unpopped, Pushing, Owns
<1> QED BY <1>4, <1>7, <1>8 DEF RingInv

(* It finds room. *)
LEMMA PushRoomStep ==
    ASSUME ThreadTypeOK, RingTypeOK, RingInv, NEW c \in Client, PushRoom(c)
    PROVE  RingInv'
<1>1. /\ pc[c] = "check" /\ NextSlot(slot[c]) # head
      /\ pc' = [pc EXCEPT ![c] = "write"]
      /\ UNCHANGED <<order, slot, buffer, tail, head, clean, submitted, overlapped>>
  BY DEF PushRoom, Goto, ring, history
<1>2. \A d \in Client : pc'[d] = IF d = c THEN "write" ELSE pc[d]
  BY <1>1 DEF ThreadTypeOK
<1>3. OneProducer'
  BY <1>1, <1>2 DEF RingInv, OneProducer, Pushing, Owns
<1>4. contents' = contents
  BY <1>1, ContentsAreBetween
<1>5. DeliveredInOrder'
  BY <1>1, <1>4 DEF RingInv, DeliveredInOrder
<1>6. Kept'
  BY <1>1, <1>2 DEF RingInv, Kept, Unpopped, Pushing, Owns
<1> QED BY <1>3, <1>5, <1>6 DEF RingInv

(* A change of the ring behind what is unpopped, after an overlap. *)
LEMMA StaysPrefix ==
    ASSUME RingTypeOK, RingTypeOK', DeliveredInOrder, overlapped, overlapped',
           UNCHANGED <<clean, submitted>>,
           Unpopped > 0 => /\ Unpopped <= Ahead(tail', head')
                           /\ \A k \in 1..Unpopped : contents'[k] = contents[k]
    PROVE  DeliveredInOrder'
<1>1. contents \in Seq(Item)
  BY ContentsSeq
<1>2. contents' \in Seq(Item) /\ Len(contents') = Ahead(tail', head')
  <2>1. buffer' \in [Slot -> Item] /\ head' \in Slot /\ tail' \in Slot
    BY DEF RingTypeOK
  <2>2. /\ Between(buffer', head', tail') \in Seq(Item)
        /\ Len(Between(buffer', head', tail')) = (tail' - head') % capacity
    BY <2>1, BetweenSeq
  <2> QED BY <2>2, ContentsAreBetween DEF Ahead
<1>3. clean \in Seq(Item) /\ submitted \in Seq(Item)
  BY DEF RingTypeOK
<1>4. IsPrefix(clean, submitted \o contents)
  BY DEF DeliveredInOrder
<1>5. /\ Unpopped <= Len(contents')
      /\ \A k \in 1..Unpopped : contents'[k] = contents[k]
  <2>1. Len(contents') \in Nat /\ Unpopped \in Int
    BY <1>2, Lengths, LenProperties
  <2>2. CASE Unpopped > 0
    BY <1>2, <2>2
  <2>3. CASE ~(Unpopped > 0)
    <3>1. \A k \in 1..Unpopped : FALSE
      BY <2>1, <2>3
    <3> QED BY <2>1, <2>3, <3>1
  <2> QED BY <2>2, <2>3
<1>6. IsPrefix(clean, submitted \o contents')
  <2>1. /\ Len(clean) - Len(submitted) <= Len(contents')
        /\ \A k \in 1..(Len(clean) - Len(submitted)) : contents'[k] = contents[k]
    BY <1>5 DEF Unpopped
  <2> DEFINE cs == contents
             ds == contents'
  <2>2. cs \in Seq(Item) /\ ds \in Seq(Item) /\ IsPrefix(clean, submitted \o cs)
    BY <1>1, <1>2, <1>4
  <2>3. /\ Len(clean) - Len(submitted) <= Len(ds)
        /\ \A k \in 1..(Len(clean) - Len(submitted)) : ds[k] = cs[k]
    BY <2>1
  <2> HIDE DEF cs, ds
  <2>4. IsPrefix(clean, submitted \o ds)
    BY <1>3, <2>2, <2>3, PrefixKept
  <2> QED BY <2>4 DEF ds
<1> QED BY <1>6 DEF DeliveredInOrder

LEMMA PushWriteStep ==
    ASSUME ThreadTypeOK, RingTypeOK, RingTypeOK', RingInv, NEW c \in Client, PushWrite(c)
    PROVE  RingInv'
<1>1. /\ pc[c] = "write"
      /\ buffer' = [buffer EXCEPT ![slot[c]] = order[c]]
      /\ pc' = [pc EXCEPT ![c] = "store"]
      /\ UNCHANGED <<order, slot, tail, head, clean, submitted, overlapped>>
  BY DEF PushWrite, Goto, history
<1>2. \A d \in Client : pc'[d] = IF d = c THEN "store" ELSE pc[d]
  BY <1>1 DEF ThreadTypeOK
<1>3. Kept'
  BY <1>1, <1>2 DEF RingInv, Kept, Unpopped, Pushing, Owns
<1>4. CASE ~overlapped
  <2>1. /\ slot[c] = tail /\ NextSlot(tail) # head
        /\ \A d \in Client : Pushing(d) => d = c
    BY <1>1, <1>4 DEF RingInv, OneProducer, Pushing, Owns
  <2>2. buffer'[tail] = order[c] /\ buffer' = [buffer EXCEPT ![tail] = order[c]]
    BY <1>1, <2>1 DEF RingTypeOK
  <2>3. OneProducer'
    BY <1>1, <1>2, <2>1, <2>2 DEF OneProducer, Pushing, Owns
  <2>4. Between([buffer EXCEPT ![tail] = order[c]], head, tail) = Between(buffer, head, tail)
    <3>1. buffer \in [Slot -> Item] /\ head \in Slot /\ tail \in Slot
      BY DEF RingTypeOK
    <3> QED BY <3>1, WriteAtTail, Zenon
  <2>5. contents' = contents
    BY <1>1, <2>2, <2>4, ContentsAreBetween
  <2>6. DeliveredInOrder'
    BY <1>1, <2>5 DEF RingInv, DeliveredInOrder
  <2> QED BY <1>3, <2>3, <2>6 DEF RingInv
<1>5. CASE overlapped
  <2>1. OneProducer'
    BY <1>1, <1>5 DEF OneProducer
  <2>2. ASSUME Unpopped > 0, NEW k \in 1..Unpopped PROVE contents'[k] = contents[k]
    <3>1. /\ Unpopped <= Ahead(slot[c], head) /\ Unpopped <= Ahead(tail, head)
          /\ Unpopped \in Nat /\ Ahead(tail, head) \in Nat
      <4>1. Unpopped <= Ahead(slot[c], head) /\ Unpopped <= Ahead(tail, head)
        BY <1>1, <2>2 DEF RingInv, Kept, Pushing
      <4>2. Ahead(tail, head) \in Nat
        BY AheadOf DEF RingTypeOK
      <4> QED BY <2>2, <4>1, <4>2, Lengths
    <3>2. buffer'[(head + k - 1) % capacity] = buffer[(head + k - 1) % capacity]
      <4> DEFINE q == (head + k - 1) % capacity
      <4>1. head \in Slot /\ slot[c] \in Slot /\ k \in 1..Unpopped
        BY <2>2 DEF RingTypeOK
      <4>2. q \in Slot /\ q # slot[c]
        BY <3>1, <4>1, SlotBehind
      <4> HIDE DEF q
      <4>3. buffer'[q] = buffer[q]
        BY <1>1, <4>2 DEF RingTypeOK
      <4> QED BY <4>3 DEF q
    <3>3. k \in 1..Ahead(tail, head)
      BY <3>1
    <3>4. contents[k] = buffer[(head + k - 1) % capacity]
      BY <3>3, ContentsSeq
    <3>5. contents'[k] = buffer'[(head + k - 1) % capacity]
      <4>1. k \in 1..((tail - head) % capacity)
        BY <3>3 DEF Ahead
      <4> QED BY <1>1, <4>1, ContentsAreBetween DEF Between
    <3> QED BY <3>2, <3>4, <3>5
  <2>3. Unpopped > 0 => Unpopped <= Ahead(tail', head')
    BY <1>1 DEF RingInv, Kept
  <2>4. DeliveredInOrder'
    BY <1>1, <1>5, <2>2, <2>3, StaysPrefix DEF RingInv
  <2> QED BY <1>3, <2>1, <2>4 DEF RingInv
<1> QED BY <1>4, <1>5

LEMMA PushStoreStep ==
    ASSUME ThreadTypeOK, RingTypeOK, RingTypeOK', RingInv, NEW c \in Client, PushStore(c)
    PROVE  RingInv'
<1>1. /\ pc[c] = "store"
      /\ tail' = NextSlot(slot[c])
      /\ clean' = IF overlapped THEN clean ELSE Append(clean, order[c])
      /\ pc' = [pc EXCEPT ![c] = "ack"]
      /\ UNCHANGED <<order, slot, buffer, head, submitted, overlapped>>
  BY DEF PushStore, Goto
<1>2. \A d \in Client : pc'[d] = IF d = c THEN "ack" ELSE pc[d]
  BY <1>1 DEF ThreadTypeOK
<1>3. CASE ~overlapped
  <2>1. /\ slot[c] = tail /\ NextSlot(tail) # head /\ buffer[tail] = order[c]
        /\ \A d \in Client : Pushing(d) => d = c
    BY <1>1, <1>3 DEF RingInv, OneProducer, Pushing, Owns
  <2>2. \A d \in Client : ~Pushing(d)' /\ ~Owns(d)'
    BY <1>2, <2>1 DEF Pushing, Owns
  <2>3. OneProducer'
    BY <1>2, <2>1 DEF OneProducer, Pushing, Owns
  <2>4. Between(buffer, head, NextSlot(tail)) = Append(Between(buffer, head, tail), buffer[tail])
    BY <2>1, AdvanceTail DEF RingTypeOK
  <2>5. contents' = Append(contents, order[c])
    BY <1>1, <2>1, <2>4, ContentsAreBetween
  <2>6. contents \in Seq(Item) /\ submitted \in Seq(Item) /\ order[c] \in Item
    BY ContentsSeq DEF RingTypeOK, ThreadTypeOK
  <2>7. submitted \o Append(contents, order[c]) = Append(submitted \o contents, order[c])
    BY <2>6, AppendLast
  <2>8. DeliveredInOrder'
    BY <1>1, <1>3, <2>5, <2>7 DEF RingInv, DeliveredInOrder
  <2>9. Unpopped = Ahead(tail, head)
    BY <1>3, AllUnpopped DEF RingInv
  <2>10. Ahead(tail', head) = Ahead(tail, head) + 1 /\ Ahead(tail, head) \in Nat
    BY <1>1, <2>1, AheadOf DEF RingTypeOK
  <2>11. Unpopped' = Unpopped + 1
    <3>1. Len(Append(clean, order[c])) = Len(clean) + 1
      BY <2>6, AppendProperties DEF RingTypeOK
    <3> QED BY <1>1, <1>3, <3>1, Lengths DEF Unpopped
  <2>12. Unpopped' <= Ahead(tail', head')
    BY <1>1, <2>9, <2>10, <2>11
  <2>13. Kept'
    BY <2>2, <2>12 DEF Kept
  <2> QED BY <2>3, <2>8, <2>13 DEF RingInv
<1>4. CASE overlapped
  <2>1. OneProducer'
    BY <1>1, <1>4 DEF OneProducer
  <2>2. UNCHANGED <<clean, Unpopped>>
    BY <1>1, <1>4 DEF Unpopped
  <2>3. ASSUME Unpopped > 0
        PROVE  /\ Unpopped <= Ahead(tail, head) /\ Unpopped <= Ahead(tail', head')
               /\ Ahead(tail, head) \in Nat /\ Ahead(tail', head') \in Nat /\ Unpopped \in Nat
    <3>1. /\ Unpopped <= Ahead(slot[c], head) /\ Unpopped <= Ahead(tail, head)
          /\ NextSlot(slot[c]) # head
      BY <1>1, <2>3 DEF RingInv, Kept, Pushing, Owns
    <3>2. /\ Ahead(tail', head) = Ahead(slot[c], head) + 1 /\ Ahead(slot[c], head) \in Nat
          /\ Ahead(tail, head) \in Nat
      BY <1>1, <3>1, AheadOf DEF RingTypeOK
    <3> QED BY <1>1, <2>3, <3>1, <3>2, Lengths
  <2>4. ASSUME Unpopped > 0, NEW k \in 1..Unpopped PROVE contents'[k] = contents[k]
    <3>1. k \in 1..Ahead(tail, head) /\ k \in 1..Ahead(tail', head')
      BY <2>3, <2>4
    <3>2. contents[k] = buffer[(head + k - 1) % capacity]
      BY <3>1, ContentsSeq
    <3>3. contents'[k] = buffer'[(head' + k - 1) % capacity]
      <4>1. k \in 1..((tail' - head') % capacity)
        BY <3>1 DEF Ahead
      <4> QED BY <4>1, ContentsAreBetween DEF Between
    <3> QED BY <1>1, <3>2, <3>3
  <2>5. DeliveredInOrder'
    BY <1>1, <1>4, <2>2, <2>3, <2>4, StaysPrefix DEF RingInv
  <2>6. Kept'
    BY <1>1, <1>2, <2>2, <2>3 DEF RingInv, Kept, Pushing, Owns
  <2> QED BY <2>1, <2>5, <2>6 DEF RingInv
<1> QED BY <1>3, <1>4

LEMMA RingStep ==
    ThreadTypeOK /\ RingTypeOK /\ RingInv /\ [TcpNext]_tcpVars => RingInv'
<1> SUFFICES ASSUME ThreadTypeOK, RingTypeOK, RingInv, [TcpNext]_tcpVars PROVE RingInv'
  OBVIOUS
<1>a. NoPush => RingInv'
  BY NoPushStep
<1>1. CASE Start \/ Stop \/ StopReturn
  BY <1>a, <1>1 DEF NoPush, Start, Stop, StopReturn, threads, ring, history
<1>2. CASE Poll
  BY <1>2, PollStep
<1>3. CASE Startup \/ CheckRunning \/ AcceptNone
  BY <1>a, <1>3 DEF NoPush, Startup, CheckRunning, AcceptNone, Listen,
                    threads, ring, history
<1>4. ASSUME NEW c \in Client, Accept(c) PROVE RingInv'
  <2>1. PICK to \in {"loop", "unserved"} : Goto(c, to)
    BY <1>4 DEF Accept
  <2>2. UNCHANGED <<buffer, tail, head, clean, submitted, overlapped, slot, order>>
    BY <1>4 DEF Accept, Listen, ring, history
  <2>3. to \in Label \ {"check", "write", "store"}
    BY DEF Label
  <2> QED BY <1>a, <2>1, <2>2, <2>3, OutsidePush
<1>5. ASSUME NEW c \in Client, Connect(c) \/ ClientLoop(c) \/ RecvFails(c)
             \/ PushFull(c) \/ Retry(c)
      PROVE  RingInv'
  <2>1. /\ UNCHANGED <<buffer, tail, head, clean, submitted, overlapped, slot, order>>
        /\ \/ Goto(c, "backlog") \/ Goto(c, "recv") \/ Goto(c, "closed")
           \/ Goto(c, "retry") \/ Goto(c, "push") \/ Goto(c, "ack")
    BY <1>5 DEF Connect, ClientLoop, RecvFails, PushFull, Retry, ring, history
  <2>2. {"backlog", "recv", "closed", "retry", "push", "ack"} \subseteq Label \ {"check", "write", "store"}
    BY DEF Label
  <2> QED BY <1>a, <2>1, <2>2, OutsidePush
<1>6. ASSUME NEW c \in Client, NEW kind, Send(c, kind) PROVE RingInv'
  BY <1>a, <1>6 DEF NoPush, Send, ring, history
<1>7. ASSUME NEW c \in Client, NEW k, Recv(c, k) PROVE RingInv'
  <2>1. /\ UNCHANGED <<buffer, tail, head, clean, submitted, overlapped, slot>>
        /\ Goto(c, "push") \/ Goto(c, "loop")
    BY <1>7 DEF Recv, ring, history
  <2>2. \A d \in Client : d # c => order'[d] = order[d]
    BY <1>7 DEF Recv, ThreadTypeOK
  <2>3. {"push", "loop"} \subseteq Label \ {"check", "write", "store"}
    BY DEF Label
  <2> QED BY <1>a, <2>1, <2>2, <2>3, OutsidePush
<1>8. ASSUME NEW c \in Client, PushLoad(c) \/ PushRoom(c) \/ PushWrite(c) \/ PushStore(c)
      PROVE  RingInv'
  <2>1. RingTypeOK'
    BY RingTypeStep
  <2> QED BY <1>8, <2>1, PushLoadStep, PushRoomStep, PushWriteStep, PushStoreStep
<1>9. ASSUME NEW c \in Client, SendAck(c) PROVE RingInv'
  <2>1. /\ UNCHANGED <<buffer, tail, head, clean, submitted, overlapped, slot>>
        /\ Goto(c, "loop")
    BY <1>9 DEF SendAck, ring
  <2>2. \A d \in Client : d # c => order'[d] = order[d]
    BY <1>9 DEF SendAck, ThreadTypeOK
  <2>3. "loop" \in Label \ {"check", "write", "store"}
    BY DEF Label
  <2> QED BY <1>a, <2>1, <2>2, <2>3, OutsidePush
<1>10. CASE UNCHANGED tcpVars
  BY <1>a, <1>10 DEF NoPush, tcpVars, control, threads, ring, history
<1>11. QED
  BY <1>1, <1>2, <1>3, <1>4, <1>5, <1>6, <1>7, <1>8, <1>9, <1>10
     DEF TcpNext, ListenerStep, ClientStep, PushStep

----------------------------------------------------------------------------
LEMMA TcpInvInit ==
    TcpInit => TcpInv
<1> SUFFICES ASSUME TcpInit PROVE TcpInv
  OBVIOUS
<1>1. /\ listener = "none" /\ pc = [c \in Client |-> "away"] /\ acked = {}
  BY SMT DEF TcpInit
<1>2. AckInv
  BY <1>1 DEF AckInv, Unserved, AckComes, AckMeansPushed
<1> QED BY <1>2, TcpTypeInit, RingInvInit DEF TcpInv

LEMMA TcpInvariance ==
    TcpSpec => []TcpInv
<1>1. TcpInv /\ [TcpNext]_tcpVars => TcpInv'
  BY ThreadTypeStep, RingTypeStep, AckStep, RingStep DEF TcpInv
<1> QED BY <1>1, TcpInvInit, PTL DEF TcpSpec

(* Until the server is stopped, every order a client has had an ACK for    *)
(* has been pushed (handle_client and its retry loop, tcp_server.h), for   *)
(* any number of clients and any capacity of the ring.                     *)
THEOREM AckedIsPushed ==
    TcpSpec => []AckMeansPushed
<1>1. TcpInv => AckMeansPushed
  BY DEF TcpInv, AckInv
<1> QED BY <1>1, TcpInvariance, PTL

(* As long as no two pushes have overlapped, what the polling loop has     *)
(* submitted followed by what the ring holds is what has been pushed; and  *)
(* whatever threads overlap later, it keeps beginning with that.           *)
THEOREM PushedIsDelivered ==
    TcpSpec => []DeliveredInOrder
<1>1. TcpInv => DeliveredInOrder
  BY DEF TcpInv, RingInv
<1> QED BY <1>1, TcpInvariance, PTL
============================================================================
