------------------------- MODULE ItchParser_proofs -------------------------
(***************************************************************************)
(* For every file, and any number of values of a byte: what the parser     *)
(* returns is what the file says (ParserIsExact).                          *)
(*                                                                         *)
(* Two things come together.  The numbers: reading bytes in the order of   *)
(* the machine and swapping them gives the big-endian number, for two,     *)
(* four and eight bytes (NumberIsBigEndian); byte i is found again in the  *)
(* sum as its digit i (NativeDigit), and the swapped sum obeys Horner's    *)
(* scheme, which is how the library's fold computes BigEndian.  The        *)
(* positions: where messages begin is a recursion along the file           *)
(* (BeginsExists shows that it has a solution), and the invariant says     *)
(* that what begins from pos on is exactly what is still to be read.       *)
(*                                                                         *)
(* Inductions are choices of a least counterexample (LeastNat).            *)
(***************************************************************************)
EXTENDS ItchParser, SumTheorems, SequenceTheorems

----------------------------------------------------------------------------
(* The weights of the bytes of a number.                                   *)
LEMMA WeightRecursion ==
    Weight = [i \in 0..7 |-> IF i = 0 THEN 1 ELSE Base * Weight[i - 1]]
<1> DEFINE a == Base
           b == Base * a
           c == Base * b
           d == Base * c
           e == Base * d
           f == Base * e
           h == Base * f
           W == [i \in 0..7 |-> IF i = 0 THEN 1 ELSE IF i = 1 THEN a ELSE IF i = 2 THEN b
                   ELSE IF i = 3 THEN c ELSE IF i = 4 THEN d ELSE IF i = 5 THEN e
                   ELSE IF i = 6 THEN f ELSE h]
           E(g, i) == IF i = 0 THEN 1 ELSE Base * g[i - 1]
<1>1. Base \in Int /\ a = Base * 1
  BY BaseAssumption
<1>2. b = Base * a /\ c = Base * b /\ d = Base * c /\ e = Base * d /\ f = Base * e /\ h = Base * f
  OBVIOUS
<1> HIDE DEF a, b, c, d, e, f, h
<1>3. \A i \in 0..7 : W[i] = E(W, i)
  <2>1. \A i \in 0..7 : i = 0 \/ i = 1 \/ i = 2 \/ i = 3 \/ i = 4 \/ i = 5 \/ i = 6 \/ i = 7
    OBVIOUS
  <2>2. /\ W[0] = 1 /\ W[1] = a /\ W[2] = b /\ W[3] = c /\ W[4] = d /\ W[5] = e
        /\ W[6] = f /\ W[7] = h
    OBVIOUS
  <2> HIDE DEF W
  <2> QED BY <1>1, <1>2, <2>1, <2>2
<1>4. W = [i \in 0..7 |-> W[i]]
  OBVIOUS
<1> HIDE DEF W
<1>5. W = [i \in 0..7 |-> E(W, i)]
  <2> HIDE DEF E
  <2> QED BY <1>3, <1>4, Zenon
<1>6. \E g : g = [i \in 0..7 |-> E(g, i)]
  BY <1>5
<1> QED BY <1>6, Zenon DEF Weight

(* Each weight is Base times the one before. *)
LEMMA WeightStep ==
    /\ Weight[0] = 1
    /\ \A i \in 0..6 : Weight[i + 1] = Base * Weight[i]
<1>1. Weight[0] = 1
  BY WeightRecursion
<1>2. ASSUME NEW i \in 0..6
      PROVE  Weight[i + 1] = Base * Weight[i]
  <2> DEFINE j == i + 1
  <2>1. j \in 0..7 /\ j # 0 /\ j - 1 = i
    OBVIOUS
  <2> HIDE DEF j
  <2>2. Weight[j] = Base * Weight[j - 1]
    BY <2>1, WeightRecursion, Zenon
  <2> QED BY <2>1, <2>2 DEF j
<1> QED BY <1>1, <1>2

(* No weight is 0. *)
LEMMA WeightPositive == \A i \in 0..7 : Weight[i] \in Nat \ {0}
<1> DEFINE Bad == {i \in 0..7 : Weight[i] \notin Nat \ {0}}
<1> SUFFICES ASSUME Bad # {} PROVE FALSE
  OBVIOUS
<1>1. PICK k \in Bad : \A m \in Bad : k <= m
  <2>1. Bad \in SUBSET Nat
    OBVIOUS
  <2> HIDE DEF Bad
  <2> QED BY <2>1, LeastNat
<1>2. k \in 0..7 /\ Weight[k] \notin Nat \ {0}
  BY <1>1
<1>3. k # 0
  BY <1>2, WeightStep
<1> DEFINE j == k - 1
<1>4. j \in 0..6 /\ k = j + 1 /\ ~(k <= j) /\ j \in 0..7
  BY <1>2, <1>3
<1>5. j \notin Bad
  BY <1>1, <1>4
<1> DEFINE w == Weight[j]
<1>6. w \in Nat \ {0}
  BY <1>4, <1>5
<1>7. Weight[k] = Base * w
  BY <1>4, WeightStep
<1> HIDE DEF w
<1>8. Base * w \in Nat \ {0}
  BY <1>6, BaseAssumption
<1> QED BY <1>2, <1>7, <1>8

(* The weight of a higher byte is a multiple of that of the next.          *)
LEMMA WeightMultiple ==
    ASSUME NEW i \in 0..7, NEW m \in 0..7, i < m
    PROVE  \E r \in Nat : Weight[m] = Weight[i] * (Base * r)
<1> DEFINE Good(k) == \E r \in Nat : Weight[k] = Weight[i] * (Base * r)
           Bad == {k \in 0..7 : i < k /\ ~Good(k)}
<1> SUFFICES ASSUME Bad # {} PROVE FALSE
  OBVIOUS
<1>1. PICK k \in Bad : \A l \in Bad : k <= l
  <2>1. Bad \in SUBSET Nat
    OBVIOUS
  <2> HIDE DEF Bad
  <2> QED BY <2>1, LeastNat
<1>2. k \in 0..7 /\ i < k /\ ~Good(k)
  BY <1>1
<1> DEFINE j == k - 1
           w == Weight[i]
<1>3. j \in 0..6 /\ k = j + 1 /\ i <= j /\ ~(k <= j)
  BY <1>2
<1>4. Weight[k] = Base * Weight[j]
  BY <1>3, WeightStep
<1>5. w \in Nat /\ Base \in Nat
  BY WeightPositive, BaseAssumption
<1>6. CASE j = i
  <2>1. Weight[k] = Base * w
    BY <1>4, <1>6
  <2> HIDE DEF w
  <2>2. Base * w = w * (Base * 1)
    BY <1>5
  <2> QED BY <1>2, <2>1, <2>2 DEF w
<1>7. CASE i < j
  <2>1. j \notin Bad
    BY <1>1, <1>3
  <2>2. PICK r \in Nat : Weight[j] = w * (Base * r)
    BY <1>3, <1>7, <2>1
  <2> HIDE DEF w
  <2>3. Base * (w * (Base * r)) = w * (Base * (Base * r)) /\ Base * r \in Nat
    BY <1>5
  <2> QED BY <1>2, <1>4, <2>2, <2>3 DEF w
<1> QED BY <1>3, <1>6, <1>7

(* Division is what it should be.                                          *)
LEMMA DivisionUnique ==
    ASSUME NEW g \in Nat \ {0}, NEW q \in Int, NEW r \in 0..(g - 1)
    PROVE  (r + g * q) \div g = q /\ (r + g * q) % g = r
<1> DEFINE n == r + g * q
           a == n \div g
           b == n % g
<1>1. n \in Int /\ g * q \in Int /\ r \in Int /\ 0 <= r /\ r < g
  OBVIOUS
<1> HIDE DEF n
<1>2. a \in Int /\ b \in Int /\ 0 <= b /\ b < g /\ n = g * a + b
  BY <1>1
<1> HIDE DEF a, b
<1>3. g * (a - q) = r - b
  <2>1. g * (a - q) = g * a - g * q
    BY <1>2
  <2> QED BY <1>1, <1>2, <2>1 DEF n
<1>4. ~(a - q >= 1)
  <2> SUFFICES ASSUME a - q >= 1 PROVE FALSE
    OBVIOUS
  <2>1. g * (a - q) >= g
    BY <1>2
  <2> QED BY <1>1, <1>2, <1>3, <2>1
<1>5. ~(a - q <= -1)
  <2> SUFFICES ASSUME a - q <= -1 PROVE FALSE
    OBVIOUS
  <2>1. g * (a - q) <= -g
    BY <1>2
  <2> QED BY <1>1, <1>2, <1>3, <2>1
<1>6. a = q
  BY <1>2, <1>4, <1>5
<1>7. b = r
  BY <1>1, <1>2, <1>6 DEF n
<1> QED BY <1>6, <1>7 DEF a, b, n

----------------------------------------------------------------------------
(* A number as it is read: the sum over its bytes.                         *)

(* What byte i contributes, and the lowest k bytes. *)
Worth(bs) == [i \in DOMAIN bs |-> bs[i] * Weight[i - 1]]
Low(bs, k) == SumFunctionOnSet(Worth(bs), 1..k)

IsBytes(bs, n) == n \in 1..8 /\ bs \in [1..n -> Byte]

(* The bytes of a number, and what they contribute, are numbers. *)
LEMMA WorthType ==
    ASSUME NEW n, NEW bs, IsBytes(bs, n), NEW i \in 1..n
    PROVE  /\ Worth(bs)[i] = bs[i] * Weight[i - 1] /\ Worth(bs)[i] \in Nat
           /\ bs[i] \in 0..(Base - 1) /\ i - 1 \in 0..7
<1>1. DOMAIN bs = 1..n /\ bs[i] \in 0..(Base - 1) /\ i - 1 \in 0..7
  BY DEF IsBytes, Byte
<1>2. Worth(bs)[i] = bs[i] * Weight[i - 1]
  BY <1>1 DEF Worth
<1> DEFINE w == Weight[i - 1]
           b == bs[i]
<1>3. w \in Nat /\ b \in Nat
  <2>1. w \in Nat
    BY <1>1, WeightPositive
  <2>2. b \in 0..(Base - 1)
    BY <1>1
  <2> HIDE DEF w, b
  <2> QED BY <2>1, <2>2, BaseAssumption
<1> HIDE DEF w, b
<1>4. b * w \in Nat
  BY <1>3
<1> QED BY <1>1, <1>2, <1>4 DEF b, w

(* One byte more adds what that byte contributes. *)
LEMMA LowStep ==
    ASSUME NEW n, NEW bs, IsBytes(bs, n)
    PROVE  /\ Low(bs, 0) = 0
           /\ \A k \in 0..n : Low(bs, k) \in Nat
           /\ \A k \in 1..n : Low(bs, k) = Low(bs, k - 1) + bs[k] * Weight[k - 1]
<1>1. Low(bs, 0) = 0
  <2>1. 1..0 = {}
    OBVIOUS
  <2> QED BY <2>1, SumEmpty DEF Low
<1>2. n \in 1..8
  BY DEF IsBytes
<1>3. ASSUME NEW k \in 0..n
      PROVE  Low(bs, k) \in Nat
  <2> DEFINE S == 1..k
  <2>1. IsFiniteSet(S)
    BY <1>2, FS_Interval
  <2>2. \A x \in S : Worth(bs)[x] \in Nat
    BY <1>2, WorthType
  <2> HIDE DEF S
  <2>3. SumFunctionOnSet(Worth(bs), S) \in Nat
    BY <2>1, <2>2, SumNatural
  <2> QED BY <2>3 DEF Low, S
<1>4. ASSUME NEW k \in 1..n
      PROVE  Low(bs, k) = Low(bs, k - 1) + bs[k] * Weight[k - 1]
  <2> DEFINE S == 1..(k - 1)
  <2>1. IsFiniteSet(S) /\ k \notin S /\ 1..k = S \union {k}
    <3>1. k \in Int /\ k >= 1 /\ k - 1 \in Int
      BY <1>2
    <3>2. IsFiniteSet(S)
      BY <3>1, FS_Interval
    <3>3. k \notin S /\ 1..k = S \union {k}
      BY <3>1
    <3> QED BY <3>2, <3>3
  <2>2. \A x \in S : Worth(bs)[x] \in Int
    BY <1>2, WorthType
  <2>3. Worth(bs)[k] = bs[k] * Weight[k - 1] /\ Worth(bs)[k] \in Int
    BY WorthType
  <2> HIDE DEF S
  <2>4. SumFunctionOnSet(Worth(bs), S \union {k}) = SumFunctionOnSet(Worth(bs), S) + Worth(bs)[k]
    BY <2>1, <2>2, <2>3, SumAdd
  <2> QED BY <2>1, <2>3, <2>4 DEF Low, S
<1> QED BY <1>1, <1>3, <1>4

(* The lowest k bytes are less than one in the next. *)
LEMMA LowBound ==
    ASSUME NEW n, NEW bs, IsBytes(bs, n), NEW i \in 0..(n - 1)
    PROVE  Low(bs, i) < Weight[i]
<1> DEFINE Bad == {k \in 0..(n - 1) : ~(Low(bs, k) < Weight[k])}
<1> SUFFICES ASSUME Bad # {} PROVE FALSE
  OBVIOUS
<1>0. n \in 1..8
  BY DEF IsBytes
<1>1. PICK k \in Bad : \A l \in Bad : k <= l
  <2>1. Bad \in SUBSET Nat
    BY <1>0
  <2> HIDE DEF Bad
  <2> QED BY <2>1, LeastNat
<1>2. k \in 0..(n - 1) /\ ~(Low(bs, k) < Weight[k])
  BY <1>1
<1>3. k # 0
  BY <1>2, LowStep, WeightStep
<1> DEFINE j == k - 1
           x == Low(bs, j)
           w == Weight[j]
           b == bs[k]
<1>4. j \in 0..(n - 1) /\ ~(k <= j) /\ k \in 1..n /\ j \in 0..6 /\ k = j + 1 /\ j \in 0..n
  BY <1>0, <1>2, <1>3
<1>5. x < w
  <2>1. j \notin Bad
    BY <1>1, <1>4
  <2> QED BY <1>4, <2>1
<1>6. Low(bs, k) = x + b * w
  BY <1>4, LowStep
<1>7. Weight[k] = Base * w
  BY <1>4, WeightStep
<1>8. w \in Nat /\ x \in Nat
  <2>1. j \in 0..7
    BY <1>4
  <2> QED BY <1>4, <2>1, LowStep, WeightPositive
<1>9. b \in 0..(Base - 1) /\ Base \in Nat
  BY <1>4, WorthType, BaseAssumption
<1> HIDE DEF x, w, b
<1>10. x + b * w < Base * w
  <2>1. b * w <= (Base - 1) * w
    BY <1>8, <1>9
  <2>2. (Base - 1) * w = Base * w - w
    BY <1>8, <1>9
  <2>3. b * w \in Int /\ Base * w \in Int
    BY <1>8, <1>9
  <2> QED BY <1>5, <1>8, <2>1, <2>2, <2>3
<1> QED BY <1>2, <1>6, <1>7, <1>10

(* The bytes above byte i do not reach below the byte after it. *)
LEMMA LowSplit ==
    ASSUME NEW n, NEW bs, IsBytes(bs, n), NEW i \in 1..n
    PROVE  \E q \in Nat : Low(bs, n) = Low(bs, i - 1) + Weight[i - 1] * (bs[i] + Base * q)
<1> DEFINE x       == Low(bs, i - 1)
           w       == Weight[i - 1]
           b       == bs[i]
           Good(k) == \E q \in Nat : Low(bs, k) = x + w * (b + Base * q)
           Bad     == {k \in i..n : ~Good(k)}
<1> SUFFICES ASSUME Bad # {} PROVE FALSE
  BY DEF IsBytes
<1>0. n \in 1..8 /\ i - 1 \in 0..7
  BY DEF IsBytes
<1>1. PICK k \in Bad : \A l \in Bad : k <= l
  <2>1. Bad \in SUBSET Nat
    BY <1>0
  <2> HIDE DEF Bad
  <2> QED BY <2>1, LeastNat
<1>2. k \in i..n /\ ~Good(k)
  BY <1>1
<1>3. w \in Nat /\ x \in Nat /\ b \in Nat /\ Base \in Nat
  <2>1. i - 1 \in 0..n
    BY <1>0
  <2>2. b \in 0..(Base - 1)
    BY WorthType
  <2> QED BY <1>0, <2>1, <2>2, LowStep, WeightPositive, BaseAssumption
<1>4. CASE k = i
  <2>1. Low(bs, k) = x + b * w
    BY <1>4, LowStep
  <2> HIDE DEF x, w, b
  <2>2. b * w = w * (b + Base * 0)
    BY <1>3
  <2> QED BY <1>2, <2>1, <2>2
<1>5. CASE i < k
  <2> DEFINE j == k - 1
             v == Weight[j]
             c == bs[k]
  <2>1. j \in i..n /\ ~(k <= j) /\ j \in 0..7 /\ i - 1 < j /\ k \in 1..n
    BY <1>0, <1>2, <1>5
  <2>2. PICK q \in Nat : Low(bs, j) = x + w * (b + Base * q)
    <3>1. j \notin Bad
      BY <1>1, <2>1
    <3> QED BY <2>1, <3>1
  <2>3. Low(bs, k) = Low(bs, j) + c * v
    BY <2>1, LowStep
  <2>4. PICK r \in Nat : v = w * (Base * r)
    BY <1>0, <2>1, WeightMultiple
  <2>5. c \in Nat
    <3>1. c \in 0..(Base - 1)
      BY <2>1, WorthType
    <3> QED BY <3>1, BaseAssumption
  <2> HIDE DEF x, w, b, v, c
  <2>6. c * (w * (Base * r)) = w * (Base * (c * r))
    BY <1>3, <2>4, <2>5
  <2>7. w * (b + Base * q) + w * (Base * (c * r)) = w * (b + Base * (q + c * r))
    BY <1>3, <2>5
  <2>8. q + c * r \in Nat
    BY <2>5
  <2>9. Low(bs, k) = x + w * (b + Base * (q + c * r))
    <3> DEFINE y == w * (b + Base * q)
               z == w * (Base * (c * r))
    <3>1. y \in Int /\ z \in Int
      BY <1>3, <2>5
    <3>2. Low(bs, k) = (x + y) + z
      BY <2>2, <2>3, <2>4, <2>6
    <3>3. y + z = w * (b + Base * (q + c * r))
      BY <2>7
    <3> HIDE DEF y, z
    <3> QED BY <1>3, <3>1, <3>2, <3>3
  <2> QED BY <1>2, <2>8, <2>9
<1> QED BY <1>0, <1>2, <1>4, <1>5

(* Byte i of the number that x86 reads is byte i of the file. *)
LEMMA NativeDigit ==
    ASSUME NEW n, NEW bs, IsBytes(bs, n), NEW i \in 1..n
    PROVE  (Native(bs) \div Weight[i - 1]) % Base = bs[i]
<1> DEFINE x == Low(bs, i - 1)
           w == Weight[i - 1]
           b == bs[i]
<1>1. PICK q \in Nat : Low(bs, n) = x + w * (b + Base * q)
  BY LowSplit
<1>2. n \in 1..8 /\ DOMAIN bs = 1..n
  BY DEF IsBytes
<1>3. Native(bs) = Low(bs, n)
  BY <1>2 DEF Native, Low, Worth
<1>4. w \in Nat \ {0} /\ x \in 0..(w - 1)
  <2>1. i - 1 \in 0..7 /\ i - 1 \in 0..n /\ i - 1 \in 0..(n - 1)
    BY <1>2
  <2>2. x < w /\ x \in Nat /\ w \in Nat \ {0}
    BY <2>1, LowBound, LowStep, WeightPositive
  <2> HIDE DEF x, w
  <2> QED BY <2>2
<1>5. b \in 0..(Base - 1) /\ Base \in Nat \ {0}
  BY WorthType, BaseAssumption
<1> HIDE DEF x, w, b
<1> DEFINE m == b + Base * q
<1>6. m \in Int
  BY <1>5
<1> HIDE DEF m
<1>7. (x + w * m) \div w = m
  BY <1>4, <1>6, DivisionUnique
<1>8. (b + Base * q) % Base = b
  <2>1. q \in Int
    OBVIOUS
  <2> QED BY <1>5, <2>1, DivisionUnique
<1>9. Native(bs) \div w = m
  BY <1>1, <1>3, <1>7 DEF m
<1>10. m % Base = b
  BY <1>8 DEF m
<1>11. (Native(bs) \div w) % Base = b
  BY <1>9, <1>10
<1> QED BY <1>11 DEF w, b

----------------------------------------------------------------------------
(* The value of a big-endian number, which the library folds from the      *)
(* left.                                                                   *)

(* g has the values of the numbers that s has in subsets of 1..n. *)
Values(g, s, n) ==
    g = [S \in SUBSET (1..n) |->
            IF S = {} THEN 0 ELSE g[S \ {Max(S)}] * Base + s[Max(S)]]

(* The fold's equation has a solution: one index more at a time. *)
LEMMA ValuesExist ==
    ASSUME NEW s, NEW n \in Nat
    PROVE  \E g : Values(g, s, n)
<1> DEFINE Solved(k) == \E g : Values(g, s, k)
           Bad == {k \in Nat : ~Solved(k)}
<1> SUFFICES ASSUME Bad # {} PROVE FALSE
  OBVIOUS
<1>1. PICK k \in Bad : \A m \in Bad : k <= m
  <2>1. Bad \in SUBSET Nat
    OBVIOUS
  <2> HIDE DEF Bad
  <2> QED BY <2>1, LeastNat
<1>2. k \in Nat /\ ~Solved(k)
  BY <1>1
<1>3. CASE k = 0
  <2> DEFINE g == [S \in SUBSET (1..0) |-> 0]
  <2>1. SUBSET (1..0) = {{}}
    OBVIOUS
  <2>2. Values(g, s, 0)
    BY <2>1, Zenon DEF Values
  <2> QED BY <1>2, <1>3, <2>2
<1>4. CASE k # 0
  <2> DEFINE m == k - 1
  <2>1. m \in Nat /\ k = m + 1 /\ ~(k <= m)
    BY <1>2, <1>4
  <2>2. Solved(m)
    <3>1. m \notin Bad
      BY <1>1, <2>1
    <3> QED BY <2>1, <3>1
  <2> HIDE DEF m
  <2>3. PICK h : Values(h, s, m)
    BY <2>2
  <2> DEFINE E(f, S) == IF S = {} THEN 0 ELSE f[S \ {Max(S)}] * Base + s[Max(S)]
             g1 == [S \in SUBSET (1..k) |-> IF k \in S THEN 0 ELSE h[S]]
             g  == [S \in SUBSET (1..k) |-> E(g1, S)]
  <2>4. ASSUME NEW S \in SUBSET (1..k), k \notin S
        PROVE  S \in SUBSET (1..m)
    BY <1>2, <2>1, <2>4
  <2>5. ASSUME NEW S \in SUBSET (1..m)
        PROVE  g[S] = h[S]
    <3>1. S \in SUBSET (1..k) /\ k \notin S
      BY <2>1
    <3>2. CASE S = {}
      <4>1. h[S] = 0
        BY <2>3, <2>5, <3>2, Zenon DEF Values
      <4>2. g[S] = 0
        BY <3>1, <3>2, Zenon
      <4> QED BY <4>1, <4>2
    <3>3. CASE S # {}
      <4>1. S \ {Max(S)} \in SUBSET (1..m) /\ S \ {Max(S)} \in SUBSET (1..k) /\ k \notin S \ {Max(S)}
        BY <3>1
      <4>2. h[S] = h[S \ {Max(S)}] * Base + s[Max(S)]
        BY <2>3, <2>5, <3>3, Zenon DEF Values
      <4>3. g[S] = g1[S \ {Max(S)}] * Base + s[Max(S)]
        BY <3>1, <3>3, Zenon
      <4>4. g1[S \ {Max(S)}] = h[S \ {Max(S)}]
        BY <4>1, Zenon
      <4> QED BY <4>2, <4>3, <4>4
    <3> QED BY <3>2, <3>3
  <2>6. ASSUME NEW S \in SUBSET (1..k), S # {}
        PROVE  g1[S \ {Max(S)}] = g[S \ {Max(S)}]
    <3> DEFINE T == S \ {Max(S)}
    <3>1. Max(S) \in S /\ \A j \in S : j <= Max(S)
      BY <1>2, <2>6, MaxIn
    <3>2. k \notin T /\ T \in SUBSET (1..k)
      <4> DEFINE x == Max(S)
      <4>1. x \in 1..k /\ (k \in S => k <= x)
        BY <3>1
      <4> HIDE DEF x
      <4>2. k \in S => x = k
        BY <1>2, <4>1
      <4>3. T = S \ {x}
        BY DEF x
      <4> HIDE DEF T
      <4> QED BY <4>2, <4>3
    <3>3. T \in SUBSET (1..m)
      BY <2>4, <3>2
    <3> HIDE DEF T
    <3>4. g1[T] = h[T]
      BY <3>2, Zenon
    <3>5. g[T] = h[T]
      BY <2>5, <3>3
    <3> QED BY <3>4, <3>5 DEF T
  <2>7. \A S \in SUBSET (1..k) : E(g1, S) = E(g, S)
    <3> HIDE DEF g, g1
    <3> QED BY <2>6
  <2>8. Values(g, s, k)
    <3>1. g = [S \in SUBSET (1..k) |-> E(g, S)]
      <4>1. g = [S \in SUBSET (1..k) |-> E(g1, S)]
        OBVIOUS
      <4> HIDE DEF g, g1, E
      <4> QED BY <2>7, <4>1, Zenon
    <3> HIDE DEF g
    <3> QED BY <3>1, Zenon DEF Values
  <2> QED BY <1>2, <2>8
<1> QED BY <1>3, <1>4

(* The fold is the value of the whole sequence by such a solution. *)
LEMMA BigEndianIs ==
    ASSUME NEW s, NEW n \in Nat, DOMAIN s = 1..n
    PROVE  \E g : Values(g, s, n) /\ BigEndian(s) = g[1..n]
<1> DEFINE f == CHOOSE g : Values(g, s, n)
<1>1. Values(f, s, n)
  BY ValuesExist, Zenon
<1>2. BigEndian(s) = f[1..n]
  BY Zenon DEF BigEndian, FoldLeft, MapThenFoldSet, Values, f
<1> QED BY <1>1, <1>2

(* Horner's scheme, on the sequence's beginnings. *)
LEMMA ValuesStep ==
    ASSUME NEW s, NEW n \in Nat, NEW g, Values(g, s, n)
    PROVE  /\ g[1..0] = 0
           /\ \A k \in 1..n : g[1..k] = g[1..(k - 1)] * Base + s[k]
<1>1. g[1..0] = 0
  <2>1. 1..0 = {} /\ {} \in SUBSET (1..n)
    OBVIOUS
  <2>2. g[{}] = 0
    BY <2>1, Zenon DEF Values
  <2> QED BY <2>1, <2>2
<1>2. ASSUME NEW k \in 1..n
      PROVE  g[1..k] = g[1..(k - 1)] * Base + s[k]
  <2> DEFINE S == 1..k
             x == Max(S)
  <2>1. S \in SUBSET (1..n) /\ S # {}
    OBVIOUS
  <2>2. x \in S /\ \A j \in S : j <= x
    <3> HIDE DEF S
    <3> QED BY <2>1, MaxIn
  <2>3. x = k
    <3>1. x \in 1..k /\ k <= x
      BY <2>2
    <3> HIDE DEF x
    <3> QED BY <3>1
  <2>4. g[S] = g[S \ {x}] * Base + s[x]
    <3> HIDE DEF S
    <3> QED BY <2>1, Zenon DEF Values, x
  <2>5. S \ {k} = 1..(k - 1)
    OBVIOUS
  <2> HIDE DEF x
  <2> QED BY <2>3, <2>4, <2>5
<1> QED BY <1>1, <1>2

----------------------------------------------------------------------------
(* The swap: the bytes 1..k of bs, the first of them worth most. *)
SwappedWorth(bs, k) == [i \in 0..(k - 1) |-> bs[i + 1] * Weight[k - 1 - i]]
Swapped(bs, k) == SumFunctionOnSet(SwappedWorth(bs, k), 0..(k - 1))

(* What byte i + 1 of k bytes contributes after the swap. *)
LEMMA SwappedWorthType ==
    ASSUME NEW n, NEW bs, IsBytes(bs, n), NEW k \in 1..n, NEW i \in 0..(k - 1)
    PROVE  SwappedWorth(bs, k)[i] = bs[i + 1] * Weight[k - 1 - i]
           /\ SwappedWorth(bs, k)[i] \in Int
           /\ bs[i + 1] \in Nat /\ Weight[k - 1 - i] \in Nat
<1> DEFINE b == bs[i + 1]
           w == Weight[k - 1 - i]
<1>1. n \in 1..8 /\ i + 1 \in 1..n /\ k - 1 - i \in 0..7
  BY DEF IsBytes
<1>2. b \in Nat
  <2>1. b \in 0..(Base - 1)
    BY <1>1, WorthType
  <2> HIDE DEF b
  <2> QED BY <2>1, BaseAssumption
<1>3. w \in Nat
  BY <1>1, WeightPositive
<1>4. SwappedWorth(bs, k)[i] = b * w
  BY DEF SwappedWorth
<1> HIDE DEF b, w
<1>5. b * w \in Int
  BY <1>2, <1>3
<1> QED BY <1>2, <1>3, <1>4, <1>5 DEF b, w

(* The swapped sum obeys Horner's scheme, too. *)
LEMMA SwappedStep ==
    ASSUME NEW n, NEW bs, IsBytes(bs, n)
    PROVE  /\ Swapped(bs, 0) = 0
           /\ \A k \in 1..n : /\ Swapped(bs, k - 1) \in Int
                              /\ Swapped(bs, k) = Swapped(bs, k - 1) * Base + bs[k]
<1>1. Swapped(bs, 0) = 0
  <2>1. 0..(0 - 1) = {}
    OBVIOUS
  <2> QED BY <2>1, SumEmpty DEF Swapped
<1>2. ASSUME NEW k \in 1..n
      PROVE  Swapped(bs, k - 1) \in Int
             /\ Swapped(bs, k) = Swapped(bs, k - 1) * Base + bs[k]
  <2> DEFINE f == SwappedWorth(bs, k)
             e == SwappedWorth(bs, k - 1)
             S == 0..(k - 2)
             x == k - 1
  <2>0. n \in 1..8 /\ k \in Int /\ 0 \in Int /\ k - 2 \in Int
    BY DEF IsBytes
  <2>1. IsFiniteSet(S)
    BY <2>0, FS_Interval
  <2>2. S \union {x} = 0..(k - 1) /\ x \notin S /\ 0..((k - 1) - 1) = S
    BY <2>0
  <2>3. \A i \in 0..(k - 1) : f[i] = bs[i + 1] * Weight[k - 1 - i] /\ f[i] \in Int
    BY SwappedWorthType
  <2>4. f[x] = bs[k] /\ bs[k] \in Int
    <3>1. x \in 0..(k - 1) /\ x + 1 = k /\ k - 1 - x = 0
      BY <2>0
    <3>2. f[x] = bs[x + 1] * Weight[k - 1 - x] /\ bs[x + 1] \in Nat
      BY <3>1, SwappedWorthType
    <3> HIDE DEF f, x
    <3>3. f[x] = bs[k] * 1 /\ bs[k] \in Nat
      BY <3>1, <3>2, WeightStep
    <3> QED BY <3>3
  <2>5. \A i \in S : e[i] \in Int /\ f[i] = Base * e[i]
    <3> SUFFICES ASSUME NEW i \in S
                 PROVE  e[i] \in Int /\ f[i] = Base * e[i]
      OBVIOUS
    <3> DEFINE j == k - 2 - i
               b == bs[i + 1]
               w == Weight[j]
    <3>1. /\ i \in 0..(k - 1) /\ k - 1 \in 1..n /\ i \in 0..((k - 1) - 1)
          /\ j \in 0..6 /\ k - 1 - i = j + 1 /\ (k - 1) - 1 - i = j
      BY <2>0
    <3>2. f[i] = b * Weight[k - 1 - i] /\ b \in Nat
      BY <3>1, SwappedWorthType
    <3>3. e[i] = b * Weight[(k - 1) - 1 - i] /\ e[i] \in Int /\ Weight[(k - 1) - 1 - i] \in Nat
      BY <3>1, SwappedWorthType
    <3>4. Weight[j + 1] = Base * w
      BY <3>1, WeightStep
    <3> HIDE DEF f, e, b, j
    <3>5. f[i] = b * (Base * w) /\ e[i] = b * w /\ w \in Nat
      BY <3>1, <3>2, <3>3, <3>4
    <3> HIDE DEF w
    <3>6. b * (Base * w) = Base * (b * w)
      BY <3>2, <3>5, BaseAssumption
    <3> QED BY <3>3, <3>5, <3>6
  <2>6. Swapped(bs, k) = SumFunctionOnSet(f, S) + f[x]
    <3>1. \A y \in S : f[y] \in Int
      BY <2>2, <2>3
    <3>2. f[x] \in Int
      BY <2>4
    <3> HIDE DEF f, S, x
    <3>3. SumFunctionOnSet(f, S \union {x}) = SumFunctionOnSet(f, S) + f[x]
      <4>1. x \notin S
        BY <2>2
      <4> QED BY <2>1, <3>1, <3>2, <4>1, SumAdd
    <3> QED BY <2>2, <3>3 DEF Swapped, f
  <2>7. Swapped(bs, k - 1) = SumFunctionOnSet(e, S)
    <3> HIDE DEF S
    <3> QED BY <2>2 DEF Swapped
  <2>8. Base \in Int
    BY BaseAssumption
  <2> HIDE DEF f, e, S, x
  <2>9. SumFunctionOnSet(f, S) = Base * SumFunctionOnSet(e, S)
    BY <2>1, <2>5, <2>8, SumScale
  <2>10. SumFunctionOnSet(e, S) \in Int
    BY <2>1, <2>5, SumType
  <2> DEFINE t == SumFunctionOnSet(e, S)
  <2>11. /\ Swapped(bs, k) = Base * t + bs[k] /\ t \in Int
         /\ Swapped(bs, k - 1) = t
    BY <2>4, <2>6, <2>7, <2>9, <2>10
  <2> HIDE DEF t
  <2>12. Base * t = t * Base
    BY <2>8, <2>11
  <2> QED BY <2>11, <2>12
<1> QED BY <1>1, <1>2

(* What the code makes of n bytes is the big-endian number they stand for. *)
LEMMA NumberIsBigEndian ==
    ASSUME NEW n, NEW bs, IsBytes(bs, n), Len(bs) = n
    PROVE  Number(bs) = BigEndian(bs)
<1>1. n \in 1..8 /\ DOMAIN bs = 1..n /\ n \in Nat
  BY DEF IsBytes
<1>2. PICK g : Values(g, bs, n) /\ BigEndian(bs) = g[1..n]
  BY <1>1, BigEndianIs
<1>3. /\ g[1..0] = 0
      /\ \A k \in 1..n : g[1..k] = g[1..(k - 1)] * Base + bs[k]
  BY <1>1, <1>2, ValuesStep
<1> DEFINE Bad == {k \in 0..n : Swapped(bs, k) # g[1..k]}
<1>4. Bad = {}
  <2> SUFFICES ASSUME Bad # {} PROVE FALSE
    OBVIOUS
  <2>1. PICK k \in Bad : \A l \in Bad : k <= l
    <3>1. Bad \in SUBSET Nat
      BY <1>1
    <3> HIDE DEF Bad
    <3> QED BY <3>1, LeastNat
  <2>2. k \in 0..n /\ Swapped(bs, k) # g[1..k]
    BY <2>1
  <2>3. k # 0
    <3>1. k = 0 => Swapped(bs, 0) # g[1..0]
      BY <2>2
    <3> QED BY <1>3, <3>1, SwappedStep
  <2>4. k \in 1..n /\ k - 1 \in 0..n /\ ~(k <= k - 1)
    BY <1>1, <2>2, <2>3
  <2>5. Swapped(bs, k - 1) = g[1..(k - 1)]
    BY <2>1, <2>4
  <2>6. Swapped(bs, k) = Swapped(bs, k - 1) * Base + bs[k]
    BY <2>4, SwappedStep
  <2>7. g[1..k] = g[1..(k - 1)] * Base + bs[k]
    BY <1>3, <2>4
  <2> QED BY <2>2, <2>5, <2>6, <2>7
<1>5. Swapped(bs, n) = g[1..n]
  BY <1>1, <1>4
<1>6. bswap(Native(bs), n) = Swapped(bs, n)
  <2>1. \A i \in 0..(n - 1) : (Native(bs) \div Weight[i]) % Base = bs[i + 1]
    <3> TAKE i \in 0..(n - 1)
    <3>1. i + 1 \in 1..n /\ (i + 1) - 1 = i
      BY <1>1
    <3>2. (Native(bs) \div Weight[(i + 1) - 1]) % Base = bs[i + 1]
      BY <3>1, NativeDigit
    <3> QED BY <3>1, <3>2
  <2> DEFINE d(i) == (Native(bs) \div Weight[i]) % Base
  <2>2. [i \in 0..(n - 1) |-> d(i) * Weight[n - 1 - i]] = SwappedWorth(bs, n)
    <3>1. \A i \in 0..(n - 1) : d(i) = bs[i + 1]
      BY <2>1
    <3> HIDE DEF d
    <3> QED BY <3>1 DEF SwappedWorth
  <2> QED BY <2>2 DEF bswap, Swapped
<1> QED BY <1>2, <1>5, <1>6 DEF Number

(* and a natural number. *)
LEMMA BigEndianType ==
    ASSUME NEW n, NEW bs, IsBytes(bs, n)
    PROVE  BigEndian(bs) \in Nat
<1>1. n \in 1..8 /\ DOMAIN bs = 1..n /\ n \in Nat
  BY DEF IsBytes
<1>2. PICK g : Values(g, bs, n) /\ BigEndian(bs) = g[1..n]
  BY <1>1, BigEndianIs
<1>3. /\ g[1..0] = 0
      /\ \A k \in 1..n : g[1..k] = g[1..(k - 1)] * Base + bs[k]
  BY <1>1, <1>2, ValuesStep
<1> DEFINE Bad == {k \in 0..n : g[1..k] \notin Nat}
<1>4. Bad = {}
  <2> SUFFICES ASSUME Bad # {} PROVE FALSE
    OBVIOUS
  <2>1. PICK k \in Bad : \A l \in Bad : k <= l
    <3>1. Bad \in SUBSET Nat
      BY <1>1
    <3> HIDE DEF Bad
    <3> QED BY <3>1, LeastNat
  <2>2. k \in 0..n /\ g[1..k] \notin Nat
    BY <2>1
  <2>3. k # 0
    <3>1. k = 0 => g[1..0] \notin Nat
      BY <2>2
    <3> QED BY <1>3, <3>1
  <2>4. k \in 1..n /\ k - 1 \in 0..n /\ ~(k <= k - 1)
    BY <1>1, <2>2, <2>3
  <2> DEFINE p == g[1..(k - 1)]
             b == bs[k]
  <2>5. p \in Nat
    BY <2>1, <2>4
  <2>6. g[1..k] = p * Base + b
    BY <1>3, <2>4
  <2>7. b \in Nat
    <3>1. b \in 0..(Base - 1)
      BY <2>4, WorthType
    <3> HIDE DEF b
    <3> QED BY <3>1, BaseAssumption
  <2> HIDE DEF p, b, Bad
  <2>8. p * Base + b \in Nat
    BY <2>5, <2>7, BaseAssumption
  <2> QED BY <2>2, <2>6, <2>8
<1>5. g[1..n] \in Nat
  BY <1>1, <1>4
<1> QED BY <1>2, <1>5

----------------------------------------------------------------------------
(* The beginnings of the messages of a file s.                             *)

LengthIn(s, p) == BigEndian(SubSeq(s, p + 1, p + 2))

(* The end of the file cuts off the message at p. *)
CutOff(s, p) == p + 3 > Len(s) \/ p + 2 + LengthIn(s, p) > Len(s)

Beyond(s, p) == p + 2 + LengthIn(s, p)

(* What begins from p on, where g says it for the positions after p. *)
FromHere(s, g, p) ==
    IF CutOff(s, p) THEN {}
    ELSE {p} \union IF LengthIn(s, p) = 0 THEN {} ELSE g[Beyond(s, p)]

Beginning(s, g, m) == g = [p \in m..Len(s) |-> FromHere(s, g, p)]

Begins(s) == CHOOSE g : Beginning(s, g, 0)

FieldIn(s, p, first, last) == SubSeq(s, p + 3 + first, p + 3 + last)

(* Order r is what the Add message at p of s says. *)
SaysIn(s, p, r) ==
    LET stock == FieldIn(s, p, 26, 33)
    IN  /\ r.timestamp_ns = BigEndian(FieldIn(s, p, 5, 12))
        /\ r.order_id = BigEndian(FieldIn(s, p, 13, 20))
        /\ r.side = IF FieldIn(s, p, 21, 21) = <<BUY>> THEN "BUY" ELSE "SELL"
        /\ r.quantity = BigEndian(FieldIn(s, p, 22, 25))
        /\ r.price = BigEndian(FieldIn(s, p, 34, 37))
        /\ IsPrefix(r.symbol, stock)
        /\ ToSet(r.symbol) \intersect {SPACE, 0} = {}
        /\ Len(r.symbol) < 7 => stock[Len(r.symbol) + 1] \in {SPACE, 0}

----------------------------------------------------------------------------
(* The inductive invariant: up to pos the parser has read what begins      *)
(* there, from pos on everything is still ahead.                           *)

Messages == Begins(file)[0]
AddsIn(s, n, k) ==
    {p \in Begins(s)[0] : p < n /\ s[p + 3] = ADD /\ LengthIn(s, p) >= k}
AddsBefore(n) == AddsIn(file, n, AddOrderSize + 1)
Place(S, p) == Cardinality({q \in S : q <= p})

ItchType ==
    /\ file \in File
    /\ pos \in 0..Len(file)
    /\ status \in {"reading", "done", "threw"}

ReadSoFar ==
    /\ {q \in Messages : q >= pos} = Begins(file)[pos]
    /\ \A q \in Messages : q < pos => LengthIn(file, q) > 0

ParsedSoFar ==
    status # "threw" =>
        /\ \E S : result \in Seq(S)
        /\ Len(result) = Cardinality(AddsBefore(pos))
        /\ \A p \in AddsBefore(pos) : SaysIn(file, p, result[Place(AddsBefore(pos), p)])

Ended ==
    /\ status = "done" => Begins(file)[pos] = {}
    /\ status = "threw" => \E p \in Messages : LengthIn(file, p) = 0

ItchInv == ItchType /\ ReadSoFar /\ ParsedSoFar /\ Ended

----------------------------------------------------------------------------
(* A stretch of at most eight bytes of a file. *)
LEMMA StretchIsBytes ==
    ASSUME NEW s \in Seq(Byte), NEW a \in 1..Len(s), NEW b \in a..Len(s), b - a + 1 <= 8
    PROVE  /\ IsBytes(SubSeq(s, a, b), b - a + 1)
           /\ Len(SubSeq(s, a, b)) = b - a + 1
<1> DEFINE t == SubSeq(s, a, b)
           n == b - a + 1
<1>1. a \in Int /\ b \in Int /\ a <= b /\ \A i \in a..b : s[i] \in Byte
  OBVIOUS
<1>2. t \in Seq(Byte) /\ Len(t) = n
  <2>1. t \in Seq(Byte) /\ Len(t) = IF a <= b THEN n ELSE 0
    BY <1>1, SubSeqProperties
  <2> HIDE DEF t
  <2> QED BY <1>1, <2>1
<1>3. n \in 1..8
  BY <1>1
<1> HIDE DEF t, n
<1>4. t \in [1..n -> Byte]
  BY <1>2
<1> QED BY <1>2, <1>3, <1>4 DEF IsBytes, t, n

(* The length that the parser reads is the one the file states. *)
LEMMA LengthInType ==
    ASSUME NEW s \in Seq(Byte), NEW p \in 0..Len(s), p + 2 <= Len(s)
    PROVE  /\ LengthIn(s, p) \in Nat
           /\ Number(SubSeq(s, p + 1, p + 2)) = LengthIn(s, p)
<1> DEFINE a == p + 1
           b == p + 2
<1>1. /\ a \in 1..Len(s) /\ b \in a..Len(s) /\ b - a + 1 = 2
  OBVIOUS
<1> HIDE DEF a, b
<1>2. IsBytes(SubSeq(s, a, b), 2) /\ Len(SubSeq(s, a, b)) = 2
  BY <1>1, StretchIsBytes
<1>3. BigEndian(SubSeq(s, a, b)) \in Nat
  BY <1>2, BigEndianType
<1>4. Number(SubSeq(s, a, b)) = BigEndian(SubSeq(s, a, b))
  BY <1>2, NumberIsBigEndian
<1> QED BY <1>3, <1>4 DEF LengthIn, a, b

(* What follows a complete message lies after it, in the file. *)
LEMMA BeyondIn ==
    ASSUME NEW s \in Seq(Byte), NEW p \in 0..Len(s), ~CutOff(s, p)
    PROVE  /\ LengthIn(s, p) \in Nat
           /\ p + 3 <= Len(s)
           /\ Beyond(s, p) = p + 2 + LengthIn(s, p)
           /\ Beyond(s, p) \in (p + 2)..Len(s)
<1> DEFINE l == LengthIn(s, p)
<1>1. Len(s) \in Nat /\ p \in Nat
  OBVIOUS
<1>2. p + 3 <= Len(s)
  BY <1>1 DEF CutOff
<1>3. l \in Nat
  BY <1>1, <1>2, LengthInType
<1>4. ~(p + 2 + l > Len(s)) /\ Beyond(s, p) = p + 2 + l
  BY DEF CutOff, Beyond
<1> HIDE DEF l
<1> QED BY <1>1, <1>2, <1>3, <1>4 DEF l

(* The recursion along the file has a solution: from the end. *)
LEMMA BeginsExists ==
    ASSUME NEW s \in Seq(Byte)
    PROVE  Beginning(s, Begins(s), 0)
<1> DEFINE n == Len(s)
           Solved(m) == \E g : Beginning(s, g, m)
           Bad == {k \in 0..n : ~Solved(n - k)}
<1>0. n \in Nat
  OBVIOUS
<1>1. SUFFICES ASSUME Bad # {} PROVE FALSE
  <2>1. CASE Bad = {}
    <3>1. n \in 0..n /\ n - n = 0
      BY <1>0
    <3>2. Solved(n - n)
      BY <2>1, <3>1
    <3>3. \E g : Beginning(s, g, 0)
      BY <3>1, <3>2
    <3> QED BY <3>3, Zenon DEF Begins
  <2> QED BY <2>1
<1>2. PICK k \in Bad : \A l \in Bad : k <= l
  <2>1. Bad \in SUBSET Nat
    BY <1>0
  <2> HIDE DEF Bad
  <2> QED BY <1>1, <2>1, LeastNat
<1> DEFINE m == n - k
<1>3. k \in 0..n /\ m \in 0..n /\ ~Solved(m)
  BY <1>0, <1>2
<1>4. CASE m = n
  <2> DEFINE g == [p \in n..n |-> {}]
  <2>1. \A p \in n..n : p = n /\ CutOff(s, p)
    BY <1>0 DEF CutOff
  <2>2. \A p \in n..n : FromHere(s, g, p) = {}
    BY <2>1 DEF FromHere
  <2>3. g = [p \in n..n |-> FromHere(s, g, p)]
    <3>1. \A p \in n..n : g[p] = FromHere(s, g, p)
      BY <2>2, Zenon
    <3> QED BY <2>2, Zenon
  <2>4. Beginning(s, g, n)
    BY <2>3, Zenon DEF Beginning
  <2> QED BY <1>3, <1>4, <2>4
<1>5. CASE m # n
  <2>1. m + 1 \in 0..n /\ k - 1 \in 0..n /\ n - (k - 1) = m + 1 /\ ~(k <= k - 1)
    BY <1>0, <1>3, <1>5
  <2>2. Solved(n - (k - 1))
    <3>1. k - 1 \notin Bad
      BY <1>2, <2>1
    <3> QED BY <2>1, <3>1
  <2>3. Solved(m + 1)
    BY <2>1, <2>2
  <2>4. PICK h : Beginning(s, h, m + 1)
    BY <2>3
  <2> DEFINE g == [p \in m..n |-> IF p = m THEN FromHere(s, h, m) ELSE h[p]]
  <2>5. \A p \in (m + 1)..n : g[p] = h[p] /\ h[p] = FromHere(s, h, p)
    <3>1. \A p \in (m + 1)..n : p \in m..n /\ p # m
      BY <1>0, <1>3
    <3>2. \A p \in (m + 1)..n : h[p] = FromHere(s, h, p)
      BY <2>4, Zenon DEF Beginning
    <3> HIDE DEF m
    <3>3. \A p \in (m + 1)..n : g[p] = h[p]
      BY <3>1, Zenon
    <3> QED BY <3>2, <3>3
  <2>6. \A p \in m..n : FromHere(s, g, p) = FromHere(s, h, p)
    <3> SUFFICES ASSUME NEW p \in m..n
                 PROVE  FromHere(s, g, p) = FromHere(s, h, p)
      OBVIOUS
    <3>1. ~CutOff(s, p) => g[Beyond(s, p)] = h[Beyond(s, p)]
      <4> SUFFICES ASSUME ~CutOff(s, p)
                   PROVE  g[Beyond(s, p)] = h[Beyond(s, p)]
        OBVIOUS
      <4>1. p \in 0..Len(s)
        BY <1>0, <1>3
      <4>2. Beyond(s, p) \in (p + 2)..n
        BY <4>1, BeyondIn
      <4>3. Beyond(s, p) \in (m + 1)..n
        <5> DEFINE q == Beyond(s, p)
        <5>1. q \in (p + 2)..n
          BY <4>2
        <5> HIDE DEF q
        <5>2. q \in (m + 1)..n
          BY <1>0, <1>3, <5>1
        <5> QED BY <5>2 DEF q
      <4> HIDE DEF g
      <4> QED BY <2>5, <4>3
    <3> HIDE DEF g
    <3> QED BY <3>1 DEF FromHere
  <2>7. \A p \in m..n : g[p] = FromHere(s, g, p)
    <3> SUFFICES ASSUME NEW p \in m..n
                 PROVE  g[p] = FromHere(s, g, p)
      OBVIOUS
    <3>1. CASE p = m
      <4>1. g[p] = FromHere(s, h, p)
        BY <3>1, Zenon
      <4> QED BY <2>6, <4>1
    <3>2. CASE p # m
      <4>1. p \in (m + 1)..n
        BY <1>0, <1>3, <3>2
      <4> HIDE DEF g
      <4> QED BY <2>5, <2>6, <4>1
    <3> QED BY <3>1, <3>2
  <2>8. Beginning(s, g, m)
    <3>1. g = [p \in m..n |-> g[p]]
      BY Zenon
    <3>2. [p \in m..n |-> g[p]] = [p \in m..n |-> FromHere(s, g, p)]
      <4> HIDE DEF g
      <4> QED BY <2>7, Zenon
    <3> HIDE DEF g
    <3>3. g = [p \in m..n |-> FromHere(s, g, p)]
      BY <3>1, <3>2, Zenon
    <3> QED BY <3>3, Zenon DEF Beginning
  <2> QED BY <1>3, <2>8
<1> QED BY <1>4, <1>5

(* What begins at a position: nothing if the message there is cut off. *)
LEMMA BeginsAt ==
    ASSUME NEW s \in Seq(Byte), NEW p \in 0..Len(s)
    PROVE  /\ CutOff(s, p) => Begins(s)[p] = {}
           /\ ~CutOff(s, p) /\ LengthIn(s, p) = 0 => Begins(s)[p] = {p}
           /\ ~CutOff(s, p) /\ LengthIn(s, p) # 0
                => Begins(s)[p] = {p} \union Begins(s)[Beyond(s, p)]
<1>1. Begins(s)[p] = FromHere(s, Begins(s), p)
  BY BeginsExists, Zenon DEF Beginning
<1> QED BY <1>1 DEF FromHere

(* The messages that begin from p on are complete, at p or after it. *)
LEMMA BeginsIn ==
    ASSUME NEW s \in Seq(Byte), NEW p \in 0..Len(s), NEW q \in Begins(s)[p]
    PROVE  q \in p..Len(s) /\ ~CutOff(s, q)
<1> DEFINE n == Len(s)
           Good(m) == \A r \in Begins(s)[m] : r \in m..n /\ ~CutOff(s, r)
           Bad == {k \in 0..n : ~Good(n - k)}
<1>0. n \in Nat
  OBVIOUS
<1>1. SUFFICES ASSUME Bad # {} PROVE FALSE
  <2>1. CASE Bad = {}
    <3>1. n - p \in 0..n /\ n - (n - p) = p
      BY <1>0
    <3>2. Good(n - (n - p))
      BY <2>1, <3>1
    <3>3. Good(p)
      BY <3>1, <3>2
    <3> QED BY <3>3
  <2> QED BY <2>1
<1>2. PICK k \in Bad : \A l \in Bad : k <= l
  <2>1. Bad \in SUBSET Nat
    BY <1>0
  <2> HIDE DEF Bad
  <2> QED BY <1>1, <2>1, LeastNat
<1> DEFINE m == n - k
<1>3. k \in 0..n /\ m \in 0..n /\ ~Good(m)
  BY <1>0, <1>2
<1>4. PICK r \in Begins(s)[m] : ~(r \in m..n /\ ~CutOff(s, r))
  BY <1>3
<1>5. ~CutOff(s, m)
  BY <1>3, <1>4, BeginsAt
<1>6. r # m
  <2>1. m \in m..n
    BY <1>0, <1>3
  <2> HIDE DEF m
  <2> QED BY <1>4, <1>5, <2>1
<1> DEFINE b == Beyond(s, m)
<1>7. r \in Begins(s)[b]
  BY <1>3, <1>4, <1>5, <1>6, BeginsAt
<1>8. b \in (m + 2)..n
  BY <1>3, <1>5, BeyondIn
<1> HIDE DEF b
<1>9. n - b \in 0..n /\ n - (n - b) = b /\ ~(k <= n - b)
  BY <1>0, <1>3, <1>8
<1>10. Good(n - (n - b))
  <2>1. n - b \notin Bad
    BY <1>2, <1>9
  <2> QED BY <1>9, <2>1
<1>11. r \in b..n /\ ~CutOff(s, r)
  BY <1>7, <1>9, <1>10
<1>12. r \in m..n
  BY <1>0, <1>3, <1>8, <1>11
<1> QED BY <1>4, <1>11, <1>12

----------------------------------------------------------------------------
(* What the parser makes of a complete Add message.                        *)
LEMMA MinIn ==
    ASSUME NEW S \in SUBSET Nat, S # {}
    PROVE  Min(S) \in S /\ \A x \in S : Min(S) <= x
<1>1. \E x \in S : \A y \in S : x <= y
  BY LeastNat
<1> QED BY <1>1, Zenon DEF Min

(* The symbol: the stock field up to the first space or NUL, seven         *)
(* characters at most.                                                     *)
LEMMA SymbolParsed ==
    ASSUME NEW stock \in Seq(Byte), Len(stock) = 8
    PROVE  LET r == ParsedSymbol(stock)
           IN  /\ IsPrefix(r, stock)
               /\ ToSet(r) \intersect {SPACE, 0} = {}
               /\ Len(r) < 7 => stock[Len(r) + 1] \in {SPACE, 0}
<1> DEFINE stops == {i \in DOMAIN stock : stock[i] \in {SPACE, 0}}
           n     == IF stops = {} THEN Len(stock) ELSE Min(stops) - 1
           m     == Min({n, 7})
           r     == SubSeq(stock, 1, m)
<1>1. stops \in SUBSET Nat /\ stops \in SUBSET (1..8)
  OBVIOUS
<1>2. stops # {} => Min(stops) \in stops /\ \A i \in stops : Min(stops) <= i
  <2> HIDE DEF stops
  <2> QED BY <1>1, MinIn
<1>3. /\ n \in 0..8
      /\ \A i \in stops : n < i
      /\ n < 7 => n + 1 \in stops
  <2>1. CASE stops = {}
    <3>1. n = 8
      BY <2>1
    <3> HIDE DEF n
    <3> QED BY <2>1, <3>1
  <2>2. CASE stops # {}
    <3> DEFINE x == Min(stops)
    <3>1. n = x - 1 /\ x \in stops /\ x \in 1..8 /\ \A i \in stops : x <= i
      BY <1>1, <1>2, <2>2
    <3>2. \A i \in stops : i \in 1..8
      BY <1>1
    <3> HIDE DEF n, x, stops
    <3> QED BY <3>1, <3>2
  <2> QED BY <2>1, <2>2
<1> HIDE DEF n
<1>4. m \in 0..7 /\ m <= n /\ (m < 7 => m = n)
  <2>1. {n, 7} \in SUBSET Nat /\ {n, 7} # {}
    BY <1>3
  <2>2. Min({n, 7}) \in {n, 7} /\ \A x \in {n, 7} : Min({n, 7}) <= x
    BY <2>1, MinIn
  <2>3. m \in {n, 7} /\ m <= n /\ m <= 7
    BY <2>2
  <2> HIDE DEF m
  <2> QED BY <1>3, <2>3
<1> HIDE DEF m, stops
<1>5. r \in Seq(Byte) /\ Len(r) = m /\ \A i \in 1..m : r[i] = stock[i]
  <2>1. 1 \in Int /\ m \in Int /\ \A i \in 1..m : stock[i] \in Byte
    <3>1. \A i \in 1..m : i \in 1..Len(stock)
      BY <1>4
    <3> HIDE DEF r
    <3>2. \A i \in 1..Len(stock) : stock[i] \in Byte
      BY ElementOfSeq
    <3> QED BY <1>4, <3>1, <3>2
  <2>2. /\ r \in Seq(Byte) /\ Len(r) = (IF 1 <= m THEN m - 1 + 1 ELSE 0)
        /\ \A i \in 1..(m - 1 + 1) : r[i] = stock[1 + i - 1]
    BY <2>1, SubSeqProperties
  <2>3. m - 1 + 1 = m /\ (~(1 <= m) => m = 0) /\ \A i \in 1..m : 1 + i - 1 = i
    BY <1>4
  <2> HIDE DEF r
  <2> QED BY <2>2, <2>3
<1>6. IsPrefix(r, stock)
  <2>1. SubSeq(r, 1, Len(r)) = r
    BY <1>5, SubSeqFull
  <2>2. SubSeq(stock, 1, Len(r)) = r
    BY <1>5
  <2>3. Len(r) <= Len(stock)
    BY <1>4, <1>5
  <2> HIDE DEF r
  <2> QED BY <2>1, <2>2, <2>3 DEF IsPrefix
<1>7. ToSet(r) \intersect {SPACE, 0} = {}
  <2>1. ASSUME NEW i \in 1..m
        PROVE  r[i] \notin {SPACE, 0}
    <3>1. i \in DOMAIN stock /\ i <= n /\ i \in Int
      BY <1>3, <1>4
    <3>2. i \notin stops
      BY <1>3, <3>1
    <3>3. stock[i] \notin {SPACE, 0}
      BY <3>1, <3>2 DEF stops
    <3> QED BY <1>5, <3>3
  <2>2. DOMAIN r = 1..m
    BY <1>5
  <2> HIDE DEF r
  <2> QED BY <2>1, <2>2 DEF ToSet
<1>8. Len(r) < 7 => stock[Len(r) + 1] \in {SPACE, 0}
  <2>1. m < 7 => stock[m + 1] \in {SPACE, 0}
    <3> SUFFICES ASSUME m < 7 PROVE stock[m + 1] \in {SPACE, 0}
      OBVIOUS
    <3>1. m + 1 \in stops
      BY <1>3, <1>4
    <3> QED BY <3>1 DEF stops
  <2> QED BY <1>5, <2>1
<1>9. ParsedSymbol(stock) = r
  BY Zenon DEF ParsedSymbol, stops, n, m
<1> HIDE DEF r
<1> QED BY <1>6, <1>7, <1>8, <1>9

(* The fields of a complete Add message that is long enough. *)
LEMMA FieldParsed ==
    ASSUME NEW s \in Seq(Byte), NEW p \in 0..Len(s), ~CutOff(s, p),
           LengthIn(s, p) >= AddOrderSize + 1,
           NEW a \in 1..37, NEW b \in a..37, b - a + 1 <= 8
    PROVE  LET t == SubSeq(SubSeq(s, p + 4, p + 2 + LengthIn(s, p)), a, b)
           IN  /\ t = SubSeq(s, p + 3 + a, p + 3 + b)
               /\ t \in Seq(Byte) /\ Len(t) = b - a + 1
               /\ Number(t) = BigEndian(t)
<1> DEFINE i == p + 4
           j == p + 2 + LengthIn(s, p)
           t == SubSeq(SubSeq(s, i, j), a, b)
           c == p + 3 + a
           d == p + 3 + b
<1>1. /\ Len(s) \in Nat /\ LengthIn(s, p) \in Nat /\ LengthIn(s, p) >= 38
      /\ j = p + 2 + LengthIn(s, p) /\ j <= Len(s)
  <2>1. LengthIn(s, p) \in Nat /\ Beyond(s, p) = j /\ Beyond(s, p) \in (p + 2)..Len(s)
    BY BeyondIn
  <2> HIDE DEF j
  <2> QED BY <2>1 DEF AddOrderSize, j
<1> DEFINE l == LengthIn(s, p)
<1>2. l \in Nat /\ l >= 38 /\ j = p + 2 + l
  BY <1>1
<1> HIDE DEF j, l
<1>3. i \in 1..Len(s) /\ j \in 1..Len(s) /\ a \in 1..(j - i + 1) /\ b \in 1..(j - i + 1)
  BY <1>1, <1>2
<1>4. i + a - 1 = c /\ i + b - 1 = d
  OBVIOUS
<1>5. t = SubSeq(s, c, d)
  <2> HIDE DEF c, d
  <2>1. t = SubSeq(s, i + a - 1, i + b - 1)
    <3> HIDE DEF i, t
    <3>1. SubSeq(SubSeq(s, i, j), a, b) = SubSeq(s, i + a - 1, i + b - 1)
      BY <1>3, SubSeqOfSubSeq
    <3> QED BY <3>1 DEF t
  <2> QED BY <1>4, <2>1
<1>6. c \in 1..Len(s) /\ d \in c..Len(s) /\ d - c + 1 = b - a + 1 /\ d - c + 1 <= 8
  BY <1>1, <1>2, <1>3
<1>7. IsBytes(t, b - a + 1) /\ Len(t) = b - a + 1
  <2> HIDE DEF c, d, t
  <2> QED BY <1>5, <1>6, StretchIsBytes
<1>8. t \in Seq(Byte)
  <2> HIDE DEF c, d, t
  <2>1. t = SubSeq(s, c, d) /\ c \in Int /\ d \in Int /\ \A x \in c..d : s[x] \in Byte
    <3>1. c \in Int /\ d \in Int /\ \A x \in c..d : x \in 1..Len(s)
      BY <1>1, <1>6
    <3>2. \A x \in 1..Len(s) : s[x] \in Byte
      OBVIOUS
    <3> QED BY <1>5, <3>1, <3>2
  <2>2. SubSeq(s, c, d) \in Seq(Byte)
    BY <2>1, SubSeqProperties
  <2> QED BY <2>1, <2>2
<1>9. Number(t) = BigEndian(t)
  <2> HIDE DEF t
  <2> QED BY <1>7, NumberIsBigEndian
<1> QED BY <1>5, <1>7, <1>8, <1>9 DEF t, j, l

(* The order made of an Add message is what the message says. *)
LEMMA OrderParsed ==
    ASSUME NEW s \in Seq(Byte), NEW p \in 0..Len(s), ~CutOff(s, p),
           LengthIn(s, p) >= AddOrderSize + 1, NEW f
    PROVE  SaysIn(s, p, ParsedOrder(SubSeq(s, p + 4, p + 2 + LengthIn(s, p)), f))
<1> DEFINE P       == SubSeq(s, p + 4, p + 2 + LengthIn(s, p))
           F(a, b) == SubSeq(s, p + 3 + a, p + 3 + b)
           T(a, b) == SubSeq(P, a, b)
<1>1. ASSUME NEW a \in 1..37, NEW b \in a..37, b - a + 1 <= 8
      PROVE  /\ T(a, b) = F(a, b) /\ T(a, b) \in Seq(Byte)
             /\ Len(T(a, b)) = b - a + 1
             /\ Number(T(a, b)) = BigEndian(F(a, b))
  BY <1>1, FieldParsed
<1> HIDE DEF P, F, T
<1>2. Number(T(5, 12)) = BigEndian(F(5, 12))
  BY <1>1
<1>3. Number(T(13, 20)) = BigEndian(F(13, 20))
  BY <1>1
<1>4. Number(T(22, 25)) = BigEndian(F(22, 25))
  BY <1>1
<1>5. Number(T(34, 37)) = BigEndian(F(34, 37))
  BY <1>1
<1>6. T(26, 33) = F(26, 33) /\ T(26, 33) \in Seq(Byte) /\ Len(T(26, 33)) = 8
  <2>1. 26 \in 1..37 /\ 33 \in 26..37 /\ 33 - 26 + 1 <= 8
    OBVIOUS
  <2>2. T(26, 33) = F(26, 33) /\ T(26, 33) \in Seq(Byte) /\ Len(T(26, 33)) = 33 - 26 + 1
    BY <1>1, <2>1
  <2>3. 33 - 26 + 1 = 8
    OBVIOUS
  <2> QED BY <2>2, <2>3
<1>7. P[21] = BUY <=> F(21, 21) = <<BUY>>
  <2> DEFINE t == T(21, 21)
  <2>1. t = F(21, 21) /\ t \in Seq(Byte) /\ Len(t) = 1
    <3>1. 21 \in 1..37 /\ 21 \in 21..37 /\ 21 - 21 + 1 <= 8
      OBVIOUS
    <3>2. T(21, 21) = F(21, 21) /\ T(21, 21) \in Seq(Byte) /\ Len(T(21, 21)) = 21 - 21 + 1
      BY <1>1, <3>1
    <3>3. 21 - 21 + 1 = 1
      OBVIOUS
    <3> QED BY <3>2, <3>3
  <2>2. t[1] = P[21]
    <3>1. \A i \in 21..21 : P[i] \in {P[21]}
      <4>1. \A i \in 21..21 : i = 21
        OBVIOUS
      <4> QED BY <4>1, Zenon
    <3>2. \A i \in 1..(21 - 21 + 1) : SubSeq(P, 21, 21)[i] = P[21 + i - 1]
      BY <3>1, SubSeqProperties
    <3>3. 1 \in 1..(21 - 21 + 1) /\ 21 + 1 - 1 = 21
      OBVIOUS
    <3>4. SubSeq(P, 21, 21)[1] = P[21]
      BY <3>2, <3>3
    <3> QED BY <3>4 DEF T
  <2> HIDE DEF t
  <2>3. P[21] = BUY => t = <<BUY>>
    <3> SUFFICES ASSUME P[21] = BUY PROVE t = <<BUY>>
      OBVIOUS
    <3>1. /\ t \in Seq(Byte) /\ <<BUY>> \in Seq({BUY}) /\ Len(t) = 1 /\ Len(<<BUY>>) = 1
          /\ t[1] = BUY /\ <<BUY>>[1] = BUY
      BY <2>1, <2>2
    <3>2. t = <<t[1]>>
      BY <2>1
    <3> QED BY <2>2, <3>2
  <2>4. t = <<BUY>> => P[21] = BUY
    <3>1. <<BUY>>[1] = BUY
      OBVIOUS
    <3> QED BY <2>2, <3>1
  <2> QED BY <2>1, <2>3, <2>4
<1> DEFINE stock == F(26, 33)
           r     == ParsedSymbol(stock)
<1>8. /\ IsPrefix(r, stock)
      /\ ToSet(r) \intersect {SPACE, 0} = {}
      /\ Len(r) < 7 => stock[Len(r) + 1] \in {SPACE, 0}
  <2>1. stock \in Seq(Byte) /\ Len(stock) = 8
    BY <1>6
  <2> HIDE DEF stock
  <2> QED BY <2>1, SymbolParsed
<1> DEFINE o == ParsedOrder(P, f)
<1>9. /\ o.timestamp_ns = Number(T(5, 12)) /\ o.order_id = Number(T(13, 20))
      /\ o.side = IF P[21] = BUY THEN "BUY" ELSE "SELL"
      /\ o.quantity = Number(T(22, 25)) /\ o.price = Number(T(34, 37))
      /\ o.symbol = ParsedSymbol(T(26, 33))
  BY DEF ParsedOrder, T
<1>10. o.symbol = r
  BY <1>6, <1>9, Zenon
<1> HIDE DEF o, r, stock
<1>11. /\ FieldIn(s, p, 5, 12) = F(5, 12) /\ FieldIn(s, p, 13, 20) = F(13, 20)
       /\ FieldIn(s, p, 21, 21) = F(21, 21) /\ FieldIn(s, p, 22, 25) = F(22, 25)
       /\ FieldIn(s, p, 26, 33) = stock /\ FieldIn(s, p, 34, 37) = F(34, 37)
  BY DEF FieldIn, F, stock
<1>12. SaysIn(s, p, o)
  <2>1. /\ o.timestamp_ns = BigEndian(FieldIn(s, p, 5, 12))
        /\ o.order_id = BigEndian(FieldIn(s, p, 13, 20))
        /\ o.quantity = BigEndian(FieldIn(s, p, 22, 25))
        /\ o.price = BigEndian(FieldIn(s, p, 34, 37))
    BY <1>2, <1>3, <1>4, <1>5, <1>9, <1>11
  <2>2. o.side = IF FieldIn(s, p, 21, 21) = <<BUY>> THEN "BUY" ELSE "SELL"
    BY <1>7, <1>9, <1>11
  <2>3. /\ IsPrefix(o.symbol, FieldIn(s, p, 26, 33))
        /\ ToSet(o.symbol) \intersect {SPACE, 0} = {}
        /\ Len(o.symbol) < 7 => FieldIn(s, p, 26, 33)[Len(o.symbol) + 1] \in {SPACE, 0}
    BY <1>8, <1>10, <1>11
  <2> QED BY <2>1, <2>2, <2>3, Zenon DEF SaysIn
<1> QED BY <1>12 DEF o, P

----------------------------------------------------------------------------
(* The steps of the parser.                                                *)

(* The model's names for what the lemmas say of any sequence s. *)
LEMMA FileMeaning ==
    /\ \A p : LengthAt(p) = LengthIn(file, p)
    /\ MessageStarts = Messages
    /\ \A p, r : Says(p, r) <=> SaysIn(file, p, r)
<1>1. \A p : LengthAt(p) = LengthIn(file, p)
  BY DEF LengthAt, LengthIn
<1>2. MessageStarts = Messages
  BY Zenon DEF MessageStarts, StartsFrom, LengthAt, Messages, Begins, Beginning, FromHere,
               CutOff, Beyond, LengthIn
<1>3. \A p, r : Says(p, r) <=> SaysIn(file, p, r)
  BY Zenon DEF Says, SaysIn, Field, FieldIn
<1> QED BY <1>1, <1>2, <1>3

(* The parser stops where the message is cut off, and nowhere else. *)
LEMMA StopsIs ==
    ASSUME ItchType
    PROVE  /\ file \in Seq(Byte) /\ pos \in 0..Len(file) /\ Len(file) \in Nat
           /\ Stops => CutOff(file, pos)
           /\ ~Stops => /\ ~CutOff(file, pos)
                        /\ MsgLength = LengthIn(file, pos) /\ MsgLength \in Nat
<1> DEFINE n == Len(file)
           l == LengthIn(file, pos)
<1>1. file \in Seq(Byte) /\ pos \in 0..n
  BY FileAssumption DEF ItchType
<1>2. n \in Nat /\ pos \in Nat /\ pos <= n
  <2>1. n \in Nat
    BY <1>1
  <2> HIDE DEF n
  <2> QED BY <1>1, <2>1
<1>3. pos + 3 <= n => l \in Nat /\ MsgLength = l
  <2> SUFFICES ASSUME pos + 3 <= n PROVE l \in Nat /\ MsgLength = l
    OBVIOUS
  <2>1. pos + 2 <= Len(file) /\ pos \in 0..Len(file)
    BY <1>2
  <2> QED BY <1>1, <2>1, LengthInType DEF MsgLength
<1>4. CutOff(file, pos) <=> (pos + 3 > n \/ pos + 2 + l > n)
  BY DEF CutOff
<1>5. Stops <=> (n - pos >= 3 => MsgLength > 0 /\ n - pos < MsgLength + 2)
  BY DEF Stops, Rest
<1> HIDE DEF n, l
<1>6. Stops => CutOff(file, pos)
  BY <1>2, <1>3, <1>4, <1>5
<1>7. ~Stops => ~CutOff(file, pos) /\ MsgLength = l /\ MsgLength \in Nat
  BY <1>2, <1>3, <1>4, <1>5
<1> QED BY <1>1, <1>2, <1>6, <1>7 DEF n, l

(* The message at p is the next one, and what begins after it is left. *)
LEMMA Advances ==
    ASSUME NEW s \in Seq(Byte), NEW p \in 0..Len(s), ~CutOff(s, p), LengthIn(s, p) > 0,
           {q \in Begins(s)[0] : q >= p} = Begins(s)[p]
    PROVE  /\ p \in Begins(s)[0]
           /\ {q \in Begins(s)[0] : q >= Beyond(s, p)} = Begins(s)[Beyond(s, p)]
           /\ \A q \in Begins(s)[0] : q < Beyond(s, p) <=> q < p \/ q = p
<1> DEFINE M == Begins(s)[0]
           b == Beyond(s, p)
<1>1. b \in (p + 2)..Len(s) /\ b \in 0..Len(s) /\ LengthIn(s, p) # 0 /\ p \in Nat
  <2>1. LengthIn(s, p) \in Nat /\ b \in (p + 2)..Len(s)
    BY BeyondIn
  <2> HIDE DEF b
  <2> QED BY <2>1
<1>2. Begins(s)[p] = {p} \union Begins(s)[b]
  BY <1>1, BeginsAt
<1>3. \A q \in Begins(s)[b] : q \in b..Len(s)
  BY <1>1, BeginsIn
<1>4. \A q \in M : q \in 0..Len(s)
  <2>1. 0 \in 0..Len(s)
    BY <1>1
  <2> QED BY <2>1, BeginsIn
<1>5. {q \in M : q >= p} = {p} \union Begins(s)[b]
  BY <1>2
<1> HIDE DEF M, b
<1>6. p \in M
  BY <1>5
<1>7. ASSUME NEW q \in M
      PROVE  q \in Int /\ (q >= p <=> q = p \/ q \in Begins(s)[b])
  BY <1>4, <1>5
<1>8. ASSUME NEW q \in M
      PROVE  q >= b <=> q \in Begins(s)[b]
  BY <1>1, <1>3, <1>7
<1>9. Begins(s)[b] \subseteq M
  BY <1>5
<1>10. {q \in M : q >= b} = Begins(s)[b]
  BY <1>8, <1>9
<1>11. \A q \in M : q < b <=> q < p \/ q = p
  BY <1>1, <1>7, <1>8
<1> QED BY <1>6, <1>10, <1>11 DEF M, b

(* The Add messages before a position are finitely many. *)
LEMMA AddsFinite ==
    ASSUME NEW s \in Seq(Byte), NEW n, NEW k
    PROVE  /\ AddsIn(s, n, k) \in SUBSET Nat
           /\ IsFiniteSet(AddsIn(s, n, k))
           /\ \A q \in AddsIn(s, n, k) : q < n
<1>1. 0 \in 0..Len(s) /\ Len(s) \in Int /\ 0 \in Int
  OBVIOUS
<1>2. AddsIn(s, n, k) \in SUBSET (0..Len(s)) /\ \A q \in AddsIn(s, n, k) : q < n
  BY <1>1, BeginsIn DEF AddsIn
<1>3. IsFiniteSet(0..Len(s))
  BY <1>1, FS_Interval
<1>4. IsFiniteSet(AddsIn(s, n, k))
  BY <1>2, <1>3, FS_Subset
<1>5. AddsIn(s, n, k) \in SUBSET Nat
  BY <1>2
<1> QED BY <1>2, <1>4, <1>5

(* The places in a finite set of numbers that gets a new greatest one. *)
LEMMA PlaceOfNew ==
    ASSUME NEW A \in SUBSET Nat, IsFiniteSet(A), NEW x \in Nat, \A q \in A : q < x
    PROVE  /\ Cardinality(A \union {x}) = Cardinality(A) + 1
           /\ Place(A \union {x}, x) = Cardinality(A) + 1
           /\ Cardinality(A) \in Nat
           /\ \A q \in A : /\ Place(A \union {x}, q) = Place(A, q)
                           /\ Place(A, q) \in 1..Cardinality(A)
<1> DEFINE B == A \union {x}
<1>1. x \notin A
  OBVIOUS
<1>2. Cardinality(B) = Cardinality(A) + 1 /\ Cardinality(A) \in Nat
  BY <1>1, FS_AddElement, FS_CardinalityType
<1>3. Place(B, x) = Cardinality(B)
  <2>1. \A q \in B : q <= x
    <3>1. \A q \in A : q <= x
      OBVIOUS
    <3>2. x <= x
      OBVIOUS
    <3> QED BY <3>1, <3>2
  <2>2. {q \in B : q <= x} = B
    <3> HIDE DEF B
    <3> QED BY <2>1
  <2> QED BY <2>2 DEF Place
<1>4. ASSUME NEW q \in A
      PROVE  Place(B, q) = Place(A, q) /\ Place(A, q) \in 1..Cardinality(A)
  <2> DEFINE C == {r \in A : r <= q}
  <2>1. {r \in B : r <= q} = C
    OBVIOUS
  <2>2. C \subseteq A /\ q \in C
    OBVIOUS
  <2> HIDE DEF B
  <2>3. Place(B, q) = Cardinality(C) /\ Place(A, q) = Cardinality(C)
    BY <2>1 DEF Place
  <2> HIDE DEF C
  <2>4. IsFiniteSet(C) /\ Cardinality(C) <= Cardinality(A) /\ Cardinality(C) \in Nat
    BY <2>2, FS_Subset, FS_CardinalityType
  <2>5. Cardinality(C) # 0
    BY <2>2, <2>4, FS_EmptySet
  <2> QED BY <1>2, <2>3, <2>4, <2>5
<1> QED BY <1>2, <1>3, <1>4

----------------------------------------------------------------------------
(* The invariant holds before the first read, and every step keeps it. *)
LEMMA ItchStart == ItchInit => ItchInv
<1> SUFFICES ASSUME ItchInit PROVE ItchInv
  OBVIOUS
<1>1. /\ file \in File /\ pos = 0 /\ result = <<>> /\ status = "reading"
      /\ file \in Seq(Byte)
  BY FileAssumption DEF ItchInit
<1>2. Len(file) \in Nat /\ 0 \in 0..Len(file)
  BY <1>1
<1>3. \A q \in Begins(file)[0] : q \in 0..Len(file)
  BY <1>1, <1>2, BeginsIn
<1>4. ItchType
  BY <1>1, <1>2 DEF ItchType
<1>5. ReadSoFar
  <2>1. \A q \in Messages : q >= 0 /\ ~(q < 0)
    BY <1>2, <1>3 DEF Messages
  <2>2. {q \in Messages : q >= 0} = Messages
    BY <2>1
  <2> QED BY <1>1, <2>1, <2>2 DEF ReadSoFar, Messages
<1>6. ParsedSoFar
  <2>1. AddsBefore(0) = {}
    <3>1. \A q \in Begins(file)[0] : ~(q < 0)
      BY <1>2, <1>3
    <3> QED BY <3>1 DEF AddsBefore, AddsIn
  <2>2. Cardinality(AddsBefore(0)) = 0
    BY <2>1, FS_EmptySet
  <2>3. <<>> \in Seq({0}) /\ Len(<<>>) = 0
    OBVIOUS
  <2> QED BY <1>1, <2>1, <2>2, <2>3 DEF ParsedSoFar
<1>7. Ended
  BY <1>1 DEF Ended
<1> QED BY <1>4, <1>5, <1>6, <1>7 DEF ItchInv

(* The end of the file. *)
LEMMA StopKeeps == ItchInv /\ Stop => ItchInv'
<1> SUFFICES ASSUME ItchInv, Stop PROVE ItchInv'
  OBVIOUS
<1>1. /\ status = "reading" /\ status' = "done" /\ Stops
      /\ file' = file /\ pos' = pos /\ result' = result
  BY DEF Stop
<1>2. file \in Seq(Byte) /\ pos \in 0..Len(file) /\ CutOff(file, pos)
  BY <1>1, StopsIs DEF ItchInv
<1>3. Begins(file)[pos] = {}
  BY <1>2, BeginsAt
<1>4. ItchType'
  BY <1>1 DEF ItchInv, ItchType
<1>5. ReadSoFar'
  BY <1>1, Zenon DEF ItchInv, ReadSoFar, Messages
<1>6. ParsedSoFar'
  <2>1. status # "threw"
    BY <1>1
  <2> QED BY <1>1, <2>1, Zenon DEF ItchInv, ParsedSoFar, AddsBefore
<1>7. Ended'
  BY <1>1, <1>3 DEF Ended
<1> QED BY <1>4, <1>5, <1>6, <1>7 DEF ItchInv

(* A message of length 0. *)
LEMMA EmptyKeeps == ItchInv /\ EmptyMessage => ItchInv'
<1> SUFFICES ASSUME ItchInv, EmptyMessage PROVE ItchInv'
  OBVIOUS
<1>1. /\ status = "reading" /\ status' = "threw" /\ ~Stops /\ MsgLength = 0
      /\ file' = file /\ pos' = pos
  BY DEF EmptyMessage
<1>2. /\ file \in Seq(Byte) /\ pos \in 0..Len(file) /\ ~CutOff(file, pos)
      /\ LengthIn(file, pos) = 0
  BY <1>1, StopsIs DEF ItchInv
<1>3. pos \in Messages
  <2>1. pos \in Begins(file)[pos]
    BY <1>2, BeginsAt
  <2> QED BY <2>1 DEF ItchInv, ReadSoFar
<1>4. ItchType'
  BY <1>1 DEF ItchInv, ItchType
<1>5. ReadSoFar'
  BY <1>1, Zenon DEF ItchInv, ReadSoFar, Messages
<1>6. ParsedSoFar'
  BY <1>1 DEF ParsedSoFar
<1>7. Ended'
  <2>1. \E p \in Messages : LengthIn(file, p) = 0
    BY <1>2, <1>3
  <2> QED BY <1>1, <2>1, Zenon DEF Ended, Messages
<1> QED BY <1>4, <1>5, <1>6, <1>7 DEF ItchInv

(* What the two steps over a complete message have in common. *)
LEMMA MessageRead ==
    ASSUME ItchInv, status = "reading", ~Stops, MsgLength > 0,
           pos' = pos + 2 + MsgLength, UNCHANGED <<file, status>>
    PROVE  /\ ItchType' /\ ReadSoFar' /\ Ended'
           /\ file \in Seq(Byte) /\ pos \in 0..Len(file) /\ ~CutOff(file, pos)
           /\ LengthIn(file, pos) = MsgLength /\ MsgLength \in Nat
           /\ pos \in Messages
           /\ \A q \in Messages : q < pos' <=> q < pos \/ q = pos
<1>1. /\ file \in Seq(Byte) /\ pos \in 0..Len(file) /\ ~CutOff(file, pos)
      /\ MsgLength = LengthIn(file, pos) /\ MsgLength \in Nat
      /\ LengthIn(file, pos) > 0 /\ pos \in Nat
  BY StopsIs DEF ItchInv
<1>2. /\ pos' = Beyond(file, pos) /\ Beyond(file, pos) \in (pos + 2)..Len(file)
      /\ file' = file /\ status' = status
  BY <1>1, BeyondIn
<1>3. {q \in Begins(file)[0] : q >= pos} = Begins(file)[pos]
  BY DEF ItchInv, ReadSoFar, Messages
<1>4. /\ pos \in Begins(file)[0]
      /\ {q \in Begins(file)[0] : q >= Beyond(file, pos)} = Begins(file)[Beyond(file, pos)]
      /\ \A q \in Begins(file)[0] : q < Beyond(file, pos) <=> q < pos \/ q = pos
  BY <1>1, <1>3, Advances
<1>5. ItchType'
  <2>1. Beyond(file, pos) \in 0..Len(file)
    BY <1>1, <1>2
  <2> QED BY <1>2, <2>1 DEF ItchInv, ItchType
<1>6. ReadSoFar'
  <2>1. \A q \in Messages : q < pos => LengthIn(file, q) > 0
    BY DEF ItchInv, ReadSoFar
  <2>2. \A q \in Begins(file)[0] : q < Beyond(file, pos) => LengthIn(file, q) > 0
    BY <1>1, <1>4, <2>1 DEF Messages
  <2>3. Messages' = Begins(file)[0]
    BY <1>2 DEF Messages
  <2> QED BY <1>2, <1>4, <2>2, <2>3, Zenon DEF ReadSoFar
<1>7. Ended'
  BY <1>2 DEF Ended
<1>8. /\ pos \in Messages
      /\ \A q \in Messages : q < pos' <=> q < pos \/ q = pos
  BY <1>2, <1>4 DEF Messages
<1> QED BY <1>1, <1>5, <1>6, <1>7, <1>8

(* A complete message is as long as it says, its type being one byte. *)
LEMMA PayloadLength ==
    ASSUME file \in Seq(Byte), pos \in 0..Len(file), ~CutOff(file, pos),
           LengthIn(file, pos) = MsgLength, MsgLength \in Nat, MsgLength > 0
    PROVE  /\ Payload = SubSeq(file, pos + 4, pos + 2 + LengthIn(file, pos))
           /\ Len(Payload) = MsgLength - 1
<1> DEFINE l == MsgLength
           a == pos + 4
           b == pos + 2 + l
<1>1. Len(file) \in Nat /\ l \in Nat /\ l > 0 /\ b <= Len(file) /\ pos \in Nat
  <2>1. LengthIn(file, pos) = l /\ Beyond(file, pos) = pos + 2 + LengthIn(file, pos)
        /\ Beyond(file, pos) \in (pos + 2)..Len(file)
    BY BeyondIn
  <2> HIDE DEF l
  <2> QED BY <2>1 DEF l
<1>2. Payload = SubSeq(file, a, b)
  BY DEF Payload
<1> HIDE DEF l
<1>3. a \in Int /\ b \in Int /\ \A i \in a..b : file[i] \in Byte
  <2>1. \A i \in a..b : i \in 1..Len(file)
    BY <1>1
  <2>2. a \in Int /\ b \in Int
    BY <1>1
  <2> HIDE DEF a, b
  <2> QED BY <2>1, <2>2, ElementOfSeq
<1> HIDE DEF a, b
<1>4. Len(Payload) = IF a <= b THEN b - a + 1 ELSE 0
  BY <1>2, <1>3, SubSeqProperties
<1>5. Len(Payload) = l - 1
  BY <1>1, <1>4 DEF a, b
<1> QED BY <1>2, <1>5 DEF a, b, l

(* An Add message that is long enough. *)
LEMMA AddKeeps == ItchInv /\ AddMessage => ItchInv'
<1> SUFFICES ASSUME ItchInv, AddMessage PROVE ItchInv'
  OBVIOUS
<1>1. /\ status = "reading" /\ ~Stops /\ MsgLength > 0 /\ MsgType = ADD
      /\ pos' = pos + 2 + MsgLength /\ UNCHANGED <<file, status>>
      /\ Len(Payload) >= AddOrderSize
      /\ \E f \in Leftover : result' = Append(result, ParsedOrder(Payload, f))
  BY DEF AddMessage
<1>2. /\ ItchType' /\ ReadSoFar' /\ Ended'
      /\ file \in Seq(Byte) /\ pos \in 0..Len(file) /\ ~CutOff(file, pos)
      /\ LengthIn(file, pos) = MsgLength /\ MsgLength \in Nat
      /\ pos \in Messages
      /\ \A q \in Messages : q < pos' <=> q < pos \/ q = pos
  BY <1>1, MessageRead
<1> DEFINE A == AddsBefore(pos)
           L == LengthIn(file, pos)
<1>3. L >= AddOrderSize + 1 /\ Payload = SubSeq(file, pos + 4, pos + 2 + L)
  <2>1. Payload = SubSeq(file, pos + 4, pos + 2 + L) /\ Len(Payload) = MsgLength - 1
    BY <1>1, <1>2, PayloadLength
  <2>2. MsgLength \in Nat /\ MsgLength - 1 >= AddOrderSize /\ L = MsgLength
    BY <1>1, <1>2, <2>1
  <2>3. MsgLength >= AddOrderSize + 1
    BY <2>2 DEF AddOrderSize
  <2> QED BY <2>1, <2>2, <2>3
<1>4. AddsBefore(pos') = A \union {pos}
  <2>1. \A q \in Messages : q < pos' <=> q < pos \/ q = pos
    BY <1>2
  <2>2. pos \in Messages /\ file[pos + 3] = ADD /\ L >= AddOrderSize + 1
    BY <1>1, <1>2, <1>3 DEF MsgType
  <2> QED BY <2>1, <2>2 DEF AddsBefore, AddsIn, Messages
<1>5. A \in SUBSET Nat /\ IsFiniteSet(A) /\ (\A q \in A : q < pos) /\ pos \in Nat
  BY <1>2, AddsFinite DEF AddsBefore
<1> DEFINE B == A \union {pos}
           n == Cardinality(A)
<1>6. /\ Cardinality(B) = n + 1 /\ Place(B, pos) = n + 1 /\ n \in Nat
      /\ \A q \in A : Place(B, q) = Place(A, q) /\ Place(A, q) \in 1..n
  <2> HIDE DEF A
  <2> QED BY <1>5, PlaceOfNew
<1>7. /\ (\E S : result \in Seq(S)) /\ Len(result) = n
      /\ \A p \in A : SaysIn(file, p, result[Place(A, p)])
  <2>1. status # "threw"
    BY <1>1
  <2> QED BY <2>1 DEF ItchInv, ParsedSoFar
<1>8. PICK f \in Leftover : result' = Append(result, ParsedOrder(Payload, f))
  BY <1>1
<1> DEFINE o == ParsedOrder(Payload, f)
<1>9. SaysIn(file, pos, o)
  BY <1>2, <1>3, OrderParsed
<1> HIDE DEF o
<1>10. /\ (\E S : result' \in Seq(S)) /\ Len(result') = n + 1
       /\ (\A i \in 1..n : result'[i] = result[i]) /\ result'[n + 1] = o
  <2>1. PICK S : result \in Seq(S)
    BY <1>7
  <2>2. result' = Append(result, o) /\ o \in S \union {o} /\ result \in Seq(S \union {o})
    BY <1>8, <2>1 DEF o
  <2> DEFINE T == S \union {o}
  <2>3. /\ result \in Seq(T) /\ o \in T /\ Len(result) = n /\ n \in Nat
        /\ result' = Append(result, o)
    BY <1>6, <1>7, <2>2
  <2> HIDE DEF T, n
  <2>4. /\ result' \in Seq(T) /\ Len(result') = Len(result) + 1
        /\ \A i \in 1..Len(result) : result'[i] = result[i]
        /\ result'[Len(result) + 1] = o
    BY <2>3, AppendProperties
  <2> QED BY <2>3, <2>4
<1>11. ASSUME NEW p \in B
       PROVE  SaysIn(file, p, result'[Place(B, p)])
  <2>1. CASE p = pos
    BY <1>6, <1>9, <1>10, <2>1
  <2>2. CASE p \in A
    <3>1. result'[Place(B, p)] = result[Place(A, p)]
      BY <1>6, <1>10, <2>2
    <3> QED BY <1>7, <2>2, <3>1
  <2> QED BY <2>1, <2>2
<1>12. ParsedSoFar'
  <2>1. AddsBefore(pos)' = B
    BY <1>1, <1>4 DEF AddsBefore
  <2> HIDE DEF B, n
  <2> QED BY <1>1, <1>6, <1>10, <1>11, <2>1 DEF ParsedSoFar
<1> QED BY <1>2, <1>12 DEF ItchInv

(* Any other message. *)
LEMMA SkipKeeps == ItchInv /\ SkipMessage => ItchInv'
<1> SUFFICES ASSUME ItchInv, SkipMessage PROVE ItchInv'
  OBVIOUS
<1>1. /\ status = "reading" /\ ~Stops /\ MsgLength > 0
      /\ pos' = pos + 2 + MsgLength /\ UNCHANGED <<file, status>>
      /\ MsgType = ADD => Len(Payload) < AddOrderSize
      /\ file' = file /\ result' = result /\ status' = status
  BY DEF SkipMessage
<1>2. /\ ItchType' /\ ReadSoFar' /\ Ended'
      /\ file \in Seq(Byte) /\ pos \in 0..Len(file) /\ ~CutOff(file, pos)
      /\ LengthIn(file, pos) = MsgLength /\ MsgLength \in Nat
      /\ \A q \in Messages : q < pos' <=> q < pos \/ q = pos
  BY <1>1, MessageRead
<1>3. ~(file[pos + 3] = ADD /\ LengthIn(file, pos) >= AddOrderSize + 1)
  <2>1. Len(Payload) = MsgLength - 1
    BY <1>1, <1>2, PayloadLength
  <2>2. file[pos + 3] = ADD => MsgLength - 1 < AddOrderSize
    BY <1>1, <2>1 DEF MsgType
  <2> QED BY <1>2, <2>2 DEF AddOrderSize
<1>4. AddsBefore(pos') = AddsBefore(pos)
  BY <1>2, <1>3 DEF AddsBefore, AddsIn, Messages
<1>5. ParsedSoFar'
  <2>1. AddsBefore(pos)' = AddsBefore(pos)
    BY <1>1, <1>4 DEF AddsBefore
  <2>2. ParsedSoFar
    BY DEF ItchInv
  <2> QED BY <1>1, <2>1, <2>2, Zenon DEF ParsedSoFar
<1> QED BY <1>2, <1>5 DEF ItchInv

(* Every step keeps the invariant. *)
LEMMA ItchStep == ItchInv /\ [ItchNext]_itchVars => ItchInv'
<1>1. ItchInv /\ UNCHANGED itchVars => ItchInv'
  BY Zenon DEF ItchInv, ItchType, ReadSoFar, ParsedSoFar, Ended, Messages, AddsBefore, itchVars
<1> QED BY <1>1, StopKeeps, EmptyKeeps, AddKeeps, SkipKeeps DEF ItchNext

(* The orders that parse_file returns are the complete Add messages of the *)
(* file, each with its big-endian fields, in the order of the file; the    *)
(* parser throws if and only if the file holds a message of length 0.      *)
LEMMA ItchExact == ItchInv => ParsesCompleteAdds
<1> SUFFICES ASSUME ItchInv PROVE ParsesCompleteAdds
  OBVIOUS
<1> DEFINE adds     == AddsOfLength(AddOrderSize + 1)
           place(p) == Cardinality({q \in adds : q <= p})
<1>1. file \in Seq(Byte) /\ pos \in 0..Len(file)
  BY StopsIs DEF ItchInv
<1>2. status = "done" => \A q \in Messages : q < pos /\ LengthIn(file, q) > 0
  <2> SUFFICES ASSUME status = "done", NEW q \in Messages
               PROVE  q < pos /\ LengthIn(file, q) > 0
    OBVIOUS
  <2>1. {r \in Messages : r >= pos} = {}
    BY DEF ItchInv, Ended, ReadSoFar
  <2>2. 0 \in 0..Len(file) /\ pos \in Int
    BY <1>1
  <2>3. q \in 0..Len(file)
    BY <1>1, <2>2, BeginsIn DEF Messages
  <2>4. q < pos
    BY <2>1, <2>2, <2>3
  <2> QED BY <2>4 DEF ItchInv, ReadSoFar
<1>3. status = "done" => adds = AddsBefore(pos)
  <2> SUFFICES ASSUME status = "done" PROVE adds = AddsBefore(pos)
    OBVIOUS
  <2>1. adds = {p \in Messages : file[p + 3] = ADD /\ LengthIn(file, p) >= AddOrderSize + 1}
    BY FileMeaning, Zenon DEF AddsOfLength
  <2> HIDE DEF adds
  <2> QED BY <1>2, <2>1 DEF AddsBefore, AddsIn, Messages
<1>4. status = "done" =>
          Len(result) = Cardinality(adds) /\ \A p \in adds : Says(p, result[place(p)])
  <2> SUFFICES ASSUME status = "done"
               PROVE  Len(result) = Cardinality(adds)
                      /\ \A p \in adds : Says(p, result[place(p)])
    OBVIOUS
  <2>1. /\ Len(result) = Cardinality(AddsBefore(pos))
        /\ \A p \in AddsBefore(pos) : SaysIn(file, p, result[Place(AddsBefore(pos), p)])
    BY DEF ItchInv, ParsedSoFar
  <2>2. adds = AddsBefore(pos)
    BY <1>3
  <2>3. \A p : place(p) = Place(adds, p)
    BY DEF Place
  <2> HIDE DEF adds, place
  <2> QED BY <2>1, <2>2, <2>3, FileMeaning
<1>5. status # "reading" =>
          (status = "threw" <=> \E p \in MessageStarts : LengthAt(p) = 0)
  <2>1. status = "threw" => \E p \in Messages : LengthIn(file, p) = 0
    BY DEF ItchInv, Ended
  <2>2. status = "done" => ~ \E p \in Messages : LengthIn(file, p) = 0
    BY <1>2
  <2>3. status \in {"reading", "done", "threw"}
    BY DEF ItchInv, ItchType
  <2>4. (\E p \in MessageStarts : LengthAt(p) = 0) <=> \E p \in Messages : LengthIn(file, p) = 0
    BY FileMeaning
  <2> QED BY <2>1, <2>2, <2>3, <2>4
<1> QED BY <1>4, <1>5 DEF ParsesCompleteAdds

(* The theorem: after any number of steps of parse_file, on any file.      *)
THEOREM ParserIsExact == ItchSpec => []ParsesCompleteAdds
<1>1. ItchSpec => []ItchInv
  BY ItchStart, ItchStep, PTL DEF ItchSpec
<1> QED BY <1>1, ItchExact, PTL
============================================================================
