--------------------------- MODULE SumTheorems ---------------------------
(***************************************************************************)
(* What the proofs need to know of SumFunctionOnSet, the sum of an integer *)
(* function over a finite set: the quantities of the orders of a book, the *)
(* exposures of an account, the shares of the orders of a sequence.        *)
(*                                                                         *)
(* The library defines the sum by a recursive function on the subsets of   *)
(* the set.  The lemmas show that this function exists (Recursion) and is  *)
(* determined by its equation (SameRecursion); every induction is one over *)
(* the cardinality, as the choice of a smallest counterexample.            *)
(***************************************************************************)
EXTENDS Integers, Functions, FiniteSetsExt, SequencesExt, FiniteSetTheorems,
        SequenceTheorems, TLAPS

(* The element the fold takes out of s next. *)
Pick(s) == CHOOSE x \in s : TRUE

(* One turn of the fold: g has the sums of the smaller sets. *)
Turn(f, s, g) == IF s = {} THEN 0 ELSE f[Pick(s)] + g[s \ {Pick(s)}]

(* g satisfies the recursive equation on the sets in D. *)
Sums(f, D, g) == g = [s \in D |-> Turn(f, s, g)]

SumsAll(f, S, g) == Sums(f, SUBSET S, g)

Recursion(f, S) == CHOOSE g : SumsAll(f, S, g)

----------------------------------------------------------------------------
(* A non-empty set of natural numbers has a least element. *)
LEMMA LeastNat ==
    ASSUME NEW N \in SUBSET Nat, N # {}
    PROVE  \E n \in N : \A m \in N : n <= m
<1> DEFINE R == OpToRel(<, Nat)
<1>1. IsWellFoundedOn(R, Nat)
  BY NatLessThanWellFounded
<1> HIDE DEF R
<1>2. PICK x \in N : \A y \in N : ~ (<<y, x>> \in R)
  BY <1>1, WFMin
<1>3. ASSUME NEW y \in N, y < x
      PROVE  FALSE
  <2>1. <<y, x>> \in Nat \X Nat
    OBVIOUS
  <2>2. <<y, x>> \in R
    BY <1>3, <2>1, Zenon DEF R, OpToRel
  <2> QED BY <1>2, <2>2
<1> QED BY <1>3

(* A non-empty set of indices has a greatest one. *)
LEMMA MaxIn ==
    ASSUME NEW n \in Nat, NEW S \in SUBSET (1..n), S # {}
    PROVE  Max(S) \in S /\ \A k \in S : k <= Max(S)
<1> DEFINE T == {n - k : k \in S}
<1>0. \A k \in S : k \in Int /\ n - k \in Nat
  OBVIOUS
<1>1. T \in SUBSET Nat /\ T # {}
  BY <1>0
<1>2. PICK t \in T : \A u \in T : t <= u
  <2> HIDE DEF T
  <2> QED BY <1>1, LeastNat
<1>3. PICK m \in S : t = n - m
  BY <1>2
<1>4. m \in S /\ \A k \in S : m >= k
  <2>1. \A k \in S : t <= n - k
    BY <1>2
  <2> QED BY <1>0, <1>3, <2>1
<1>5. Max(S) \in S /\ \A k \in S : Max(S) >= k
  BY <1>4 DEF Max
<1> QED BY <1>5

(* Among finite sets there is a smallest one. *)
LEMMA SmallestSet ==
    ASSUME NEW C, C # {}, \A s \in C : IsFiniteSet(s)
    PROVE  \E s \in C : \A t \in C : Cardinality(s) <= Cardinality(t)
<1> DEFINE N == {Cardinality(s) : s \in C}
<1>1. N \in SUBSET Nat /\ N # {}
  BY FS_CardinalityType
<1>2. PICK n \in N : \A m \in N : n <= m
  <2> HIDE DEF N
  <2> QED BY <1>1, LeastNat
<1>3. PICK s \in C : n = Cardinality(s)
  BY <1>2
<1>4. \A t \in C : Cardinality(s) <= Cardinality(t)
  BY <1>2, <1>3
<1> QED BY <1>4

LEMMA PickInSet ==
    ASSUME NEW s, s # {}
    PROVE  Pick(s) \in s
  BY DEF Pick

(* A finite set without one of its elements is smaller. *)
LEMMA SmallerSet ==
    ASSUME NEW S, IsFiniteSet(S), NEW x \in S
    PROVE  /\ IsFiniteSet(S \ {x})
           /\ Cardinality(S) \in Nat
           /\ Cardinality(S \ {x}) \in Nat
           /\ Cardinality(S \ {x}) < Cardinality(S)
<1>1. /\ IsFiniteSet(S \ {x})
      /\ Cardinality(S \ {x}) = Cardinality(S) - 1
  BY FS_RemoveElement
<1>2. Cardinality(S) \in Nat /\ Cardinality(S \ {x}) \in Nat
  BY <1>1, FS_CardinalityType
<1> QED BY <1>1, <1>2

----------------------------------------------------------------------------
(* The subsets of S with at most n elements. *)
UpTo(S, n) == {s \in SUBSET S : Cardinality(s) <= n}

(* The recursive equation has a solution on the small subsets. *)
LEMMA SumsUpTo ==
    ASSUME NEW S, IsFiniteSet(S), NEW f, \A x \in S : f[x] \in Int, NEW n \in Nat
    PROVE  \E g \in [UpTo(S, n) -> Int] : Sums(f, UpTo(S, n), g)
<1> DEFINE Solved(k) == \E g \in [UpTo(S, k) -> Int] : Sums(f, UpTo(S, k), g)
           Bad == {k \in Nat : ~Solved(k)}
<1> SUFFICES ASSUME Bad # {} PROVE FALSE
  OBVIOUS
<1>0. \A s \in SUBSET S : IsFiniteSet(s) /\ Cardinality(s) \in Nat
  BY FS_Subset, FS_CardinalityType
<1>1. PICK k \in Bad : \A m \in Bad : k <= m
  <2>1. Bad \in SUBSET Nat
    OBVIOUS
  <2> HIDE DEF Bad
  <2> QED BY <2>1, LeastNat
<1>2. k \in Nat /\ ~Solved(k)
  BY <1>1
<1>3. CASE k = 0
  <2> DEFINE g == [s \in UpTo(S, 0) |-> 0]
  <2>1. \A s \in UpTo(S, 0) : s = {}
    <3> TAKE s \in UpTo(S, 0)
    <3>1. s \in SUBSET S /\ Cardinality(s) <= 0
      BY DEF UpTo
    <3>2. IsFiniteSet(s) /\ Cardinality(s) = 0
      BY <1>0, <3>1
    <3> QED BY <3>2, FS_EmptySet
  <2>2. \A s \in UpTo(S, 0) : Turn(f, s, g) = 0
    BY <2>1 DEF Turn
  <2>3. Sums(f, UpTo(S, 0), g)
    BY <2>2, Zenon DEF Sums
  <2>4. g \in [UpTo(S, 0) -> Int]
    OBVIOUS
  <2> QED BY <1>2, <1>3, <2>3, <2>4
<1>4. CASE k # 0
  <2> DEFINE m == k - 1
  <2>1. m \in Nat /\ k = m + 1 /\ ~(k <= m)
    BY <1>2, <1>4
  <2>2. Solved(m)
    <3>1. m \notin Bad
      BY <1>1, <2>1
    <3> QED BY <2>1, <3>1
  <2> HIDE DEF m
  <2>3. PICK h \in [UpTo(S, m) -> Int] : Sums(f, UpTo(S, m), h)
    BY <2>2
  <2> DEFINE g == [s \in UpTo(S, k) |-> Turn(f, s, h)]
  <2>4. \A s \in UpTo(S, k) : s # {} =>
           /\ Pick(s) \in S
           /\ s \ {Pick(s)} \in UpTo(S, m)
           /\ s \ {Pick(s)} \in UpTo(S, k)
    <3> SUFFICES ASSUME NEW s \in UpTo(S, k), s # {}
                 PROVE  /\ Pick(s) \in S
                        /\ s \ {Pick(s)} \in UpTo(S, m)
                        /\ s \ {Pick(s)} \in UpTo(S, k)
      OBVIOUS
    <3>1. Pick(s) \in s
      BY PickInSet
    <3>2. s \in SUBSET S /\ Cardinality(s) <= k /\ IsFiniteSet(s)
      BY <1>0 DEF UpTo
    <3>3. /\ Cardinality(s) \in Nat /\ Cardinality(s \ {Pick(s)}) \in Nat
          /\ Cardinality(s \ {Pick(s)}) < Cardinality(s)
      BY <3>1, <3>2, SmallerSet
    <3>4. Cardinality(s \ {Pick(s)}) <= m /\ Cardinality(s \ {Pick(s)}) <= k
      BY <2>1, <3>2, <3>3
    <3> QED BY <3>1, <3>2, <3>4 DEF UpTo
  <2>5. g \in [UpTo(S, k) -> Int]
    <3>1. \A s \in UpTo(S, k) : Turn(f, s, h) \in Int
      BY <2>4 DEF Turn
    <3> QED BY <3>1
  <2>6. \A s \in UpTo(S, m) : s \in UpTo(S, k) /\ g[s] = h[s]
    <3>1. UpTo(S, m) \subseteq UpTo(S, k)
      BY <1>0, <2>1 DEF UpTo
    <3>2. \A s \in UpTo(S, m) : h[s] = Turn(f, s, h)
      BY <2>3, Zenon DEF Sums
    <3> QED BY <3>1, <3>2
  <2>7. \A s \in UpTo(S, k) : Turn(f, s, g) = Turn(f, s, h)
    BY <2>4, <2>6 DEF Turn
  <2>8. Sums(f, UpTo(S, k), g)
    BY <2>7, Zenon DEF Sums
  <2> QED BY <1>2, <2>5, <2>8
<1> QED BY <1>3, <1>4

(* So it has one on all subsets of a finite set, and Recursion is one. *)
LEMMA RecursionExists ==
    ASSUME NEW S, IsFiniteSet(S), NEW f, \A x \in S : f[x] \in Int
    PROVE  /\ SumsAll(f, S, Recursion(f, S))
           /\ \E g \in [SUBSET S -> Int] : SumsAll(f, S, g)
<1>1. Cardinality(S) \in Nat
  BY FS_CardinalityType
<1>2. UpTo(S, Cardinality(S)) = SUBSET S
  BY FS_Subset DEF UpTo
<1>3. \E g \in [SUBSET S -> Int] : SumsAll(f, S, g)
  <2>1. \E g \in [UpTo(S, Cardinality(S)) -> Int] : Sums(f, UpTo(S, Cardinality(S)), g)
    BY <1>1, SumsUpTo
  <2> QED BY <1>2, <2>1, Zenon DEF SumsAll
<1>4. PICK g : SumsAll(f, S, g)
  BY <1>3
<1>5. SumsAll(f, S, Recursion(f, S))
  BY <1>4, Zenon DEF Recursion
<1> QED BY <1>3, <1>5

(* Solutions for two functions agree wherever the functions do. *)
Agree(f, S, e, T) == S \subseteq T /\ \A x \in S : f[x] = e[x]

LEMMA SameRecursion ==
    ASSUME NEW S, IsFiniteSet(S), NEW T, NEW f, NEW e, Agree(f, S, e, T),
           NEW g, SumsAll(f, S, g), NEW h, SumsAll(e, T, h)
    PROVE  g[S] = h[S]
<1> DEFINE Bad == {s \in SUBSET S : g[s] # h[s]}
<1> SUFFICES ASSUME Bad # {} PROVE FALSE
  OBVIOUS
<1>1. \A s \in Bad : IsFiniteSet(s)
  BY FS_Subset
<1>2. PICK s \in Bad : \A t \in Bad : Cardinality(s) <= Cardinality(t)
  <2> HIDE DEF Bad
  <2> QED BY <1>1, SmallestSet
<1>3. s \in SUBSET S /\ s \in SUBSET T /\ g[s] # h[s] /\ IsFiniteSet(s)
  BY <1>1, <1>2 DEF Agree
<1>4. g[s] = Turn(f, s, g) /\ h[s] = Turn(e, s, h)
  BY <1>3, Zenon DEF Sums, SumsAll
<1>5. s # {}
  BY <1>3, <1>4 DEF Turn
<1>6. Pick(s) \in s
  BY <1>5, PickInSet
<1>7. s \ {Pick(s)} \notin Bad
  <2>1. ~(Cardinality(s) <= Cardinality(s \ {Pick(s)}))
    BY <1>3, <1>6, SmallerSet
  <2> HIDE DEF Bad
  <2> QED BY <1>2, <2>1
<1>8. g[s \ {Pick(s)}] = h[s \ {Pick(s)}]
  BY <1>3, <1>7
<1> QED BY <1>3, <1>4, <1>5, <1>6, <1>8 DEF Turn, Agree

----------------------------------------------------------------------------
(* The sum is what the recursion gives for the whole set. *)
LEMMA SumIsRecursion ==
    ASSUME NEW f, NEW S
    PROVE  SumFunctionOnSet(f, S) = Recursion(f, S)[S]
  BY Zenon DEF SumFunctionOnSet, FoldFunctionOnSet, MapThenFoldSet,
               Recursion, SumsAll, Sums, Turn, Pick

(* Any solution gives the sum. *)
LEMMA SumByAny ==
    ASSUME NEW S, IsFiniteSet(S), NEW f, \A x \in S : f[x] \in Int,
           NEW T, S \subseteq T, NEW h, SumsAll(f, T, h)
    PROVE  SumFunctionOnSet(f, S) = h[S]
<1>1. SumsAll(f, S, Recursion(f, S))
  BY RecursionExists
<1>2. Agree(f, S, f, T)
  BY DEF Agree
<1>3. Recursion(f, S)[S] = h[S]
  BY <1>1, <1>2, SameRecursion
<1> QED BY <1>3, SumIsRecursion

(* A sum of integers is an integer. *)
LEMMA SumType ==
    ASSUME NEW S, IsFiniteSet(S), NEW f, \A x \in S : f[x] \in Int
    PROVE  SumFunctionOnSet(f, S) \in Int
<1>1. PICK g \in [SUBSET S -> Int] : SumsAll(f, S, g)
  BY RecursionExists
<1>2. SumFunctionOnSet(f, S) = g[S]
  BY <1>1, SumByAny
<1> QED BY <1>2

(* The empty sum. *)
LEMMA SumEmpty ==
    ASSUME NEW f
    PROVE  SumFunctionOnSet(f, {}) = 0
<1>1. IsFiniteSet({})
  BY FS_EmptySet
<1>2. PICK g \in [SUBSET {} -> Int] : SumsAll(f, {}, g)
  BY <1>1, RecursionExists
<1>3. g[{}] = Turn(f, {}, g)
  BY <1>2, Zenon DEF Sums, SumsAll
<1>4. SumFunctionOnSet(f, {}) = g[{}]
  BY <1>1, <1>2, SumByAny
<1> QED BY <1>3, <1>4 DEF Turn

(* The element taken out first. *)
LEMMA SumPick ==
    ASSUME NEW S, IsFiniteSet(S), S # {}, NEW f, \A x \in S : f[x] \in Int
    PROVE  SumFunctionOnSet(f, S) = f[Pick(S)] + SumFunctionOnSet(f, S \ {Pick(S)})
<1>1. PICK g \in [SUBSET S -> Int] : SumsAll(f, S, g)
  BY RecursionExists
<1>2. g[S] = Turn(f, S, g)
  BY <1>1, Zenon DEF Sums, SumsAll
<1>3. SumFunctionOnSet(f, S) = g[S]
  BY <1>1, SumByAny
<1>4. IsFiniteSet(S \ {Pick(S)})
  BY FS_Subset
<1>5. SumFunctionOnSet(f, S \ {Pick(S)}) = g[S \ {Pick(S)}]
  BY <1>1, <1>4, SumByAny
<1> QED BY <1>2, <1>3, <1>5 DEF Turn

(* Any element may be taken out. *)
LEMMA SumRemove ==
    ASSUME NEW S, IsFiniteSet(S), NEW f, \A x \in S : f[x] \in Int, NEW x \in S
    PROVE  SumFunctionOnSet(f, S) = f[x] + SumFunctionOnSet(f, S \ {x})
<1> DEFINE Splits(s) == \A y \in s :
              SumFunctionOnSet(f, s) = f[y] + SumFunctionOnSet(f, s \ {y})
           Bad == {s \in SUBSET S : ~Splits(s)}
<1> SUFFICES ASSUME Bad # {} PROVE FALSE
  OBVIOUS
<1>1. \A s \in Bad : IsFiniteSet(s)
  BY FS_Subset
<1>2. PICK s \in Bad : \A t \in Bad : Cardinality(s) <= Cardinality(t)
  <2> HIDE DEF Bad
  <2> QED BY <1>1, SmallestSet
<1>3. s \in SUBSET S /\ IsFiniteSet(s) /\ \A z \in s : f[z] \in Int
  BY <1>1, <1>2
<1>4. PICK y \in s : SumFunctionOnSet(f, s) # f[y] + SumFunctionOnSet(f, s \ {y})
  BY <1>2
<1> DEFINE p == Pick(s)
<1>5. p \in s /\ SumFunctionOnSet(f, s) = f[p] + SumFunctionOnSet(f, s \ {p})
  BY <1>3, <1>4, PickInSet, SumPick
<1> HIDE DEF p
<1>6. p # y
  BY <1>4, <1>5
<1>7. \A z \in s : Splits(s \ {z})
  <2> SUFFICES ASSUME NEW z \in s PROVE Splits(s \ {z})
    OBVIOUS
  <2>1. s \ {z} \in SUBSET S /\ ~(Cardinality(s) <= Cardinality(s \ {z}))
    BY <1>3, SmallerSet
  <2>2. s \ {z} \notin Bad
    BY <1>2, <2>1
  <2> QED BY <2>1, <2>2
<1>8. SumFunctionOnSet(f, s \ {p}) = f[y] + SumFunctionOnSet(f, (s \ {p}) \ {y})
  BY <1>5, <1>6, <1>7
<1>9. SumFunctionOnSet(f, s \ {y}) = f[p] + SumFunctionOnSet(f, (s \ {y}) \ {p})
  BY <1>5, <1>6, <1>7
<1>10. (s \ {p}) \ {y} = (s \ {y}) \ {p}
  OBVIOUS
<1>11. SumFunctionOnSet(f, (s \ {p}) \ {y}) \in Int
  <2>1. IsFiniteSet((s \ {p}) \ {y})
    BY <1>3, FS_Subset
  <2> QED BY <1>3, <2>1, SumType
<1> DEFINE rest == SumFunctionOnSet(f, (s \ {p}) \ {y})
           total == SumFunctionOnSet(f, s)
           sy == SumFunctionOnSet(f, s \ {y})
           sp == SumFunctionOnSet(f, s \ {p})
<1>12. /\ total # f[y] + sy /\ total = f[p] + sp
       /\ sp = f[y] + rest /\ rest \in Int
       /\ f[y] \in Int /\ f[p] \in Int
  BY <1>3, <1>4, <1>5, <1>8, <1>11
<1>13. sy = f[p] + rest
  BY <1>9, <1>10, Zenon
<1> HIDE DEF Bad, Splits, rest, total, sy, sp
<1> QED BY <1>12, <1>13

(* An element put in. *)
LEMMA SumAdd ==
    ASSUME NEW S, IsFiniteSet(S), NEW f, NEW x, x \notin S,
           \A y \in S : f[y] \in Int, f[x] \in Int
    PROVE  SumFunctionOnSet(f, S \union {x}) = SumFunctionOnSet(f, S) + f[x]
<1>1. IsFiniteSet(S \union {x})
  BY FS_AddElement
<1>2. (S \union {x}) \ {x} = S
  OBVIOUS
<1>3. SumFunctionOnSet(f, S \union {x}) = f[x] + SumFunctionOnSet(f, S)
  <2> DEFINE T == S \union {x}
  <2>1. IsFiniteSet(T) /\ x \in T /\ T \ {x} = S /\ \A y \in T : f[y] \in Int
    BY <1>1, <1>2
  <2> HIDE DEF T
  <2>2. SumFunctionOnSet(f, T) = f[x] + SumFunctionOnSet(f, S)
    BY <2>1, SumRemove
  <2> QED BY <2>2 DEF T
<1>4. SumFunctionOnSet(f, S) \in Int /\ f[x] \in Int
  BY SumType
<1> QED BY <1>3, <1>4

(* The sum depends on the values in the set only. *)
LEMMA SumSame ==
    ASSUME NEW S, IsFiniteSet(S), NEW f, NEW g,
           \A x \in S : f[x] \in Int /\ g[x] = f[x]
    PROVE  SumFunctionOnSet(g, S) = SumFunctionOnSet(f, S)
<1>1. \A x \in S : f[x] \in Int /\ g[x] \in Int
  OBVIOUS
<1>2. SumsAll(f, S, Recursion(f, S)) /\ SumsAll(g, S, Recursion(g, S))
  BY <1>1, RecursionExists
<1>3. Agree(f, S, g, S)
  BY DEF Agree
<1>4. Recursion(f, S)[S] = Recursion(g, S)[S]
  BY <1>2, <1>3, SameRecursion
<1> QED BY <1>4, SumIsRecursion

(* One value changes: so does the sum, by as much. *)
LEMMA SumChange ==
    ASSUME NEW S, IsFiniteSet(S), NEW f, NEW g, NEW x \in S,
           \A y \in S : f[y] \in Int /\ g[y] \in Int,
           \A y \in S : y # x => g[y] = f[y]
    PROVE  SumFunctionOnSet(g, S) = SumFunctionOnSet(f, S) + (g[x] - f[x])
<1>1. IsFiniteSet(S \ {x})
  BY FS_Subset
<1>2. SumFunctionOnSet(g, S \ {x}) = SumFunctionOnSet(f, S \ {x})
  BY <1>1, SumSame
<1>3. /\ SumFunctionOnSet(f, S) = f[x] + SumFunctionOnSet(f, S \ {x})
      /\ SumFunctionOnSet(g, S) = g[x] + SumFunctionOnSet(g, S \ {x})
  BY SumRemove
<1>4. SumFunctionOnSet(f, S \ {x}) \in Int
  BY <1>1, SumType
<1> QED BY <1>2, <1>3, <1>4

(* Larger values give a larger sum. *)
LEMMA SumMonotone ==
    ASSUME NEW S, IsFiniteSet(S), NEW f, NEW g,
           \A x \in S : f[x] \in Int /\ g[x] \in Int /\ f[x] <= g[x]
    PROVE  SumFunctionOnSet(f, S) <= SumFunctionOnSet(g, S)
<1> DEFINE Bad == {s \in SUBSET S :
                      ~(SumFunctionOnSet(f, s) <= SumFunctionOnSet(g, s))}
<1> SUFFICES ASSUME Bad # {} PROVE FALSE
  OBVIOUS
<1>1. \A s \in Bad : IsFiniteSet(s)
  BY FS_Subset
<1>2. PICK s \in Bad : \A t \in Bad : Cardinality(s) <= Cardinality(t)
  <2> HIDE DEF Bad
  <2> QED BY <1>1, SmallestSet
<1>3. /\ s \in SUBSET S /\ IsFiniteSet(s)
      /\ ~(SumFunctionOnSet(f, s) <= SumFunctionOnSet(g, s))
  BY <1>1, <1>2
<1>4. s # {}
  BY <1>3, SumEmpty
<1>5. PICK x \in s : TRUE
  BY <1>4
<1>6. s \ {x} \notin Bad
  <2>1. ~(Cardinality(s) <= Cardinality(s \ {x}))
    BY <1>3, SmallerSet
  <2> HIDE DEF Bad
  <2> QED BY <1>2, <2>1
<1>7. SumFunctionOnSet(f, s \ {x}) <= SumFunctionOnSet(g, s \ {x})
  BY <1>3, <1>6
<1>8. /\ SumFunctionOnSet(f, s) = f[x] + SumFunctionOnSet(f, s \ {x})
      /\ SumFunctionOnSet(g, s) = g[x] + SumFunctionOnSet(g, s \ {x})
  BY <1>3, SumRemove
<1>9. /\ SumFunctionOnSet(f, s \ {x}) \in Int /\ SumFunctionOnSet(g, s \ {x}) \in Int
      /\ f[x] \in Int /\ g[x] \in Int /\ f[x] <= g[x]
  <2>1. IsFiniteSet(s \ {x})
    BY <1>3, FS_Subset
  <2> QED BY <1>3, <2>1, SumType
<1> QED BY <1>3, <1>7, <1>8, <1>9

(* The sum of natural numbers is one. *)
LEMMA SumNatural ==
    ASSUME NEW S, IsFiniteSet(S), NEW f, \A x \in S : f[x] \in Nat
    PROVE  SumFunctionOnSet(f, S) \in Nat
<1> DEFINE Bad == {s \in SUBSET S : SumFunctionOnSet(f, s) \notin Nat}
<1> SUFFICES ASSUME Bad # {} PROVE FALSE
  OBVIOUS
<1>1. \A s \in Bad : IsFiniteSet(s)
  BY FS_Subset
<1>2. PICK s \in Bad : \A t \in Bad : Cardinality(s) <= Cardinality(t)
  <2> HIDE DEF Bad
  <2> QED BY <1>1, SmallestSet
<1>3. s \in SUBSET S /\ IsFiniteSet(s) /\ SumFunctionOnSet(f, s) \notin Nat
  BY <1>1, <1>2
<1>4. s # {}
  BY <1>3, SumEmpty
<1>5. PICK x \in s : TRUE
  BY <1>4
<1>6. s \ {x} \notin Bad
  <2>1. ~(Cardinality(s) <= Cardinality(s \ {x}))
    BY <1>3, SmallerSet
  <2> HIDE DEF Bad
  <2> QED BY <1>2, <2>1
<1>7. SumFunctionOnSet(f, s \ {x}) \in Nat
  BY <1>3, <1>6
<1>8. SumFunctionOnSet(f, s) = f[x] + SumFunctionOnSet(f, s \ {x})
  <2>1. \A y \in s : f[y] \in Int
    BY <1>3
  <2> QED BY <1>3, <2>1, SumRemove
<1>9. f[x] \in Nat
  BY <1>3
<1> QED BY <1>3, <1>7, <1>8, <1>9

(* One value falls by q, the others stay. *)
LEMMA SumLess ==
    ASSUME NEW S, IsFiniteSet(S), NEW f, NEW g, NEW x, x \in S, NEW q, q \in Int,
           \A y \in S : f[y] \in Int,
           \A y \in S : y # x => g[y] = f[y],
           g[x] = f[x] - q
    PROVE  SumFunctionOnSet(g, S) = SumFunctionOnSet(f, S) - q
<1> DEFINE before == SumFunctionOnSet(f, S)
           after  == SumFunctionOnSet(g, S)
<1>1. \A y \in S : f[y] \in Int /\ g[y] \in Int
  OBVIOUS
<1> DEFINE T == S \ {x}
           rest == SumFunctionOnSet(f, T)
<1>2. before = f[x] + rest
  BY SumRemove
<1>3. after = g[x] + SumFunctionOnSet(g, T)
  <2>1. \A y \in S : g[y] \in Int
    BY <1>1
  <2> QED BY <2>1, SumRemove
<1>4. IsFiniteSet(T) /\ (\A y \in T : f[y] \in Int /\ g[y] = f[y])
  BY FS_Subset
<1>5. SumFunctionOnSet(g, T) = rest /\ rest \in Int
  <2>1. \A y \in T : f[y] \in Int
    BY <1>4
  <2> HIDE DEF T
  <2> QED BY <1>4, <2>1, SumSame, SumType
<1>6. f[x] \in Int
  OBVIOUS
<1> HIDE DEF before, after, rest
<1>7. after = before - q
  BY <1>2, <1>3, <1>5, <1>6
<1> QED BY <1>7 DEF before, after

(* The sum over two disjoint sets. *)
LEMMA SumDisjoint ==
    ASSUME NEW A, IsFiniteSet(A), NEW B, IsFiniteSet(B), A \cap B = {},
           NEW f, \A y \in A \union B : f[y] \in Int
    PROVE  SumFunctionOnSet(f, A \union B) = SumFunctionOnSet(f, A) + SumFunctionOnSet(f, B)
<1> DEFINE Splits(b) == SumFunctionOnSet(f, A \union b)
                          = SumFunctionOnSet(f, A) + SumFunctionOnSet(f, b)
           Bad == {b \in SUBSET B : ~Splits(b)}
<1> SUFFICES ASSUME Bad # {} PROVE FALSE
  OBVIOUS
<1>1. \A b \in Bad : IsFiniteSet(b)
  BY FS_Subset
<1>2. PICK b \in Bad : \A t \in Bad : Cardinality(b) <= Cardinality(t)
  <2> HIDE DEF Bad
  <2> QED BY <1>1, SmallestSet
<1>3. b \in SUBSET B /\ IsFiniteSet(b) /\ ~Splits(b)
  BY <1>1, <1>2
<1>4. SumFunctionOnSet(f, A) \in Int
  BY SumType
<1>5. b # {}
  <2>1. SumFunctionOnSet(f, A \union {}) = SumFunctionOnSet(f, A) + 0
    <3>1. A \union {} = A
      OBVIOUS
    <3>2. SumFunctionOnSet(f, A \union {}) = SumFunctionOnSet(f, A)
      BY <3>1
    <3> QED BY <1>4, <3>2
  <2> QED BY <1>3, <2>1, SumEmpty
<1>6. PICK x \in b : TRUE
  BY <1>5
<1>7. b \ {x} \notin Bad
  <2>1. ~(Cardinality(b) <= Cardinality(b \ {x}))
    BY <1>3, SmallerSet
  <2> HIDE DEF Bad
  <2> QED BY <1>2, <2>1
<1>8. Splits(b \ {x})
  BY <1>3, <1>7
<1> DEFINE U == A \union b
           c == b \ {x}
<1>9. /\ IsFiniteSet(U) /\ x \in U /\ U \ {x} = A \union c /\ IsFiniteSet(c)
      /\ \A y \in U : f[y] \in Int
  <2>1. IsFiniteSet(U)
    BY <1>3, FS_Union
  <2>2. IsFiniteSet(c)
    BY <1>3, FS_Subset
  <2>3. x \in B /\ x \notin A
    BY <1>3
  <2> QED BY <1>3, <2>1, <2>2, <2>3
<1>10. SumFunctionOnSet(f, U) = f[x] + SumFunctionOnSet(f, U \ {x})
  <2> HIDE DEF U
  <2> QED BY <1>9, SumRemove
<1>11. SumFunctionOnSet(f, b) = f[x] + SumFunctionOnSet(f, c)
  <2>1. \A y \in b : f[y] \in Int
    BY <1>3
  <2> QED BY <1>3, <2>1, SumRemove
<1>12. SumFunctionOnSet(f, c) \in Int /\ f[x] \in Int
  <2>1. \A y \in c : f[y] \in Int
    BY <1>3
  <2>2. f[x] \in Int
    BY <1>3
  <2> HIDE DEF c
  <2> QED BY <1>9, <2>1, <2>2, SumType
<1>13. SumFunctionOnSet(f, U \ {x}) = SumFunctionOnSet(f, A) + SumFunctionOnSet(f, c)
  BY <1>8, <1>9
<1> DEFINE a  == SumFunctionOnSet(f, A)
           sb == SumFunctionOnSet(f, b)
           sc == SumFunctionOnSet(f, c)
           su == SumFunctionOnSet(f, U)
<1>14. su = f[x] + (a + sc) /\ sb = f[x] + sc /\ sc \in Int /\ a \in Int /\ f[x] \in Int
  BY <1>4, <1>10, <1>11, <1>12, <1>13
<1>15. su = a + sb
  <2> HIDE DEF a, sb, sc, su
  <2> QED BY <1>14
<1> QED BY <1>3, <1>15

(* The elements of the parts D[p], p in P. *)
Parts(D, P) == UNION {D[p] : p \in P}

(* The sum over a set cut into disjoint parts is the sum of their sums. *)
LEMMA SumOfParts ==
    ASSUME NEW P, IsFiniteSet(P), NEW D, NEW f,
           \A p \in P : IsFiniteSet(D[p]) /\ \A y \in D[p] : f[y] \in Int,
           \A p, q \in P : p # q => D[p] \cap D[q] = {},
           NEW g, \A p \in P : g[p] = SumFunctionOnSet(f, D[p])
    PROVE  /\ IsFiniteSet(Parts(D, P))
           /\ SumFunctionOnSet(f, Parts(D, P)) = SumFunctionOnSet(g, P)
<1> DEFINE Good(s) == /\ IsFiniteSet(Parts(D, s))
                      /\ SumFunctionOnSet(f, Parts(D, s)) = SumFunctionOnSet(g, s)
           Bad == {s \in SUBSET P : ~Good(s)}
<1> SUFFICES ASSUME Bad # {} PROVE FALSE
  OBVIOUS
<1>0. \A p \in P : g[p] \in Int
  <2> TAKE p \in P
  <2>1. IsFiniteSet(D[p]) /\ \A y \in D[p] : f[y] \in Int
    OBVIOUS
  <2>2. SumFunctionOnSet(f, D[p]) \in Int
    BY <2>1, SumType
  <2> QED BY <2>2
<1>1. \A s \in Bad : IsFiniteSet(s)
  BY FS_Subset
<1>2. PICK s \in Bad : \A t \in Bad : Cardinality(s) <= Cardinality(t)
  <2> HIDE DEF Bad
  <2> QED BY <1>1, SmallestSet
<1>3. s \in SUBSET P /\ IsFiniteSet(s) /\ ~Good(s)
  BY <1>1, <1>2
<1>4. s # {}
  <2>1. Parts(D, {}) = {}
    BY DEF Parts
  <2>2. Good({})
    BY <2>1, SumEmpty, FS_EmptySet
  <2> QED BY <1>3, <2>2
<1>5. PICK x \in s : TRUE
  BY <1>4
<1>6. s \ {x} \notin Bad
  <2> HIDE DEF Bad
  <2>1. ~(Cardinality(s) <= Cardinality(s \ {x}))
    <3>1. IsFiniteSet(s)
      BY <1>3
    <3>2. /\ Cardinality(s) \in Nat /\ Cardinality(s \ {x}) \in Nat
          /\ Cardinality(s \ {x}) < Cardinality(s)
      BY <3>1, SmallerSet
    <3> QED BY <3>2
  <2> QED BY <1>2, <2>1
<1>7. Good(s \ {x})
  BY <1>3, <1>6
<1> DEFINE A == Parts(D, s \ {x})
           B == D[x]
<1>8. /\ x \in P /\ IsFiniteSet(A) /\ IsFiniteSet(B) /\ A \cap B = {}
      /\ Parts(D, s) = A \union B
  <2>1. Parts(D, s) = A \union B
    BY DEF Parts
  <2>2. A \cap B = {}
    BY <1>3 DEF Parts
  <2> QED BY <1>3, <1>7, <2>1, <2>2
<1>9. \A y \in A \union B : f[y] \in Int
  BY <1>3 DEF Parts
<1>10. SumFunctionOnSet(g, s) = g[x] + SumFunctionOnSet(g, s \ {x})
  <2>1. \A p \in s : g[p] \in Int
    BY <1>0, <1>3
  <2> QED BY <1>3, <2>1, SumRemove
<1>11. SumFunctionOnSet(f, A) = SumFunctionOnSet(g, s \ {x})
  BY <1>7
<1>12. g[x] = SumFunctionOnSet(f, B) /\ g[x] \in Int
  BY <1>0, <1>8
<1> HIDE DEF A, B
<1>13. SumFunctionOnSet(f, A \union B) = SumFunctionOnSet(f, A) + SumFunctionOnSet(f, B)
  BY <1>8, <1>9, SumDisjoint
<1>14. IsFiniteSet(A \union B)
  BY <1>8, FS_Union
<1>15. SumFunctionOnSet(f, A) \in Int
  <2>1. \A y \in A : f[y] \in Int
    BY <1>9
  <2> QED BY <1>8, <2>1, SumType
<1> DEFINE sa == SumFunctionOnSet(f, A)
           sb == SumFunctionOnSet(f, B)
           su == SumFunctionOnSet(f, A \union B)
           sg == SumFunctionOnSet(g, s)
<1>16. su = sa + sb /\ sg = sb + sa /\ sa \in Int /\ sb \in Int
  BY <1>10, <1>11, <1>12, <1>13, <1>15
<1>17. su = sg
  <2> HIDE DEF sa, sb, su, sg
  <2> QED BY <1>16
<1>18. Good(s)
  BY <1>8, <1>14, <1>17
<1> QED BY <1>3, <1>18

(* Values c times as large give a sum c times as large. *)
LEMMA SumScale ==
    ASSUME NEW S, IsFiniteSet(S), NEW f, NEW g, NEW c \in Int,
           \A x \in S : f[x] \in Int /\ g[x] = c * f[x]
    PROVE  SumFunctionOnSet(g, S) = c * SumFunctionOnSet(f, S)
<1> DEFINE Bad == {s \in SUBSET S :
                      SumFunctionOnSet(g, s) # c * SumFunctionOnSet(f, s)}
<1> SUFFICES ASSUME Bad # {} PROVE FALSE
  OBVIOUS
<1>1. \A s \in Bad : IsFiniteSet(s)
  BY FS_Subset
<1>2. PICK s \in Bad : \A t \in Bad : Cardinality(s) <= Cardinality(t)
  <2> HIDE DEF Bad
  <2> QED BY <1>1, SmallestSet
<1>3. /\ s \in SUBSET S /\ IsFiniteSet(s)
      /\ SumFunctionOnSet(g, s) # c * SumFunctionOnSet(f, s)
  BY <1>1, <1>2
<1>4. s # {}
  BY <1>3, SumEmpty
<1>5. PICK x \in s : TRUE
  BY <1>4
<1>6. s \ {x} \notin Bad
  <2> HIDE DEF Bad
  <2>1. ~(Cardinality(s) <= Cardinality(s \ {x}))
    <3>1. IsFiniteSet(s)
      BY <1>3
    <3>2. /\ Cardinality(s) \in Nat /\ Cardinality(s \ {x}) \in Nat
          /\ Cardinality(s \ {x}) < Cardinality(s)
      BY <3>1, SmallerSet
    <3> QED BY <3>2
  <2> QED BY <1>2, <2>1
<1> DEFINE rest  == SumFunctionOnSet(f, s \ {x})
           rests == SumFunctionOnSet(g, s \ {x})
           total == SumFunctionOnSet(f, s)
           goal  == SumFunctionOnSet(g, s)
<1>7. rests = c * rest
  BY <1>3, <1>6
<1>8. \A y \in s : f[y] \in Int /\ g[y] \in Int
  BY <1>3
<1>9. total = f[x] + rest
  <2>1. \A y \in s : f[y] \in Int
    BY <1>8
  <2> QED BY <1>3, <2>1, SumRemove
<1>10. goal = g[x] + rests
  <2>1. \A y \in s : g[y] \in Int
    BY <1>8
  <2> QED BY <1>3, <2>1, SumRemove
<1>11. rest \in Int
  <2>1. IsFiniteSet(s \ {x}) /\ \A y \in s \ {x} : f[y] \in Int
    BY <1>3, <1>8, FS_Subset
  <2> QED BY <2>1, SumType
<1>12. f[x] \in Int /\ g[x] = c * f[x]
  BY <1>3, <1>5
<1>13. goal # c * total
  BY <1>3
<1> HIDE DEF Bad, rest, rests, total, goal
<1>14. c * (f[x] + rest) = c * f[x] + c * rest
  BY <1>11, <1>12
<1> QED BY <1>7, <1>9, <1>10, <1>12, <1>13, <1>14

----------------------------------------------------------------------------
(* What erasing one element of a sequence leaves. *)

(* RemoveAt(q, i) is a sequence one shorter whose elements are those of q  *)
(* before i, then those after i.                                           *)
LEMMA RemoveAtProperties ==
    ASSUME NEW S, NEW q \in Seq(S), NEW i \in 1..Len(q)
    PROVE  /\ RemoveAt(q, i) \in Seq(S)
           /\ Len(RemoveAt(q, i)) = Len(q) - 1
           /\ \A j \in 1..(Len(q) - 1) :
                 RemoveAt(q, i)[j] = IF j < i THEN q[j] ELSE q[j + 1]
<1> DEFINE a == SubSeq(q, 1, i - 1)
           b == SubSeq(q, i + 1, Len(q))
<1>1. Len(q) \in Nat /\ i \in Int /\ i >= 1 /\ i <= Len(q)
  BY LenProperties
<1>2. \A k \in 1..Len(q) : q[k] \in S
  BY ElementOfSeq
<1>3. /\ a \in Seq(S)
      /\ Len(a) = i - 1
      /\ \A k \in 1..(i - 1) : a[k] = q[k]
  <2>1. \A k \in 1..(i - 1) : q[k] \in S
    BY <1>1, <1>2
  <2>2. /\ a \in Seq(S)
        /\ Len(a) = IF 1 <= i - 1 THEN (i - 1) - 1 + 1 ELSE 0
        /\ \A k \in 1..((i - 1) - 1 + 1) : a[k] = q[1 + k - 1]
    BY <1>1, <2>1, SubSeqProperties
  <2> HIDE DEF a
  <2> QED BY <1>1, <2>2
<1>4. /\ b \in Seq(S)
      /\ Len(b) = Len(q) - i
      /\ \A k \in 1..(Len(q) - i) : b[k] = q[i + k]
  <2>1. \A k \in (i + 1)..Len(q) : q[k] \in S
    BY <1>1, <1>2
  <2>2. /\ b \in Seq(S)
        /\ Len(b) = IF i + 1 <= Len(q) THEN Len(q) - (i + 1) + 1 ELSE 0
        /\ \A k \in 1..(Len(q) - (i + 1) + 1) : b[k] = q[(i + 1) + k - 1]
    BY <1>1, <2>1, SubSeqProperties
  <2> HIDE DEF b
  <2>3. \A k \in 1..(Len(q) - i) : (i + 1) + k - 1 = i + k
    BY <1>1
  <2> QED BY <1>1, <2>2, <2>3
<1>5. RemoveAt(q, i) = a \o b
  BY DEF RemoveAt
<1> HIDE DEF a, b
<1>6. /\ a \o b \in Seq(S)
      /\ Len(a \o b) = Len(a) + Len(b)
      /\ \A j \in 1..(Len(a) + Len(b)) :
            (a \o b)[j] = IF j <= Len(a) THEN a[j] ELSE b[j - Len(a)]
  BY <1>3, <1>4, ConcatProperties
<1>7. ASSUME NEW j \in 1..(Len(q) - 1)
      PROVE  (a \o b)[j] = IF j < i THEN q[j] ELSE q[j + 1]
  <2>1. j \in 1..(Len(a) + Len(b))
    BY <1>1, <1>3, <1>4
  <2>2. CASE j < i
    BY <1>1, <1>3, <1>6, <2>1, <2>2
  <2>3. CASE ~(j < i)
    <3>1. (a \o b)[j] = b[j - (i - 1)]
      BY <1>1, <1>3, <1>6, <2>1, <2>3
    <3>2. j - (i - 1) \in 1..(Len(q) - i) /\ i + (j - (i - 1)) = j + 1
      BY <1>1, <2>3
    <3> QED BY <1>4, <2>3, <3>1, <3>2
  <2> QED BY <2>2, <2>3
<1>8. QED
  BY <1>1, <1>3, <1>4, <1>5, <1>6, <1>7

(* Erasing element i of a sequence takes f[i] out of the sum over it.      *)
LEMMA SumShift ==
    ASSUME NEW n \in Nat, NEW i \in 1..n, NEW f, NEW g,
           \A j \in 1..n : f[j] \in Int,
           \A j \in 1..(n - 1) : g[j] = IF j < i THEN f[j] ELSE f[j + 1]
    PROVE  SumFunctionOnSet(g, 1..(n - 1)) = SumFunctionOnSet(f, 1..n) - f[i]
<1> DEFINE P == 1..(n - 1)
           at(j) == IF j < i THEN j ELSE j + 1
           D == [j \in P |-> {at(j)}]
           R == (1..n) \ {i}
<1>1. \A j \in P : at(j) \in 1..n /\ at(j) # i /\ g[j] = f[at(j)]
  OBVIOUS
<1>2. \A j, k \in P : j # k => at(j) # at(k)
  OBVIOUS
<1>3. IsFiniteSet(P) /\ IsFiniteSet(1..n) /\ IsFiniteSet(R)
  <2>1. 1 \in Int /\ n \in Int /\ n - 1 \in Int
    OBVIOUS
  <2> QED BY <2>1, FS_Interval, FS_Subset
<1>4. Parts(D, P) = R
  <2>1. Parts(D, P) = {at(j) : j \in P}
    BY DEF Parts
  <2>2. ASSUME NEW k \in R
        PROVE  \E j \in P : at(j) = k
    <3>1. k \in Int /\ k >= 1 /\ k <= n /\ k # i /\ i \in Int /\ i >= 1 /\ i <= n
      OBVIOUS
    <3>2. CASE k < i
      <4>1. k \in P /\ at(k) = k
        BY <3>1, <3>2
      <4> QED BY <4>1
    <3>3. CASE ~(k < i)
      <4>1. k - 1 \in P /\ at(k - 1) = k
        BY <3>1, <3>3
      <4> QED BY <4>1
    <3> QED BY <3>2, <3>3
  <2>3. \A j \in P : at(j) \in R
    BY <1>1
  <2> HIDE DEF P, R, at
  <2> QED BY <2>1, <2>2, <2>3
<1>5. SumFunctionOnSet(f, Parts(D, P)) = SumFunctionOnSet(g, P)
  <2>1. ASSUME NEW p \in P
        PROVE  /\ IsFiniteSet(D[p]) /\ \A y \in D[p] : f[y] \in Int
               /\ g[p] = SumFunctionOnSet(f, D[p])
    <3> DEFINE x == at(p)
    <3>1. x \in 1..n /\ g[p] = f[x] /\ D[p] = {x}
      BY <1>1
    <3> HIDE DEF x, D, P, at
    <3>2. f[x] \in Int /\ IsFiniteSet({x})
      BY <3>1, FS_Singleton
    <3>3. {x} \ {x} = {} /\ x \in {x} /\ \A y \in {x} : f[y] \in Int
      BY <3>2
    <3>4. SumFunctionOnSet(f, {x}) = f[x] + SumFunctionOnSet(f, {x} \ {x})
      BY <3>2, <3>3, SumRemove
    <3>5. SumFunctionOnSet(f, {x}) = f[x]
      BY <3>2, <3>3, <3>4, SumEmpty
    <3> QED BY <3>1, <3>2, <3>5
  <2>2. \A p, q \in P : p # q => D[p] \cap D[q] = {}
    BY <1>2
  <2> HIDE DEF D, P
  <2> QED BY <1>3, <2>1, <2>2, SumOfParts
<1> DEFINE whole == SumFunctionOnSet(f, 1..n)
           rest  == SumFunctionOnSet(f, R)
<1>6. whole = f[i] + rest
  BY <1>3, SumRemove
<1>7. rest \in Int
  <2>1. \A j \in R : f[j] \in Int
    OBVIOUS
  <2> HIDE DEF R
  <2> QED BY <1>3, <2>1, SumType
<1>8. f[i] \in Int
  OBVIOUS
<1>9. SumFunctionOnSet(g, P) = rest
  BY <1>4, <1>5
<1> HIDE DEF whole, rest, P
<1>10. SumFunctionOnSet(g, P) = whole - f[i]
  BY <1>6, <1>7, <1>8, <1>9
<1> QED BY <1>10 DEF whole, P

(* One value of a sequence of numbers changes. *)
LEMMA SumChangeAt ==
    ASSUME NEW n \in Nat, NEW i \in 1..n, NEW f, NEW g,
           \A j \in 1..n : f[j] \in Int /\ g[j] \in Int,
           \A j \in 1..n : j # i => g[j] = f[j]
    PROVE  SumFunctionOnSet(g, 1..n) = SumFunctionOnSet(f, 1..n) + (g[i] - f[i])
<1> DEFINE S == 1..n
           x == i
<1>1. IsFiniteSet(S)
  <2>1. 1 \in Int /\ n \in Int
    OBVIOUS
  <2> QED BY <2>1, FS_Interval
<1>2. (\A y \in S : f[y] \in Int /\ g[y] \in Int) /\ x \in S
  OBVIOUS
<1>3. \A y \in S : y # x => g[y] = f[y]
  OBVIOUS
<1> HIDE DEF S, x
<1>4. SumFunctionOnSet(g, S) = SumFunctionOnSet(f, S) + (g[x] - f[x])
  BY <1>1, <1>2, <1>3, SumChange
<1> QED BY <1>4 DEF S, x
============================================================================
