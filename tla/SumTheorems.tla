---------------------------- MODULE SumTheorems ----------------------------
(***************************************************************************)
(* Sums of integers over finite sets (SumFunctionOnSet of the community    *)
(* modules), for the proofs about flows, and the least member of a set of  *)
(* naturals, which most proofs use in the place of an induction.           *)
(***************************************************************************)
EXTENDS FiniteSetsExt, FiniteSetTheorems, WellFoundedInduction, TLAPS

LEMMA LeastNatural ==
  ASSUME NEW T \in SUBSET Nat, T # {}
  PROVE  \E m \in T : \A n \in T : m <= n
<1>1. PICK m \in T : \A n \in T : ~(<<n, m>> \in OpToRel(<, Nat))
  BY NatLessThanWellFounded, WFMin, Zenon
<1>2. \A n \in T : ~(n < m)
  BY <1>1, Zenon DEF OpToRel
<1>3. \A n \in T : m <= n
  BY <1>2
<1> QED
  BY <1>3

Any(s) == CHOOSE x \in s : TRUE

LEMMA SumUnfolded ==
  ASSUME NEW f, NEW S
  PROVE  SumFunctionOnSet(f, S) =
           (CHOOSE g : g = [s \in SUBSET S |-> IF s = {} THEN 0 ELSE f[Any(s)] + g[s \ {Any(s)}]])[S]
BY Zenon DEF SumFunctionOnSet, FoldFunctionOnSet, MapThenFoldSet, Any

-----------------------------------------------------------------------------
(* What fails for some set fails for one without a smaller one.            *)
LEMMA SmallestSet ==
  ASSUME NEW C, C # {}, \A s \in C : IsFiniteSet(s)
  PROVE  \E m \in C : \A x \in m : m \ {x} \notin C
<1> DEFINE T == { Cardinality(s) : s \in C }
<1>1. \A s \in C : Cardinality(s) \in Nat
  BY FS_CardinalityType
<1>2. T \in SUBSET Nat /\ T # {}
  BY <1>1
<1>3. PICK n \in T : \A k \in T : n <= k
  <2> HIDE DEF T
  <2> QED
    BY <1>2, LeastNatural
<1>4. PICK m \in C : Cardinality(m) = n
  OBVIOUS
<1>5. ASSUME NEW x \in m, m \ {x} \in C PROVE FALSE
  <2>1. Cardinality(m \ {x}) = Cardinality(m) - 1
    BY <1>5, FS_RemoveElement
  <2>2. Cardinality(m) <= Cardinality(m \ {x})
    BY <1>3, <1>4, <1>5
  <2>3. Cardinality(m) \in Nat
    BY <1>1
  <2> QED
    BY <2>1, <2>2, <2>3
<1> QED
  BY <1>5

(* Every finite set of integers has a least member.                        *)
LEMMA LeastInteger ==
  ASSUME NEW S \in SUBSET Int, IsFiniteSet(S), S # {}
  PROVE  \E m \in S : \A n \in S : m <= n
<1> DEFINE Has(s) == \E m \in s : \A n \in s : m <= n
           C == { s \in SUBSET S : s # {} /\ ~Has(s) }
<1> SUFFICES ASSUME ~Has(S) PROVE FALSE
  OBVIOUS
<1>1. S \in C /\ \A s \in C : IsFiniteSet(s)
  BY FS_Subset
<1>2. PICK s \in C : \A x \in s : s \ {x} \notin C
  <2> HIDE DEF C
  <2> QED
    BY <1>1, SmallestSet
<1>3. s \in SUBSET S /\ s # {} /\ ~Has(s)
  OBVIOUS
<1>4. PICK x \in s : TRUE
  BY <1>3
<1>5. x \in Int /\ \A y \in s : y \in Int
  BY <1>3
<1>6. CASE s \ {x} = {}
  BY <1>3, <1>4, <1>5, <1>6
<1>7. CASE s \ {x} # {}
  <2>1. PICK m \in s \ {x} : \A n \in s \ {x} : m <= n
    BY <1>2, <1>3, <1>7
  <2>2. IF x <= m THEN \A n \in s : x <= n ELSE \A n \in s : m <= n
    BY <1>5, <2>1
  <2> QED
    BY <1>3, <2>1, <2>2
<1> QED
  BY <1>6, <1>7

(* What can be continued step by step has a sequence of n steps.           *)
LEMMA Stepwise ==
  ASSUME NEW n \in Nat, NEW T, NEW P, NEW R,
         \A k \in 0..n : P[k] \subseteq T,
         P[0] # {},
         \A k \in 1..n : \A a \in P[k - 1] : \E b \in P[k] : <<a, b>> \in R[k]
  PROVE  \E f \in [0..n -> T] : /\ \A k \in 0..n : f[k] \in P[k]
                                /\ \A k \in 1..n : <<f[k - 1], f[k]>> \in R[k]
<1> DEFINE Steps(f, m) == /\ \A k \in 0..m : f[k] \in P[k]
                          /\ \A k \in 1..m : <<f[k - 1], f[k]>> \in R[k]
           U == { m \in Nat : m <= n /\ ~\E f \in [0..m -> T] : Steps(f, m) }
<1> SUFFICES ASSUME ~\E f \in [0..n -> T] : Steps(f, n) PROVE FALSE
  OBVIOUS
<1>1. PICK m \in U : \A j \in U : m <= j
  <2>1. U \in SUBSET Nat /\ n \in U
    OBVIOUS
  <2> HIDE DEF U
  <2> QED
    BY <2>1, LeastNatural
<1>2. m \in Nat /\ m <= n /\ ~\E f \in [0..m -> T] : Steps(f, m)
  OBVIOUS
<1>3. m # 0
  <2>1. PICK a \in P[0] : a \in T
    OBVIOUS
  <2>2. [k \in 0..0 |-> a] \in [0..0 -> T] /\ Steps([k \in 0..0 |-> a], 0)
    BY <2>1
  <2> QED
    BY <1>2, <2>2
<1>4. PICK f \in [0..(m - 1) -> T] : Steps(f, m - 1)
  <2>1. m - 1 \in Nat /\ m - 1 <= n /\ ~(m <= m - 1)
    BY <1>2, <1>3
  <2>2. m - 1 \notin U
    BY <1>1, <2>1, Zenon
  <2> QED
    BY <2>1, <2>2, Zenon
<1>5. m \in 1..n /\ m \in 0..n /\ m - 1 \in 0..(m - 1)
  BY <1>2, <1>3
<1>6. PICK b \in P[m] : b \in T /\ <<f[m - 1], b>> \in R[m]
  <2>1. f[m - 1] \in P[m - 1]
    BY <1>4, <1>5
  <2> QED
    BY <1>5, <2>1
<1> DEFINE g == [k \in 0..m |-> IF k = m THEN b ELSE f[k]]
<1>7. \A k \in 0..m : k # m => k \in 0..(m - 1)
  BY <1>2
<1>8. g \in [0..m -> T]
  BY <1>6, <1>7
<1>9. \A k \in 0..m : g[k] \in P[k]
  BY <1>4, <1>6, <1>7
<1>10. ASSUME NEW k \in 1..m PROVE <<g[k - 1], g[k]>> \in R[k]
  <2>1. k \in 0..m /\ k - 1 \in 0..m /\ k - 1 # m
    BY <1>2
  <2>2. CASE k = m
    BY <1>6, <2>1, <2>2
  <2>3. CASE k # m
    <3>1. k \in 1..(m - 1)
      BY <1>2, <2>3
    <3> QED
      BY <1>4, <2>1, <2>3, <3>1
  <2> QED
    BY <2>2, <2>3
<1> QED
  BY <1>2, <1>8, <1>9, <1>10

(* What is no greater at first and grows no faster is no greater.          *)
LEMMA NoFaster ==
  ASSUME NEW n \in Nat, NEW f, NEW g,
         \A k \in 0..n : f[k] \in Int /\ g[k] \in Int,
         f[0] <= g[0],
         \A k \in 1..n : f[k] - f[k - 1] <= g[k] - g[k - 1]
  PROVE  f[n] <= g[n]
<1> DEFINE U == { k \in 0..n : ~(f[k] <= g[k]) }
<1> SUFFICES ASSUME ~(f[n] <= g[n]) PROVE FALSE
  OBVIOUS
<1>1. PICK m \in U : \A j \in U : m <= j
  <2>1. U \in SUBSET Nat /\ n \in U
    OBVIOUS
  <2> HIDE DEF U
  <2> QED
    BY <2>1, LeastNatural
<1>2. m \in 0..n /\ ~(f[m] <= g[m])
  OBVIOUS
<1>3. m # 0 /\ m \in 1..n /\ m - 1 \in 0..n
  BY <1>2
<1>4. f[m - 1] <= g[m - 1]
  <2>1. ~(m <= m - 1)
    BY <1>2
  <2> QED
    BY <1>1, <1>3, <2>1
<1>5. f[m] - f[m - 1] <= g[m] - g[m - 1]
  BY <1>3
<1>6. f[m] \in Int /\ g[m] \in Int /\ f[m - 1] \in Int /\ g[m - 1] \in Int
  BY <1>2, <1>3
<1> QED
  BY <1>2, <1>4, <1>5, <1>6

LEMMA AnyIsMember ==
  ASSUME NEW s, s # {}
  PROVE  Any(s) \in s
BY Zenon DEF Any

(* h adds up f, over every subset of S.                                    *)
AddsUp(h, f, S) ==
  \A s \in SUBSET S : h[s] = IF s = {} THEN 0 ELSE f[Any(s)] + h[s \ {Any(s)}]

LEMMA SumExists ==
  ASSUME NEW S, IsFiniteSet(S), NEW f, \A x \in S : f[x] \in Int
  PROVE  \E h \in [SUBSET S -> Int] : AddsUp(h, f, S)
<1> DEFINE F(n) == { s \in SUBSET S : Cardinality(s) <= n }
           Sums(h, n) == \A s \in F(n) :
                           h[s] = IF s = {} THEN 0 ELSE f[Any(s)] + h[s \ {Any(s)}]
           T == { n \in Nat : ~\E h \in [F(n) -> Int] : Sums(h, n) }
<1>1. \A s \in SUBSET S : IsFiniteSet(s) /\ Cardinality(s) \in Nat
                          /\ Cardinality(s) <= Cardinality(S)
  BY FS_Subset, FS_CardinalityType
<1>2. \A s \in SUBSET S : s # {} =>
        /\ Any(s) \in s /\ s \ {Any(s)} \in SUBSET S
        /\ Cardinality(s \ {Any(s)}) = Cardinality(s) - 1
        /\ f[Any(s)] \in Int
  <2> SUFFICES ASSUME NEW s \in SUBSET S, s # {}
               PROVE  /\ Any(s) \in s /\ s \ {Any(s)} \in SUBSET S
                      /\ Cardinality(s \ {Any(s)}) = Cardinality(s) - 1
                      /\ f[Any(s)] \in Int
    OBVIOUS
  <2>1. Any(s) \in s
    BY AnyIsMember
  <2>2. Cardinality(s \ {Any(s)}) = Cardinality(s) - 1
    BY <1>1, <2>1, FS_RemoveElement
  <2> QED
    BY <2>1, <2>2
<1>3. ASSUME NEW m \in Nat, NEW g \in [F(m) -> Int], Sums(g, m)
      PROVE  \E h \in [F(m + 1) -> Int] : Sums(h, m + 1)
  <2> DEFINE Value(s) == IF s = {} THEN 0 ELSE f[Any(s)] + g[s \ {Any(s)}]
             h == [s \in F(m + 1) |-> Value(s)]
  <2>1. ASSUME NEW s \in F(m + 1), s # {}
        PROVE  s \ {Any(s)} \in F(m)
    BY <1>1, <1>2, <2>1
  <2>2. \A s \in F(m + 1) : Value(s) \in Int
    BY <1>2, <2>1
  <2>3. h \in [F(m + 1) -> Int]
    BY <2>2
  <2>4. \A s \in F(m) : s \in F(m + 1) /\ h[s] = g[s]
    <3>1. \A s \in F(m) : s \in F(m + 1)
      BY <1>1
    <3>2. \A s \in F(m) : g[s] = Value(s)
      BY <1>3
    <3> QED
      BY <3>1, <3>2
  <2>5. Sums(h, m + 1)
    <3> SUFFICES ASSUME NEW s \in F(m + 1)
                 PROVE  h[s] = IF s = {} THEN 0 ELSE f[Any(s)] + h[s \ {Any(s)}]
      OBVIOUS
    <3>1. h[s] = Value(s)
      OBVIOUS
    <3> HIDE DEF h
    <3>2. s # {} => h[s \ {Any(s)}] = g[s \ {Any(s)}]
      BY <2>1, <2>4, Zenon
    <3> QED
      BY <3>1, <3>2, Zenon
  <2> HIDE DEF h, Sums
  <2> QED
    BY <2>3, <2>5
<1>4. T = {}
  <2> SUFFICES ASSUME T # {} PROVE FALSE
    OBVIOUS
  <2>1. PICK n \in T : \A k \in T : n <= k
    <3>1. T \in SUBSET Nat
      OBVIOUS
    <3> HIDE DEF T
    <3> QED
      BY <3>1, LeastNatural
  <2>2. n \in Nat /\ ~\E h \in [F(n) -> Int] : Sums(h, n)
    OBVIOUS
  <2>3. \E h \in [F(0) -> Int] : Sums(h, 0)
    <3> DEFINE h == [s \in F(0) |-> 0]
    <3>1. \A s \in F(0) : s = {}
      BY <1>1, FS_EmptySet
    <3>2. h \in [F(0) -> Int]
      OBVIOUS
    <3>3. Sums(h, 0)
      BY <3>1
    <3> HIDE DEF h, Sums
    <3> QED
      BY <3>2, <3>3
  <2>4. n - 1 \in Nat /\ ~(n <= n - 1) /\ (n - 1) + 1 = n
    <3>1. n # 0
      <4> HIDE DEF F, Sums
      <4> QED
        BY <2>2, <2>3
    <3> QED
      BY <2>2, <3>1
  <2>5. n - 1 \notin T
    BY <2>1, <2>4, Zenon
  <2>6. PICK g \in [F(n - 1) -> Int] : Sums(g, n - 1)
    BY <2>4, <2>5, Zenon
  <2>7. \E h \in [F((n - 1) + 1) -> Int] : Sums(h, (n - 1) + 1)
    <3> HIDE DEF F, Sums
    <3> QED
      BY <1>3, <2>4, <2>6
  <2> HIDE DEF F, Sums
  <2> QED
    BY <2>2, <2>4, <2>7
<1>5. Cardinality(S) \in Nat
  BY FS_CardinalityType
<1>6. PICK h \in [F(Cardinality(S)) -> Int] : Sums(h, Cardinality(S))
  <2> HIDE DEF F, Sums
  <2> QED
    BY <1>4, <1>5
<1>7. F(Cardinality(S)) = SUBSET S
  BY <1>1
<1> HIDE DEF F
<1> QED
  BY <1>6, <1>7 DEF AddsUp

(* Two functions that add up f agree.                                      *)
LEMMA SumUnique ==
  ASSUME NEW S, IsFiniteSet(S), NEW f, NEW g, NEW h, NEW R,
         AddsUp(g, f, S), AddsUp(h, f, R), S \subseteq R
  PROVE  g[S] = h[S]
<1> DEFINE C == { s \in SUBSET S : g[s] # h[s] }
<1> SUFFICES ASSUME C # {} PROVE FALSE
  OBVIOUS
<1>1. \A s \in C : IsFiniteSet(s)
  BY FS_Subset
<1>2. PICK m \in C : \A x \in m : m \ {x} \notin C
  <2> HIDE DEF C
  <2> QED
    BY <1>1, SmallestSet
<1>3. m \in SUBSET S /\ m \in SUBSET R /\ g[m] # h[m]
  OBVIOUS
<1>4. m # {}
  BY <1>3 DEF AddsUp
<1>5. Any(m) \in m /\ m \ {Any(m)} \in SUBSET S
  BY <1>3, <1>4, AnyIsMember
<1>6. g[m \ {Any(m)}] = h[m \ {Any(m)}]
  BY <1>2, <1>5
<1> QED
  BY <1>3, <1>4, <1>6 DEF AddsUp

(* The sum of a function over S, unfolded.                                 *)
LEMMA SumAddsUp ==
  ASSUME NEW S, IsFiniteSet(S), NEW f, \A x \in S : f[x] \in Int
  PROVE  \E h \in [SUBSET S -> Int] : AddsUp(h, f, S) /\ SumFunctionOnSet(f, S) = h[S]
<1> DEFINE G(g) == [s \in SUBSET S |-> IF s = {} THEN 0 ELSE f[Any(s)] + g[s \ {Any(s)}]]
           c == CHOOSE g : g = G(g)
<1>1. PICK h \in [SUBSET S -> Int] : AddsUp(h, f, S)
  BY SumExists
<1>2. h = G(h)
  BY <1>1 DEF AddsUp
<1>3. c = G(c)
  BY <1>2, Zenon
<1>4. SumFunctionOnSet(f, S) = c[S]
  BY SumUnfolded, Zenon
<1> HIDE DEF c
<1>5. AddsUp(c, f, S)
  BY <1>3, Zenon DEF AddsUp
<1>6. c[S] = h[S]
  BY <1>1, <1>5, SumUnique
<1> QED
  BY <1>1, <1>4, <1>6

LEMMA SumEmpty ==
  ASSUME NEW f
  PROVE  SumFunctionOnSet(f, {}) = 0
<1>1. IsFiniteSet({}) /\ \A x \in {} : f[x] \in Int
  BY FS_EmptySet
<1>2. PICK h : AddsUp(h, f, {}) /\ SumFunctionOnSet(f, {}) = h[{}]
  BY <1>1, SumAddsUp
<1> QED
  BY <1>2 DEF AddsUp

LEMMA SumInt ==
  ASSUME NEW S, IsFiniteSet(S), NEW f, \A x \in S : f[x] \in Int
  PROVE  SumFunctionOnSet(f, S) \in Int
<1>1. PICK h \in [SUBSET S -> Int] : SumFunctionOnSet(f, S) = h[S]
  BY SumAddsUp
<1> QED
  BY <1>1

LEMMA SumOfAny ==
  ASSUME NEW S, IsFiniteSet(S), S # {}, NEW f, \A x \in S : f[x] \in Int
  PROVE  SumFunctionOnSet(f, S) = f[Any(S)] + SumFunctionOnSet(f, S \ {Any(S)})
<1> DEFINE R == S \ {Any(S)}
<1>1. R \subseteq S /\ IsFiniteSet(R)
  BY FS_Subset
<1>2. PICK h : AddsUp(h, f, S) /\ SumFunctionOnSet(f, S) = h[S]
  BY SumAddsUp
<1>3. PICK g : AddsUp(g, f, R) /\ SumFunctionOnSet(f, R) = g[R]
  BY <1>1, SumAddsUp
<1>4. g[R] = h[R]
  BY <1>1, <1>2, <1>3, SumUnique
<1> QED
  BY <1>2, <1>3, <1>4 DEF AddsUp

(* The order of the terms does not matter.                                 *)
LEMMA SumPick ==
  ASSUME NEW S, IsFiniteSet(S), NEW f, \A x \in S : f[x] \in Int, NEW x \in S
  PROVE  SumFunctionOnSet(f, S) = f[x] + SumFunctionOnSet(f, S \ {x})
<1> DEFINE Sum(s) == SumFunctionOnSet(f, s)
           C == { s \in SUBSET S : \E y \in s : Sum(s) # f[y] + Sum(s \ {y}) }
<1> SUFFICES ASSUME C # {} PROVE FALSE
  BY Zenon
<1>1. \A s \in SUBSET S : IsFiniteSet(s) /\ Sum(s) \in Int
  BY FS_Subset, SumInt
<1>2. PICK m \in C : \A y \in m : m \ {y} \notin C
  <2>1. \A s \in C : IsFiniteSet(s)
    BY <1>1
  <2> HIDE DEF C
  <2> QED
    BY <2>1, SmallestSet
<1>3. PICK y \in m : Sum(m) # f[y] + Sum(m \ {y})
  OBVIOUS
<1>4. m \in SUBSET S /\ IsFiniteSet(m)
  BY <1>1
<1> DEFINE z == Any(m)
<1>5. z \in m /\ Sum(m) = f[z] + Sum(m \ {z})
  BY <1>4, AnyIsMember, SumOfAny
<1> HIDE DEF z
<1>6. z # y
  BY <1>3, <1>5
<1>7. y \in m \ {z} /\ z \in m \ {y} /\ m \ {z} \in SUBSET S /\ m \ {y} \in SUBSET S
  BY <1>4, <1>5, <1>6
<1>8. Sum(m \ {z}) = f[y] + Sum((m \ {z}) \ {y})
  BY <1>2, <1>5, <1>7, Zenon
<1>9. Sum(m \ {y}) = f[z] + Sum((m \ {y}) \ {z})
  BY <1>2, <1>7, Zenon
<1>10. (m \ {z}) \ {y} = (m \ {y}) \ {z}
  OBVIOUS
<1> DEFINE rest == Sum((m \ {y}) \ {z})
<1>11. f[y] \in Int /\ f[z] \in Int /\ rest \in Int
  <2>1. (m \ {y}) \ {z} \in SUBSET S
    BY <1>4
  <2> QED
    BY <1>1, <1>4, <1>5, <2>1, Zenon
<1>12. Sum(m \ {z}) = f[y] + rest /\ Sum(m \ {y}) = f[z] + rest
  BY <1>8, <1>9, <1>10, Zenon
<1> HIDE DEF rest, Sum
<1> QED
  BY <1>3, <1>5, <1>11, <1>12

-----------------------------------------------------------------------------
(* Induction over the subsets of a finite set.                             *)
LEMMA SubsetInduction ==
  ASSUME NEW S, IsFiniteSet(S), NEW G, {} \in G,
         \A m \in SUBSET S : \A x \in m : m \ {x} \in G => m \in G
  PROVE  S \in G
<1> DEFINE C == { s \in SUBSET S : s \notin G }
<1> SUFFICES ASSUME C # {} PROVE FALSE
  OBVIOUS
<1>1. \A s \in C : IsFiniteSet(s)
  BY FS_Subset
<1>2. PICK m \in C : \A x \in m : m \ {x} \notin C
  <2> HIDE DEF C
  <2> QED
    BY <1>1, SmallestSet
<1>3. PICK x \in m : TRUE
  OBVIOUS
<1>4. m \in SUBSET S /\ m \notin G /\ m \ {x} \in G
  BY <1>2, <1>3
<1> QED
  BY <1>3, <1>4

(* What SumPick says of every subset.                                      *)
LEMMA SubsetSums ==
  ASSUME NEW S, IsFiniteSet(S), NEW f, \A x \in S : f[x] \in Int
  PROVE  \A m \in SUBSET S :
           /\ SumFunctionOnSet(f, m) \in Int
           /\ \A x \in m : SumFunctionOnSet(f, m) = f[x] + SumFunctionOnSet(f, m \ {x})
<1> SUFFICES ASSUME NEW m \in SUBSET S
             PROVE  /\ SumFunctionOnSet(f, m) \in Int
                    /\ \A x \in m : SumFunctionOnSet(f, m) =
                                       f[x] + SumFunctionOnSet(f, m \ {x})
  OBVIOUS
<1>1. IsFiniteSet(m) /\ \A x \in m : f[x] \in Int
  BY FS_Subset
<1> QED
  BY <1>1, SumInt, SumPick

(* A sum of sums.                                                          *)
LEMMA SumPlus ==
  ASSUME NEW S, IsFiniteSet(S), NEW f, NEW g, NEW h,
         \A x \in S : f[x] \in Int /\ g[x] \in Int /\ h[x] = f[x] + g[x]
  PROVE  SumFunctionOnSet(h, S) = SumFunctionOnSet(f, S) + SumFunctionOnSet(g, S)
<1> DEFINE F(s) == SumFunctionOnSet(f, s)
           K(s) == SumFunctionOnSet(g, s)
           H(s) == SumFunctionOnSet(h, s)
           Good == { s \in SUBSET S : H(s) = F(s) + K(s) }
<1>1. \A x \in S : f[x] \in Int /\ g[x] \in Int /\ h[x] \in Int
  OBVIOUS
<1>2. /\ \A m \in SUBSET S : F(m) \in Int /\ \A x \in m : F(m) = f[x] + F(m \ {x})
      /\ \A m \in SUBSET S : K(m) \in Int /\ \A x \in m : K(m) = g[x] + K(m \ {x})
      /\ \A m \in SUBSET S : H(m) \in Int /\ \A x \in m : H(m) = h[x] + H(m \ {x})
  BY <1>1, SubsetSums
<1>3. {} \in Good
  BY SumEmpty
<1>4. ASSUME NEW m \in SUBSET S, NEW x \in m, m \ {x} \in Good
      PROVE  m \in Good
  <2> DEFINE n == m \ {x}
  <2>1. n \in SUBSET S /\ x \in S /\ H(n) = F(n) + K(n)
    BY <1>4
  <2>2. F(m) = f[x] + F(n) /\ K(m) = g[x] + K(n) /\ H(m) = h[x] + H(n)
    BY <1>2
  <2>3. F(n) \in Int /\ K(n) \in Int /\ h[x] = f[x] + g[x] /\ f[x] \in Int /\ g[x] \in Int
    BY <1>2, <2>1
  <2> HIDE DEF F, K, H, n
  <2>4. H(m) = F(m) + K(m)
    BY <2>1, <2>2, <2>3
  <2> QED
    BY <2>4
<1>5. S \in Good
  <2> HIDE DEF Good
  <2> QED
    BY <1>3, <1>4, SubsetInduction
<1> QED
  BY <1>5

(* Functions that agree have one sum, and a sum is monotone.               *)
LEMMA SumAtMost ==
  ASSUME NEW S, IsFiniteSet(S), NEW f, NEW g,
         \A x \in S : f[x] \in Int /\ g[x] \in Int /\ f[x] <= g[x]
  PROVE  SumFunctionOnSet(f, S) <= SumFunctionOnSet(g, S)
<1> DEFINE F(s) == SumFunctionOnSet(f, s)
           K(s) == SumFunctionOnSet(g, s)
           Good == { s \in SUBSET S : F(s) <= K(s) }
<1>1. /\ \A m \in SUBSET S : F(m) \in Int /\ \A x \in m : F(m) = f[x] + F(m \ {x})
      /\ \A m \in SUBSET S : K(m) \in Int /\ \A x \in m : K(m) = g[x] + K(m \ {x})
  BY SubsetSums
<1>2. {} \in Good
  BY SumEmpty
<1>3. ASSUME NEW m \in SUBSET S, NEW x \in m, m \ {x} \in Good
      PROVE  m \in Good
  <2> DEFINE n == m \ {x}
  <2>1. n \in SUBSET S /\ x \in S /\ F(n) <= K(n)
    BY <1>3
  <2>2. F(m) = f[x] + F(n) /\ K(m) = g[x] + K(n)
    BY <1>1
  <2>3. F(n) \in Int /\ K(n) \in Int /\ f[x] <= g[x] /\ f[x] \in Int /\ g[x] \in Int
    BY <1>1, <2>1
  <2> HIDE DEF F, K, n
  <2>4. F(m) <= K(m)
    BY <2>1, <2>2, <2>3
  <2> QED
    BY <2>4
<1>4. S \in Good
  <2> HIDE DEF Good
  <2> QED
    BY <1>2, <1>3, SubsetInduction
<1> QED
  BY <1>4

LEMMA SumAgree ==
  ASSUME NEW S, IsFiniteSet(S), NEW f, NEW g,
         \A x \in S : f[x] \in Int /\ g[x] = f[x]
  PROVE  SumFunctionOnSet(g, S) = SumFunctionOnSet(f, S)
<1>1. \A x \in S : f[x] \in Int /\ g[x] \in Int /\ f[x] <= g[x] /\ g[x] <= f[x]
  OBVIOUS
<1>2. SumFunctionOnSet(f, S) <= SumFunctionOnSet(g, S)
  BY <1>1, SumAtMost
<1>3. SumFunctionOnSet(g, S) <= SumFunctionOnSet(f, S)
  BY <1>1, SumAtMost
<1>4. SumFunctionOnSet(f, S) \in Int /\ SumFunctionOnSet(g, S) \in Int
  BY <1>1, SumInt
<1> QED
  BY <1>2, <1>3, <1>4

LEMMA SumZero ==
  ASSUME NEW S, IsFiniteSet(S), NEW f, \A x \in S : f[x] = 0
  PROVE  SumFunctionOnSet(f, S) = 0
<1> DEFINE F == SumFunctionOnSet(f, S)
<1>1. F = F + F
  BY SumPlus
<1>2. F \in Int
  BY SumInt
<1>3. F = 0
  <2> HIDE DEF F
  <2> QED
    BY <1>1, <1>2
<1> QED
  BY <1>3

(* One term more or less, the others being the same.                       *)
LEMMA SumChanged ==
  ASSUME NEW S, IsFiniteSet(S), NEW f, NEW g, NEW x \in S,
         \A y \in S : f[y] \in Int,
         \A y \in S \ {x} : g[y] = f[y],
         g[x] \in Int
  PROVE  SumFunctionOnSet(g, S) = SumFunctionOnSet(f, S) + (g[x] - f[x])
<1> DEFINE R == S \ {x}
           F == SumFunctionOnSet(f, R)
<1>1. IsFiniteSet(R) /\ \A y \in R : f[y] \in Int
  BY FS_Subset
<1>2. SumFunctionOnSet(g, R) = F /\ F \in Int
  BY <1>1, SumAgree, SumInt
<1>3. SumFunctionOnSet(f, S) = f[x] + F
  BY SumPick
<1>4. \A y \in S : g[y] \in Int
  OBVIOUS
<1>5. SumFunctionOnSet(g, S) = g[x] + F
  BY <1>2, <1>4, SumPick
<1> HIDE DEF F
<1> QED
  BY <1>2, <1>3, <1>5

(* The sum of two disjoint sets.                                           *)
LEMMA SumSplit ==
  ASSUME NEW S, IsFiniteSet(S), NEW f, \A x \in S : f[x] \in Int, NEW A \in SUBSET S
  PROVE  SumFunctionOnSet(f, S) = SumFunctionOnSet(f, A) + SumFunctionOnSet(f, S \ A)
<1> DEFINE F(s) == SumFunctionOnSet(f, s)
           Good == { s \in SUBSET A : F(S) = F(s) + F(S \ s) }
<1>1. \A m \in SUBSET S : F(m) \in Int /\ \A x \in m : F(m) = f[x] + F(m \ {x})
  BY SubsetSums
<1>2. {} \in Good
  <2>1. S \ {} = S /\ F({}) = 0 /\ F(S) \in Int
    BY <1>1, SumEmpty
  <2> HIDE DEF F
  <2> QED
    BY <2>1
<1>3. ASSUME NEW m \in SUBSET A, NEW x \in m, m \ {x} \in Good
      PROVE  m \in Good
  <2> DEFINE n == m \ {x}
  <2>1. n \in SUBSET S /\ m \in SUBSET S /\ x \in S /\ F(S) = F(n) + F(S \ n)
    BY <1>3
  <2>2. F(m) = f[x] + F(n)
    BY <1>1, <2>1
  <2>3. x \in S \ n /\ S \ n \in SUBSET S /\ (S \ n) \ {x} = S \ m /\ S \ m \in SUBSET S
    BY <2>1
  <2>4. F(S \ n) = f[x] + F(S \ m)
    BY <1>1, <2>3
  <2>5. F(n) \in Int /\ F(S \ m) \in Int /\ f[x] \in Int
    BY <1>1, <2>1, <2>3
  <2> HIDE DEF F, n
  <2>6. F(S) = F(m) + F(S \ m)
    BY <2>1, <2>2, <2>4, <2>5
  <2> QED
    BY <2>6
<1>4. IsFiniteSet(A)
  BY FS_Subset
<1>5. A \in Good
  <2> HIDE DEF Good
  <2> QED
    BY <1>2, <1>3, <1>4, SubsetInduction
<1> QED
  BY <1>5

-----------------------------------------------------------------------------
(* Sums of sums: of a matrix, row by row or column by column.              *)
RowSums(f, S, T) == [x \in S |-> SumFunctionOnSet(f[x], T)]
ColumnSums(f, S, T) == [y \in T |-> SumFunctionOnSet([x \in S |-> f[x][y]], S)]

LEMMA SumSwap ==
  ASSUME NEW S, IsFiniteSet(S), NEW T, IsFiniteSet(T),
         NEW f, \A x \in S, y \in T : f[x][y] \in Int
  PROVE  SumFunctionOnSet(RowSums(f, S, T), S) = SumFunctionOnSet(ColumnSums(f, S, T), T)
<1> DEFINE R == RowSums(f, S, T)
           c == [y \in T |-> [x \in S |-> f[x][y]]]
           K(s) == [y \in T |-> SumFunctionOnSet(c[y], s)]
           Good == { s \in SUBSET S : SumFunctionOnSet(R, s) = SumFunctionOnSet(K(s), T) }
<1>1. \A x \in S : R[x] = SumFunctionOnSet(f[x], T) /\ R[x] \in Int
  BY SumInt DEF RowSums
<1>2. \A m \in SUBSET S : /\ SumFunctionOnSet(R, m) \in Int
                          /\ \A x \in m : SumFunctionOnSet(R, m) =
                                             R[x] + SumFunctionOnSet(R, m \ {x})
  <2>1. \A x \in S : R[x] \in Int
    BY <1>1
  <2> HIDE DEF R, c, K, Good
  <2> QED
    BY <2>1, SubsetSums
<1>3. \A y \in T : \A m \in SUBSET S :
        /\ SumFunctionOnSet(c[y], m) \in Int
        /\ \A x \in m : SumFunctionOnSet(c[y], m) =
                           f[x][y] + SumFunctionOnSet(c[y], m \ {x})
  <2> SUFFICES ASSUME NEW y \in T
               PROVE  \A m \in SUBSET S :
                        /\ SumFunctionOnSet(c[y], m) \in Int
                        /\ \A x \in m : SumFunctionOnSet(c[y], m) =
                                           f[x][y] + SumFunctionOnSet(c[y], m \ {x})
    OBVIOUS
  <2>1. \A x \in S : c[y][x] = f[x][y] /\ c[y][x] \in Int
    OBVIOUS
  <2> HIDE DEF c
  <2>2. \A m \in SUBSET S :
          /\ SumFunctionOnSet(c[y], m) \in Int
          /\ \A x \in m : SumFunctionOnSet(c[y], m) =
                             c[y][x] + SumFunctionOnSet(c[y], m \ {x})
    BY <2>1, SubsetSums
  <2> QED
    BY <2>1, <2>2
<1>4. {} \in Good
  <2>1. \A y \in T : K({})[y] = 0
    BY SumEmpty
  <2>2. SumFunctionOnSet(K({}), T) = 0
    <3> HIDE DEF K
    <3> QED
      BY <2>1, SumZero
  <2> QED
    BY <2>2, SumEmpty
<1>5. ASSUME NEW m \in SUBSET S, NEW x \in m, m \ {x} \in Good
      PROVE  m \in Good
  <2> DEFINE n == m \ {x}
  <2>1. n \in SUBSET S /\ x \in S /\ SumFunctionOnSet(R, n) = SumFunctionOnSet(K(n), T)
    BY <1>5
  <2>2. \A y \in T : /\ K(n)[y] \in Int /\ f[x][y] \in Int
                     /\ K(m)[y] = f[x][y] + K(n)[y]
    BY <1>3, <2>1
  <2>3. SumFunctionOnSet(K(m), T) = SumFunctionOnSet(f[x], T) + SumFunctionOnSet(K(n), T)
    <3> HIDE DEF K, n
    <3> QED
      BY <2>2, SumPlus
  <2>4. SumFunctionOnSet(R, m) = SumFunctionOnSet(f[x], T) + SumFunctionOnSet(R, n)
    BY <1>1, <1>2, <2>1
  <2>5. SumFunctionOnSet(R, m) = SumFunctionOnSet(K(m), T)
    <3> HIDE DEF K, n, R
    <3> QED
      BY <2>1, <2>3, <2>4
  <2> QED
    BY <2>5
<1>6. S \in Good
  <2> HIDE DEF Good
  <2> QED
    BY <1>4, <1>5, SubsetInduction
<1>7. K(S) = ColumnSums(f, S, T)
  BY DEF ColumnSums
<1> QED
  BY <1>6, <1>7

(* What its members give each other cancels within a set.                  *)
LEMMA SumAntisymmetric ==
  ASSUME NEW S, IsFiniteSet(S), NEW f,
         \A x, y \in S : f[x][y] \in Int /\ f[y][x] = -f[x][y]
  PROVE  SumFunctionOnSet(RowSums(f, S, S), S) = 0
<1> DEFINE R == RowSums(f, S, S)
           K == ColumnSums(f, S, S)
           c == [y \in S |-> [x \in S |-> f[x][y]]]
<1>1. \A x \in S : R[x] = SumFunctionOnSet(f[x], S) /\ R[x] \in Int
  BY SumInt DEF RowSums
<1>2. \A y \in S : K[y] = SumFunctionOnSet(c[y], S)
  BY DEF ColumnSums
<1>3. \A y, x \in S : c[y][x] = f[x][y] /\ c[y][x] \in Int
  OBVIOUS
<1> HIDE DEF c
<1>4. \A y \in S : K[y] \in Int
  BY <1>2, <1>3, SumInt
<1> DEFINE zero == [x \in S |-> 0]
<1>5. SumFunctionOnSet(zero, S) = 0
  BY SumZero
<1>6. \A y, x \in S : zero[x] = c[y][x] + f[y][x]
  BY <1>3
<1> HIDE DEF zero
<1>7. ASSUME NEW y \in S
      PROVE  0 = K[y] + R[y]
  <2>1. SumFunctionOnSet(zero, S) = SumFunctionOnSet(c[y], S) + SumFunctionOnSet(f[y], S)
    BY <1>3, <1>6, SumPlus
  <2> QED
    BY <1>1, <1>2, <1>5, <2>1
<1>8. \A y \in S : zero[y] = K[y] + R[y]
  BY <1>7 DEF zero
<1> HIDE DEF K, R
<1>9. SumFunctionOnSet(zero, S) = SumFunctionOnSet(K, S) + SumFunctionOnSet(R, S)
  BY <1>1, <1>4, <1>8, SumPlus
<1>10. SumFunctionOnSet(R, S) = SumFunctionOnSet(K, S)
  BY SumSwap DEF R, K
<1>11. SumFunctionOnSet(R, S) \in Int
  BY <1>1, SumInt
<1>12. SumFunctionOnSet(R, S) = 0
  BY <1>5, <1>9, <1>10, <1>11
<1> QED
  BY <1>12 DEF R

(* A sum with one term that is not zero.                                   *)
LEMMA SumOne ==
  ASSUME NEW S, IsFiniteSet(S), NEW f, NEW x \in S, f[x] \in Int,
         \A y \in S \ {x} : f[y] = 0
  PROVE  SumFunctionOnSet(f, S) = f[x]
<1>1. \A y \in S : f[y] \in Int
  OBVIOUS
<1>2. SumFunctionOnSet(f, S) = f[x] + SumFunctionOnSet(f, S \ {x})
  BY <1>1, SumPick
<1>3. IsFiniteSet(S \ {x})
  BY FS_Subset
<1>4. SumFunctionOnSet(f, S \ {x}) = 0
  BY <1>3, SumZero
<1> QED
  BY <1>2, <1>4

(* A row of a matrix, and a matrix, as sums over pairs.                    *)
LEMMA SumOfRow ==
  ASSUME NEW x, NEW T, IsFiniteSet(T), NEW g, NEW f,
         \A y \in T : f[<<x, y>>] = g[x][y] /\ g[x][y] \in Int
  PROVE  SumFunctionOnSet(f, {x} \X T) = SumFunctionOnSet(g[x], T)
<1> DEFINE h == g[x]  F(s) == SumFunctionOnSet(f, {x} \X s)
           Good == { s \in SUBSET T : F(s) = SumFunctionOnSet(h, s) }
<1>1. \A y \in T : f[<<x, y>>] = h[y] /\ h[y] \in Int
  OBVIOUS
<1> HIDE DEF h
<1>2. \A s \in SUBSET T : /\ SumFunctionOnSet(h, s) \in Int
                          /\ \A y \in s : SumFunctionOnSet(h, s) =
                                             h[y] + SumFunctionOnSet(h, s \ {y})
  <2>1. \A y \in T : h[y] \in Int
    BY <1>1
  <2> HIDE DEF F, Good
  <2> QED
    BY <2>1, SubsetSums
<1>3. {} \in Good
  <2>1. {x} \X {} = {}
    OBVIOUS
  <2> QED
    BY <2>1, SumEmpty
<1>4. ASSUME NEW m \in SUBSET T, NEW y \in m, m \ {y} \in Good PROVE m \in Good
  <2> DEFINE n == m \ {y}  e == <<x, y>>
  <2>1. n \in SUBSET T /\ y \in T /\ F(n) = SumFunctionOnSet(h, n)
    BY <1>4
  <2>2. F(m) = f[e] + F(n)
    <3>1. e \in {x} \X m /\ ({x} \X m) \ {e} = {x} \X n
      OBVIOUS
    <3>2. IsFiniteSet({x} \X m)
      BY FS_Subset, FS_Singleton, FS_Product
    <3>3. \A a \in {x} \X m : f[a] \in Int
      BY <1>1
    <3> HIDE DEF e, n
    <3> QED
      BY <3>1, <3>2, <3>3, SumPick
  <2>3. f[e] = h[y]
    BY <1>1
  <2>4. SumFunctionOnSet(h, m) = h[y] + SumFunctionOnSet(h, n)
    BY <1>2
  <2> HIDE DEF F, n, e
  <2>5. F(m) = SumFunctionOnSet(h, m)
    BY <2>1, <2>2, <2>3, <2>4
  <2> QED
    BY <2>5
<1>5. T \in Good
  <2> HIDE DEF Good
  <2> QED
    BY <1>3, <1>4, SubsetInduction
<1> QED
  BY <1>5 DEF h

LEMMA SumOfPairs ==
  ASSUME NEW S, IsFiniteSet(S), NEW T, IsFiniteSet(T), NEW g, NEW f,
         \A x \in S, y \in T : f[<<x, y>>] = g[x][y] /\ g[x][y] \in Int
  PROVE  SumFunctionOnSet(f, S \X T) = SumFunctionOnSet(RowSums(g, S, T), S)
<1> DEFINE R == RowSums(g, S, T)
           F(s) == SumFunctionOnSet(f, s \X T)
           Good == { s \in SUBSET S : F(s) = SumFunctionOnSet(R, s) }
<1>1. \A x \in S : R[x] = SumFunctionOnSet(g[x], T) /\ R[x] \in Int
  BY SumInt DEF RowSums
<1>2. \A s \in SUBSET S : /\ SumFunctionOnSet(R, s) \in Int
                          /\ \A x \in s : SumFunctionOnSet(R, s) =
                                             R[x] + SumFunctionOnSet(R, s \ {x})
  <2>1. \A x \in S : R[x] \in Int
    BY <1>1
  <2> HIDE DEF R, Good
  <2> QED
    BY <2>1, SubsetSums
<1>3. {} \in Good
  <2>1. {} \X T = {}
    OBVIOUS
  <2> QED
    BY <2>1, SumEmpty
<1>4. ASSUME NEW m \in SUBSET S, NEW x \in m, m \ {x} \in Good PROVE m \in Good
  <2> DEFINE n == m \ {x}
  <2>1. n \in SUBSET S /\ x \in S /\ F(n) = SumFunctionOnSet(R, n)
    BY <1>4
  <2>2. F(m) = F(n) + SumFunctionOnSet(f, {x} \X T)
    <3>1. /\ n \X T \in SUBSET (m \X T)
          /\ (m \X T) \ (n \X T) = {x} \X T
      OBVIOUS
    <3>2. IsFiniteSet(m \X T)
      BY FS_Subset, FS_Product
    <3>3. \A e \in m \X T : f[e] \in Int
      OBVIOUS
    <3> HIDE DEF n
    <3> QED
      BY <3>1, <3>2, <3>3, SumSplit
  <2>3. SumFunctionOnSet(f, {x} \X T) = R[x]
    BY <1>1, <2>1, SumOfRow
  <2>4. SumFunctionOnSet(R, m) = R[x] + SumFunctionOnSet(R, n)
    BY <1>2
  <2>5. SumFunctionOnSet(R, n) \in Int /\ R[x] \in Int
    BY <1>1, <1>2, <2>1
  <2> HIDE DEF F, R, n
  <2>6. F(m) = SumFunctionOnSet(R, m)
    BY <2>1, <2>2, <2>3, <2>4, <2>5
  <2> QED
    BY <2>6
<1>5. S \in Good
  <2> HIDE DEF Good
  <2> QED
    BY <1>3, <1>4, SubsetInduction
<1> QED
  BY <1>5

=============================================================================
