--------------------------- MODULE SearchesProofs ---------------------------
(***************************************************************************)
(* Proofs about the programs of module Searches, for every graph and every *)
(* number of vertices.  Every program has an inductive invariant of its    *)
(* own (FirstInv, SecondInv, ThirdInv, FifthInv, SeventhInv, NinethInv), a *)
(* lemma for each of its actions and a lemma that the invariant implies    *)
(* the property of the program; SearchesInv puts them together, for the    *)
(* program that runs.  Before them come the lemmas about the operators of  *)
(* GraphProgram (Least, Ascending, Within and ReachableBy), and about      *)
(* queues and stacks.                                                      *)
(***************************************************************************)
EXTENDS Searches, SumTheorems, SequenceTheorems

(* What module GraphProgram computes from a set of vertices, for every     *)
(* set: Least is in it and least, Ascending lists it.  That a place in the *)
(* list exists for every number up to the size of the set is the pigeon-   *)
(* hole principle: the numbers of smaller elements are all different.      *)
Below(S, x) == { y \in S : y < x }

(* Of two elements the greater has more elements below it.                 *)
LEMMA RankInjective ==
  ASSUME NEW S, IsFiniteSet(S), S \subseteq Int, NEW x \in S, NEW z \in S,
         Cardinality(Below(S, x)) = Cardinality(Below(S, z))
  PROVE  x = z
<1>1. ASSUME NEW a \in S, NEW b \in S, a < b
      PROVE  Cardinality(Below(S, a)) # Cardinality(Below(S, b))
  <2>1. Below(S, b) \in SUBSET S /\ IsFiniteSet(Below(S, b))
    <3>1. Below(S, b) \in SUBSET S
      BY DEF Below
    <3> QED BY <3>1, FS_Subset
  <2>2. a \in Int /\ b \in Int /\ \A y \in S : y \in Int
    OBVIOUS
  <2>3. Below(S, a) \in SUBSET Below(S, b) /\ a \in Below(S, b) /\ a \notin Below(S, a)
    <3>1. \A y \in Int : y < a => y < b
      BY <1>1, <2>2
    <3>2. ~(a < a)
      BY <2>2
    <3> QED BY <1>1, <2>2, <3>1, <3>2 DEF Below
  <2> QED BY <2>1, <2>3, FS_Subset
<1>2. x \in Int /\ z \in Int
  OBVIOUS
<1> QED BY <1>1, <1>2

(* Every rank below the size of the set is that of an element.             *)
LEMMA RankSurjective ==
  ASSUME NEW S, IsFiniteSet(S), S \subseteq Int
  PROVE  /\ Cardinality(S) \in Nat
         /\ \A x \in S : Cardinality(Below(S, x)) \in 0..(Cardinality(S) - 1)
         /\ \A k \in 1..Cardinality(S) : \E x \in S : Cardinality(Below(S, x)) = k - 1
<1> DEFINE c == Cardinality(S)
           r == [x \in S |-> Cardinality(Below(S, x))]
<1>1. c \in Nat
  BY FS_CardinalityType
<1>2. ASSUME NEW x \in S
      PROVE  Cardinality(Below(S, x)) \in 0..(c - 1)
  <2>1. Below(S, x) \in SUBSET S /\ x \notin Below(S, x)
    BY DEF Below
  <2>2. /\ IsFiniteSet(Below(S, x)) /\ Cardinality(Below(S, x)) <= c
        /\ Cardinality(Below(S, x)) # c
    BY <2>1, FS_Subset
  <2>3. Cardinality(Below(S, x)) \in Nat
    BY <2>2, FS_CardinalityType
  <2> QED BY <1>1, <2>2, <2>3
<1>3. r \in Injection(S, 0..(c - 1))
  BY <1>2, RankInjective DEF Injection, IsInjective
<1>4. IsFiniteSet(0..(c - 1)) /\ Cardinality(0..(c - 1)) = c
  BY <1>1, FS_Interval
<1>5. r \in Surjection(S, 0..(c - 1))
  BY <1>3, <1>4, FS_Injection
<1>6. ASSUME NEW k \in 1..c
      PROVE  \E x \in S : Cardinality(Below(S, x)) = k - 1
  <2>1. k - 1 \in 0..(c - 1)
    BY <1>1
  <2> QED BY <1>5, <2>1 DEF Surjection
<1> QED BY <1>1, <1>2, <1>6

(* Least is what its name says.                                            *)
LEMMA LeastIsLeast ==
  ASSUME NEW S, IsFiniteSet(S), S \subseteq Int, S # {}
  PROVE  Least(S) \in S /\ \A y \in S : Least(S) <= y
<1>1. Cardinality(S) \in Nat /\ Cardinality(S) # 0
  BY FS_EmptySet, FS_CardinalityType
<1>2. PICK x \in S : Cardinality(Below(S, x)) = 0
  <2>1. 1 \in 1..Cardinality(S)
    BY <1>1
  <2>2. \E x \in S : Cardinality(Below(S, x)) = 1 - 1
    BY <2>1, RankSurjective
  <2> QED BY <2>2
<1>3. Below(S, x) \in SUBSET S
  BY DEF Below
<1>4. Below(S, x) = {}
  BY <1>2, <1>3, FS_Subset, FS_EmptySet
<1>5. \A y \in S : x <= y
  BY <1>4 DEF Below
<1> QED BY <1>5 DEF Least

(* Of finitely many things one has the least value.                        *)
LEMMA LeastValue ==
  ASSUME NEW S, IsFiniteSet(S), S # {}, NEW f, \A x \in S : f[x] \in Int
  PROVE  \E m \in S : \A x \in S : f[m] <= f[x]
<1> DEFINE g == [x \in S |-> f[x]]
           values == { f[x] : x \in S }
<1>1. g \in Surjection(S, values)
  BY DEF Surjection
<1>2. IsFiniteSet(values)
  BY <1>1, FS_Surjection
<1>3. values \in SUBSET Int /\ values # {}
  OBVIOUS
<1>4. PICK m \in values : \A y \in values : m <= y
  <2> HIDE DEF values
  <2> QED BY <1>2, <1>3, LeastInteger
<1>5. PICK x \in S : m = f[x]
  OBVIOUS
<1> QED BY <1>4, <1>5

(* There is only one least element.                                        *)
LEMMA LeastUnique ==
  ASSUME NEW S, S \subseteq Int, NEW a \in S, \A y \in S : a <= y
  PROVE  Least(S) = a
<1>1. \A b \in S : (\A y \in S : b <= y) => b = a
  <2>1. \A b \in Int : b <= a /\ a <= b => b = a
    OBVIOUS
  <2> QED BY <2>1
<1>2. Least(S) \in S /\ \A y \in S : Least(S) <= y
  BY DEF Least
<1> QED BY <1>1, <1>2

(* Ascending is a sequence of the elements of the set, and of all of them. *)
LEMMA AscendingLists ==
  ASSUME NEW S, IsFiniteSet(S), S \subseteq Int
  PROVE  /\ Ascending(S) \in Seq(S)
         /\ Len(Ascending(S)) = Cardinality(S)
         /\ \A x \in S : \E k \in 1..Len(Ascending(S)) : Ascending(S)[k] = x
<1> DEFINE c == Cardinality(S)
           At(k) == CHOOSE x \in S : Cardinality(Below(S, x)) = k - 1
<1>1. c \in Nat
  BY RankSurjective
<1>2. Ascending(S) = [k \in 1..c |-> At(k)]
  BY DEF Ascending, Below
<1>3. \A k \in 1..c : At(k) \in S /\ Cardinality(Below(S, At(k))) = k - 1
  BY RankSurjective
<1> HIDE DEF At
<1>4. Ascending(S) \in [1..c -> S]
  BY <1>2, <1>3
<1>5. Ascending(S) \in Seq(S) /\ Len(Ascending(S)) = c
  BY <1>1, <1>4
<1>6. ASSUME NEW x \in S
      PROVE  \E k \in 1..c : Ascending(S)[k] = x
  <2> DEFINE b == Cardinality(Below(S, x))
  <2>1. b \in 0..(c - 1)
    BY RankSurjective
  <2> HIDE DEF b
  <2>2. b + 1 \in 1..c /\ (b + 1) - 1 = b
    BY <1>1, <2>1
  <2>3. At(b + 1) \in S /\ Cardinality(Below(S, At(b + 1))) = b
    BY <1>3, <2>2
  <2>4. At(b + 1) = x
    BY <2>3, RankInjective DEF b
  <2> QED BY <1>2, <2>2, <2>4
<1> QED BY <1>5, <1>6

(* It has each of them once.                                               *)
Once(q) == \A i, j \in DOMAIN q : q[i] = q[j] => i = j

Lists(q, x) == \E k \in DOMAIN q : q[k] = x

(* The list of a set names every element of it once.                       *)
LEMMA AscendingOnce ==
  ASSUME NEW S, IsFiniteSet(S), S \subseteq Int
  PROVE  Once(Ascending(S)) /\ \A x : Lists(Ascending(S), x) <=> x \in S
<1> DEFINE c == Cardinality(S)
           At(k) == CHOOSE x \in S : Cardinality(Below(S, x)) = k - 1
<1>1. c \in Nat
  BY RankSurjective
<1>2. Ascending(S) = [k \in 1..c |-> At(k)]
  BY DEF Ascending, Below
<1>3. \A k \in 1..c : At(k) \in S /\ Cardinality(Below(S, At(k))) = k - 1
  BY RankSurjective
<1> HIDE DEF At, c
<1>4. DOMAIN Ascending(S) = 1..c /\ \A k \in 1..c : Ascending(S)[k] = At(k)
  BY <1>2
<1>5. \A i, j \in 1..c : At(i) = At(j) => i = j
  BY <1>1, <1>3
<1>6. /\ \A x \in S : \E k \in 1..Len(Ascending(S)) : Ascending(S)[k] = x
      /\ Ascending(S) \in Seq(S)
  BY AscendingLists
<1>7. \A x \in S : Lists(Ascending(S), x)
  BY <1>6 DEF Lists
<1>8. Once(Ascending(S))
  BY <1>4, <1>5 DEF Once
<1>9. \A x : Lists(Ascending(S), x) => x \in S
  BY <1>3, <1>4 DEF Lists
<1> QED BY <1>7, <1>8, <1>9

(* Sequences without repetitions, put together and cut.                    *)
LEMMA Joined ==
  ASSUME NEW A, NEW B, NEW s \in Seq(A), NEW t \in Seq(B)
  PROVE  /\ s \o t \in Seq(A \cup B)
         /\ \A x : Lists(s \o t, x) <=> Lists(s, x) \/ Lists(t, x)
         /\ Once(s) /\ Once(t) /\ (\A x : ~(Lists(s, x) /\ Lists(t, x))) => Once(s \o t)
<1> DEFINE e == s \o t
<1>1. s \in Seq(A \cup B) /\ t \in Seq(A \cup B)
  OBVIOUS
<1>2. /\ e \in Seq(A \cup B) /\ Len(e) = Len(s) + Len(t) /\ DOMAIN e = 1..Len(e)
      /\ \A i \in 1..Len(e) : e[i] = IF i <= Len(s) THEN s[i] ELSE t[i - Len(s)]
  BY <1>1, ConcatProperties, LenProperties
<1>3. /\ Len(s) \in Nat /\ Len(t) \in Nat /\ DOMAIN s = 1..Len(s) /\ DOMAIN t = 1..Len(t)
  OBVIOUS
<1> HIDE DEF e
<1>4. ASSUME NEW x, Lists(e, x) PROVE Lists(s, x) \/ Lists(t, x)
  <2>1. PICK i \in 1..Len(e) : e[i] = x
    BY <1>2, <1>4 DEF Lists
  <2>2. CASE i <= Len(s)
    BY <1>2, <1>3, <2>1, <2>2 DEF Lists
  <2>3. CASE ~(i <= Len(s))
    <3>1. i - Len(s) \in DOMAIN t /\ t[i - Len(s)] = x
      BY <1>2, <1>3, <2>1, <2>3
    <3> QED BY <3>1 DEF Lists
  <2> QED BY <2>2, <2>3
<1>5. ASSUME NEW x, Lists(s, x) PROVE Lists(e, x)
  <2>1. PICK i \in 1..Len(s) : s[i] = x
    BY <1>3, <1>5 DEF Lists
  <2>2. i \in 1..Len(e) /\ e[i] = x
    BY <1>2, <1>3, <2>1
  <2> QED BY <1>2, <2>2 DEF Lists
<1>6. ASSUME NEW x, Lists(t, x) PROVE Lists(e, x)
  <2>1. PICK i \in 1..Len(t) : t[i] = x
    BY <1>3, <1>6 DEF Lists
  <2>2. /\ Len(s) + i \in 1..Len(e) /\ ~(Len(s) + i <= Len(s))
        /\ (Len(s) + i) - Len(s) = i
    BY <1>2, <1>3
  <2>3. e[Len(s) + i] = x
    BY <1>2, <2>1, <2>2
  <2> QED BY <1>2, <2>2, <2>3 DEF Lists
<1>7. ASSUME Once(s), Once(t), \A x : ~(Lists(s, x) /\ Lists(t, x)) PROVE Once(e)
  <2> SUFFICES ASSUME NEW i \in 1..Len(e), NEW j \in 1..Len(e), e[i] = e[j]
               PROVE  i = j
    BY <1>2 DEF Once
  <2>1. ASSUME NEW k \in 1..Len(e) PROVE k <= Len(s) => k \in DOMAIN s /\ e[k] = s[k]
    BY <1>2, <1>3
  <2>2. ASSUME NEW k \in 1..Len(e), ~(k <= Len(s))
        PROVE  k - Len(s) \in DOMAIN t /\ e[k] = t[k - Len(s)]
    BY <1>2, <1>3, <2>2
  <2>3. CASE i <= Len(s) /\ j <= Len(s)
    BY <1>7, <2>1, <2>3 DEF Once
  <2>4. CASE i <= Len(s) /\ ~(j <= Len(s))
    BY <1>7, <2>1, <2>2, <2>4 DEF Lists
  <2>5. CASE ~(i <= Len(s)) /\ j <= Len(s)
    BY <1>7, <2>1, <2>2, <2>5 DEF Lists
  <2>6. CASE ~(i <= Len(s)) /\ ~(j <= Len(s))
    <3>1. i - Len(s) = j - Len(s)
      BY <1>7, <2>2, <2>6 DEF Once
    <3> QED BY <1>3, <3>1
  <2> QED BY <2>3, <2>4, <2>5, <2>6
<1> QED BY <1>2, <1>4, <1>5, <1>6, <1>7 DEF e

(* A queue without its head.                                               *)
LEMMA WithoutHead ==
  ASSUME NEW A, NEW q \in Seq(A), q # <<>>
  PROVE  /\ Head(q) \in A /\ Lists(q, Head(q)) /\ Tail(q) \in Seq(A)
         /\ \A x : Lists(q, x) <=> x = Head(q) \/ Lists(Tail(q), x)
         /\ Once(q) => Once(Tail(q)) /\ ~Lists(Tail(q), Head(q))
<1> DEFINE t == Tail(q)
<1>1. /\ t \in Seq(A) /\ Len(t) = Len(q) - 1 /\ Head(q) = q[1] /\ Head(q) \in A
      /\ \A k \in 1..Len(t) : t[k] = q[k + 1]
  BY HeadTailProperties
<1>2. Len(q) \in Nat /\ Len(q) # 0 /\ DOMAIN q = 1..Len(q)
  OBVIOUS
<1>3. DOMAIN t = 1..Len(t)
  BY <1>1
<1> HIDE DEF t
<1>4. ASSUME NEW k \in DOMAIN q, k # 1 PROVE k - 1 \in DOMAIN t /\ t[k - 1] = q[k]
  BY <1>1, <1>2, <1>3, <1>4
<1>5. ASSUME NEW k \in DOMAIN t PROVE k + 1 \in DOMAIN q /\ t[k] = q[k + 1] /\ k + 1 # 1
  BY <1>1, <1>2, <1>3
<1>6. 1 \in DOMAIN q
  BY <1>2
<1>7. \A x : Lists(q, x) <=> x = q[1] \/ Lists(t, x)
  BY <1>4, <1>5, <1>6 DEF Lists
<1>8. ASSUME Once(q) PROVE Once(t) /\ ~Lists(t, q[1])
  <2>1. \A i, j \in DOMAIN t : t[i] = t[j] => i + 1 = j + 1
    BY <1>5, <1>8 DEF Once
  <2>2. \A i, j \in DOMAIN t : i + 1 = j + 1 => i = j
    BY <1>1, <1>2, <1>3
  <2> QED BY <1>5, <1>6, <1>8, <2>1, <2>2 DEF Once, Lists
<1> QED BY <1>1, <1>7, <1>8 DEF t

(* A stack without its top.                                                *)
LEMMA WithoutLast ==
  ASSUME NEW A, NEW q \in Seq(A), q # <<>>
  PROVE  /\ q[Len(q)] \in A /\ Lists(q, q[Len(q)]) /\ SubSeq(q, 1, Len(q) - 1) \in Seq(A)
         /\ Len(SubSeq(q, 1, Len(q) - 1)) = Len(q) - 1
         /\ \A k \in 1..(Len(q) - 1) : SubSeq(q, 1, Len(q) - 1)[k] = q[k]
         /\ \A x : Lists(q, x) <=> x = q[Len(q)] \/ Lists(SubSeq(q, 1, Len(q) - 1), x)
         /\ Once(q) => /\ Once(SubSeq(q, 1, Len(q) - 1))
                       /\ ~Lists(SubSeq(q, 1, Len(q) - 1), q[Len(q)])
<1> DEFINE t == SubSeq(q, 1, Len(q) - 1)
<1>1. Len(q) \in Nat /\ Len(q) # 0 /\ DOMAIN q = 1..Len(q) /\ q[Len(q)] \in A
  OBVIOUS
<1>2. /\ t \in Seq(A) /\ Len(t) = Len(q) - 1
      /\ \A k \in 1..Len(t) : t[k] = q[k]
  BY <1>1
<1>3. DOMAIN t = 1..Len(t)
  BY <1>2
<1> HIDE DEF t
<1>4. \A k \in DOMAIN t : k \in DOMAIN q /\ k # Len(q) /\ t[k] = q[k]
  BY <1>1, <1>2, <1>3
<1>5. \A k \in DOMAIN q : k # Len(q) => k \in DOMAIN t
  BY <1>1, <1>2, <1>3
<1>6. Len(q) \in DOMAIN q
  BY <1>1
<1>7. \A x : Lists(q, x) <=> x = q[Len(q)] \/ Lists(t, x)
  BY <1>4, <1>5, <1>6 DEF Lists
<1>8. Once(q) => Once(t) /\ ~Lists(t, q[Len(q)])
  BY <1>4, <1>6 DEF Once, Lists
<1> QED BY <1>1, <1>2, <1>6, <1>7, <1>8 DEF t, Lists

(* A stack with a new top.                                                 *)
LEMMA WithNew ==
  ASSUME NEW A, NEW q \in Seq(A), NEW v
  PROVE  /\ Append(q, v) \in Seq(A \cup {v})
         /\ Len(Append(q, v)) = Len(q) + 1 /\ Append(q, v)[Len(q) + 1] = v
         /\ \A k \in 1..Len(q) : Append(q, v)[k] = q[k]
         /\ \A x : Lists(Append(q, v), x) <=> Lists(q, x) \/ x = v
         /\ Once(q) /\ ~Lists(q, v) => Once(Append(q, v))
<1> DEFINE e == Append(q, v)
<1>1. Len(q) \in Nat /\ DOMAIN q = 1..Len(q) /\ q \in Seq(A \cup {v})
  OBVIOUS
<1>2. /\ e \in Seq(A \cup {v}) /\ Len(e) = Len(q) + 1 /\ DOMAIN e = 1..Len(e)
      /\ \A k \in 1..Len(q) : e[k] = q[k]
      /\ e[Len(q) + 1] = v
  BY <1>1, AppendProperties
<1> HIDE DEF e
<1>3. \A k \in DOMAIN e : k \in DOMAIN q \/ k = Len(q) + 1
  BY <1>1, <1>2
<1>4. \A k \in DOMAIN q : k \in DOMAIN e /\ e[k] = q[k] /\ k # Len(q) + 1
  BY <1>1, <1>2
<1>5. Len(q) + 1 \in DOMAIN e
  BY <1>1, <1>2
<1>6. \A x : Lists(e, x) <=> Lists(q, x) \/ x = v
  BY <1>2, <1>3, <1>4, <1>5 DEF Lists
<1>7. Once(q) /\ ~Lists(q, v) => Once(e)
  BY <1>2, <1>3, <1>4 DEF Once, Lists
<1> QED BY <1>2, <1>6, <1>7 DEF e

(* A queue that takes a set of vertices at its end, after its head has     *)
(* left, holds what is left of it and the set.                             *)
Requeued(q, S) == Tail(q) \o Ascending(S)

(* A queue whose head has been taken and whose end is the list of a set:   *)
(* nothing is lost, and nothing comes in twice.                            *)
LEMMA QueueExtended ==
  ASSUME NEW Q, NEW q \in Seq(Q), q # <<>>, NEW S, IsFiniteSet(S), S \subseteq Int
  PROVE  /\ Requeued(q, S) \in Seq(Q \cup S)
         /\ \A x : Lists(q, x) => x = Head(q) \/ Lists(Requeued(q, S), x)
         /\ \A x \in S : Lists(Requeued(q, S), x)
         /\ \A x : Lists(Requeued(q, S), x) => Lists(q, x) \/ x \in S
         /\ Once(q) /\ (\A x \in S : ~Lists(q, x)) =>
              Once(Requeued(q, S)) /\ (Head(q) \notin S => ~Lists(Requeued(q, S), Head(q)))
<1>1. /\ Tail(q) \in Seq(Q)
      /\ \A x : Lists(q, x) <=> x = Head(q) \/ Lists(Tail(q), x)
      /\ Once(q) => Once(Tail(q)) /\ ~Lists(Tail(q), Head(q))
  BY WithoutHead
<1>2. /\ Ascending(S) \in Seq(S) /\ Once(Ascending(S))
      /\ \A x : Lists(Ascending(S), x) <=> x \in S
  BY AscendingLists, AscendingOnce
<1>3. /\ Requeued(q, S) \in Seq(Q \cup S)
      /\ \A x : Lists(Requeued(q, S), x) <=> Lists(Tail(q), x) \/ Lists(Ascending(S), x)
      /\ Once(Tail(q)) /\ Once(Ascending(S)) /\ (\A x : ~(Lists(Tail(q), x) /\ Lists(Ascending(S), x)))
           => Once(Requeued(q, S))
  BY <1>1, <1>2, Joined DEF Requeued
<1> QED BY <1>1, <1>2, <1>3

(* The vertices of the graph, the neighbours of one, and, on an undirected *)
(* graph, that neighbours are each other's.                                *)
LEMMA GraphFacts ==
  ASSUME graph \in Graphs
  PROVE  /\ Len(graph) \in Nat /\ V = 1..Len(graph) /\ V \subseteq Int
         /\ IsFiniteSet(V) /\ \A S \in SUBSET V : IsFiniteSet(S)
         /\ graph \in [V -> [V -> Int]]
         /\ \A x, y : y \in Near(x) <=> y \in V /\ graph[x][y] # 0
         /\ \A x : Near(x) \subseteq V
         /\ ~CheckDirected(graph) => \A x, y \in V : y \in Near(x) <=> x \in Near(y)
<1>1. Len(graph) \in Nat /\ graph \in [1..Len(graph) -> [1..Len(graph) -> Int]]
  BY GraphsAssumption DEF GraphsAssumption, GraphsOn
<1>2. V = 1..Len(graph)
  BY <1>1 DEF V, Vertices
<1>3. IsFiniteSet(V) /\ V \subseteq Int
  BY <1>1, <1>2, FS_Interval
<1>4. \A S \in SUBSET V : IsFiniteSet(S)
  BY <1>3, FS_Subset
<1>5. \A x, y : y \in Near(x) <=> y \in V /\ graph[x][y] # 0
  BY DEF Near, adjacency_list, V, is_edge, weight
<1>6. ~CheckDirected(graph) => \A x, y \in V : graph[x][y] = graph[y][x]
  BY DEF CheckDirected, V, weight
<1> QED BY <1>1, <1>2, <1>3, <1>4, <1>5, <1>6

(* The edges are the pairs of a vertex and a neighbour.                    *)
LEMMA EdgesArePairs ==
  \A e : e \in Edges <=> \E x \in V : \E y \in Near(x) : e = <<x, y>>
BY DEF Edges

-----------------------------------------------------------------------------
(* Reachability.  Within is a recursive function; what the proofs use of   *)
(* it is WithinLaw, and of ReachableBy that it is the least set with x     *)
(* that no pair of E leads out of (ReachLaw).                              *)

Onto(E, S) == S \cup { y \in V : \E z \in S : <<z, y>> \in E }

(* The recursion of Within, with its step named.                           *)
LEMMA WithinUnfolded ==
  ASSUME NEW E, NEW x
  PROVE  Within(E, x) = CHOOSE R : R = [k \in 0..Len(graph) |->
                                          IF k = 0 THEN {x} ELSE Onto(E, R[k - 1])]
BY Zenon DEF Within, Onto

(* Within is the function its recursion describes, and stays among the     *)
(* vertices.                                                               *)
LEMMA WithinLaw ==
  ASSUME graph \in Graphs, NEW E, NEW x \in V
  PROVE  /\ Within(E, x) = [k \in 0..Len(graph) |->
                              IF k = 0 THEN {x} ELSE Onto(E, Within(E, x)[k - 1])]
         /\ Within(E, x)[0] = {x}
         /\ \A k \in 1..Len(graph) : Within(E, x)[k] = Onto(E, Within(E, x)[k - 1])
         /\ \A k \in 0..Len(graph) : Within(E, x)[k] \in SUBSET V
<1> DEFINE n == Len(graph)
           T == SUBSET V
           F(B) == [k \in 0..n |-> IF k = 0 THEN {x} ELSE Onto(E, B[k - 1])]
           P == [k \in 0..n |-> IF k = 0 THEN {{x}} ELSE T]
           R == [k \in 1..n |-> { p \in T \X T : p[2] = Onto(E, p[1]) }]
           W == Within(E, x)
<1>1. n \in Nat /\ {x} \in T
  BY GraphFacts
<1> HIDE DEF n
<1>2. \A B \in T : Onto(E, B) \in T
  BY DEF Onto
<1>3. P[0] # {} /\ \A k \in 0..n : P[k] \subseteq T
  <2>1. 0 \in 0..n
    BY <1>1
  <2>2. P[0] = {{x}}
    BY <2>1
  <2>3. ASSUME NEW k \in 0..n PROVE P[k] \subseteq T
    BY <1>1
  <2> QED BY <2>2, <2>3
<1>4. ASSUME NEW k \in 1..n, NEW a \in P[k - 1] PROVE \E b \in P[k] : <<a, b>> \in R[k]
  <2>1. k \in 0..n /\ k - 1 \in 0..n /\ k # 0
    BY <1>1
  <2>2. a \in T
    BY <1>3, <2>1
  <2>3. Onto(E, a) \in P[k] /\ <<a, Onto(E, a)>> \in R[k]
    BY <1>2, <2>1, <2>2
  <2> QED BY <2>3
<1>5. PICK f \in [0..n -> T] : /\ \A k \in 0..n : f[k] \in P[k]
                               /\ \A k \in 1..n : <<f[k - 1], f[k]>> \in R[k]
  <2> HIDE DEF T, P, R
  <2> QED BY <1>1, <1>3, <1>4, Stepwise
<1>6. f = F(f)
  <2>1. f[0] = {x}
    BY <1>1, <1>5
  <2>2. \A k \in 0..n : k # 0 => k \in 1..n
    BY <1>1
  <2>3. \A k \in 1..n : f[k] = Onto(E, f[k - 1])
    BY <1>5
  <2>4. \A k \in 0..n : f[k] = F(f)[k]
    BY <2>1, <2>2, <2>3
  <2> QED BY <2>4
<1>7. W = F(W)
  <2>1. W = CHOOSE B : B = F(B)
    BY WithinUnfolded, Zenon DEF n
  <2> HIDE DEF W, F
  <2> QED BY <1>6, <2>1, Zenon
<1> HIDE DEF W
<1>8. \A k \in 0..n : W[k] = IF k = 0 THEN {x} ELSE Onto(E, W[k - 1])
  BY <1>7
<1>9. W[0] = {x} /\ \A k \in 1..n : W[k] = Onto(E, W[k - 1])
  BY <1>1, <1>8
<1>10. \A k \in 0..n : W[k] \in T
  <2> DEFINE U == { k \in 0..n : W[k] \notin T }
  <2> SUFFICES ASSUME U # {} PROVE FALSE
    BY Zenon
  <2>1. PICK m \in U : \A j \in U : m <= j
    <3>1. U \in SUBSET Nat
      OBVIOUS
    <3> HIDE DEF U
    <3> QED BY <3>1, LeastNatural
  <2>2. m # 0
    BY <1>1, <1>9
  <2>3. m \in 1..n /\ m - 1 \in 0..n /\ ~(m <= m - 1)
    BY <1>1, <2>2
  <2>4. W[m - 1] \in T
    BY <2>1, <2>3
  <2>5. W[m] \in T
    BY <1>2, <1>9, <2>3, <2>4
  <2> QED BY <2>5
<1> QED BY <1>7, <1>9, <1>10 DEF W, n

(* What is within l pairs contains what is within fewer.                   *)
LEMMA WithinGrows ==
  ASSUME graph \in Graphs, NEW E, NEW x \in V, NEW k \in 0..Len(graph), NEW l \in k..Len(graph)
  PROVE  Within(E, x)[k] \subseteq Within(E, x)[l]
<1> DEFINE n == Len(graph)
           W == Within(E, x)
           U == { j \in 0..n : k <= j /\ ~(W[k] \subseteq W[j]) }
<1>0. n \in Nat
  BY GraphFacts
<1> SUFFICES ASSUME U # {} PROVE FALSE
  <2>1. l \in 0..n /\ k <= l
    BY <1>0
  <2> QED BY <2>1
<1>1. PICK m \in U : \A j \in U : m <= j
  <2>1. U \in SUBSET Nat
    OBVIOUS
  <2> HIDE DEF U
  <2> QED BY <2>1, LeastNatural
<1>2. m \in 0..n /\ k <= m /\ m # k
  OBVIOUS
<1>3. m \in 1..n /\ m - 1 \in 0..n /\ k <= m - 1 /\ ~(m <= m - 1)
  BY <1>0, <1>2
<1>4. W[k] \subseteq W[m - 1]
  BY <1>1, <1>3
<1>5. W[m - 1] \subseteq W[m]
  BY <1>3, WithinLaw DEF Onto
<1> QED BY <1>4, <1>5

(* A step adds a vertex or the last one would not: so n steps are enough.  *)
LEMMA WithinSettles ==
  ASSUME graph \in Graphs, NEW E, NEW x \in V
  PROVE  Onto(E, Within(E, x)[Len(graph)]) = Within(E, x)[Len(graph)]
<1> DEFINE n == Len(graph)
           W == Within(E, x)
           G == [k \in 0..n |-> Cardinality(W[k])]
           H == [k \in 0..n |-> k + 1]
<1>0. n \in Nat /\ V = 1..n /\ IsFiniteSet(V) /\ \A S \in SUBSET V : IsFiniteSet(S)
  BY GraphFacts
<1>1. /\ W[0] = {x} /\ \A k \in 1..n : W[k] = Onto(E, W[k - 1])
      /\ \A k \in 0..n : W[k] \in SUBSET V
  BY WithinLaw
<1> HIDE DEF W, n
<1>2. ASSUME NEW k \in 0..n, Onto(E, W[k]) = W[k]
      PROVE  W[n] = W[k]
  <2> DEFINE U == { j \in 0..n : k <= j /\ W[j] # W[k] }
  <2> SUFFICES ASSUME n \in U PROVE FALSE
    BY <1>0
  <2>1. PICK m \in U : \A j \in U : m <= j
    <3>1. U \in SUBSET Nat
      BY <1>0
    <3> HIDE DEF U
    <3> QED BY <3>1, LeastNatural
  <2>2. m \in 0..n /\ k <= m /\ m # k
    BY <2>1
  <2>3. m \in 1..n /\ m - 1 \in 0..n /\ k <= m - 1 /\ ~(m <= m - 1)
    BY <1>0, <2>2
  <2>4. W[m - 1] = W[k]
    BY <2>1, <2>3
  <2> QED BY <1>1, <1>2, <2>1, <2>3, <2>4
<1>3. SUFFICES ASSUME Onto(E, W[n]) # W[n] PROVE FALSE
  BY DEF W, n
<1>4. ASSUME NEW k \in 1..n
      PROVE  G[k] \in Nat /\ G[k - 1] \in Nat /\ G[k - 1] + 1 <= G[k]
  <2>1. k \in 0..n /\ k - 1 \in 0..n
    BY <1>0
  <2>2. W[k] = Onto(E, W[k - 1]) /\ W[k] \in SUBSET V /\ W[k - 1] \in SUBSET V
    BY <1>1, <2>1
  <2>3. W[k] # W[k - 1]
    <3>1. Onto(E, W[k - 1]) # W[k - 1]
      BY <1>2, <1>3, <2>1
    <3> QED BY <2>2, <3>1
  <2>4. W[k - 1] \in SUBSET W[k]
    BY <2>2 DEF Onto
  <2>5. IsFiniteSet(W[k]) /\ IsFiniteSet(W[k - 1])
    BY <1>0, <2>2
  <2>6. Cardinality(W[k]) \in Nat /\ Cardinality(W[k - 1]) \in Nat
    BY <2>5, FS_CardinalityType
  <2>7. Cardinality(W[k - 1]) <= Cardinality(W[k]) /\ Cardinality(W[k - 1]) # Cardinality(W[k])
    BY <2>3, <2>4, <2>5, FS_Subset
  <2> QED BY <2>1, <2>6, <2>7
<1>5. H[n] <= G[n]
  <2>1. G[0] = 1
    <3>1. 0 \in 0..n
      BY <1>0
    <3> QED BY <1>1, <3>1, FS_Singleton
  <2>2. \A k \in 0..n : H[k] \in Int /\ G[k] \in Int
    <3>1. ASSUME NEW k \in 0..n PROVE G[k] \in Int
      <4>1. IsFiniteSet(W[k])
        BY <1>0, <1>1
      <4> QED BY <4>1, FS_CardinalityType
    <3> QED BY <1>0, <3>1
  <2>3. H[0] <= G[0]
    BY <1>0, <2>1
  <2>4. \A k \in 1..n : H[k] - H[k - 1] <= G[k] - G[k - 1]
    <3>1. ASSUME NEW k \in 1..n PROVE H[k] - H[k - 1] = 1
      BY <1>0
    <3> HIDE DEF G, H
    <3> QED BY <1>4, <3>1
  <2> HIDE DEF G, H
  <2> QED BY <1>0, <2>2, <2>3, <2>4, NoFaster
<1>6. G[n] <= n
  <2>1. n \in 0..n
    BY <1>0
  <2>2. W[n] \in SUBSET V
    BY <1>1, <2>1
  <2>3. Cardinality(V) = n
    BY <1>0, FS_Interval
  <2> QED BY <1>0, <2>1, <2>2, <2>3, FS_Subset
<1>7. H[n] = n + 1
  BY <1>0
<1>8. G[n] \in Int
  <2>1. n \in 0..n
    BY <1>0
  <2>2. IsFiniteSet(W[n])
    BY <1>0, <1>1, <2>1
  <2> QED BY <2>1, <2>2, FS_CardinalityType
<1> HIDE DEF G, H
<1> QED BY <1>0, <1>5, <1>6, <1>7, <1>8

(* What can be reached from x is the least set with x that no pair in E    *)
(* leaves: Len(graph) rounds are enough.                                   *)
LEMMA ReachLaw ==
  ASSUME graph \in Graphs, NEW E, NEW x \in V
  PROVE  /\ x \in ReachableBy(E, x) /\ ReachableBy(E, x) \in SUBSET V
         /\ \A z \in ReachableBy(E, x) : \A y \in V : <<z, y>> \in E => y \in ReachableBy(E, x)
         /\ \A S : x \in S /\ (\A z \in S : \A y \in V : <<z, y>> \in E => y \in S)
                     => ReachableBy(E, x) \subseteq S
<1> DEFINE n == Len(graph)
           W == Within(E, x)
<1>0. n \in Nat /\ 0 \in 0..n /\ n \in 0..n
  <2>1. n \in Nat
    BY GraphFacts
  <2> QED BY <2>1
<1>1. /\ W[0] = {x} /\ \A k \in 1..n : W[k] = Onto(E, W[k - 1])
      /\ \A k \in 0..n : W[k] \in SUBSET V
  BY WithinLaw
<1>2. W[0] \subseteq W[n] /\ Onto(E, W[n]) = W[n]
  BY <1>0, WithinGrows, WithinSettles
<1>3. ReachableBy(E, x) = W[n]
  BY DEF ReachableBy
<1> HIDE DEF W, n
<1>4. ASSUME NEW S, x \in S, \A z \in S : \A y \in V : <<z, y>> \in E => y \in S
      PROVE  W[n] \subseteq S
  <2> DEFINE U == { j \in 0..n : ~(W[j] \subseteq S) }
  <2> SUFFICES ASSUME n \in U PROVE FALSE
    BY <1>0
  <2>1. PICK m \in U : \A j \in U : m <= j
    <3>1. U \in SUBSET Nat
      BY <1>0
    <3> HIDE DEF U
    <3> QED BY <3>1, LeastNatural
  <2>2. m # 0
    BY <1>1, <1>4, <2>1
  <2>3. m \in 1..n /\ m - 1 \in 0..n /\ ~(m <= m - 1)
    BY <1>0, <2>1, <2>2
  <2>4. W[m - 1] \subseteq S
    BY <2>1, <2>3
  <2>5. W[m] = Onto(E, W[m - 1])
    BY <1>1, <2>3
  <2>6. W[m] \subseteq S
    BY <1>4, <2>4, <2>5 DEF Onto
  <2> QED BY <2>1, <2>6
<1>5. x \in W[n] /\ W[n] \in SUBSET V
  BY <1>0, <1>1, <1>2
<1>6. \A z \in W[n] : \A y \in V : <<z, y>> \in E => y \in W[n]
  BY <1>2 DEF Onto
<1> QED BY <1>3, <1>4, <1>5, <1>6

(* What is reached from what is reached; and by more pairs.                *)
LEMMA ReachWithin ==
  ASSUME graph \in Graphs, NEW E, NEW x \in V, NEW S, x \in S,
         \A z \in S : \A y \in V : <<z, y>> \in E => y \in S
  PROVE  ReachableBy(E, x) \subseteq S
BY ReachLaw

(* One pair further is still within reach.                                 *)
LEMMA ReachNext ==
  ASSUME graph \in Graphs, NEW E, NEW x \in V, NEW z \in ReachableBy(E, x),
         NEW y \in V, <<z, y>> \in E
  PROVE  y \in ReachableBy(E, x)
BY ReachLaw

(* What is within reach of something within reach.                         *)
LEMMA ReachOn ==
  ASSUME graph \in Graphs, NEW E, NEW x \in V, NEW y \in ReachableBy(E, x)
  PROVE  y \in V /\ ReachableBy(E, y) \subseteq ReachableBy(E, x)
<1>1. y \in V
  BY ReachLaw
<1> QED BY <1>1, ReachLaw

(* More pairs reach more.                                                  *)
LEMMA ReachMore ==
  ASSUME graph \in Graphs, NEW E, NEW F, E \subseteq F, NEW x \in V
  PROVE  ReachableBy(E, x) \subseteq ReachableBy(F, x)
<1>1. \A z \in ReachableBy(F, x) : \A y \in V : <<z, y>> \in E => y \in ReachableBy(F, x)
  BY ReachLaw
<1>2. x \in ReachableBy(F, x)
  BY ReachLaw
<1> HIDE DEF ReachableBy
<1> QED BY <1>1, <1>2, ReachLaw

(* Pairs that come with their reverses lead back.                          *)
LEMMA ReachBack ==
  ASSUME graph \in Graphs, NEW E, \A a, b \in V : <<a, b>> \in E => <<b, a>> \in E,
         NEW x \in V, NEW y \in ReachableBy(E, x)
  PROVE  x \in ReachableBy(E, y)
<1> DEFINE S == { z \in V : x \in ReachableBy(E, z) }
<1>1. x \in S
  BY ReachLaw
<1>2. ASSUME NEW z \in S, NEW w \in V, <<z, w>> \in E
      PROVE  w \in S
  <2>1. z \in V /\ <<w, z>> \in E
    BY <1>2
  <2>2. w \in ReachableBy(E, w)
    BY <1>2, ReachLaw
  <2>3. z \in ReachableBy(E, w)
    BY <1>2, <2>1, <2>2, ReachNext
  <2> QED BY <1>2, <2>3, ReachOn
<1> HIDE DEF S
<1>3. ReachableBy(E, x) \subseteq S
  BY <1>1, <1>2, ReachLaw
<1> QED BY <1>3 DEF S

(* A step that keeps the graph keeps all that is read off it.             *)
LEMMA GraphSame ==
  ASSUME graph' = graph
  PROVE  /\ V' = V /\ \A x : Near(x)' = Near(x) /\ Edges' = Edges
         /\ \A E, x : Within(E, x)' = Within(E, x) /\ ReachableBy(E, x)' = ReachableBy(E, x)
         /\ CheckDirected(graph)' <=> CheckDirected(graph)
<1>1. V' = V /\ \A x : Near(x)' = Near(x)
  BY DEF V, Near
<1>2. Edges' = Edges
  BY <1>1 DEF Edges
<1>3. \A E, x : Within(E, x)' = Within(E, x) /\ ReachableBy(E, x)' = ReachableBy(E, x)
  BY <1>1, Zenon DEF ReachableBy, Within
<1>4. CheckDirected(graph)' <=> CheckDirected(graph)
  BY DEF CheckDirected
<1> QED BY <1>1, <1>2, <1>3, <1>4

(* Pairs between elements of X lead nowhere else.                          *)
LEMMA WithinStays ==
  ASSUME graph \in Graphs, NEW X, NEW T, T \subseteq X \X X, NEW r \in V, r \in X,
         NEW k \in 0..Len(graph)
  PROVE  Within(T, r)[k] \subseteq X
<1> DEFINE n == Len(graph)
           W == Within(T, r)
           U == { j \in 0..n : ~(W[j] \subseteq X) }
<1>0. n \in Nat
  BY GraphFacts
<1> SUFFICES ASSUME U # {} PROVE FALSE
  OBVIOUS
<1>1. PICK m \in U : \A j \in U : m <= j
  <2>1. U \in SUBSET Nat
    OBVIOUS
  <2> HIDE DEF U
  <2> QED BY <2>1, LeastNatural
<1>2. W[0] = {r}
  BY WithinLaw
<1>3. m \in 1..n /\ m - 1 \in 0..n /\ ~(m <= m - 1)
  BY <1>0, <1>2
<1>4. W[m - 1] \subseteq X
  BY <1>1, <1>3
<1>5. W[m] = Onto(T, W[m - 1])
  BY <1>3, WithinLaw
<1>6. Onto(T, W[m - 1]) \subseteq X
  BY <1>4 DEF Onto
<1> QED BY <1>5, <1>6

(* More pairs lead farther.                                               *)
LEMMA WithinMore ==
  ASSUME graph \in Graphs, NEW E, NEW F, E \subseteq F, NEW r \in V, NEW k \in 0..Len(graph)
  PROVE  Within(E, r)[k] \subseteq Within(F, r)[k]
<1> DEFINE n == Len(graph)
           W == Within(E, r)
           Z == Within(F, r)
           U == { j \in 0..n : ~(W[j] \subseteq Z[j]) }
<1>0. n \in Nat
  BY GraphFacts
<1> SUFFICES ASSUME U # {} PROVE FALSE
  OBVIOUS
<1>1. PICK m \in U : \A j \in U : m <= j
  <2>1. U \in SUBSET Nat
    OBVIOUS
  <2> HIDE DEF U
  <2> QED BY <2>1, LeastNatural
<1>2. W[0] = {r} /\ Z[0] = {r}
  BY WithinLaw
<1>3. m \in 1..n /\ m - 1 \in 0..n /\ ~(m <= m - 1)
  BY <1>0, <1>2
<1>4. W[m - 1] \subseteq Z[m - 1]
  BY <1>1, <1>3
<1>5. W[m] = Onto(E, W[m - 1]) /\ Z[m] = Onto(F, Z[m - 1])
  BY <1>3, WithinLaw
<1>6. Onto(E, W[m - 1]) \subseteq Onto(F, Z[m - 1])
  BY <1>4 DEF Onto
<1> QED BY <1>5, <1>6

(* Edges from u to vertices outside X put these one farther than u.        *)
LEMMA WithinAttached ==
  ASSUME graph \in Graphs, NEW X, NEW T, T \subseteq X \X X, NEW r \in V, r \in X,
         NEW u \in X, NEW S \in SUBSET V, S \cap X = {}, NEW k \in 0..Len(graph)
  PROVE  \A y : y \in Within(T \cup ({u} \X S), r)[k] <=>
                  y \in Within(T, r)[k] \/ (k > 0 /\ u \in Within(T, r)[k - 1] /\ y \in S)
<1> DEFINE n == Len(graph)
           F == T \cup ({u} \X S)
           W == Within(T, r)
           Z == Within(F, r)
           New(j) == IF j > 0 /\ u \in W[j - 1] THEN S ELSE {}
           U == { j \in 0..n : Z[j] # W[j] \cup New(j) }
<1>0. n \in Nat
  BY GraphFacts
<1> SUFFICES ASSUME U # {} PROVE FALSE
  <2>1. U = {} => Z[k] = W[k] \cup New(k)
    OBVIOUS
  <2> QED BY <2>1
<1>1. PICK m \in U : \A j \in U : m <= j
  <2>1. U \in SUBSET Nat
    OBVIOUS
  <2> HIDE DEF U
  <2> QED BY <2>1, LeastNatural
<1>2. m \in 0..n /\ m # 0
  <2>1. W[0] = {r} /\ Z[0] = {r}
    BY WithinLaw
  <2>2. New(0) = {}
    OBVIOUS
  <2> HIDE DEF W, Z, New
  <2> QED BY <1>1, <2>1, <2>2
<1>3. m \in 1..n /\ m - 1 \in 0..n /\ ~(m <= m - 1) /\ m > 0
  BY <1>0, <1>2
<1>4. Z[m - 1] = W[m - 1] \cup New(m - 1)
  BY <1>1, <1>3
<1>5. W[m] = Onto(T, W[m - 1]) /\ Z[m] = Onto(F, Z[m - 1])
  BY <1>3, WithinLaw
<1>6. W[m - 1] \subseteq X
  BY <1>3, WithinStays
<1>7. m - 1 > 0 /\ u \in W[(m - 1) - 1] => u \in W[m - 1]
  <2> SUFFICES ASSUME m - 1 > 0, u \in W[(m - 1) - 1] PROVE u \in W[m - 1]
    OBVIOUS
  <2>1. (m - 1) - 1 \in 0..n /\ m - 1 \in ((m - 1) - 1)..n
    BY <1>0, <1>3
  <2> QED BY <2>1, WithinGrows
<1> DEFINE A == W[m - 1]  N == New(m - 1)
<1>8. N \subseteq S /\ (N # {} => u \in A)
  BY <1>7
<1> HIDE DEF W, Z, U, N, A
<1>9. Onto(F, A \cup N) = Onto(T, A) \cup (IF u \in A THEN S ELSE {})
  <2>1. \A z, y : <<z, y>> \in F <=> <<z, y>> \in T \/ (z = u /\ y \in S)
    OBVIOUS
  <2>2. \A z, y : <<z, y>> \in T => z \in X
    OBVIOUS
  <2>3. u \notin S /\ \A z \in N : z \notin X
    BY <1>8
  <2>4. A \subseteq X /\ N \subseteq V
    BY <1>6, <1>8 DEF A
  <2> HIDE DEF F
  <2>5. \A y : y \in Onto(F, A \cup N) <=> y \in Onto(T, A) \/ (u \in A /\ y \in S)
    <3> SUFFICES ASSUME NEW y PROVE y \in Onto(F, A \cup N) <=> y \in Onto(T, A) \/ (u \in A /\ y \in S)
      OBVIOUS
    <3>1. ASSUME y \in Onto(F, A \cup N) PROVE y \in Onto(T, A) \/ (u \in A /\ y \in S)
      <4>1. CASE y \in A \cup N
        BY <1>8, <4>1 DEF Onto
      <4>2. CASE y \in V /\ \E z \in A \cup N : <<z, y>> \in F
        <5>1. PICK z \in A \cup N : y \in V /\ <<z, y>> \in F
          BY <4>2
        <5>2. CASE <<z, y>> \in T
          BY <2>2, <2>3, <5>1, <5>2 DEF Onto
        <5>3. CASE z = u /\ y \in S
          BY <1>8, <2>3, <5>1, <5>3
        <5> QED BY <2>1, <5>1, <5>2, <5>3
      <4> QED BY <3>1, <4>1, <4>2 DEF Onto
    <3>2. ASSUME y \in Onto(T, A) PROVE y \in Onto(F, A \cup N)
      BY <2>1, <3>2 DEF Onto
    <3>3. ASSUME u \in A, y \in S PROVE y \in Onto(F, A \cup N)
      BY <2>1, <3>3 DEF Onto
    <3> QED BY <3>1, <3>2, <3>3
  <2> QED BY <2>5
<1>10. Z[m] = W[m] \cup New(m)
  BY <1>3, <1>4, <1>5, <1>9 DEF A, N
<1> QED BY <1>1, <1>10 DEF U

-----------------------------------------------------------------------------
(* fifth.cpp, BipartiteChecker: a coloured vertex that is not queued has   *)
(* neighbours of the other colour only, and as long as a proper colouring  *)
(* exists, the colours given in one component are the only ones possible   *)
(* but for their exchange.                                                 *)

(* The module reads the graph as this one does.                            *)
LEMMA FifthReads ==
  /\ Fifth!V = V /\ Fifth!V' = V' /\ \A x : Fifth!Near(x) = Near(x)
  /\ \A S : Fifth!Least(S) = Least(S) /\ Fifth!Ascending(S) = Ascending(S)
  /\ Fifth!Edges = Edges
  /\ Fifth!CheckDirected(graph) <=> CheckDirected(graph)
<1>1. Fifth!V = V /\ Fifth!V' = V'
  BY DEF Fifth!V, Fifth!Vertices, V, Vertices
<1>2. \A x : Fifth!Near(x) = Near(x)
  BY DEF Fifth!Near, Near, Fifth!adjacency_list, adjacency_list, Fifth!is_edge, is_edge,
         Fifth!weight, weight, Fifth!Vertices, Vertices
<1>3. \A S : Fifth!Least(S) = Least(S)
  BY DEF Fifth!Least, Least
<1>4. \A S : Fifth!Ascending(S) = Ascending(S)
  BY DEF Fifth!Ascending, Ascending, Fifth!Cardinality, Cardinality, Fifth!IsFiniteSet, IsFiniteSet
<1>5. Fifth!Edges = Edges
  BY <1>1, <1>2 DEF Fifth!Edges, Edges
<1>6. Fifth!CheckDirected(graph) <=> CheckDirected(graph)
  BY DEF Fifth!CheckDirected, CheckDirected, Fifth!weight, weight, Fifth!Vertices, Vertices
<1> QED BY <1>1, <1>2, <1>3, <1>4, <1>5, <1>6

Queued == { x \in V : Lists(queue, x) }

Colored == { v \in V : colors[v] # Fifth!NoColor }

(* S has one end of every edge. *)
Cut(S) == \A x, y \in V : y \in Near(x) => ((x \in S) # (y \in S))

FifthBegun ==
  /\ graph \in Graphs
  /\ pc \notin {"start", "error"} => ~CheckDirected(graph)
  /\ pc = "start" => colors = [v \in V |-> Fifth!NoColor]
  /\ pc # "check" => queue = <<>>
  /\ pc = "check" => is_bipartite
  /\ pc = "done" => ~is_bipartite \/ Fifth!Uncolored = {}
  /\ ~is_bipartite => partA = {} /\ partB = {}

FifthSettled ==
  is_bipartite =>
    \A x \in Colored \ Queued : \A y \in Near(x) : y \in Colored /\ colors[y] # colors[x]

Agree ==
  \A S \in SUBSET V : Cut(S) =>
    is_bipartite /\ \E T \in SUBSET V : Cut(T) /\ \A v \in Colored : colors[v] = 1 <=> v \in T

FifthInv == Fifth!TypeOK /\ FifthBegun /\ FifthSettled /\ Agree

-----------------------------------------------------------------------------
(* What the invariant says about the sets and the queue.                   *)
LEMMA FifthSets ==
  ASSUME FifthInv
  PROVE  /\ Fifth!Uncolored \subseteq V /\ IsFiniteSet(Fifth!Uncolored) /\ Fifth!Uncolored \subseteq Int
         /\ \A v \in V : v \in Colored <=> v \notin Fifth!Uncolored
         /\ \A v \in V : colors[v] \in {Fifth!NoColor, 0, 1}
         /\ \A v \in Colored : colors[v] \in {0, 1}
         /\ queue \in Seq(Colored) /\ Queued \subseteq Colored
<1>1. graph \in Graphs
  BY DEF FifthInv, FifthBegun
<1>2. Fifth!Uncolored \subseteq V
  BY FifthReads DEF Fifth!Uncolored
<1>3. \A v \in V : colors[v] \in {Fifth!NoColor, 0, 1}
  BY FifthReads DEF FifthInv, Fifth!TypeOK
<1>4. Colored = V \ Fifth!Uncolored
  BY FifthReads DEF Colored, Fifth!Uncolored
<1>5. queue \in Seq(Colored)
  BY FifthReads, <1>4 DEF FifthInv, Fifth!TypeOK
<1>6. Queued \subseteq Colored
  BY <1>5 DEF Queued, Lists
<1> QED BY <1>1, <1>2, <1>3, <1>4, <1>5, <1>6, GraphFacts DEF Colored

(* A new BipartiteChecker.                                                 *)
LEMMA FifthInitInv ==
  ASSUME graph \in Graphs, pc = "start", Fifth!New
  PROVE  FifthInv
<1> USE DEF Fifth!New
<1>1. \A v \in V : colors[v] = Fifth!NoColor
  BY FifthReads
<1>2. Colored = {} /\ Fifth!Uncolored = V
  BY FifthReads, <1>1 DEF Colored, Fifth!Uncolored
<1>3. Fifth!TypeOK
  <2>1. \A v \in V : colors[v] # 0 /\ colors[v] # 1
    BY <1>1 DEF Fifth!NoColor
  <2> QED BY FifthReads, <2>1, <1>2 DEF Fifth!TypeOK
<1>4. FifthBegun
  BY FifthReads DEF FifthBegun
<1>5. FifthSettled /\ Agree
  BY <1>2 DEF FifthSettled, Agree
<1> QED BY <1>3, <1>4, <1>5 DEF FifthInv

(* Steps that give no colour and take nothing from the queue.              *)
LEMMA FifthSameColors ==
  ASSUME FifthInv, UNCHANGED <<graph, colors, is_bipartite, queue>>
  PROVE  FifthSettled' /\ Agree'
BY DEF FifthInv, FifthSettled, Agree, Colored, Queued, Cut, V, Vertices, Near

(* The check for directed edges.                                           *)
LEMMA FifthStartInv ==
  ASSUME FifthInv, Fifth!Start
  PROVE  FifthInv'
<1>1. Fifth!TypeOK'
  BY FifthReads DEF FifthInv, Fifth!TypeOK, Fifth!Start, Fifth!outcome, V, Vertices, Fifth!Uncolored
<1>2. FifthBegun'
  BY FifthReads DEF FifthInv, FifthBegun, Fifth!Start, Fifth!outcome
<1> QED BY <1>1, <1>2, FifthSameColors DEF FifthInv, Fifth!Start, Fifth!outcome

(* bfs_check returns: nothing is left to colour.                           *)
LEMMA FifthCheckedInv ==
  ASSUME FifthInv, Fifth!Checked
  PROVE  FifthInv'
<1>1. Fifth!TypeOK'
  BY FifthReads DEF FifthInv, Fifth!TypeOK, Fifth!Checked, Fifth!outcome, V, Vertices, Fifth!Uncolored
<1>2. FifthBegun'
  BY DEF FifthInv, FifthBegun, Fifth!Checked, Fifth!outcome
<1> QED BY <1>1, <1>2, FifthSameColors DEF FifthInv, Fifth!Checked, Fifth!outcome

(* The parts are collected, or left empty.                                 *)
LEMMA FifthFinishInv ==
  ASSUME FifthInv, Fifth!Finish
  PROVE  FifthInv'
<1>1. Fifth!TypeOK'
  BY FifthReads DEF FifthInv, Fifth!TypeOK, Fifth!Finish, Fifth!outcome, V, Vertices, Fifth!Uncolored
<1>2. FifthBegun'
  BY FifthReads DEF FifthInv, FifthBegun, Fifth!Finish, Fifth!outcome, Fifth!Uncolored, V, Vertices
<1> QED BY <1>1, <1>2, FifthSameColors DEF FifthInv, Fifth!Finish, Fifth!outcome

(* A step of another program.                                              *)
LEMMA FifthStutterInv ==
  ASSUME FifthInv, UNCHANGED Fifth!vars
  PROVE  FifthInv'
<1>1. Fifth!TypeOK' /\ FifthBegun'
  BY FifthReads DEF FifthInv, Fifth!TypeOK, FifthBegun, Fifth!vars, V, Vertices, Fifth!Uncolored
<1> QED BY <1>1, FifthSameColors DEF FifthInv, Fifth!vars

-----------------------------------------------------------------------------
(* A component is begun: all that is coloured has been settled, so that no *)
(* edge joins it to the rest, whose colouring can be turned around.        *)
LEMMA FifthRootInv ==
  ASSUME FifthInv, Fifth!Root
  PROVE  FifthInv'
<1> DEFINE u == Least(Fifth!Uncolored)
<1>1. /\ pc = "roots" /\ is_bipartite /\ Fifth!Uncolored # {}
      /\ colors' = [colors EXCEPT ![u] = 0] /\ partA' = partA \cup {u}
      /\ queue' = <<u>> /\ pc' = "check"
      /\ graph' = graph /\ partB' = partB /\ is_bipartite' = is_bipartite
  BY FifthReads DEF Fifth!Root
<1>2. u \in Fifth!Uncolored /\ u \in V /\ colors[u] = Fifth!NoColor
  BY <1>1, FifthSets, LeastIsLeast DEF Fifth!Uncolored
<1> HIDE DEF u
<1>3. V' = V /\ \A x : Near(x)' = Near(x)
  BY <1>1 DEF V, Vertices, Near
<1>4. colors \in [V -> {Fifth!NoColor, 0, 1}]
  BY FifthReads DEF FifthInv, Fifth!TypeOK
<1>5. /\ \A v \in V : colors'[v] = IF v = u THEN 0 ELSE colors[v]
      /\ colors' \in [V -> {Fifth!NoColor, 0, 1}]
  BY <1>1, <1>4
<1>6. Colored' = Colored \cup {u} /\ Fifth!Uncolored' = Fifth!Uncolored \ {u}
  BY FifthReads, <1>2, <1>3, <1>5 DEF Colored, Fifth!Uncolored, Fifth!NoColor
<1>7. Queued = {} /\ Queued' = {u}
  <2>1. queue = <<>>
    BY <1>1 DEF FifthInv, FifthBegun
  <2>2. \A x : ~Lists(queue, x) /\ (Lists(queue', x) <=> x = u)
    BY <1>1, <2>1 DEF Lists
  <2> QED BY <1>2, <1>3, <2>2 DEF Queued
<1>8. Fifth!TypeOK'
  <2>1. partA' = { v \in V : colors'[v] = 0 }
    BY <1>1, <1>2, <1>5 DEF FifthInv, Fifth!TypeOK
  <2>2. partB' = { v \in V : colors'[v] = 1 }
    BY <1>1, <1>2, <1>5 DEF FifthInv, Fifth!TypeOK, Fifth!NoColor
  <2>3. queue' \in Seq(V' \ Fifth!Uncolored')
    BY <1>1, <1>2, <1>3, <1>6
  <2> QED BY FifthReads, <1>1, <1>3, <1>5, <2>1, <2>2, <2>3 DEF Fifth!TypeOK
<1>9. FifthBegun'
  BY <1>1 DEF FifthInv, FifthBegun
<1>10. \A x \in Colored : \A y \in Near(x) : y \in Colored /\ colors[y] # colors[x]
  BY <1>1, <1>7 DEF FifthInv, FifthSettled
<1>11. FifthSettled'
  <2> SUFFICES ASSUME NEW x \in Colored' \ Queued', NEW y \in Near(x)'
               PROVE  y \in Colored' /\ colors'[y] # colors'[x]
    BY DEF FifthSettled
  <2>1. x \in Colored /\ x # u /\ y \in Near(x)
    BY <1>3, <1>6, <1>7
  <2>2. y \in Colored /\ y # u /\ colors[y] # colors[x]
    BY <1>2, <1>10, <2>1 DEF Colored
  <2> QED BY <1>5, <1>6, <2>1, <2>2 DEF Colored
<1>12. Agree'
  <2> SUFFICES ASSUME NEW S \in SUBSET V, Cut(S)
               PROVE  \E T \in SUBSET V : Cut(T) /\ \A v \in Colored \cup {u} :
                                                      colors'[v] = 1 <=> v \in T
    BY <1>1, <1>3, <1>6 DEF Agree, Cut
  <2>1. PICK T \in SUBSET V : Cut(T) /\ \A v \in Colored : colors[v] = 1 <=> v \in T
    BY DEF FifthInv, Agree
  <2>2. \A v \in Colored : v # u /\ colors'[v] = colors[v]
    BY <1>2, <1>5 DEF Colored
  <2>3. colors'[u] = 0 /\ u \notin Colored
    BY <1>2, <1>5 DEF Colored
  <2>4. CASE u \notin T
    BY <2>1, <2>2, <2>3, <2>4
  <2>5. CASE u \in T
    <3> DEFINE R == (T \cap Colored) \cup (Fifth!Uncolored \ T)
    <3>1. R \in SUBSET V
      BY FifthSets
    <3>2. \A v \in Colored \cup {u} : colors'[v] = 1 <=> v \in R
      BY <1>2, <2>1, <2>2, <2>3, <2>5, FifthSets
    <3>3. ASSUME NEW x \in V, NEW y \in V, y \in Near(x)
          PROVE  (x \in R) # (y \in R)
      <4>1. x \in Near(y)
        BY <1>1, <3>3, GraphFacts DEF FifthInv, FifthBegun
      <4>2. x \in Colored <=> y \in Colored
        BY <1>10, <3>3, <4>1
      <4>3. (x \in T) # (y \in T)
        BY <2>1, <3>3 DEF Cut
      <4> QED BY <4>2, <4>3, FifthSets
    <3> QED BY <3>1, <3>2, <3>3 DEF Cut
  <2> QED BY <2>4, <2>5
<1> QED BY <1>8, <1>9, <1>11, <1>12 DEF FifthInv

-----------------------------------------------------------------------------
(* A vertex is taken and nothing clashes: it is settled, and whichever     *)
(* colouring agreed with its colour agrees with those of its neighbours.   *)
LEMMA FifthPopInv ==
  ASSUME FifthInv, Fifth!Pop
  PROVE  FifthInv'
<1> DEFINE u == Head(queue)
           new == Near(u) \cap Fifth!Uncolored
<1>1. /\ pc = "check" /\ queue # <<>> /\ Fifth!Clashes(u) = {}
      /\ colors' = [v \in V |-> IF v \in new THEN 1 - colors[u] ELSE colors[v]]
      /\ partA' = IF colors[u] = 1 THEN partA \cup new ELSE partA
      /\ partB' = IF colors[u] = 1 THEN partB ELSE partB \cup new
      /\ queue' = Tail(queue) \o Ascending(new)
      /\ graph' = graph /\ pc' = pc /\ is_bipartite' = is_bipartite
  BY FifthReads DEF Fifth!Pop, Fifth!Color
<1>2. is_bipartite /\ ~CheckDirected(graph) /\ graph \in Graphs
  BY <1>1 DEF FifthInv, FifthBegun
<1>3. u \in Colored /\ u \in V /\ colors[u] \in {0, 1}
  <2>1. u \in Colored
    BY <1>1, FifthSets, HeadTailProperties
  <2> QED BY <2>1, FifthSets DEF Colored
<1>4. /\ new \subseteq V /\ new \in SUBSET V /\ IsFiniteSet(new) /\ new \subseteq Int
      /\ new \cap Colored = {} /\ u \notin new
  <2>1. new \in SUBSET V /\ new \cap Colored = {}
    BY FifthSets
  <2> QED BY <1>2, <1>3, <2>1, GraphFacts
<1>5. /\ queue' \in Seq(Colored \cup new)
      /\ \A x : Lists(queue, x) => x = u \/ Lists(queue', x)
      /\ \A x \in new : Lists(queue', x)
  <2>1. queue \in Seq(Colored) /\ queue # <<>>
    BY <1>1, FifthSets
  <2>2. queue' = Requeued(queue, new)
    BY <1>1 DEF Requeued
  <2> HIDE DEF new
  <2> QED BY <1>4, <2>1, <2>2, QueueExtended
<1>6. \A v \in Near(u) : v \in V /\ (v \in new \/ v \in Colored) /\ colors[v] # colors[u]
  <2>1. \A v \in Near(u) : v \in V
    BY <1>2, GraphFacts
  <2>2. \A v \in Near(u) : colors[v] # colors[u]
    BY FifthReads, <1>1 DEF Fifth!Clashes
  <2> QED BY <2>1, <2>2, FifthSets
<1>7. \A v \in new : v \in V /\ v \in Near(u) /\ colors[v] = Fifth!NoColor
  BY FifthReads DEF Fifth!Uncolored
<1> HIDE DEF new, u
<1>8. V' = V /\ \A x : Near(x)' = Near(x)
  BY <1>1 DEF V, Vertices, Near
<1>9. /\ \A v \in V : colors'[v] = IF v \in new THEN 1 - colors[u] ELSE colors[v]
      /\ \A v \in new : colors'[v] \in {0, 1} /\ (colors'[v] = 1 <=> colors[u] = 0)
                        /\ colors'[v] # colors[u]
      /\ colors' \in [V -> {Fifth!NoColor, 0, 1}]
  <2>1. 1 - colors[u] \in {0, 1} /\ (1 - colors[u] = 1 <=> colors[u] = 0)
        /\ 1 - colors[u] # colors[u]
    BY <1>3
  <2>2. \A v \in V : colors'[v] = IF v \in new THEN 1 - colors[u] ELSE colors[v]
    BY <1>1
  <2>3. \A v \in new : colors'[v] = 1 - colors[u]
    BY <1>4, <2>2
  <2>4. colors' \in [V -> {Fifth!NoColor, 0, 1}]
    BY <1>1, <2>1, FifthSets
  <2> QED BY <2>1, <2>2, <2>3, <2>4
<1>10. Colored' = Colored \cup new /\ Fifth!Uncolored' = Fifth!Uncolored \ new
  <2>1. \A v \in V : v \in new => colors'[v] # Fifth!NoColor
    BY <1>9 DEF Fifth!NoColor
  <2> QED BY FifthReads, <1>4, <1>8, <1>9, <2>1 DEF Colored, Fifth!Uncolored
<1>11. \A v \in Colored : v \in V /\ v \notin new /\ colors'[v] = colors[v]
  BY <1>4, <1>9 DEF Colored
<1>12. partA' = { v \in V : colors'[v] = 0 } /\ partB' = { v \in V : colors'[v] = 1 }
  <2>1. /\ partA = { v \in V : colors[v] = 0 } /\ partB = { v \in V : colors[v] = 1 }
        /\ \A v \in new : v \in V /\ colors[v] # 0 /\ colors[v] # 1
    BY FifthReads, <1>2, <1>7 DEF FifthInv, Fifth!TypeOK, Fifth!NoColor
  <2>2. CASE colors[u] = 1
    <3>1. partA' = partA \cup new /\ partB' = partB
      BY <1>1, <2>2
    <3>2. /\ \A v \in new : colors'[v] = 0
          /\ \A v \in V \ new : colors'[v] = colors[v]
      BY <1>9, <2>1, <2>2
    <3> QED BY <2>1, <3>1, <3>2
  <2>3. CASE colors[u] = 0
    <3>1. partA' = partA /\ partB' = partB \cup new
      BY <1>1, <2>3
    <3>2. /\ \A v \in new : colors'[v] = 1
          /\ \A v \in V \ new : colors'[v] = colors[v]
      BY <1>9, <2>1, <2>3
    <3> QED BY <2>1, <3>1, <3>2
  <2> QED BY <1>3, <2>2, <2>3
<1>13. Fifth!TypeOK'
  <2>1. Colored \cup new = V \ (Fifth!Uncolored \ new)
    BY <1>4, <1>11, FifthSets
  <2>2. queue' \in Seq(V' \ Fifth!Uncolored')
    BY <1>5, <1>8, <1>10, <2>1
  <2> QED BY FifthReads, <1>1, <1>2, <1>8, <1>9, <1>12, <2>2 DEF FifthInv, Fifth!TypeOK
<1>14. FifthBegun'
  BY <1>1, <1>2 DEF FifthInv, FifthBegun
<1>15. \A x \in Queued : x = u \/ x \in Queued'
  BY <1>4, <1>5, <1>8 DEF Queued
<1>16. new \subseteq Queued'
  BY <1>4, <1>5, <1>8 DEF Queued
<1>17. FifthSettled'
  <2> SUFFICES ASSUME NEW x \in Colored' \ Queued', NEW y \in Near(x)'
               PROVE  y \in Colored' /\ colors'[y] # colors'[x]
    BY DEF FifthSettled
  <2>1. x \in Colored /\ y \in Near(x) /\ colors'[x] = colors[x]
    BY <1>8, <1>10, <1>11, <1>16
  <2>2. CASE x = u
    <3>1. CASE y \in new
      BY <1>9, <1>10, <2>1, <2>2, <3>1
    <3>2. CASE y \in Colored
      BY <1>6, <1>10, <1>11, <2>1, <2>2, <3>2
    <3> QED BY <1>6, <2>1, <2>2, <3>1, <3>2
  <2>3. CASE x # u
    <3>1. x \notin Queued
      BY <1>15, <2>3
    <3>2. y \in Colored /\ colors[y] # colors[x]
      BY <1>2, <2>1, <3>1 DEF FifthInv, FifthSettled
    <3> QED BY <1>10, <1>11, <2>1, <3>2
  <2> QED BY <2>2, <2>3
<1>18. \A S \in SUBSET V : Cut(S) =>
          \E T \in SUBSET V : Cut(T) /\ \A v \in Colored \cup new : colors'[v] = 1 <=> v \in T
  <2> SUFFICES ASSUME NEW S \in SUBSET V, Cut(S)
               PROVE  \E T \in SUBSET V : Cut(T) /\ \A v \in Colored \cup new :
                                                      colors'[v] = 1 <=> v \in T
    OBVIOUS
  <2>1. PICK T \in SUBSET V : Cut(T) /\ \A v \in Colored : colors[v] = 1 <=> v \in T
    BY DEF FifthInv, Agree
  <2>2. ASSUME NEW v \in new
        PROVE  colors'[v] = 1 <=> v \in T
    <3>1. (u \in T) # (v \in T)
      BY <1>3, <1>7, <2>1 DEF Cut
    <3>2. colors[u] = 1 <=> u \in T
      BY <1>3, <2>1
    <3>3. colors'[v] = 1 <=> colors[u] = 0
      BY <1>9
    <3> QED BY <1>3, <3>1, <3>2, <3>3
  <2> QED BY <1>11, <2>1, <2>2
<1>19. Agree'
  <2>1. /\ \A S : Cut(S)' <=> Cut(S)
        /\ Colored' = Colored \cup new /\ is_bipartite'
    BY <1>1, <1>2, <1>8, <1>10 DEF Cut
  <2> QED BY <1>8, <1>18, <2>1 DEF Agree
<1> QED BY <1>13, <1>17, <1>14, <1>19 DEF FifthInv

(* A clash: no colouring agrees with the two ends of one edge.             *)
LEMMA FifthClashInv ==
  ASSUME FifthInv, Fifth!Clash
  PROVE  FifthInv'
<1> DEFINE u == Head(queue)
           some == { v \in Near(u) \cap Fifth!Uncolored : v < Least(Fifth!Clashes(u)) }
<1>1. /\ pc = "check" /\ queue # <<>> /\ Fifth!Clashes(u) # {}
      /\ colors' = [v \in V |-> IF v \in some THEN 1 - colors[u] ELSE colors[v]]
      /\ is_bipartite' = FALSE /\ partA' = {} /\ partB' = {} /\ queue' = <<>>
      /\ pc' = "roots" /\ graph' = graph
  BY FifthReads DEF Fifth!Clash, Fifth!Color
<1>2. u \in Colored /\ u \in V /\ colors[u] \in {0, 1}
  <2>1. u \in Colored
    BY <1>1, FifthSets, HeadTailProperties
  <2> QED BY <2>1, FifthSets DEF Colored
<1>3. PICK w \in Near(u) : colors[w] = colors[u]
  BY FifthReads, <1>1 DEF Fifth!Clashes
<1>4. w \in Colored /\ w \in V
  <2>1. w \in V
    BY <1>3, GraphFacts DEF FifthInv, FifthBegun
  <2> QED BY <1>2, <1>3, <2>1 DEF Colored, Fifth!NoColor
<1>5. \A S \in SUBSET V : ~Cut(S)
  <2> SUFFICES ASSUME NEW S \in SUBSET V, Cut(S) PROVE FALSE
    OBVIOUS
  <2>1. PICK T \in SUBSET V : Cut(T) /\ \A v \in Colored : colors[v] = 1 <=> v \in T
    BY DEF FifthInv, Agree
  <2>2. (u \in T) # (w \in T)
    BY <1>2, <1>3, <1>4, <2>1 DEF Cut
  <2> QED BY <1>2, <1>3, <1>4, <2>1, <2>2
<1> HIDE DEF some
<1>6. V' = V /\ \A x : Near(x)' = Near(x)
  BY <1>1 DEF V, Vertices, Near
<1>7. colors' \in [V -> {Fifth!NoColor, 0, 1}]
  <2>1. 1 - colors[u] \in {0, 1}
    BY <1>2
  <2> QED BY <1>1, <2>1, FifthSets
<1>8. Fifth!TypeOK'
  <2>1. queue' \in Seq(V' \ Fifth!Uncolored')
    BY <1>1
  <2>2. /\ pc' \in {"start", "roots", "check", "done", "error"}
        /\ colors' \in [V' -> {Fifth!NoColor, 0, 1}] /\ is_bipartite' \in BOOLEAN
    BY <1>1, <1>6, <1>7
  <2> QED BY FifthReads, <1>1, <2>1, <2>2, Zenon DEF Fifth!TypeOK
<1>9. FifthBegun' /\ FifthSettled'
  BY <1>1 DEF FifthInv, FifthBegun, FifthSettled
<1>10. Agree'
  BY <1>5, <1>6 DEF Agree, Cut
<1> QED BY <1>8, <1>9, <1>10 DEF FifthInv

-----------------------------------------------------------------------------
(* At the end the answer is right, and so are the parts.                   *)
LEMMA FifthRight == FifthInv => Fifth!TwoColored
<1>1. ASSUME FifthInv, pc = "done"
      PROVE  \A S \in SUBSET V : Cut(S) <=> \A e \in Edges : (e[1] \in S) # (e[2] \in S)
  <2>1. \A x, y : y \in Near(x) => y \in V
    BY <1>1, GraphFacts DEF FifthInv, FifthBegun
  <2> SUFFICES ASSUME NEW S \in SUBSET V
               PROVE  Cut(S) <=> \A e \in Edges : (e[1] \in S) # (e[2] \in S)
    OBVIOUS
  <2>2. ASSUME Cut(S), NEW e \in Edges
        PROVE  (e[1] \in S) # (e[2] \in S)
    <3>1. PICK x \in V : \E y \in Near(x) : e = <<x, y>>
      BY EdgesArePairs, Zenon
    <3>2. PICK y \in Near(x) : e = <<x, y>>
      BY <3>1
    <3> QED BY <2>1, <2>2, <3>2 DEF Cut
  <2>3. ASSUME \A e \in Edges : (e[1] \in S) # (e[2] \in S),
               NEW x \in V, NEW y \in V, y \in Near(x)
        PROVE  (x \in S) # (y \in S)
    <3>1. <<x, y>> \in Edges
      BY <2>3, EdgesArePairs, Zenon
    <3> QED BY <2>3, <3>1
  <2> QED BY <2>2, <2>3 DEF Cut
<1>2. ASSUME FifthInv, pc = "done", is_bipartite
      PROVE  partB = V \ partA /\ Cut(partA) /\ partA \in SUBSET V
  <2>1. Fifth!Uncolored = {} /\ Queued = {}
    BY <1>2 DEF FifthInv, FifthBegun, Queued, Lists
  <2>2. partA = { v \in V : colors[v] = 0 } /\ partB = { v \in V : colors[v] = 1 }
    BY FifthReads, <1>2 DEF FifthInv, Fifth!TypeOK
  <2>3. Colored = V /\ \A v \in V : colors[v] \in {0, 1}
    BY <1>2, <2>1, FifthSets DEF Colored
  <2>4. \A x \in V : \A y \in Near(x) : colors[y] # colors[x]
    BY <1>2, <2>1, <2>3 DEF FifthInv, FifthSettled
  <2>5. Cut(partA)
    BY <2>2, <2>3, <2>4 DEF Cut
  <2> QED BY <2>2, <2>3, <2>5
<1>3. ASSUME FifthInv, pc = "done", ~is_bipartite
      PROVE  partA = {} /\ partB = {} /\ \A S \in SUBSET V : ~Cut(S)
  BY <1>3 DEF FifthInv, FifthBegun, Agree
<1>4. FifthInv => Fifth!TwoColored
  <2> SUFFICES ASSUME FifthInv, pc = "done"
               PROVE  /\ is_bipartite <=>
                           \E S \in SUBSET V : \A e \in Edges : (e[1] \in S) # (e[2] \in S)
                      /\ is_bipartite => partB = V \ partA
                           /\ \A e \in Edges : (e[1] \in partA) # (e[2] \in partA)
                      /\ ~is_bipartite => partA = {} /\ partB = {}
    BY FifthReads DEF Fifth!TwoColored
  <2> QED BY <1>1, <1>2, <1>3
<1> QED BY <1>4

-----------------------------------------------------------------------------
(* first.cpp, ConnectivityFinder: every component begins with the least    *)
(* vertex not in an earlier one, is within reach of it, and is left by     *)
(* arcs from its frontier only.                                            *)

(* What ConnectivityFinder reads of the graph is what this module says of  *)
(* it.                                                                     *)
LEMMA FirstReads ==
  /\ First!V = V /\ First!V' = V'
  /\ \A x : First!Near(x) = Near(x)
  /\ \A x \in V : First!Back(x) = { y \in V : x \in Near(y) }
  /\ \A S : First!Least(S) = Least(S) /\ First!Ascending(S) = Ascending(S)
  /\ First!Edges = Edges /\ First!Mirrored(Edges) = Mirrored(Edges)
  /\ \A E : First!Mirrored(E) = Mirrored(E)
  /\ \A E, x : First!ReachableBy(E, x) = ReachableBy(E, x)
<1>1. First!V = V /\ First!V' = V'
  BY DEF First!V, First!Vertices, V, Vertices
<1>2. \A x : First!Near(x) = Near(x)
  BY DEF First!Near, Near, First!adjacency_list, adjacency_list, First!is_edge, is_edge,
         First!weight, weight, First!Vertices, Vertices
<1>3. \A x \in V : First!Back(x) = { y \in V : x \in Near(y) }
  <2>1. ASSUME NEW x \in V, NEW y \in V PROVE First!is_edge(graph, y, x) <=> x \in Near(y)
    BY DEF First!is_edge, First!weight, Near, adjacency_list, is_edge, weight, V
  <2> QED BY <1>1, <2>1 DEF First!Back
<1>4. \A S : First!Least(S) = Least(S)
  BY DEF First!Least, Least
<1>5. \A S : First!Ascending(S) = Ascending(S)
  BY DEF First!Ascending, Ascending, First!Cardinality, Cardinality, First!IsFiniteSet, IsFiniteSet
<1>6. First!Edges = Edges
  BY <1>1, <1>2 DEF First!Edges, Edges
<1>7. \A E : First!Mirrored(E) = Mirrored(E)
  BY DEF First!Mirrored, Mirrored
<1>8. \A E, x : First!ReachableBy(E, x) = ReachableBy(E, x)
  BY Zenon DEF First!ReachableBy, ReachableBy, First!Within, Within, First!V, First!Vertices, V, Vertices
<1> QED BY <1>1, <1>2, <1>3, <1>4, <1>5, <1>6, <1>7, <1>8

-----------------------------------------------------------------------------
(* The pairs a search follows.                                             *)
Arcs == IF method = "weak" THEN Mirrored(Edges) ELSE Edges

Adj(x) == { y \in V : <<x, y>> \in Arcs }

(* Adj, which the arcs of the method in use are read from, is what the     *)
(* loops walk over.                                                        *)
LEMMA AdjIs ==
  ASSUME graph \in Graphs, NEW x \in V
  PROVE  Adj(x) = IF method = "weak" THEN Near(x) \cup { y \in V : x \in Near(y) } ELSE Near(x)
<1>1. \A y : <<x, y>> \in Edges <=> y \in Near(x)
  <2>1. \A a, y : a \in V /\ y \in Near(a) => <<a, y>> \in Edges
    BY DEF Edges
  <2>2. \A y : <<x, y>> \in Edges => y \in Near(x)
    BY EdgesArePairs
  <2> QED BY <2>1, <2>2
<1>2. \A y \in V : <<y, x>> \in Edges <=> x \in Near(y)
  <2>1. \A y \in V : x \in Near(y) => <<y, x>> \in Edges
    BY DEF Edges
  <2>2. \A y : <<y, x>> \in Edges => x \in Near(y)
    BY EdgesArePairs
  <2> QED BY <2>1, <2>2
<1>3. \A y \in V : <<x, y>> \in Mirrored(Edges) <=> <<x, y>> \in Edges \/ <<y, x>> \in Edges
  <2>1. \A y : <<x, y>> \in { <<e[2], e[1]>> : e \in Edges } <=> <<y, x>> \in Edges
    <3>1. ASSUME NEW y, <<y, x>> \in Edges PROVE <<x, y>> \in { <<e[2], e[1]>> : e \in Edges }
      <4>1. <<x, y>> = << <<y, x>>[2], <<y, x>>[1] >>
        OBVIOUS
      <4> QED BY <3>1, <4>1
    <3>2. ASSUME NEW y, NEW e \in Edges, <<x, y>> = <<e[2], e[1]>> PROVE <<y, x>> \in Edges
      <4>1. \E a, b : e = <<a, b>>
        BY EdgesArePairs
      <4>2. e = <<y, x>>
        BY <3>2, <4>1
      <4> QED BY <4>2
    <3> QED BY <3>1, <3>2
  <2> QED BY <2>1 DEF Mirrored
<1>4. Near(x) \subseteq V
  BY GraphFacts
<1>5. CASE method = "weak"
  BY <1>1, <1>2, <1>3, <1>4, <1>5 DEF Adj, Arcs
<1>6. CASE method # "weak"
  BY <1>1, <1>4, <1>6 DEF Adj, Arcs
<1> QED BY <1>5, <1>6

(* What a search adds on taking x is all that is next to it and unvisited, *)
(* each vertex once, whatever the order.                                   *)
LEMMA AddsUnvisited ==
  ASSUME graph \in Graphs, NEW x \in V
  PROVE  /\ First!Unvisited(x) \in Seq(V \ visited) /\ Once(First!Unvisited(x))
         /\ \A y : Lists(First!Unvisited(x), y) <=> y \in Adj(x) \ visited
<1> DEFINE B == { y \in V : x \in Near(y) }
           before == { y \in B : y < x }
           after == { y \in B : y > x }
           s == before \ visited
           t == Near(x) \ (before \cup visited)
           u == after \ (Near(x) \cup visited)
<1>1. /\ V \subseteq Int /\ Near(x) \in SUBSET V /\ x \in Int
      /\ \A S \in SUBSET V : IsFiniteSet(S) /\ S \subseteq Int
  BY GraphFacts
<1>2. ASSUME NEW S \in SUBSET V
      PROVE  /\ Ascending(S) \in Seq(S) /\ Once(Ascending(S))
             /\ \A y : Lists(Ascending(S), y) <=> y \in S
  BY <1>1, AscendingLists, AscendingOnce
<1>3. CASE method = "weak"
  <2>1. s \in SUBSET V /\ t \in SUBSET V /\ u \in SUBSET V
    BY <1>1
  <2>2. First!Unvisited(x) = (Ascending(s) \o Ascending(t)) \o Ascending(u)
    BY <1>3, FirstReads DEF First!Unvisited
  <2>3. \A y : ~(y \in s /\ y \in t) /\ ~(y \in s \cup t /\ y \in u)
    <3>1. \A y \in V : ~(y < x /\ y > x)
      BY <1>1
    <3> QED BY <3>1
  <2>4. Adj(x) \ visited = s \cup t \cup u
    <3>1. Adj(x) = Near(x) \cup B
      BY <1>3, AdjIs
    <3>2. \A y \in V : y < x \/ y > x \/ y = x
      BY <1>1
    <3>3. x \in B => x \in Near(x)
      OBVIOUS
    <3>4. \A y \in B : y \in before \/ y \in after \/ y \in Near(x)
      BY <3>2, <3>3
    <3>5. before \subseteq B /\ after \subseteq B
      OBVIOUS
    <3> HIDE DEF B, before, after
    <3> QED BY <3>1, <3>4, <3>5
  <2> HIDE DEF s, t, u
  <2>5. /\ Ascending(s) \o Ascending(t) \in Seq(s \cup t) /\ Once(Ascending(s) \o Ascending(t))
        /\ \A y : Lists(Ascending(s) \o Ascending(t), y) <=> y \in s \cup t
    <3>1. \A y : ~(Lists(Ascending(s), y) /\ Lists(Ascending(t), y))
      BY <1>2, <2>1, <2>3
    <3>2. /\ Ascending(s) \in Seq(s) /\ Ascending(t) \in Seq(t)
          /\ Once(Ascending(s)) /\ Once(Ascending(t))
      BY <1>2, <2>1
    <3>3. /\ Ascending(s) \o Ascending(t) \in Seq(s \cup t) /\ Once(Ascending(s) \o Ascending(t))
          /\ \A y : Lists(Ascending(s) \o Ascending(t), y)
                      <=> Lists(Ascending(s), y) \/ Lists(Ascending(t), y)
      BY <3>1, <3>2, Joined
    <3> QED BY <1>2, <2>1, <3>3
  <2> DEFINE w == Ascending(s) \o Ascending(t)
  <2> HIDE DEF w
  <2>6. /\ w \o Ascending(u) \in Seq((s \cup t) \cup u) /\ Once(w \o Ascending(u))
        /\ \A y : Lists(w \o Ascending(u), y) <=> y \in s \cup t \cup u
    <3>1. /\ w \in Seq(s \cup t) /\ Once(w) /\ \A y : Lists(w, y) <=> y \in s \cup t
      BY <2>5 DEF w
    <3>2. /\ Ascending(u) \in Seq(u) /\ Once(Ascending(u))
          /\ \A y : Lists(Ascending(u), y) <=> y \in u
      BY <1>2, <2>1
    <3>3. \A y : ~(Lists(w, y) /\ Lists(Ascending(u), y))
      BY <2>3, <3>1, <3>2
    <3>4. /\ w \o Ascending(u) \in Seq((s \cup t) \cup u) /\ Once(w \o Ascending(u))
          /\ \A y : Lists(w \o Ascending(u), y) <=> Lists(w, y) \/ Lists(Ascending(u), y)
      BY <3>1, <3>2, <3>3, Joined
    <3> QED BY <3>1, <3>2, <3>4
  <2>7. (s \cup t) \cup u \subseteq V \ visited
    BY <1>1 DEF s, t, u
  <2>8. w \o Ascending(u) \in Seq(V \ visited)
    BY <2>6, <2>7
  <2> QED BY <2>2, <2>4, <2>6, <2>8 DEF w
<1>4. CASE method # "weak"
  <2> DEFINE r == Near(x) \ visited
  <2>1. First!Unvisited(x) = Ascending(r)
    BY <1>4, FirstReads DEF First!Unvisited
  <2>2. r \in SUBSET V /\ r \subseteq V \ visited /\ r = Adj(x) \ visited
    BY <1>1, <1>4, AdjIs
  <2> HIDE DEF r
  <2>3. Ascending(r) \in Seq(V \ visited)
    BY <1>2, <2>2
  <2> QED BY <1>2, <2>1, <2>2, <2>3
<1> QED BY <1>3, <1>4

-----------------------------------------------------------------------------
Before(i) == UNION { components[j] : j \in 1..(i - 1) }

ClosedIn(S) == \A x \in S : Adj(x) \subseteq S

(* The component begins with the least vertex not in those before it.      *)
Begins(i) ==
  /\ components[i] # {} /\ components[i] \subseteq V \ Before(i)
  /\ Least(components[i]) = Least(V \ Before(i))
  /\ ClosedIn(Before(i))

Whole(i) == components[i] = ReachableBy(Arcs, Least(components[i])) \ Before(i)

FirstSearch ==
  LET c == components[Len(components)]
  IN  /\ components # <<>>
      /\ c \subseteq ReachableBy(Arcs, Least(c))
      /\ \A x : Lists(frontier, x) => x \in c

FirstInv ==
  /\ graph \in Graphs /\ First!TypeOK
  /\ pc = "start" => components = <<>>
  /\ pc = "idle" => visited = V
  /\ IF pc = "search" THEN FirstSearch ELSE frontier = <<>>
  /\ \A i \in 1..Len(components) : /\ Begins(i)
                                   /\ pc # "search" \/ i < Len(components) => Whole(i)
  /\ \A x \in visited : Lists(frontier, x) \/ Adj(x) \subseteq visited

(* What the invariant says about types; the components are all that has    *)
(* been visited.                                                           *)
LEMMA FirstTypes ==
  ASSUME FirstInv
  PROVE  /\ visited \subseteq V /\ components \in Seq(SUBSET V) /\ Len(components) \in Nat
         /\ frontier \in Seq(visited) /\ Once(frontier)
         /\ Before(Len(components) + 1) = visited
         /\ \A i \in 1..Len(components) : components[i] \in SUBSET V
         /\ \A x : Lists(frontier, x) => x \in visited
<1> USE FirstReads DEF FirstInv, First!TypeOK
<1>1. visited \subseteq V /\ components \in Seq(SUBSET V) /\ frontier \in Seq(visited)
  OBVIOUS
<1>2. Once(frontier)
  BY DEF Once
<1>3. Len(components) \in Nat /\ DOMAIN components = 1..Len(components)
  BY <1>1
<1>4. (Len(components) + 1) - 1 = Len(components)
  BY <1>3
<1>5. Before(Len(components) + 1) = visited
  BY <1>3, <1>4 DEF Before
<1>6. \A x : Lists(frontier, x) => x \in visited
  BY <1>1 DEF Lists
<1> QED BY <1>1, <1>2, <1>3, <1>5, <1>6

(* A new ConnectivityFinder.                                               *)
LEMMA FirstInit ==
  ASSUME graph \in Graphs, pc = "start", First!New
  PROVE  FirstInv
<1>1. First!TypeOK
  BY FirstReads DEF First!New, First!TypeOK
<1> QED BY <1>1 DEF FirstInv, First!New

(* The notions of the invariant depend on the graph and the method only.   *)
LEMMA FirstSame ==
  ASSUME FirstInv, UNCHANGED <<graph, method>>
  PROVE  /\ V' = V /\ \A x : Near(x)' = Near(x) /\ Adj(x)' = Adj(x)
         /\ Arcs' = Arcs
         /\ \A E, x : ReachableBy(E, x)' = ReachableBy(E, x)
<1>1. V' = V /\ \A x : Near(x)' = Near(x)
  BY DEF V, Near
<1>2. Edges' = Edges
  BY <1>1 DEF Edges
<1>3. Arcs' = Arcs
  BY <1>2 DEF Arcs
<1>4. \A x : Adj(x)' = Adj(x)
  BY <1>1, <1>3 DEF Adj
<1>5. \A E, x : ReachableBy(E, x)' = ReachableBy(E, x)
  BY <1>1, Zenon DEF ReachableBy, Within
<1> QED BY <1>1, <1>3, <1>4, <1>5

(* Nothing but pc changes, and the search is not under way before or after *)
(* the step.                                                               *)
LEMMA FirstCall ==
  ASSUME FirstInv, NEW m \in {"bfs", "dfs", "weak"}, First!Call(m)
  PROVE  FirstInv'
<1>1. /\ pc \in {"start", "idle"} /\ method' \in {"bfs", "dfs", "weak"}
      /\ visited' = {} /\ components' = <<>> /\ pc' = "roots"
      /\ graph' = graph /\ frontier' = frontier
  BY DEF First!Call
<1>2. frontier = <<>>
  BY <1>1 DEF FirstInv
<1>3. First!TypeOK'
  BY <1>1, <1>2, FirstReads DEF First!TypeOK
<1> QED BY <1>1, <1>2, <1>3 DEF FirstInv

(* A step of another program.                                              *)
LEMMA FirstStutter ==
  ASSUME FirstInv, UNCHANGED <<graph, pc, vars1>>
  PROVE  FirstInv'
<1>1. /\ graph' = graph /\ pc' = pc /\ method' = method /\ visited' = visited
      /\ components' = components /\ frontier' = frontier
  BY DEF vars1
<1>2. First!TypeOK'
  BY <1>1, FirstReads, FirstSame DEF FirstInv, First!TypeOK
<1>3. \A i \in 1..Len(components) : (Begins(i) => Begins(i)') /\ (Whole(i) => Whole(i)')
  BY <1>1, FirstSame DEF Begins, Whole, Before, ClosedIn
<1>4. FirstSearch => FirstSearch'
  BY <1>1, FirstSame DEF FirstSearch
<1> QED BY <1>1, <1>2, <1>3, <1>4, FirstSame DEF FirstInv

(* A method returns its components and keeps them.                         *)
LEMMA FirstReturn ==
  ASSUME FirstInv, First!Return
  PROVE  FirstInv'
<1>1. /\ graph' = graph /\ method' = method /\ visited' = visited
      /\ components' = components /\ frontier' = frontier
      /\ pc = "roots" /\ visited = V /\ pc' = "idle"
  BY FirstReads DEF First!Return
<1>2. First!TypeOK'
  BY <1>1, FirstReads, FirstSame DEF FirstInv, First!TypeOK
<1>3. \A i \in 1..Len(components) : (Begins(i) => Begins(i)') /\ (Whole(i) => Whole(i)')
  BY <1>1, FirstSame DEF Begins, Whole, Before, ClosedIn
<1> QED BY <1>1, <1>2, <1>3, FirstSame DEF FirstInv

(* The search has ended: what it was to find is closed, so it is whole.    *)
LEMMA FirstSearched ==
  ASSUME FirstInv, First!Searched
  PROVE  FirstInv'
<1> DEFINE n == Len(components)  c == components[n]
<1>1. /\ graph' = graph /\ method' = method /\ visited' = visited
      /\ components' = components /\ frontier' = frontier
      /\ pc = "search" /\ frontier = <<>> /\ pc' = "roots"
  BY DEF First!Searched
<1>2. First!TypeOK'
  BY <1>1, FirstReads, FirstSame DEF FirstInv, First!TypeOK
<1>3. /\ n \in Nat /\ n # 0 /\ n \in 1..n /\ visited = Before(n + 1)
      /\ c \subseteq ReachableBy(Arcs, Least(c)) /\ Begins(n) /\ visited \subseteq V
      /\ \A i \in 1..n : components[i] \in SUBSET V
  BY <1>1, FirstTypes DEF FirstInv, FirstSearch
<1>4. \A x \in visited : Adj(x) \subseteq visited
  BY <1>1 DEF FirstInv, Lists
<1>5. visited = Before(n) \cup c
  <2>1. (n + 1) - 1 = n /\ \A j \in 1..n : j = n \/ j \in 1..(n - 1)
    BY <1>3
  <2>2. \A j \in 1..(n - 1) : j \in 1..n
    BY <1>3
  <2> QED BY <1>3, <2>1, <2>2 DEF Before
<1>6. Least(c) \in c
  <2>1. c \in SUBSET V /\ c # {}
    BY <1>3 DEF Begins
  <2>2. IsFiniteSet(c) /\ c \subseteq Int
    BY <2>1, GraphFacts DEF FirstInv
  <2> QED BY <2>1, <2>2, LeastIsLeast
<1> HIDE DEF c, n
<1>7. ReachableBy(Arcs, Least(c)) \subseteq visited
  <2>1. Least(c) \in visited /\ Least(c) \in V
    BY <1>3, <1>5, <1>6
  <2>2. \A z \in visited : \A y \in V : <<z, y>> \in Arcs => y \in visited
    BY <1>4 DEF Adj
  <2> QED BY <2>1, <2>2, ReachLaw DEF FirstInv
<1>8. Whole(n)
  BY <1>3, <1>5, <1>7 DEF Whole, Begins, c
<1>9. \A i \in 1..n : Begins(i) /\ Whole(i)
  <2>1. \A i \in 1..n : i = n \/ i < n
    BY <1>3
  <2> QED BY <1>8, <2>1 DEF FirstInv, n
<1>10. \A i \in 1..Len(components) : (Begins(i) => Begins(i)') /\ (Whole(i) => Whole(i)')
  BY <1>1, FirstSame DEF Begins, Whole, Before, ClosedIn
<1>11. \A i \in 1..Len(components)' : Begins(i)' /\ Whole(i)'
  BY <1>1, <1>9, <1>10 DEF n
<1> QED BY <1>1, <1>2, <1>4, <1>11, FirstSame DEF FirstInv

(* A component that nothing was added to is still as whole as it was.      *)
LEMMA FirstKept ==
  ASSUME FirstInv, UNCHANGED <<graph, method>>, NEW i,
         components'[i] = components[i], Before(i)' = Before(i)
  PROVE  (Begins(i) => Begins(i)') /\ (Whole(i) => Whole(i)')
<1>1. ClosedIn(Before(i)) => ClosedIn(Before(i))'
  BY FirstSame DEF ClosedIn
<1>2. Least(V \ Before(i))' = Least(V \ Before(i))
  BY FirstSame
<1>3. Begins(i) => Begins(i)'
  BY <1>1, <1>2, FirstSame DEF Begins
<1>4. Whole(i) => Whole(i)'
  BY FirstSame DEF Whole
<1> QED BY <1>3, <1>4

(* What the components are together.                                       *)
LEMMA FirstUnion ==
  ASSUME NEW c \in Seq(SUBSET V), NEW d \in Seq(SUBSET V), NEW S,
         Len(d) = Len(c), Len(c) # 0,
         \A i \in 1..(Len(c) - 1) : d[i] = c[i],
         d[Len(c)] = c[Len(c)] \cup S
  PROVE  \A y : (\E i \in DOMAIN d : y \in d[i]) <=> (\E i \in DOMAIN c : y \in c[i]) \/ y \in S
<1>1. Len(c) \in Nat /\ DOMAIN c = 1..Len(c) /\ DOMAIN d = 1..Len(c)
  OBVIOUS
<1>2. /\ Len(c) \in DOMAIN c /\ Len(c) \in DOMAIN d
      /\ \A i \in DOMAIN c : i = Len(c) \/ i \in 1..(Len(c) - 1)
  BY <1>1
<1>3. \A i \in DOMAIN c : c[i] \subseteq d[i]
  BY <1>2
<1>4. \A i \in DOMAIN d : d[i] \subseteq c[i] \cup S /\ i \in DOMAIN c
  BY <1>1, <1>2
<1>5. S \subseteq d[Len(c)]
  OBVIOUS
<1> QED BY <1>1, <1>2, <1>3, <1>4, <1>5

(* A new component begins: what there is, is closed.                       *)
LEMMA FirstRoot ==
  ASSUME FirstInv, First!Root
  PROVE  FirstInv'
<1> DEFINE u == Least(V \ visited)
<1>0. PICK n : n = Len(components)
  OBVIOUS
<1>1. /\ graph' = graph /\ method' = method /\ pc = "roots" /\ pc' = "search"
      /\ visited # V /\ visited' = visited \cup {u}
      /\ components' = Append(components, {u}) /\ frontier' = <<u>>
  BY FirstReads DEF First!Root
<1>2. /\ visited \subseteq V /\ components \in Seq(SUBSET V) /\ n \in Nat
      /\ Before(n + 1) = visited /\ frontier = <<>> /\ graph \in Graphs
  BY <1>1, <1>0, FirstTypes DEF FirstInv
<1>3. u \in V \ visited
  <2>1. V \ visited \in SUBSET V /\ V \ visited # {}
    BY <1>1, <1>2
  <2>2. IsFiniteSet(V \ visited) /\ V \ visited \subseteq Int
    BY <1>2, <2>1, GraphFacts
  <2> QED BY <2>1, <2>2, LeastIsLeast
<1>4. u \in Int
  BY <1>2, <1>3, GraphFacts
<1> HIDE DEF u
<1>5. /\ components' \in Seq(SUBSET V) /\ Len(components') = n + 1
      /\ components'[n + 1] = {u}
      /\ \A i \in 1..n : components'[i] = components[i]
  <2>1. {u} \in SUBSET V /\ components \in Seq(SUBSET V)
    BY <1>2, <1>3
  <2> QED BY <1>0, <1>1, <2>1, AppendProperties
<1>6. \A i \in 1..(n + 1) : Before(i)' = Before(i)
  <2>1. \A i \in 1..(n + 1) : \A j \in 1..(i - 1) : j \in 1..n
    BY <1>2
  <2> QED BY <1>5, <2>1 DEF Before
<1>7. \A i \in 1..n : (Begins(i) => Begins(i)') /\ (Whole(i) => Whole(i)')
  <2>1. \A i \in 1..n : i \in 1..(n + 1)
    BY <1>2
  <2> QED BY <1>1, <1>5, <1>6, <2>1, FirstKept
<1>8. Least({u}) = u
  BY <1>4, LeastUnique
<1>9. Begins(n + 1)'
  <2>1. n + 1 \in 1..(n + 1)
    BY <1>2
  <2>2. Before(n + 1)' = visited
    BY <1>2, <1>6, <2>1
  <2>3. ClosedIn(visited)
    BY <1>2 DEF FirstInv, ClosedIn, Lists
  <2> QED BY <1>1, <1>3, <1>5, <1>8, <2>2, <2>3, FirstSame DEF Begins, ClosedIn, u
<1>10. \A i \in 1..(n + 1) : i \in 1..n \/ i = n + 1
  BY <1>2
<1>11. First!TypeOK'
  <2>1. UNION { components'[i] : i \in DOMAIN components' } = visited \cup {u}
    <3>1. DOMAIN components = 1..n /\ DOMAIN components' = 1..(n + 1)
      BY <1>0, <1>2, <1>5
    <3>2. \A i \in 1..n : i \in 1..(n + 1)
      BY <1>2
    <3>3. UNION { components[i] : i \in 1..n } = visited
      BY <3>1, FirstReads DEF FirstInv, First!TypeOK
    <3>4. n + 1 \in 1..(n + 1)
      BY <1>2
    <3> QED BY <1>5, <1>10, <3>1, <3>2, <3>3, <3>4
  <2>2. visited' \subseteq V /\ frontier' \in Seq(visited')
    BY <1>1, <1>2, <1>3
  <2>3. \A j, k \in DOMAIN frontier' : j = k
    BY <1>1
  <2> QED BY <1>1, <1>2, <1>5, <2>1, <2>2, <2>3, FirstReads, FirstSame DEF FirstInv, First!TypeOK
<1>12. FirstSearch'
  <2>1. components' # <<>>
    BY <1>2, <1>5
  <2>2. Least({u}) \in ReachableBy(Arcs, Least({u}))
    BY <1>2, <1>3, <1>8, ReachLaw
  <2>3. \A x : Lists(frontier', x) => x = u
    BY <1>1 DEF Lists
  <2> QED BY <1>1, <1>5, <1>8, <2>1, <2>2, <2>3, FirstSame DEF FirstSearch
<1>13. \A i \in 1..n : Begins(i) /\ Whole(i)
  BY <1>0, <1>1 DEF FirstInv
<1>14. \A i \in 1..(n + 1) : Begins(i)' /\ (i < n + 1 => Whole(i)')
  BY <1>2, <1>7, <1>9, <1>10, <1>13
<1>15. \A x \in visited' : Lists(frontier', x) \/ Adj(x) \subseteq visited'
  <2>1. Lists(frontier', u)
    BY <1>1 DEF Lists
  <2>2. \A x \in visited : Adj(x) \subseteq visited
    BY <1>2 DEF FirstInv, Lists
  <2> QED BY <1>1, <2>1, <2>2
<1> QED BY <1>1, <1>2, <1>5, <1>11, <1>12, <1>14, <1>15, FirstSame DEF FirstInv

(* The iterations of a search: vertices next to one in the frontier are    *)
(* visited, and what leaves the frontier has nothing more to visit.        *)
LEMMA FirstVisit ==
  ASSUME FirstInv, pc = "search", UNCHANGED <<graph, pc, method>>,
         NEW x, Lists(frontier, x), NEW S, S \subseteq Adj(x) \ visited,
         First!Visit(S),
         frontier' \in Seq(visited \cup S), Once(frontier'),
         \A y : Lists(frontier', y) => Lists(frontier, y) \/ y \in S,
         \A y \in visited \cup S : \/ Lists(frontier', y)
                                   \/ y \in visited /\ ~Lists(frontier, y)
                                   \/ Adj(y) \subseteq visited \cup S
  PROVE  FirstInv'
<1>0. PICK n, c : n = Len(components) /\ c = components[n]
  OBVIOUS
<1>1. /\ visited' = visited \cup S
      /\ components' = [components EXCEPT ![n] = @ \cup S]
  BY <1>0 DEF First!Visit
<1>2. /\ visited \subseteq V /\ components \in Seq(SUBSET V) /\ n \in Nat /\ n # 0
      /\ Before(n + 1) = visited /\ graph \in Graphs /\ n \in 1..n
      /\ c \subseteq ReachableBy(Arcs, Least(c)) /\ x \in c /\ Begins(n)
      /\ \A y : Lists(frontier, y) => y \in c
      /\ \A i \in 1..n : Begins(i) /\ (i < n => Whole(i))
  BY <1>0, FirstTypes DEF FirstInv, FirstSearch
<1>3. S \subseteq V /\ S \cap visited = {} /\ x \in V /\ c \in SUBSET V
  BY <1>0, <1>2 DEF Adj, Begins
<1>4. /\ components' \in Seq(SUBSET V) /\ Len(components') = n
      /\ components'[n] = c \cup S
      /\ \A i \in 1..(n - 1) : components'[i] = components[i]
  <2>1. DOMAIN components = 1..n /\ components \in [1..n -> SUBSET V]
    BY <1>0, <1>2
  <2>2. components' \in [1..n -> SUBSET V]
    BY <1>1, <1>3, <2>1
  <2>3. components' \in Seq(SUBSET V)
    BY <1>0, <1>2, <2>2
  <2>4. Len(components') = n
    BY <1>0, <1>2, <2>2, <2>3, LenProperties
  <2>5. \A i \in 1..(n - 1) : i \in 1..n /\ i # n
    BY <1>0, <1>2
  <2> QED BY <1>0, <1>1, <1>2, <2>1, <2>3, <2>4, <2>5
<1>5. \A i \in 1..n : Before(i)' = Before(i)
  <2>1. \A i \in 1..n : \A j \in 1..(i - 1) : j \in 1..(n - 1)
    BY <1>0, <1>2
  <2> QED BY <1>0, <1>4, <2>1 DEF Before
<1>6. Before(n) \subseteq visited /\ c \subseteq visited
  <2>1. (n + 1) - 1 = n
    BY <1>0, <1>2
  <2>2. \A j \in 1..(n - 1) : j \in 1..n
    BY <1>0, <1>2
  <2> QED BY <1>0, <1>2, <2>1, <2>2 DEF Before
<1>7. Least(c \cup S) = Least(c) /\ Least(c) \in c
  <2> DEFINE r == V \ Before(n)
  <2>1. c # {} /\ c \subseteq r /\ Least(c) = Least(r)
    BY <1>0, <1>2 DEF Begins
  <2>2. S \subseteq r
    BY <1>3, <1>6
  <2>3. IsFiniteSet(r) /\ r \subseteq Int /\ IsFiniteSet(c) /\ c \subseteq Int
    BY <1>0, <1>2, <1>3, GraphFacts
  <2> HIDE DEF r
  <2>4. Least(c) \in c /\ \A y \in r : Least(c) <= y
    BY <2>1, <2>3, LeastIsLeast
  <2>5. Least(c) \in c \cup S /\ \A y \in c \cup S : Least(c) <= y
    BY <2>1, <2>2, <2>4
  <2>6. c \cup S \subseteq Int
    BY <2>1, <2>2, <2>3
  <2> QED BY <2>4, <2>5, <2>6, LeastUnique
<1>8. S \subseteq ReachableBy(Arcs, Least(c))
  BY <1>0, <1>2, <1>3, <1>7, ReachLaw DEF Adj
<1>9. Begins(n)'
  <2>1. c \cup S \subseteq V \ Before(n) /\ c \cup S # {} /\ Least(c) = Least(V \ Before(n))
    BY <1>0, <1>2, <1>3, <1>6 DEF Begins
  <2> QED BY <1>0, <1>2, <1>4, <1>5, <1>7, <2>1, FirstSame DEF Begins, ClosedIn
<1>10. \A i \in 1..(n - 1) : Begins(i)' /\ Whole(i)'
  <2>1. \A i \in 1..(n - 1) : i \in 1..n /\ i < n
    BY <1>0, <1>2
  <2> QED BY <1>0, <1>2, <1>4, <1>5, <2>1, FirstKept
<1>11. \A i \in 1..n : i \in 1..(n - 1) \/ (i = n /\ ~(i < n))
  BY <1>0, <1>2
<1>12. First!TypeOK'
  <2>1. UNION { components'[i] : i \in DOMAIN components' } = visited \cup S
    <3>1. UNION { components[i] : i \in DOMAIN components } = visited
      BY FirstReads DEF FirstInv, First!TypeOK
    <3> DEFINE d == components'
    <3>2. /\ d \in Seq(SUBSET V) /\ Len(d) = Len(components) /\ Len(components) # 0
          /\ \A i \in 1..(Len(components) - 1) : d[i] = components[i]
          /\ d[Len(components)] = components[Len(components)] \cup S
          /\ components \in Seq(SUBSET V)
      BY <1>0, <1>2, <1>4
    <3> HIDE DEF d
    <3>3. \A y : (\E i \in DOMAIN d : y \in d[i])
                    <=> (\E i \in DOMAIN components : y \in components[i]) \/ y \in S
      BY <3>2, FirstUnion, Zenon
    <3> QED BY <3>1, <3>3 DEF d
  <2>2. \A j, k \in DOMAIN frontier' : frontier'[j] = frontier'[k] => j = k
    BY DEF Once
  <2> QED
    BY <1>0, <1>1, <1>2, <1>3, <1>4, <2>1, <2>2, FirstReads, FirstSame DEF FirstInv, First!TypeOK
<1>13. FirstSearch'
  <2>1. components' # <<>>
    BY <1>0, <1>2, <1>4
  <2>2. c \cup S \subseteq ReachableBy(Arcs, Least(c \cup S))
    BY <1>0, <1>2, <1>7, <1>8
  <2>3. \A y : Lists(frontier', y) => y \in c \cup S
    BY <1>0, <1>2
  <2> QED BY <1>0, <1>4, <2>1, <2>2, <2>3, FirstSame DEF FirstSearch
<1>14. \A i \in 1..n : Begins(i)' /\ (i < n => Whole(i)')
  BY <1>9, <1>10, <1>11
<1>15. \A y \in visited' : Lists(frontier', y) \/ Adj(y) \subseteq visited'
  BY <1>1 DEF FirstInv
<1> QED BY <1>0, <1>1, <1>2, <1>4, <1>12, <1>13, <1>14, <1>15, FirstSame DEF FirstInv

(* bfs takes the head of its queue and appends the neighbours not yet      *)
(* visited.                                                                *)
LEMMA FirstPop ==
  ASSUME FirstInv, First!Pop
  PROVE  FirstInv'
<1> DEFINE x == Head(frontier)  new == First!Unvisited(x)  S == { new[k] : k \in DOMAIN new }
<1>1. /\ pc = "search" /\ frontier # <<>> /\ First!Visit(S)
      /\ frontier' = Tail(frontier) \o new /\ UNCHANGED <<graph, pc, method>>
  BY DEF First!Pop
<1>2. /\ visited \subseteq V /\ frontier \in Seq(visited) /\ Once(frontier) /\ graph \in Graphs
      /\ \A y : Lists(frontier, y) => y \in visited
  BY FirstTypes DEF FirstInv
<1>3. /\ x \in visited /\ Lists(frontier, x) /\ Tail(frontier) \in Seq(visited)
      /\ \A y : Lists(frontier, y) <=> y = x \/ Lists(Tail(frontier), y)
      /\ Once(Tail(frontier)) /\ ~Lists(Tail(frontier), x)
  BY <1>1, <1>2, WithoutHead
<1>4. /\ new \in Seq(V \ visited) /\ Once(new)
      /\ \A y : Lists(new, y) <=> y \in Adj(x) \ visited
  BY <1>2, <1>3, AddsUnvisited
<1>5. \A y : y \in S <=> Lists(new, y)
  BY DEF Lists
<1> HIDE DEF S, new, x
<1>6. S = Adj(x) \ visited /\ new \in Seq(S)
  <2>1. S = Adj(x) \ visited
    BY <1>4, <1>5
  <2>2. \A k \in 1..Len(new) : new[k] \in S
    BY <1>4, <1>5 DEF Lists
  <2> QED BY <1>4, <2>1, <2>2, ElementOfSeq, IsASeq
<1>7. /\ frontier' \in Seq(visited \cup S) /\ Once(frontier')
      /\ \A y : Lists(frontier', y) <=> Lists(Tail(frontier), y) \/ Lists(new, y)
  <2>1. \A y : ~(Lists(Tail(frontier), y) /\ Lists(new, y))
    BY <1>2, <1>3, <1>4
  <2> QED BY <1>1, <1>3, <1>4, <1>6, <2>1, Joined
<1>8. \A y : Lists(frontier', y) => Lists(frontier, y) \/ y \in S
  BY <1>3, <1>5, <1>7
<1>9. \A y \in visited \cup S : \/ Lists(frontier', y)
                                \/ y \in visited /\ ~Lists(frontier, y)
                                \/ Adj(y) \subseteq visited \cup S
  BY <1>3, <1>5, <1>6, <1>7
<1> QED BY <1>1, <1>3, <1>6, <1>7, <1>8, <1>9, FirstVisit

(* dfs calls itself for a neighbour that is not visited.                   *)
LEMMA FirstDown ==
  ASSUME FirstInv, First!Down
  PROVE  FirstInv'
<1> DEFINE x == frontier[Len(frontier)]  new == First!Unvisited(x)  v == Head(new)
<1>1. /\ pc = "search" /\ frontier # <<>> /\ new # <<>> /\ First!Visit({v})
      /\ frontier' = Append(frontier, v) /\ UNCHANGED <<graph, pc, method>>
  BY DEF First!Down
<1>2. /\ visited \subseteq V /\ frontier \in Seq(visited) /\ Once(frontier) /\ graph \in Graphs
      /\ \A y : Lists(frontier, y) => y \in visited
  BY FirstTypes DEF FirstInv
<1>3. x \in visited /\ Lists(frontier, x)
  BY <1>1, <1>2, WithoutLast
<1>4. /\ new \in Seq(V \ visited)
      /\ \A y : Lists(new, y) <=> y \in Adj(x) \ visited
  BY <1>2, <1>3, AddsUnvisited
<1> HIDE DEF new, x
<1>5. v \in Adj(x) \ visited
  BY <1>1, <1>4, WithoutHead
<1> HIDE DEF v
<1>6. /\ frontier' \in Seq(visited \cup {v}) /\ Once(frontier')
      /\ \A y : Lists(frontier', y) <=> Lists(frontier, y) \/ y = v
  BY <1>1, <1>2, <1>5, WithNew
<1>7. \A y \in visited \cup {v} : \/ Lists(frontier', y)
                                  \/ y \in visited /\ ~Lists(frontier, y)
                                  \/ Adj(y) \subseteq visited \cup {v}
  BY <1>6
<1>8. {v} \subseteq Adj(x) \ visited
  BY <1>5
<1>9. \A y : Lists(frontier', y) => Lists(frontier, y) \/ y \in {v}
  BY <1>6
<1> QED BY <1>1, <1>3, <1>6, <1>7, <1>8, <1>9, FirstVisit

(* A call of dfs returns: no neighbour of its vertex is left.              *)
LEMMA FirstUp ==
  ASSUME FirstInv, First!Up
  PROVE  FirstInv'
<1> DEFINE x == frontier[Len(frontier)]
<1>1. /\ pc = "search" /\ frontier # <<>> /\ First!Unvisited(x) = <<>>
      /\ frontier' = SubSeq(frontier, 1, Len(frontier) - 1) /\ UNCHANGED <<graph, pc, method>>
      /\ visited' = visited /\ components' = components
  BY DEF First!Up
<1>2. /\ visited \subseteq V /\ frontier \in Seq(visited) /\ Once(frontier) /\ graph \in Graphs
      /\ components \in Seq(SUBSET V) /\ Len(components) \in 1..Len(components)
  <2>1. Len(components) # 0 /\ components \in Seq(SUBSET V)
    BY <1>1, FirstTypes DEF FirstInv, FirstSearch
  <2> QED BY <2>1, FirstTypes DEF FirstInv
<1>3. /\ x \in visited /\ Lists(frontier, x) /\ frontier' \in Seq(visited)
      /\ \A y : Lists(frontier, y) <=> y = x \/ Lists(frontier', y)
      /\ Once(frontier')
  BY <1>1, <1>2, WithoutLast
<1>4. Adj(x) \subseteq visited
  <2>1. \A y : Lists(First!Unvisited(x), y) <=> y \in Adj(x) \ visited
    BY <1>2, <1>3, AddsUnvisited
  <2>2. \A y : ~Lists(First!Unvisited(x), y)
    BY <1>1 DEF Lists
  <2> QED BY <2>1, <2>2
<1> HIDE DEF x
<1>5. First!Visit({})
  <2>1. components = [components EXCEPT ![Len(components)] = @ \cup {}]
    BY <1>2
  <2> QED BY <1>1, <2>1 DEF First!Visit
<1>6. \A y \in visited \cup {} : \/ Lists(frontier', y)
                                 \/ y \in visited /\ ~Lists(frontier, y)
                                 \/ Adj(y) \subseteq visited \cup {}
  BY <1>3, <1>4
<1>7. {} \subseteq Adj(x) \ visited /\ frontier' \in Seq(visited \cup {})
  BY <1>3
<1>8. \A y : Lists(frontier', y) => Lists(frontier, y) \/ y \in {}
  BY <1>3
<1> QED BY <1>1, <1>3, <1>5, <1>6, <1>7, <1>8, FirstVisit

(* Every step of ConnectivityFinder keeps its invariant.                   *)
LEMMA FirstStep ==
  ASSUME FirstInv, First!Next \/ UNCHANGED <<graph, pc, vars1>>
  PROVE  FirstInv'
BY FirstCall, FirstRoot, FirstPop, FirstDown, FirstUp, FirstSearched, FirstReturn, FirstStutter,
   Zenon DEF First!Next

(* In the end the components are what their first vertices reach; and on   *)
(* arcs that go both ways, nothing that comes earlier is among that.       *)
LEMMA FirstRight == FirstInv => First!ComponentsAreClasses
<1> SUFFICES ASSUME FirstInv, pc = "idle"
             PROVE  /\ Before(Len(components) + 1) = V
                    /\ \A i \in DOMAIN components :
                         LET reached == ReachableBy(Arcs, Least(components[i]))
                         IN  /\ components[i] = reached \ Before(i)
                             /\ i > 1 => Least(components[i - 1]) < Least(components[i])
                             /\ Arcs = Mirrored(Arcs) => components[i] = reached
  BY FirstReads, Zenon DEF First!ComponentsAreClasses, Before, Arcs
<1>1. /\ Before(Len(components) + 1) = V /\ graph \in Graphs /\ Len(components) \in Nat
      /\ DOMAIN components = 1..Len(components)
      /\ \A i \in 1..Len(components) : components[i] \in SUBSET V
  BY FirstTypes DEF FirstInv
<1>2. SUFFICES ASSUME NEW i \in 1..Len(components)
               PROVE  LET reached == ReachableBy(Arcs, Least(components[i]))
                      IN  /\ components[i] = reached \ Before(i)
                          /\ i > 1 => Least(components[i - 1]) < Least(components[i])
                          /\ Arcs = Mirrored(Arcs) => components[i] = reached
  BY <1>1, Zenon
<1>3. Begins(i) /\ Whole(i)
  BY DEF FirstInv
<1>4. \A j \in 1..Len(components) : /\ Least(components[j]) \in components[j] \cap V
                                    /\ Least(components[j]) \in Int
                                    /\ \A y \in V \ Before(j) : Least(components[j]) <= y
  <2> SUFFICES ASSUME NEW j \in 1..Len(components)
               PROVE  /\ Least(components[j]) \in components[j] \cap V
                      /\ Least(components[j]) \in Int
                      /\ \A y \in V \ Before(j) : Least(components[j]) <= y
    OBVIOUS
  <2>1. Begins(j) /\ components[j] \in SUBSET V
    BY <1>1 DEF FirstInv
  <2>2. V \ Before(j) \in SUBSET V /\ V \ Before(j) # {}
    BY <2>1 DEF Begins
  <2>3. /\ IsFiniteSet(components[j]) /\ components[j] \subseteq Int /\ components[j] # {}
        /\ IsFiniteSet(V \ Before(j)) /\ V \ Before(j) \subseteq Int
    BY <1>1, <2>1, <2>2, GraphFacts DEF Begins
  <2> QED BY <2>1, <2>2, <2>3, LeastIsLeast DEF Begins
<1>5. i > 1 => Least(components[i - 1]) < Least(components[i])
  <2> SUFFICES ASSUME i > 1 PROVE Least(components[i - 1]) < Least(components[i])
    OBVIOUS
  <2>1. i - 1 \in 1..Len(components) /\ i - 1 \in 1..(i - 1)
    BY <1>1
  <2>2. components[i - 1] \subseteq Before(i)
    BY <2>1 DEF Before
  <2>3. Before(i - 1) \subseteq Before(i)
    <3>1. \A j \in 1..((i - 1) - 1) : j \in 1..(i - 1)
      BY <1>1
    <3> QED BY <3>1 DEF Before
  <2>4. Least(components[i]) \in V \ Before(i - 1)
    BY <1>3, <1>4, <2>3 DEF Begins
  <2>5. Least(components[i - 1]) # Least(components[i])
    BY <1>3, <1>4, <2>1, <2>2 DEF Begins
  <2>6. Least(components[i - 1]) <= Least(components[i])
    BY <1>4, <2>1, <2>4
  <2>7. Least(components[i - 1]) \in Int /\ Least(components[i]) \in Int
    BY <1>4, <2>1
  <2> QED BY <2>5, <2>6, <2>7
<1>6. ASSUME Arcs = Mirrored(Arcs)
      PROVE  ReachableBy(Arcs, Least(components[i])) \cap Before(i) = {}
  <2> DEFINE S == V \ Before(i)  r == Least(components[i])
  <2>1. r \in S /\ r \in V
    BY <1>3, <1>4 DEF Begins
  <2>2. ASSUME NEW z \in S, NEW y \in V, <<z, y>> \in Arcs PROVE y \in S
    <3>1. <<y, z>> \in Arcs
      <4>1. <<y, z>> = << <<z, y>>[2], <<z, y>>[1] >>
        OBVIOUS
      <4>2. <<y, z>> \in Mirrored(Arcs)
        BY <2>2, <4>1 DEF Mirrored
      <4> QED BY <1>6, <4>2
    <3>2. z \in Adj(y)
      BY <3>1 DEF Adj
    <3> QED BY <1>3, <2>2, <3>2 DEF Begins, ClosedIn
  <2> HIDE DEF S, r
  <2>3. ReachableBy(Arcs, r) \subseteq S
    BY <1>1, <2>1, <2>2, ReachLaw
  <2> QED BY <2>3 DEF S, r
<1> QED BY <1>3, <1>5, <1>6 DEF Whole

-----------------------------------------------------------------------------
(* second.cpp, BridgeArticulationFinder: the numbers grow along the trail  *)
(* of the pending calls, what has been left hangs on the trail, low of a   *)
(* pending vertex is right for what it has looked at, and every verdict    *)
(* given is right.                                                         *)

(* What BridgeArticulationFinder reads of the graph is what this module    *)
(* says of it.                                                             *)
LEMMA SecondReads ==
  /\ Second!V = V /\ Second!V' = V' /\ Second!size = Len(graph) /\ \A x : Second!Near(x) = Near(x)
  /\ \A E, x : Second!ReachableBy(E, x) = ReachableBy(E, x)
  /\ Second!Edges = Edges /\ \A E : Second!Mirrored(E) = Mirrored(E)
  /\ \A x, y : Second!is_edge(graph, x, y) <=> graph[x][y] # 0
  /\ Second!CheckDirected(graph) <=> CheckDirected(graph)
  /\ \A S : Second!Cardinality(S) = Cardinality(S)
  /\ Second!size' = Len(graph)' /\ Second!NoParent = -1
<1>1. Second!V = V /\ Second!V' = V'
  BY DEF Second!V, Second!Vertices, V, Vertices
<1>2. \A x : Second!Near(x) = Near(x)
  BY DEF Second!Near, Near, Second!adjacency_list, adjacency_list, Second!is_edge, is_edge,
         Second!weight, weight, Second!Vertices, Vertices
<1>3. \A E : Second!Mirrored(E) = Mirrored(E)
  BY DEF Second!Mirrored, Mirrored
<1>4. \A x, y : Second!is_edge(graph, x, y) <=> graph[x][y] # 0
  BY DEF Second!is_edge, Second!weight
<1>5. Second!Edges = Edges
  BY <1>1, <1>2 DEF Second!Edges, Edges
<1>6. Second!CheckDirected(graph) <=> CheckDirected(graph)
  BY DEF Second!CheckDirected, CheckDirected, Second!weight, weight, Second!Vertices, Vertices
<1>7. \A E, x : Second!ReachableBy(E, x) = ReachableBy(E, x)
  BY Zenon DEF Second!ReachableBy, ReachableBy, Second!Within, Within, Second!V, Second!Vertices, V, Vertices
<1>8. \A S : Second!Cardinality(S) = Cardinality(S)
  BY DEF Second!Cardinality, Cardinality, Second!IsFiniteSet, IsFiniteSet
<1>9. Second!size = Len(graph) /\ Second!size' = Len(graph)' /\ Second!NoParent = -1
  BY DEF Second!size, Second!NoParent
<1> QED BY <1>1, <1>2, <1>3, <1>4, <1>5, <1>6, <1>7, <1>8, <1>9

-----------------------------------------------------------------------------
(* What holds the graph together.                                          *)
Inside(S) == { e \in Edges : e[1] \in S /\ e[2] \in S }

Without(x) == { e \in Edges : x \notin {e[1], e[2]} }

But(x, y) == Edges \ Mirrored({<<x, y>>})

Around(x, y) == ReachableBy(Without(x), y)

Bridge(x, y) == y \notin ReachableBy(But(x, y), x)

CutVertex(x) == \E y, z \in Near(x) \ {x} : z \notin Around(x, y)

Undirected == graph \in Graphs /\ ~CheckDirected(graph)

(* On an undirected graph every edge goes both ways.                       *)
LEMMA UndirectedFacts ==
  ASSUME Undirected
  PROVE  /\ \A x, y : x \in V /\ y \in Near(x) => y \in V /\ x \in Near(y)
         /\ \A x, y : <<x, y>> \in Edges <=> x \in V /\ y \in Near(x)
         /\ \A x, y : <<x, y>> \in Edges => <<y, x>> \in Edges
<1>1. \A x, y : x \in V /\ y \in Near(x) => y \in V /\ x \in Near(y)
  BY GraphFacts DEF Undirected
<1>2. \A x, y : <<x, y>> \in Edges <=> x \in V /\ y \in Near(x)
  BY EdgesArePairs
<1> QED BY <1>1, <1>2

(* The members of the sets of edges named above.                           *)
LEMMA PartFacts ==
  ASSUME Undirected
  PROVE  /\ \A S, a, b : <<a, b>> \in Inside(S) <=> <<a, b>> \in Edges /\ a \in S /\ b \in S
         /\ \A x, a, b : <<a, b>> \in Without(x) <=> <<a, b>> \in Edges /\ a # x /\ b # x
         /\ \A x, y, a, b : <<a, b>> \in But(x, y) <=>
              <<a, b>> \in Edges /\ <<a, b>> # <<x, y>> /\ <<a, b>> # <<y, x>>
         /\ \A e \in Edges : e = <<e[1], e[2]>>
<1>1. \A S, a, b : <<a, b>> \in Inside(S) <=> <<a, b>> \in Edges /\ a \in S /\ b \in S
  BY DEF Inside
<1>2. \A x, a, b : <<a, b>> \in Without(x) <=> <<a, b>> \in Edges /\ a # x /\ b # x
  BY DEF Without
<1>3. \A x, y : \A e : e \in Mirrored({<<x, y>>}) <=> e = <<x, y>> \/ e = <<y, x>>
  BY DEF Mirrored
<1>4. \A x, y, a, b : <<a, b>> \in But(x, y) <=>
        <<a, b>> \in Edges /\ <<a, b>> # <<x, y>> /\ <<a, b>> # <<y, x>>
  BY <1>3 DEF But
<1>5. ASSUME NEW e \in Edges PROVE e = <<e[1], e[2]>>
  <2>1. PICK x \in V : \E y \in Near(x) : e = <<x, y>>
    BY EdgesArePairs, Zenon
  <2> QED BY <2>1
<1> QED BY <1>1, <1>2, <1>4, <1>5

(* Reachability along a set of edges that goes both ways.                  *)
Both(E) == \A a, b : <<a, b>> \in E => <<b, a>> \in E

(* The edges inside a set, without a vertex, and but for one, still go     *)
(* both ways.                                                              *)
LEMMA PartsBoth ==
  ASSUME Undirected
  PROVE  /\ \A S : Both(Inside(S))
         /\ \A x : Both(Without(x))
         /\ \A x, y : Both(But(x, y))
<1>1. ASSUME NEW S PROVE Both(Inside(S))
  BY UndirectedFacts, PartFacts DEF Both
<1>2. ASSUME NEW x PROVE Both(Without(x))
  BY UndirectedFacts, PartFacts DEF Both
<1>3. ASSUME NEW x, NEW y PROVE Both(But(x, y))
  <2> SUFFICES ASSUME NEW a, NEW b, <<a, b>> \in But(x, y) PROVE <<b, a>> \in But(x, y)
    BY DEF Both
  <2>1. <<a, b>> \in Edges /\ <<a, b>> # <<x, y>> /\ <<a, b>> # <<y, x>>
    BY PartFacts
  <2>2. <<b, a>> \in Edges /\ <<b, a>> # <<x, y>> /\ <<b, a>> # <<y, x>>
    BY <2>1, UndirectedFacts
  <2> QED BY <2>2, PartFacts
<1> QED BY <1>1, <1>2, <1>3

(* Reachability along edges that go both ways is an equivalence.           *)
LEMMA BothReach ==
  ASSUME Undirected, NEW E, Both(E)
  PROVE  /\ \A x \in V : x \in ReachableBy(E, x) /\ ReachableBy(E, x) \in SUBSET V
         /\ \A x \in V : \A y \in ReachableBy(E, x) : x \in ReachableBy(E, y)
         /\ \A x \in V : \A y \in ReachableBy(E, x) : \A z \in ReachableBy(E, y) : z \in ReachableBy(E, x)
         /\ \A x \in V : \A y \in ReachableBy(E, x) : \A z \in V : <<y, z>> \in E => z \in ReachableBy(E, x)
<1>1. graph \in Graphs
  BY DEF Undirected
<1>2. ASSUME NEW x \in V
      PROVE  /\ x \in ReachableBy(E, x) /\ ReachableBy(E, x) \in SUBSET V
             /\ \A y \in ReachableBy(E, x) : \A z \in V : <<y, z>> \in E => z \in ReachableBy(E, x)
  BY <1>1, <1>2, ReachLaw
<1>3. ASSUME NEW x \in V, NEW y \in ReachableBy(E, x)
      PROVE  x \in ReachableBy(E, y)
  <2>1. \A a, b \in V : <<a, b>> \in E => <<b, a>> \in E
    BY DEF Both
  <2> QED BY <1>1, <1>3, <2>1, ReachBack
<1>4. ASSUME NEW x \in V, NEW y \in ReachableBy(E, x), NEW z \in ReachableBy(E, y)
      PROVE  z \in ReachableBy(E, x)
  BY <1>1, <1>4, ReachOn
<1> QED BY <1>2, <1>3, <1>4

(* A bridge from either end.                                               *)
LEMMA BridgeBoth ==
  ASSUME Undirected, NEW x \in V, NEW y \in V
  PROVE  Bridge(x, y) <=> Bridge(y, x)
<1>1. But(x, y) = But(y, x)
  <2>1. Mirrored({<<x, y>>}) = Mirrored({<<y, x>>})
    BY DEF Mirrored
  <2> QED BY <2>1 DEF But
<1>2. PICK E : E = But(x, y)
  OBVIOUS
<1>3. Both(E)
  BY <1>2, PartsBoth
<1>4. y \in ReachableBy(E, x) <=> x \in ReachableBy(E, y)
  BY <1>3, BothReach
<1> QED BY <1>1, <1>2, <1>4 DEF Bridge
-----------------------------------------------------------------------------
(* The trail: the vertices of the pending calls, and while pc is "return"  *)
(* that of the call that has just ended; and the neighbour each has come   *)
(* to.                                                                     *)
Level == Len(stack) + IF pc = "return" THEN 1 ELSE 0

At(k) == IF k <= Len(stack) THEN stack[k].u ELSE stack[Len(stack)].v

Cursor(k) == IF k <= Len(stack) THEN stack[k].v ELSE Len(graph) + 1

Caller(k) == IF k = 1 THEN -1 ELSE At(k - 1)

OnTrail(x) == \E k \in 1..Level : At(k) = x

(* What was entered since u, and what is over of that from the k-th call.  *)
Since(u) == { x \in entered : entry_time[u] <= entry_time[x] }

Done(k) == { x \in entered : /\ entry_time[At(k)] < entry_time[x]
                             /\ k < Level => entry_time[x] < entry_time[At(k + 1)] }

Numbered ==
  /\ \A x \in entered : entry_time[x] < timer
  /\ \A x, y \in entered : entry_time[x] = entry_time[y] => x = y

Trailed ==
  /\ \A k \in 1..Level : At(k) \in entered
  /\ \A j, k \in 1..Level : j < k => entry_time[At(j)] < entry_time[At(k)]
  /\ \A k \in 1..(Level - 1) : At(k + 1) \in Near(At(k))
  /\ \A x \in entered : OnTrail(x) \/ Near(x) \subseteq entered

Hanging(k) ==
  /\ \A x \in Since(At(k)) : \A w \in Near(x) \cap entered :
       entry_time[w] < entry_time[At(k)] => \E j \in 1..(k - 1) : At(j) = w
  /\ \A x \in Since(At(k)) : x \in ReachableBy(Inside(Since(At(k))), At(k))

Framed(k) ==
  /\ stack[k].parent = Caller(k) /\ stack[k].children < stack[k].v
  /\ k < Level => stack[k].v = At(k + 1)

Scanned(k) == \A w \in Near(At(k)) : w < Cursor(k) => w \in entered

(* low of u, called by p, when the neighbours before c have been looked at *)
(* and D is what has been entered from u and is over.                      *)
LowAt(u, p, c, D) ==
  /\ low[u] <= entry_time[u]
  /\ \A x \in D : \A w \in Near(x) : low[u] <= entry_time[w]
  /\ \A w \in Near(u) : w < c /\ w # p => low[u] <= entry_time[w]
  /\ \/ low[u] = entry_time[u]
     \/ \E x \in D \cup {u} : \E w \in Near(x) \cap entered :
          entry_time[w] = low[u] /\ <<x, w>> # <<u, p>>

LowRight(k) == LowAt(At(k), Caller(k), Cursor(k), Done(k))

(* What a frame knows of the vertex it may have to report.                 *)
InnerAt(f, p, D) ==
  IF f.is_articulation THEN CutVertex(f.u) ELSE \A x \in D : p \in Around(f.u, x)

RootAt(f, D) ==
  /\ ~f.is_articulation
  /\ f.children = 0 => D = {}
  /\ f.children = 1 => \A x, y \in D : y \in Around(f.u, x)
  /\ f.children > 0 => \E x \in D : x \in Near(f.u)
  /\ f.children > 1 => CutVertex(f.u)

CutRight(k) == IF k = 1 THEN RootAt(stack[k], Done(k)) ELSE InnerAt(stack[k], At(k - 1), Done(k))

BridgesRight ==
  /\ \A e \in bridges : e \in Edges /\ e[1] < e[2] /\ Bridge(e[1], e[2])
  /\ \A x, y \in entered : x < y /\ y \in Near(x) /\ Bridge(x, y) =>
       \/ <<x, y>> \in bridges
       \/ \E k \in 1..(Level - 1) : \/ x = At(k) /\ y = At(k + 1)
                                    \/ y = At(k) /\ x = At(k + 1)

CutsRight ==
  /\ Once(articulation_points)
  /\ \A x \in V : Lists(articulation_points, x) <=>
       x \in entered /\ CutVertex(x) /\ \A k \in 1..Len(stack) : stack[k].u # x

SecondCore ==
  /\ Numbered /\ Trailed
  /\ \A k \in 1..Level : Hanging(k) /\ Scanned(k) /\ LowRight(k)
  /\ \A k \in 1..Len(stack) : Framed(k) /\ CutRight(k)
  /\ BridgesRight /\ CutsRight

SecondInv ==
  /\ graph \in Graphs /\ Second!TypeOK
  /\ pc \in {"dfs", "return", "done"} => Undirected
  /\ pc = "return" => stack # <<>>
  /\ pc = "done" => stack = <<>> /\ root > Len(graph)
  /\ pc \in {"start", "error"} => stack = <<>>
  /\ \A x \in V : x < root => x \in entered
  /\ SecondCore

(* What the invariant says about types.                                    *)
LEMMA SecondTypes ==
  ASSUME SecondInv
  PROVE  /\ graph \in Graphs /\ entered \in SUBSET V /\ Len(graph) \in Nat
         /\ V = 1..Len(graph) /\ IsFiniteSet(entered)
         /\ entry_time \in [V -> Nat] /\ low \in [V -> Nat] /\ timer \in Nat
         /\ bridges \in SUBSET (V \X V) /\ articulation_points \in Seq(V)
         /\ root \in Int /\ root \in 1..(Len(graph) + 1)
         /\ stack \in Seq(Second!Frames) /\ Len(stack) \in Nat /\ DOMAIN stack = 1..Len(stack)
         /\ \A k \in 1..Len(stack) :
              /\ stack[k] \in Second!Frames
              /\ stack[k].u \in V /\ stack[k].parent \in V \cup {-1}
              /\ stack[k].v \in 1..(Len(graph) + 1) /\ stack[k].children \in 0..Len(graph)
              /\ stack[k].is_articulation \in BOOLEAN
         /\ Level \in Nat /\ Level \in {Len(stack), Len(stack) + 1}
         /\ \A k \in 1..Level : At(k) \in V /\ At(k) \in entered
         /\ pc \in {"start", "dfs", "return", "done", "error"}
<1>1. graph \in Graphs /\ Second!TypeOK
  BY DEF SecondInv, SecondCore
<1>2. /\ Len(graph) \in Nat /\ V = 1..Len(graph) /\ \A S \in SUBSET V : IsFiniteSet(S)
  BY <1>1, GraphFacts
<1>3. /\ entered \in SUBSET V /\ entry_time \in [V -> Nat] /\ low \in [V -> Nat]
      /\ timer = Cardinality(entered) /\ bridges \in SUBSET (V \X V) /\ articulation_points \in Seq(V)
      /\ root \in 1..(Len(graph) + 1) /\ stack \in Seq(Second!Frames)
      /\ pc \in {"start", "dfs", "return", "done", "error"}
  BY <1>1, SecondReads DEF Second!TypeOK
<1>4. IsFiniteSet(entered) /\ timer \in Nat
  BY <1>2, <1>3, FS_CardinalityType
<1>5. Len(stack) \in Nat /\ DOMAIN stack = 1..Len(stack)
      /\ \A k \in 1..Len(stack) : stack[k] \in Second!Frames
  BY <1>3
<1>6. Second!Frames = [u : V, parent : V \cup {-1}, v : 1..(Len(graph) + 1), children : 0..Len(graph),
                       is_articulation : BOOLEAN]
  BY SecondReads DEF Second!Frames
<1>7. \A k \in 1..Len(stack) :
        /\ stack[k].u \in V /\ stack[k].parent \in V \cup {-1}
        /\ stack[k].v \in 1..(Len(graph) + 1) /\ stack[k].children \in 0..Len(graph)
        /\ stack[k].is_articulation \in BOOLEAN
  BY <1>5, <1>6
<1>8. Level \in Nat /\ Level \in {Len(stack), Len(stack) + 1}
  BY <1>5 DEF Level
<1>9. \A k \in 1..Level : At(k) \in entered
  BY DEF SecondInv, SecondCore, Trailed
<1>10. root \in Int
  BY <1>2, <1>3
<1>11. \A k \in 1..Level : At(k) \in V
  BY <1>3, <1>9
<1>12. graph \in Graphs
  BY <1>1
<1> QED BY <1>2, <1>3, <1>4, <1>5, <1>7, <1>8, <1>9, <1>10, <1>11, <1>12

(* Along the trail, as far as its edges are in E.                          *)
LEMMA TrailLeads ==
  ASSUME SecondInv, Undirected, NEW E, Both(E), NEW i \in 1..Level, NEW j \in 1..Level, i <= j,
         \A m \in i..(j - 1) : <<At(m), At(m + 1)>> \in E
  PROVE  At(j) \in ReachableBy(E, At(i)) /\ At(i) \in ReachableBy(E, At(j))
<1>1. Level \in Nat /\ \A k \in 1..Level : At(k) \in V
  BY SecondTypes
<1>2. PICK R : R = ReachableBy(E, At(i))
  OBVIOUS
<1>3. At(i) \in R /\ \A y \in R : \A z \in V : <<y, z>> \in E => z \in R
  BY <1>1, <1>2, BothReach
<1>4. ASSUME At(j) \notin R
      PROVE  FALSE
  <2> DEFINE B == { m \in i..j : At(m) \notin R }
  <2>1. j \in B /\ B \subseteq Int /\ B # {}
    BY <1>1, <1>4
  <2>2. IsFiniteSet(B)
    <3>1. IsFiniteSet(i..j)
      BY <1>1, FS_Interval
    <3> QED BY <3>1, FS_Subset
  <2> HIDE DEF B
  <2>3. PICK m \in B : \A y \in B : m <= y
    BY <2>1, <2>2, LeastIsLeast
  <2>4. m \in i..j /\ At(m) \notin R /\ m # i
    BY <1>3, <2>3 DEF B
  <2>5. m - 1 \in i..(j - 1) /\ m - 1 \in i..j /\ m - 1 \notin B /\ (m - 1) + 1 = m
    BY <1>1, <2>3, <2>4
  <2>6. At(m - 1) \in R
    BY <2>5 DEF B
  <2>7. <<At(m - 1), At(m)>> \in E /\ At(m) \in V
    BY <1>1, <2>4, <2>5
  <2> QED BY <1>3, <2>4, <2>6, <2>7
<1>5. At(j) \in ReachableBy(E, At(i))
  BY <1>2, <1>4
<1> QED BY <1>1, <1>5, BothReach

-----------------------------------------------------------------------------

(* The notions of the invariant depend on the graph only.                  *)
LEMMA SecondSame ==
  ASSUME graph' = graph
  PROVE  /\ V' = V /\ \A x : Near(x)' = Near(x) /\ Edges' = Edges /\ Len(graph)' = Len(graph)
         /\ \A x, y : Around(x, y)' = Around(x, y)
         /\ \A x, y : Bridge(x, y)' <=> Bridge(x, y)
         /\ \A x : CutVertex(x)' <=> CutVertex(x)
         /\ \A S, x : ReachableBy(Inside(S), x)' = ReachableBy(Inside(S), x)
         /\ Undirected' <=> Undirected
<1>1. /\ V' = V /\ \A x : Near(x)' = Near(x) /\ Edges' = Edges
      /\ \A E, x : ReachableBy(E, x)' = ReachableBy(E, x)
      /\ CheckDirected(graph)' <=> CheckDirected(graph)
  BY GraphSame
<1>2. \A x : Without(x)' = Without(x)
  BY <1>1 DEF Without
<1>3. \A x, y : But(x, y)' = But(x, y)
  BY <1>1 DEF But, Mirrored
<1>4. \A S : Inside(S)' = Inside(S)
  BY <1>1 DEF Inside
<1>5. \A x, y : Around(x, y)' = Around(x, y)
  BY <1>1, <1>2 DEF Around
<1>6. \A x, y : Bridge(x, y)' <=> Bridge(x, y)
  BY <1>1, <1>3 DEF Bridge
<1>7. \A x : CutVertex(x)' <=> CutVertex(x)
  BY <1>1, <1>5 DEF CutVertex
<1>8. \A S, x : ReachableBy(Inside(S), x)' = ReachableBy(Inside(S), x)
  BY <1>1, <1>4
<1>9. Undirected' <=> Undirected
  BY <1>1 DEF Undirected
<1> QED BY <1>1, <1>5, <1>6, <1>7, <1>8, <1>9

(* A frame that a step does not touch.                                     *)
LEMMA FrameKept ==
  ASSUME SecondInv, UNCHANGED graph, entered \subseteq entered',
         \A x \in entered : entry_time'[x] = entry_time[x],
         NEW k \in 1..Level, At(k)' = At(k), Caller(k)' = Caller(k), Cursor(k)' = Cursor(k),
         Done(k)' = Done(k), low'[At(k)] = low[At(k)]
  PROVE  Scanned(k)' /\ LowRight(k)'
<1>1. /\ Scanned(k) /\ LowRight(k) /\ Trailed
      /\ \A x : Near(x)' = Near(x)
  BY SecondSame DEF SecondInv, SecondCore
<1>2. Scanned(k)'
  BY <1>1 DEF Scanned
<1>3. PICK u, p, c, D : u = At(k) /\ p = Caller(k) /\ c = Cursor(k) /\ D = Done(k)
  OBVIOUS
<1>4. LowAt(u, p, c, D) /\ D \subseteq entered /\ u \in entered
  BY <1>1, <1>3, SecondTypes DEF LowRight, Done
<1>5. \A x \in D : Near(x) \subseteq entered
  <2> SUFFICES ASSUME NEW x \in D PROVE ~OnTrail(x)
    BY <1>1, <1>4 DEF Trailed
  <2> SUFFICES ASSUME NEW j \in 1..Level, At(j) = x PROVE FALSE
    BY DEF OnTrail
  <2>1. Level \in Nat /\ entry_time \in [V -> Nat] /\ \A i \in 1..Level : At(i) \in V
    BY SecondTypes
  <2>2. entry_time[At(k)] < entry_time[At(j)] /\ (k < Level => entry_time[At(j)] < entry_time[At(k + 1)])
    BY <1>3 DEF Done
  <2>3. \A i, m \in 1..Level : i < m => entry_time[At(i)] < entry_time[At(m)]
    BY <1>1 DEF Trailed
  <2>4. CASE j < k
    BY <2>1, <2>2, <2>3, <2>4
  <2>5. CASE j = k
    BY <2>1, <2>2, <2>5
  <2>6. CASE j > k
    <3>1. k + 1 \in 1..Level /\ k < Level
      BY <2>1, <2>6
    <3>2. CASE j = k + 1
      BY <2>1, <2>2, <3>1, <3>2
    <3>3. CASE j > k + 1
      BY <2>1, <2>2, <2>3, <3>1, <3>3
    <3> QED BY <2>1, <2>6, <3>2, <3>3
  <2> QED BY <2>1, <2>4, <2>5, <2>6
<1>6. \A w \in Near(u) : w < c => w \in entered
  BY <1>1, <1>3 DEF Scanned
<1>7. low'[u] = low[u]
  BY <1>3
<1>8. LowAt(u, p, c, D)'
  <2>1. low'[u] <= entry_time'[u]
    BY <1>4, <1>7 DEF LowAt
  <2>2. \A x \in D : \A w \in Near(x) : low'[u] <= entry_time'[w]
    BY <1>4, <1>5, <1>7 DEF LowAt
  <2>3. \A w \in Near(u) : w < c /\ w # p => low'[u] <= entry_time'[w]
    BY <1>4, <1>6, <1>7 DEF LowAt
  <2>4. \/ low'[u] = entry_time'[u]
        \/ \E x \in D \cup {u} : \E w \in Near(x) \cap entered' :
             entry_time'[w] = low'[u] /\ <<x, w>> # <<u, p>>
    BY <1>4, <1>7 DEF LowAt
  <2> QED BY <1>1, <2>1, <2>2, <2>3, <2>4 DEF LowAt
<1>9. LowRight(k)'
  BY <1>3, <1>8 DEF LowRight
<1> QED BY <1>2, <1>9

(* A step that enters no vertex, and may leave the last one of the trail.  *)
LEMMA TrailShrinks ==
  ASSUME SecondInv, UNCHANGED <<graph, entered, entry_time, timer>>,
         Level' \in Nat, Level' <= Level, \A k \in 1..Level' : At(k)' = At(k)
  PROVE  /\ Numbered'
         /\ \A k \in 1..Level' : Hanging(k)' /\ At(k)' \in entered'
         /\ \A j, k \in 1..Level' : j < k => entry_time'[At(j)'] < entry_time'[At(k)']
         /\ \A k \in 1..(Level' - 1) : At(k + 1)' \in Near(At(k))'
         /\ \A k \in 1..Level' : Done(k)' = IF k < Level' \/ Level' = Level THEN Done(k)
                                            ELSE Since(At(k)) \ {At(k)}
<1>1. /\ Numbered /\ Trailed /\ \A k \in 1..Level : Hanging(k)
      /\ \A x : Near(x)' = Near(x)
      /\ Level \in Nat
  BY SecondTypes, SecondSame DEF SecondInv, SecondCore
<1>2. \A k \in 1..Level' : k \in 1..Level
  BY <1>1
<1>3. Numbered'
  BY <1>1 DEF Numbered
<1>4. ASSUME NEW k \in 1..Level'
      PROVE  Hanging(k)'
  <2>1. PICK u : u = At(k)
    OBVIOUS
  <2>2. PICK S : S = Since(u)
    OBVIOUS
  <2>3. At(k)' = u /\ Since(u)' = S
    BY <2>1, <2>2 DEF Since
  <2>4. \A j \in 1..(k - 1) : At(j)' = At(j)
    BY <1>4
  <2>5. Hanging(k)
    BY <1>1, <1>2, <1>4
  <2>6. \A x \in S : \A w \in Near(x) \cap entered :
          entry_time[w] < entry_time[u] => \E j \in 1..(k - 1) : At(j) = w
    BY <2>1, <2>2, <2>5 DEF Hanging
  <2>7. \A x \in S : x \in ReachableBy(Inside(S), u)
    BY <2>1, <2>2, <2>5 DEF Hanging
  <2>8. ReachableBy(Inside(S), u)' = ReachableBy(Inside(S), u)
    BY SecondSame
  <2>9. \A x \in S : \A w \in Near(x)' \cap entered' :
          entry_time'[w] < entry_time'[u] => \E j \in 1..(k - 1) : At(j)' = w
    BY <1>1, <2>4, <2>6
  <2> QED BY <2>3, <2>7, <2>8, <2>9 DEF Hanging
<1>5. ASSUME NEW k \in 1..Level'
      PROVE  Done(k)' = IF k < Level' \/ Level' = Level THEN Done(k) ELSE Since(At(k)) \ {At(k)}
  <2>1. At(k)' = At(k) /\ k \in 1..Level
    BY <1>2, <1>5
  <2>2. CASE k < Level'
    <3>1. k + 1 \in 1..Level' /\ k < Level
      BY <1>1, <2>2
    <3>2. At(k + 1)' = At(k + 1)
      BY <3>1
    <3> QED BY <2>1, <2>2, <3>1, <3>2 DEF Done
  <2>3. CASE Level' = Level /\ ~(k < Level')
    BY <2>1, <2>3 DEF Done
  <2>4. CASE Level' # Level /\ ~(k < Level')
    <3>1. At(k) \in entered /\ entry_time \in [V -> Nat] /\ entered \subseteq V
      BY <2>1, SecondTypes
    <3>2. \A x \in entered : entry_time[At(k)] < entry_time[x] <=>
                               entry_time[At(k)] <= entry_time[x] /\ x # At(k)
      BY <1>1, <3>1 DEF Numbered
    <3> QED BY <2>1, <2>4, <3>2 DEF Done, Since
  <2> QED BY <2>2, <2>3, <2>4
<1>6. \A j, k \in 1..Level' : j < k => entry_time'[At(j)'] < entry_time'[At(k)']
  BY <1>1, <1>2 DEF Trailed
<1>7. \A k \in 1..(Level' - 1) : At(k + 1)' \in Near(At(k))'
  <2> SUFFICES ASSUME NEW k \in 1..(Level' - 1) PROVE At(k + 1)' \in Near(At(k))'
    OBVIOUS
  <2>1. k \in 1..Level' /\ k + 1 \in 1..Level' /\ k \in 1..(Level - 1)
    <3>1. PICK d, e : d = Level' /\ e = Level
      OBVIOUS
    <3>2. d \in Nat /\ e \in Nat /\ d <= e /\ k \in 1..(d - 1)
      BY <1>1, <3>1
    <3>3. k \in 1..d /\ k + 1 \in 1..d /\ k \in 1..(e - 1)
      BY <3>2
    <3> QED BY <3>1, <3>3
  <2>2. At(k + 1)' = At(k + 1) /\ At(k)' = At(k)
    BY <2>1
  <2> QED BY <1>1, <2>1, <2>2 DEF Trailed
<1>8. \A k \in 1..Level' : At(k)' \in entered'
  BY <1>1, <1>2 DEF Trailed
<1> QED BY <1>3, <1>4, <1>5, <1>6, <1>7, <1>8

(* What a frame knows of its vertex stays as long as nothing more is over  *)
(* below it.                                                               *)
LEMMA CutKept ==
  ASSUME SecondInv, UNCHANGED graph, NEW k \in 1..Len(stack), Done(k)' = Done(k),
         stack'[k].u = stack[k].u, stack'[k].children = stack[k].children,
         stack'[k].is_articulation = stack[k].is_articulation, k > 1 => At(k - 1)' = At(k - 1)
  PROVE  CutRight(k)'
<1>1. PICK f, g, p, D : f = stack[k] /\ g = stack'[k] /\ p = At(k - 1) /\ D = Done(k)
  OBVIOUS
<1>2. /\ g.u = f.u /\ g.children = f.children /\ g.is_articulation = f.is_articulation
      /\ k > 1 => At(k - 1)' = p
      /\ Done(k)' = D
  BY <1>1
<1>3. IF k = 1 THEN RootAt(f, D) ELSE InnerAt(f, p, D)
  BY <1>1 DEF SecondInv, SecondCore, CutRight
<1>4. CASE k = 1
  <2>1. RootAt(g, D)'
    BY <1>2, <1>3, <1>4, SecondSame DEF RootAt
  <2> QED BY <1>1, <1>2, <1>4, <2>1 DEF CutRight
<1>5. CASE k # 1
  <2>1. InnerAt(g, p, D)'
    BY <1>2, <1>3, <1>5, SecondSame DEF InnerAt
  <2>2. k > 1 /\ At(k - 1)' = p
    BY <1>2, <1>5, SecondTypes
  <2> QED BY <1>1, <1>2, <1>5, <2>1, <2>2 DEF CutRight
<1> QED BY <1>4, <1>5

(* A step that keeps the trail, and of the frames all but how far the top  *)
(* one has come.                                                           *)
LEMMA TrailStays ==
  ASSUME SecondInv, UNCHANGED <<graph, entered, entry_time, timer, bridges, articulation_points>>,
         Level' = Level, \A k \in 1..Level : At(k)' = At(k), Len(stack') = Len(stack),
         \A k \in 1..Len(stack) :
           /\ stack'[k].u = stack[k].u /\ stack'[k].parent = stack[k].parent
           /\ stack'[k].children = stack[k].children
           /\ stack'[k].is_articulation = stack[k].is_articulation
           /\ stack'[k].v \in Int /\ stack[k].v <= stack'[k].v
           /\ k < Level => stack'[k].v = stack[k].v
  PROVE  /\ Numbered' /\ Trailed' /\ \A k \in 1..Level' : Hanging(k)'
         /\ \A k \in 1..Len(stack') : Framed(k)' /\ CutRight(k)'
         /\ \A k \in 1..Level : Done(k)' = Done(k) /\ Caller(k)' = Caller(k)
         /\ BridgesRight' /\ CutsRight'
<1>1. /\ Level \in Nat /\ Len(stack) \in Nat /\ Level \in {Len(stack), Len(stack) + 1}
      /\ SecondCore
  BY SecondTypes DEF SecondInv
<1>2. /\ Numbered' /\ \A k \in 1..Level' : Hanging(k)' /\ At(k)' \in entered'
      /\ \A j, k \in 1..Level' : j < k => entry_time'[At(j)'] < entry_time'[At(k)']
      /\ \A k \in 1..(Level' - 1) : At(k + 1)' \in Near(At(k))'
      /\ \A k \in 1..Level : Done(k)' = Done(k)
  BY <1>1, TrailShrinks
<1>3. Trailed'
  <2>1. \A x : OnTrail(x)' <=> OnTrail(x)
    BY DEF OnTrail
  <2>2. \A x \in entered' : OnTrail(x)' \/ Near(x)' \subseteq entered'
    BY <1>1, <2>1, SecondSame DEF SecondCore, Trailed
  <2> QED BY <1>2, <2>2 DEF Trailed
<1>4. \A k \in 1..Level : Caller(k)' = Caller(k)
  <2> SUFFICES ASSUME NEW k \in 1..Level PROVE Caller(k)' = Caller(k)
    OBVIOUS
  <2>1. CASE k = 1
    BY <2>1 DEF Caller
  <2>2. CASE k # 1
    <3>1. k - 1 \in 1..Level
      BY <1>1, <2>2
    <3> QED BY <3>1 DEF Caller
  <2> QED BY <2>1, <2>2
<1>5. ASSUME NEW k \in 1..Len(stack)
      PROVE  Framed(k)' /\ CutRight(k)'
  <2>1. k \in 1..Level /\ Framed(k)
    BY <1>1, <1>5 DEF SecondCore
  <2>2. stack'[k].parent = Caller(k)' /\ stack'[k].children < stack'[k].v
    <3>1. /\ stack'[k].parent = stack[k].parent /\ stack'[k].children = stack[k].children
          /\ stack'[k].v \in Int /\ stack[k].v <= stack'[k].v
      BY <1>5
    <3>2. stack[k].v \in Int /\ stack[k].children \in Int
      BY <1>5, SecondTypes
    <3>3. stack[k].parent = Caller(k) /\ stack[k].children < stack[k].v
      BY <2>1 DEF Framed
    <3> QED BY <1>4, <2>1, <3>1, <3>2, <3>3
  <2>3. k < Level' => stack'[k].v = At(k + 1)'
    <3> SUFFICES ASSUME k < Level PROVE stack'[k].v = At(k + 1)'
      OBVIOUS
    <3>1. k + 1 \in 1..Level
      BY <1>1, <2>1
    <3> QED BY <2>1, <3>1 DEF Framed
  <2>4. k > 1 => At(k - 1)' = At(k - 1)
    <3> SUFFICES ASSUME k > 1 PROVE At(k - 1)' = At(k - 1)
      OBVIOUS
    <3>1. k - 1 \in 1..Level
      BY <1>1, <2>1
    <3> QED BY <3>1
  <2>5. CutRight(k)'
    BY <1>2, <2>1, <2>4, CutKept
  <2> QED BY <2>2, <2>3, <2>5 DEF Framed
<1>6. BridgesRight'
  <2>1. BridgesRight
    BY <1>1 DEF SecondCore
  <2>2. \A e \in bridges' : e \in Edges' /\ e[1] < e[2] /\ Bridge(e[1], e[2])'
    BY <2>1, SecondSame DEF BridgesRight
  <2>3. ASSUME NEW x \in entered', NEW y \in entered', x < y, y \in Near(x)', Bridge(x, y)',
               <<x, y>> \notin bridges'
        PROVE  \E k \in 1..(Level' - 1) : \/ x = At(k)' /\ y = At(k + 1)'
                                          \/ y = At(k)' /\ x = At(k + 1)'
    <3>1. y \in Near(x) /\ Bridge(x, y)
      BY <2>3, SecondSame
    <3>2. PICK k \in 1..(Level - 1) : \/ x = At(k) /\ y = At(k + 1)
                                      \/ y = At(k) /\ x = At(k + 1)
      BY <2>1, <2>3, <3>1 DEF BridgesRight
    <3>3. k \in 1..Level /\ k + 1 \in 1..Level
      BY <1>1
    <3>4. At(k)' = At(k) /\ At(k + 1)' = At(k + 1)
      BY <3>3
    <3> QED BY <3>2, <3>4
  <2> QED BY <2>2, <2>3 DEF BridgesRight
<1>7. CutsRight'
  <2>1. CutsRight
    BY <1>1 DEF SecondCore
  <2>2. Once(articulation_points)' /\ \A x : Lists(articulation_points, x)' <=> Lists(articulation_points, x)
    BY <2>1 DEF CutsRight, Once, Lists
  <2> QED BY <2>1, <2>2, SecondSame DEF CutsRight
<1> QED BY <1>2, <1>3, <1>4, <1>5, <1>6, <1>7

Calls ==
  [u : V, parent : V \cup {-1}, v : 1..(Len(graph) + 1), children : 0..Len(graph),
   is_articulation : BOOLEAN]

(* The type invariant after a step, in the words of this module.           *)
LEMMA SecondTyped ==
  ASSUME SecondInv, graph' = graph
  PROVE  /\ Second!Frames = Calls
         /\ Second!TypeOK' <=>
              /\ entered' \subseteq V
              /\ entry_time' \in [V -> Nat] /\ low' \in [V -> Nat]
              /\ timer' = Cardinality(entered')
              /\ bridges' \subseteq V \X V
              /\ articulation_points' \in Seq(V)
              /\ root' \in 1..(Len(graph) + 1)
              /\ stack' \in Seq(Calls)
              /\ pc' \in {"start", "dfs", "return", "done", "error"}
         /\ timer = Cardinality(entered)
<1>1. Second!Frames = Calls
  BY SecondReads DEF Second!Frames, Calls
<1>2. V' = V /\ Len(graph') = Len(graph)
  BY SecondSame
<1>3. Second!Frames' = Calls
  BY <1>2, SecondReads DEF Second!Frames, Calls
<1>4. Second!V' = V /\ Second!NoParent' = -1 /\ Second!size' = Len(graph)
  BY <1>2, SecondReads DEF Second!NoParent
<1>5. Second!Cardinality(entered)' = Cardinality(entered')
  BY SecondReads
<1>6. Second!Cardinality(entered) = Cardinality(entered)
  BY SecondReads
<1>7. timer = Cardinality(entered)
  BY <1>6 DEF SecondInv, Second!TypeOK
<1> QED BY <1>1, <1>3, <1>4, <1>5, <1>7 DEF Second!TypeOK

(* A step that leaves the search alone keeps the core of the invariant.    *)
LEMMA SecondStill ==
  ASSUME SecondInv, pc' = "return" <=> pc = "return",
         UNCHANGED <<graph, entered, entry_time, low, timer, bridges, articulation_points, stack>>
  PROVE  SecondCore'
<1>1. /\ Level' = Level /\ \A k : At(k)' = At(k) /\ Cursor(k)' = Cursor(k)
      /\ Level \in Nat /\ SecondCore
  BY SecondTypes DEF Level, At, Cursor, SecondInv
<1>2. \A k \in 1..Len(stack) : stack[k].v \in Int
  BY SecondTypes
<1>3. /\ Numbered' /\ Trailed' /\ \A k \in 1..Level' : Hanging(k)'
      /\ \A k \in 1..Len(stack') : Framed(k)' /\ CutRight(k)'
      /\ \A k \in 1..Level : Done(k)' = Done(k) /\ Caller(k)' = Caller(k)
      /\ BridgesRight' /\ CutsRight'
  BY <1>1, <1>2, TrailStays
<1>4. \A k \in 1..Level' : Scanned(k)' /\ LowRight(k)'
  BY <1>1, <1>3, FrameKept
<1> QED BY <1>3, <1>4 DEF SecondCore

(* The constructor, the loop of find where it makes no call, and the steps *)
(* of other programs.                                                      *)
LEMMA SecondOutside ==
  ASSUME SecondInv,
         \/ Second!Construct \/ Second!FindSkip \/ Second!FindEnd
         \/ UNCHANGED <<graph, pc, vars2>>
  PROVE  SecondInv'
<1>1. /\ UNCHANGED <<graph, entered, entry_time, low, timer, bridges, articulation_points, stack>>
      /\ pc' = "return" <=> pc = "return"
      /\ pc' \in {"start", "dfs", "return", "done", "error"}
      /\ pc' \in {"start", "error"} => pc \in {"start", "error"}
      /\ pc' \in {"dfs", "return", "done"} => Undirected
      /\ pc' = "done" => stack = <<>> /\ root' > Len(graph)
      /\ pc' # pc => root' = root
      /\ root' = root \/ (root' = root + 1 /\ root <= Len(graph) /\ root \in entered)
  <2>1. CASE Second!Construct
    BY <2>1, SecondReads DEF Second!Construct, Second!numbers, Second!found, SecondInv, Undirected
  <2>2. CASE Second!FindSkip
    BY <2>2, SecondReads DEF Second!FindSkip, Second!numbers, Second!found, SecondInv
  <2>3. CASE Second!FindEnd
    BY <2>3, SecondReads DEF Second!FindEnd, Second!numbers, Second!found, SecondInv
  <2>4. CASE UNCHANGED <<graph, pc, vars2>>
    BY <2>4, SecondTypes DEF vars2, SecondInv
  <2> QED BY <2>1, <2>2, <2>3, <2>4
<1>2. SecondCore'
  BY <1>1, SecondStill
<1>3. root' \in 1..(Len(graph) + 1)
  BY <1>1, SecondTypes
<1>4. Second!TypeOK'
  BY <1>1, <1>3, SecondTypes, SecondTyped
<1>5. \A x \in V : x < root' => x \in entered
  BY <1>1, SecondTypes DEF SecondInv
<1>6. /\ V' = V
      /\ Undirected' <=> Undirected
      /\ Len(graph') = Len(graph) /\ graph' \in Graphs
  BY <1>1, SecondSame DEF SecondInv
<1>7. pc' = "return" => stack' # <<>>
  BY <1>1 DEF SecondInv
<1>8. pc' \in {"start", "error"} => stack' = <<>>
  BY <1>1 DEF SecondInv
<1>9. pc' = "done" => stack' = <<>> /\ root' > Len(graph')
  BY <1>1, <1>6
<1>10. \A x \in V' : x < root' => x \in entered'
  BY <1>1, <1>5, <1>6
<1>11. pc' \in {"dfs", "return", "done"} => Undirected'
  BY <1>1, <1>6
<1> QED BY <1>2, <1>4, <1>6, <1>7, <1>8, <1>9, <1>10, <1>11 DEF SecondInv

(* A new BridgeArticulationFinder.                                         *)
LEMMA SecondInit ==
  ASSUME graph \in Graphs, pc = "start", Second!New
  PROVE  SecondInv
<1>1. /\ Second!V = V /\ Second!size = Len(graph) /\ Second!Cardinality({}) = Cardinality({})
      /\ Len(graph) \in Nat /\ V = 1..Len(graph)
  BY SecondReads, GraphFacts
<1>2. /\ entered = {} /\ timer = 0 /\ bridges = {} /\ articulation_points = <<>> /\ root = 1 /\ stack = <<>>
      /\ entry_time = [x \in V |-> 0] /\ low = [x \in V |-> 0]
  BY <1>1 DEF Second!New
<1>3. Cardinality({}) = 0
  BY FS_EmptySet
<1>4. Second!TypeOK
  BY <1>1, <1>2, <1>3 DEF Second!TypeOK
<1>5. Len(stack) = 0 /\ Level = 0
  BY <1>2 DEF Level
<1>6. Numbered /\ Trailed
  BY <1>2, <1>5 DEF Numbered, Trailed
<1>7. BridgesRight
  BY <1>2 DEF BridgesRight
<1>8. CutsRight
  BY <1>2 DEF CutsRight, Once, Lists
<1>9. SecondCore
  BY <1>5, <1>6, <1>7, <1>8 DEF SecondCore
<1> QED BY <1>1, <1>2, <1>4, <1>9 DEF SecondInv

-----------------------------------------------------------------------------
(* A list with one entry changed.                                          *)
LEMMA EntryChanged ==
  ASSUME NEW A, NEW q \in Seq(A), NEW n \in 1..Len(q), NEW f \in A
  PROVE  /\ [q EXCEPT ![n] = f] \in Seq(A) /\ Len([q EXCEPT ![n] = f]) = Len(q)
         /\ [q EXCEPT ![n] = f][n] = f
         /\ \A k \in 1..Len(q) : k # n => [q EXCEPT ![n] = f][k] = q[k]
OBVIOUS

(* The call on top of the stack, while its loop runs.                      *)
LEMMA TopReads ==
  ASSUME SecondInv, pc = "dfs", stack # <<>>
  PROVE  /\ Len(stack) \in Nat /\ Len(stack) > 0 /\ Level = Len(stack) /\ Undirected
         /\ Second!Frame = stack[Len(stack)] /\ stack[Len(stack)] \in Calls
         /\ \A k \in 1..Len(stack) : /\ At(k) = stack[k].u /\ Cursor(k) = stack[k].v
                                     /\ Caller(k) = stack[k].parent
<1>1. Len(stack) \in Nat /\ Len(stack) > 0
  BY SecondTypes
<1>2. Level = Len(stack)
  BY <1>1 DEF Level
<1>3. \A k \in 1..Len(stack) : /\ At(k) = stack[k].u /\ Cursor(k) = stack[k].v
  BY <1>1 DEF At, Cursor
<1>4. \A k \in 1..Len(stack) : Caller(k) = stack[k].parent
  BY DEF SecondInv, SecondCore, Framed
<1>5. Undirected
  BY DEF SecondInv
<1>6. stack[Len(stack)] \in Calls
  <2>1. UNCHANGED graph => Second!Frames = Calls
    BY SecondTyped
  <2>2. Second!Frames = Calls
    BY SecondReads DEF Second!Frames, Calls
  <2>3. Len(stack) \in 1..Len(stack)
    BY <1>1
  <2> QED BY <2>2, <2>3, SecondTypes
<1> QED BY <1>1, <1>2, <1>3, <1>4, <1>5, <1>6 DEF Second!Frame

(* A neighbour has been looked at: only the cursor of the top frame moves, *)
(* and low of its vertex may fall.                                         *)
LEMMA SecondScan ==
  ASSUME SecondInv, pc = "dfs", pc' = "dfs", stack # <<>>, NEW u, NEW p, NEW c \in V,
         u = stack[Len(stack)].u, p = stack[Len(stack)].parent, c = stack[Len(stack)].v,
         stack' = [stack EXCEPT ![Len(stack)] = [stack[Len(stack)] EXCEPT !.v = @ + 1]],
         UNCHANGED <<graph, entered, entry_time, timer, bridges, articulation_points, root>>,
         low' \in [V -> Nat], \A x \in V : x # u => low'[x] = low[x],
         c \in Near(u) => c \in entered,
         \A D : D = Done(Len(stack)) => LowAt(u, p, c + 1, D)'
  PROVE  SecondInv'
<1> DEFINE n == Len(stack)
<1>1. /\ n \in Nat /\ n > 0 /\ n \in 1..n /\ Level = n /\ Undirected
      /\ stack[n] \in Calls /\ stack \in Seq(Calls) /\ DOMAIN stack = 1..n
      /\ At(n) = u /\ Cursor(n) = c /\ Caller(n) = p
      /\ c \in Int /\ Len(graph) \in Nat /\ V = 1..Len(graph)
  <2>1. stack \in Seq(Calls)
    BY SecondTypes, SecondReads DEF Second!Frames, Calls
  <2>2. n \in Nat /\ n > 0 /\ n \in 1..n /\ Level = n
    BY TopReads
  <2>3. At(n) = u /\ Cursor(n) = c /\ Caller(n) = p
    BY <2>2, TopReads
  <2> QED BY <2>1, <2>2, <2>3, TopReads, SecondTypes
<1>2. PICK f : f = [stack[n] EXCEPT !.v = @ + 1]
  OBVIOUS
<1>3. /\ f \in Calls /\ f.u = u /\ f.parent = p /\ f.v = c + 1 /\ f.children = stack[n].children
      /\ f.is_articulation = stack[n].is_articulation
  <2>1. c + 1 \in 1..(Len(graph) + 1)
    BY <1>1
  <2>2. f = [u |-> u, parent |-> p, v |-> c + 1, children |-> stack[n].children,
             is_articulation |-> stack[n].is_articulation]
    BY <1>1, <1>2 DEF Calls
  <2> QED BY <1>1, <2>1, <2>2 DEF Calls
<1>4. stack' = [stack EXCEPT ![n] = f]
  BY <1>2
<1>5. /\ stack' \in Seq(Calls) /\ Len(stack') = n /\ stack'[n] = f
      /\ \A k \in 1..n : k # n => stack'[k] = stack[k]
  <2>1. n \in 1..Len(stack) /\ stack \in Seq(Calls) /\ f \in Calls
    BY <1>1, <1>3
  <2>2. PICK A, q, m : A = Calls /\ q = stack /\ m = n
    OBVIOUS
  <2>3. /\ [q EXCEPT ![m] = f] \in Seq(A) /\ Len([q EXCEPT ![m] = f]) = Len(q)
        /\ [q EXCEPT ![m] = f][m] = f
        /\ \A k \in 1..Len(q) : k # m => [q EXCEPT ![m] = f][k] = q[k]
    BY <2>1, <2>2, EntryChanged
  <2>4. stack' = [q EXCEPT ![m] = f] /\ Len(q) = n
    BY <1>4, <2>2
  <2> QED BY <2>2, <2>3, <2>4
<1>6. Level' = n
  BY <1>1, <1>5 DEF Level
<1>7. \A k \in 1..n : At(k)' = At(k) /\ (k # n => Cursor(k)' = Cursor(k))
  <2> SUFFICES ASSUME NEW k \in 1..n PROVE At(k)' = At(k) /\ (k # n => Cursor(k)' = Cursor(k))
    OBVIOUS
  <2>1. k <= Len(stack) /\ k <= Len(stack')
    BY <1>1, <1>5
  <2>2. CASE k = n
    BY <1>1, <1>3, <1>5, <2>1, <2>2 DEF At
  <2>3. CASE k # n
    BY <1>5, <2>1, <2>3 DEF At, Cursor
  <2> QED BY <2>2, <2>3
<1>8. Cursor(n)' = c + 1
  BY <1>1, <1>3, <1>5 DEF Cursor
<1>9. \A k \in 1..n :
        /\ stack'[k].u = stack[k].u /\ stack'[k].parent = stack[k].parent
        /\ stack'[k].children = stack[k].children
        /\ stack'[k].is_articulation = stack[k].is_articulation
        /\ stack'[k].v \in Int /\ stack[k].v <= stack'[k].v
        /\ k < n => stack'[k].v = stack[k].v
  <2> SUFFICES ASSUME NEW k \in 1..n
               PROVE  /\ stack'[k].u = stack[k].u /\ stack'[k].parent = stack[k].parent
                      /\ stack'[k].children = stack[k].children
                      /\ stack'[k].is_articulation = stack[k].is_articulation
                      /\ stack'[k].v \in Int /\ stack[k].v <= stack'[k].v
                      /\ k < n => stack'[k].v = stack[k].v
    OBVIOUS
  <2>1. stack[k].v \in Int
    <3>1. \A i \in 1..Len(stack) : stack[i].v \in 1..(Len(graph) + 1)
      BY SecondTypes
    <3>2. stack[k].v \in 1..(Len(graph) + 1)
      BY <3>1
    <3> QED BY <3>2
  <2>2. CASE k = n
    <3>1. stack'[k] = f /\ stack[n].v = c /\ stack[n].u = u /\ stack[n].parent = p
      BY <1>5, <2>2
    <3>2. c \in Int /\ n \in Int
      BY <1>1
    <3> QED BY <1>3, <2>2, <3>1, <3>2
  <2>3. CASE k # n
    BY <1>5, <2>1, <2>3
  <2> QED BY <2>2, <2>3
<1>10. /\ Numbered' /\ Trailed' /\ \A k \in 1..Level' : Hanging(k)'
       /\ \A k \in 1..Len(stack') : Framed(k)' /\ CutRight(k)'
       /\ \A k \in 1..Level : Done(k)' = Done(k) /\ Caller(k)' = Caller(k)
       /\ BridgesRight' /\ CutsRight'
  <2>1. Level' = Level /\ Len(stack') = Len(stack) /\ \A k \in 1..Level : At(k)' = At(k)
    BY <1>1, <1>5, <1>6, <1>7
  <2>2. \A k \in 1..Len(stack) :
        /\ stack'[k].u = stack[k].u /\ stack'[k].parent = stack[k].parent
        /\ stack'[k].children = stack[k].children
        /\ stack'[k].is_articulation = stack[k].is_articulation
        /\ stack'[k].v \in Int /\ stack[k].v <= stack'[k].v
        /\ k < Level => stack'[k].v = stack[k].v
    BY <1>1, <1>9
  <2> QED BY <2>1, <2>2, TrailStays
<1>11. ASSUME NEW k \in 1..n, k # n
       PROVE  Scanned(k)' /\ LowRight(k)'
  <2>1. At(k) # u
    <3>1. entry_time[At(k)] < entry_time[At(n)] /\ entry_time[At(k)] \in Int
      <4>1. k < n
        BY <1>1, <1>11
      <4>2. At(k) \in V
        BY <1>1, <1>11, SecondTypes
      <4>3. \A i, j \in 1..Level : i < j => entry_time[At(i)] < entry_time[At(j)]
        BY DEF SecondInv, SecondCore, Trailed
      <4>4. entry_time \in [V -> Nat]
        BY SecondTypes
      <4>5. k \in 1..Level /\ n \in 1..Level
        BY <1>1
      <4> QED BY <4>1, <4>2, <4>3, <4>4, <4>5
    <3> QED BY <1>1, <3>1
  <2>2. low'[At(k)] = low[At(k)]
    BY <1>1, <2>1, SecondTypes
  <2> QED BY <1>1, <1>7, <1>10, <1>11, <2>2, FrameKept
<1>12. Scanned(n)'
  <2>1. \A w \in Near(u) : w < c => w \in entered
    BY <1>1 DEF SecondInv, SecondCore, Scanned
  <2>2. \A w \in Near(u) : w < c + 1 => w \in entered
    <3> SUFFICES ASSUME NEW w \in Near(u), w < c + 1 PROVE w \in entered
      OBVIOUS
    <3>1. w \in Int
      BY <1>1, GraphFacts, SecondTypes
    <3>2. w < c \/ w = c
      BY <1>1, <3>1
    <3> QED BY <2>1, <3>2
  <2> QED BY <1>1, <1>7, <1>8, <2>2, SecondSame DEF Scanned
<1>13. LowRight(n)'
  <2>1. PICK D : D = Done(n)
    OBVIOUS
  <2>2. LowAt(u, p, c + 1, D)'
    BY <2>1
  <2>3. At(n)' = u /\ Caller(n)' = p /\ Cursor(n)' = c + 1 /\ Done(n)' = D
    BY <1>1, <1>7, <1>8, <1>10, <2>1
  <2> QED BY <2>2, <2>3 DEF LowRight
<1>14. SecondCore'
  <2>1. \A k \in 1..Level' : Hanging(k)' /\ Scanned(k)' /\ LowRight(k)'
    BY <1>6, <1>10, <1>11, <1>12, <1>13
  <2> QED BY <1>10, <2>1 DEF SecondCore
<1>15. Second!TypeOK'
  <2>1. timer = Cardinality(entered) /\ UNCHANGED <<entered, entry_time, timer, bridges, articulation_points, root>>
    BY SecondTyped
  <2> QED BY <1>5, <2>1, SecondTypes, SecondTyped
<1>16. /\ V' = V
       /\ Undirected'
       /\ graph' \in Graphs
       /\ stack' # <<>>
  BY <1>1, <1>5, SecondSame, SecondTypes
<1>17. \A x \in V' : x < root' => x \in entered'
  BY <1>16 DEF SecondInv
<1> QED BY <1>14, <1>15, <1>16, <1>17 DEF SecondInv

(* The two iterations of the loop without a call.                          *)
LEMMA ScanKeeps ==
  ASSUME SecondInv, Second!ScanSkip \/ Second!ScanVisited
  PROVE  SecondInv'
<1>1. PICK u, p, c, n : /\ n = Len(stack) /\ u = stack[n].u /\ p = stack[n].parent /\ c = stack[n].v
  OBVIOUS
<1>2. /\ pc = "dfs" /\ pc' = "dfs" /\ stack # <<>>
      /\ Second!Frame.v <= Second!size
      /\ stack' = Second!Updated([Second!Frame EXCEPT !.v = @ + 1])
      /\ UNCHANGED <<graph, entered, entry_time, timer, bridges, articulation_points, root>>
  <2>1. CASE Second!ScanSkip
    BY <2>1 DEF Second!ScanSkip, Second!InLoop, Second!numbers, Second!found
  <2>2. CASE Second!ScanVisited
    BY <2>2 DEF Second!ScanVisited, Second!InLoop, Second!found
  <2> QED BY <2>1, <2>2
<1>3. /\ n \in Nat /\ n > 0 /\ n \in 1..n /\ Level = n /\ Undirected
      /\ Second!Frame = stack[n] /\ stack[n] \in Calls
      /\ At(n) = u /\ Cursor(n) = c /\ Caller(n) = p
  <2>1. n \in Nat /\ n > 0 /\ n \in 1..n /\ Level = n /\ Undirected
        /\ Second!Frame = stack[n] /\ stack[n] \in Calls
    BY <1>1, <1>2, TopReads
  <2>2. At(n) = u /\ Cursor(n) = c /\ Caller(n) = p
    BY <1>1, <1>2, <2>1, TopReads
  <2> QED BY <2>1, <2>2
<1>4. u \in V /\ c \in V /\ c \in Int /\ V \subseteq Int
  <2>1. c <= Len(graph) /\ u \in V /\ c \in 1..(Len(graph) + 1)
    BY <1>1, <1>2, <1>3, SecondReads DEF Calls
  <2> QED BY <2>1, SecondTypes
<1>5. stack' = [stack EXCEPT ![Len(stack)] = [stack[Len(stack)] EXCEPT !.v = @ + 1]]
  BY <1>2, <1>1, <1>3 DEF Second!Updated
<1>6. PICK D : D = Done(n)
  OBVIOUS
<1>7. LowAt(u, p, c, D) /\ D \subseteq V /\ low \in [V -> Nat] /\ entry_time \in [V -> Nat]
  <2>1. LowRight(n)
    BY <1>3 DEF SecondInv, SecondCore
  <2> QED BY <1>3, <1>6, <2>1, SecondTypes DEF LowRight, Done
<1>8. /\ \A x : Near(x)' = Near(x)
      /\ \A x : Near(x) \subseteq V
  <2>1. \A x : Near(x) \subseteq V
    BY SecondTypes, GraphFacts
  <2> QED BY <1>2, <2>1, SecondSame
<1>9. /\ \A x \in D : \A w \in Near(x) : low[u] <= entry_time[w]
      /\ \A w \in Near(u) : w < c /\ w # p => low[u] <= entry_time[w]
      /\ low[u] <= entry_time[u]
      /\ \/ low[u] = entry_time[u]
         \/ \E x \in D \cup {u} : \E w \in Near(x) \cap entered :
              entry_time[w] = low[u] /\ <<x, w>> # <<u, p>>
  BY <1>7 DEF LowAt
<1>10. /\ low' \in [V -> Nat] /\ \A x \in V : x # u => low'[x] = low[x]
       /\ c \in Near(u) => c \in entered
       /\ LowAt(u, p, c + 1, D)'
  <2>1. CASE Second!ScanSkip
    <3>1. low' = low /\ (c \in Near(u) => c = p)
      <4>1. ~Second!Onward /\ low' = low
        BY <2>1 DEF Second!ScanSkip, Second!numbers
      <4>2. Second!IsNeighbor <=> c \in Near(u)
        <5>1. Second!IsNeighbor <=> graph[u][c] # 0
          BY <1>1, <1>3, SecondReads DEF Second!IsNeighbor
        <5> QED BY <1>4, <5>1, SecondTypes, GraphFacts
      <4> QED BY <1>1, <1>3, <4>1, <4>2 DEF Second!Onward
    <3>2. c \in Near(u) => c \in entered
      <4> SUFFICES ASSUME c = p PROVE c \in entered
        BY <3>1
      <4>1. n # 1
        <5> SUFFICES ASSUME n = 1 PROVE FALSE
          OBVIOUS
        <5>1. Caller(n) = -1
          BY DEF Caller
        <5>2. c >= 1
          BY <1>4, SecondTypes
        <5> QED BY <1>3, <1>4, <5>1, <5>2
      <4>2. n - 1 \in 1..Level /\ p = At(n - 1)
        BY <1>3, <4>1 DEF Caller
      <4> QED BY <4>2, SecondTypes
    <3>3. \A w \in Near(u) : w < c + 1 /\ w # p => low[u] <= entry_time[w]
      <4> SUFFICES ASSUME NEW w \in Near(u), w < c + 1, w # p PROVE low[u] <= entry_time[w]
        OBVIOUS
      <4>1. w \in Int /\ w # c
        BY <1>4, <1>8, <3>1
      <4>2. w < c
        BY <1>4, <4>1
      <4> QED BY <1>9, <4>2
    <3>4. LowAt(u, p, c + 1, D)'
      BY <1>2, <1>8, <1>9, <3>1, <3>3 DEF LowAt
    <3> QED BY <1>7, <3>1, <3>2, <3>4
  <2>2. CASE Second!ScanVisited
    <3>1. /\ low' = [low EXCEPT ![u] = Second!Smaller(low[u], entry_time[c])]
          /\ c \in entered /\ c # p /\ c \in Near(u)
      <4>1. Second!IsNeighbor => graph[u][c] # 0
        BY <1>1, <1>3, SecondReads DEF Second!IsNeighbor
      <4>2. Second!IsNeighbor => c \in Near(u)
        BY <1>4, <4>1, SecondTypes, GraphFacts
      <4>3. Second!Onward /\ c \in entered /\ c # p
            /\ low' = [low EXCEPT ![u] = Second!Smaller(low[u], entry_time[c])]
        BY <2>2, <1>1, <1>3 DEF Second!ScanVisited, Second!Onward
      <4> QED BY <4>2, <4>3 DEF Second!Onward
    <3>2. PICK a, b, l : a = low[u] /\ b = entry_time[c] /\ l = Second!Smaller(a, b)
      OBVIOUS
    <3>3. a \in Nat /\ b \in Nat /\ l \in Nat /\ l <= a /\ l <= b /\ (l = a \/ l = b)
      <4>1. a \in Nat /\ b \in Nat
        BY <1>4, <1>7, <3>2
      <4> QED BY <3>2, <4>1 DEF Second!Smaller
    <3>4. low' \in [V -> Nat] /\ low'[u] = l /\ \A x \in V : x # u => low'[x] = low[x]
      BY <1>4, <1>7, <3>1, <3>2, <3>3
    <3>5. \A w \in V : entry_time[w] \in Nat
      BY <1>7
    <3>6. \A w \in V : a <= entry_time[w] => l <= entry_time[w]
      <4> SUFFICES ASSUME NEW w \in V, a <= entry_time[w] PROVE l <= entry_time[w]
        OBVIOUS
      <4>1. entry_time[w] \in Nat
        BY <3>5
      <4> QED BY <3>3, <4>1
    <3>7. l <= entry_time[u]
      BY <1>4, <1>9, <3>2, <3>6
    <3>8. \A x \in D : \A w \in Near(x) : l <= entry_time[w]
      BY <1>8, <1>9, <3>2, <3>6
    <3>9. \A w \in Near(u) : w < c + 1 /\ w # p => l <= entry_time[w]
      <4> SUFFICES ASSUME NEW w \in Near(u), w < c + 1, w # p PROVE l <= entry_time[w]
        OBVIOUS
      <4>1. w \in V /\ w \in Int
        BY <1>4, <1>8
      <4>2. CASE w = c
        BY <3>2, <3>3, <4>2
      <4>3. CASE w # c
        <5>1. w < c
          BY <1>4, <4>1, <4>3
        <5> QED BY <1>9, <3>2, <3>6, <4>1, <5>1
      <4> QED BY <4>2, <4>3
    <3>10. \/ l = entry_time[u]
           \/ \E x \in D \cup {u} : \E w \in Near(x) \cap entered :
                entry_time[w] = l /\ <<x, w>> # <<u, p>>
      <4>1. CASE l = a
        BY <1>9, <3>2, <4>1
      <4>2. CASE l = b
        <5>1. c \in Near(u) \cap entered /\ entry_time[c] = l /\ <<u, c>> # <<u, p>> /\ u \in D \cup {u}
          BY <3>1, <3>2, <4>2
        <5> QED BY <5>1
      <4> QED BY <3>3, <4>1, <4>2
    <3>11. LowAt(u, p, c + 1, D)'
      BY <1>2, <1>8, <3>4, <3>7, <3>8, <3>9, <3>10 DEF LowAt
    <3> QED BY <3>1, <3>4, <3>11
  <2> QED BY <2>1, <2>2
<1>11. \A E : E = Done(Len(stack)) => LowAt(u, p, c + 1, E)'
  BY <1>1, <1>6, <1>10
<1>12. u = stack[Len(stack)].u /\ p = stack[Len(stack)].parent /\ c = stack[Len(stack)].v
  BY <1>1
<1>13. /\ pc = "dfs" /\ pc' = "dfs" /\ stack # <<>>
       /\ UNCHANGED <<graph, entered, entry_time, timer, bridges, articulation_points, root>>
  BY <1>2
<1> QED BY <1>4, <1>5, <1>10, <1>11, <1>12, <1>13, SecondScan

-----------------------------------------------------------------------------
(* A vertex that is not yet entered touches the trail only.                *)
LEMMA FreshOnTrail ==
  ASSUME SecondInv, Undirected, NEW v \in V, v \notin entered, NEW w \in entered,
         w \in Near(v) \/ v \in Near(w)
  PROVE  \E j \in 1..Level : At(j) = w
<1>1. v \in Near(w)
  BY UndirectedFacts, SecondTypes
<1> QED BY <1>1 DEF SecondInv, SecondCore, Trailed, OnTrail

(* The numbers after a vertex has been entered.                            *)
LEMMA EnterTimes ==
  ASSUME SecondInv, NEW v \in V, v \notin entered,
         entered' = entered \cup {v}, entry_time' = [entry_time EXCEPT ![v] = timer],
         low' = [low EXCEPT ![v] = timer]
  PROVE  /\ entry_time' \in [V -> Nat] /\ low' \in [V -> Nat]
         /\ entry_time'[v] = timer /\ low'[v] = timer
         /\ \A x \in entered : entry_time'[x] = entry_time[x] /\ low'[x] = low[x]
         /\ \A x \in entered : entry_time[x] \in Nat /\ entry_time[x] < timer
<1>1. /\ entry_time \in [V -> Nat] /\ low \in [V -> Nat] /\ timer \in Nat /\ entered \in SUBSET V
      /\ \A x \in entered : entry_time[x] < timer
  BY SecondTypes DEF SecondInv, SecondCore, Numbered
<1>2. \A x \in entered : x # v /\ x \in V
  BY <1>1
<1> QED BY <1>1, <1>2

Entering(v, p) ==
  /\ Undirected /\ pc = "dfs" /\ pc' = "dfs" /\ v \in V /\ v \notin entered /\ p \in V \cup {-1}
  /\ entered' = entered \cup {v} /\ entry_time' = [entry_time EXCEPT ![v] = timer]
  /\ low' = [low EXCEPT ![v] = timer] /\ timer' = timer + 1
  /\ stack' = Append(stack, [u |-> v, parent |-> p, v |-> 1, children |-> 0, is_articulation |-> FALSE])
  /\ UNCHANGED <<graph, bridges, articulation_points>>
  /\ Len(stack) = 0 => p = -1
  /\ Len(stack) > 0 => p = At(Len(stack)) /\ v = Cursor(Len(stack)) /\ v \in Near(p)

(* The trail after a call of dfs: one vertex more.                         *)
LEMMA EnterFacts ==
  ASSUME SecondInv, NEW v, NEW p, Entering(v, p), NEW n, n = Len(stack)
  PROVE  /\ n \in Nat /\ Level = n /\ Level' = n + 1 /\ Len(stack') = n + 1
         /\ stack' \in Seq(Calls) /\ \A k \in 1..n : stack'[k] = stack[k]
         /\ \A k \in 1..n : /\ At(k)' = At(k) /\ Cursor(k)' = Cursor(k) /\ Caller(k)' = Caller(k)
                            /\ At(k) = stack[k].u /\ Cursor(k) = stack[k].v
         /\ At(n + 1)' = v /\ Cursor(n + 1)' = 1 /\ Caller(n + 1)' = p
         /\ stack'[n + 1] = [u |-> v, parent |-> p, v |-> 1, children |-> 0, is_articulation |-> FALSE]
<1>0. PICK f : f = [u |-> v, parent |-> p, v |-> 1, children |-> 0, is_articulation |-> FALSE]
  OBVIOUS
<1>a. /\ Undirected /\ pc = "dfs" /\ pc' = "dfs" /\ v \in V /\ v \notin entered /\ p \in V \cup {-1}
      /\ stack' = Append(stack, f) /\ UNCHANGED graph
      /\ n = 0 => p = -1
      /\ n > 0 => p = At(n)
  BY <1>0 DEF Entering
<1>1. n \in Nat /\ Level = n /\ stack \in Seq(Calls) /\ \A k \in 1..n : At(k) \in V /\ At(k) \in entered
  <2>1. n \in Nat /\ Level = n
    BY <1>a, SecondTypes DEF Level
  <2>2. stack \in Seq(Calls)
    BY SecondTypes, SecondReads DEF Second!Frames, Calls
  <2> QED BY <2>1, <2>2, SecondTypes
<1>2. f \in Calls
  <2>1. 1 \in 1..(Len(graph) + 1) /\ 0 \in 0..Len(graph) /\ FALSE \in BOOLEAN
    BY SecondTypes
  <2> QED BY <1>0, <1>a, <2>1 DEF Calls
<1>3. /\ stack' \in Seq(Calls) /\ Len(stack') = n + 1
      /\ stack'[n + 1] = f /\ \A k \in 1..n : stack'[k] = stack[k]
  BY <1>1, <1>2, <1>a
<1>4. Level' = n + 1
  BY <1>1, <1>3, <1>a DEF Level
<1>5. ASSUME NEW k \in 1..n
      PROVE  /\ At(k)' = At(k) /\ Cursor(k)' = Cursor(k) /\ At(k) # v
             /\ At(k) = stack[k].u /\ Cursor(k) = stack[k].v
  <2>1. k <= Len(stack) /\ k <= Len(stack')
    BY <1>1, <1>3
  <2> QED BY <1>1, <1>3, <1>a, <2>1 DEF At, Cursor
<1>6. At(n + 1)' = v /\ Cursor(n + 1)' = 1
  <2>1. n + 1 <= Len(stack')
    BY <1>1, <1>3
  <2> QED BY <1>0, <1>3, <2>1 DEF At, Cursor
<1>7. ASSUME NEW k \in 1..n
      PROVE  Caller(k)' = Caller(k)
  <2>1. CASE k = 1
    BY <2>1 DEF Caller
  <2>2. CASE k # 1
    <3>1. k - 1 \in 1..n
      BY <1>1, <2>2
    <3> QED BY <1>5, <2>2, <3>1 DEF Caller
  <2> QED BY <2>1, <2>2
<1>8. Caller(n + 1)' = p
  <2>1. CASE n = 0
    BY <1>a, <2>1 DEF Caller
  <2>2. CASE n # 0
    <3>1. n + 1 # 1 /\ (n + 1) - 1 = n /\ n \in 1..n /\ n > 0
      BY <1>1, <2>2
    <3> QED BY <1>5, <1>a, <3>1 DEF Caller
  <2> QED BY <2>1, <2>2
<1>9. stack'[n + 1] = [u |-> v, parent |-> p, v |-> 1, children |-> 0, is_articulation |-> FALSE]
  BY <1>0, <1>3
<1> QED BY <1>1, <1>3, <1>4, <1>5, <1>6, <1>7, <1>8, <1>9

(* The numbers after a call of dfs.                                        *)
LEMMA EnterTimed ==
  ASSUME SecondInv, NEW v, NEW p, Entering(v, p)
  PROVE  /\ entry_time' \in [V -> Nat] /\ low' \in [V -> Nat] /\ timer \in Nat
         /\ entry_time'[v] = timer /\ low'[v] = timer
         /\ \A x \in entered : entry_time'[x] = entry_time[x] /\ low'[x] = low[x]
         /\ \A x \in entered : entry_time[x] \in Nat /\ entry_time[x] < timer
<1>1. v \in V /\ v \notin entered
      /\ entered' = entered \cup {v} /\ entry_time' = [entry_time EXCEPT ![v] = timer]
      /\ low' = [low EXCEPT ![v] = timer]
  BY DEF Entering
<1> QED BY <1>1, EnterTimes, SecondTypes

(* A call takes the next number, and nothing is over below it yet.         *)
LEMMA EnterTrail ==
  ASSUME SecondInv, NEW v, NEW p, Entering(v, p), NEW n, n = Len(stack)
  PROVE  /\ Numbered' /\ Trailed'
         /\ \A k \in 1..n : Done(k)' = Done(k)
         /\ Done(n + 1)' = {}
<1>1. /\ n \in Nat /\ Level = n /\ Level' = n + 1
      /\ \A k \in 1..n : At(k)' = At(k) /\ At(k) # v /\ At(k) \in V /\ At(k) \in entered
      /\ At(n + 1)' = v
  <2>1. n \in Nat /\ Level = n /\ Level' = n + 1 /\ At(n + 1)' = v
    BY EnterFacts
  <2>2. \A k \in 1..n : At(k)' = At(k)
    BY EnterFacts
  <2>3. \A k \in 1..n : At(k) \in V /\ At(k) \in entered
    BY <2>1, SecondTypes
  <2>4. v \notin entered
    BY DEF Entering
  <2> QED BY <2>1, <2>2, <2>3, <2>4
<1>2. /\ timer \in Nat /\ entry_time'[v] = timer
      /\ \A x \in entered : entry_time'[x] = entry_time[x]
      /\ \A x \in entered : entry_time[x] \in Nat /\ entry_time[x] < timer
  BY EnterTimed
<1>3. v \notin entered /\ entered' = entered \cup {v} /\ timer' = timer + 1 /\ Undirected /\ graph' = graph /\ v \in V
  BY DEF Entering
<1>4. Numbered /\ Trailed
  BY DEF SecondInv, SecondCore
<1>5. Numbered'
  <2>1. \A x \in entered' : entry_time'[x] < timer'
    BY <1>2, <1>3
  <2>2. ASSUME NEW x \in entered', NEW y \in entered', entry_time'[x] = entry_time'[y]
        PROVE  x = y
    <3>1. CASE x = v /\ y = v
      BY <3>1
    <3>2. CASE x \in entered /\ y = v
      BY <1>2, <2>2, <3>2
    <3>3. CASE x = v /\ y \in entered
      BY <1>2, <2>2, <3>3
    <3>4. CASE x \in entered /\ y \in entered
      BY <1>2, <1>4, <2>2, <3>4 DEF Numbered
    <3> QED BY <1>3, <3>1, <3>2, <3>3, <3>4
  <2> QED BY <2>1, <2>2 DEF Numbered
<1>6. \A k \in 1..Level' : k \in 1..n \/ k = n + 1
  BY <1>1
<1>7. \A k \in 1..Level' : At(k)' \in entered'
  BY <1>1, <1>3, <1>6
<1>8. ASSUME NEW j \in 1..Level', NEW k \in 1..Level', j < k
      PROVE  entry_time'[At(j)'] < entry_time'[At(k)']
  <2>1. j \in 1..n
    BY <1>1, <1>8
  <2>2. CASE k \in 1..n
    BY <1>1, <1>2, <1>4, <1>8, <2>1, <2>2 DEF Trailed
  <2>3. CASE k = n + 1
    BY <1>1, <1>2, <2>1, <2>3
  <2> QED BY <1>6, <2>2, <2>3
<1>9. ASSUME NEW k \in 1..(Level' - 1)
      PROVE  At(k + 1)' \in Near(At(k))'
  <2>1. k \in 1..n
    BY <1>1
  <2>2. CASE k < n
    <3>1. k \in 1..(Level - 1) /\ k + 1 \in 1..n
      BY <1>1, <2>1, <2>2
    <3> QED BY <1>1, <1>3, <1>4, <2>1, <3>1, SecondSame DEF Trailed
  <2>3. CASE k = n
    <3>1. v \in Near(At(n))
      BY <1>1, <2>1, <2>3 DEF Entering
    <3> QED BY <1>1, <1>3, <2>1, <2>3, <3>1, SecondSame
  <2> QED BY <1>1, <2>1, <2>2, <2>3
<1>10. ASSUME NEW x \in entered'
       PROVE  OnTrail(x)' \/ Near(x)' \subseteq entered'
  <2>1. CASE x = v
    <3>1. n + 1 \in 1..Level'
      BY <1>1
    <3> QED BY <1>1, <2>1, <3>1 DEF OnTrail
  <2>2. CASE x \in entered /\ OnTrail(x)
    <3>1. PICK k \in 1..n : At(k) = x
      BY <1>1, <2>2 DEF OnTrail
    <3>2. k \in 1..Level' /\ At(k)' = x
      BY <1>1, <3>1
    <3> QED BY <3>2 DEF OnTrail
  <2>3. CASE x \in entered /\ ~OnTrail(x)
    BY <1>3, <1>4, <2>3, SecondSame DEF Trailed
  <2> QED BY <1>3, <2>1, <2>2, <2>3
<1>11. Trailed'
  BY <1>7, <1>8, <1>9, <1>10 DEF Trailed
<1>12. ASSUME NEW k \in 1..n
       PROVE  Done(k)' = Done(k)
  <2>1. PICK t : t = entry_time[At(k)]
    OBVIOUS
  <2>2. t \in Nat /\ entry_time'[At(k)'] = t
    BY <1>1, <1>2, <2>1
  <2>3. CASE k < n
    <3>1. k + 1 \in 1..n /\ k < Level /\ k < Level'
      BY <1>1, <2>3
    <3>2. PICK s : s = entry_time[At(k + 1)]
      OBVIOUS
    <3>3. s \in Nat /\ s < timer /\ entry_time'[At(k + 1)'] = s
      BY <1>1, <1>2, <3>1, <3>2
    <3>4. Done(k)' = { x \in entered' : t < entry_time'[x] /\ entry_time'[x] < s }
      BY <2>2, <3>1, <3>3 DEF Done
    <3>5. Done(k) = { x \in entered : t < entry_time[x] /\ entry_time[x] < s }
      BY <2>1, <3>1, <3>2 DEF Done
    <3>6. ~(entry_time'[v] < s)
      BY <1>2, <3>3
    <3> QED BY <1>2, <1>3, <3>4, <3>5, <3>6
  <2>4. CASE k = n
    <3>1. ~(k < Level) /\ k < Level' /\ entry_time'[At(k + 1)'] = timer
      BY <1>1, <1>2, <2>4
    <3>2. Done(k)' = { x \in entered' : t < entry_time'[x] /\ entry_time'[x] < timer }
      BY <2>2, <3>1 DEF Done
    <3>3. Done(k) = { x \in entered : t < entry_time[x] }
      BY <2>1, <3>1 DEF Done
    <3>4. ~(entry_time'[v] < timer)
      BY <1>2
    <3> QED BY <1>2, <1>3, <3>2, <3>3, <3>4
  <2> QED BY <1>1, <2>3, <2>4
<1>13. Done(n + 1)' = {}
  <2>1. entry_time'[At(n + 1)'] = timer
    BY <1>1, <1>2
  <2>2. \A x \in entered' : ~(timer < entry_time'[x])
    BY <1>2, <1>3
  <2> QED BY <2>1, <2>2 DEF Done
<1> QED BY <1>5, <1>11, <1>12, <1>13

(* The vertex of a new call hangs on the trail by the edge it was called   *)
(* along.                                                                  *)
LEMMA EnterHangs ==
  ASSUME SecondInv, NEW v, NEW p, Entering(v, p), NEW n, n = Len(stack), NEW k \in 1..(n + 1)
  PROVE  Hanging(k)'
<1>1. /\ n \in Nat /\ Level = n /\ At(n + 1)' = v
      /\ \A j \in 1..n : At(j)' = At(j) /\ At(j) \in V /\ At(j) \in entered
  <2>1. n \in Nat /\ Level = n /\ At(n + 1)' = v
    BY EnterFacts
  <2>2. \A j \in 1..n : At(j)' = At(j)
    BY EnterFacts
  <2> QED BY <2>1, <2>2, SecondTypes
<1>2. /\ timer \in Nat /\ entry_time'[v] = timer
      /\ \A x \in entered : entry_time'[x] = entry_time[x]
      /\ \A x \in entered : entry_time[x] \in Nat /\ entry_time[x] < timer
  BY EnterTimed
<1>3. /\ v \in V /\ v \notin entered /\ entered' = entered \cup {v} /\ Undirected /\ graph' = graph
      /\ entered \subseteq V
  BY SecondTypes DEF Entering
<1>4. \A w \in entered : w \in Near(v) => \E j \in 1..n : At(j) = w
  BY <1>1, <1>3, FreshOnTrail
<1>5. \A x : Near(x)' = Near(x)
  BY <1>3, SecondSame
<1>6. CASE k = n + 1
  <2>1. At(k)' = v /\ Since(v)' = {v}
    <3>1. \A x \in entered' : entry_time'[v] <= entry_time'[x] <=> x = v
      BY <1>2, <1>3
    <3> QED BY <1>1, <1>3, <1>6, <3>1 DEF Since
  <2>2. \A w \in Near(v)' \cap entered' :
          entry_time'[w] < entry_time'[v] => \E j \in 1..(k - 1) : At(j)' = w
    <3> SUFFICES ASSUME NEW w \in Near(v), w \in entered', entry_time'[w] < entry_time'[v]
                 PROVE  \E j \in 1..(k - 1) : At(j)' = w
      BY <1>5
    <3>1. w # v
      BY <1>2
    <3>2. PICK j \in 1..n : At(j) = w
      BY <1>3, <1>4, <3>1
    <3>3. j \in 1..(k - 1) /\ At(j)' = w
      BY <1>1, <1>6, <3>2
    <3> QED BY <3>3
  <2>3. \A x \in {v} : x \in ReachableBy(Inside({v}), v)'
    <3>1. v \in ReachableBy(Inside({v}), v)
      BY <1>3, ReachLaw DEF Undirected
    <3> QED BY <1>3, <3>1, SecondSame
  <2>4. ReachableBy(Inside(Since(At(k))), At(k))' = ReachableBy(Inside({v}), v)'
    BY <2>1 DEF Inside
  <2> QED BY <2>1, <2>2, <2>3, <2>4 DEF Hanging
<1>7. CASE k \in 1..n
  <2>1. PICK u, t : u = At(k) /\ t = entry_time[u]
    OBVIOUS
  <2>2. PICK S : S = Since(u)
    OBVIOUS
  <2>3. /\ At(k)' = u /\ entry_time'[u] = t /\ t \in Nat /\ t < timer /\ u \in entered /\ u \in V
    BY <1>1, <1>2, <1>7, <2>1
  <2>4. PICK R : R = S \cup {v}
    OBVIOUS
  <2>5. Since(u)' = R
    <3>1. \A x \in entered' : t <= entry_time'[x] <=> x = v \/ (x \in entered /\ t <= entry_time[x])
      BY <1>2, <1>3, <2>3
    <3>2. Since(u)' = { x \in entered' : t <= entry_time'[x] }
      BY <2>3 DEF Since
    <3>3. S = { x \in entered : t <= entry_time[x] }
      BY <2>1, <2>2 DEF Since
    <3> QED BY <1>3, <2>4, <3>1, <3>2, <3>3
  <2>6. /\ \A x \in S : \A w \in Near(x) \cap entered : entry_time[w] < t => \E j \in 1..(k - 1) : At(j) = w
        /\ \A x \in S : x \in ReachableBy(Inside(S), u)
        /\ S \subseteq entered
    <3>1. Hanging(k)
      BY <1>1, <1>7 DEF SecondInv, SecondCore
    <3> QED BY <2>1, <2>2, <3>1 DEF Hanging, Since
  <2>7. \A x \in R : \A w \in Near(x)' \cap entered' :
          entry_time'[w] < t => \E j \in 1..(k - 1) : At(j)' = w
    <3> SUFFICES ASSUME NEW x \in R, NEW w \in Near(x), w \in entered', entry_time'[w] < t
                 PROVE  \E j \in 1..(k - 1) : At(j)' = w
      BY <1>5
    <3>1. w \in entered /\ entry_time[w] < t
      BY <1>2, <1>3, <2>3
    <3>2. CASE x \in S
      <4>1. PICK j \in 1..(k - 1) : At(j) = w
        BY <2>6, <3>1, <3>2
      <4>2. j \in 1..n
        BY <1>1, <1>7
      <4> QED BY <1>1, <4>1, <4>2
    <3>3. CASE x = v
      <4>1. PICK j \in 1..n : At(j) = w
        BY <1>4, <3>1, <3>3
      <4>2. \A i, m \in 1..n : i < m => entry_time[At(i)] < entry_time[At(m)]
        BY <1>1 DEF SecondInv, SecondCore, Trailed
      <4>3. j < k
        <5>1. entry_time[At(j)] < entry_time[At(k)] /\ entry_time[At(j)] \in Nat /\ entry_time[At(k)] \in Nat
          BY <1>2, <2>1, <2>3, <3>1, <4>1
        <5>2. ~(k < j) /\ k # j
          BY <1>7, <4>2, <5>1
        <5> QED BY <1>1, <1>7, <5>2
      <4> QED BY <1>1, <1>7, <4>1, <4>3
    <3> QED BY <2>4, <3>2, <3>3
  <2>8. \A x \in R : x \in ReachableBy(Inside(R), u)
    <3>1. PICK E, F : E = Inside(S) /\ F = Inside(R)
      OBVIOUS
    <3>2. E \subseteq F
      <4>1. \A e : e \in E => e \in F
        BY <2>4, <3>1 DEF Inside
      <4> QED BY <4>1
    <3>3. ReachableBy(E, u) \subseteq ReachableBy(F, u)
      BY <1>3, <2>3, <3>2, ReachMore DEF Undirected
    <3>4. v \in ReachableBy(F, u)
      <4>1. n \in 1..n /\ v \in Near(At(n))
        BY <1>1, <1>7 DEF Entering
      <4>2. PICK y : y = At(n)
        OBVIOUS
      <4>3. y \in S
        <5>1. t <= entry_time[y]
          <6>1. CASE k = n
            BY <2>1, <2>3, <4>2, <6>1
          <6>2. CASE k # n
            <7>1. k < n
              BY <1>1, <1>7, <6>2
            <7>2. \A i, m \in 1..n : i < m => entry_time[At(i)] < entry_time[At(m)]
              BY <1>1 DEF SecondInv, SecondCore, Trailed
            <7>3. t < entry_time[y] /\ entry_time[y] \in Nat
              BY <1>1, <1>2, <1>7, <2>1, <4>1, <4>2, <7>1, <7>2
            <7> QED BY <2>3, <7>3
          <6> QED BY <6>1, <6>2
        <5>2. y \in entered
          BY <1>1, <4>1, <4>2
        <5> QED BY <2>1, <2>2, <5>1, <5>2 DEF Since
      <4>4. y \in V /\ <<y, v>> \in F
        <5>1. y \in V /\ <<y, v>> \in Edges
          BY <1>1, <1>3, <4>1, <4>2, UndirectedFacts
        <5> QED BY <1>3, <2>4, <3>1, <4>3, <5>1, PartFacts
      <4>5. y \in ReachableBy(F, u)
        BY <2>6, <3>1, <3>3, <4>3
      <4> QED BY <1>3, <2>3, <4>4, <4>5, ReachNext DEF Undirected
    <3> QED BY <2>4, <2>6, <3>1, <3>3, <3>4
  <2>9. ReachableBy(Inside(R), u)' = ReachableBy(Inside(R), u)
    BY <1>3, SecondSame
  <2> QED BY <2>3, <2>5, <2>7, <2>8, <2>9 DEF Hanging
<1> QED BY <1>1, <1>6, <1>7

(* A call leaves the frames below it as right as they were.                *)
LEMMA EnterFrames ==
  ASSUME SecondInv, NEW v, NEW p, Entering(v, p), NEW n, n = Len(stack)
  PROVE  /\ \A k \in 1..(n + 1) : Scanned(k)' /\ LowRight(k)'
         /\ \A k \in 1..(n + 1) : Framed(k)' /\ CutRight(k)'
<1>1. /\ n \in Nat /\ Level = n /\ Level' = n + 1
      /\ At(n + 1)' = v /\ Cursor(n + 1)' = 1 /\ Caller(n + 1)' = p
  BY EnterFacts
<1>2. /\ \A k \in 1..n : At(k)' = At(k)
      /\ \A k \in 1..n : Cursor(k)' = Cursor(k)
      /\ \A k \in 1..n : Caller(k)' = Caller(k)
      /\ \A k \in 1..n : At(k) = stack[k].u
      /\ \A k \in 1..n : Cursor(k) = stack[k].v
      /\ \A k \in 1..n : stack'[k] = stack[k]
  BY EnterFacts
<1>3. /\ entry_time'[v] = timer /\ low'[v] = timer
      /\ timer \in Nat
      /\ \A x \in entered : entry_time'[x] = entry_time[x] /\ low'[x] = low[x]
  BY EnterTimed
<1>4. /\ v \in V /\ v \notin entered /\ entered' = entered \cup {v} /\ Undirected /\ graph' = graph
  BY DEF Entering
<1>5. /\ \A k \in 1..n : Done(k)' = Done(k)
      /\ Done(n + 1)' = {}
  BY EnterTrail
<1>6. \A k \in 1..n : At(k) \in V /\ At(k) \in entered
  BY <1>1, SecondTypes
<1>7. /\ stack'[n + 1].u = v /\ stack'[n + 1].parent = p /\ stack'[n + 1].v = 1
      /\ stack'[n + 1].children = 0 /\ stack'[n + 1].is_articulation = FALSE
  <2>1. stack'[n + 1] = [u |-> v, parent |-> p, v |-> 1, children |-> 0, is_articulation |-> FALSE]
    BY EnterFacts
  <2> QED BY <2>1
<1>8. ASSUME NEW k \in 1..n
      PROVE  Scanned(k)' /\ LowRight(k)' /\ Framed(k)' /\ CutRight(k)'
  <2>1. Scanned(k)' /\ LowRight(k)'
    <3>1. entered \subseteq entered'
      BY <1>4
    <3>2. k \in 1..Level /\ low'[At(k)] = low[At(k)]
      BY <1>1, <1>3, <1>6
    <3> QED BY <1>2, <1>3, <1>4, <1>5, <3>1, <3>2, FrameKept
  <2>2. Framed(k)'
    <3>1. /\ stack[k].parent = Caller(k) /\ stack[k].children < stack[k].v
          /\ k < Level => stack[k].v = At(k + 1)
      BY DEF SecondInv, SecondCore, Framed
    <3>2. k < Level' => stack'[k].v = At(k + 1)'
      <4>1. CASE k = n
        <5>1. v = Cursor(n)
          BY <1>1, <4>1 DEF Entering
        <5> QED BY <1>1, <1>2, <4>1, <5>1
      <4>2. CASE k # n
        <5>1. k < Level /\ k + 1 \in 1..n
          BY <1>1, <4>2
        <5> QED BY <1>2, <3>1, <5>1
      <4> QED BY <4>1, <4>2
    <3> QED BY <1>2, <3>1, <3>2 DEF Framed
  <2>3. CutRight(k)'
    <3>1. k > 1 => At(k - 1)' = At(k - 1)
      <4> SUFFICES ASSUME k > 1 PROVE At(k - 1)' = At(k - 1)
        OBVIOUS
      <4>1. k - 1 \in 1..n
        BY <1>1
      <4> QED BY <1>2, <4>1
    <3>2. stack'[k] = stack[k] /\ Done(k)' = Done(k)
      BY <1>2, <1>5
    <3> QED BY <1>4, <3>1, <3>2, CutKept
  <2> QED BY <2>1, <2>2, <2>3
<1>9. Scanned(n + 1)'
  <2>1. \A w \in Near(v) : ~(w < 1)
    BY SecondTypes, GraphFacts
  <2>2. \A w \in Near(v)' : ~(w < 1)
    BY <1>4, <2>1, SecondSame
  <2> QED BY <1>1, <2>2 DEF Scanned
<1>10. LowRight(n + 1)'
  <2>1. \A w \in Near(v) : ~(w < 1)
    BY SecondTypes, GraphFacts
  <2>2. \A w \in Near(v)' : ~(w < 1)
    BY <1>4, <2>1, SecondSame
  <2>3. PICK D : D = {}
    OBVIOUS
  <2>4. LowAt(v, p, 1, D)'
    BY <1>3, <2>2, <2>3 DEF LowAt
  <2> QED BY <1>1, <1>5, <2>3, <2>4 DEF LowRight
<1>11. Framed(n + 1)'
  BY <1>1, <1>7 DEF Framed
<1>12. CutRight(n + 1)'
  <2>1. PICK f, D, q : f = stack'[n + 1] /\ D = {} /\ q = At(n)'
    OBVIOUS
  <2>2. f.children = 0 /\ ~f.is_articulation
    BY <1>7, <2>1
  <2>3. RootAt(f, D)'
    BY <2>1, <2>2 DEF RootAt
  <2>4. InnerAt(f, q, D)'
    BY <2>1, <2>2 DEF InnerAt
  <2>5. (n + 1) - 1 = n
    BY <1>1
  <2>6. At((n + 1) - 1)' = q
    BY <2>1, <2>5
  <2> QED BY <1>5, <2>1, <2>3, <2>4, <2>6 DEF CutRight
<1>13. \A k \in 1..(n + 1) : k \in 1..n \/ k = n + 1
  BY <1>1
<1> QED BY <1>8, <1>9, <1>10, <1>11, <1>12, <1>13

(* A call changes no verdict: an edge to the new vertex that is a bridge   *)
(* is the one on the trail.                                                *)
LEMMA EnterBridges ==
  ASSUME SecondInv, NEW v, NEW p, Entering(v, p)
  PROVE  BridgesRight' /\ CutsRight'
<1>0. PICK n : n = Len(stack)
  OBVIOUS
<1>1. /\ n \in Nat /\ Level = n /\ Level' = n + 1 /\ At(n + 1)' = v /\ Len(stack') = n + 1
  BY <1>0, EnterFacts
<1>2. /\ \A k \in 1..n : At(k)' = At(k)
      /\ \A k \in 1..n : stack'[k] = stack[k]
      /\ stack'[n + 1].u = v
  <2>1. stack'[n + 1] = [u |-> v, parent |-> p, v |-> 1, children |-> 0, is_articulation |-> FALSE]
    BY <1>0, EnterFacts
  <2>2. \A k \in 1..n : At(k)' = At(k)
    BY <1>0, EnterFacts
  <2>3. \A k \in 1..n : stack'[k] = stack[k]
    BY <1>0, EnterFacts
  <2> QED BY <2>1, <2>2, <2>3
<1>3. /\ v \in V /\ v \notin entered /\ entered' = entered \cup {v} /\ Undirected /\ graph' = graph
      /\ bridges' = bridges /\ articulation_points' = articulation_points
  BY DEF Entering
<1>4. entered \subseteq V /\ \A k \in 1..n : At(k) \in V /\ At(k) \in entered
  BY <1>1, SecondTypes
<1>5. /\ V' = V /\ Edges' = Edges /\ \A x : Near(x)' = Near(x)
      /\ \A x, y : Bridge(x, y)' <=> Bridge(x, y)
      /\ \A x : CutVertex(x)' <=> CutVertex(x)
  BY <1>3, SecondSame
<1>6. /\ \A e \in bridges : e \in Edges /\ e[1] < e[2] /\ Bridge(e[1], e[2])
      /\ \A x, y \in entered : x < y /\ y \in Near(x) /\ Bridge(x, y) =>
           \/ <<x, y>> \in bridges
           \/ \E k \in 1..(n - 1) : \/ x = At(k) /\ y = At(k + 1)
                                    \/ y = At(k) /\ x = At(k + 1)
  BY <1>1 DEF SecondInv, SecondCore, BridgesRight
(* A bridge to v can only be the edge it is called along: from a vertex    *)
(* further back the trail leads around.                                    *)
<1>7. ASSUME NEW w \in entered, w \in Near(v), Bridge(v, w)
      PROVE  n \in 1..n /\ w = At(n)
  <2>1. PICK j \in 1..n : At(j) = w
    BY <1>1, <1>3, <1>7, FreshOnTrail
  <2>2. n \in 1..n
    BY <1>1
  <2>3. CASE j = n
    BY <2>1, <2>2, <2>3
  <2>4. CASE j # n
    <3>1. PICK E : E = But(v, w)
      OBVIOUS
    <3>2. Both(E)
      BY <1>3, <3>1, PartsBoth
    <3>3. ASSUME NEW m \in j..(n - 1)
          PROVE  <<At(m), At(m + 1)>> \in E
      <4>1. m \in 1..(Level - 1) /\ m \in 1..n /\ m + 1 \in 1..n
        BY <1>1
      <4>2. At(m + 1) \in Near(At(m))
        BY <4>1 DEF SecondInv, SecondCore, Trailed
      <4>3. <<At(m), At(m + 1)>> \in Edges
        BY <1>3, <1>4, <4>1, <4>2, UndirectedFacts
      <4>4. At(m) # v /\ At(m + 1) # v
        BY <1>3, <1>4, <4>1
      <4>5. <<At(m), At(m + 1)>> # <<v, w>> /\ <<At(m), At(m + 1)>> # <<w, v>>
        BY <4>4
      <4> QED BY <1>3, <3>1, <4>3, <4>5, PartFacts
    <3>4. At(j) \in ReachableBy(E, At(n)) /\ n \in 1..Level
      <4>1. j \in 1..Level /\ n \in 1..Level /\ j <= n
        BY <1>1
      <4> QED BY <1>3, <3>2, <3>3, <4>1, TrailLeads
    <3>5. <<v, At(n)>> \in E
      <4>1. v \in Near(At(n))
        BY <1>0, <1>1, <2>2 DEF Entering
      <4>2. At(n) # w /\ At(n) # v
        <5>1. j \in 1..Level /\ n \in 1..Level /\ j < n
          BY <1>1, <2>4
        <5>2. entry_time[At(j)] < entry_time[At(n)]
          BY <5>1 DEF SecondInv, SecondCore, Trailed
        <5>3. entry_time[At(j)] \in Nat
          BY <1>4, SecondTypes
        <5> QED BY <1>3, <1>4, <2>1, <2>2, <5>2, <5>3
      <4>3. <<v, At(n)>> \in Edges
        BY <1>3, <1>4, <2>2, <4>1, UndirectedFacts
      <4>4. <<v, At(n)>> # <<v, w>> /\ <<v, At(n)>> # <<w, v>>
        BY <1>3, <4>2
      <4> QED BY <1>3, <3>1, <4>3, <4>4, PartFacts
    <3>6. At(n) \in ReachableBy(E, v)
      BY <1>3, <1>4, <2>2, <3>2, <3>5, BothReach
    <3>7. w \in ReachableBy(E, v)
      BY <1>3, <2>1, <3>2, <3>4, <3>6, BothReach
    <3> QED BY <1>7, <3>1, <3>7 DEF Bridge
  <2> QED BY <2>3, <2>4
<1>8. ASSUME NEW x \in entered', NEW y \in entered', x < y, y \in Near(x)', Bridge(x, y)',
             <<x, y>> \notin bridges'
      PROVE  \E k \in 1..(Level' - 1) : \/ x = At(k)' /\ y = At(k + 1)'
                                        \/ y = At(k)' /\ x = At(k + 1)'
  <2>1. y \in Near(x) /\ Bridge(x, y) /\ Bridge(y, x) /\ x \in Near(y) /\ x \in V /\ y \in V
    <3>1. y \in Near(x) /\ Bridge(x, y) /\ x \in V /\ y \in V
      BY <1>3, <1>4, <1>5, <1>8
    <3> QED BY <1>3, <3>1, BridgeBoth, UndirectedFacts
  <2>2. Level' - 1 = n
    BY <1>1
  <2>3. CASE x \in entered /\ y \in entered
    <3>1. PICK k \in 1..(n - 1) : \/ x = At(k) /\ y = At(k + 1)
                                  \/ y = At(k) /\ x = At(k + 1)
      BY <1>3, <1>6, <1>8, <2>1, <2>3
    <3>2. k \in 1..n /\ k + 1 \in 1..n
      BY <1>1
    <3>3. At(k)' = At(k) /\ At(k + 1)' = At(k + 1)
      BY <1>2, <3>2
    <3> QED BY <2>2, <3>1, <3>2, <3>3
  <2>4. CASE x = v /\ y \in entered
    BY <1>1, <1>2, <1>7, <2>1, <2>2, <2>4
  <2>5. CASE y = v /\ x \in entered
    BY <1>1, <1>2, <1>7, <2>1, <2>2, <2>5
  <2>6. CASE x = v /\ y = v
    <3>1. v \in Int
      BY <1>3, SecondTypes
    <3> QED BY <1>8, <2>6, <3>1
  <2> QED BY <1>3, <2>3, <2>4, <2>5, <2>6
<1>9. BridgesRight'
  <2>1. \A e \in bridges' : e \in Edges' /\ e[1] < e[2] /\ Bridge(e[1], e[2])'
    BY <1>3, <1>5, <1>6
  <2> QED BY <1>8, <2>1 DEF BridgesRight
<1>10. CutsRight'
  <2>1. /\ Once(articulation_points)
        /\ \A x \in V : Lists(articulation_points, x) <=>
             x \in entered /\ CutVertex(x) /\ \A k \in 1..n : stack[k].u # x
    BY <1>0 DEF SecondInv, SecondCore, CutsRight
  <2>2. ASSUME NEW x \in V
        PROVE  Lists(articulation_points, x) <=>
                 x \in entered' /\ CutVertex(x)' /\ \A k \in 1..(n + 1) : stack'[k].u # x
    <3>1. CASE x = v
      <4>1. n + 1 \in 1..(n + 1)
        BY <1>1
      <4> QED BY <1>2, <1>3, <2>1, <3>1, <4>1
    <3>2. CASE x # v
      <4>1. (\A k \in 1..(n + 1) : stack'[k].u # x) <=> \A k \in 1..n : stack[k].u # x
        <5>1. \A k : k \in 1..(n + 1) <=> k \in 1..n \/ k = n + 1
          BY <1>1
        <5> QED BY <1>2, <3>2, <5>1
      <4> QED BY <1>3, <1>5, <2>1, <3>2, <4>1
    <3> QED BY <3>1, <3>2
  <2>3. Once(articulation_points)' /\ \A x : Lists(articulation_points, x)' <=> Lists(articulation_points, x)
    BY <1>3, <2>1 DEF Once, Lists
  <2>4. \A x \in V' : Lists(articulation_points, x)' <=>
             x \in entered' /\ CutVertex(x)' /\ \A k \in 1..Len(stack') : stack'[k].u # x
    BY <1>1, <1>5, <2>2, <2>3
  <2> QED BY <2>3, <2>4 DEF CutsRight
<1> QED BY <1>9, <1>10

(* Both calls of dfs, from its loop and from find, enter a vertex.         *)
LEMMA CallEnters ==
  ASSUME SecondInv, Second!ScanCall \/ Second!FindCall
  PROVE  /\ \E v, p : Entering(v, p)
         /\ root' \in 1..(Len(graph) + 1)
         /\ \A x \in V : x < root' => x \in entered'
<1>1. CASE Second!ScanCall
  <2>1. PICK v, u : v = Second!Frame.v /\ u = Second!Frame.u
    OBVIOUS
  <2>2. /\ pc = "dfs" /\ pc' = "dfs" /\ stack # <<>> /\ v <= Len(graph)
        /\ Second!IsNeighbor /\ v # Second!Frame.parent /\ v \notin entered
        /\ UNCHANGED <<graph, bridges, articulation_points, root>>
        /\ Second!Enter(v, u)
    BY <1>1, <2>1, SecondReads
       DEF Second!ScanCall, Second!InLoop, Second!Onward, Second!found
  <2>3. /\ Len(stack) \in Nat /\ Len(stack) > 0 /\ Undirected
        /\ Second!Frame = stack[Len(stack)] /\ stack[Len(stack)] \in Calls
        /\ At(Len(stack)) = u /\ Cursor(Len(stack)) = v
    <3>1. /\ Len(stack) \in Nat /\ Len(stack) > 0 /\ Undirected
          /\ Second!Frame = stack[Len(stack)] /\ stack[Len(stack)] \in Calls
      BY <2>2, TopReads
    <3>2. Len(stack) \in 1..Len(stack)
      BY <3>1
    <3>3. At(Len(stack)) = stack[Len(stack)].u /\ Cursor(Len(stack)) = stack[Len(stack)].v
      BY <2>2, <3>2, TopReads
    <3> QED BY <2>1, <3>1, <3>3
  <2>4. u \in V /\ v \in V
    <3>1. u \in V /\ v \in 1..(Len(graph) + 1)
      BY <2>1, <2>3 DEF Calls
    <3> QED BY <2>2, <3>1, SecondTypes
  <2>5. v \in Near(u)
    <3>1. graph[u][v] # 0
      BY <2>1, <2>2, SecondReads DEF Second!IsNeighbor
    <3> QED BY <2>4, <3>1, SecondTypes, GraphFacts
  <2>6. /\ entered' = entered \cup {v} /\ entry_time' = [entry_time EXCEPT ![v] = timer]
        /\ low' = [low EXCEPT ![v] = timer] /\ timer' = timer + 1
        /\ stack' = Append(stack, [u |-> v, parent |-> u, v |-> 1, children |-> 0, is_articulation |-> FALSE])
    BY <2>2 DEF Second!Enter, Second!NewFrame
  <2>7. Entering(v, u)
    BY <2>2, <2>3, <2>4, <2>5, <2>6 DEF Entering
  <2> QED BY <2>2, <2>6, <2>7, SecondTypes DEF SecondInv
<1>2. CASE Second!FindCall
  <2>1. PICK v : v = root
    OBVIOUS
  <2>2. /\ pc = "dfs" /\ pc' = "dfs" /\ stack = <<>> /\ v <= Len(graph) /\ v \notin entered
        /\ UNCHANGED <<graph, bridges, articulation_points>>
        /\ Second!Enter(v, -1) /\ root' = v + 1
    BY <1>2, <2>1, SecondReads DEF Second!FindCall, Second!found
  <2>3. v \in V /\ v \in Int /\ V = 1..Len(graph) /\ Len(graph) \in Nat /\ Undirected
    BY <2>1, <2>2, SecondTypes DEF SecondInv
  <2>4. /\ entered' = entered \cup {v} /\ entry_time' = [entry_time EXCEPT ![v] = timer]
        /\ low' = [low EXCEPT ![v] = timer] /\ timer' = timer + 1
        /\ stack' = Append(stack, [u |-> v, parent |-> -1, v |-> 1, children |-> 0, is_articulation |-> FALSE])
    BY <2>2 DEF Second!Enter, Second!NewFrame
  <2>5. Len(stack) = 0
    BY <2>2
  <2>6. Entering(v, -1)
    BY <2>2, <2>3, <2>4, <2>5 DEF Entering
  <2>7. \A x \in V : x < v => x \in entered
    BY <2>1 DEF SecondInv
  <2>8. \A x \in V : x < root' => x \in entered'
    BY <2>2, <2>3, <2>4, <2>7
  <2> QED BY <2>2, <2>3, <2>6, <2>8
<1> QED BY <1>1, <1>2

(* The two calls keep the invariant.                                       *)
LEMMA EnterKeeps ==
  ASSUME SecondInv, Second!ScanCall \/ Second!FindCall
  PROVE  SecondInv'
<1>1. PICK v, p : Entering(v, p)
  BY CallEnters
<1>2. PICK n : n = Len(stack)
  OBVIOUS
<1>3. /\ root' \in 1..(Len(graph) + 1)
      /\ \A x \in V : x < root' => x \in entered'
  BY CallEnters
<1>4. /\ n \in Nat /\ Level' = n + 1 /\ Len(stack') = n + 1 /\ stack' \in Seq(Calls)
  BY <1>1, <1>2, EnterFacts
<1>5. Numbered' /\ Trailed'
  BY <1>1, <1>2, EnterTrail
<1>6. \A k \in 1..(n + 1) : Hanging(k)'
  BY <1>1, <1>2, EnterHangs
<1>7. /\ \A k \in 1..(n + 1) : Scanned(k)' /\ LowRight(k)'
      /\ \A k \in 1..(n + 1) : Framed(k)' /\ CutRight(k)'
  BY <1>1, <1>2, EnterFrames
<1>8. BridgesRight' /\ CutsRight'
  BY <1>1, EnterBridges
<1>9. SecondCore'
  BY <1>4, <1>5, <1>6, <1>7, <1>8 DEF SecondCore
<1>10. /\ Undirected /\ pc' = "dfs" /\ v \in V /\ v \notin entered /\ entered' = entered \cup {v}
       /\ timer' = timer + 1 /\ UNCHANGED <<graph, bridges, articulation_points>>
  BY <1>1 DEF Entering
<1>11. timer' = Cardinality(entered')
  <2>1. timer = Cardinality(entered)
    BY <1>10, SecondTyped
  <2>2. IsFiniteSet(entered)
    BY SecondTypes
  <2> QED BY <1>10, <2>1, <2>2, FS_AddElement
<1>12. entry_time' \in [V -> Nat] /\ low' \in [V -> Nat]
  BY <1>1, EnterTimed
<1>13. Second!TypeOK'
  <2>1. entered' \subseteq V /\ bridges' \subseteq V \X V /\ articulation_points' \in Seq(V)
    BY <1>10, SecondTypes
  <2> QED BY <1>3, <1>4, <1>10, <1>11, <1>12, <2>1, SecondTyped
<1>14. V' = V /\ Undirected' /\ graph' \in Graphs
  BY <1>10, SecondSame, SecondTypes
<1>15. \A x \in V' : x < root' => x \in entered'
  BY <1>3, <1>14
<1> QED BY <1>9, <1>10, <1>13, <1>14, <1>15 DEF SecondInv

-----------------------------------------------------------------------------
(* The call for v is over, and its caller u is about to read low of v: T   *)
(* is what was entered since v.                                            *)
Over(n, u, v, T) ==
  pc = "return" /\ n = Len(stack) /\ u = stack[n].u /\ v = stack[n].v /\ T = Since(v)

(* The caller u and the vertex v whose call has just ended; T is what has  *)
(* been entered since v.                                                   *)
LEMMA OverReads ==
  ASSUME SecondInv, NEW n, NEW u, NEW v, NEW T, Over(n, u, v, T)
  PROVE  /\ n \in Nat /\ n > 0 /\ Level = n + 1 /\ Undirected /\ stack \in Seq(Calls) /\ stack[n] \in Calls
         /\ Second!Frame = stack[n]
         /\ At(n) = u /\ At(n + 1) = v /\ Cursor(n) = v /\ Cursor(n + 1) = Len(graph) + 1
         /\ Caller(n + 1) = u /\ Caller(n) = stack[n].parent
         /\ u \in V /\ v \in V /\ u \in entered /\ v \in entered /\ v \in Near(u) /\ u \in Near(v)
         /\ entry_time[u] \in Nat /\ entry_time[v] \in Nat /\ entry_time[u] < entry_time[v] /\ u # v
         /\ T \subseteq entered /\ v \in T /\ u \notin T
<1>1. /\ pc = "return" /\ n = Len(stack) /\ u = stack[n].u /\ v = stack[n].v /\ T = Since(v)
  BY DEF Over
<1>2. n \in Nat /\ n > 0 /\ Level = n + 1 /\ Undirected
  <2>1. stack # <<>> /\ Undirected
    BY <1>1 DEF SecondInv
  <2> QED BY <1>1, <2>1, SecondTypes DEF Level
<1>3. stack \in Seq(Calls) /\ stack[n] \in Calls /\ Second!Frame = stack[n]
  <2>1. stack \in Seq(Calls)
    BY SecondTypes, SecondReads DEF Second!Frames, Calls
  <2>2. n \in 1..n
    BY <1>2
  <2> QED BY <1>1, <2>1, <2>2 DEF Second!Frame
<1>4. At(n) = u /\ At(n + 1) = v /\ Cursor(n) = v /\ Cursor(n + 1) = Len(graph) + 1
  <2>1. n <= Len(stack) /\ ~(n + 1 <= Len(stack))
    BY <1>1, <1>2
  <2> QED BY <1>1, <2>1 DEF At, Cursor
<1>5. Caller(n + 1) = u /\ Caller(n) = stack[n].parent
  <2>1. n + 1 # 1 /\ (n + 1) - 1 = n /\ n \in 1..Len(stack)
    BY <1>1, <1>2
  <2>2. Framed(n)
    BY <2>1 DEF SecondInv, SecondCore
  <2> QED BY <1>4, <2>1, <2>2 DEF Caller, Framed
<1>6. n \in 1..Level /\ n + 1 \in 1..Level /\ n \in 1..(Level - 1)
  BY <1>2
<1>7. u \in V /\ v \in V /\ u \in entered /\ v \in entered
  BY <1>4, <1>6, SecondTypes
<1>8. v \in Near(u) /\ u \in Near(v)
  <2>1. v \in Near(u)
    BY <1>4, <1>6 DEF SecondInv, SecondCore, Trailed
  <2> QED BY <1>2, <1>7, <2>1, UndirectedFacts
<1>9. entry_time[u] \in Nat /\ entry_time[v] \in Nat /\ entry_time[u] < entry_time[v]
  <2>1. entry_time[At(n)] < entry_time[At(n + 1)]
    <3>1. \A i, j \in 1..Level : i < j => entry_time[At(i)] < entry_time[At(j)]
      BY DEF SecondInv, SecondCore, Trailed
    <3>2. n < n + 1
      BY <1>2
    <3> QED BY <1>6, <3>1, <3>2
  <2>2. entry_time \in [V -> Nat]
    BY SecondTypes
  <2> QED BY <1>4, <1>7, <2>1, <2>2
<1>10. u # v
  BY <1>9
<1>11. T \subseteq entered /\ v \in T /\ u \notin T
  BY <1>1, <1>7, <1>9 DEF Since
<1> QED BY <1>2, <1>3, <1>4, <1>5, <1>7, <1>8, <1>9, <1>10, <1>11

(* T hangs together, only the trail is next to it, and low of v is the     *)
(* least number that an edge of T but that to u leads to.                  *)
LEMMA OverFacts ==
  ASSUME SecondInv, NEW n, NEW u, NEW v, NEW T, Over(n, u, v, T)
  PROVE  /\ T = Done(n + 1) \cup {v}
         /\ \A x \in T : Near(x) \subseteq entered
         /\ \A x \in T : x \in ReachableBy(Inside(T), v)
         /\ \A x \in T : entry_time[v] <= entry_time[x]
         /\ \A x \in entered : x \in T \/ entry_time[x] < entry_time[v]
         /\ \A x \in T : \A w \in Near(x) : w \in T \/ \E j \in 1..n : At(j) = w
         /\ low[v] <= entry_time[v] /\ low[v] \in Nat
         /\ \A x \in T : \A w \in Near(x) : <<x, w>> # <<v, u>> => low[v] <= entry_time[w]
         /\ \/ low[v] = entry_time[v]
            \/ \E x \in T : \E w \in Near(x) \cap entered :
                 entry_time[w] = low[v] /\ <<x, w>> # <<v, u>>
<1>1. /\ n \in Nat /\ n > 0 /\ Level = n + 1 /\ Undirected
      /\ At(n + 1) = v /\ Cursor(n + 1) = Len(graph) + 1 /\ Caller(n + 1) = u
      /\ v \in V /\ v \in entered /\ v \in T /\ T \subseteq entered
  BY OverReads
<1>2. n + 1 \in 1..Level /\ ~(n + 1 < Level)
  BY <1>1
<1>3. T = { x \in entered : entry_time[v] <= entry_time[x] }
  BY DEF Over, Since
<1>4. /\ \A x \in entered : x \in V /\ entry_time[x] \in Nat
      /\ \A x, y \in entered : entry_time[x] = entry_time[y] => x = y
      /\ low \in [V -> Nat]
  BY SecondTypes DEF SecondInv, SecondCore, Numbered
<1>5. PICK D : D = Done(n + 1)
  OBVIOUS
<1>6. D = { x \in entered : entry_time[v] < entry_time[x] }
  BY <1>1, <1>2, <1>5 DEF Done
<1>7. T = D \cup {v}
  <2>1. \A x \in entered : entry_time[v] <= entry_time[x] <=> entry_time[v] < entry_time[x] \/ x = v
    BY <1>1, <1>4
  <2> QED BY <1>1, <1>3, <1>6, <2>1
<1>8. ASSUME NEW x \in T
      PROVE  Near(x) \subseteq entered
  <2>1. CASE x = v
    <3>1. \A w \in Near(v) : w < Len(graph) + 1
      <4>1. Near(v) \subseteq V /\ V = 1..Len(graph) /\ Len(graph) \in Nat
        BY SecondTypes, GraphFacts
      <4> QED BY <4>1
    <3>2. Scanned(n + 1)
      BY <1>2 DEF SecondInv, SecondCore
    <3> QED BY <1>1, <2>1, <3>1, <3>2 DEF Scanned
  <2>2. CASE x # v
    <3>1. x \in entered /\ entry_time[v] < entry_time[x]
      BY <1>6, <1>7, <2>2
    <3>2. ASSUME NEW k \in 1..Level, At(k) = x
          PROVE  FALSE
      <4>1. \A i, j \in 1..Level : i < j => entry_time[At(i)] < entry_time[At(j)]
        BY DEF SecondInv, SecondCore, Trailed
      <4>2. k < n + 1 \/ k = n + 1
        BY <1>1
      <4>3. k # n + 1
        BY <1>1, <2>2, <3>2
      <4>4. entry_time[x] < entry_time[v]
        BY <1>1, <1>2, <3>2, <4>1, <4>2, <4>3
      <4> QED BY <1>1, <1>4, <3>1, <4>4
    <3>3. ~OnTrail(x)
      BY <3>2 DEF OnTrail
    <3> QED BY <3>1, <3>3 DEF SecondInv, SecondCore, Trailed
  <2> QED BY <2>1, <2>2
<1>9. /\ \A x \in T : \A w \in Near(x) \cap entered :
           entry_time[w] < entry_time[v] => \E j \in 1..n : At(j) = w
      /\ \A x \in T : x \in ReachableBy(Inside(T), v)
  <2>1. Hanging(n + 1)
    BY <1>2 DEF SecondInv, SecondCore
  <2>2. T = Since(At(n + 1)) /\ (n + 1) - 1 = n
    BY <1>1 DEF Over
  <2> QED BY <1>1, <2>1, <2>2 DEF Hanging
<1>10. \A x \in entered : x \in T \/ entry_time[x] < entry_time[v]
  BY <1>1, <1>3, <1>4
<1>11. \A x \in T : \A w \in Near(x) : w \in T \/ \E j \in 1..n : At(j) = w
  BY <1>8, <1>9, <1>10
<1>12. LowAt(v, u, Len(graph) + 1, D)
  <2>1. LowRight(n + 1)
    BY <1>2 DEF SecondInv, SecondCore
  <2> QED BY <1>1, <1>5, <2>1 DEF LowRight
<1>13. /\ low[v] <= entry_time[v]
       /\ \A x \in D : \A w \in Near(x) : low[v] <= entry_time[w]
       /\ \A w \in Near(v) : w < Len(graph) + 1 /\ w # u => low[v] <= entry_time[w]
       /\ \/ low[v] = entry_time[v]
          \/ \E x \in D \cup {v} : \E w \in Near(x) \cap entered :
               entry_time[w] = low[v] /\ <<x, w>> # <<v, u>>
  BY <1>12 DEF LowAt
<1>14. ASSUME NEW x \in T, NEW w \in Near(x), <<x, w>> # <<v, u>>
       PROVE  low[v] <= entry_time[w]
  <2>1. CASE x \in D
    BY <1>13, <2>1
  <2>2. CASE x = v
    <3>1. w \in V /\ w # u
      BY <1>14, <2>2, SecondTypes, GraphFacts
    <3>2. w < Len(graph) + 1
      BY <3>1, SecondTypes
    <3> QED BY <1>13, <2>2, <3>1, <3>2
  <2> QED BY <1>7, <2>1, <2>2
<1>15. \/ low[v] = entry_time[v]
       \/ \E x \in T : \E w \in Near(x) \cap entered :
            entry_time[w] = low[v] /\ <<x, w>> # <<v, u>>
  BY <1>7, <1>13
<1>16. low[v] \in Nat
  BY <1>1, <1>4
<1> QED BY <1>3, <1>5, <1>7, <1>8, <1>9, <1>10, <1>11, <1>13, <1>14, <1>15, <1>16

(* The invariant implies what low is when it is read.                      *)
LEMMA LowAsRead ==
  ASSUME SecondInv
  PROVE  Second!LowWhenRead
<1> SUFFICES ASSUME pc = "return" PROVE Second!LowWhenRead
  BY DEF Second!LowWhenRead
<1>1. PICK n, u, v, T : Over(n, u, v, T)
  <2>1. Over(Len(stack), stack[Len(stack)].u, stack[Len(stack)].v, Since(stack[Len(stack)].v))
    BY DEF Over
  <2> QED BY <2>1
<1>2. /\ n \in Nat /\ Second!Frame = stack[n] /\ v \in T /\ T \subseteq entered
      /\ u \in V /\ v \in V
      /\ n = Len(stack)
  BY <1>1, OverReads DEF Over
<1>3. Second!Frame.v = v /\ Second!Frame.u = u /\ Second!Subtree(v) = T
  <2>1. u = stack[n].u /\ v = stack[n].v /\ T = Since(v)
    BY <1>1 DEF Over
  <2>2. entry_time \in [V -> Nat] /\ entered \subseteq V
    BY SecondTypes
  <2>3. \A x \in entered : entry_time[x] >= entry_time[v] <=> entry_time[v] <= entry_time[x]
    BY <1>2, <2>2
  <2> QED BY <1>2, <2>1, <2>3 DEF Second!Subtree, Since
<1>4. /\ \A x \in T : \A w \in Near(x) : w \in T \/ \E j \in 1..n : At(j) = w
      /\ low[v] <= entry_time[v]
      /\ \A x \in T : \A w \in Near(x) : <<x, w>> # <<v, u>> => low[v] <= entry_time[w]
      /\ \/ low[v] = entry_time[v]
         \/ \E x \in T : \E w \in Near(x) \cap entered :
              entry_time[w] = low[v] /\ <<x, w>> # <<v, u>>
  BY <1>1, OverFacts
<1> DEFINE Ways == { e \in T \X Second!V : Second!is_edge(graph, e[1], e[2]) /\ e # <<v, u>> }
           Numbers == { entry_time[e[2]] : e \in Ways } \cup { entry_time[v] }
<1>5. \A x \in T : \A w : <<x, w>> \in Ways <=> w \in Near(x) /\ <<x, w>> # <<v, u>>
  <2> SUFFICES ASSUME NEW x \in T, NEW w
               PROVE  <<x, w>> \in Ways <=> w \in Near(x) /\ <<x, w>> # <<v, u>>
    OBVIOUS
  <2>1. <<x, w>> \in Ways <=> w \in V /\ graph[x][w] # 0 /\ <<x, w>> # <<v, u>>
    BY SecondReads
  <2>2. w \in Near(x) <=> w \in V /\ graph[x][w] # 0
    BY SecondTypes, GraphFacts
  <2> QED BY <2>1, <2>2
<1>6. \A e \in Ways : e[1] \in T /\ e = <<e[1], e[2]>>
  OBVIOUS
<1> HIDE DEF Ways
<1>7. low[v] \in Numbers
  <2>1. CASE low[v] = entry_time[v]
    BY <2>1
  <2>2. CASE \E x \in T : \E w \in Near(x) \cap entered :
              entry_time[w] = low[v] /\ <<x, w>> # <<v, u>>
    <3>1. PICK x \in T : \E w \in Near(x) \cap entered : entry_time[w] = low[v] /\ <<x, w>> # <<v, u>>
      BY <2>2
    <3>2. PICK w \in Near(x) : entry_time[w] = low[v] /\ <<x, w>> # <<v, u>>
      BY <3>1
    <3>3. <<x, w>> \in Ways /\ <<x, w>>[2] = w
      BY <1>5, <3>2
    <3> QED BY <3>2, <3>3
  <2> QED BY <1>4, <2>1, <2>2
<1>8. \A m \in Numbers : low[v] <= m
  <2>1. ASSUME NEW e \in Ways
        PROVE  low[v] <= entry_time[e[2]]
    BY <1>4, <1>5, <1>6
  <2> QED BY <1>4, <2>1
<1>9. \A e \in Ways : \/ e[2] \in T
                      \/ \E k \in DOMAIN stack : stack[k].u = e[2]
  <2> SUFFICES ASSUME NEW e \in Ways, e[2] \notin T
               PROVE  \E k \in DOMAIN stack : stack[k].u = e[2]
    OBVIOUS
  <2>1. PICK j \in 1..n : At(j) = e[2]
    BY <1>4, <1>5, <1>6
  <2>2. At(j) = stack[j].u /\ j \in DOMAIN stack
    BY <1>2, SecondTypes DEF At
  <2> QED BY <2>1, <2>2
<1>10. /\ low[v] \in Numbers /\ \A m \in Numbers : low[v] <= m
       /\ \A e \in Ways : \/ e[2] \in T
                          \/ \E k \in DOMAIN stack : stack[k].u = e[2]
  BY <1>7, <1>8, <1>9
<1> QED BY <1>3, <1>10 DEF Second!LowWhenRead, Ways

(* Inside T everything hangs together.                                     *)
LEMMA Together ==
  ASSUME SecondInv, NEW n, NEW u, NEW v, NEW T, Over(n, u, v, T), NEW E, Both(E), Inside(T) \subseteq E
  PROVE  \A y, z \in T : z \in ReachableBy(E, y)
<1>1. Undirected /\ v \in V /\ T \subseteq V
  BY OverReads, SecondTypes
<1>2. PICK F : F = Inside(T)
  OBVIOUS
<1>3. \A x \in T : x \in ReachableBy(F, v)
  BY <1>2, OverFacts
<1>4. ReachableBy(F, v) \subseteq ReachableBy(E, v)
  BY <1>1, <1>2, ReachMore DEF Undirected
<1>5. ASSUME NEW y \in T, NEW z \in T
      PROVE  z \in ReachableBy(E, y)
  <2>1. y \in ReachableBy(E, v) /\ z \in ReachableBy(E, v)
    BY <1>3, <1>4
  <2>2. v \in ReachableBy(E, y)
    BY <1>1, <2>1, BothReach
  <2> QED BY <1>1, <2>1, <2>2, BothReach
<1> QED BY <1>5

(* With an edge of E from T to the trail, everything in T reaches the      *)
(* trail as far as that is in E.                                           *)
LEMMA WayBack ==
  ASSUME SecondInv, NEW n, NEW u, NEW v, NEW T, Over(n, u, v, T), NEW E, Both(E), Inside(T) \subseteq E,
         NEW x \in T, NEW j \in 1..n, NEW m \in j..n, <<x, At(j)>> \in E,
         \A i \in j..(m - 1) : <<At(i), At(i + 1)>> \in E
  PROVE  \A y \in T : At(m) \in ReachableBy(E, y)
<1>1. Undirected /\ T \subseteq V /\ n \in Nat /\ Level = n + 1
  BY OverReads, SecondTypes
<1>2. j \in 1..Level /\ m \in 1..Level /\ j <= m
  BY <1>1
<1>3. At(m) \in ReachableBy(E, At(j))
  BY <1>1, <1>2, TrailLeads
<1>4. ASSUME NEW y \in T
      PROVE  At(m) \in ReachableBy(E, y)
  <2>1. x \in ReachableBy(E, y)
    BY Together
  <2>2. At(j) \in V
    BY <1>2, SecondTypes
  <2>3. At(j) \in ReachableBy(E, y)
    BY <1>1, <2>1, <2>2, BothReach
  <2> QED BY <1>1, <1>3, <2>3, BothReach
<1> QED BY <1>4

(* An edge of the trail and the numbers of its ends.                       *)
LEMMA TrailEdge ==
  ASSUME SecondInv, Undirected, NEW i \in 1..(Level - 1)
  PROVE  /\ i \in 1..Level /\ i + 1 \in 1..Level
         /\ <<At(i), At(i + 1)>> \in Edges /\ At(i) \in V /\ At(i + 1) \in V
         /\ entry_time[At(i)] < entry_time[At(i + 1)]
         /\ entry_time[At(i)] \in Nat /\ entry_time[At(i + 1)] \in Nat
<1>1. i \in 1..Level /\ i + 1 \in 1..Level /\ i < i + 1
  BY SecondTypes
<1>2. At(i) \in V /\ At(i + 1) \in V /\ entry_time \in [V -> Nat]
  BY <1>1, SecondTypes
<1>3. At(i + 1) \in Near(At(i)) /\ \A j, k \in 1..Level : j < k => entry_time[At(j)] < entry_time[At(k)]
  BY DEF SecondInv, SecondCore, Trailed
<1>4. <<At(i), At(i + 1)>> \in Edges
  BY <1>2, <1>3, UndirectedFacts
<1> QED BY <1>1, <1>2, <1>3, <1>4

(* The order of the trail is that of the numbers.                          *)
LEMMA TrailOrder ==
  ASSUME SecondInv
  PROVE  /\ \A i, j \in 1..Level : i < j <=> entry_time[At(i)] < entry_time[At(j)]
         /\ \A i \in 1..Level : entry_time[At(i)] \in Nat
<1>1. /\ \A i, j \in 1..Level : i < j => entry_time[At(i)] < entry_time[At(j)]
      /\ \A i \in 1..Level : At(i) \in V
      /\ entry_time \in [V -> Nat] /\ Level \in Nat
  BY SecondTypes DEF SecondInv, SecondCore, Trailed
<1>2. \A i \in 1..Level : entry_time[At(i)] \in Nat
  BY <1>1
<1>3. ASSUME NEW i \in 1..Level, NEW j \in 1..Level, entry_time[At(i)] < entry_time[At(j)]
      PROVE  i < j
  <2>1. CASE i = j
    BY <1>2, <1>3, <2>1
  <2>2. CASE j < i
    <3>1. entry_time[At(j)] < entry_time[At(i)]
      BY <1>1, <2>2
    <3> QED BY <1>2, <1>3, <3>1
  <2> QED BY <1>1, <2>1, <2>2
<1> QED BY <1>1, <1>2, <1>3

(* The edge to v is a bridge exactly if low of v is greater than the       *)
(* number of u.                                                            *)
LEMMA OverBridge ==
  ASSUME SecondInv, NEW n, NEW u, NEW v, NEW T, Over(n, u, v, T)
  PROVE  low[v] > entry_time[u] <=> Bridge(u, v)
<1>1. /\ n \in Nat /\ n > 0 /\ Level = n + 1 /\ Undirected /\ graph \in Graphs
      /\ At(n) = u /\ At(n + 1) = v
      /\ u \in V /\ v \in V /\ v \in T /\ u \notin T /\ T \subseteq entered /\ entered \subseteq V
      /\ entry_time[u] \in Nat /\ entry_time[v] \in Nat /\ entry_time[u] < entry_time[v]
  BY OverReads, SecondTypes
<1>2. /\ \A x \in T : Near(x) \subseteq entered
      /\ \A x \in T : entry_time[v] <= entry_time[x]
      /\ \A x \in T : \A w \in Near(x) : w \in T \/ \E j \in 1..n : At(j) = w
      /\ low[v] <= entry_time[v] /\ low[v] \in Nat
  BY OverFacts
<1>3. /\ \A x \in T : \A w \in Near(x) : <<x, w>> # <<v, u>> => low[v] <= entry_time[w]
      /\ \/ low[v] = entry_time[v]
         \/ \E x \in T : \E w \in Near(x) \cap entered :
              entry_time[w] = low[v] /\ <<x, w>> # <<v, u>>
  BY OverFacts
<1>4. PICK E : E = But(u, v)
  OBVIOUS
<1>5. Both(E) /\ \A a, b : <<a, b>> \in E <=> <<a, b>> \in Edges /\ <<a, b>> # <<u, v>> /\ <<a, b>> # <<v, u>>
  BY <1>1, <1>4, PartsBoth, PartFacts
<1>6. Bridge(u, v) <=> u \notin ReachableBy(E, v)
  <2>1. Bridge(u, v) <=> v \notin ReachableBy(E, u)
    BY <1>4 DEF Bridge
  <2> QED BY <1>1, <1>5, <2>1, BothReach
<1>7. \A j \in 1..n : j \in 1..Level /\ entry_time[At(j)] \in Nat /\ entry_time[At(j)] <= entry_time[u]
  <2> SUFFICES ASSUME NEW j \in 1..n
               PROVE  j \in 1..Level /\ entry_time[At(j)] \in Nat /\ entry_time[At(j)] <= entry_time[u]
    OBVIOUS
  <2>1. j \in 1..Level /\ n \in 1..Level
    BY <1>1
  <2>2. entry_time[At(j)] \in Nat /\ (j < n => entry_time[At(j)] < entry_time[At(n)])
    BY <2>1, TrailOrder
  <2>3. j < n \/ j = n
    BY <1>1
  <2> QED BY <1>1, <2>1, <2>2, <2>3
<1>8. ASSUME low[v] > entry_time[u]
      PROVE  u \notin ReachableBy(E, v)
  <2>1. ASSUME NEW x \in T, NEW y \in V, <<x, y>> \in E
        PROVE  y \in T
    <3>1. y \in Near(x) /\ <<x, y>> # <<v, u>>
      BY <1>1, <1>5, <2>1, UndirectedFacts
    <3>2. low[v] <= entry_time[y]
      BY <1>3, <3>1
    <3>3. ASSUME NEW j \in 1..n, At(j) = y
          PROVE  FALSE
      BY <1>1, <1>2, <1>7, <1>8, <3>2, <3>3
    <3> QED BY <1>2, <3>1, <3>3
  <2>2. ReachableBy(E, v) \subseteq T
    BY <1>1, <2>1, ReachWithin
  <2> QED BY <1>1, <2>2
<1>9. ASSUME ~(low[v] > entry_time[u])
      PROVE  u \in ReachableBy(E, v)
  <2>1. low[v] <= entry_time[u] /\ low[v] # entry_time[v]
    BY <1>1, <1>2, <1>9
  <2>2. PICK x \in T : \E w \in Near(x) \cap entered : entry_time[w] = low[v] /\ <<x, w>> # <<v, u>>
    BY <1>3, <2>1
  <2>3. PICK w \in Near(x) : entry_time[w] = low[v] /\ <<x, w>> # <<v, u>>
    BY <2>2
  <2>4. w \notin T
    BY <1>1, <1>2, <2>1, <2>3
  <2>5. PICK j \in 1..n : At(j) = w
    BY <1>2, <2>4
  <2>6. Inside(T) \subseteq E
    <3>1. ASSUME NEW e \in Inside(T)
          PROVE  e \in E
      <4>1. e \in Edges /\ e[1] \in T /\ e[2] \in T
        BY <3>1 DEF Inside
      <4>2. e = <<e[1], e[2]>>
        BY <1>1, <4>1, PartFacts
      <4>3. <<e[1], e[2]>> # <<u, v>> /\ <<e[1], e[2]>> # <<v, u>>
        BY <1>1, <4>1
      <4>4. <<e[1], e[2]>> \in Edges
        BY <4>1, <4>2
      <4>5. <<e[1], e[2]>> \in E
        BY <1>5, <4>3, <4>4
      <4> QED BY <4>2, <4>5
    <3> QED BY <3>1
  <2>7. <<x, At(j)>> \in E
    <3>1. <<x, w>> \in Edges /\ <<x, w>> # <<u, v>>
      BY <1>1, <2>3, UndirectedFacts
    <3> QED BY <1>5, <2>3, <2>5, <3>1
  <2>8. \A i \in j..(n - 1) : <<At(i), At(i + 1)>> \in E
    <3> SUFFICES ASSUME NEW i \in j..(n - 1) PROVE <<At(i), At(i + 1)>> \in E
      OBVIOUS
    <3>1. i \in 1..(Level - 1) /\ i \in 1..n /\ i + 1 \in 1..n
      BY <1>1
    <3>2. <<At(i), At(i + 1)>> \in Edges
      BY <1>1, <3>1, TrailEdge
    <3>3. At(i) # v /\ At(i + 1) # v
      BY <1>1, <1>7, <3>1
    <3> QED BY <1>5, <3>2, <3>3
  <2>9. n \in j..n
    BY <1>1
  <2> QED BY <1>1, <1>5, <2>6, <2>7, <2>8, <2>9, WayBack
<1> QED BY <1>6, <1>8, <1>9

(* Without u, T reaches the caller of u exactly if low of v is less than   *)
(* the number of u.                                                        *)
LEMMA OverCut ==
  ASSUME SecondInv, NEW n, NEW u, NEW v, NEW T, Over(n, u, v, T)
  PROVE  /\ n > 1 /\ low[v] >= entry_time[u] => CutVertex(u)
         /\ n > 1 /\ ~(low[v] >= entry_time[u]) => \A x \in T : At(n - 1) \in Around(u, x)
         /\ \A x, y \in T : y \in Around(u, x)
         /\ n = 1 => \A x \in T : \A y : y \notin T => y \notin Around(u, x)
<1>1. /\ n \in Nat /\ n > 0 /\ Level = n + 1 /\ Undirected /\ graph \in Graphs
      /\ At(n) = u /\ At(n + 1) = v
      /\ u \in V /\ v \in V /\ v \in T /\ u \notin T /\ T \subseteq entered /\ entered \subseteq V
      /\ entry_time[u] \in Nat /\ entry_time[v] \in Nat /\ entry_time[u] < entry_time[v]
      /\ v \in Near(u)
  BY OverReads, SecondTypes
<1>2. /\ \A x \in T : entry_time[v] <= entry_time[x]
      /\ \A x \in T : \A w \in Near(x) : w \in T \/ \E j \in 1..n : At(j) = w
      /\ low[v] <= entry_time[v] /\ low[v] \in Nat
  BY OverFacts
<1>3. /\ \A x \in T : \A w \in Near(x) : <<x, w>> # <<v, u>> => low[v] <= entry_time[w]
      /\ \/ low[v] = entry_time[v]
         \/ \E x \in T : \E w \in Near(x) \cap entered :
              entry_time[w] = low[v] /\ <<x, w>> # <<v, u>>
  BY OverFacts
<1>4. PICK E : E = Without(u)
  OBVIOUS
<1>5. Both(E) /\ \A a, b : <<a, b>> \in E <=> <<a, b>> \in Edges /\ a # u /\ b # u
  BY <1>1, <1>4, PartsBoth, PartFacts
<1>6. \A x : Around(u, x) = ReachableBy(E, x)
  BY <1>4 DEF Around
<1>7. \A j \in 1..n : /\ j \in 1..Level /\ entry_time[At(j)] \in Nat
                      /\ j < n <=> entry_time[At(j)] < entry_time[u]
                      /\ j < n <=> At(j) # u
  <2> SUFFICES ASSUME NEW j \in 1..n
               PROVE  /\ j \in 1..Level /\ entry_time[At(j)] \in Nat
                      /\ j < n <=> entry_time[At(j)] < entry_time[u]
                      /\ j < n <=> At(j) # u
    OBVIOUS
  <2>1. j \in 1..Level /\ n \in 1..Level
    BY <1>1
  <2>2. entry_time[At(j)] \in Nat /\ (j < n <=> entry_time[At(j)] < entry_time[At(n)])
    BY <2>1, TrailOrder
  <2>3. j < n \/ j = n
    BY <1>1
  <2>4. j < n => At(j) # u
    BY <1>1, <2>2
  <2>5. j = n => At(j) = u /\ ~(j < n)
    BY <1>1
  <2> QED BY <1>1, <2>1, <2>2, <2>3, <2>4, <2>5
<1>8. Inside(T) \subseteq E
  <2>1. ASSUME NEW e \in Inside(T)
        PROVE  e \in E
    <3>1. e \in Edges /\ e[1] \in T /\ e[2] \in T
      BY <2>1 DEF Inside
    <3>2. e = <<e[1], e[2]>>
      BY <1>1, <3>1, PartFacts
    <3>3. <<e[1], e[2]>> \in Edges /\ e[1] # u /\ e[2] # u
      BY <1>1, <3>1, <3>2
    <3>4. <<e[1], e[2]>> \in E
      BY <1>5, <3>3
    <3> QED BY <3>2, <3>4
  <2> QED BY <2>1
<1>9. \A x, y \in T : y \in ReachableBy(E, x)
  BY <1>5, <1>8, Together
<1>10. ASSUME n = 1 \/ low[v] >= entry_time[u], NEW x \in T
       PROVE  ReachableBy(E, x) \subseteq T
  <2>1. ASSUME NEW y \in T, NEW z \in V, <<y, z>> \in E
        PROVE  z \in T
    <3>1. z \in Near(y) /\ z # u
      BY <1>1, <1>5, <2>1, UndirectedFacts
    <3>2. ASSUME NEW j \in 1..n, At(j) = z
          PROVE  FALSE
      <4>1. j < n /\ entry_time[z] < entry_time[u] /\ entry_time[z] \in Nat
        BY <1>7, <3>1, <3>2
      <4>2. n # 1
        BY <1>1, <4>1
      <4>3. <<y, z>> # <<v, u>>
        BY <3>1
      <4>4. low[v] <= entry_time[z]
        BY <1>3, <3>1, <4>3
      <4> QED BY <1>1, <1>2, <1>10, <4>1, <4>2, <4>4
    <3> QED BY <1>2, <3>1, <3>2
  <2>2. x \in V
    BY <1>1
  <2> QED BY <1>1, <2>1, <2>2, ReachWithin
<1>11. ASSUME n > 1, low[v] >= entry_time[u]
       PROVE  CutVertex(u)
  <2>1. PICK p : p = At(n - 1)
    OBVIOUS
  <2>2. n - 1 \in 1..(Level - 1) /\ (n - 1) + 1 = n /\ n - 1 \in 1..n /\ n - 1 < n
    BY <1>1, <1>11
  <2>3. <<p, u>> \in Edges /\ p \in V
    BY <1>1, <2>1, <2>2, TrailEdge
  <2>4. p \in Near(u) /\ p # u
    BY <1>1, <1>7, <2>1, <2>2, <2>3, UndirectedFacts
  <2>5. p \notin T
    BY <1>1, <1>2, <1>7, <2>1, <2>2
  <2>6. p \notin Around(u, v)
    BY <1>1, <1>6, <1>10, <1>11, <2>5
  <2>7. v \in Near(u) \ {u} /\ p \in Near(u) \ {u}
    BY <1>1, <2>4
  <2> QED BY <2>6, <2>7 DEF CutVertex
<1>12. ASSUME n > 1, ~(low[v] >= entry_time[u])
       PROVE  \A x \in T : At(n - 1) \in ReachableBy(E, x)
  <2>1. low[v] < entry_time[u] /\ low[v] # entry_time[v]
    BY <1>1, <1>2, <1>12
  <2>2. PICK x \in T : \E w \in Near(x) \cap entered : entry_time[w] = low[v] /\ <<x, w>> # <<v, u>>
    BY <1>3, <2>1
  <2>3. PICK w \in Near(x) : entry_time[w] = low[v] /\ <<x, w>> # <<v, u>>
    BY <2>2
  <2>4. w \notin T
    BY <1>1, <1>2, <2>1, <2>3
  <2>5. PICK j \in 1..n : At(j) = w
    BY <1>2, <2>4
  <2>6. j < n /\ n - 1 \in j..n /\ n - 1 \in Int
    BY <1>1, <1>7, <2>1, <2>3, <2>5
  <2>7. <<x, At(j)>> \in E
    <3>1. <<x, w>> \in Edges /\ x # u /\ w # u
      BY <1>1, <1>7, <2>3, <2>5, <2>6, UndirectedFacts
    <3> QED BY <1>5, <2>5, <3>1
  <2>8. \A i \in j..((n - 1) - 1) : <<At(i), At(i + 1)>> \in E
    <3> SUFFICES ASSUME NEW i \in j..((n - 1) - 1) PROVE <<At(i), At(i + 1)>> \in E
      OBVIOUS
    <3>1. i \in 1..(Level - 1) /\ i \in 1..n /\ i + 1 \in 1..n /\ i < n /\ i + 1 < n
      BY <1>1
    <3>2. <<At(i), At(i + 1)>> \in Edges
      BY <1>1, <3>1, TrailEdge
    <3>3. At(i) # u /\ At(i + 1) # u
      BY <1>7, <3>1
    <3> QED BY <1>5, <3>2, <3>3
  <2>9. PICK m : m = n - 1
    OBVIOUS
  <2>10. m \in j..n /\ \A i \in j..(m - 1) : <<At(i), At(i + 1)>> \in E
    BY <2>6, <2>8, <2>9
  <2>11. \A y \in T : At(m) \in ReachableBy(E, y)
    BY <1>5, <1>8, <2>7, <2>10, WayBack
  <2> QED BY <2>9, <2>11
<1>13. n = 1 => \A x \in T : \A y : y \notin T => y \notin Around(u, x)
  BY <1>6, <1>10
<1> QED BY <1>6, <1>9, <1>11, <1>12, <1>13

(* The frame of the caller when it has read low.                           *)
Read(f, l, t) ==
  [u |-> f.u, parent |-> f.parent, v |-> f.v + 1, children |-> f.children + 1,
   is_articulation |-> (f.is_articulation \/ (l >= t /\ f.parent # -1))]

(* The code after a recursive call.                                        *)
LEMMA ReturnReads ==
  ASSUME SecondInv, NEW n, NEW u, NEW v, NEW T, Over(n, u, v, T), Second!Return
  PROVE  /\ pc' = "dfs"
         /\ UNCHANGED <<graph, entered, entry_time, timer, articulation_points, root>>
         /\ low' = [low EXCEPT ![u] = Second!Smaller(low[u], low[v])]
         /\ bridges' = bridges \cup IF low[v] > entry_time[u]
                                    THEN { IF u < v THEN <<u, v>> ELSE <<v, u>> } ELSE {}
         /\ stack' \in Seq(Calls) /\ Len(stack') = n
         /\ stack'[n] = Read(stack[n], low[v], entry_time[u])
         /\ \A k \in 1..n : k # n => stack'[k] = stack[k]
<1>1. /\ n \in Nat /\ n > 0 /\ stack \in Seq(Calls) /\ stack[n] \in Calls /\ Second!Frame = stack[n]
      /\ n = Len(stack) /\ u = stack[n].u /\ v = stack[n].v /\ u \in V /\ v \in V /\ u # v
  BY OverReads DEF Over
<1>2. /\ pc' = "dfs"
      /\ UNCHANGED <<graph, entered, entry_time, timer, articulation_points, root>>
      /\ low' = [low EXCEPT ![u] = Second!Smaller(low[u], low[v])]
      /\ bridges' = bridges \cup
           IF low[v] > entry_time[u]
           THEN { <<Second!Smaller(u, v), IF u < v THEN v ELSE u>> } ELSE {}
      /\ stack' = Second!Updated([Second!Frame EXCEPT !.v = @ + 1,
                                    !.children = @ + 1,
                                    !.is_articulation = @ \/ Second!Separates(Second!Frame)])
  BY <1>1 DEF Second!Return, Second!IsBridge
<1>3. Second!Separates(stack[n]) <=> low[v] >= entry_time[u] /\ stack[n].parent # -1
  BY <1>1, SecondReads DEF Second!Separates
<1>4. PICK f : f = [stack[n] EXCEPT !.v = @ + 1, !.children = @ + 1,
                                    !.is_articulation = @ \/ Second!Separates(stack[n])]
  OBVIOUS
<1>5. f = Read(stack[n], low[v], entry_time[u])
  <2>1. stack[n] = [u |-> stack[n].u, parent |-> stack[n].parent, v |-> stack[n].v,
                    children |-> stack[n].children, is_articulation |-> stack[n].is_articulation]
    BY <1>1 DEF Calls
  <2>2. PICK b : b = (stack[n].is_articulation \/ Second!Separates(stack[n]))
    OBVIOUS
  <2>3. b = (stack[n].is_articulation \/ (low[v] >= entry_time[u] /\ stack[n].parent # -1))
    BY <1>3, <2>2
  <2>4. f = [stack[n] EXCEPT !.v = @ + 1, !.children = @ + 1, !.is_articulation = b]
    BY <1>4, <2>2
  <2> QED BY <2>1, <2>3, <2>4 DEF Read
<1>6. f \in Calls
  <2>1. stack[n].v + 1 \in 1..(Len(graph) + 1)
    <3>1. v \in 1..Len(graph) /\ Len(graph) \in Nat
      BY <1>1, SecondTypes
    <3>2. v + 1 \in 1..(Len(graph) + 1)
      BY <3>1
    <3> QED BY <1>1, <3>2
  <2>2. stack[n].children + 1 \in 0..Len(graph)
    <3>1. n \in 1..Len(stack)
      BY <1>1
    <3>2. stack[n].children < stack[n].v
      BY <3>1 DEF SecondInv, SecondCore, Framed
    <3>3. stack[n].children \in 0..Len(graph) /\ v \in 1..Len(graph) /\ Len(graph) \in Nat
      BY <1>1, <3>1, SecondTypes
    <3> QED BY <1>1, <3>2, <3>3
  <2>3. (stack[n].is_articulation \/ (low[v] >= entry_time[u] /\ stack[n].parent # -1)) \in BOOLEAN
    OBVIOUS
  <2> QED BY <1>1, <1>5, <2>1, <2>2, <2>3 DEF Read, Calls
<1>7. stack' = [stack EXCEPT ![n] = f]
  BY <1>1, <1>2, <1>4 DEF Second!Updated
<1>8. stack' \in Seq(Calls) /\ Len(stack') = n /\ stack'[n] = f
      /\ \A k \in 1..n : k # n => stack'[k] = stack[k]
  BY <1>1, <1>6, <1>7
<1>9. <<Second!Smaller(u, v), IF u < v THEN v ELSE u>> = IF u < v THEN <<u, v>> ELSE <<v, u>>
  BY DEF Second!Smaller
<1> QED BY <1>2, <1>5, <1>8, <1>9

(* The trail without v.                                                    *)
LEMMA ReturnTrail ==
  ASSUME SecondInv, NEW n, NEW u, NEW v, NEW T, Over(n, u, v, T), Second!Return
  PROVE  /\ Level' = n
         /\ \A k \in 1..n : At(k)' = At(k) /\ Caller(k)' = Caller(k)
         /\ \A k \in 1..n : k # n => Cursor(k)' = Cursor(k)
         /\ Cursor(n)' = v + 1
         /\ \A k \in 1..n : k # n => Done(k)' = Done(k)
         /\ Done(n)' = Done(n) \cup T
         /\ Numbered' /\ Trailed' /\ \A k \in 1..n : Hanging(k)'
<1>1. /\ n \in Nat /\ n > 0 /\ Level = n + 1 /\ At(n) = u /\ At(n + 1) = v
      /\ entry_time[u] \in Nat /\ entry_time[v] \in Nat /\ entry_time[u] < entry_time[v]
      /\ u \in entered /\ v \in entered /\ u \in V /\ v \in V /\ T \subseteq entered /\ v \in T
      /\ u = stack[n].u /\ v = stack[n].v /\ n = Len(stack)
  BY OverReads DEF Over
<1>2. /\ pc' = "dfs"
      /\ UNCHANGED <<graph, entered, entry_time, timer>>
      /\ stack' \in Seq(Calls) /\ Len(stack') = n
      /\ \A k \in 1..n : k # n => stack'[k] = stack[k]
  BY ReturnReads
<1>3. stack'[n].u = u /\ stack'[n].v = v + 1
  <2>1. stack'[n] = Read(stack[n], low[v], entry_time[u])
    BY ReturnReads
  <2> QED BY <1>1, <2>1 DEF Read
<1>4. Level' = n
  BY <1>1, <1>2 DEF Level
<1>5. ASSUME NEW k \in 1..n
      PROVE  At(k)' = At(k) /\ (k # n => Cursor(k)' = Cursor(k))
  <2>1. k <= Len(stack) /\ k <= Len(stack')
    BY <1>1, <1>2
  <2>2. CASE k = n
    BY <1>1, <1>3, <2>1, <2>2 DEF At
  <2>3. CASE k # n
    BY <1>2, <2>1, <2>3 DEF At, Cursor
  <2> QED BY <2>2, <2>3
<1>6. Cursor(n)' = v + 1
  <2>1. n <= Len(stack')
    BY <1>1, <1>2
  <2> QED BY <1>3, <2>1 DEF Cursor
<1>7. ASSUME NEW k \in 1..n
      PROVE  Caller(k)' = Caller(k)
  <2>1. CASE k = 1
    BY <2>1 DEF Caller
  <2>2. CASE k # 1
    <3>1. k - 1 \in 1..n
      BY <1>1, <2>2
    <3> QED BY <1>5, <2>2, <3>1 DEF Caller
  <2> QED BY <2>1, <2>2
<1>8. /\ Level' \in Nat /\ Level' <= Level /\ Level' # Level
      /\ \A k \in 1..Level' : At(k)' = At(k)
  BY <1>1, <1>4, <1>5
<1>9. /\ Numbered' /\ \A k \in 1..Level' : Hanging(k)' /\ At(k)' \in entered'
      /\ \A j, k \in 1..Level' : j < k => entry_time'[At(j)'] < entry_time'[At(k)']
      /\ \A k \in 1..(Level' - 1) : At(k + 1)' \in Near(At(k))'
  BY <1>2, <1>8, TrailShrinks
<1>10. \A k \in 1..Level' : Done(k)' = IF k < Level' \/ Level' = Level THEN Done(k)
                                       ELSE Since(At(k)) \ {At(k)}
  BY <1>2, <1>8, TrailShrinks
<1>11. \A k \in 1..n : k # n => Done(k)' = Done(k)
  <2> SUFFICES ASSUME NEW k \in 1..n, k # n PROVE Done(k)' = Done(k)
    OBVIOUS
  <2>1. k \in 1..Level' /\ k < Level'
    BY <1>1, <1>4
  <2> QED BY <1>10, <2>1
<1>12. Done(n)' = Done(n) \cup T
  <2>1. n \in 1..Level' /\ ~(n < Level') /\ n < Level
    BY <1>1, <1>4
  <2>2. Done(n)' = Since(u) \ {u}
    BY <1>1, <1>8, <1>10, <2>1
  <2>3. Done(n) = { x \in entered : entry_time[u] < entry_time[x] /\ entry_time[x] < entry_time[v] }
    BY <1>1, <2>1 DEF Done
  <2>4. /\ \A x \in entered : entry_time[x] \in Nat
        /\ \A x, y \in entered : entry_time[x] = entry_time[y] => x = y
    BY SecondTypes DEF SecondInv, SecondCore, Numbered
  <2>5. T = { x \in entered : entry_time[v] <= entry_time[x] }
    BY DEF Over, Since
  <2>6. Since(u) = { x \in entered : entry_time[u] <= entry_time[x] }
    BY DEF Since
  <2>7. ASSUME NEW x \in entered
        PROVE  (entry_time[u] <= entry_time[x] /\ x # u) <=>
                 \/ entry_time[u] < entry_time[x] /\ entry_time[x] < entry_time[v]
                 \/ entry_time[v] <= entry_time[x]
    <3>1. entry_time[x] \in Nat /\ (x # u => entry_time[x] # entry_time[u])
      BY <1>1, <2>4
    <3> QED BY <1>1, <3>1
  <2> QED BY <2>2, <2>3, <2>5, <2>6, <2>7
<1>13. ASSUME NEW x \in entered
       PROVE  OnTrail(x)' \/ Near(x) \subseteq entered
  <2>1. CASE x = v
    BY <1>1, <2>1, OverFacts
  <2>2. CASE x # v /\ OnTrail(x)
    <3>1. PICK k \in 1..(n + 1) : At(k) = x
      BY <1>1, <2>2 DEF OnTrail
    <3>2. k \in 1..n
      BY <1>1, <2>2, <3>1
    <3>3. k \in 1..Level' /\ At(k)' = x
      BY <1>4, <1>5, <3>1, <3>2
    <3> QED BY <3>3 DEF OnTrail
  <2>3. CASE ~OnTrail(x)
    BY <2>3 DEF SecondInv, SecondCore, Trailed
  <2> QED BY <2>1, <2>2, <2>3
<1>14. Trailed'
  <2>1. \A x \in entered' : OnTrail(x)' \/ Near(x)' \subseteq entered'
    BY <1>2, <1>13, SecondSame
  <2> QED BY <1>9, <2>1 DEF Trailed
<1>15. \A k \in 1..n : Hanging(k)'
  BY <1>4, <1>9
<1> QED BY <1>4, <1>5, <1>6, <1>7, <1>9, <1>11, <1>12, <1>14, <1>15

(* low of u takes in low of v, and so all that T has edges to.             *)
LEMMA ReturnLow ==
  ASSUME SecondInv, NEW n, NEW u, NEW v, NEW T, Over(n, u, v, T), Second!Return
  PROVE  /\ low' \in [V -> Nat]
         /\ \A k \in 1..n : Scanned(k)' /\ LowRight(k)'
<1>1. /\ n \in Nat /\ n > 0 /\ Level = n + 1 /\ At(n) = u /\ Cursor(n) = v /\ At(n + 1) = v
      /\ u \in V /\ v \in V /\ u \in entered /\ v \in entered /\ v \in Near(u)
      /\ entry_time[u] \in Nat /\ entry_time[v] \in Nat /\ entry_time[u] < entry_time[v]
      /\ T \subseteq entered /\ u \notin T /\ v \in T /\ Undirected
  BY OverReads
<1>2. /\ low' = [low EXCEPT ![u] = Second!Smaller(low[u], low[v])]
      /\ UNCHANGED <<graph, entered, entry_time>>
  BY ReturnReads
<1>3. /\ \A k \in 1..n : At(k)' = At(k) /\ Caller(k)' = Caller(k)
      /\ \A k \in 1..n : k # n => Cursor(k)' = Cursor(k)
      /\ Cursor(n)' = v + 1
      /\ \A k \in 1..n : k # n => Done(k)' = Done(k)
      /\ Done(n)' = Done(n) \cup T
  BY ReturnTrail
<1>4. /\ low \in [V -> Nat] /\ entry_time \in [V -> Nat] /\ entered \subseteq V
      /\ \A x : Near(x) \subseteq V
      /\ V \subseteq Int
  BY SecondTypes, GraphFacts
<1>5. \A x : Near(x)' = Near(x)
  BY <1>2, SecondSame
<1>6. PICK a, b, l : a = low[u] /\ b = low[v] /\ l = Second!Smaller(a, b)
  OBVIOUS
<1>7. a \in Nat /\ b \in Nat /\ l \in Nat /\ l <= a /\ l <= b /\ (l = a \/ l = b)
  <2>1. a \in Nat /\ b \in Nat
    BY <1>1, <1>4, <1>6
  <2> QED BY <1>6, <2>1 DEF Second!Smaller
<1>8. low' \in [V -> Nat] /\ low'[u] = l /\ \A x \in V : x # u => low'[x] = low[x]
  BY <1>1, <1>2, <1>4, <1>6, <1>7
<1>9. ASSUME NEW k \in 1..n, k # n
      PROVE  Scanned(k)' /\ LowRight(k)'
  <2>1. k \in 1..Level /\ n \in 1..Level /\ k < n
    BY <1>1, <1>9
  <2>2. At(k) # u /\ At(k) \in V
    <3>1. entry_time[At(k)] < entry_time[u] /\ entry_time[At(k)] \in Nat
      BY <1>1, <2>1, TrailOrder
    <3> QED BY <1>1, <2>1, <3>1, SecondTypes
  <2>3. low'[At(k)] = low[At(k)]
    BY <1>8, <2>2
  <2> QED BY <1>2, <1>3, <1>9, <2>1, <2>3, FrameKept
<1>10. n \in 1..Level
  BY <1>1
<1>11. Scanned(n)'
  <2>1. \A w \in Near(u) : w < v => w \in entered
    BY <1>1, <1>10 DEF SecondInv, SecondCore, Scanned
  <2>2. \A w \in Near(u) : w < v + 1 => w \in entered
    <3> SUFFICES ASSUME NEW w \in Near(u), w < v + 1 PROVE w \in entered
      OBVIOUS
    <3>1. w \in Int /\ v \in Int
      BY <1>1, <1>4
    <3>2. w < v \/ w = v
      BY <3>1
    <3> QED BY <1>1, <2>1, <3>2
  <2>3. At(n)' = u /\ Near(u)' = Near(u)
    BY <1>1, <1>3, <1>5
  <2> QED BY <1>2, <1>3, <2>2, <2>3 DEF Scanned
<1>12. PICK p, D, G : p = Caller(n) /\ D = Done(n) /\ G = D \cup T
  OBVIOUS
<1>13. /\ low[u] <= entry_time[u]
       /\ \A x \in D : \A w \in Near(x) : low[u] <= entry_time[w]
       /\ \A w \in Near(u) : w < v /\ w # p => low[u] <= entry_time[w]
       /\ \/ low[u] = entry_time[u]
          \/ \E x \in D \cup {u} : \E w \in Near(x) \cap entered :
               entry_time[w] = low[u] /\ <<x, w>> # <<u, p>>
  <2>1. LowRight(n)
    BY <1>10 DEF SecondInv, SecondCore
  <2>2. LowAt(u, p, v, D)
    BY <1>1, <1>12, <2>1 DEF LowRight
  <2> QED BY <2>2 DEF LowAt
<1>14. /\ low[v] <= entry_time[v]
       /\ \A x \in T : \A w \in Near(x) : <<x, w>> # <<v, u>> => low[v] <= entry_time[w]
       /\ \/ low[v] = entry_time[v]
          \/ \E x \in T : \E w \in Near(x) \cap entered :
               entry_time[w] = low[v] /\ <<x, w>> # <<v, u>>
  BY OverFacts
<1>15. \A w \in V : /\ a <= entry_time[w] => l <= entry_time[w]
                    /\ b <= entry_time[w] => l <= entry_time[w]
  <2> SUFFICES ASSUME NEW w \in V
               PROVE  /\ a <= entry_time[w] => l <= entry_time[w]
                      /\ b <= entry_time[w] => l <= entry_time[w]
    OBVIOUS
  <2>1. entry_time[w] \in Nat
    BY <1>4
  <2> QED BY <1>7, <2>1
<1>16. l <= entry_time[u]
  BY <1>1, <1>6, <1>13, <1>15
<1>17. ASSUME NEW x \in G, NEW w \in Near(x)
       PROVE  l <= entry_time[w]
  <2>1. w \in V
    BY <1>4
  <2>2. CASE x \in D
    BY <1>6, <1>13, <1>15, <2>1, <2>2
  <2>3. CASE x \in T /\ <<x, w>> # <<v, u>>
    BY <1>6, <1>14, <1>15, <2>1, <2>3
  <2>4. CASE <<x, w>> = <<v, u>>
    BY <1>16, <2>4
  <2> QED BY <1>12, <2>2, <2>3, <2>4
<1>18. ASSUME NEW w \in Near(u), w < v + 1, w # p
       PROVE  l <= entry_time[w]
  <2>1. w \in V /\ w \in Int /\ v \in Int
    BY <1>1, <1>4
  <2>2. CASE w = v
    BY <1>1, <1>6, <1>14, <1>15, <2>2
  <2>3. CASE w # v
    <3>1. w < v
      BY <1>18, <2>1, <2>3
    <3> QED BY <1>6, <1>13, <1>15, <1>18, <2>1, <3>1
  <2> QED BY <2>2, <2>3
<1>19. v # p
  <2>1. CASE n = 1
    <3>1. p = -1
      BY <1>12, <2>1 DEF Caller
    <3>2. v \in 1..Len(graph) /\ Len(graph) \in Nat
      BY <1>1, SecondTypes
    <3> QED BY <3>1, <3>2
  <2>2. CASE n # 1
    <3>1. p = At(n - 1) /\ n - 1 \in 1..Level /\ n \in 1..Level /\ n - 1 < n
      BY <1>1, <1>12, <2>2 DEF Caller
    <3>2. entry_time[p] < entry_time[u] /\ entry_time[p] \in Nat
      BY <1>1, <3>1, TrailOrder
    <3> QED BY <1>1, <3>2
  <2> QED BY <2>1, <2>2
<1>20. \/ l = entry_time[u]
       \/ \E x \in G \cup {u} : \E w \in Near(x) \cap entered :
            entry_time[w] = l /\ <<x, w>> # <<u, p>>
  <2>1. CASE l = a
    BY <1>6, <1>12, <1>13, <2>1
  <2>2. CASE l = b /\ b = entry_time[v]
    <3>1. v \in Near(u) \cap entered /\ <<u, v>> # <<u, p>> /\ u \in G \cup {u}
      BY <1>1, <1>19
    <3> QED BY <2>2, <3>1
  <2>3. CASE l = b /\ b # entry_time[v]
    <3>1. PICK x \in T : \E w \in Near(x) \cap entered : entry_time[w] = low[v] /\ <<x, w>> # <<v, u>>
      BY <1>6, <1>14, <2>3
    <3>2. PICK w \in Near(x) \cap entered : entry_time[w] = low[v]
      BY <3>1
    <3>3. x \in G \cup {u} /\ <<x, w>> # <<u, p>>
      BY <1>1, <1>12, <3>1
    <3> QED BY <1>6, <2>3, <3>2, <3>3
  <2> QED BY <1>7, <2>1, <2>2, <2>3
<1>21. LowAt(u, p, v + 1, G)'
  BY <1>2, <1>5, <1>8, <1>16, <1>17, <1>18, <1>20 DEF LowAt
<1>22. LowRight(n)'
  <2>1. At(n)' = u /\ Caller(n)' = p /\ Cursor(n)' = v + 1 /\ Done(n)' = G
    <3>1. n \in 1..n
      BY <1>1
    <3> QED BY <1>1, <1>3, <1>12, <3>1
  <2> QED BY <1>21, <2>1 DEF LowRight
<1>23. \A k \in 1..n : Scanned(k)' /\ LowRight(k)'
  BY <1>9, <1>11, <1>22
<1> QED BY <1>8, <1>23

(* What u knows of itself takes in T.                                      *)
LEMMA ReturnFrames ==
  ASSUME SecondInv, NEW n, NEW u, NEW v, NEW T, Over(n, u, v, T), Second!Return
  PROVE  \A k \in 1..n : Framed(k)' /\ CutRight(k)'
<1>1. /\ n \in Nat /\ n > 0 /\ Level = n + 1 /\ At(n) = u /\ At(n + 1) = v
      /\ u \in V /\ v \in V /\ v \in Near(u) /\ v \in T /\ Caller(n) = stack[n].parent
      /\ n = Len(stack) /\ u = stack[n].u /\ v = stack[n].v /\ V = 1..Len(graph) /\ Len(graph) \in Nat
  BY OverReads, SecondTypes DEF Over
<1>2. /\ graph' = graph
      /\ stack'[n] = Read(stack[n], low[v], entry_time[u])
      /\ \A k \in 1..n : k # n => stack'[k] = stack[k]
  BY ReturnReads
<1>3. /\ Level' = n
      /\ \A k \in 1..n : At(k)' = At(k) /\ Caller(k)' = Caller(k)
      /\ \A k \in 1..n : k # n => Done(k)' = Done(k)
      /\ Done(n)' = Done(n) \cup T
  BY ReturnTrail
<1>4. \A k \in 1..n : /\ stack[k].parent = Caller(k) /\ stack[k].children < stack[k].v
                      /\ stack[k].v = At(k + 1)
                      /\ stack[k].children \in Nat
  <2> SUFFICES ASSUME NEW k \in 1..n
               PROVE  /\ stack[k].parent = Caller(k) /\ stack[k].children < stack[k].v
                      /\ stack[k].v = At(k + 1)
                      /\ stack[k].children \in Nat
    OBVIOUS
  <2>1. Framed(k) /\ k < Level /\ stack[k].children \in 0..Len(graph)
    BY <1>1, SecondTypes DEF SecondInv, SecondCore
  <2> QED BY <2>1 DEF Framed
<1>5. PICK f, g, b, t : f = stack[n] /\ g = stack'[n] /\ b = low[v] /\ t = entry_time[u]
  OBVIOUS
<1>6. /\ g.u = u /\ g.parent = f.parent /\ g.v = v + 1 /\ g.children = f.children + 1
      /\ g.is_articulation <=> f.is_articulation \/ (b >= t /\ f.parent # -1)
  <2>1. g = Read(f, b, t)
    BY <1>2, <1>5
  <2>2. g.u = f.u /\ g.parent = f.parent /\ g.v = f.v + 1 /\ g.children = f.children + 1
    BY <2>1 DEF Read
  <2>3. g.is_articulation = (f.is_articulation \/ (b >= t /\ f.parent # -1))
    BY <2>1 DEF Read
  <2> QED BY <1>1, <1>5, <2>2, <2>3
<1>7. ASSUME NEW k \in 1..n, k # n
      PROVE  Framed(k)' /\ CutRight(k)'
  <2>1. k + 1 \in 1..n
    BY <1>1, <1>7
  <2>2. Framed(k)'
    BY <1>2, <1>3, <1>4, <1>7, <2>1 DEF Framed
  <2>3. k > 1 => At(k - 1)' = At(k - 1)
    <3> SUFFICES ASSUME k > 1 PROVE At(k - 1)' = At(k - 1)
      OBVIOUS
    <3>1. k - 1 \in 1..n
      BY <1>1
    <3> QED BY <1>3, <3>1
  <2>4. stack'[k] = stack[k] /\ Done(k)' = Done(k) /\ k \in 1..Len(stack)
    BY <1>1, <1>2, <1>3, <1>7
  <2>5. CutRight(k)'
    BY <1>2, <2>3, <2>4, CutKept
  <2> QED BY <2>2, <2>5
<1>8. Framed(n)'
  <2>1. n \in 1..n
    BY <1>1
  <2>2. f.children \in Nat /\ f.children < v /\ v \in Nat
    BY <1>1, <1>4, <1>5, <2>1
  <2>3. g.children < g.v
    BY <1>6, <2>2
  <2>4. g.parent = Caller(n)'
    BY <1>1, <1>3, <1>5, <1>6, <2>1
  <2>5. ~(n < Level')
    BY <1>1, <1>3
  <2> QED BY <1>5, <2>3, <2>4, <2>5 DEF Framed
<1>9. PICK D, G : D = Done(n) /\ G = D \cup T
  OBVIOUS
<1>10. CutRight(n)
  BY <1>1 DEF SecondInv, SecondCore
<1>11. /\ n > 1 /\ b >= t => CutVertex(u)
       /\ n > 1 /\ ~(b >= t) => \A x \in T : At(n - 1) \in Around(u, x)
       /\ \A x, y \in T : y \in Around(u, x)
       /\ n = 1 => \A x \in T : \A y : y \notin T => y \notin Around(u, x)
  BY <1>5, OverCut
<1>12. ASSUME n = 1
       PROVE  CutRight(n)'
  <2>1. RootAt(f, D)
    BY <1>5, <1>9, <1>10, <1>12 DEF CutRight
  <2>2. /\ ~f.is_articulation /\ f.u = u
        /\ f.children = 0 => D = {}
        /\ f.children > 0 => \E x \in D : x \in Near(u)
        /\ f.children > 1 => CutVertex(u)
        /\ f.children \in Nat
    <3>1. 1 \in 1..n
      BY <1>12
    <3> QED BY <1>1, <1>4, <1>5, <1>12, <2>1, <3>1 DEF RootAt
  <2>3. f.parent = -1
    BY <1>1, <1>5, <1>12 DEF Caller
  <2>4. ~g.is_articulation
    BY <1>6, <2>2, <2>3
  <2>5. g.children = 1 => \A x, y \in G : y \in Around(u, x)
    <3> SUFFICES ASSUME g.children = 1 PROVE \A x, y \in G : y \in Around(u, x)
      OBVIOUS
    <3>1. D = {}
      BY <1>6, <2>2
    <3> QED BY <1>9, <1>11, <3>1
  <2>6. \E x \in G : x \in Near(u)
    BY <1>1, <1>9
  <2>7. g.children > 1 => CutVertex(u)
    <3> SUFFICES ASSUME g.children > 1 PROVE CutVertex(u)
      OBVIOUS
    <3>1. CASE f.children > 1
      BY <2>2, <3>1
    <3>2. CASE f.children = 1
      <4>1. PICK x \in D : x \in Near(u)
        BY <2>2, <3>2
      <4>2. entry_time[u] < entry_time[x] /\ entry_time[x] < entry_time[v] /\ x \in entered
        BY <1>1, <1>9, <4>1 DEF Done
      <4>3. entry_time \in [V -> Nat] /\ entered \subseteq V
        BY SecondTypes
      <4>4. x # u /\ x \notin T
        <5>1. \A y \in T : entry_time[v] <= entry_time[y]
          BY OverFacts
        <5> QED BY <1>1, <4>2, <4>3, <5>1
      <4>5. x \notin Around(u, v)
        BY <1>1, <1>11, <1>12, <4>4
      <4>6. v # u
        BY OverReads
      <4> QED BY <1>1, <4>1, <4>4, <4>5, <4>6 DEF CutVertex
    <3> QED BY <1>6, <2>2, <3>1, <3>2
  <2>8. RootAt(g, G)
    <3>1. g.u = u /\ g.children # 0
      BY <1>6, <2>2
    <3> QED BY <2>4, <2>5, <2>6, <2>7, <3>1 DEF RootAt
  <2>9. RootAt(g, G)'
    BY <1>2, <2>8, SecondSame DEF RootAt
  <2> QED
    <3>1. Done(n)' = G /\ stack'[n] = g
      BY <1>3, <1>5, <1>9
    <3> QED BY <1>12, <2>9, <3>1 DEF CutRight
<1>13. ASSUME n # 1
       PROVE  CutRight(n)'
  <2>1. PICK p : p = At(n - 1)
    OBVIOUS
  <2>2. n > 1 /\ n - 1 \in 1..Level /\ n - 1 \in 1..n
    BY <1>1, <1>13
  <2>3. InnerAt(f, p, D)
    BY <1>5, <1>9, <1>10, <1>13, <2>1 DEF CutRight
  <2>4. f.parent = p /\ p # -1
    <3>1. p \in V
      BY <2>1, <2>2, SecondTypes
    <3>2. p # -1
      BY <1>1, <3>1
    <3> QED BY <1>1, <1>5, <1>13, <2>1, <3>2 DEF Caller
  <2>5. f.u = u
    BY <1>1, <1>5
  <2>6. InnerAt(g, p, G)
    <3>1. CASE f.is_articulation
      BY <1>6, <2>3, <2>5, <3>1 DEF InnerAt
    <3>2. CASE ~f.is_articulation /\ b >= t
      BY <1>6, <1>11, <2>2, <2>4, <2>5, <3>2 DEF InnerAt
    <3>3. CASE ~f.is_articulation /\ ~(b >= t)
      <4>1. \A x \in D : p \in Around(u, x)
        BY <2>3, <2>5, <3>3 DEF InnerAt
      <4>2. \A x \in T : p \in Around(u, x)
        BY <1>11, <2>1, <2>2, <3>3
      <4>3. ~g.is_articulation /\ g.u = u
        BY <1>6, <3>3
      <4> QED BY <1>9, <4>1, <4>2, <4>3 DEF InnerAt
    <3> QED BY <3>1, <3>2, <3>3
  <2>7. InnerAt(g, p, G)'
    BY <1>2, <2>6, SecondSame DEF InnerAt
  <2>8. At(n - 1)' = p
    BY <1>3, <2>1, <2>2
  <2> QED
    <3>1. Done(n)' = G /\ stack'[n] = g
      BY <1>3, <1>5, <1>9
    <3> QED BY <1>13, <2>7, <2>8, <3>1 DEF CutRight
<1> QED BY <1>7, <1>8, <1>12, <1>13

(* The edge to v, no longer on the trail, is noted exactly if it is a      *)
(* bridge.                                                                 *)
LEMMA ReturnBridges ==
  ASSUME SecondInv, NEW n, NEW u, NEW v, NEW T, Over(n, u, v, T), Second!Return
  PROVE  BridgesRight' /\ CutsRight' /\ bridges' \in SUBSET (V \X V)
<1>1. /\ n \in Nat /\ n > 0 /\ Level = n + 1 /\ At(n) = u /\ At(n + 1) = v /\ Undirected
      /\ u \in V /\ v \in V /\ v \in Near(u) /\ u \in Near(v) /\ u # v
      /\ u \in entered /\ v \in entered
      /\ n = Len(stack) /\ u = stack[n].u /\ V \subseteq Int
      /\ bridges \in SUBSET (V \X V) /\ entered \in SUBSET V
  <2>1. /\ n \in Nat /\ n > 0 /\ Level = n + 1 /\ At(n) = u /\ At(n + 1) = v /\ Undirected
        /\ u \in V /\ v \in V /\ v \in Near(u) /\ u \in Near(v) /\ u # v
        /\ u \in entered /\ v \in entered
    BY OverReads
  <2>2. n = Len(stack) /\ u = stack[n].u
    BY DEF Over
  <2>3. V \subseteq Int /\ bridges \in SUBSET (V \X V) /\ entered \in SUBSET V
    BY SecondTypes, GraphFacts
  <2> QED BY <2>1, <2>2, <2>3
<1>2. /\ graph' = graph /\ entered' = entered /\ articulation_points' = articulation_points
      /\ bridges' = bridges \cup IF low[v] > entry_time[u]
                                 THEN { IF u < v THEN <<u, v>> ELSE <<v, u>> } ELSE {}
      /\ Len(stack') = n
      /\ stack'[n] = Read(stack[n], low[v], entry_time[u])
      /\ \A k \in 1..n : k # n => stack'[k] = stack[k]
  BY ReturnReads
<1>3. /\ Level' = n
      /\ \A k \in 1..n : At(k)' = At(k)
  BY ReturnTrail
<1>4. /\ V' = V /\ Edges' = Edges /\ \A x : Near(x)' = Near(x)
      /\ \A x, y : Bridge(x, y)' <=> Bridge(x, y)
      /\ \A x : CutVertex(x)' <=> CutVertex(x)
  BY <1>2, SecondSame
<1>5. PICK e : e = IF u < v THEN <<u, v>> ELSE <<v, u>>
  OBVIOUS
<1>6. \A d : d \in bridges' <=> d \in bridges \/ (d = e /\ Bridge(u, v))
  <2>1. low[v] > entry_time[u] <=> Bridge(u, v)
    BY OverBridge
  <2> QED BY <1>2, <1>5, <2>1
<1>7. /\ e \in Edges /\ e \in V \X V /\ e[1] < e[2]
      /\ Bridge(u, v) => Bridge(e[1], e[2])
  <2>1. u < v \/ v < u
    BY <1>1
  <2>2. <<u, v>> \in Edges /\ <<v, u>> \in Edges /\ (Bridge(u, v) <=> Bridge(v, u))
    BY <1>1, UndirectedFacts, BridgeBoth
  <2> QED BY <1>1, <1>5, <2>1, <2>2
<1>8. BridgesRight
  BY DEF SecondInv, SecondCore
<1>9. ASSUME NEW x \in entered, NEW y \in entered, x < y, y \in Near(x), Bridge(x, y),
             <<x, y>> \notin bridges'
      PROVE  \E k \in 1..(n - 1) : \/ x = At(k) /\ y = At(k + 1)
                                   \/ y = At(k) /\ x = At(k + 1)
  <2>1. PICK k \in 1..n : \/ x = At(k) /\ y = At(k + 1)
                          \/ y = At(k) /\ x = At(k + 1)
    <3>1. <<x, y>> \notin bridges /\ Level - 1 = n
      BY <1>1, <1>6, <1>9
    <3> QED BY <1>8, <1>9, <3>1 DEF BridgesRight
  <2>2. CASE k = n
    <3>1. \/ x = u /\ y = v
          \/ y = u /\ x = v
      BY <1>1, <2>1, <2>2
    <3>2. Bridge(u, v)
      BY <1>1, <1>9, <3>1, BridgeBoth
    <3>3. <<x, y>> = e
      <4>1. CASE x = u /\ y = v
        BY <1>5, <1>9, <4>1
      <4>2. CASE y = u /\ x = v
        <5>1. ~(u < v)
          BY <1>1, <1>9, <4>2
        <5> QED BY <1>5, <4>2, <5>1
      <4> QED BY <3>1, <4>1, <4>2
    <3> QED BY <1>6, <1>9, <3>2, <3>3
  <2>3. CASE k # n
    <3>1. k \in 1..(n - 1)
      BY <1>1, <2>3
    <3> QED BY <2>1, <3>1
  <2> QED BY <2>2, <2>3
<1>10. BridgesRight'
  <2>1. \A d \in bridges' : d \in Edges' /\ d[1] < d[2] /\ Bridge(d[1], d[2])'
    <3>1. \A d \in bridges : d \in Edges /\ d[1] < d[2] /\ Bridge(d[1], d[2])
      BY <1>8 DEF BridgesRight
    <3> QED BY <1>4, <1>6, <1>7, <3>1
  <2>2. ASSUME NEW x \in entered', NEW y \in entered', x < y, y \in Near(x)', Bridge(x, y)',
               <<x, y>> \notin bridges'
        PROVE  \E k \in 1..(Level' - 1) : \/ x = At(k)' /\ y = At(k + 1)'
                                          \/ y = At(k)' /\ x = At(k + 1)'
    <3>1. x \in entered /\ y \in entered /\ y \in Near(x) /\ Bridge(x, y)
      BY <1>2, <1>4, <2>2
    <3>2. PICK k \in 1..(n - 1) : \/ x = At(k) /\ y = At(k + 1)
                                  \/ y = At(k) /\ x = At(k + 1)
      BY <1>9, <2>2, <3>1
    <3>3. k \in 1..n /\ k + 1 \in 1..n
      BY <1>1
    <3>4. At(k)' = At(k) /\ At(k + 1)' = At(k + 1)
      BY <1>3, <3>3
    <3> QED BY <1>3, <3>2, <3>4
  <2> QED BY <2>1, <2>2 DEF BridgesRight
<1>11. CutsRight'
  <2>1. /\ Once(articulation_points)
        /\ \A x \in V : Lists(articulation_points, x) <=>
             x \in entered /\ CutVertex(x) /\ \A k \in 1..n : stack[k].u # x
    BY <1>1 DEF SecondInv, SecondCore, CutsRight
  <2>2. stack'[n].u = u
    BY <1>1, <1>2 DEF Read
  <2>3. \A k \in 1..n : stack'[k].u = stack[k].u
    BY <1>1, <1>2, <2>2
  <2>4. Once(articulation_points)' /\ \A x : Lists(articulation_points, x)' <=> Lists(articulation_points, x)
    BY <1>2, <2>1 DEF Once, Lists
  <2>5. \A x \in V' : Lists(articulation_points, x)' <=>
             x \in entered' /\ CutVertex(x)' /\ \A k \in 1..Len(stack') : stack'[k].u # x
    BY <1>2, <1>4, <2>1, <2>3, <2>4
  <2> QED BY <2>4, <2>5 DEF CutsRight
<1>12. bridges' \in SUBSET (V \X V)
  <2>1. \A d \in bridges' : d \in V \X V
    BY <1>1, <1>6, <1>7
  <2> QED BY <2>1
<1> QED BY <1>10, <1>11, <1>12

(* The code after a recursive call keeps the invariant.                    *)
LEMMA ReturnKeeps ==
  ASSUME SecondInv, Second!Return
  PROVE  SecondInv'
<1>1. PICK n, u, v, T : Over(n, u, v, T)
  <2>1. pc = "return"
    BY DEF Second!Return
  <2>2. Over(Len(stack), stack[Len(stack)].u, stack[Len(stack)].v, Since(stack[Len(stack)].v))
    BY <2>1 DEF Over
  <2> QED BY <2>2
<1>2. /\ pc' = "dfs"
      /\ UNCHANGED <<graph, entered, entry_time, timer, articulation_points, root>>
      /\ stack' \in Seq(Calls) /\ Len(stack') = n
  BY <1>1, ReturnReads
<1>3. n \in Nat /\ n > 0 /\ Undirected
  BY <1>1, OverReads
<1>4. /\ Level' = n /\ Numbered' /\ Trailed' /\ \A k \in 1..n : Hanging(k)'
  BY <1>1, ReturnTrail
<1>5. /\ low' \in [V -> Nat]
      /\ \A k \in 1..n : Scanned(k)' /\ LowRight(k)'
  BY <1>1, ReturnLow
<1>6. \A k \in 1..n : Framed(k)' /\ CutRight(k)'
  BY <1>1, ReturnFrames
<1>7. BridgesRight' /\ CutsRight' /\ bridges' \in SUBSET (V \X V)
  BY <1>1, ReturnBridges
<1>8. SecondCore'
  BY <1>2, <1>4, <1>5, <1>6, <1>7 DEF SecondCore
<1>9. Second!TypeOK'
  <2>1. timer = Cardinality(entered)
    BY <1>2, SecondTyped
  <2>2. /\ entered \subseteq V /\ entry_time \in [V -> Nat] /\ articulation_points \in Seq(V)
        /\ root \in 1..(Len(graph) + 1)
    BY SecondTypes
  <2> QED BY <1>2, <1>5, <1>7, <2>1, <2>2, SecondTyped
<1>10. V' = V /\ Undirected' /\ graph' \in Graphs
  BY <1>2, <1>3, SecondSame, SecondTypes
<1>11. \A x \in V' : x < root' => x \in entered'
  BY <1>2, <1>10 DEF SecondInv
<1> QED BY <1>2, <1>8, <1>9, <1>10, <1>11 DEF SecondInv

-----------------------------------------------------------------------------
(* The end of a call.                                                      *)
Ending(n, u) ==
  pc = "dfs" /\ n = Len(stack) /\ n # 0 /\ u = stack[n].u /\ stack[n].v > Len(graph)

(* The call of u, which has looked at all neighbours.                      *)
LEMMA EndingReads ==
  ASSUME SecondInv, NEW n, NEW u, Ending(n, u)
  PROVE  /\ n \in Nat /\ n > 0 /\ Level = n /\ Undirected /\ stack \in Seq(Calls) /\ stack[n] \in Calls
         /\ Second!Frame = stack[n]
         /\ At(n) = u /\ Cursor(n) = Len(graph) + 1 /\ Caller(n) = stack[n].parent
         /\ u \in V /\ u \in entered
         /\ \A k \in 1..n : At(k) = stack[k].u
         /\ Near(u) \subseteq entered
         /\ \A w \in Near(u) : w = u \/ w \in Done(n) \/ \E j \in 1..(n - 1) : At(j) = w
         /\ \A x \in Done(n) : x # u
<1>1. /\ pc = "dfs" /\ n = Len(stack) /\ n # 0 /\ u = stack[n].u /\ stack[n].v > Len(graph)
  BY DEF Ending
<1>2. stack # <<>>
  BY <1>1
<1>3. /\ n \in Nat /\ n > 0 /\ Level = n /\ Undirected /\ Second!Frame = stack[n] /\ stack[n] \in Calls
      /\ \A k \in 1..n : At(k) = stack[k].u
      /\ \A k \in 1..n : Cursor(k) = stack[k].v /\ Caller(k) = stack[k].parent
  BY <1>1, <1>2, TopReads
<1>4. stack \in Seq(Calls)
  BY SecondTypes, SecondReads DEF Second!Frames, Calls
<1>5. n \in 1..n /\ n \in 1..Level
  BY <1>3
<1>6. At(n) = u /\ Cursor(n) = Len(graph) + 1 /\ Caller(n) = stack[n].parent
  <2>1. stack[n].v \in 1..(Len(graph) + 1) /\ Len(graph) \in Nat
    BY <1>1, <1>5, SecondTypes
  <2>2. stack[n].v = Len(graph) + 1
    BY <1>1, <2>1
  <2> QED BY <1>1, <1>3, <1>5, <2>2
<1>7. u \in V /\ u \in entered
  BY <1>5, <1>6, SecondTypes
<1>8. Near(u) \subseteq entered
  <2>1. Scanned(n)
    BY <1>5 DEF SecondInv, SecondCore
  <2>2. \A w \in Near(u) : w < Len(graph) + 1
    <3>1. Near(u) \subseteq V /\ V = 1..Len(graph) /\ Len(graph) \in Nat
      BY SecondTypes, GraphFacts
    <3> QED BY <3>1
  <2> QED BY <1>6, <2>1, <2>2 DEF Scanned
<1>9. entry_time \in [V -> Nat] /\ entered \subseteq V
      /\ \A x, y \in entered : entry_time[x] = entry_time[y] => x = y
  BY SecondTypes DEF SecondInv, SecondCore, Numbered
<1>10. Done(n) = { x \in entered : entry_time[u] < entry_time[x] }
  BY <1>3, <1>6 DEF Done
<1>11. \A x \in Done(n) : x # u
  BY <1>7, <1>9, <1>10
<1>12. ASSUME NEW w \in Near(u), w # u, w \notin Done(n)
       PROVE  \E j \in 1..(n - 1) : At(j) = w
  <2>1. w \in entered /\ entry_time[w] < entry_time[u]
    <3>1. w \in entered
      BY <1>8
    <3>2. entry_time[w] \in Nat /\ entry_time[u] \in Nat /\ entry_time[w] # entry_time[u]
      BY <1>7, <1>9, <1>12, <3>1
    <3> QED BY <1>10, <1>12, <3>1, <3>2
  <2>2. Hanging(n)
    BY <1>5 DEF SecondInv, SecondCore
  <2>3. u \in Since(u)
    BY <1>7, <1>9 DEF Since
  <2> QED BY <1>6, <2>1, <2>2, <2>3 DEF Hanging
<1> QED BY <1>3, <1>4, <1>6, <1>7, <1>8, <1>11, <1>12

(* What the caller of u and the neighbours of u entered before it are to   *)
(* each other, without u.                                                  *)
LEMMA BackToCaller ==
  ASSUME SecondInv, NEW n, NEW u, Ending(n, u), NEW j \in 1..(n - 1)
  PROVE  At(n - 1) \in Around(u, At(j))
<1>1. n \in Nat /\ Level = n /\ Undirected /\ At(n) = u /\ u \in V
  BY EndingReads
<1>2. PICK E : E = Without(u)
  OBVIOUS
<1>3. Both(E) /\ \A a, b : <<a, b>> \in E <=> <<a, b>> \in Edges /\ a # u /\ b # u
  BY <1>1, <1>2, PartsBoth, PartFacts
<1>4. PICK m : m = n - 1
  OBVIOUS
<1>5. m \in 1..Level /\ j \in 1..Level /\ j <= m /\ m < n /\ n \in 1..Level
  BY <1>1, <1>4
<1>6. \A i \in j..(m - 1) : <<At(i), At(i + 1)>> \in E
  <2> SUFFICES ASSUME NEW i \in j..(m - 1) PROVE <<At(i), At(i + 1)>> \in E
    OBVIOUS
  <2>1. i \in 1..(Level - 1) /\ i \in 1..Level /\ i + 1 \in 1..Level /\ i < n /\ i + 1 < n
    BY <1>1, <1>4
  <2>2. <<At(i), At(i + 1)>> \in Edges
    BY <1>1, <2>1, TrailEdge
  <2>3. /\ entry_time[At(i)] < entry_time[u] /\ entry_time[At(i + 1)] < entry_time[u]
        /\ entry_time[u] \in Nat
    BY <1>1, <1>5, <2>1, TrailOrder
  <2>4. At(i) # u /\ At(i + 1) # u
    BY <2>3
  <2> QED BY <1>3, <2>2, <2>4
<1>7. At(m) \in ReachableBy(E, At(j))
  BY <1>1, <1>3, <1>5, <1>6, TrailLeads
<1> QED BY <1>2, <1>4, <1>7 DEF Around

(* The verdict after the loop: u is a cut vertex exactly if it was marked, *)
(* or is a root with two children.                                         *)
LEMMA EndingJudges ==
  ASSUME SecondInv, NEW n, NEW u, Ending(n, u)
  PROVE  CutVertex(u) <=> stack[n].is_articulation \/ (stack[n].parent = -1 /\ stack[n].children > 1)
<1>1. /\ n \in Nat /\ n > 0 /\ Level = n /\ Undirected /\ At(n) = u /\ u \in V
      /\ Caller(n) = stack[n].parent /\ u = stack[n].u /\ n = Len(stack)
      /\ \A w \in Near(u) : w = u \/ w \in Done(n) \/ \E j \in 1..(n - 1) : At(j) = w
  BY EndingReads DEF Ending
<1>2. PICK f, D : f = stack[n] /\ D = Done(n)
  OBVIOUS
<1>3. CutRight(n) /\ D \subseteq V /\ f.children \in Nat
  BY <1>1, <1>2, SecondTypes DEF SecondInv, SecondCore, Done
<1>4. Both(Without(u)) /\ \A x : Around(u, x) = ReachableBy(Without(u), x)
  BY <1>1, PartsBoth DEF Around
<1>5. ASSUME n = 1
      PROVE  CutVertex(u) <=> f.is_articulation \/ (f.parent = -1 /\ f.children > 1)
  <2>1. RootAt(f, D)
    BY <1>2, <1>3, <1>5 DEF CutRight
  <2>2. /\ ~f.is_articulation
        /\ f.children = 0 => D = {}
        /\ f.children = 1 => \A x, y \in D : y \in Around(u, x)
        /\ f.children > 1 => CutVertex(u)
    BY <1>1, <1>2, <2>1 DEF RootAt
  <2>3. f.parent = -1
    BY <1>1, <1>2, <1>5 DEF Caller
  <2>4. Near(u) \ {u} \subseteq D
    <3>1. ~\E j \in 1..(n - 1) : At(j) = At(j)
      BY <1>5
    <3> QED BY <1>1, <1>2, <3>1
  <2>5. ~(f.children > 1) => ~CutVertex(u)
    <3>1. CASE f.children = 0
      BY <2>2, <2>4, <3>1 DEF CutVertex
    <3>2. CASE f.children = 1
      BY <2>2, <2>4, <3>2 DEF CutVertex
    <3> QED BY <1>3, <3>1, <3>2
  <2> QED BY <2>2, <2>3, <2>5
<1>6. ASSUME n # 1
      PROVE  CutVertex(u) <=> f.is_articulation \/ (f.parent = -1 /\ f.children > 1)
  <2>1. PICK p : p = At(n - 1)
    OBVIOUS
  <2>2. n - 1 \in 1..Level
    BY <1>1, <1>6
  <2>3. p \in V
    BY <2>1, <2>2, SecondTypes
  <2>4. f.parent = p /\ p # -1
    <3>1. p # -1
      BY <2>3, SecondTypes
    <3> QED BY <1>1, <1>2, <1>6, <2>1, <3>1 DEF Caller
  <2>5. InnerAt(f, p, D)
    BY <1>2, <1>3, <1>6, <2>1 DEF CutRight
  <2>6. f.is_articulation => CutVertex(u)
    BY <1>1, <1>2, <2>5 DEF InnerAt
  <2>7. ASSUME ~f.is_articulation
        PROVE  ~CutVertex(u)
    <3>1. \A x \in D : p \in Around(u, x)
      BY <1>1, <1>2, <2>5, <2>7 DEF InnerAt
    <3>2. \A j \in 1..(n - 1) : p \in Around(u, At(j))
      BY <2>1, BackToCaller
    <3>3. \A y \in Near(u) \ {u} : p \in Around(u, y) /\ y \in V
      BY <1>1, <1>2, <3>1, <3>2, UndirectedFacts
    <3>4. ASSUME NEW y \in Near(u) \ {u}, NEW z \in Near(u) \ {u}
          PROVE  z \in Around(u, y)
      <4>1. PICK E : E = Without(u)
        OBVIOUS
      <4>2. Both(E) /\ p \in ReachableBy(E, y) /\ p \in ReachableBy(E, z) /\ y \in V /\ z \in V
        BY <1>4, <3>3, <4>1
      <4>3. z \in ReachableBy(E, p)
        BY <1>1, <4>2, BothReach
      <4>4. z \in ReachableBy(E, y)
        BY <1>1, <4>2, <4>3, BothReach
      <4> QED BY <1>4, <4>1, <4>4
    <3> QED BY <3>4 DEF CutVertex
  <2> QED BY <2>4, <2>6, <2>7
<1> QED BY <1>2, <1>5, <1>6

(* What follows the loop of dfs.                                           *)
LEMMA LeaveReads ==
  ASSUME SecondInv, Second!Leave
  PROVE  \E n, u :
           /\ Ending(n, u)
           /\ UNCHANGED <<graph, entered, entry_time, low, timer, bridges, root>>
           /\ pc' = IF n = 1 THEN "dfs" ELSE "return"
           /\ stack' \in Seq(Calls) /\ Len(stack') = n - 1
           /\ \A k \in 1..(n - 1) : stack'[k] = stack[k]
           /\ articulation_points' \in Seq(V) /\ Once(articulation_points')
           /\ \A x : Lists(articulation_points', x) <=>
                       Lists(articulation_points, x) \/ (x = u /\ CutVertex(u))
<1>1. PICK n, u : n = Len(stack) /\ u = stack[n].u
  OBVIOUS
<1>2. /\ pc = "dfs" /\ stack # <<>> /\ Second!Frame.v > Len(graph)
      /\ UNCHANGED <<graph, entered, entry_time, low, timer, bridges, root>>
      /\ pc' = IF Len(stack) = 1 THEN "dfs" ELSE "return"
      /\ stack' = SubSeq(stack, 1, Len(stack) - 1)
      /\ articulation_points' =
           IF /\ Second!Frame.is_articulation \/ (Second!Frame.parent = -1 /\ Second!Frame.children > 1)
              /\ ~\E k \in DOMAIN articulation_points : articulation_points[k] = Second!Frame.u
           THEN Append(articulation_points, Second!Frame.u) ELSE articulation_points
  BY SecondReads DEF Second!Leave, Second!numbers
<1>3. Ending(n, u)
  <2>1. Second!Frame = stack[n]
    BY <1>1 DEF Second!Frame
  <2>2. n # 0
    BY <1>1, <1>2, SecondTypes
  <2> QED BY <1>1, <1>2, <2>1, <2>2 DEF Ending
<1>4. /\ n \in Nat /\ n > 0 /\ Second!Frame = stack[n] /\ stack \in Seq(Calls) /\ u \in V
  BY <1>3, EndingReads
<1>5. /\ stack' \in Seq(Calls) /\ Len(stack') = n - 1
      /\ \A k \in 1..(n - 1) : stack'[k] = stack[k]
  <2>1. PICK A, q : A = Calls /\ q = stack
    OBVIOUS
  <2>2. /\ SubSeq(q, 1, Len(q) - 1) \in Seq(A)
        /\ Len(SubSeq(q, 1, Len(q) - 1)) = Len(q) - 1
        /\ \A k \in 1..(Len(q) - 1) : SubSeq(q, 1, Len(q) - 1)[k] = q[k]
    BY <1>2, <1>4, <2>1, WithoutLast
  <2> QED BY <1>1, <1>2, <2>1, <2>2
<1>6. CutVertex(u) <=> stack[n].is_articulation \/ (stack[n].parent = -1 /\ stack[n].children > 1)
  BY <1>3, EndingJudges
<1>7. ~Lists(articulation_points, u) /\ Once(articulation_points)
  <2>1. CutsRight
    BY DEF SecondInv, SecondCore
  <2>2. n \in 1..Len(stack) /\ stack[n].u = u
    BY <1>1, <1>4
  <2> QED BY <1>4, <2>1, <2>2 DEF CutsRight
<1>8. articulation_points' = IF CutVertex(u) THEN Append(articulation_points, u) ELSE articulation_points
  <2>1. ~\E k \in DOMAIN articulation_points : articulation_points[k] = u
    BY <1>7 DEF Lists
  <2> QED BY <1>1, <1>2, <1>4, <1>6, <2>1
<1>9. /\ articulation_points' \in Seq(V) /\ Once(articulation_points')
      /\ \A x : Lists(articulation_points', x) <=>
                  Lists(articulation_points, x) \/ (x = u /\ CutVertex(u))
  <2>1. PICK A, q, r : A = V /\ q = articulation_points /\ r = Append(q, u)
    OBVIOUS
  <2>2. q \in Seq(A) /\ A \cup {u} = A /\ Once(q) /\ ~Lists(q, u)
    BY <1>4, <1>7, <2>1, SecondTypes
  <2>3. /\ r \in Seq(A \cup {u})
        /\ \A x : Lists(r, x) <=> Lists(q, x) \/ x = u
        /\ Once(r)
    BY <2>1, <2>2, WithNew
  <2>4. r \in Seq(A)
    BY <2>2, <2>3
  <2>5. CASE CutVertex(u)
    <3>1. articulation_points' = r
      BY <1>8, <2>1, <2>5
    <3> QED BY <2>1, <2>3, <2>4, <2>5, <3>1
  <2>6. CASE ~CutVertex(u)
    <3>1. articulation_points' = q
      BY <1>8, <2>1, <2>6
    <3> QED BY <2>1, <2>2, <2>6, <3>1
  <2> QED BY <2>5, <2>6
<1>10. pc' = IF n = 1 THEN "dfs" ELSE "return"
  BY <1>1, <1>2
<1> QED BY <1>2, <1>3, <1>5, <1>9, <1>10

(* What the step does to the variables, for the two lemmas below.          *)
Left(n, u) ==
  /\ Ending(n, u)
  /\ UNCHANGED <<graph, entered, entry_time, low, timer, bridges, root>>
  /\ pc' = IF n = 1 THEN "dfs" ELSE "return"
  /\ stack' \in Seq(Calls) /\ Len(stack') = n - 1
  /\ \A k \in 1..(n - 1) : stack'[k] = stack[k]
  /\ articulation_points' \in Seq(V) /\ Once(articulation_points')
  /\ \A x : Lists(articulation_points', x) <=>
              Lists(articulation_points, x) \/ (x = u /\ CutVertex(u))

(* The cut vertices noted are those of the vertices left.                  *)
LEMMA LeftCuts ==
  ASSUME SecondInv, NEW n, NEW u, Left(n, u)
  PROVE  CutsRight'
<1>1. /\ Ending(n, u) /\ graph' = graph /\ entered' = entered /\ Len(stack') = n - 1
      /\ \A k \in 1..(n - 1) : stack'[k] = stack[k]
      /\ Once(articulation_points')
      /\ \A x : Lists(articulation_points', x) <=>
                  Lists(articulation_points, x) \/ (x = u /\ CutVertex(u))
  BY DEF Left
<1>2. /\ n \in Nat /\ n > 0 /\ Level = n /\ At(n) = u /\ u \in entered /\ u \in V
      /\ \A k \in 1..n : At(k) = stack[k].u
      /\ n = Len(stack)
  BY <1>1, EndingReads DEF Ending
<1>3. \A x \in V : Lists(articulation_points, x) <=>
        x \in entered /\ CutVertex(x) /\ \A k \in 1..n : stack[k].u # x
  BY <1>2 DEF SecondInv, SecondCore, CutsRight
<1>4. \A k \in 1..(n - 1) : stack[k].u # u
  <2> SUFFICES ASSUME NEW k \in 1..(n - 1) PROVE stack[k].u # u
    OBVIOUS
  <2>1. k \in 1..Level /\ n \in 1..Level /\ k < n /\ k \in 1..n
    BY <1>2
  <2>2. entry_time[At(k)] < entry_time[At(n)] /\ entry_time[At(k)] \in Nat
    BY <2>1, TrailOrder
  <2> QED BY <1>2, <2>1, <2>2
<1>5. \A k : k \in 1..n <=> k \in 1..(n - 1) \/ k = n
  BY <1>2
<1>6. stack[n].u = u
  BY <1>2, <1>5
<1>7. ASSUME NEW x \in V
      PROVE  Lists(articulation_points', x) <=>
               x \in entered /\ CutVertex(x) /\ \A k \in 1..(n - 1) : stack'[k].u # x
  <2>1. (\A k \in 1..(n - 1) : stack'[k].u # x) <=> \A k \in 1..(n - 1) : stack[k].u # x
    BY <1>1
  <2>2. CASE x = u
    BY <1>1, <1>2, <1>3, <1>4, <1>5, <1>6, <2>1, <2>2
  <2>3. CASE x # u
    <3>1. (\A k \in 1..n : stack[k].u # x) <=> \A k \in 1..(n - 1) : stack[k].u # x
      BY <1>5, <1>6, <2>3
    <3> QED BY <1>1, <1>3, <2>1, <2>3, <3>1
  <2> QED BY <2>2, <2>3
<1>8. \A x \in V' : Lists(articulation_points, x)' <=>
        x \in entered' /\ CutVertex(x)' /\ \A k \in 1..Len(stack') : stack'[k].u # x
  <2>1. \A x : Lists(articulation_points, x)' <=> Lists(articulation_points', x)
    BY DEF Lists
  <2>2. V' = V /\ \A x : CutVertex(x)' <=> CutVertex(x)
    BY <1>1, SecondSame
  <2> QED BY <1>1, <1>7, <2>1, <2>2
<1>9. Once(articulation_points)'
  BY <1>1 DEF Once
<1> QED BY <1>8, <1>9 DEF CutsRight

(* To a caller: the trail is as it was.                                    *)
LEMMA LeftCalled ==
  ASSUME SecondInv, NEW n, NEW u, Left(n, u), n # 1
  PROVE  SecondCore' /\ pc' = "return" /\ stack' # <<>>
<1>1. /\ Ending(n, u)
      /\ UNCHANGED <<graph, entered, entry_time, low, timer, bridges>>
      /\ pc' = "return"
      /\ stack' \in Seq(Calls) /\ Len(stack') = n - 1
      /\ \A k \in 1..(n - 1) : stack'[k] = stack[k]
  BY DEF Left
<1>2. /\ n \in Nat /\ n > 0 /\ Level = n /\ At(n) = u /\ Cursor(n) = Len(graph) + 1 /\ Undirected
      /\ \A k \in 1..n : At(k) = stack[k].u
      /\ n = Len(stack)
  BY <1>1, EndingReads DEF Ending
<1>3. n > 1 /\ n - 1 \in 1..(n - 1) /\ n - 1 \in 1..n /\ (n - 1) + 1 = n /\ n - 1 < n
  BY <1>2
<1>4. Level' = n
  BY <1>1, <1>3 DEF Level
<1>5. stack'[n - 1].v = u
  <2>1. Framed(n - 1) /\ n - 1 < Level
    BY <1>2, <1>3 DEF SecondInv, SecondCore
  <2>2. stack[n - 1].v = At((n - 1) + 1)
    BY <2>1 DEF Framed
  <2> QED BY <1>1, <1>2, <1>3, <2>2
<1>6. ASSUME NEW k \in 1..n
      PROVE  At(k)' = At(k) /\ Cursor(k)' = Cursor(k)
  <2>1. Len(graph') = Len(graph)
    BY <1>1
  <2>2. CASE k = n
    <3>1. ~(k <= Len(stack'))
      BY <1>1, <1>2, <2>2
    <3> QED BY <1>1, <1>2, <1>5, <2>1, <2>2, <3>1 DEF At, Cursor
  <2>3. CASE k # n
    <3>1. k \in 1..(n - 1) /\ k <= Len(stack') /\ k <= Len(stack)
      BY <1>1, <1>2, <2>3
    <3> QED BY <1>1, <3>1 DEF At, Cursor
  <2> QED BY <2>2, <2>3
<1>7. ASSUME NEW k \in 1..n
      PROVE  Caller(k)' = Caller(k)
  <2>1. CASE k = 1
    BY <2>1 DEF Caller
  <2>2. CASE k # 1
    <3>1. k - 1 \in 1..n
      BY <1>2, <2>2
    <3> QED BY <1>6, <2>2, <3>1 DEF Caller
  <2> QED BY <2>1, <2>2
<1>8. /\ Level' \in Nat /\ Level' <= Level /\ Level' = Level
      /\ \A k \in 1..Level' : At(k)' = At(k)
  BY <1>2, <1>4, <1>6
<1>9. /\ Numbered' /\ \A k \in 1..Level' : Hanging(k)' /\ At(k)' \in entered'
      /\ \A j, k \in 1..Level' : j < k => entry_time'[At(j)'] < entry_time'[At(k)']
      /\ \A k \in 1..(Level' - 1) : At(k + 1)' \in Near(At(k))'
  BY <1>1, <1>8, TrailShrinks
<1>10. \A k \in 1..n : Done(k)' = Done(k)
  <2>1. \A k \in 1..Level' : Done(k)' = IF k < Level' \/ Level' = Level THEN Done(k)
                                        ELSE Since(At(k)) \ {At(k)}
    BY <1>1, <1>8, TrailShrinks
  <2> QED BY <1>4, <1>8, <2>1
<1>11. Trailed'
  <2>1. \A x : OnTrail(x)' <=> OnTrail(x)
    BY <1>2, <1>4, <1>6 DEF OnTrail
  <2>2. \A x \in entered' : OnTrail(x)' \/ Near(x)' \subseteq entered'
    BY <1>1, <2>1, SecondSame DEF SecondInv, SecondCore, Trailed
  <2> QED BY <1>9, <2>2 DEF Trailed
<1>12. \A k \in 1..n : Scanned(k)' /\ LowRight(k)'
  BY <1>1, <1>2, <1>6, <1>7, <1>10, FrameKept
<1>13. ASSUME NEW k \in 1..(n - 1)
       PROVE  Framed(k)' /\ CutRight(k)'
  <2>1. k \in 1..n /\ k + 1 \in 1..n /\ k \in 1..Len(stack) /\ k < Level
    BY <1>2
  <2>2. stack'[k] = stack[k] /\ Framed(k)
    BY <1>1, <2>1 DEF SecondInv, SecondCore
  <2>3. Framed(k)'
    BY <1>6, <1>7, <2>1, <2>2 DEF Framed
  <2>4. k > 1 => At(k - 1)' = At(k - 1)
    <3> SUFFICES ASSUME k > 1 PROVE At(k - 1)' = At(k - 1)
      OBVIOUS
    <3>1. k - 1 \in 1..n
      BY <1>2
    <3> QED BY <1>6, <3>1
  <2>5. CutRight(k)'
    BY <1>1, <1>10, <2>1, <2>2, <2>4, CutKept
  <2> QED BY <2>3, <2>5
<1>14. BridgesRight'
  <2>1. BridgesRight
    BY DEF SecondInv, SecondCore
  <2>2. \A d \in bridges' : d \in Edges' /\ d[1] < d[2] /\ Bridge(d[1], d[2])'
    BY <1>1, <2>1, SecondSame DEF BridgesRight
  <2>3. ASSUME NEW x \in entered', NEW y \in entered', x < y, y \in Near(x)', Bridge(x, y)',
               <<x, y>> \notin bridges'
        PROVE  \E k \in 1..(Level' - 1) : \/ x = At(k)' /\ y = At(k + 1)'
                                          \/ y = At(k)' /\ x = At(k + 1)'
    <3>1. x \in entered /\ y \in entered /\ y \in Near(x) /\ Bridge(x, y) /\ <<x, y>> \notin bridges
      BY <1>1, <2>3, SecondSame
    <3>2. PICK k \in 1..(Level - 1) : \/ x = At(k) /\ y = At(k + 1)
                                      \/ y = At(k) /\ x = At(k + 1)
      BY <2>1, <2>3, <3>1 DEF BridgesRight
    <3>3. k \in 1..n /\ k + 1 \in 1..n /\ k \in 1..(Level' - 1)
      BY <1>2, <1>4
    <3>4. At(k)' = At(k) /\ At(k + 1)' = At(k + 1)
      BY <1>6, <3>3
    <3> QED BY <3>2, <3>3, <3>4
  <2> QED BY <2>2, <2>3 DEF BridgesRight
<1>15. CutsRight'
  BY LeftCuts
<1>16. SecondCore'
  BY <1>1, <1>4, <1>9, <1>11, <1>12, <1>13, <1>14, <1>15 DEF SecondCore
<1>17. stack' # <<>>
  BY <1>1, <1>3
<1> QED BY <1>1, <1>16, <1>17

(* To find: nothing is pending.                                            *)
LEMMA LeftFind ==
  ASSUME SecondInv, NEW n, NEW u, Left(n, u), n = 1
  PROVE  SecondCore' /\ pc' = "dfs"
<1>1. /\ Ending(n, u)
      /\ UNCHANGED <<graph, entered, entry_time, low, timer, bridges>>
      /\ pc' = "dfs" /\ Len(stack') = 0
  BY DEF Left
<1>2. /\ Level = 1 /\ At(1) = u /\ Near(u) \subseteq entered /\ u \in entered
  BY <1>1, EndingReads
<1>3. Level' = 0
  BY <1>1 DEF Level
<1>4. Numbered'
  BY <1>1 DEF SecondInv, SecondCore, Numbered
<1>5. Trailed'
  <2>1. \A x \in entered : Near(x) \subseteq entered
    <3> SUFFICES ASSUME NEW x \in entered PROVE Near(x) \subseteq entered
      OBVIOUS
    <3>1. OnTrail(x) \/ Near(x) \subseteq entered
      BY DEF SecondInv, SecondCore, Trailed
    <3>2. OnTrail(x) => x = u
      BY <1>2 DEF OnTrail
    <3> QED BY <1>2, <3>1, <3>2
  <2>2. \A x \in entered' : Near(x)' \subseteq entered'
    BY <1>1, <2>1, SecondSame
  <2>3. \A k : k \notin 1..Level' /\ k \notin 1..(Level' - 1)
    BY <1>3
  <2> QED BY <2>2, <2>3 DEF Trailed
<1>6. BridgesRight'
  <2>1. BridgesRight /\ \A k : k \notin 1..(Level - 1)
    BY <1>2 DEF SecondInv, SecondCore
  <2>2. \A d \in bridges' : d \in Edges' /\ d[1] < d[2] /\ Bridge(d[1], d[2])'
    BY <1>1, <2>1, SecondSame DEF BridgesRight
  <2>3. ASSUME NEW x \in entered', NEW y \in entered', x < y, y \in Near(x)', Bridge(x, y)'
        PROVE  <<x, y>> \in bridges'
    <3>1. x \in entered /\ y \in entered /\ y \in Near(x) /\ Bridge(x, y)
      BY <1>1, <2>3, SecondSame
    <3> QED BY <1>1, <2>1, <2>3, <3>1 DEF BridgesRight
  <2> QED BY <2>2, <2>3 DEF BridgesRight
<1>7. CutsRight'
  BY LeftCuts
<1>8. \A k : k \notin 1..Level' /\ k \notin 1..Len(stack')
  BY <1>1, <1>3
<1>9. SecondCore'
  BY <1>4, <1>5, <1>6, <1>7, <1>8 DEF SecondCore
<1> QED BY <1>1, <1>9

(* The end of a call keeps the invariant.                                  *)
LEMMA LeaveKeeps ==
  ASSUME SecondInv, Second!Leave
  PROVE  SecondInv'
<1>1. PICK n, u : Left(n, u)
  BY LeaveReads DEF Left
<1>2. /\ Ending(n, u)
      /\ UNCHANGED <<graph, entered, entry_time, low, timer, bridges, root>>
      /\ stack' \in Seq(Calls)
      /\ articulation_points' \in Seq(V)
  BY <1>1 DEF Left
<1>3. Undirected
  BY <1>2, EndingReads
<1>4. SecondCore' /\ (pc' = "dfs" \/ (pc' = "return" /\ stack' # <<>>))
  BY <1>1, LeftCalled, LeftFind
<1>5. Second!TypeOK'
  <2>1. timer = Cardinality(entered)
    BY <1>2, SecondTyped
  <2>2. /\ entered \subseteq V /\ entry_time \in [V -> Nat] /\ low \in [V -> Nat]
        /\ bridges \subseteq V \X V /\ root \in 1..(Len(graph) + 1)
    BY SecondTypes
  <2> QED BY <1>2, <1>4, <2>1, <2>2, SecondTyped
<1>6. V' = V /\ Undirected' /\ graph' \in Graphs
  BY <1>2, <1>3, SecondSame, SecondTypes
<1>7. \A x \in V' : x < root' => x \in entered'
  BY <1>2, <1>6 DEF SecondInv
<1> QED BY <1>4, <1>5, <1>6, <1>7 DEF SecondInv

(* Every step of BridgeArticulationFinder keeps its invariant.             *)
LEMMA SecondStep ==
  ASSUME SecondInv, Second!Next \/ UNCHANGED <<graph, pc, vars2>>
  PROVE  SecondInv'
<1>1. CASE Second!Construct \/ Second!FindSkip \/ Second!FindEnd \/ UNCHANGED <<graph, pc, vars2>>
  BY <1>1, SecondOutside
<1>2. CASE Second!ScanSkip \/ Second!ScanVisited
  BY <1>2, ScanKeeps
<1>3. CASE Second!ScanCall \/ Second!FindCall
  BY <1>3, EnterKeeps
<1>4. CASE Second!Return
  BY <1>4, ReturnKeeps
<1>5. CASE Second!Leave
  BY <1>5, LeaveKeeps
<1> QED BY <1>1, <1>2, <1>3, <1>4, <1>5 DEF Second!Next

-----------------------------------------------------------------------------
(* What the invariant says when the search is over.                        *)

(* A list that names every element of a set once is as long as the set is  *)
(* large.                                                                  *)
LEMMA OnceCounts ==
  ASSUME NEW A, NEW q \in Seq(A), Once(q), NEW S, \A x : x \in S <=> Lists(q, x)
  PROVE  Cardinality(S) = Len(q) /\ { q[k] : k \in DOMAIN q } = S
<1>1. Len(q) \in Nat /\ DOMAIN q = 1..Len(q) /\ q = [k \in 1..Len(q) |-> q[k]]
  OBVIOUS
<1>2. PICK n : n = Len(q)
  OBVIOUS
<1>3. q \in Bijection(1..n, S)
  <2>1. q \in [1..n -> S]
    BY <1>1, <1>2 DEF Lists
  <2>2. \A t \in S : \E k \in 1..n : q[k] = t
    BY <1>1, <1>2 DEF Lists
  <2>3. \A i, j \in 1..n : q[i] = q[j] => i = j
    BY <1>1, <1>2 DEF Once
  <2> QED BY <2>1, <2>2, <2>3 DEF Bijection, Injection, Surjection, IsInjective
<1>4. Cardinality(S) = n
  BY <1>1, <1>2, <1>3, FS_CountingElements DEF ExistsBijection
<1>5. { q[k] : k \in DOMAIN q } = S
  BY DEF Lists
<1> QED BY <1>2, <1>4, <1>5

(* At the end the bridges are the bridges and the cut vertices the cut     *)
(* vertices.                                                               *)
LEMMA SecondRight ==
  ASSUME SecondInv
  PROVE  Second!BridgesAndCutVertices
<1> SUFFICES ASSUME pc = "done" PROVE Second!BridgesAndCutVertices
  BY DEF Second!BridgesAndCutVertices
<1>1. stack = <<>> /\ root > Len(graph) /\ Undirected
  BY DEF SecondInv
<1>2. entered = V
  <2>1. \A x \in V : x < root
    BY <1>1, SecondTypes
  <2>2. \A x \in V : x \in entered
    BY <2>1 DEF SecondInv
  <2> QED BY <2>2, SecondTypes
<1>3. Len(stack) = 0 /\ Level = 0
  BY <1>1 DEF Level
<1> DEFINE Bridges == { e \in Edges : e[1] < e[2] /\ e[2] \notin ReachableBy(Edges \ Mirrored({e}), e[1]) }
           Cuts == { x \in V : CutVertex(x) }
<1>4. bridges = Bridges
  <2>1. ASSUME NEW e \in Edges
        PROVE  e[2] \notin ReachableBy(Edges \ Mirrored({e}), e[1]) <=> Bridge(e[1], e[2])
    <3>1. e = <<e[1], e[2]>>
      BY <1>1, PartFacts
    <3>2. PICK x, y : x = e[1] /\ y = e[2]
      OBVIOUS
    <3>3. e = <<x, y>>
      BY <3>1, <3>2
    <3> QED BY <3>2, <3>3 DEF Bridge, But
  <2>2. BridgesRight
    BY DEF SecondInv, SecondCore
  <2>3. \A e \in bridges : e \in Bridges
    BY <2>1, <2>2 DEF BridgesRight
  <2>4. ASSUME NEW e \in Bridges
        PROVE  e \in bridges
    <3>1. PICK x, y : x = e[1] /\ y = e[2]
      OBVIOUS
    <3>2. e \in Edges /\ x < y /\ Bridge(x, y) /\ e = <<x, y>>
      BY <1>1, <2>1, <3>1, PartFacts
    <3>3. x \in entered /\ y \in Near(x) /\ y \in entered
      BY <1>1, <1>2, <3>2, UndirectedFacts
    <3>4. \A k : k \notin 1..(Level - 1)
      BY <1>3
    <3> QED BY <2>2, <3>2, <3>3, <3>4 DEF BridgesRight
  <2> QED BY <2>3, <2>4
<1>5. /\ Cardinality(Cuts) = Len(articulation_points)
      /\ { articulation_points[k] : k \in DOMAIN articulation_points } = Cuts
  <2>1. PICK A, q, S : A = V /\ q = articulation_points /\ S = Cuts
    OBVIOUS
  <2>2. q \in Seq(A) /\ Once(q)
    BY <2>1, SecondTypes DEF SecondInv, SecondCore, CutsRight
  <2>3. \A x \in V : Lists(q, x) <=> x \in entered /\ CutVertex(x) /\ \A k \in 1..Len(stack) : stack[k].u # x
    BY <2>1 DEF SecondInv, SecondCore, CutsRight
  <2>4. \A k : k \notin 1..Len(stack)
    BY <1>3
  <2>5. \A x : Lists(q, x) => x \in V
    BY <2>1, <2>2 DEF Lists
  <2>6. \A x : x \in S <=> Lists(q, x)
    BY <1>2, <2>1, <2>3, <2>4, <2>5
  <2>7. Cardinality(S) = Len(q) /\ { q[k] : k \in DOMAIN q } = S
    BY <2>2, <2>6, OnceCounts
  <2> QED BY <2>1, <2>7
<1>6. Cuts = { x \in V : \E y, z \in Near(x) \ {x} :
                 z \notin ReachableBy({ e \in Edges : x \notin {e[1], e[2]} }, y) }
  BY DEF CutVertex, Around, Without
<1> HIDE DEF Cuts
<1>7. /\ bridges = { e \in Second!Edges : /\ e[1] < e[2]
                       /\ e[2] \notin Second!ReachableBy(Second!Edges \ Second!Mirrored({e}), e[1]) }
  BY <1>4, SecondReads
<1>8. Cuts = { x \in Second!V : \E y, z \in Second!Near(x) \ {x} :
                 z \notin Second!ReachableBy({ e \in Second!Edges : x \notin {e[1], e[2]} }, y) }
  BY <1>6, SecondReads
<1>9. Second!Cardinality(Cuts) = Len(articulation_points)
  BY <1>5, SecondReads
<1> QED BY <1>5, <1>7, <1>8, <1>9 DEF Second!BridgesAndCutVertices

-----------------------------------------------------------------------------
(* third.cpp, SpanningTree: what is found hangs together, is left by edges *)
(* from the vertices waiting only, and is as near to the root as the       *)
(* breadth-first order says.                                               *)

(* What SpanningTree reads of the graph is what this module says of it.    *)
LEMMA ThirdReads ==
  /\ Third!V = V /\ Third!V' = V' /\ \A x : Third!Near(x) = Near(x)
  /\ \A S : Third!Least(S) = Least(S) /\ Third!Ascending(S) = Ascending(S)
  /\ Third!Edges = Edges
  /\ \A E, x : Third!Within(E, x) = Within(E, x) /\ Third!ReachableBy(E, x) = ReachableBy(E, x)
  /\ Third!CheckDirected(graph) <=> CheckDirected(graph)
  /\ Third!Cardinality(V) = Cardinality(V) /\ Third!Cardinality(tree_edges) = Cardinality(tree_edges)
<1>1. Third!V = V /\ Third!V' = V'
  BY DEF Third!V, Third!Vertices, V, Vertices
<1>2. \A x : Third!Near(x) = Near(x)
  BY DEF Third!Near, Near, Third!adjacency_list, adjacency_list, Third!is_edge, is_edge,
         Third!weight, weight, Third!Vertices, Vertices
<1>3. \A S : Third!Least(S) = Least(S)
  BY DEF Third!Least, Least
<1>4. \A S : Third!Ascending(S) = Ascending(S)
  BY DEF Third!Ascending, Ascending, Third!Cardinality, Cardinality, Third!IsFiniteSet, IsFiniteSet
<1>5. Third!Edges = Edges
  BY <1>1, <1>2 DEF Third!Edges, Edges
<1>6. Third!CheckDirected(graph) <=> CheckDirected(graph)
  BY DEF Third!CheckDirected, CheckDirected, Third!weight, weight, Third!Vertices, Vertices
<1>7. \A E, x : Third!Within(E, x) = Within(E, x) /\ Third!ReachableBy(E, x) = ReachableBy(E, x)
  BY Zenon DEF Third!ReachableBy, ReachableBy, Third!Within, Within, Third!V, Third!Vertices, V, Vertices
<1>8. /\ Third!Cardinality(V) = Cardinality(V)
      /\ Third!Cardinality(tree_edges) = Cardinality(tree_edges)
  BY DEF Third!Cardinality, Cardinality, Third!IsFiniteSet, IsFiniteSet
<1> QED BY <1>1, <1>2, <1>3, <1>4, <1>5, <1>6, <1>7, <1>8

-----------------------------------------------------------------------------
(* The levels of the tree and of the graph.                                *)
Depth == Within(tree_edges, start_vertex)
Distance == Within(Edges, start_vertex)

Under(x) == ReachableBy(tree_edges, x)

ThirdTree ==
  /\ tree_edges \subseteq Edges
  /\ IsFiniteSet(tree_edges)
  /\ pc \in {"search", "done"} => Cardinality(found) = Cardinality(tree_edges) + 1
  /\ \A x \in found : Lists(waiting, x) \/ Near(x) \subseteq found

ThirdBegun ==
  /\ graph \in Graphs
  /\ pc = "start" => found = {} /\ tree_edges = {}
  /\ pc # "search" => waiting = <<>>
  /\ pc \in {"search", "done"} => ~CheckDirected(graph) /\ start_vertex \in found
  /\ pc = "done" => found = V

(* What is found is as near in the tree as in the graph, and the queue     *)
(* takes the vertices as they are near, with a difference of one at most.  *)
Nearest ==
  \A k \in 0..Len(graph) :
    /\ Distance[k] \cap found \subseteq Depth[k]
    /\ \A i, j \in DOMAIN waiting : i <= j /\ waiting[j] \in Depth[k] => waiting[i] \in Depth[k]
    /\ \A x, y : Lists(waiting, x) /\ Lists(waiting, y) /\ x \in Depth[k] /\ k < Len(graph)
                   => y \in Depth[k + 1]

(* The pending calls are a path in the tree, and it has no cross edges.    *)
NoCross ==
  /\ \A i, j \in DOMAIN waiting : i <= j => waiting[j] \in Under(waiting[i])
  /\ \A x \in found : \A y \in Near(x) \cap found : y \in Under(x) \/ x \in Under(y)

ThirdInv ==
  /\ Third!TypeOK /\ ThirdBegun /\ ThirdTree
  /\ pc \in {"search", "done"} =>
       (algorithm = "bfs" => Nearest) /\ (algorithm = "dfs" => NoCross)

(* What the invariant says about types, and about the neighbours not found *)
(* yet.                                                                    *)
LEMMA ThirdTypes ==
  ASSUME ThirdInv
  PROVE  /\ graph \in Graphs /\ found \subseteq V /\ tree_edges \subseteq found \X found
         /\ waiting \in Seq(found) /\ IsFiniteSet(found) /\ found \subseteq Int
         /\ \A x : Lists(waiting, x) => x \in found
         /\ \A x : /\ Third!Found(x) = Near(x) \ found /\ Third!Found(x) \in SUBSET V
                   /\ IsFiniteSet(Third!Found(x)) /\ Third!Found(x) \subseteq Int
         /\ algorithm \in {"bfs", "dfs"} /\ start_vertex \in V \cup {1}
<1>1. /\ graph \in Graphs /\ found \subseteq V /\ tree_edges \subseteq found \X found
      /\ waiting \in Seq(found)
      /\ algorithm \in {"bfs", "dfs"} /\ start_vertex \in V \cup {1}
  BY ThirdReads DEF ThirdInv, ThirdBegun, Third!TypeOK
<1>2. \A x : Lists(waiting, x) => x \in found
  BY <1>1 DEF Lists
<1>3. \A x : Third!Found(x) = Near(x) \ found
  BY ThirdReads DEF Third!Found
<1> QED BY <1>1, <1>2, <1>3, GraphFacts

(* A new SpanningTree.                                                     *)
LEMMA ThirdInit ==
  ASSUME graph \in Graphs, pc = "start", Third!New
  PROVE  ThirdInv
<1> USE DEF Third!New
<1>1. Third!TypeOK
  BY ThirdReads DEF Third!TypeOK
<1> QED BY <1>1, FS_EmptySet DEF ThirdInv, ThirdBegun, ThirdTree

(* The notions of the invariant depend on the graph and the tree only.     *)
LEMMA ThirdSame ==
  ASSUME UNCHANGED <<graph, start_vertex, algorithm, found, tree_edges, waiting>>
  PROVE  /\ V' = V /\ \A x : Near(x)' = Near(x) /\ Edges' = Edges
         /\ Nearest' = Nearest /\ NoCross' = NoCross
         /\ CheckDirected(graph)' <=> CheckDirected(graph)
<1>1. Depth' = Depth /\ Distance' = Distance
  BY GraphSame DEF Depth, Distance
<1>2. \A x : Under(x)' = Under(x)
  BY GraphSame DEF Under
<1>3. Nearest' = Nearest
  BY <1>1, GraphSame DEF Nearest, Lists
<1>4. NoCross' = NoCross
  BY <1>2, GraphSame DEF NoCross
<1> QED BY <1>3, <1>4, GraphSame

(* Steps outside the search, and what stutters.                            *)
LEMMA ThirdStill ==
  ASSUME ThirdInv, UNCHANGED <<graph, vars3>>,
         \/ pc' = pc
         \/ pc' \in {"error", "undefined"} /\ waiting = <<>>
         \/ pc = "search" /\ pc' = "done" /\ found = V /\ waiting = <<>>
  PROVE  ThirdInv'
<1>1. Third!TypeOK'
  BY ThirdReads, ThirdSame DEF ThirdInv, Third!TypeOK, vars3
<1>2. ThirdBegun'
  BY ThirdSame DEF ThirdInv, ThirdBegun, vars3
<1>3. ThirdTree'
  BY ThirdSame DEF ThirdInv, ThirdTree, Lists, vars3
<1> QED BY <1>1, <1>2, <1>3, ThirdSame DEF ThirdInv, vars3

(* The ways out of the constructor, with an exception or without.          *)
LEMMA ThirdRefuse ==
  ASSUME ThirdInv, Third!Refuse \/ Third!OutOfRange \/ Third!Check \/ UNCHANGED <<graph, pc, vars3>>
  PROVE  ThirdInv'
<1> USE ThirdReads DEF vars3, Third!arguments
<1>1. CASE UNCHANGED <<graph, pc, vars3>>
  BY <1>1, ThirdStill
<1>2. CASE Third!Refuse
  BY <1>2, ThirdStill DEF ThirdInv, ThirdBegun, Third!Refuse
<1>3. CASE Third!OutOfRange
  BY <1>3, ThirdStill DEF ThirdInv, ThirdBegun, Third!OutOfRange
<1>4. CASE Third!Check
  BY <1>4, ThirdStill DEF ThirdInv, ThirdBegun, Third!Check
<1> QED BY <1>1, <1>2, <1>3, <1>4

(* The search begins with its root.                                        *)
LEMMA ThirdStart ==
  ASSUME ThirdInv, Third!Start
  PROVE  ThirdInv'
<1> DEFINE s == start_vertex
<1>1. /\ pc = "start" /\ pc' = "search" /\ ~CheckDirected(graph) /\ s \in V
      /\ found' = {s} /\ waiting' = <<s>>
      /\ UNCHANGED <<graph, algorithm, start_vertex, tree_edges>>
  BY ThirdReads DEF Third!Start, Third!arguments
<1>2. graph \in Graphs /\ tree_edges = {}
  BY <1>1 DEF ThirdInv, ThirdBegun
<1>3. /\ V' = V /\ \A x : Near(x)' = Near(x) /\ Edges' = Edges
      /\ CheckDirected(graph)' <=> CheckDirected(graph)
  BY <1>1, GraphSame
<1>4. waiting' \in Seq({s}) /\ DOMAIN waiting' = {1} /\ waiting'[1] = s
  BY <1>1
<1>5. \A x : Lists(waiting, x)' <=> x = s
  BY <1>4 DEF Lists
<1>6. Third!TypeOK'
  BY <1>1, <1>2, <1>3, <1>4, ThirdReads DEF ThirdInv, Third!TypeOK
<1>7. ThirdBegun'
  BY <1>1, <1>2, <1>3 DEF ThirdBegun
<1>8. ThirdTree'
  <2>1. IsFiniteSet(tree_edges) /\ Cardinality(tree_edges) = 0
    BY <1>2, FS_EmptySet, Zenon
  <2>2. Cardinality({s}) = 1
    BY FS_Singleton
  <2>3. IsFiniteSet(tree_edges') /\ Cardinality(found') = Cardinality(tree_edges') + 1
    BY <1>1, <2>1, <2>2
  <2>4. tree_edges' \subseteq Edges'
    BY <1>1, <1>2, <1>3
  <2> QED BY <1>1, <1>5, <2>3, <2>4 DEF ThirdTree
<1>9. Nearest'
  <2>1. \A k \in 0..Len(graph) : s \in Depth'[k]
    <3>1. \A k \in 0..Len(graph) : s \in Within({}, s)[k]
      BY <1>1, <1>2, WithinLaw, WithinGrows, GraphFacts
    <3>2. Depth' = Within({}, s)
      BY <1>1, <1>2, GraphSame DEF Depth
    <3> QED BY <3>1, <3>2
  <2>2. Len(graph) \in Nat /\ \A k \in 0..Len(graph) : k < Len(graph) => k + 1 \in 0..Len(graph)
    BY <1>2, GraphFacts
  <2> QED BY <1>1, <1>4, <1>5, <2>1, <2>2 DEF Nearest
<1>10. NoCross'
  <2>1. s \in Under(s)'
    <3>1. Under(s)' = ReachableBy({}, s)
      BY <1>1, <1>2, GraphSame DEF Under
    <3> QED BY <1>1, <1>2, <3>1, ReachLaw
  <2> QED BY <1>1, <1>4, <2>1 DEF NoCross
<1> QED BY <1>6, <1>7, <1>8, <1>9, <1>10 DEF ThirdInv

(* New vertices are attached to u, one that waits; what no longer waits    *)
(* has only neighbours that are found.                                     *)
LEMMA ThirdAttach ==
  ASSUME ThirdInv, pc = "search", UNCHANGED <<graph, pc, algorithm, start_vertex>>,
         NEW u, Lists(waiting, u), NEW S, S \subseteq Near(u) \ found, Third!Attach(u, S),
         waiting' \in Seq(found \cup S), \A x \in S : Lists(waiting', x),
         \A x : Lists(waiting, x) => Lists(waiting', x) \/ Near(x) \subseteq found \cup S
  PROVE  /\ Third!TypeOK' /\ ThirdBegun' /\ ThirdTree'
         /\ found' = found \cup S /\ tree_edges' = tree_edges \cup ({u} \X S)
         /\ u \in found /\ S \in SUBSET V /\ S \cap found = {}
         /\ tree_edges \subseteq found \X found /\ start_vertex \in found /\ start_vertex \in V
         /\ graph \in Graphs
<1>1. found' = found \cup S /\ tree_edges' = tree_edges \cup ({u} \X S)
  BY DEF Third!Attach
<1>2. /\ graph \in Graphs /\ found \subseteq V /\ tree_edges \subseteq found \X found
      /\ IsFiniteSet(found) /\ u \in found
      /\ algorithm \in {"bfs", "dfs"} /\ start_vertex \in V \cup {1}
      /\ start_vertex \in found /\ start_vertex \in V
      /\ S \in SUBSET V /\ S \cap found = {}
  BY ThirdTypes, GraphFacts DEF ThirdInv, ThirdBegun
<1>3. /\ V' = V /\ \A x : Near(x)' = Near(x) /\ Edges' = Edges
      /\ CheckDirected(graph)' <=> CheckDirected(graph)
  BY GraphSame
<1>4. Third!TypeOK'
  BY <1>1, <1>2, <1>3, ThirdReads DEF ThirdInv, Third!TypeOK
<1>5. ThirdBegun'
  BY <1>1, <1>2, <1>3 DEF ThirdInv, ThirdBegun
<1>6. \A x \in S : <<u, x>> \in Edges
  BY <1>2 DEF Edges
<1>7. {u} \X S \subseteq Edges
  BY <1>6
<1>8. /\ IsFiniteSet(tree_edges') /\ Cardinality(found') = Cardinality(tree_edges') + 1
  <2> DEFINE P == {u} \X S
  <2>1. IsFiniteSet(S) /\ IsFiniteSet({u}) /\ Cardinality({u}) = 1
    BY <1>2, GraphFacts, FS_Singleton
  <2>2. IsFiniteSet(P) /\ Cardinality(P) = Cardinality({u}) * Cardinality(S)
    BY <2>1, FS_Product
  <2>3. P \cap tree_edges = {}
    BY <1>2
  <2>4. IsFiniteSet(tree_edges) /\ Cardinality(found) = Cardinality(tree_edges) + 1
    BY DEF ThirdInv, ThirdTree
  <2> HIDE DEF P
  <2>5. /\ Cardinality(S) \in Nat /\ Cardinality(P) \in Nat /\ Cardinality(tree_edges) \in Nat
        /\ Cardinality(P) = Cardinality(S) /\ Cardinality({}) = 0
    BY <2>1, <2>2, <2>4, FS_CardinalityType, FS_EmptySet
  <2>6. /\ IsFiniteSet(tree_edges \cup P)
        /\ Cardinality(tree_edges \cup P)
             = Cardinality(tree_edges) + Cardinality(P) - Cardinality(tree_edges \cap P)
    BY <2>2, <2>4, FS_Union
  <2>7. Cardinality(found \cup S) = Cardinality(found) + Cardinality(S) - Cardinality(found \cap S)
    BY <1>2, <2>1, FS_Union
  <2>8. Cardinality(tree_edges \cap P) = 0 /\ Cardinality(found \cap S) = 0
    <3>1. tree_edges \cap P = {} /\ found \cap S = {}
      BY <1>2, <2>3
    <3> QED BY <2>5, <3>1, Zenon
  <2>9. /\ Cardinality(tree_edges \cup P) = Cardinality(tree_edges) + Cardinality(S)
        /\ Cardinality(found \cup S) = Cardinality(found) + Cardinality(S)
    BY <2>4, <2>5, <2>6, <2>7, <2>8
  <2>10. tree_edges' = tree_edges \cup P /\ found' = found \cup S
    BY <1>1 DEF P
  <2>11. Cardinality(found \cup S) = Cardinality(tree_edges \cup P) + 1
    BY <2>4, <2>5, <2>9
  <2> QED BY <2>6, <2>10, <2>11
<1>9. ThirdTree'
  <2>1. \A x \in found \cup S : Lists(waiting', x) \/ Near(x) \subseteq found \cup S
    BY DEF ThirdInv, ThirdTree
  <2> QED BY <1>1, <1>3, <1>7, <1>8, <2>1 DEF ThirdInv, ThirdTree, Lists
<1> QED BY <1>1, <1>2, <1>4, <1>5, <1>9

(* A vertex not yet found is farther than the head of the queue.           *)
LEMMA ThirdNearer ==
  ASSUME ThirdInv, pc = "search", algorithm = "bfs", waiting # <<>>,
         NEW k \in 0..Len(graph), NEW y \in Distance[k], y \notin found
  PROVE  k > 0 /\ Head(waiting) \in Depth[k - 1]
<1> DEFINE n == Len(graph)
           U == { j \in 0..n : ~(Distance[j] \subseteq found) }
<1>1. /\ graph \in Graphs /\ n \in Nat /\ waiting \in Seq(found) /\ start_vertex \in V
      /\ start_vertex \in found /\ Nearest /\ found \subseteq V
  BY ThirdTypes, GraphFacts DEF ThirdInv, ThirdBegun
<1>2. k \in U
  OBVIOUS
<1>3. PICK m \in U : \A j \in U : m <= j
  <2>1. U \in SUBSET Nat
    OBVIOUS
  <2> HIDE DEF U
  <2> QED BY <1>2, <2>1, LeastNatural
<1>4. Distance[0] = {start_vertex}
  BY <1>1, WithinLaw DEF Distance
<1>5. m \in 1..n /\ m - 1 \in 0..n /\ ~(m <= m - 1) /\ m <= k
  BY <1>1, <1>2, <1>3, <1>4
<1>6. Distance[m - 1] \subseteq found
  BY <1>3, <1>5
<1>7. PICK w : w \in Distance[m] /\ w \notin found
  BY <1>3
<1>8. Distance[m] = Onto(Edges, Distance[m - 1])
  BY <1>1, <1>5, WithinLaw DEF Distance
<1>9. PICK z \in Distance[m - 1] : <<z, w>> \in Edges
  BY <1>6, <1>7, <1>8 DEF Onto
<1>10. w \in Near(z)
  BY <1>9, EdgesArePairs
<1>11. Lists(waiting, z)
  BY <1>6, <1>7, <1>9, <1>10 DEF ThirdInv, ThirdTree
<1>12. z \in Depth[m - 1]
  BY <1>1, <1>5, <1>6, <1>9 DEF Nearest
<1>13. PICK j \in DOMAIN waiting : waiting[j] = z
  BY <1>11 DEF Lists
<1>14. 1 \in DOMAIN waiting /\ 1 <= j /\ Head(waiting) = waiting[1]
  BY <1>1, <1>13
<1>15. Head(waiting) \in Depth[m - 1]
  BY <1>1, <1>5, <1>12, <1>13, <1>14 DEF Nearest
<1>16. k > 0 /\ k - 1 \in (m - 1)..n /\ m - 1 \in 0..n
  BY <1>1, <1>5
<1>17. Depth[m - 1] \subseteq Depth[k - 1]
  BY <1>1, <1>16, WithinGrows DEF Depth
<1> QED BY <1>15, <1>16, <1>17

(* What waits after a vertex leaves and others come.                       *)
LEMMA ThirdQueue ==
  ASSUME NEW X, NEW q \in Seq(X), q # <<>>, NEW S, IsFiniteSet(S), S \subseteq Int
  PROVE  \A i \in DOMAIN Requeued(q, S) :
           \/ /\ i + 1 \in DOMAIN q /\ Requeued(q, S)[i] = q[i + 1]
           \/ /\ Requeued(q, S)[i] \in S
              /\ \A j \in DOMAIN Requeued(q, S) : i <= j => Requeued(q, S)[j] \in S
<1> DEFINE a == Ascending(S)  t == Tail(q)  e == t \o a
<1>1. /\ t \in Seq(X) /\ Len(t) = Len(q) - 1
      /\ \A k \in 1..Len(t) : t[k] = q[k + 1]
  BY HeadTailProperties
<1>2. a \in Seq(S)
  BY AscendingLists
<1>3. Len(q) \in Nat /\ DOMAIN q = 1..Len(q)
  OBVIOUS
<1> HIDE DEF a, t
<1>4. /\ Len(e) = Len(t) + Len(a) /\ Len(t) \in Nat /\ Len(a) \in Nat /\ DOMAIN e = 1..Len(e)
      /\ \A i \in 1..Len(e) : e[i] = IF i <= Len(t) THEN t[i] ELSE a[i - Len(t)]
  BY <1>1, <1>2
<1>5. \A i \in 1..Len(e) : i > Len(t) => e[i] \in S
  <2> SUFFICES ASSUME NEW i \in 1..Len(e), i > Len(t) PROVE e[i] \in S
    OBVIOUS
  <2>1. i - Len(t) \in 1..Len(a) /\ e[i] = a[i - Len(t)]
    BY <1>4
  <2> QED BY <1>2, <2>1
<1>6. \A i \in 1..Len(e) : i <= Len(t) => i + 1 \in DOMAIN q /\ e[i] = q[i + 1]
  BY <1>1, <1>3, <1>4
<1>7. Requeued(q, S) = e
  BY DEF Requeued, a, t, e
<1> HIDE DEF e
<1>8. \A i \in 1..Len(e) : i > Len(t) => \A j \in 1..Len(e) : i <= j => e[j] \in S
  BY <1>4, <1>5
<1>9. \A i \in 1..Len(e) : i <= Len(t) \/ i > Len(t)
  BY <1>4
<1> QED BY <1>4, <1>5, <1>6, <1>7, <1>8, <1>9

(* bfs takes the head of its queue and hangs the neighbours not yet found  *)
(* on it.                                                                  *)
LEMMA ThirdPop ==
  ASSUME ThirdInv, Third!Pop
  PROVE  ThirdInv'
<1> DEFINE n == Len(graph)
<1>0. PICK u, S : u = Head(waiting) /\ S = Near(u) \ found
  OBVIOUS
<1>1. /\ pc = "search" /\ algorithm = "bfs" /\ waiting # <<>>
      /\ Third!Attach(u, S) /\ waiting' = Requeued(waiting, S)
      /\ UNCHANGED <<graph, pc, algorithm, start_vertex>>
  BY <1>0, ThirdReads, ThirdTypes DEF Third!Pop, Third!Searching, Third!arguments, Requeued
<1>2. /\ waiting \in Seq(found) /\ IsFiniteSet(S) /\ S \subseteq Int
      /\ S \subseteq Near(u) \ found /\ Near(u) \subseteq found \cup S
  BY <1>0, ThirdTypes
<1>3. Lists(waiting, u) /\ 1 \in DOMAIN waiting /\ u = waiting[1]
  BY <1>0, <1>1, <1>2, WithoutHead
<1>4. /\ waiting' \in Seq(found \cup S)
      /\ \A x : Lists(waiting, x) => x = u \/ Lists(waiting', x)
      /\ \A x \in S : Lists(waiting', x)
      /\ \A x : Lists(waiting', x) => Lists(waiting, x) \/ x \in S
  <2>1. waiting \in Seq(found) /\ waiting # <<>> /\ IsFiniteSet(S) /\ S \subseteq Int
    BY <1>1, <1>2
  <2>2. /\ Requeued(waiting, S) \in Seq(found \cup S)
        /\ \A x : Lists(waiting, x) => x = Head(waiting) \/ Lists(Requeued(waiting, S), x)
        /\ \A x \in S : Lists(Requeued(waiting, S), x)
        /\ \A x : Lists(Requeued(waiting, S), x) => Lists(waiting, x) \/ x \in S
    BY <2>1, QueueExtended
  <2> QED BY <1>0, <1>1, <2>2
<1>5. /\ Third!TypeOK' /\ ThirdBegun' /\ ThirdTree'
      /\ found' = found \cup S /\ tree_edges' = tree_edges \cup ({u} \X S)
      /\ u \in found /\ S \in SUBSET V /\ S \cap found = {}
      /\ tree_edges \subseteq found \X found /\ start_vertex \in found /\ start_vertex \in V
      /\ graph \in Graphs
  <2>1. \A x : Lists(waiting, x) => Lists(waiting', x) \/ Near(x) \subseteq found \cup S
    BY <1>2, <1>4
  <2>2. S \subseteq Near(u) \ found
    BY <1>2
  <2> QED BY <1>1, <1>3, <1>4, <2>1, <2>2, ThirdAttach
<1>6. n \in Nat /\ Nearest
  BY <1>1, <1>5, GraphFacts DEF ThirdInv
<1>7. \A k \in 0..n : \A y : y \in Depth'[k] <=> y \in Depth[k] \/ (k > 0 /\ u \in Depth[k - 1] /\ y \in S)
  <2>1. Depth' = Within(tree_edges \cup ({u} \X S), start_vertex)
    BY <1>1, <1>5, GraphSame DEF Depth
  <2>2. /\ graph \in Graphs /\ tree_edges \subseteq found \X found
        /\ start_vertex \in V /\ start_vertex \in found
        /\ u \in found /\ S \in SUBSET V /\ S \cap found = {}
    BY <1>5
  <2>3. ASSUME NEW k \in 0..n, NEW y
        PROVE  y \in Within(tree_edges \cup ({u} \X S), start_vertex)[k] <=>
                 \/ y \in Within(tree_edges, start_vertex)[k]
                 \/ k > 0 /\ u \in Within(tree_edges, start_vertex)[k - 1] /\ y \in S
    BY <2>2, WithinAttached
  <2> QED BY <2>1, <2>3 DEF Depth
<1>8. \A k \in 0..n : Depth[k] \subseteq found
  BY <1>5, WithinStays DEF Depth
<1>9. \A k \in 0..n : k > 0 => k - 1 \in 0..n /\ Depth[k - 1] \subseteq Depth[k]
  <2> SUFFICES ASSUME NEW k \in 0..n, k > 0 PROVE k - 1 \in 0..n /\ Depth[k - 1] \subseteq Depth[k]
    OBVIOUS
  <2>1. k - 1 \in 0..n /\ k \in (k - 1)..n
    BY <1>6
  <2> QED BY <1>5, <2>1, WithinGrows DEF Depth
<1>10. Distance' = Distance /\ n' = n
  BY <1>1, GraphSame DEF Distance
(* What waits first is in a level if anything that waits is, and then all  *)
(* that waits is in the next.                                              *)
<1>11. \A k \in 0..n : \A x, y : Lists(waiting, x) /\ Lists(waiting, y) /\ x \in Depth[k] =>
          /\ u \in Depth[k]
          /\ k < n => y \in Depth[k + 1]
  <2> SUFFICES ASSUME NEW k \in 0..n, NEW x, NEW y,
                      Lists(waiting, x), Lists(waiting, y), x \in Depth[k]
               PROVE  u \in Depth[k] /\ (k < n => y \in Depth[k + 1])
    OBVIOUS
  <2>1. PICK j \in DOMAIN waiting : waiting[j] = x
    BY DEF Lists
  <2>2. 1 <= j
    BY <1>2
  <2> QED BY <1>3, <1>6, <2>1, <2>2 DEF Nearest
<1>12. \A k \in 0..n : \A y \in S : y \in Depth'[k] <=> k > 0 /\ u \in Depth[k - 1]
  BY <1>5, <1>7, <1>8
<1>13. \A k \in 0..n : \A y \in found : y \in Depth'[k] <=> y \in Depth[k]
  BY <1>5, <1>7
<1>14. \A x : Lists(waiting, x) => x \in found
  BY ThirdTypes
<1>15. \A k \in 0..n : Distance[k] \cap found' \subseteq Depth'[k]
  <2> SUFFICES ASSUME NEW k \in 0..n, NEW y \in Distance[k], y \in found \cup S PROVE y \in Depth'[k]
    BY <1>5
  <2>1. CASE y \in found
    BY <1>6, <1>13, <2>1 DEF Nearest
  <2>2. CASE y \in S
    BY <1>0, <1>1, <1>5, <1>12, <2>2, ThirdNearer
  <2> QED BY <2>1, <2>2
<1>16. \A k \in 0..n : \A i, j \in DOMAIN waiting' :
          i <= j /\ waiting'[j] \in Depth'[k] => waiting'[i] \in Depth'[k]
  <2> SUFFICES ASSUME NEW k \in 0..n, NEW i \in DOMAIN waiting', NEW j \in DOMAIN waiting',
                      i <= j, waiting'[j] \in Depth'[k]
               PROVE  waiting'[i] \in Depth'[k]
    OBVIOUS
  <2>1. \A l \in DOMAIN waiting' :
          \/ l + 1 \in DOMAIN waiting /\ waiting'[l] = waiting[l + 1]
          \/ waiting'[l] \in S /\ \A m \in DOMAIN waiting' : l <= m => waiting'[m] \in S
    BY <1>1, <1>2, ThirdQueue
  <2>2. CASE waiting'[j] \in S /\ waiting'[i] \in S
    BY <1>12, <2>2
  <2>3. CASE waiting'[j] \in S /\ i + 1 \in DOMAIN waiting /\ waiting'[i] = waiting[i + 1]
    <3>1. k > 0 /\ u \in Depth[k - 1] /\ k - 1 \in 0..n /\ k - 1 < n /\ (k - 1) + 1 = k
      BY <1>6, <1>12, <2>3
    <3>2. Lists(waiting, waiting[i + 1])
      BY <2>3 DEF Lists
    <3> QED BY <1>3, <1>11, <1>13, <1>14, <2>3, <3>1, <3>2
  <2>4. CASE /\ j + 1 \in DOMAIN waiting /\ waiting'[j] = waiting[j + 1]
             /\ i + 1 \in DOMAIN waiting /\ waiting'[i] = waiting[i + 1]
    <3>1. waiting[i + 1] \in found /\ waiting[j + 1] \in found
      BY <1>2, <2>4
    <3>2. i + 1 <= j + 1
      BY <1>2, <1>4
    <3> QED BY <1>6, <1>13, <2>4, <3>1, <3>2 DEF Nearest
  <2> QED BY <2>1, <2>2, <2>3, <2>4
<1>17. \A k \in 0..n : \A x, y : Lists(waiting', x) /\ Lists(waiting', y) /\ x \in Depth'[k] /\ k < n
          => y \in Depth'[k + 1]
  <2> SUFFICES ASSUME NEW k \in 0..n, NEW x, NEW y, Lists(waiting', x), Lists(waiting', y),
                      x \in Depth'[k], k < n
               PROVE  y \in Depth'[k + 1]
    OBVIOUS
  <2>0. k + 1 \in 0..n /\ k + 1 > 0 /\ (k + 1) - 1 = k /\ Depth[k] \subseteq Depth[k + 1]
    <3>1. k + 1 \in 0..n /\ k + 1 > 0 /\ (k + 1) - 1 = k
      BY <1>6
    <3> QED BY <1>9, <3>1
  <2>1. u \in Depth[k]
    <3>1. CASE x \in S
      BY <1>9, <1>12, <3>1
    <3>2. CASE Lists(waiting, x)
      BY <1>11, <1>13, <1>14, <3>2
    <3> QED BY <1>4, <3>1, <3>2
  <2>2. CASE y \in S
    BY <1>12, <2>0, <2>1, <2>2
  <2>3. CASE Lists(waiting, y)
    BY <1>3, <1>11, <1>13, <1>14, <2>0, <2>1, <2>3
  <2> QED BY <1>4, <2>2, <2>3
<1>18. Nearest'
  BY <1>10, <1>15, <1>16, <1>17 DEF Nearest, Lists
<1> QED BY <1>1, <1>5, <1>18 DEF ThirdInv

(* dfs hangs the next neighbour on the top of its stack and calls itself   *)
(* for it.                                                                 *)
LEMMA ThirdDown ==
  ASSUME ThirdInv, Third!Down
  PROVE  ThirdInv'
<1>0. PICK u, v, m : m = Len(waiting) /\ u = waiting[m] /\ v = Least(Near(u) \ found)
  OBVIOUS
<1>1. /\ pc = "search" /\ algorithm = "dfs" /\ waiting # <<>> /\ Near(u) \ found # {}
      /\ Third!Attach(u, {v}) /\ waiting' = Append(waiting, v)
      /\ UNCHANGED <<graph, pc, algorithm, start_vertex>>
  BY <1>0, ThirdReads, ThirdTypes DEF Third!Down, Third!Searching, Third!arguments, Third!Top
<1>2. /\ waiting \in Seq(found) /\ v \in Near(u) \ found /\ m \in Nat /\ m \in DOMAIN waiting
      /\ DOMAIN waiting = 1..m
  <2>1. waiting \in Seq(found) /\ IsFiniteSet(Near(u) \ found) /\ Near(u) \ found \subseteq Int
    BY ThirdTypes
  <2> QED BY <1>0, <1>1, <2>1, LeastIsLeast
<1>3. /\ waiting' \in Seq(found \cup {v}) /\ Len(waiting') = m + 1 /\ waiting'[m + 1] = v
      /\ \A k \in 1..m : waiting'[k] = waiting[k]
      /\ \A x : Lists(waiting', x) <=> Lists(waiting, x) \/ x = v
  <2>1. waiting \in Seq(found)
    BY <1>2
  <2>2. \A x : Lists(Append(waiting, v), x) <=> Lists(waiting, x) \/ x = v
    BY <2>1, WithNew
  <2>3. /\ Append(waiting, v) \in Seq(found \cup {v})
        /\ Len(Append(waiting, v)) = Len(waiting) + 1 /\ Append(waiting, v)[Len(waiting) + 1] = v
        /\ \A k \in 1..Len(waiting) : Append(waiting, v)[k] = waiting[k]
    BY <2>1
  <2> QED BY <1>0, <1>1, <2>2, <2>3
<1>4. Lists(waiting, u)
  BY <1>0, <1>2 DEF Lists
<1>5. /\ Third!TypeOK' /\ ThirdBegun' /\ ThirdTree'
      /\ found' = found \cup {v} /\ tree_edges' = tree_edges \cup ({u} \X {v})
      /\ u \in found /\ graph \in Graphs /\ v \in V
  BY <1>1, <1>2, <1>3, <1>4, ThirdAttach
<1>6. NoCross /\ ~CheckDirected(graph) /\ found \subseteq V /\ \A x : Near(x) \subseteq V
  BY <1>1, ThirdTypes, GraphFacts DEF ThirdInv, ThirdBegun
<1>7. \A x \in V : Under(x) \subseteq Under(x)'
  <2>1. \A x : Under(x)' = ReachableBy(tree_edges \cup ({u} \X {v}), x)
    BY <1>1, <1>5, GraphSame DEF Under
  <2>2. \A x \in V : ReachableBy(tree_edges, x) \subseteq ReachableBy(tree_edges \cup ({u} \X {v}), x)
    BY <1>5, ReachMore
  <2> QED BY <2>1, <2>2 DEF Under
<1>8. \A x \in V : u \in Under(x) => v \in Under(x)'
  <2>1. \A x : Under(x)' = ReachableBy(tree_edges', x)
    BY <1>1, GraphSame DEF Under
  <2>2. <<u, v>> \in tree_edges'
    BY <1>5
  <2> SUFFICES ASSUME NEW x \in V, u \in Under(x) PROVE v \in Under(x)'
    OBVIOUS
  <2>3. u \in ReachableBy(tree_edges', x)
    BY <1>7, <2>1
  <2> QED BY <1>5, <2>1, <2>2, <2>3, ReachLaw
<1>9. v \in Under(v)'
  <2>1. Under(v)' = ReachableBy(tree_edges', v)
    BY <1>1, GraphSame DEF Under
  <2> QED BY <1>5, <2>1, ReachLaw
<1>10. \A x : Lists(waiting, x) => x \in V /\ v \in Under(x)'
  <2> SUFFICES ASSUME NEW i \in 1..m, NEW x, x = waiting[i] PROVE x \in V /\ v \in Under(x)'
    BY <1>2 DEF Lists
  <2>1. x \in V /\ i <= m /\ i \in DOMAIN waiting
    BY <1>2, <1>6
  <2>2. u \in Under(x)
    BY <1>0, <1>2, <1>6, <2>1 DEF NoCross
  <2> QED BY <1>8, <2>1, <2>2
<1>11. \A i, j \in DOMAIN waiting' : i <= j => waiting'[j] \in Under(waiting[i])'
  <2> SUFFICES ASSUME NEW i \in 1..(m + 1), NEW j \in 1..(m + 1), i <= j,
                      NEW x, x = waiting'[i], NEW y, y = waiting'[j]
               PROVE  y \in Under(x)'
    BY <1>3
  <2>1. CASE j = m + 1 /\ i = m + 1
    BY <1>3, <1>9, <2>1
  <2>2. CASE j = m + 1 /\ i \in 1..m
    BY <1>2, <1>3, <1>10, <2>2 DEF Lists
  <2>3. CASE j \in 1..m /\ i \in 1..m
    <3>1. x = waiting[i] /\ y = waiting[j] /\ i \in DOMAIN waiting /\ j \in DOMAIN waiting
      BY <1>2, <1>3, <2>3
    <3>2. y \in Under(x) /\ x \in V
      BY <1>2, <1>6, <3>1 DEF NoCross
    <3> QED BY <1>7, <3>2
  <2> QED BY <1>2, <2>1, <2>2, <2>3
<1>12. \A x \in found' : \A y \in Near(x) \cap found' : y \in Under(x)' \/ x \in Under(y)'
  <2>1. \A x \in found : v \in Near(x) => v \in Under(x)'
    BY <1>2, <1>10 DEF ThirdInv, ThirdTree
  <2>2. \A x \in found : x \in Near(v) => v \in Near(x)
    BY <1>5, <1>6, GraphFacts
  <2>3. \A x \in found : \A y \in Near(x) \cap found : y \in Under(x)' \/ x \in Under(y)'
    BY <1>6, <1>7 DEF NoCross
  <2> QED BY <1>5, <1>9, <2>1, <2>2, <2>3
<1>13. NoCross'
  BY <1>1, <1>11, <1>12, GraphSame DEF NoCross
<1> QED BY <1>1, <1>5, <1>13 DEF ThirdInv

(* A call of dfs returns: no neighbour of its vertex is left.              *)
LEMMA ThirdUp ==
  ASSUME ThirdInv, Third!Up
  PROVE  ThirdInv'
<1>0. PICK u, m : m = Len(waiting) /\ u = waiting[m]
  OBVIOUS
<1>1. /\ pc = "search" /\ algorithm = "dfs" /\ waiting # <<>> /\ Near(u) \ found = {}
      /\ waiting' = SubSeq(waiting, 1, m - 1)
      /\ UNCHANGED <<graph, pc, algorithm, start_vertex, found, tree_edges>>
  BY <1>0, ThirdReads, ThirdTypes DEF Third!Up, Third!Searching, Third!arguments, Third!Top
<1>2. /\ waiting \in Seq(found) /\ m \in Nat /\ DOMAIN waiting = 1..m
  BY <1>0, ThirdTypes
<1>3. /\ waiting' \in Seq(found) /\ Len(waiting') = m - 1
      /\ \A k \in 1..(m - 1) : waiting'[k] = waiting[k]
      /\ \A x : Lists(waiting, x) <=> x = u \/ Lists(waiting', x)
  <2>1. /\ SubSeq(waiting, 1, Len(waiting) - 1) \in Seq(found)
        /\ Len(SubSeq(waiting, 1, Len(waiting) - 1)) = Len(waiting) - 1
        /\ \A k \in 1..(Len(waiting) - 1) : SubSeq(waiting, 1, Len(waiting) - 1)[k] = waiting[k]
        /\ \A x : Lists(waiting, x)
               <=> x = waiting[Len(waiting)] \/ Lists(SubSeq(waiting, 1, Len(waiting) - 1), x)
    BY <1>1, <1>2, WithoutLast
  <2> QED BY <1>0, <1>1, <2>1
<1>4. /\ V' = V /\ \A x : Near(x)' = Near(x) /\ Edges' = Edges
      /\ CheckDirected(graph)' <=> CheckDirected(graph)
  BY <1>1, GraphSame
<1>5. Third!TypeOK'
  BY <1>1, <1>3, <1>4, ThirdReads DEF ThirdInv, Third!TypeOK
<1>6. ThirdBegun'
  BY <1>1, <1>4 DEF ThirdInv, ThirdBegun
<1>7. ThirdTree'
  <2>1. \A x \in found : Lists(waiting', x) \/ Near(x) \subseteq found
    BY <1>1, <1>3 DEF ThirdInv, ThirdTree
  <2> QED BY <1>1, <1>4, <2>1 DEF ThirdInv, ThirdTree, Lists
<1>8. NoCross'
  <2>1. DOMAIN waiting' = 1..(m - 1) /\ \A k \in 1..(m - 1) : k \in DOMAIN waiting
    BY <1>2, <1>3
  <2>2. \A x : Under(x)' = Under(x)
    BY <1>1, GraphSame DEF Under
  <2> QED BY <1>1, <1>3, <1>4, <2>1, <2>2 DEF ThirdInv, NoCross
<1> QED BY <1>1, <1>5, <1>6, <1>7, <1>8 DEF ThirdInv

(* Every step of SpanningTree keeps its invariant.                         *)
LEMMA ThirdStep ==
  ASSUME ThirdInv, Third!Next \/ UNCHANGED <<graph, pc, vars3>>
  PROVE  ThirdInv'
BY ThirdRefuse, ThirdStart, ThirdPop, ThirdDown, ThirdUp, Zenon DEF Third!Next

(* At the end all are found, and the tree has the levels of the graph, or  *)
(* no edge of the graph crosses it.                                        *)
LEMMA ThirdRight == ThirdInv => Third!SearchTree
<1> SUFFICES ASSUME ThirdInv, pc = "done"
             PROVE  /\ Cardinality(tree_edges) = Cardinality(V) - 1
                    /\ algorithm = "bfs" => Depth = Distance
                    /\ algorithm = "dfs" =>
                         \A e \in Edges : e[1] \in Under(e[2]) \/ e[2] \in Under(e[1])
  BY ThirdReads DEF Third!SearchTree, Depth, Distance, Under
<1>1. /\ graph \in Graphs /\ start_vertex \in V /\ found = V /\ IsFiniteSet(V)
      /\ tree_edges \subseteq Edges
  BY ThirdTypes, GraphFacts DEF ThirdInv, ThirdBegun, ThirdTree
<1>2. Cardinality(tree_edges) = Cardinality(V) - 1
  <2>1. Cardinality(tree_edges) \in Nat
    BY FS_CardinalityType DEF ThirdInv, ThirdTree
  <2> QED BY <1>1, <2>1 DEF ThirdInv, ThirdTree
<1>3. ASSUME algorithm = "bfs" PROVE Depth = Distance
  <2>1. \A k \in 0..Len(graph) : Depth[k] \subseteq Distance[k]
    BY <1>1, WithinMore DEF Depth, Distance
  <2>2. \A k \in 0..Len(graph) : Distance[k] \subseteq Depth[k]
    <3>1. \A k \in 0..Len(graph) : Distance[k] \subseteq V
      BY <1>1, WithinLaw DEF Distance
    <3> QED BY <1>1, <1>3, <3>1 DEF ThirdInv, Nearest
  <2>3. DOMAIN Depth = 0..Len(graph) /\ DOMAIN Distance = 0..Len(graph)
    <3>1. ASSUME NEW E PROVE DOMAIN Within(E, start_vertex) = 0..Len(graph)
      BY <1>1, WithinLaw
    <3> QED BY <3>1 DEF Depth, Distance
  <2>4. Depth = [k \in 0..Len(graph) |-> Depth[k]] /\ Distance = [k \in 0..Len(graph) |-> Distance[k]]
    <3>1. ASSUME NEW E
          PROVE  Within(E, start_vertex) = [k \in 0..Len(graph) |-> Within(E, start_vertex)[k]]
      <4>1. Within(E, start_vertex) =
              [k \in 0..Len(graph) |->
                 IF k = 0 THEN {start_vertex} ELSE Onto(E, Within(E, start_vertex)[k - 1])]
        BY <1>1, WithinLaw
      <4> HIDE DEF Within
      <4> QED BY <4>1
    <3> QED BY <3>1 DEF Depth, Distance
  <2>5. \A k \in 0..Len(graph) : Depth[k] = Distance[k]
    BY <2>1, <2>2
  <2> HIDE DEF Depth, Distance
  <2> QED BY <2>4, <2>5
<1>4. ASSUME algorithm = "dfs", NEW e \in Edges
      PROVE  e[1] \in Under(e[2]) \/ e[2] \in Under(e[1])
  <2>0. PICK x \in V : \E y \in Near(x) : e = <<x, y>>
    BY EdgesArePairs, Zenon
  <2>1. PICK y \in Near(x) : e = <<x, y>>
    BY <2>0
  <2>2. y \in V
    BY <1>1, <2>1, GraphFacts
  <2> QED BY <1>1, <1>4, <2>1, <2>2 DEF ThirdInv, NoCross
<1> QED BY <1>2, <1>3, <1>4

-----------------------------------------------------------------------------
(* seventh.cpp, StronglyConnectedComponents: the order of the first pass   *)
(* has from every class its last vertex after all that the class reaches;  *)
(* the second pass therefore collects classes.                             *)

(* What StronglyConnectedComponents reads of the graph is what this module *)
(* says of it.                                                             *)
LEMMA SeventhReads ==
  /\ Seventh!V = V /\ Seventh!V' = V' /\ \A x : Seventh!Near(x) = Near(x)
  /\ \A S : Seventh!Least(S) = Least(S)
  /\ \A E, x : Seventh!ReachableBy(E, x) = ReachableBy(E, x)
  /\ Seventh!Edges = Edges
  /\ \A x, y : Seventh!is_edge(graph, x, y) <=> graph[x][y] # 0
  /\ Seventh!CheckDirected(graph) <=> CheckDirected(graph)
  /\ \A S : Seventh!Cardinality(S) = Cardinality(S)
<1>1. Seventh!V = V /\ Seventh!V' = V'
  BY DEF Seventh!V, Seventh!Vertices, V, Vertices
<1>2. \A x : Seventh!Near(x) = Near(x)
  BY DEF Seventh!Near, Near, Seventh!adjacency_list, adjacency_list, Seventh!is_edge, is_edge,
         Seventh!weight, weight, Seventh!Vertices, Vertices
<1>3. \A S : Seventh!Least(S) = Least(S)
  BY DEF Seventh!Least, Least
<1>4. \A x, y : Seventh!is_edge(graph, x, y) <=> graph[x][y] # 0
  BY DEF Seventh!is_edge, Seventh!weight
<1>5. Seventh!Edges = Edges
  BY <1>1, <1>2 DEF Seventh!Edges, Edges
<1>6. Seventh!CheckDirected(graph) <=> CheckDirected(graph)
  BY DEF Seventh!CheckDirected, CheckDirected, Seventh!weight, weight, Seventh!Vertices, Vertices
<1>7. \A E, x : Seventh!ReachableBy(E, x) = ReachableBy(E, x)
  BY Zenon DEF Seventh!ReachableBy, ReachableBy, Seventh!Within, Within, Seventh!V, Seventh!Vertices, V, Vertices
<1>8. \A S : Seventh!Cardinality(S) = Cardinality(S)
  BY DEF Seventh!Cardinality, Cardinality, Seventh!IsFiniteSet, IsFiniteSet
<1> QED BY <1>1, <1>2, <1>3, <1>4, <1>5, <1>6, <1>7, <1>8

-----------------------------------------------------------------------------
(* What x leads to, its class, and the vertices with an arc to it.         *)
Reach(x) == ReachableBy(Edges, x)

Class(x) == { y \in Reach(x) : x \in Reach(y) }

Back(x) == { y \in V : x \in Near(y) }

(* What is within reach of a vertex, over arcs in their direction.         *)
LEMMA ReachFacts ==
  ASSUME graph \in Graphs
  PROVE  /\ \A x \in V : x \in Reach(x) /\ Reach(x) \in SUBSET V
         /\ \A x \in V : \A z \in Reach(x) : \A y \in Near(z) : y \in Reach(x)
         /\ \A x \in V : \A z \in Reach(x) : Reach(z) \subseteq Reach(x)
         /\ \A S : \A x \in V : x \in S /\ (\A z \in S : Near(z) \subseteq S) => Reach(x) \subseteq S
         /\ \A x : Near(x) \subseteq V
<1>1. \A x : Near(x) \subseteq V
  BY GraphFacts
<1>2. \A x, y : x \in V /\ y \in Near(x) => <<x, y>> \in Edges
  BY EdgesArePairs
<1>3. \A x, y : <<x, y>> \in Edges => y \in Near(x)
  BY EdgesArePairs
<1>4. ASSUME NEW x \in V
      PROVE  /\ x \in Reach(x) /\ Reach(x) \in SUBSET V
             /\ \A z \in Reach(x) : \A y \in Near(z) : y \in Reach(x)
             /\ \A z \in Reach(x) : Reach(z) \subseteq Reach(x)
  <2>1. /\ x \in Reach(x) /\ Reach(x) \in SUBSET V
        /\ \A z \in Reach(x) : \A y \in V : <<z, y>> \in Edges => y \in Reach(x)
    BY <1>4, ReachLaw DEF Reach
  <2>2. \A z \in Reach(x) : \A y \in Near(z) : y \in Reach(x)
    BY <1>1, <1>2, <2>1
  <2>3. \A z \in Reach(x) : Reach(z) \subseteq Reach(x)
    BY <1>4, ReachOn DEF Reach
  <2> QED BY <2>1, <2>2, <2>3
<1>5. ASSUME NEW S, NEW x \in V, x \in S, \A z \in S : Near(z) \subseteq S
      PROVE  Reach(x) \subseteq S
  <2>1. \A z \in S : \A y \in V : <<z, y>> \in Edges => y \in S
    BY <1>3, <1>5
  <2> QED BY <1>5, <2>1, ReachWithin DEF Reach
<1> QED BY <1>1, <1>4, <1>5

(* Mutual reachability: the classes are disjoint.                          *)
LEMMA ClassFacts ==
  ASSUME graph \in Graphs
  PROVE  /\ \A x \in V : x \in Class(x) /\ Class(x) \in SUBSET V
         /\ \A x \in V : \A y \in Class(x) : x \in Class(y) /\ Class(y) = Class(x)
         /\ \A x \in V : \A y \in Class(x) : y \in Reach(x) /\ x \in Reach(y)
<1>1. \A x \in V : x \in Class(x) /\ Class(x) \in SUBSET V
  BY ReachFacts DEF Class
<1>2. ASSUME NEW x \in V, NEW y \in Class(x) PROVE x \in Class(y) /\ Class(y) = Class(x)
  <2>1. y \in V /\ y \in Reach(x) /\ x \in Reach(y)
    BY <1>1 DEF Class
  <2>2. Reach(y) = Reach(x)
    BY <2>1, ReachFacts
  <2>3. \A z \in Reach(x) : y \in Reach(z) <=> x \in Reach(z)
    <3> SUFFICES ASSUME NEW z \in Reach(x) PROVE y \in Reach(z) <=> x \in Reach(z)
      OBVIOUS
    <3>1. z \in V
      BY ReachFacts
    <3> QED BY <2>1, <3>1, ReachFacts
  <2> QED BY <2>1, <2>2, <2>3, ReachFacts DEF Class
<1> QED BY <1>1, <1>2 DEF Class

-----------------------------------------------------------------------------
(* Whatever leads to a vertex of the order has one of its class that is    *)
(* not before it in the order.                                             *)
Late ==
  \A i \in DOMAIN order : \A y \in V : order[i] \in Reach(y) =>
    \E z \in Class(y) : \A j \in DOMAIN order : order[j] = z => i <= j

(* First pass: a call leads to all calls it has made; what is over leads   *)
(* to nothing new, and if it leads to a pending call, one of its class is  *)
(* pending.                                                                *)
FirstPass ==
  /\ classes = <<>>
  /\ \A x : x \in seen <=> Lists(order, x) \/ Lists(calls, x)
  /\ Once(calls) /\ \A x : ~(Lists(order, x) /\ Lists(calls, x))
  /\ \A i, j \in DOMAIN calls : i <= j => calls[j] \in Reach(calls[i])
  /\ \A x : Lists(order, x) => Near(x) \subseteq seen
  /\ \A y, g : Lists(order, y) /\ Lists(calls, g) /\ g \in Reach(y) =>
       \E z \in Class(y) : Lists(calls, z)
  /\ Late

(* Second pass: a collected set is a class, and no arc comes from outside  *)
(* the sets up to it; the one that is being filled is of the class of its  *)
(* root, and all that leads to this is collected or of its class.          *)
Collected(i) ==
  /\ \A x \in classes[i] : classes[i] = Class(x)
  /\ \A x \in classes[i] : \A w \in Back(x) : \E j \in 1..i : w \in classes[j]

Filled(r) ==
  /\ r \in V /\ classes[Len(classes)] \subseteq Class(r)
  /\ \A x : Lists(calls, x) => x \in classes[Len(classes)]
  /\ \A y \in V : r \in Reach(y) => y \in Class(r) \/ \E j \in 1..(Len(classes) - 1) : y \in classes[j]
  /\ \A j \in 1..(Len(classes) - 1) : \A y \in Class(r) : y \notin classes[j]

SecondPass ==
  /\ Late
  /\ \A x \in V : Lists(order, x) \/ x \in seen
  /\ \A x : x \in seen <=> \E i \in 1..Len(classes) : x \in classes[i]
  /\ \A i, j \in 1..Len(classes) : \A x : x \in classes[i] /\ x \in classes[j] => i = j
  /\ \A x \in seen : Lists(calls, x) \/ Back(x) \subseteq seen
  /\ \A i \in 1..Len(classes) : i < Len(classes) \/ calls = <<>> => Collected(i)
  /\ calls # <<>> => Len(classes) # 0 /\ \E r : Filled(r)

SeventhInv ==
  /\ graph \in Graphs /\ Seventh!TypeOK
  /\ pc \in {"start", "error"} => seen = {} /\ order = <<>> /\ calls = <<>> /\ classes = <<>>
  /\ pc = "pass1" => FirstPass
  /\ pc \in {"pass2", "done"} => SecondPass
  /\ pc = "done" => order = <<>> /\ calls = <<>>

(* What the invariant says about types.                                    *)
LEMMA SeventhTypes ==
  ASSUME SeventhInv
  PROVE  /\ graph \in Graphs /\ seen \in SUBSET V /\ IsFiniteSet(seen) /\ seen \subseteq Int
         /\ calls \in Seq(seen) /\ order \in Seq(V) /\ classes \in Seq(SUBSET V)
         /\ Len(classes) \in Nat /\ DOMAIN classes = 1..Len(classes)
         /\ Len(calls) \in Nat /\ Len(order) \in Nat /\ Cardinality(seen) \in Nat
         /\ \A x : Lists(calls, x) => x \in seen
         /\ pc = "pass1" => Cardinality(seen) = Len(order) + Len(calls)
         /\ pc \in {"start", "pass1", "pass2", "done", "error"}
<1>1. /\ graph \in Graphs /\ seen \in SUBSET V
      /\ calls \in Seq(seen) /\ order \in Seq(V) /\ classes \in Seq(SUBSET V)
      /\ pc = "pass1" => Cardinality(seen) = Len(order) + Len(calls)
      /\ pc \in {"start", "pass1", "pass2", "done", "error"}
  BY SeventhReads DEF SeventhInv, Seventh!TypeOK
<1>2. IsFiniteSet(seen) /\ seen \subseteq Int
  BY <1>1, GraphFacts
<1>3. Cardinality(seen) \in Nat
  BY <1>2, FS_CardinalityType
<1> QED BY <1>1, <1>2, <1>3 DEF Lists

(* A new StronglyConnectedComponents.                                      *)
LEMMA SeventhInit ==
  ASSUME graph \in Graphs, pc = "start", Seventh!New
  PROVE  SeventhInv
BY SeventhReads DEF SeventhInv, Seventh!New, Seventh!TypeOK

(* The notions of the invariant depend on the graph only.                  *)
LEMMA SeventhSame ==
  ASSUME graph' = graph
  PROVE  /\ V' = V /\ \A x : Near(x)' = Near(x) /\ Reach(x)' = Reach(x)
                             /\ Class(x)' = Class(x) /\ Back(x)' = Back(x)
<1>1. V' = V /\ \A x : Near(x)' = Near(x) /\ Reach(x)' = Reach(x)
  BY GraphSame DEF Reach
<1> QED BY <1>1 DEF Class, Back

(* The first pass begins with nothing visited, or the graph is refused.    *)
LEMMA SeventhStart ==
  ASSUME SeventhInv, Seventh!Start
  PROVE  SeventhInv'
<1>1. /\ pc = "start" /\ pc' \in {"pass1", "error"}
      /\ UNCHANGED <<graph, seen, order, calls, classes>>
      /\ seen = {} /\ order = <<>> /\ calls = <<>> /\ classes = <<>>
  BY DEF SeventhInv, Seventh!Start
<1>2. V' = V
  BY <1>1, SeventhSame
<1>3. Seventh!TypeOK'
  <2>1. Seventh!Cardinality({}) = 0
    BY SeventhReads, FS_EmptySet
  <2> QED BY <1>1, <1>2, <2>1, SeventhReads DEF SeventhInv, Seventh!TypeOK
<1>4. FirstPass'
  BY <1>1 DEF FirstPass, Late, Lists, Once
<1> QED BY <1>1, <1>3, <1>4 DEF SeventhInv

(* A step of another program, or the end of the second pass.               *)
LEMMA SeventhStutter ==
  ASSUME SeventhInv, UNCHANGED <<graph, seen, order, calls, classes>>,
         pc' = pc \/ (pc = "pass2" /\ pc' = "done" /\ order = <<>> /\ calls = <<>>)
  PROVE  SeventhInv'
<1>1. UNCHANGED <<graph, seen, order, calls, classes>>
  OBVIOUS
<1>2. V' = V /\ \A x : Near(x)' = Near(x) /\ Reach(x)' = Reach(x) /\ Class(x)' = Class(x) /\ Back(x)' = Back(x)
  BY <1>1, SeventhSame
<1>3. Seventh!TypeOK'
  BY <1>1, <1>2, SeventhReads DEF SeventhInv, Seventh!TypeOK
<1>4. Late' <=> Late
  BY <1>1, <1>2 DEF Late
<1>5. FirstPass => FirstPass'
  BY <1>1, <1>2, <1>4 DEF FirstPass, Lists, Once
<1>6. SecondPass => SecondPass'
  <2>1. \A r : Filled(r)' <=> Filled(r)
    BY <1>1, <1>2 DEF Filled, Lists
  <2>2. \A i : Collected(i)' <=> Collected(i)
    BY <1>1, <1>2 DEF Collected
  <2> QED BY <1>1, <1>2, <1>4, <2>1, <2>2 DEF SecondPass, Lists
<1> QED BY <1>1, <1>3, <1>5, <1>6 DEF SeventhInv

(* Nothing that is over leads to a new vertex, unless through a pending one. *)
LEMMA NewIsBeyond ==
  ASSUME graph \in Graphs, FirstPass, seen \in SUBSET V, NEW v, v \notin seen,
         NEW y, Lists(order, y), v \in Reach(y)
  PROVE  \E g : Lists(calls, g) /\ g \in Reach(y)
<1> SUFFICES ASSUME \A g : Lists(calls, g) => g \notin Reach(y) PROVE FALSE
  OBVIOUS
<1>1. y \in V /\ y \in seen
  BY DEF FirstPass
<1> DEFINE S == { x \in Reach(y) : Lists(order, x) }
<1>2. y \in S
  BY <1>1, ReachFacts
<1>3. \A z \in S : Near(z) \subseteq S
  <2> SUFFICES ASSUME NEW z \in S, NEW w \in Near(z) PROVE w \in S
    OBVIOUS
  <2>1. w \in Reach(y) /\ w \in seen
    BY <1>1, ReachFacts DEF FirstPass
  <2> QED BY <2>1 DEF FirstPass
<1>4. Reach(y) \subseteq S
  <2> HIDE DEF S
  <2> QED BY <1>1, <1>2, <1>3, ReachFacts
<1> QED BY <1>4 DEF FirstPass

(* A new vertex is pending on top of the calls, all of which lead to it.   *)
LEMMA SeventhDown1 ==
  ASSUME SeventhInv, pc = "pass1", UNCHANGED <<graph, pc, order, classes>>,
         NEW v \in V \ seen, seen' = seen \cup {v}, calls' = Append(calls, v),
         calls # <<>> => v \in Near(calls[Len(calls)])
  PROVE  SeventhInv'
<1> DEFINE n == Len(calls)
<1>1. /\ FirstPass /\ graph \in Graphs /\ seen \in SUBSET V /\ calls \in Seq(seen) /\ n \in Nat
      /\ Cardinality(seen) = Len(order) + n /\ IsFiniteSet(seen) /\ classes = <<>>
      /\ order \in Seq(V) /\ Len(order) \in Nat
  BY SeventhTypes DEF SeventhInv, FirstPass
<1>2. /\ V' = V /\ \A x : Near(x)' = Near(x) /\ Reach(x)' = Reach(x) /\ Class(x)' = Class(x)
  BY SeventhSame
<1>3. /\ calls' \in Seq(seen \cup {v}) /\ Len(calls') = n + 1 /\ calls'[n + 1] = v
      /\ \A k \in 1..n : calls'[k] = calls[k]
      /\ \A x : Lists(calls', x) <=> Lists(calls, x) \/ x = v
      /\ Once(calls) /\ ~Lists(calls, v) => Once(calls')
  <2>1. /\ Append(calls, v) \in Seq(seen \cup {v})
        /\ Len(Append(calls, v)) = Len(calls) + 1 /\ Append(calls, v)[Len(calls) + 1] = v
        /\ \A k \in 1..Len(calls) : Append(calls, v)[k] = calls[k]
        /\ \A x : Lists(Append(calls, v), x) <=> Lists(calls, x) \/ x = v
        /\ Once(calls) /\ ~Lists(calls, v) => Once(Append(calls, v))
    BY <1>1, WithNew
  <2> QED BY <2>1
<1>4. ~Lists(calls, v) /\ ~Lists(order, v)
  BY <1>1 DEF FirstPass
<1>5. Seventh!TypeOK'
  <2>1. Cardinality(seen') = Cardinality(seen) + 1
    BY <1>1, FS_AddElement
  <2>2. Cardinality(seen') = Len(order) + Len(calls')
    BY <1>1, <1>3, <2>1
  <2>3. Seventh!Cardinality(seen') = Cardinality(seen')
    BY SeventhReads
  <2> QED BY <1>1, <1>2, <1>3, <2>2, <2>3, SeventhReads DEF SeventhInv, Seventh!TypeOK
<1>6. \A i, j \in DOMAIN calls' : i <= j => calls'[j] \in Reach(calls'[i])
  <2> SUFFICES ASSUME NEW i \in 1..(n + 1), NEW j \in 1..(n + 1), i <= j
               PROVE  calls'[j] \in Reach(calls'[i])
    BY <1>3
  <2>1. CASE j \in 1..n
    <3>1. i \in 1..n
      BY <1>1, <2>1
    <3> QED BY <1>1, <1>3, <2>1, <3>1 DEF FirstPass
  <2>2. CASE j = n + 1 /\ i = n + 1
    BY <1>1, <1>3, <2>2, ReachFacts
  <2>3. CASE j = n + 1 /\ i \in 1..n
    <3>1. n \in 1..n /\ calls # <<>>
      BY <1>1, <2>3
    <3>2. calls[n] \in Reach(calls[i]) /\ calls[i] \in V /\ v \in Near(calls[n])
      BY <1>1, <2>3, <3>1 DEF FirstPass
    <3> QED BY <1>1, <1>3, <2>3, <3>2, ReachFacts
  <2> QED BY <1>1, <2>1, <2>2, <2>3
<1>7. \A y, g : Lists(order, y) /\ Lists(calls', g) /\ g \in Reach(y) =>
        \E z \in Class(y) : Lists(calls', z)
  <2> SUFFICES ASSUME NEW y, NEW g, Lists(order, y), Lists(calls', g), g \in Reach(y)
               PROVE  \E z \in Class(y) : Lists(calls, z)
    BY <1>3
  <2>1. \E h : Lists(calls, h) /\ h \in Reach(y)
    BY <1>1, <1>3, NewIsBeyond
  <2> QED BY <1>1, <2>1 DEF FirstPass
<1>8. Late'
  BY <1>1, <1>2 DEF FirstPass, Late
<1>9. FirstPass'
  BY <1>1, <1>2, <1>3, <1>4, <1>6, <1>7, <1>8 DEF FirstPass
<1> QED BY <1>1, <1>5, <1>9 DEF SeventhInv

(* A call of dfs_pass1 returns and its vertex joins order_: what it        *)
(* reaches is in order_ before it, or reaches back to a call that is       *)
(* pending.                                                                *)
LEMMA SeventhUp1 ==
  ASSUME SeventhInv, Seventh!Up1
  PROVE  SeventhInv'
<1> DEFINE n == Len(calls)
<1>0. PICK t : t = calls[n]
  OBVIOUS
<1>1. /\ pc = "pass1" /\ calls # <<>> /\ Near(t) \subseteq seen
      /\ order' = Append(order, t) /\ calls' = SubSeq(calls, 1, n - 1)
      /\ UNCHANGED <<graph, pc, seen, classes>>
  BY <1>0, SeventhReads DEF Seventh!Up1, Seventh!Following, Seventh!Top, Seventh!Pop
<1>2. /\ FirstPass /\ graph \in Graphs /\ seen \in SUBSET V /\ calls \in Seq(seen) /\ n \in Nat
      /\ Cardinality(seen) = Len(order) + n /\ IsFiniteSet(seen) /\ classes = <<>>
      /\ order \in Seq(V) /\ Len(order) \in Nat
  BY <1>1, SeventhTypes DEF SeventhInv, FirstPass
<1>3. /\ V' = V /\ \A x : Near(x)' = Near(x) /\ Reach(x)' = Reach(x) /\ Class(x)' = Class(x)
  BY <1>1, SeventhSame
<1>4. /\ t \in seen /\ Lists(calls, t) /\ calls' \in Seq(seen) /\ Len(calls') = n - 1
      /\ \A k \in 1..(n - 1) : calls'[k] = calls[k]
      /\ \A x : Lists(calls, x) <=> x = t \/ Lists(calls', x)
      /\ Once(calls) => Once(calls') /\ ~Lists(calls', t)
  BY <1>0, <1>1, <1>2, WithoutLast
<1>5. /\ order' \in Seq(V) /\ Len(order') = Len(order) + 1 /\ order'[Len(order) + 1] = t
      /\ \A k \in 1..Len(order) : order'[k] = order[k]
      /\ \A x : Lists(order', x) <=> Lists(order, x) \/ x = t
  <2>1. V \cup {t} = V
    BY <1>2, <1>4
  <2>2. PICK A : A = V
    OBVIOUS
  <2>3. order \in Seq(A)
    BY <1>2, <2>2
  <2>4. /\ Append(order, t) \in Seq(A \cup {t})
        /\ Len(Append(order, t)) = Len(order) + 1 /\ Append(order, t)[Len(order) + 1] = t
        /\ \A k \in 1..Len(order) : Append(order, t)[k] = order[k]
        /\ \A x : Lists(Append(order, t), x) <=> Lists(order, x) \/ x = t
        /\ Once(order) /\ ~Lists(order, t) => Once(Append(order, t))
    BY <2>3, WithNew
  <2> QED BY <1>1, <2>1, <2>2, <2>4
<1>6. n \in 1..n /\ n - 1 \in Nat /\ DOMAIN calls = 1..n /\ DOMAIN calls' = 1..(n - 1)
  BY <1>1, <1>2, <1>4
<1>7. Seventh!TypeOK'
  <2>1. Cardinality(seen') = Len(order') + Len(calls')
    <3>1. seen' = seen /\ Cardinality(seen) = Len(order) + n
      BY <1>1, <1>2
    <3>2. Len(order') = Len(order) + 1 /\ Len(calls') = n - 1
      BY <1>4, <1>5
    <3>3. Len(order) + n = (Len(order) + 1) + (n - 1)
      BY <1>2
    <3> QED BY <3>1, <3>2, <3>3, Zenon
  <2>2. Seventh!Cardinality(seen') = Cardinality(seen')
    BY SeventhReads
  <2> QED BY <1>1, <1>2, <1>3, <1>4, <1>5, <2>1, <2>2, SeventhReads DEF SeventhInv, Seventh!TypeOK
<1>8. \A g : Lists(calls, g) => t \in Reach(g)
  <2> SUFFICES ASSUME NEW k \in 1..n PROVE t \in Reach(calls[k])
    BY <1>6 DEF Lists
  <2>1. k <= n
    BY <1>2
  <2> QED BY <1>0, <1>2, <1>6, <2>1 DEF FirstPass
<1>9. \A y, g : Lists(order', y) /\ Lists(calls', g) /\ g \in Reach(y) =>
        \E z \in Class(y) : Lists(calls', z)
  <2> SUFFICES ASSUME NEW y, NEW g, Lists(order', y), Lists(calls', g), g \in Reach(y)
               PROVE  \E z \in Class(y) : Lists(calls', z)
    OBVIOUS
  <2>1. y \in V /\ g \in V /\ t \in V /\ t \in Reach(g) /\ Lists(calls, g)
    BY <1>2, <1>4, <1>5, <1>8 DEF FirstPass
  <2>2. y \in Reach(t) => g \in Class(y)
    BY <1>2, <2>1, ReachFacts DEF Class
  <2>3. CASE y = t
    BY <1>2, <2>1, <2>2, <2>3, ReachFacts
  <2>4. CASE Lists(order, y)
    <3>1. PICK z \in Class(y) : Lists(calls, z)
      BY <1>2, <2>1, <2>4 DEF FirstPass
    <3>2. CASE z = t
      BY <1>2, <2>1, <2>2, <3>1, <3>2, ClassFacts
    <3> QED BY <1>4, <3>1, <3>2
  <2> QED BY <1>5, <2>3, <2>4
<1>10. Late'
  <2> SUFFICES ASSUME NEW i \in 1..(Len(order) + 1), NEW y \in V, order'[i] \in Reach(y)
               PROVE  \E z \in Class(y) : \A j \in 1..(Len(order) + 1) : order'[j] = z => i <= j
    BY <1>3, <1>5 DEF Late
  <2>1. CASE i \in 1..Len(order)
    <3>1. PICK z \in Class(y) : \A j \in DOMAIN order : order[j] = z => i <= j
      BY <1>2, <1>5, <2>1 DEF FirstPass, Late
    <3>2. \A j \in 1..(Len(order) + 1) : order'[j] = z => i <= j
      <4> SUFFICES ASSUME NEW j \in 1..(Len(order) + 1), order'[j] = z PROVE i <= j
        OBVIOUS
      <4>1. CASE j \in 1..Len(order)
        BY <1>2, <1>5, <3>1, <4>1
      <4>2. CASE j = Len(order) + 1
        BY <1>2, <2>1, <4>2
      <4> QED BY <1>2, <4>1, <4>2
    <3> QED BY <3>1, <3>2
  <2>2. CASE i = Len(order) + 1
    <3>1. \E z \in Class(y) : ~Lists(order, z)
      <4>1. CASE Lists(order, y)
        <5>1. \E z \in Class(y) : Lists(calls, z)
          BY <1>2, <1>4, <1>5, <2>2, <4>1 DEF FirstPass
        <5> QED BY <1>2, <5>1 DEF FirstPass
      <4>2. CASE ~Lists(order, y)
        BY <1>2, <4>2, ClassFacts
      <4> QED BY <4>1, <4>2
    <3>2. PICK z \in Class(y) : ~Lists(order, z)
      BY <3>1
    <3>3. \A j \in 1..(Len(order) + 1) : order'[j] = z => i <= j
      <4> SUFFICES ASSUME NEW j \in 1..(Len(order) + 1), order'[j] = z PROVE i <= j
        OBVIOUS
      <4>1. j \notin 1..Len(order)
        BY <1>2, <1>5, <3>2 DEF Lists
      <4> QED BY <1>2, <2>2, <4>1
    <3> QED BY <3>2, <3>3
  <2> QED BY <1>2, <2>1, <2>2
<1>11. \A i, j \in DOMAIN calls' : i <= j => calls'[j] \in Reach(calls'[i])
  <2> SUFFICES ASSUME NEW i \in 1..(n - 1), NEW j \in 1..(n - 1), i <= j
               PROVE  calls'[j] \in Reach(calls'[i])
    BY <1>6
  <2>1. i \in DOMAIN calls /\ j \in DOMAIN calls
    BY <1>2, <1>6
  <2>2. calls[j] \in Reach(calls[i])
    BY <1>2, <2>1 DEF FirstPass
  <2> QED BY <1>4, <2>2
<1>12. FirstPass'
  <2>1. \A x : x \in seen' <=> Lists(order', x) \/ Lists(calls', x)
    BY <1>1, <1>2, <1>4, <1>5 DEF FirstPass
  <2>2. Once(calls') /\ \A x : ~(Lists(order', x) /\ Lists(calls', x))
    BY <1>1, <1>2, <1>4, <1>5 DEF FirstPass
  <2>3. \A x : Lists(order', x) => Near(x) \subseteq seen
    BY <1>1, <1>2, <1>5 DEF FirstPass
  <2> QED BY <1>1, <1>2, <1>3, <1>9, <1>10, <1>11, <2>1, <2>2, <2>3 DEF FirstPass
<1> QED BY <1>1, <1>2, <1>7, <1>12 DEF SeventhInv

(* The first pass goes on with a vertex that nothing visited so far        *)
(* reaches.                                                                *)
LEMMA SeventhRoot1 ==
  ASSUME SeventhInv, Seventh!Root1
  PROVE  SeventhInv'
<1>1. PICK v : v = Least(V \ seen)
  OBVIOUS
<1>2. /\ pc = "pass1" /\ calls = <<>> /\ seen # V
      /\ seen' = seen \cup {v} /\ calls' = <<v>> /\ UNCHANGED <<graph, pc, order, classes>>
  BY <1>1, SeventhReads DEF Seventh!Root1
<1>3. v \in V \ seen
  <2>1. V \ seen # {} /\ IsFiniteSet(V \ seen) /\ V \ seen \subseteq Int
    BY <1>2, SeventhTypes, GraphFacts
  <2> QED BY <1>1, <2>1, LeastIsLeast
<1>4. calls' = Append(calls, v)
  BY <1>2
<1> QED BY <1>2, <1>3, <1>4, SeventhDown1

(* Between the passes: all vertices are in order_, and visited is cleared. *)
LEMMA SeventhTranspose ==
  ASSUME SeventhInv, Seventh!Transpose
  PROVE  SeventhInv'
<1>1. /\ pc = "pass1" /\ calls = <<>> /\ seen = V /\ seen' = {} /\ pc' = "pass2"
      /\ UNCHANGED <<graph, order, calls, classes>>
  BY SeventhReads DEF Seventh!Transpose
<1>2. V' = V /\ \A x : Near(x)' = Near(x) /\ Reach(x)' = Reach(x) /\ Class(x)' = Class(x) /\ Back(x)' = Back(x)
  BY <1>1, SeventhSame
<1>3. FirstPass /\ graph \in Graphs
  BY <1>1 DEF SeventhInv
<1>4. Seventh!TypeOK'
  BY <1>1, <1>2, SeventhReads DEF SeventhInv, Seventh!TypeOK
<1>5. SecondPass'
  <2>1. Late'
    BY <1>1, <1>2, <1>3 DEF FirstPass, Late
  <2>2. \A x \in V : Lists(order, x)
    BY <1>1, <1>3 DEF FirstPass, Lists
  <2>3. Len(classes) = 0 /\ classes = <<>>
    BY <1>3 DEF FirstPass
  <2> QED BY <1>1, <1>2, <2>1, <2>2, <2>3 DEF SecondPass, Lists
<1> QED BY <1>1, <1>3, <1>4, <1>5 DEF SeventhInv

-----------------------------------------------------------------------------
(* A call of dfs_pass2 returns.                                            *)
LEMMA SeventhReturn2 ==
  ASSUME SeventhInv, Seventh!Up2
  PROVE  SeventhInv'
<1> DEFINE n == Len(calls)
           m == Len(classes)
<1>0. PICK t : t = calls[n]
  OBVIOUS
<1>1. /\ pc = "pass2" /\ calls # <<>> /\ Back(t) \subseteq seen
      /\ calls' = SubSeq(calls, 1, n - 1)
      /\ UNCHANGED <<graph, pc, seen, order, classes>>
  <2>1. graph \in Graphs
    BY DEF SeventhInv
  <2>2. Back(t) = { v \in V : graph[v][t] # 0 } \cap { v \in V : t \in V } \/ t \notin V
    BY <2>1, GraphFacts DEF Back
  <2>3. pc = "pass2" /\ calls # <<>> => t \in V
    <3>1. calls \in Seq(seen) /\ seen \in SUBSET V /\ Len(calls) \in Nat
      BY SeventhTypes
    <3> QED BY <1>0, <3>1
  <2> QED
    BY <1>0, <2>2, <2>3, SeventhReads DEF Seventh!Up2, Seventh!Following, Seventh!Top, Seventh!Pop
<1>2. /\ SecondPass /\ graph \in Graphs /\ seen \in SUBSET V /\ calls \in Seq(seen) /\ n \in Nat
      /\ m \in Nat
  BY <1>1, SeventhTypes DEF SeventhInv
<1>3. /\ V' = V /\ \A x : Near(x)' = Near(x) /\ Reach(x)' = Reach(x) /\ Class(x)' = Class(x) /\ Back(x)' = Back(x)
  BY <1>1, SeventhSame
<1>4. /\ calls' \in Seq(seen)
      /\ \A x : Lists(calls, x) <=> x = t \/ Lists(calls', x)
      /\ \A x : Lists(calls', x) => Lists(calls, x)
  <2>1. \A x : Lists(calls, x) <=> x = calls[Len(calls)] \/ Lists(SubSeq(calls, 1, Len(calls) - 1), x)
    BY <1>1, <1>2, WithoutLast
  <2>2. SubSeq(calls, 1, Len(calls) - 1) \in Seq(seen)
    BY <1>1, <1>2, WithoutLast
  <2> QED BY <1>0, <1>1, <2>1, <2>2
<1>5. Seventh!TypeOK'
  BY <1>1, <1>3, <1>4, SeventhReads DEF SeventhInv, Seventh!TypeOK
<1>6. \A x \in seen : Lists(calls', x) \/ Back(x) \subseteq seen
  BY <1>1, <1>2, <1>4 DEF SecondPass
<1>7. PICK r : Filled(r)
  BY <1>1, <1>2 DEF SecondPass
<1>8. m # 0
  BY <1>1, <1>2 DEF SecondPass
<1>9. Filled(r)'
  BY <1>1, <1>3, <1>4, <1>7 DEF Filled
<1>10. ASSUME calls' = <<>> PROVE Collected(m)
  <2>1. \A x \in seen : Back(x) \subseteq seen
    BY <1>6, <1>10 DEF Lists
  <2>2. \A y \in V : r \in Reach(y) => y \in seen
    <3> SUFFICES ASSUME NEW y \in V, r \in Reach(y), y \notin seen PROVE FALSE
      OBVIOUS
    <3>1. PICK S : S = V \ seen
      OBVIOUS
    <3>2. \A z \in S : Near(z) \subseteq S
      <4> SUFFICES ASSUME NEW z \in S, NEW w \in Near(z), w \notin S PROVE FALSE
        OBVIOUS
      <4>1. w \in V /\ z \in V /\ z \notin seen
        BY <1>2, <3>1, GraphFacts
      <4>2. w \in seen /\ z \in Back(w)
        BY <3>1, <4>1 DEF Back
      <4> QED BY <2>1, <4>1, <4>2
    <3>3. Reach(y) \subseteq S
      BY <1>2, <3>1, <3>2, ReachFacts
    <3>4. r \in seen
      <4>1. r \in V /\ \E x : Lists(calls, x)
        BY <1>4, <1>7 DEF Filled
      <4>2. PICK x : Lists(calls, x)
        BY <4>1
      <4>3. x \in classes[m] /\ x \in Class(r) /\ x \in V
        BY <1>2, <1>7, <4>1, <4>2, ClassFacts DEF Filled
      <4>4. r \in Reach(x) /\ x \in seen
        BY <1>2, <1>8, <4>1, <4>3, ClassFacts DEF SecondPass
      <4>5. \A w \in V : w \notin seen => Near(w) \cap seen = {}
        BY <1>2, <2>1, GraphFacts DEF Back
      <4>6. Reach(y) \cap seen = {}
        BY <3>1, <3>3
      <4>7. x \in Reach(r)
        BY <1>2, <4>1, <4>3, ClassFacts
      <4> QED BY <1>2, <3>1, <4>3, <4>4, <4>6, <4>7, ReachFacts
    <3> QED BY <3>1, <3>3, <3>4
  <2>3. Class(r) \subseteq classes[m]
    <3> SUFFICES ASSUME NEW y \in Class(r) PROVE y \in classes[m]
      OBVIOUS
    <3>1. y \in V /\ r \in Reach(y)
      BY <1>2, <1>7, ClassFacts DEF Filled
    <3>2. PICK i \in 1..m : y \in classes[i]
      BY <1>2, <2>2, <3>1 DEF SecondPass
    <3>3. i \notin 1..(m - 1)
      BY <1>7, <3>2 DEF Filled
    <3> QED BY <1>2, <3>2, <3>3
  <2>4. classes[m] = Class(r)
    BY <1>7, <2>3 DEF Filled
  <2>5. \A x \in classes[m] : classes[m] = Class(x)
    BY <1>2, <1>7, <2>4, ClassFacts DEF Filled
  <2>6. \A x \in classes[m] : \A w \in Back(x) : \E j \in 1..m : w \in classes[j]
    <3>1. m \in 1..m
      BY <1>2, <1>8
    <3> QED BY <1>2, <2>1, <3>1 DEF SecondPass
  <2> QED BY <2>5, <2>6 DEF Collected
<1>11. \A i \in 1..m : i < m \/ calls' = <<>> => Collected(i)
  BY <1>1, <1>2, <1>10 DEF SecondPass
<1>12. \A i : Collected(i)' <=> Collected(i)
  BY <1>1, <1>3 DEF Collected
<1>13. SecondPass'
  <2>1. Late'
    BY <1>1, <1>2, <1>3 DEF SecondPass, Late
  <2>2. /\ \A x \in V' : Lists(order', x) \/ x \in seen'
        /\ \A x : x \in seen' <=> \E i \in 1..Len(classes') : x \in classes'[i]
        /\ \A i, j \in 1..Len(classes') : \A x : x \in classes'[i] /\ x \in classes'[j] => i = j
    BY <1>1, <1>2, <1>3 DEF SecondPass
  <2>3. \A x \in seen' : Lists(calls', x) \/ Back(x)' \subseteq seen'
    BY <1>1, <1>3, <1>6
  <2>4. \A i \in 1..Len(classes') : i < Len(classes') \/ calls' = <<>> => Collected(i)'
    BY <1>1, <1>11, <1>12
  <2>5. calls' # <<>> => Len(classes') # 0 /\ \E q : Filled(q)'
    BY <1>1, <1>8, <1>9
  <2> QED BY <2>1, <2>2, <2>3, <2>4, <2>5 DEF SecondPass
<1> QED BY <1>1, <1>2, <1>5, <1>13 DEF SeventhInv

(* dfs_pass2 goes against an arc: what it finds has the class of the tree, *)
(* because a vertex later in order_ would have been taken before.          *)
LEMMA SeventhDown2 ==
  ASSUME SeventhInv, pc = "pass2", Seventh!Down
  PROVE  SeventhInv'
<1> DEFINE n == Len(calls)
           m == Len(classes)
<1>0. PICK t : t = calls[n]
  OBVIOUS
<1>1. /\ SecondPass /\ graph \in Graphs /\ seen \in SUBSET V /\ calls \in Seq(seen) /\ n \in Nat
      /\ m \in Nat /\ classes \in Seq(SUBSET V) /\ DOMAIN classes = 1..m
  BY SeventhTypes DEF SeventhInv
<1>2. calls # <<>> /\ t \in V
  <2>1. calls # <<>>
    BY DEF Seventh!Down
  <2> QED BY <1>0, <1>1, <2>1
<1>3. Seventh!Following(t) = Back(t) \ seen
  <2>1. { v \in V : graph[v][t] # 0 } = Back(t)
    BY <1>1, <1>2, GraphFacts DEF Back
  <2> QED BY <2>1, SeventhReads DEF Seventh!Following
<1>4. PICK v : v = Least(Back(t) \ seen)
  OBVIOUS
<1>5. /\ Back(t) \ seen # {} /\ seen' = seen \cup {v} /\ calls' = Append(calls, v)
      /\ classes' = [classes EXCEPT ![m] = classes[m] \cup {v}]
      /\ UNCHANGED <<graph, pc, order>>
  <2>1. Seventh!Top = t
    BY <1>0 DEF Seventh!Top
  <2> QED BY <1>3, <1>4, <2>1, SeventhReads DEF Seventh!Down
<1>6. v \in Back(t) \ seen /\ v \in V /\ t \in Near(v)
  <2>1. IsFiniteSet(Back(t) \ seen) /\ Back(t) \ seen \subseteq Int
    BY <1>1, GraphFacts DEF Back
  <2> QED BY <1>4, <1>5, <2>1, LeastIsLeast DEF Back
<1>7. /\ V' = V /\ \A x : Near(x)' = Near(x) /\ Reach(x)' = Reach(x) /\ Class(x)' = Class(x) /\ Back(x)' = Back(x)
  BY <1>5, SeventhSame
<1>8. /\ calls' \in Seq(seen \cup {v}) /\ calls' # <<>>
      /\ \A x : Lists(calls', x) <=> Lists(calls, x) \/ x = v
  <2>1. /\ Append(calls, v) \in Seq(seen \cup {v})
        /\ \A x : Lists(Append(calls, v), x) <=> Lists(calls, x) \/ x = v
    BY <1>1, WithNew
  <2> QED BY <1>1, <1>5, <2>1
<1>9. m # 0 /\ m \in 1..m
  BY <1>1, <1>2 DEF SecondPass
<1>10. /\ classes' \in Seq(SUBSET V) /\ Len(classes') = m
       /\ \A i \in 1..m : i # m => classes'[i] = classes[i]
       /\ classes'[m] = classes[m] \cup {v}
  <2>1. PICK S : S = classes[m] \cup {v}
    OBVIOUS
  <2>2. S \in SUBSET V
    BY <1>1, <1>6, <1>9, <2>1
  <2>3. classes' = [classes EXCEPT ![m] = S]
    BY <1>5, <2>1
  <2>4. classes' \in Seq(SUBSET V) /\ Len(classes') = m
    BY <1>1, <1>9, <2>2, <2>3
  <2> QED BY <1>1, <1>9, <2>1, <2>3, <2>4
<1>11. PICK r : Filled(r)
  BY <1>1, <1>2 DEF SecondPass
<1>12. Seventh!TypeOK'
  BY <1>1, <1>5, <1>6, <1>7, <1>8, <1>10, SeventhReads DEF SeventhInv, Seventh!TypeOK
<1>13. v \in Class(r) /\ \A j \in 1..m : v \notin classes[j]
  <2>1. \A j \in 1..m : v \notin classes[j]
    BY <1>1, <1>6 DEF SecondPass
  <2>2. t \in Class(r) /\ r \in V
    <3>1. Lists(calls, t)
      BY <1>0, <1>1, <1>2 DEF Lists
    <3> QED BY <1>11, <3>1 DEF Filled
  <2>3. t \in Reach(v) /\ r \in Reach(t)
    BY <1>1, <1>6, <2>2, ReachFacts, ClassFacts
  <2>4. r \in Reach(v)
    BY <1>1, <1>6, <2>3, ReachFacts
  <2>5. \A j \in 1..(m - 1) : j \in 1..m
    BY <1>1
  <2> QED BY <1>6, <1>11, <2>1, <2>4, <2>5 DEF Filled
<1>16. \A i \in 1..m : i < m => \A j \in 1..i : j \in 1..m /\ j # m
  <2>1. m \in Nat
    BY <1>1
  <2> HIDE DEF m
  <2> QED BY <2>1
<1>17. \A j \in 1..(m - 1) : j \in 1..m /\ j # m
  <2>1. m \in Nat
    BY <1>1
  <2> HIDE DEF m
  <2> QED BY <2>1
<1>14. Filled(r)'
  <2>1. \A j \in 1..(m - 1) : classes'[j] = classes[j]
    <3>1. \A j \in 1..(m - 1) : j \in 1..m /\ j # m
      BY <1>17
    <3> QED BY <1>10, <3>1
  <2>2. classes'[m] \subseteq Class(r)
    BY <1>10, <1>11, <1>13 DEF Filled
  <2>3. \A x : Lists(calls', x) => x \in classes'[m]
    BY <1>8, <1>10, <1>11 DEF Filled
  <2> QED BY <1>7, <1>10, <1>11, <2>1, <2>2, <2>3 DEF Filled
<1>15. SecondPass'
  <2>1. Late'
    BY <1>1, <1>5, <1>7 DEF SecondPass, Late
  <2>2. \A x : x \in seen' <=> \E i \in 1..Len(classes') : x \in classes'[i]
    <3>1. \A x : x \in seen <=> \E i \in 1..m : x \in classes[i]
      BY <1>1 DEF SecondPass
    <3>2. \A i \in 1..m : \A x : x \in classes'[i] <=> x \in classes[i] \/ (i = m /\ x = v)
      BY <1>10
    <3> QED BY <1>5, <1>9, <1>10, <3>1, <3>2
  <2>3. \A i, j \in 1..Len(classes') : \A x : x \in classes'[i] /\ x \in classes'[j] => i = j
    <3>1. \A i, j \in 1..m : \A x : x \in classes[i] /\ x \in classes[j] => i = j
      BY <1>1 DEF SecondPass
    <3>2. \A i \in 1..m : \A x : x \in classes'[i] <=> x \in classes[i] \/ (i = m /\ x = v)
      BY <1>10
    <3> QED BY <1>10, <1>13, <3>1, <3>2
  <2>4. \A x \in seen' : Lists(calls', x) \/ Back(x)' \subseteq seen'
    BY <1>1, <1>5, <1>7, <1>8 DEF SecondPass
  <2>5. \A i \in 1..Len(classes') : i < Len(classes') \/ calls' = <<>> => Collected(i)'
    <3> SUFFICES ASSUME NEW i \in 1..m, i < m PROVE Collected(i)'
      BY <1>8, <1>10
    <3>1. Collected(i)
      BY <1>1 DEF SecondPass
    <3>2. \A j \in 1..i : classes'[j] = classes[j]
      <4>1. \A j \in 1..i : j \in 1..m /\ j # m
        BY <1>16
      <4> QED BY <1>10, <4>1
    <3>3. i \in 1..i
      BY <1>1
    <3> QED BY <1>7, <3>1, <3>2, <3>3 DEF Collected
  <2>6. Len(classes') # 0
    BY <1>9, <1>10
  <2>7. \A x \in V' : Lists(order', x) \/ x \in seen'
    BY <1>1, <1>5, <1>7 DEF SecondPass
  <2> QED BY <1>14, <2>1, <2>2, <2>3, <2>4, <2>5, <2>6, <2>7 DEF SecondPass
<1> QED BY <1>1, <1>5, <1>12, <1>15 DEF SeventhInv

(* The next vertex of the order: all that leads to it is collected or, if  *)
(* it is not itself, of its class.                                         *)
LEMMA SeventhRoot2 ==
  ASSUME SeventhInv, Seventh!Root2
  PROVE  SeventhInv'
<1> DEFINE m == Len(classes)
           l == Len(order)
<1>0. PICK u : u = order[l]
  OBVIOUS
<1>1. /\ pc = "pass2" /\ calls = <<>> /\ order # <<>> /\ order' = SubSeq(order, 1, l - 1)
      /\ UNCHANGED <<graph, pc>>
      /\ u \in seen => UNCHANGED <<seen, calls, classes>>
      /\ u \notin seen => /\ seen' = seen \cup {u} /\ calls' = <<u>>
                          /\ classes' = Append(classes, {u})
  BY <1>0 DEF Seventh!Root2, Seventh!Pop
<1>2. /\ SecondPass /\ graph \in Graphs /\ seen \in SUBSET V /\ order \in Seq(V) /\ l \in Nat
      /\ m \in Nat /\ classes \in Seq(SUBSET V) /\ DOMAIN classes = 1..m
  BY <1>1, SeventhTypes DEF SeventhInv
<1>3. /\ V' = V /\ \A x : Near(x)' = Near(x) /\ Reach(x)' = Reach(x) /\ Class(x)' = Class(x) /\ Back(x)' = Back(x)
  BY <1>1, SeventhSame
<1>4. /\ u \in V /\ order' \in Seq(V) /\ Len(order') = l - 1
      /\ \A k \in 1..(l - 1) : order'[k] = order[k]
      /\ \A x : Lists(order, x) <=> x = u \/ Lists(order', x)
      /\ DOMAIN order' = 1..(l - 1) /\ \A k \in 1..(l - 1) : k \in DOMAIN order
  <2>1. /\ SubSeq(order, 1, l - 1) \in Seq(V) /\ order[l] \in V
        /\ Len(SubSeq(order, 1, l - 1)) = l - 1
        /\ \A k \in 1..(l - 1) : SubSeq(order, 1, l - 1)[k] = order[k]
        /\ \A x : Lists(order, x) <=> x = order[l] \/ Lists(SubSeq(order, 1, l - 1), x)
    BY <1>1, <1>2, WithoutLast
  <2> QED BY <1>0, <1>1, <1>2, <2>1
<1>5. Late'
  <2> SUFFICES ASSUME NEW i \in 1..(l - 1), NEW y \in V, order[i] \in Reach(y)
               PROVE  \E z \in Class(y) : \A j \in 1..(l - 1) : order[j] = z => i <= j
    BY <1>3, <1>4 DEF Late
  <2> QED
    <3>1. i \in DOMAIN order /\ \A j \in 1..(l - 1) : j \in DOMAIN order
      BY <1>4
    <3>2. PICK z \in Class(y) : \A j \in DOMAIN order : order[j] = z => i <= j
      BY <1>2, <3>1 DEF SecondPass, Late
    <3> QED BY <3>1, <3>2
<1>6. CASE u \in seen
  <2>1. UNCHANGED <<seen, calls, classes>>
    BY <1>1, <1>6
  <2>2. Seventh!TypeOK'
    BY <1>1, <1>3, <1>4, <2>1, SeventhReads DEF SeventhInv, Seventh!TypeOK
  <2>3. \A i : Collected(i)' <=> Collected(i)
    BY <1>3, <2>1 DEF Collected
  <2>4. SecondPass'
    BY <1>1, <1>2, <1>3, <1>4, <1>5, <1>6, <2>1, <2>3 DEF SecondPass
  <2> QED BY <1>1, <1>2, <2>2, <2>4 DEF SeventhInv
<1>7. CASE u \notin seen
  <2>1. /\ seen' = seen \cup {u} /\ calls' = <<u>> /\ classes' = Append(classes, {u})
    BY <1>1, <1>7
  <2>2. /\ classes' \in Seq(SUBSET V) /\ Len(classes') = m + 1 /\ classes'[m + 1] = {u}
        /\ \A i \in 1..m : classes'[i] = classes[i]
    BY <1>2, <1>4, <2>1
  <2>3. /\ calls' \in Seq(seen \cup {u}) /\ calls' # <<>> /\ \A x : Lists(calls', x) <=> x = u
    BY <2>1 DEF Lists
  <2>4. Seventh!TypeOK'
    BY <1>1, <1>2, <1>3, <1>4, <2>1, <2>2, <2>3, SeventhReads DEF SeventhInv, Seventh!TypeOK
  <2>5. \A i \in 1..m : Collected(i)
    BY <1>1, <1>2 DEF SecondPass
  <2>6. \A x : x \in seen <=> \E i \in 1..m : x \in classes[i]
    BY <1>2 DEF SecondPass
  <2>7. \A y \in Class(u) : y \notin seen
    <3> SUFFICES ASSUME NEW y \in Class(u), y \in seen PROVE FALSE
      OBVIOUS
    <3>1. PICK i \in 1..m : y \in classes[i]
      BY <2>6
    <3>2. u \in classes[i]
      BY <1>2, <1>4, <2>5, <3>1, ClassFacts DEF Collected
    <3> QED BY <1>7, <2>6, <3>2
  <2>8. \A y \in V : u \in Reach(y) => y \in Class(u) \/ y \in seen
    <3> SUFFICES ASSUME NEW y \in V, u \in Reach(y) PROVE y \in Class(u) \/ y \in seen
      OBVIOUS
    <3>1. l \in DOMAIN order
      BY <1>1, <1>2
    <3>2. PICK z \in Class(y) : \A j \in DOMAIN order : order[j] = z => l <= j
      BY <1>0, <1>2, <3>1 DEF SecondPass, Late
    <3>3. z \in V /\ y \in Class(z)
      BY <1>2, <3>2, ClassFacts
    <3>4. CASE Lists(order, z)
      <4>1. PICK j \in DOMAIN order : order[j] = z
        BY <3>4 DEF Lists
      <4>2. j = l
        BY <1>2, <3>2, <4>1
      <4> QED BY <1>0, <3>3, <4>1, <4>2
    <3>5. CASE z \in seen
      <4>1. PICK i \in 1..m : z \in classes[i]
        BY <2>6, <3>5
      <4>2. y \in classes[i]
        BY <2>5, <3>3, <4>1 DEF Collected
      <4> QED BY <2>6, <4>2
    <3> QED BY <1>2, <3>3, <3>4, <3>5 DEF SecondPass
  <2>9. (m + 1) - 1 = m /\ \A i \in 1..(m + 1) : i \in 1..m \/ i = m + 1
    BY <1>2
  <2>10. Filled(u)'
    <3>1. u \in Class(u)
      BY <1>2, <1>4, ClassFacts
    <3>2. \A y \in V : u \in Reach(y) => y \in Class(u) \/ \E j \in 1..m : y \in classes'[j]
      BY <2>2, <2>6, <2>8
    <3>3. \A j \in 1..m : \A y \in Class(u) : y \notin classes'[j]
      BY <2>2, <2>6, <2>7
    <3> QED BY <1>3, <1>4, <2>2, <2>3, <2>9, <3>1, <3>2, <3>3 DEF Filled
  <2>11. \A x : x \in seen' <=> \E i \in 1..(m + 1) : x \in classes'[i]
    <3>1. m + 1 \in 1..(m + 1) /\ \A i \in 1..m : i \in 1..(m + 1)
      BY <1>2
    <3> QED BY <2>1, <2>2, <2>6, <2>9, <3>1
  <2>12. \A i, j \in 1..(m + 1) : \A x : x \in classes'[i] /\ x \in classes'[j] => i = j
    <3>1. \A i, j \in 1..m : \A x : x \in classes[i] /\ x \in classes[j] => i = j
      BY <1>2 DEF SecondPass
    <3>2. \A i \in 1..m : u \notin classes[i]
      BY <1>7, <2>6
    <3> QED BY <2>2, <2>9, <3>1, <3>2
  <2>13. \A x \in seen' : Lists(calls', x) \/ Back(x)' \subseteq seen'
    BY <1>1, <1>2, <1>3, <2>1, <2>3 DEF SecondPass, Lists
  <2>14. \A i \in 1..(m + 1) : i < m + 1 \/ calls' = <<>> => Collected(i)'
    <3> SUFFICES ASSUME NEW i \in 1..m PROVE Collected(i)'
      BY <1>2, <2>3, <2>9
    <3>1. \A j \in 1..i : classes'[j] = classes[j]
      BY <1>2, <2>2
    <3>2. Collected(i) /\ i \in 1..i
      BY <1>2, <2>5
    <3> QED BY <1>3, <2>2, <3>1, <3>2 DEF Collected
  <2>15. \A x \in V' : Lists(order', x) \/ x \in seen'
    BY <1>2, <1>3, <1>4, <2>1 DEF SecondPass
  <2>16. Len(classes') = m + 1 /\ m + 1 # 0
    BY <1>2, <2>2
  <2>17. SecondPass'
    BY <1>5, <2>10, <2>11, <2>12, <2>13, <2>14, <2>15, <2>16 DEF SecondPass
  <2> QED BY <1>1, <1>2, <2>4, <2>17 DEF SeventhInv
<1> QED BY <1>6, <1>7

(* Every step of StronglyConnectedComponents keeps its invariant.          *)
LEMMA SeventhStep ==
  ASSUME SeventhInv, Seventh!Next \/ UNCHANGED <<graph, pc, vars7>>
  PROVE  SeventhInv'
<1>1. CASE Seventh!Down
  <2>1. calls # <<>>
    BY <1>1 DEF Seventh!Down
  <2>2. pc \in {"pass1", "pass2"}
    BY <2>1, SeventhTypes DEF SeventhInv
  <2>3. CASE pc = "pass2"
    BY <1>1, <2>3, SeventhDown2
  <2>4. CASE pc = "pass1"
    <3>1. PICK t : t = Seventh!Top
      OBVIOUS
    <3>2. PICK v : v = Least(Near(t) \ seen)
      OBVIOUS
    <3>3. /\ Near(t) \ seen # {} /\ seen' = seen \cup {v} /\ calls' = Append(calls, v)
          /\ UNCHANGED <<graph, pc, order, classes>>
      BY <1>1, <2>4, <3>1, <3>2, SeventhReads DEF Seventh!Down, Seventh!Following
    <3>4. v \in Near(t) \ seen /\ v \in V
      <4>1. /\ Near(t) \ seen \in SUBSET V /\ IsFiniteSet(Near(t) \ seen) /\ Near(t) \ seen \subseteq Int
        BY SeventhTypes, GraphFacts
      <4> QED BY <3>2, <3>3, <4>1, LeastIsLeast
    <3>5. v \in Near(calls[Len(calls)])
      BY <3>1, <3>4 DEF Seventh!Top
    <3> QED BY <2>4, <3>3, <3>4, <3>5, SeventhDown1
  <2> QED BY <2>2, <2>3, <2>4
<1>2. CASE Seventh!Finish
  <2>1. /\ UNCHANGED <<graph, seen, order, calls, classes>> /\ order = <<>> /\ calls = <<>>
        /\ pc = "pass2" /\ pc' = "done"
    BY <1>2 DEF Seventh!Finish
  <2> QED BY <2>1, SeventhStutter
<1>3. CASE UNCHANGED <<graph, pc, vars7>>
  <2>1. UNCHANGED <<graph, seen, order, calls, classes>> /\ pc' = pc
    BY <1>3 DEF vars7
  <2> QED BY <2>1, SeventhStutter
<1> QED BY <1>1, <1>2, <1>3, SeventhStart, SeventhRoot1, SeventhUp1, SeventhTranspose, SeventhRoot2,
     SeventhReturn2 DEF Seventh!Next

(* Between two trees of the second pass the components are whole classes   *)
(* in the order of the arcs, and at the end they are all.                  *)
LEMMA SeventhRight == SeventhInv => Seventh!StrongComponents
<1> SUFFICES ASSUME SeventhInv, pc \in {"pass2", "done"}
             PROVE  /\ calls = <<>> =>
                         \A i \in DOMAIN classes : \A x \in classes[i] :
                           /\ classes[i] = Class(x)
                           /\ \A j \in 1..(i - 1) : ({x} \cup Near(x)) \cap classes[j] = {}
                    /\ pc = "done" => \A x \in V : \E i \in DOMAIN classes : x \in classes[i]
  <2>1. \A x : Class(x) = { y \in ReachableBy(Edges, x) : x \in ReachableBy(Edges, y) }
    BY DEF Class, Reach
  <2> QED BY <2>1, SeventhReads DEF Seventh!StrongComponents
<1>1. SecondPass /\ graph \in Graphs /\ DOMAIN classes = 1..Len(classes) /\ Len(classes) \in Nat
      /\ classes \in Seq(SUBSET V)
  BY SeventhTypes DEF SeventhInv
<1>2. ASSUME calls = <<>>, NEW i \in DOMAIN classes, NEW x \in classes[i]
      PROVE  /\ classes[i] = Class(x)
             /\ \A j \in 1..(i - 1) : ({x} \cup Near(x)) \cap classes[j] = {}
  <2>1. \A j \in 1..Len(classes) : Collected(j)
    BY <1>1, <1>2 DEF SecondPass
  <2>2. ASSUME NEW j \in 1..(i - 1), NEW y \in {x} \cup Near(x), y \in classes[j]
        PROVE  FALSE
    <3>1. j \in 1..Len(classes) /\ i \in 1..Len(classes) /\ j < i
      BY <1>1
    <3>2. \A k \in 1..Len(classes) : x \in classes[k] => k = i
      BY <1>1, <1>2, <3>1 DEF SecondPass
    <3>3. CASE y = x
      BY <2>2, <3>1, <3>2, <3>3
    <3>4. CASE y \in Near(x)
      <4>1. x \in Back(y)
        BY <1>1, <1>2, <3>4 DEF Back
      <4>2. PICK k \in 1..j : x \in classes[k]
        BY <2>1, <2>2, <3>1, <4>1 DEF Collected
      <4>3. k \in 1..Len(classes) /\ k < i
        BY <3>1, <1>1
      <4> QED BY <3>2, <4>2, <4>3
    <3> QED BY <3>3, <3>4
  <2> QED BY <1>1, <1>2, <2>1, <2>2 DEF Collected
<1>3. ASSUME pc = "done", NEW x \in V PROVE \E i \in DOMAIN classes : x \in classes[i]
  <2>1. ~Lists(order, x)
    BY <1>3 DEF SeventhInv, Lists
  <2> QED BY <1>1, <1>3, <2>1 DEF SecondPass
<1> QED BY <1>2, <1>3

-----------------------------------------------------------------------------
(* nineth.cpp, MSTFinder: the edges chosen so far are part of a lightest   *)
(* spanning tree, and the weights at hand are those of the lightest edges  *)
(* that lead out of what is included.                                      *)

(* The edges that prim sees, what they reach from 1, and the trees on it.  *)
Seen9 == { e \in Edges : graph[e[1]][e[2]] # INT_MAX }

Reached == ReachableBy(Seen9, 1)

Usable == { e \in Seen9 : e[1] < e[2] /\ e[1] \in Reached }

Spanning ==
  { T \in SUBSET Usable : /\ Cardinality(T) = Cardinality(Reached) - 1
                          /\ ReachableBy(Mirrored(T), 1) = Reached }

WeightSum(T) == SumFunctionOnSet([e \in V \X V |-> graph[e[1]][e[2]]], T)

Lightest == { T \in Spanning : \A U \in Spanning : WeightSum(T) <= WeightSum(U) }

(* What MSTFinder reads of the graph is what this module says of it.       *)
LEMMA NinethReads ==
  /\ Nineth!V = V /\ Nineth!V' = V' /\ \A x : Nineth!Near(x) = Near(x)
  /\ \A S : Nineth!Least(S) = Least(S)
  /\ \A E : Nineth!Mirrored(E) = Mirrored(E)
  /\ \A x, y : Nineth!weight(graph, x, y) = graph[x][y]
  /\ \A x, y : Nineth!is_edge(graph, x, y) <=> graph[x][y] # 0
  /\ \A f, S : Nineth!SumFunctionOnSet(f, S) = SumFunctionOnSet(f, S)
  /\ Nineth!CheckDirected(graph) <=> CheckDirected(graph)
  /\ Nineth!LeastTrees = Lightest
  /\ \A T : Nineth!WeightOf(T) = WeightSum(T)
<1>1. Nineth!V = V /\ Nineth!V' = V'
  BY DEF Nineth!V, Nineth!Vertices, V, Vertices
<1>2. \A x : Nineth!Near(x) = Near(x)
  BY DEF Nineth!Near, Near, Nineth!adjacency_list, adjacency_list, Nineth!is_edge, is_edge,
         Nineth!weight, weight, Nineth!Vertices, Vertices
<1>3. \A S : Nineth!Least(S) = Least(S)
  BY DEF Nineth!Least, Least
<1>4. \A E : Nineth!Mirrored(E) = Mirrored(E)
  BY DEF Nineth!Mirrored, Mirrored
<1>5. /\ \A x, y : Nineth!weight(graph, x, y) = graph[x][y]
      /\ \A x, y : Nineth!is_edge(graph, x, y) <=> graph[x][y] # 0
  BY DEF Nineth!weight, Nineth!is_edge
<1>6. \A f, S : Nineth!SumFunctionOnSet(f, S) = SumFunctionOnSet(f, S)
  BY Zenon DEF Nineth!SumFunctionOnSet, SumFunctionOnSet, Nineth!FoldFunctionOnSet, FoldFunctionOnSet,
     Nineth!MapThenFoldSet, MapThenFoldSet
<1>7. Nineth!CheckDirected(graph) <=> CheckDirected(graph)
  BY DEF Nineth!CheckDirected, CheckDirected, Nineth!weight, weight, Nineth!Vertices, Vertices
<1>8. Nineth!Edges = Edges
  BY <1>1, <1>2 DEF Nineth!Edges, Edges
<1>9. \A E, x : Nineth!ReachableBy(E, x) = ReachableBy(E, x)
  BY Zenon DEF Nineth!ReachableBy, ReachableBy, Nineth!Within, Within, Nineth!V, Nineth!Vertices, V, Vertices
<1>10. \A T : Nineth!WeightOf(T) = WeightSum(T)
  BY <1>1, <1>5, <1>6 DEF Nineth!WeightOf, Nineth!Weights, WeightSum
<1>11. \A S : Nineth!Cardinality(S) = Cardinality(S)
  BY DEF Nineth!Cardinality, Cardinality, Nineth!IsFiniteSet, IsFiniteSet
<1>12. Nineth!Trees = Spanning
  <2>1. \A k, S : Nineth!kSubset(k, S) = { s \in SUBSET S : Cardinality(s) = k }
    BY <1>11 DEF Nineth!kSubset
  <2>2. Nineth!Trees = { T \in { s \in SUBSET Usable : Cardinality(s) = Cardinality(Reached) - 1 } :
                           ReachableBy(Mirrored(T), 1) = Reached }
    BY <1>4, <1>8, <1>9, <1>11, <2>1 DEF Nineth!Trees, Seen9, Reached, Usable
  <2> QED BY <2>2 DEF Spanning
<1>13. Nineth!LeastTrees = Lightest
  BY <1>10, <1>12 DEF Nineth!LeastTrees, Lightest
<1> QED BY <1>1, <1>2, <1>3, <1>4, <1>5, <1>6, <1>7, <1>10, <1>13

-----------------------------------------------------------------------------
Orient(a, b) == IF a < b THEN <<a, b>> ELSE <<b, a>>

(* A pair is in the mirror image of T in one direction or the other.       *)
LEMMA MirroredLaw ==
  ASSUME NEW A, NEW T, T \subseteq A \X A
  PROVE  \A a, b : <<a, b>> \in Mirrored(T) <=> <<a, b>> \in T \/ <<b, a>> \in T
<1>1. ASSUME NEW a, NEW b, <<b, a>> \in T
      PROVE  <<a, b>> \in { <<e[2], e[1]>> : e \in T }
  <2>1. <<a, b>> = << <<b, a>>[2], <<b, a>>[1] >>
    OBVIOUS
  <2> QED BY <1>1, <2>1
<1>2. ASSUME NEW a, NEW b, NEW e \in T, <<a, b>> = <<e[2], e[1]>>
      PROVE  <<b, a>> \in T
  <2>1. e = <<b, a>>
    BY <1>2
  <2> QED BY <2>1
<1> QED BY <1>1, <1>2 DEF Mirrored

Weighted9 ==
  graph \in Graphs /\ ~CheckDirected(graph) /\ V # {}

(* What is seen goes both ways.                                            *)
LEMMA SeenFacts ==
  ASSUME Weighted9
  PROVE  /\ 1 \in V /\ V \subseteq Int /\ IsFiniteSet(V)
         /\ Seen9 \subseteq V \X V
         /\ \A x, y : <<x, y>> \in Seen9 <=> x \in V /\ y \in V /\ graph[x][y] # 0 /\ graph[x][y] # INT_MAX
         /\ \A x, y : <<x, y>> \in Seen9 => <<y, x>> \in Seen9 /\ graph[y][x] = graph[x][y]
         /\ \A x, y \in V : graph[x][y] \in Int
<1>1. /\ Len(graph) \in Nat /\ V = 1..Len(graph) /\ V \subseteq Int /\ IsFiniteSet(V)
      /\ graph \in [V -> [V -> Int]] /\ \A x, y : y \in Near(x) <=> y \in V /\ graph[x][y] # 0
  BY GraphFacts DEF Weighted9
<1>2. 1 \in V
  BY <1>1 DEF Weighted9
<1>3. \A x, y \in V : graph[x][y] = graph[y][x]
  BY DEF Weighted9, CheckDirected, V, weight
<1>4. \A e : e \in Seen9 <=> \E x, y \in V : e = <<x, y>> /\ graph[x][y] # 0 /\ graph[x][y] # INT_MAX
  <2>1. ASSUME NEW e \in Seen9 PROVE \E x, y \in V : e = <<x, y>> /\ graph[x][y] # 0 /\ graph[x][y] # INT_MAX
    <3>1. PICK x \in V : \E y \in Near(x) : e = <<x, y>>
      BY <2>1, EdgesArePairs, Zenon DEF Seen9
    <3>2. PICK y \in Near(x) : e = <<x, y>>
      BY <3>1
    <3> QED BY <1>1, <2>1, <3>2 DEF Seen9
  <2>2. ASSUME NEW x \in V, NEW y \in V, graph[x][y] # 0, graph[x][y] # INT_MAX
        PROVE  <<x, y>> \in Seen9
    <3>1. <<x, y>> \in Edges
      BY <1>1, <2>2, EdgesArePairs
    <3> QED BY <2>2, <3>1 DEF Seen9
  <2> QED BY <2>1, <2>2
<1>5. Seen9 \subseteq V \X V
  BY <1>4
<1>6. \A x, y : <<x, y>> \in Seen9 <=> x \in V /\ y \in V /\ graph[x][y] # 0 /\ graph[x][y] # INT_MAX
  BY <1>4
<1>7. \A x, y : <<x, y>> \in Seen9 => <<y, x>> \in Seen9 /\ graph[y][x] = graph[x][y]
  BY <1>3, <1>6
<1>8. \A x, y \in V : graph[x][y] \in Int
  BY <1>1
<1> QED BY <1>1, <1>2, <1>5, <1>6, <1>7, <1>8

(* What prim can reach from vertex 1, and the edges it may use there.      *)
LEMMA ReachedFacts ==
  ASSUME Weighted9
  PROVE  /\ 1 \in Reached /\ Reached \in SUBSET V
         /\ \A x \in Reached : \A y : <<x, y>> \in Seen9 => y \in Reached
         /\ \A S : 1 \in S /\ (\A x \in S : \A y : <<x, y>> \in Seen9 => y \in S) => Reached \subseteq S
         /\ Usable \subseteq Reached \X Reached /\ Usable \subseteq Seen9 /\ IsFiniteSet(Usable)
         /\ \A a, b : <<a, b>> \in Seen9 /\ a \in Reached /\ a # b =>
              Orient(a, b) \in Usable
              /\ (Orient(a, b) = <<a, b>> \/ Orient(a, b) = <<b, a>>)
<1>0. graph \in Graphs
  BY DEF Weighted9
<1>1. /\ 1 \in Reached /\ Reached \in SUBSET V
      /\ \A x \in Reached : \A y \in V : <<x, y>> \in Seen9 => y \in Reached
      /\ \A S : 1 \in S /\ (\A x \in S : \A y \in V : <<x, y>> \in Seen9 => y \in S) => Reached \subseteq S
  BY <1>0, SeenFacts, ReachLaw DEF Reached
<1>2. \A x, y : <<x, y>> \in Seen9 => y \in V
  BY SeenFacts
<1>3. Usable \subseteq Seen9
  BY DEF Usable
<1>4. Usable \subseteq Reached \X Reached
  <2> SUFFICES ASSUME NEW e \in Usable PROVE e \in Reached \X Reached
    OBVIOUS
  <2>1. e \in V \X V /\ e \in Seen9 /\ e[1] \in Reached
    BY SeenFacts DEF Usable
  <2>2. e = <<e[1], e[2]>>
    BY <2>1
  <2>3. e[2] \in Reached
    BY <1>1, <1>2, <2>1, <2>2
  <2> QED BY <2>1, <2>2, <2>3
<1>5. IsFiniteSet(Usable)
  <2>1. IsFiniteSet(V \X V)
    BY SeenFacts, FS_Product
  <2>2. Usable \in SUBSET (V \X V)
    BY <1>3, SeenFacts
  <2> QED BY <2>1, <2>2, FS_Subset
<1>6. ASSUME NEW a, NEW b, <<a, b>> \in Seen9, a \in Reached, a # b
      PROVE  Orient(a, b) \in Usable /\ (Orient(a, b) = <<a, b>> \/ Orient(a, b) = <<b, a>>)
  <2>1. a \in Int /\ b \in Int /\ b \in Reached /\ <<b, a>> \in Seen9
    BY <1>1, <1>2, <1>6, SeenFacts
  <2>2. CASE a < b
    <3>1. Orient(a, b) = <<a, b>>
      BY <2>2 DEF Orient
    <3> QED BY <1>6, <2>2, <3>1 DEF Usable
  <2>3. CASE ~(a < b)
    <3>1. Orient(a, b) = <<b, a>> /\ b < a
      BY <1>6, <2>1, <2>3 DEF Orient
    <3> QED BY <2>1, <3>1 DEF Usable
  <2> QED BY <2>2, <2>3
<1> QED BY <1>1, <1>2, <1>3, <1>4, <1>5, <1>6

(* A set of usable edges reaches no more.                                  *)
LEMMA UsableFacts ==
  ASSUME Weighted9, NEW T \in SUBSET Usable
  PROVE  /\ Mirrored(T) \subseteq Seen9 /\ IsFiniteSet(T)
         /\ ReachableBy(Mirrored(T), 1) \subseteq Reached
         /\ \A a, b : <<a, b>> \in Mirrored(T) <=> <<a, b>> \in T \/ <<b, a>> \in T
<1>1. T \subseteq V \X V /\ T \subseteq Seen9 /\ IsFiniteSet(T)
  BY SeenFacts, ReachedFacts, FS_Subset
<1>2. \A a, b : <<a, b>> \in Mirrored(T) <=> <<a, b>> \in T \/ <<b, a>> \in T
  BY <1>1, MirroredLaw
<1>3. Mirrored(T) \subseteq Seen9
  <2>1. \A e \in Mirrored(T) : e \in T \/ \E f \in T : e = <<f[2], f[1]>>
    BY DEF Mirrored
  <2>2. \A f \in T : <<f[2], f[1]>> \in Seen9
    <3> SUFFICES ASSUME NEW f \in T PROVE <<f[2], f[1]>> \in Seen9
      OBVIOUS
    <3>1. f = <<f[1], f[2]>>
      BY <1>1
    <3> QED BY <1>1, <3>1, SeenFacts
  <2> QED BY <1>1, <2>1, <2>2
<1>4. ReachableBy(Mirrored(T), 1) \subseteq Reached
  <2>1. graph \in Graphs /\ 1 \in V
    BY SeenFacts DEF Weighted9
  <2> QED BY <1>3, <2>1, ReachMore DEF Reached
<1> QED BY <1>1, <1>2, <1>3, <1>4

(* There is a spanning tree: a tree on part of what is reached, of all     *)
(* those the one that leaves out least, leaves out nothing.                *)
LEMMA SpanningExists ==
  ASSUME Weighted9
  PROVE  Spanning # {}
<1> DEFINE Part(R, F) == /\ F \in SUBSET Usable /\ F \subseteq R \X R
                         /\ Cardinality(F) = Cardinality(R) - 1
                         /\ ReachableBy(Mirrored(F), 1) = R
           C == { m \in SUBSET Reached : \E F : Part(Reached \ m, F) }
<1>0. /\ 1 \in V /\ graph \in Graphs /\ 1 \in Reached /\ Reached \in SUBSET V
      /\ IsFiniteSet(Reached)
  BY SeenFacts, ReachedFacts, FS_Subset DEF Weighted9
<1>1. Reached \ {1} \in C
  <2>1. Reached \ (Reached \ {1}) = {1}
    BY <1>0
  <2>2. Mirrored({}) = {}
    BY DEF Mirrored
  <2>3. ReachableBy({}, 1) \subseteq {1} /\ 1 \in ReachableBy({}, 1)
    <3>1. \A z \in {1} : \A y \in V : <<z, y>> \in {} => y \in {1}
      OBVIOUS
    <3>2. ReachableBy({}, 1) \subseteq {1}
      BY <1>0, <3>1, ReachWithin
    <3> QED BY <1>0, <3>2, ReachLaw
  <2>4. Cardinality({}) = 0 /\ Cardinality({1}) = 1
    BY FS_EmptySet, FS_Singleton
  <2>5. ReachableBy(Mirrored({}), 1) = {1}
    BY <2>2, <2>3, Zenon
  <2>6. Part({1}, {})
    BY <2>4, <2>5
  <2> HIDE DEF Part
  <2> QED BY <2>1, <2>6
<1>2. \A m \in C : IsFiniteSet(m)
  BY <1>0, FS_Subset
<1>3. PICK m \in C : \A x \in m : m \ {x} \notin C
  <2> HIDE DEF C
  <2> QED BY <1>1, <1>2, SmallestSet
<1> DEFINE R == Reached \ m
<1>4. PICK F : Part(R, F)
  BY DEF R
<1>5. 1 \in R /\ R \in SUBSET V /\ IsFiniteSet(R)
  <2>1. 1 \in ReachableBy(Mirrored(F), 1)
    BY <1>0, ReachLaw
  <2> QED BY <1>0, <1>4, <2>1, FS_Subset
<1>6. /\ IsFiniteSet(F) /\ F \subseteq Seen9 /\ F \in SUBSET Usable
      /\ \A a, b : <<a, b>> \in Mirrored(F) <=> <<a, b>> \in F \/ <<b, a>> \in F
  BY <1>4, UsableFacts, ReachedFacts
<1>7. ASSUME m # {}
      PROVE  FALSE
  <2>1. PICK a \in R, b \in m : <<a, b>> \in Seen9
    <3> SUFFICES ASSUME \A a \in R : \A b : <<a, b>> \in Seen9 => b \notin m
                 PROVE  FALSE
      OBVIOUS
    <3>1. \A a \in R : \A b : <<a, b>> \in Seen9 => b \in R
      BY ReachedFacts
    <3>2. Reached \subseteq R
      BY <1>5, <3>1, ReachedFacts
    <3> QED BY <1>7, <3>2
  <2> DEFINE g == Orient(a, b)  G == F \cup {g}  Q == ReachableBy(Mirrored(G), 1)
  <2>2. a # b /\ a \in Reached /\ b \in Reached /\ b \notin R /\ b \in V
    BY <1>0, <2>1
  <2>3. g \in Usable /\ (g = <<a, b>> \/ g = <<b, a>>)
    BY <2>1, <2>2, ReachedFacts
  <2>4. G \in SUBSET Usable /\ G \subseteq (R \cup {b}) \X (R \cup {b})
    <3>1. F \subseteq R \X R
      BY <1>4
    <3> QED BY <1>6, <2>1, <2>3, <3>1
  <2>5. \A x, y : <<x, y>> \in Mirrored(G) <=> \/ <<x, y>> \in Mirrored(F)
                                               \/ x = a /\ y = b
                                               \/ x = b /\ y = a
    <3>1. \A x, y : <<x, y>> \in Mirrored(G) <=> <<x, y>> \in G \/ <<y, x>> \in G
      BY <2>4, UsableFacts
    <3>2. \A x, y : <<x, y>> \in G <=> <<x, y>> \in F \/ <<x, y>> = g
      OBVIOUS
    <3>3. ASSUME NEW x, NEW y
          PROVE  <<x, y>> = g \/ <<y, x>> = g <=> (x = a /\ y = b) \/ (x = b /\ y = a)
      BY <2>3
    <3> HIDE DEF g, G
    <3> QED BY <1>6, <3>1, <3>2, <3>3
  <2>6. Cardinality(G) = Cardinality(R \cup {b}) - 1
    <3>1. g \notin F
      BY <1>4, <2>2, <2>3
    <3>2. Cardinality(G) = Cardinality(F) + 1
      BY <1>6, <3>1, FS_AddElement
    <3>3. Cardinality(R) \in Nat
      BY <1>5, FS_CardinalityType
    <3>4. Cardinality(R \cup {b}) = Cardinality(R) + 1
      <4>1. IsFiniteSet(R) /\ b \notin R
        BY <1>5, <2>2
      <4>2. PICK B : B = R
        OBVIOUS
      <4>3. IsFiniteSet(B) /\ b \notin B
        BY <4>1, <4>2
      <4>4. Cardinality(B \cup {b}) = Cardinality(B) + 1
        BY <4>3, FS_AddElement
      <4> QED BY <4>2, <4>4
    <3>5. Cardinality(F) = Cardinality(R) - 1
      BY <1>4
    <3> QED BY <3>2, <3>3, <3>4, <3>5
  <2>7. Q = R \cup {b}
    <3>1. Mirrored(F) \subseteq Mirrored(G)
      BY DEF Mirrored
    <3>2. R \subseteq Q
      <4>1. ReachableBy(Mirrored(F), 1) = R
        BY <1>4
      <4>2. ReachableBy(Mirrored(F), 1) \subseteq ReachableBy(Mirrored(G), 1)
        BY <1>0, <3>1, ReachMore
      <4> QED BY <4>1, <4>2
    <3>3. <<a, b>> \in Mirrored(G)
      BY <2>5
    <3>4. b \in Q
      BY <1>0, <2>1, <2>2, <3>2, <3>3, ReachNext
    <3>5. \A x \in R \cup {b} : \A y \in V : <<x, y>> \in Mirrored(G) => y \in R \cup {b}
      <4>1. F \subseteq R \X R
        BY <1>4
      <4>2. \A x, y : <<x, y>> \in F \/ <<y, x>> \in F => y \in R
        BY <4>1
      <4>3. \A x, y : <<x, y>> \in Mirrored(F) => y \in R
        BY <1>6, <4>2
      <4> QED BY <2>1, <2>5, <4>3
    <3>6. Q \subseteq R \cup {b}
      <4>1. 1 \in R \cup {b}
        BY <1>5
      <4>2. PICK S : S = R \cup {b}
        OBVIOUS
      <4>3. 1 \in S /\ \A x \in S : \A y \in V : <<x, y>> \in Mirrored(G) => y \in S
        BY <3>5, <4>1, <4>2
      <4> HIDE DEF G, R
      <4>4. ReachableBy(Mirrored(G), 1) \subseteq S
        BY <1>0, <4>3, ReachWithin
      <4> QED BY <4>2, <4>4
    <3> QED BY <3>2, <3>4, <3>6
  <2>8. Reached \ (m \ {b}) = R \cup {b} /\ m \ {b} \in SUBSET Reached
    BY <2>1, <2>2
  <2>9. Part(R \cup {b}, G)
    BY <2>4, <2>6, <2>7
  <2> HIDE DEF Part, G, Q, g, R
  <2>10. m \ {b} \in C
    BY <2>8, <2>9
  <2> QED BY <1>3, <2>1, <2>10
<1>8. F \in Spanning
  <2>1. R = Reached
    BY <1>7
  <2> QED BY <1>4, <2>1 DEF Spanning
<1> QED BY <1>8

(* The weight of a set of edges is that of one of them and that of the     *)
(* others.                                                                 *)
LEMMA SpanningSums ==
  ASSUME Weighted9
  PROVE  /\ IsFiniteSet(Spanning)
         /\ \A T \in SUBSET Usable :
              /\ WeightSum(T) \in Int
              /\ \A f \in T : WeightSum(T) = graph[f[1]][f[2]] + WeightSum(T \ {f})
<1> DEFINE w == [e \in V \X V |-> graph[e[1]][e[2]]]
<1>1. \A e \in Usable : e \in V \X V /\ w[e] = graph[e[1]][e[2]] /\ w[e] \in Int
  <2>1. Usable \subseteq V \X V
    BY SeenFacts, ReachedFacts
  <2>2. \A e \in V \X V : e[1] \in V /\ e[2] \in V
    OBVIOUS
  <2> QED BY <2>1, <2>2, SeenFacts
<1>2. IsFiniteSet(Usable)
  BY ReachedFacts
<1>3. \A T \in SUBSET Usable :
        /\ SumFunctionOnSet(w, T) \in Int
        /\ \A f \in T : SumFunctionOnSet(w, T) = w[f] + SumFunctionOnSet(w, T \ {f})
  <2>1. \A e \in Usable : w[e] \in Int
    BY <1>1
  <2> HIDE DEF w
  <2>2. PICK S : S = Usable
    OBVIOUS
  <2>3. IsFiniteSet(S) /\ \A e \in S : w[e] \in Int
    BY <1>2, <2>1, <2>2
  <2>4. \A T \in SUBSET S :
          /\ SumFunctionOnSet(w, T) \in Int
          /\ \A f \in T : SumFunctionOnSet(w, T) = w[f] + SumFunctionOnSet(w, T \ {f})
    BY <2>3, SubsetSums, SMTT(30)
  <2> QED BY <2>2, <2>4
<1>4. IsFiniteSet(Spanning)
  <2>1. Spanning \in SUBSET (SUBSET Usable)
    BY DEF Spanning
  <2> QED BY <1>2, <2>1, FS_SUBSET, FS_Subset
<1>5. \A T : WeightSum(T) = SumFunctionOnSet(w, T)
  BY DEF WeightSum
<1> HIDE DEF w
<1>6. \A T \in SUBSET Usable : \A f \in T : f \in Usable
  OBVIOUS
<1> QED BY <1>1, <1>3, <1>4, <1>5, <1>6

(* There is a lightest spanning set, for there are finitely many.          *)
LEMMA LightestExists ==
  ASSUME Weighted9
  PROVE  Lightest # {}
<1> DEFINE f == [T \in Spanning |-> WeightSum(T)]
<1>1. IsFiniteSet(Spanning) /\ Spanning # {} /\ \A T \in Spanning : f[T] \in Int
  BY SpanningSums, SpanningExists DEF Spanning
<1>2. \E T \in Spanning : \A U \in Spanning : f[T] <= f[U]
  <2> HIDE DEF f
  <2> QED BY <1>1, LeastValue
<1> QED BY <1>2 DEF Lightest

(* K is a tree on I, from 1, in a lightest tree T, and <<p, u>> the        *)
(* lightest edge that leads out of I.                                      *)
LightestOut(T, I, K, p, u) ==
  /\ T \in Lightest /\ I \in SUBSET V /\ 1 \in I /\ K \subseteq Mirrored(T) /\ K \subseteq I \X I
  /\ \A R \in SUBSET V : 1 \in R /\ (\A e \in K : e[1] \in R => e[2] \in R) => I \subseteq R
  /\ p \in I /\ u \in V \ I /\ <<p, u>> \in Seen9
  /\ \A x \in I : \A y \in V \ I : <<x, y>> \in Seen9 => graph[p][u] <= graph[x][y]

(* The cut property: a lightest spanning tree has K and <<p, u>>.  Either  *)
(* T has it, or T leads from I into the part that it joins to u without I  *)
(* along another edge, which can be replaced.                              *)
LEMMA Exchange ==
  ASSUME Weighted9, NEW T, NEW I, NEW K, NEW p, NEW u, LightestOut(T, I, K, p, u)
  PROVE  \E U \in Lightest : K \cup {<<p, u>>} \subseteq Mirrored(U)
<1>0. /\ T \in Lightest /\ I \in SUBSET V /\ 1 \in I /\ K \subseteq Mirrored(T) /\ K \subseteq I \X I
      /\ \A R \in SUBSET V : 1 \in R /\ (\A e \in K : e[1] \in R => e[2] \in R) => I \subseteq R
      /\ p \in I /\ u \in V \ I /\ <<p, u>> \in Seen9
      /\ \A x \in I : \A y \in V \ I : <<x, y>> \in Seen9 => graph[p][u] <= graph[x][y]
  BY DEF LightestOut
<1> USE <1>0
<1> DEFINE M == Mirrored(T)
<1>1. /\ graph \in Graphs /\ 1 \in V /\ V \subseteq Int /\ T \in SUBSET Usable /\ T \in Spanning
      /\ Reached \in SUBSET V /\ 1 \in Reached
      /\ IsFiniteSet(T) /\ M \subseteq Seen9
      /\ \A a, b : <<a, b>> \in M <=> <<a, b>> \in T \/ <<b, a>> \in T
      /\ Cardinality(T) = Cardinality(Reached) - 1 /\ ReachableBy(M, 1) = Reached
  BY SeenFacts, ReachedFacts, UsableFacts DEF Weighted9, Lightest, Spanning
<1> HIDE DEF M
<1>2. /\ \A a \in Reached : \A b : <<a, b>> \in Seen9 => b \in Reached
      /\ \A a, b : <<a, b>> \in Seen9 => /\ <<b, a>> \in Seen9 /\ graph[b][a] = graph[a][b]
                                        /\ a \in V /\ b \in V
      /\ \A a, b : <<a, b>> \in Seen9 /\ a \in Reached /\ a # b =>
           Orient(a, b) \in Usable /\ (Orient(a, b) = <<a, b>> \/ Orient(a, b) = <<b, a>>)
  BY SeenFacts, ReachedFacts
<1>3. K \subseteq M
  BY DEF M
<1>4. \A e \in K : e = <<e[1], e[2]>> /\ e[1] \in I /\ e[2] \in I
  OBVIOUS
<1>5. I \subseteq Reached
  <2>1. \A e \in K : e[1] \in Reached => e[2] \in Reached
    <3>1. \A e \in K : <<e[1], e[2]>> \in Seen9
      BY <1>1, <1>3, <1>4
    <3> QED BY <1>2, <3>1
  <2> QED BY <1>1, <2>1
<1>6. CASE <<p, u>> \in M
  BY <1>3, <1>6 DEF M
<1>7. CASE <<p, u>> \notin M
  <2> DEFINE N == { e \in M : e[1] \notin I /\ e[2] \notin I }
             W == ReachableBy(N, u)
  <2>1. u \in W /\ W \in SUBSET V
    BY <1>1, ReachLaw
  <2>2. \A a, b : <<a, b>> \in N <=> <<a, b>> \in M /\ a \notin I /\ b \notin I
    OBVIOUS
  <2>3. W \subseteq V \ I
    <3>1. PICK S : S = V \ I
      OBVIOUS
    <3>2. u \in S /\ \A z \in S : \A y \in V : <<z, y>> \in N => y \in S
      BY <2>2, <3>1
    <3> QED BY <1>1, <3>1, <3>2, ReachWithin
  <2>4. \A z \in W : \A y \in V : <<z, y>> \in N => y \in W
    BY <1>1, ReachLaw
  <2> HIDE DEF N, W
  <2>5. PICK x \in I, y \in W : <<x, y>> \in M
    <3> SUFFICES ASSUME \A x \in I : \A y \in W : <<x, y>> \notin M PROVE FALSE
      OBVIOUS
    <3>1. PICK S : S = V \ W
      OBVIOUS
    <3>2. 1 \in S
      BY <1>1, <2>3, <3>1
    <3>3. ASSUME NEW a \in S, NEW b \in V, <<a, b>> \in M, b \notin S PROVE FALSE
      <4>1. a \notin I /\ b \in W /\ b \notin I
        BY <2>3, <3>1, <3>3
      <4>2. <<b, a>> \in N
        BY <1>1, <2>2, <3>3, <4>1
      <4>3. a \in W
        BY <2>4, <3>1, <3>3, <4>1, <4>2
      <4> QED BY <3>1, <4>3
    <3>4. ReachableBy(M, 1) \subseteq S
      BY <1>1, <3>2, <3>3, ReachWithin
    <3>5. u \in Reached
      BY <1>2, <1>5
    <3> QED BY <1>1, <2>1, <3>1, <3>4, <3>5
  <2> DEFINE f == Orient(x, y)  g == Orient(p, u)  U == (T \ {f}) \cup {g}
             Q == ReachableBy(Mirrored(U), 1)
  <2>6. x # y /\ p # u /\ x \in Reached /\ p \in Reached /\ <<x, y>> \in Seen9 /\ y \in V \ I /\ y \in V
    BY <1>1, <1>5, <2>3, <2>5
  <2>7. /\ f \in Usable /\ (f = <<x, y>> \/ f = <<y, x>>)
        /\ g \in Usable /\ (g = <<p, u>> \/ g = <<u, p>>)
    BY <1>2, <2>6
  <2>8. g \notin T /\ f \in T
    <3>1. g \notin T
      BY <1>1, <1>7, <2>7
    <3>2. \A a, b : <<a, b>> \in T => a < b
      <4>1. \A e \in T : e[1] < e[2]
        BY <1>1 DEF Usable
      <4> QED BY <4>1
    <3>3. x \in Int /\ y \in Int
      BY <1>1, <2>6
    <3>4. CASE <<x, y>> \in T
      BY <3>1, <3>2, <3>4 DEF Orient
    <3>5. CASE <<y, x>> \in T
      <4>1. y < x
        BY <3>2, <3>5
      <4>2. ~(x < y)
        BY <3>3, <4>1
      <4> QED BY <3>1, <3>5, <4>2 DEF Orient
    <3> QED BY <1>1, <2>5, <3>4, <3>5
  <2> HIDE DEF f, g
  <2>9. U \in SUBSET Usable
    BY <1>1, <2>7
  <2>10. /\ Mirrored(U) \subseteq Seen9 /\ ReachableBy(Mirrored(U), 1) \subseteq Reached
         /\ \A a, b : <<a, b>> \in Mirrored(U) <=> <<a, b>> \in U \/ <<b, a>> \in U
    BY <2>9, UsableFacts
  <2>11. ASSUME NEW a, NEW b, <<a, b>> \in M, ~(a = x /\ b = y), ~(a = y /\ b = x)
         PROVE  <<a, b>> \in Mirrored(U)
    <3>1. <<a, b>> # f /\ <<b, a>> # f
      BY <2>7, <2>11
    <3> QED BY <1>1, <2>10, <2>11, <3>1
  <2>12. <<p, u>> \in Mirrored(U)
    BY <2>7, <2>10
  <2>13. K \cup {<<p, u>>} \subseteq Mirrored(U)
    <3>1. y \notin I
      BY <2>6
    <3>2. ASSUME NEW e \in K PROVE e \in Mirrored(U)
      <4>1. e = <<e[1], e[2]>> /\ e[1] \in I /\ e[2] \in I /\ <<e[1], e[2]>> \in M
        BY <1>3, <1>4
      <4>2. <<e[1], e[2]>> \in Mirrored(U)
        BY <2>11, <3>1, <4>1
      <4> QED BY <4>1, <4>2
    <3> QED BY <2>12, <3>2
  <2>14. Cardinality(U) = Cardinality(T)
    <3>1. IsFiniteSet(T \ {f}) /\ Cardinality(T \ {f}) = Cardinality(T) - 1 /\ Cardinality(T) \in Nat
      BY <1>1, <2>8, FS_RemoveElement, FS_CardinalityType
    <3>2. Cardinality(U) = Cardinality(T \ {f}) + 1
      BY <2>8, <3>1, FS_AddElement
    <3> QED BY <3>1, <3>2
  <2> HIDE DEF U
  <2>15. Q \in SUBSET V /\ 1 \in Q /\ \A a \in Q : \A b \in V : <<a, b>> \in Mirrored(U) => b \in Q
    BY <1>1, ReachLaw
  <2> HIDE DEF Q
  <2>16. I \subseteq Q
    <3>1. \A e \in K : e[1] \in Q => e[2] \in Q
      BY <1>4, <2>13, <2>15
    <3> QED BY <2>15, <3>1
  <2>17. W \subseteq Q
    <3>1. u \in Q
      BY <2>12, <2>15, <2>16
    <3>2. \A z \in Q : \A b \in V : <<z, b>> \in N => b \in Q
      BY <2>2, <2>11, <2>15
    <3> QED BY <1>1, <3>1, <3>2, ReachWithin DEF W
  <2>18. ReachableBy(M, 1) \subseteq Q
    <3>1. ASSUME NEW a \in Q, NEW b \in V, <<a, b>> \in M PROVE b \in Q
      <4>1. CASE (a = x /\ b = y) \/ (a = y /\ b = x)
        BY <2>5, <2>16, <2>17, <4>1
      <4>2. CASE ~(a = x /\ b = y) /\ ~(a = y /\ b = x)
        BY <2>11, <2>15, <3>1, <4>2
      <4> QED BY <4>1, <4>2
    <3> QED BY <1>1, <2>15, <3>1, ReachWithin
  <2>19. U \in Spanning
    <3>1. ReachableBy(Mirrored(U), 1) = Reached
      BY <1>1, <2>10, <2>18 DEF Q
    <3> QED BY <1>1, <2>9, <2>14, <3>1 DEF Spanning
  <2>20. WeightSum(U) <= WeightSum(T)
    <3>1. U \ {g} = T \ {f} /\ g \in U
      BY <2>7, <2>8, <1>7 DEF U
    <3>2. graph[f[1]][f[2]] = graph[x][y] /\ graph[g[1]][g[2]] = graph[p][u]
      BY <1>2, <2>6, <2>7
    <3>3. graph[p][u] <= graph[x][y] /\ graph[x][y] \in Int /\ graph[p][u] \in Int
      BY <1>2, <2>6, SeenFacts
    <3>4. T \ {f} \in SUBSET Usable
      BY <1>1
    <3>5. /\ WeightSum(T \ {f}) \in Int
          /\ WeightSum(T) = graph[x][y] + WeightSum(T \ {f})
      BY <1>1, <2>8, <3>2, <3>4, SpanningSums
    <3>6. WeightSum(U) = graph[p][u] + WeightSum(T \ {f})
      BY <2>9, <3>1, <3>2, SpanningSums
    <3> QED BY <3>3, <3>5, <3>6
  <2>21. \A X \in Spanning : WeightSum(X) \in Int /\ WeightSum(T) <= WeightSum(X)
    BY SpanningSums DEF Lightest, Spanning
  <2>22. U \in Lightest
    <3>1. WeightSum(U) \in Int /\ WeightSum(T) \in Int
      BY <1>1, <2>19, <2>21
    <3> QED BY <2>19, <2>20, <2>21, <3>1 DEF Lightest
  <2> QED BY <2>13, <2>22
<1> QED BY <1>6, <1>7

-----------------------------------------------------------------------------
(* The tree so far: every vertex but 1 with an edge to it has the lightest *)
(* one, and the tree leads from 1 to all of it.                            *)
Pairs9 == { <<parent[v], v>> : v \in included \ {1} }

Linked(v) ==
  IF parent[v] = -1
  THEN min_weight[v] = INT_MAX /\ v \notin included
  ELSE /\ parent[v] \in included /\ <<parent[v], v>> \in Seen9
       /\ min_weight[v] = graph[parent[v]][v]

NinethRun ==
  /\ ~CheckDirected(graph) /\ V # {}
  /\ parent[1] = -1
  /\ IF included = {} THEN min_weight[1] = 0 ELSE 1 \in included
  /\ \A v \in V \ {1} : Linked(v)
  /\ \A x \in included : \A y \in V \ included :
       <<x, y>> \in Seen9 => min_weight[y] <= graph[x][y]
  /\ \A R \in SUBSET V : 1 \in R /\ (\A e \in Pairs9 : e[1] \in R => e[2] \in R) => included \subseteq R
  /\ \E T \in Lightest : Pairs9 \subseteq Mirrored(T)

NinethInv ==
  /\ graph \in Inputs["nineth"]
  /\ Nineth!TypeOK
  /\ pc = "start" =>
       /\ included = {} /\ parent = [v \in V |-> -1] /\ min_weight = [v \in V |-> INT_MAX]
  /\ pc \in {"prim", "done"} => NinethRun
  /\ pc = "done" =>
       /\ included = V
       /\ mst_edges = { <<parent[v], v, min_weight[v]>> : v \in { w \in V \ {1} : parent[w] # -1 } }
       /\ total_weight = SumFunctionOnSet(min_weight, { w \in 2..Len(graph) : parent[w] # -1 })

(* A weight of the input is an int.                                        *)
LEMMA NinethWeights ==
  ASSUME graph \in Inputs["nineth"]
  PROVE  /\ graph \in Graphs /\ INT_MAX \in Nat \ {0}
         /\ \A x, y \in V : graph[x][y] \in Nineth!Ints
         /\ \A x, y : <<x, y>> \in Seen9 => graph[x][y] < INT_MAX /\ graph[x][y] \in Int
         /\ \A i \in Nineth!Ints : i \in Int /\ i <= INT_MAX
         /\ 0 \in Nineth!Ints /\ INT_MAX \in Nineth!Ints
<1>1. graph \in Graphs /\ INT_MAX \in Nat \ {0} /\ graph \in GraphsOn(Len(graph), (-INT_MAX - 1)..INT_MAX)
  BY InputsAssumption DEF InputsAssumption, Programs
<1>2. Nineth!Ints = (-INT_MAX - 1)..INT_MAX
  BY DEF Nineth!Ints
<1>3. V = 1..Len(graph)
  BY <1>1, GraphFacts
<1>4. \A x, y \in V : graph[x][y] \in (-INT_MAX - 1)..INT_MAX
  BY <1>1, <1>3 DEF GraphsOn
<1>5. \A i \in (-INT_MAX - 1)..INT_MAX : i \in Int /\ i <= INT_MAX
  BY <1>1
<1>6. \A x, y : <<x, y>> \in Seen9 => x \in V /\ y \in V /\ graph[x][y] # INT_MAX
  <2> SUFFICES ASSUME NEW x, NEW y, <<x, y>> \in Seen9 PROVE x \in V /\ y \in V /\ graph[x][y] # INT_MAX
    OBVIOUS
  <2>1. <<x, y>> \in Edges /\ graph[x][y] # INT_MAX
    BY DEF Seen9
  <2>2. x \in V /\ y \in Near(x)
    BY <2>1, EdgesArePairs
  <2> QED BY <1>1, <2>1, <2>2, GraphFacts
<1>7. \A x, y : <<x, y>> \in Seen9 => graph[x][y] < INT_MAX /\ graph[x][y] \in Int
  <2> SUFFICES ASSUME NEW x, NEW y, <<x, y>> \in Seen9 PROVE graph[x][y] < INT_MAX /\ graph[x][y] \in Int
    OBVIOUS
  <2>1. graph[x][y] \in (-INT_MAX - 1)..INT_MAX /\ graph[x][y] # INT_MAX
    BY <1>4, <1>6
  <2> QED BY <1>1, <2>1
<1> QED BY <1>1, <1>2, <1>4, <1>5, <1>7

(* What the invariant says about types.                                    *)
LEMMA NinethTypes ==
  ASSUME NinethInv
  PROVE  /\ graph \in Graphs /\ included \in SUBSET V
         /\ parent \in [V -> included \cup {-1}]
         /\ min_weight \in [V -> Nineth!Ints] /\ \A v \in V : min_weight[v] \in Int
         /\ total_weight \in Nineth!Ints
         /\ mst_edges \subseteq included \X included \X Nineth!Ints
         /\ V \subseteq Int /\ \A S \in SUBSET V : IsFiniteSet(S)
         /\ pc \in {"start", "prim", "done", "error", "undefined"}
         /\ -1 \notin V
<1>1. /\ included \in SUBSET V
      /\ parent \in [V -> included \cup {-1}]
      /\ min_weight \in [V -> Nineth!Ints]
      /\ total_weight \in Nineth!Ints
      /\ mst_edges \subseteq included \X included \X Nineth!Ints
      /\ pc \in {"start", "prim", "done", "error", "undefined"}
  BY NinethReads DEF NinethInv, Nineth!TypeOK, Nineth!NoParent
<1>2. graph \in Graphs /\ \A i \in Nineth!Ints : i \in Int
  BY NinethWeights DEF NinethInv
<1>3. V \subseteq Int /\ (\A S \in SUBSET V : IsFiniteSet(S)) /\ V = 1..Len(graph) /\ Len(graph) \in Nat
  BY <1>2, GraphFacts
<1>4. -1 \notin V
  BY <1>3
<1>5. \A v \in V : min_weight[v] \in Int
  BY <1>1, <1>2
<1> QED BY <1>1, <1>2, <1>3, <1>4, <1>5

(* A new MSTFinder.                                                        *)
LEMMA NinethInit ==
  ASSUME graph \in Inputs["nineth"], pc = "start", Nineth!New
  PROVE  NinethInv
<1>1. Nineth!TypeOK
  BY NinethReads, NinethWeights DEF Nineth!New, Nineth!TypeOK, Nineth!NoParent
<1> QED BY <1>1, NinethReads DEF NinethInv, Nineth!New, Nineth!NoParent

(* The notions of the invariant depend on the graph only.                  *)
LEMMA NinethSame ==
  ASSUME graph' = graph
  PROVE  /\ V' = V /\ Seen9' = Seen9 /\ Lightest' = Lightest
         /\ \A T : Mirrored(T)' = Mirrored(T)
         /\ CheckDirected(graph)' <=> CheckDirected(graph)
<1>1. Edges' = Edges /\ V' = V /\ \A E, x : ReachableBy(E, x)' = ReachableBy(E, x)
  BY GraphSame
<1>2. Seen9' = Seen9
  BY <1>1 DEF Seen9
<1>3. Reached' = Reached
  BY <1>1, <1>2 DEF Reached
<1>4. Usable' = Usable
  BY <1>2, <1>3 DEF Usable
<1>5. \A T : Mirrored(T)' = Mirrored(T)
  BY DEF Mirrored
<1>6. Spanning' = Spanning
  BY <1>1, <1>3, <1>4 DEF Spanning, Mirrored
<1>7. \A T : WeightSum(T)' = WeightSum(T)
  BY <1>1 DEF WeightSum
<1>8. Lightest' = Lightest
  BY <1>6, <1>7 DEF Lightest
<1> QED BY <1>1, <1>2, <1>5, <1>8, GraphSame

(* The vertex that prim takes.                                             *)
LEMMA NinethChoice ==
  ASSUME NinethInv, pc = "prim", Nineth!Candidates # {}, NEW u, u = Nineth!find_min_weight_vertex
  PROVE  /\ u \in V \ included /\ min_weight[u] < INT_MAX
         /\ \A w \in V \ included : min_weight[w] < INT_MAX => min_weight[u] <= min_weight[w]
         /\ included = {} => u = 1
         /\ included # {} => u # 1 /\ parent[u] \in included /\ <<parent[u], u>> \in Seen9
                             /\ min_weight[u] = graph[parent[u]][u]
<1> DEFINE C == { v \in V \ included : min_weight[v] < INT_MAX }
           L == { v \in C : \A w \in C : min_weight[v] <= min_weight[w] }
<1>1. Nineth!Candidates = C
  BY NinethReads DEF Nineth!Candidates
<1>2. u = Least(L)
  BY <1>1, NinethReads DEF Nineth!find_min_weight_vertex
<1>3. C \in SUBSET V /\ IsFiniteSet(C) /\ \A v \in C : min_weight[v] \in Int
  BY NinethTypes
<1>4. L # {}
  <2> HIDE DEF C
  <2> QED BY <1>1, <1>3, LeastValue
<1>5. L \in SUBSET V /\ IsFiniteSet(L) /\ L \subseteq Int
  BY NinethTypes
<1>6. u \in L
  <2> HIDE DEF L
  <2> QED BY <1>2, <1>4, <1>5, LeastIsLeast
<1>7. NinethRun /\ \A v \in V \ {1} : Linked(v)
  BY DEF NinethInv, NinethRun
<1>8. INT_MAX \in Nat
  BY NinethWeights DEF NinethInv
<1>9. u # 1 => parent[u] # -1 /\ parent[u] \in included /\ <<parent[u], u>> \in Seen9
               /\ min_weight[u] = graph[parent[u]][u]
  BY <1>6, <1>7, <1>8 DEF Linked
<1>10. included # {} => u # 1
  BY <1>6, <1>7 DEF NinethRun
<1> QED BY <1>6, <1>9, <1>10

(* prim begins, or the graph is refused.                                   *)
LEMMA NinethStart ==
  ASSUME NinethInv, Nineth!Start
  PROVE  NinethInv'
<1> USE DEF Nineth!result
<1>1. /\ pc = "start" /\ graph' = graph
      /\ UNCHANGED <<included, parent, mst_edges, total_weight>>
      /\ included = {} /\ parent = [v \in V |-> -1] /\ min_weight = [v \in V |-> INT_MAX]
  BY DEF NinethInv, Nineth!Start
<1>2. V' = V /\ (CheckDirected(graph)' <=> CheckDirected(graph))
      /\ Seen9' = Seen9 /\ Lightest' = Lightest /\ \A T : Mirrored(T)' = Mirrored(T)
  BY <1>1, NinethSame
<1>3. CASE min_weight' = min_weight /\ pc' \in {"error", "undefined"}
  <2>1. Nineth!TypeOK'
    BY <1>1, <1>2, <1>3, NinethReads DEF NinethInv, Nineth!TypeOK, Nineth!NoParent, Nineth!Ints
  <2> QED BY <1>1, <1>2, <1>3, <2>1 DEF NinethInv
<1>4. CASE /\ ~CheckDirected(graph) /\ V # {}
           /\ min_weight' = [min_weight EXCEPT ![1] = 0]
           /\ pc' = "prim"
  <2>1. graph \in Inputs["nineth"] /\ Weighted9 /\ 1 \in V
    <3>1. Weighted9 /\ graph \in Inputs["nineth"]
      BY <1>4, NinethTypes DEF NinethInv, Weighted9
    <3> QED BY <3>1, SeenFacts
  <2>2. min_weight' \in [V -> Nineth!Ints] /\ min_weight'[1] = 0
    BY <1>1, <1>4, <2>1, NinethWeights
  <2>3. Nineth!TypeOK'
    BY <1>1, <1>2, <1>4, <2>2, NinethReads DEF NinethInv, Nineth!TypeOK, Nineth!NoParent, Nineth!Ints
  <2>4. \A v \in V \ {1} : Linked(v)'
    BY <1>1, <1>2, <1>4, <2>1 DEF Linked
  <2>5. Pairs9' = {}
    BY <1>1 DEF Pairs9
  <2>6. NinethRun'
    <3>1. \E T \in Lightest : Pairs9' \subseteq Mirrored(T)
      BY <2>1, <2>5, LightestExists
    <3>2. parent'[1] = -1
      BY <1>1, <2>1
    <3> QED BY <1>1, <1>2, <1>4, <2>2, <2>4, <3>1, <3>2 DEF NinethRun
  <2> QED BY <1>1, <1>4, <2>1, <2>3, <2>6 DEF NinethInv
<1> QED BY <1>3, <1>4, NinethReads DEF Nineth!Start

(* Steps that keep the tree.                                               *)
LEMMA NinethStill ==
  ASSUME NinethInv, UNCHANGED <<graph, vars9>>, pc' = pc \/ pc' \in {"error", "undefined"}
  PROVE  NinethInv'
<1> USE DEF vars9
<1>1. /\ V' = V /\ Seen9' = Seen9 /\ Lightest' = Lightest /\ Len(graph)' = Len(graph)
      /\ \A T : Mirrored(T)' = Mirrored(T)
      /\ CheckDirected(graph)' <=> CheckDirected(graph)
  BY NinethSame
<1>2. Nineth!TypeOK'
  BY <1>1, NinethReads DEF NinethInv, Nineth!TypeOK, Nineth!NoParent, Nineth!Ints
<1>3. Pairs9' = Pairs9 /\ \A v : Linked(v)' = Linked(v)
  BY <1>1 DEF Pairs9, Linked
<1>4. NinethRun => NinethRun'
  BY <1>1, <1>3 DEF NinethRun
<1>5. pc = "done" => V' = V
  BY <1>1
<1> QED BY <1>1, <1>2, <1>4 DEF NinethInv

(* An iteration of prim: the nearest vertex is included along its edge,    *)
(* which a least tree has, and the weights of its neighbours come down to  *)
(* their edges to it.                                                      *)
LEMMA NinethInclude ==
  ASSUME NinethInv, Nineth!Include
  PROVE  NinethInv'
<1>0. PICK u : u = Nineth!find_min_weight_vertex
  OBVIOUS
<1> DEFINE closer(v) == graph[u][v] # 0 /\ v \notin included \cup {u} /\ graph[u][v] < min_weight[v]
           now == included \cup {u}
<1>1. /\ pc = "prim" /\ Nineth!Candidates # {} /\ pc' = pc /\ graph' = graph
      /\ included' = now
      /\ parent' = [v \in V |-> IF closer(v) THEN u ELSE parent[v]]
      /\ min_weight' = [v \in V |-> IF closer(v) THEN graph[u][v] ELSE min_weight[v]]
      /\ UNCHANGED <<mst_edges, total_weight>>
  BY <1>0, NinethReads DEF Nineth!Include, Nineth!Closer, Nineth!Offer, Nineth!result
<1>2. /\ u \in V \ included /\ min_weight[u] < INT_MAX
      /\ \A w \in V \ included : min_weight[w] < INT_MAX => min_weight[u] <= min_weight[w]
      /\ included = {} => u = 1
      /\ included # {} => u # 1 /\ parent[u] \in included /\ <<parent[u], u>> \in Seen9
                          /\ min_weight[u] = graph[parent[u]][u]
  BY <1>0, <1>1, NinethChoice
<1>3. /\ NinethRun /\ Weighted9 /\ 1 \in V /\ graph \in Inputs["nineth"]
      /\ included \in SUBSET V /\ parent \in [V -> included \cup {-1}]
      /\ min_weight \in [V -> Nineth!Ints] /\ V \subseteq Int /\ -1 \notin V
      /\ INT_MAX \in Nat /\ \A v \in V : min_weight[v] \in Int /\ min_weight[v] <= INT_MAX
  <2>1. NinethRun /\ graph \in Inputs["nineth"]
    BY <1>1 DEF NinethInv
  <2>2. Weighted9
    BY <2>1, NinethTypes DEF NinethRun, Weighted9
  <2> QED BY <2>1, <2>2, SeenFacts, NinethTypes, NinethWeights
<1>4. \A x, y : <<x, y>> \in Seen9 <=> x \in V /\ y \in V /\ graph[x][y] # 0 /\ graph[x][y] # INT_MAX
  BY <1>3, SeenFacts
<1>5. /\ V' = V /\ Seen9' = Seen9 /\ Lightest' = Lightest
      /\ \A T : Mirrored(T)' = Mirrored(T)
      /\ CheckDirected(graph)' <=> CheckDirected(graph)
  BY <1>1, NinethSame
<1>6. \A v \in V : closer(v) => <<u, v>> \in Seen9 /\ v \notin now
  <2>1. \A v \in V : graph[u][v] \in Int
    BY <1>2, <1>3, SeenFacts
  <2>2. ASSUME NEW v \in V, graph[u][v] < min_weight[v] PROVE graph[u][v] # INT_MAX
    <3>1. min_weight[v] \in Int /\ min_weight[v] <= INT_MAX /\ graph[u][v] \in Int /\ INT_MAX \in Int
      BY <1>3, <2>1
    <3> QED BY <2>2, <3>1
  <2> QED BY <1>2, <1>4, <2>2
<1>7. Nineth!TypeOK'
  <2>1. now \subseteq V /\ parent' \in [V -> now \cup {-1}] /\ min_weight' \in [V -> Nineth!Ints]
    <3>1. \A v \in V : graph[u][v] \in Nineth!Ints
      BY <1>2, <1>3, NinethWeights
    <3> QED BY <1>1, <1>2, <1>3, <3>1
  <2>2. mst_edges \subseteq now \X now \X Nineth!Ints
    BY NinethTypes
  <2> QED
    BY <1>1, <1>5, <2>1, <2>2, NinethTypes, NinethReads DEF Nineth!TypeOK, Nineth!NoParent, Nineth!Ints
<1>8. \A v \in now : parent'[v] = parent[v] /\ min_weight'[v] = min_weight[v]
  BY <1>1, <1>2, <1>3
<1>9. \A v \in V \ {1} : Linked(v)'
  <2> SUFFICES ASSUME NEW v \in V \ {1} PROVE Linked(v)'
    OBVIOUS
  <2>1. Linked(v)
    BY <1>3 DEF NinethRun
  <2>2. CASE closer(v)
    <3>1. parent'[v] = u /\ min_weight'[v] = graph[u][v] /\ <<u, v>> \in Seen9 /\ u # -1 /\ u \in now
      BY <1>1, <1>2, <1>3, <1>6, <2>2
    <3> QED BY <1>1, <1>5, <3>1 DEF Linked
  <2>3. CASE ~closer(v)
    <3>1. parent'[v] = parent[v] /\ min_weight'[v] = min_weight[v]
      BY <1>1, <2>3
    <3>2. CASE v = u
      <4>1. included # {} /\ parent[u] # -1
        BY <1>2, <1>3, <3>2
      <4> QED BY <1>1, <1>5, <2>1, <3>1, <3>2, <4>1 DEF Linked
    <3>3. CASE v # u
      BY <1>1, <1>5, <2>1, <3>1, <3>3 DEF Linked
    <3> QED BY <3>2, <3>3
  <2> HIDE DEF closer
  <2> QED BY <2>2, <2>3
<1>10. \A x \in now : \A y \in V \ now : <<x, y>> \in Seen9 => min_weight'[y] <= graph[x][y]
  <2> SUFFICES ASSUME NEW x \in now, NEW y \in V \ now, <<x, y>> \in Seen9
               PROVE  min_weight'[y] <= graph[x][y]
    OBVIOUS
  <2>1. graph[u][y] \in Int /\ graph[x][y] \in Int /\ min_weight[y] \in Int /\ graph[x][y] # 0
    BY <1>2, <1>3, <1>4, SeenFacts
  <2>2. min_weight'[y] = IF graph[u][y] # 0 /\ graph[u][y] < min_weight[y] THEN graph[u][y] ELSE min_weight[y]
    BY <1>1
  <2>3. CASE x = u
    BY <2>1, <2>2, <2>3
  <2>4. CASE x \in included
    <3>1. min_weight[y] <= graph[x][y]
      BY <1>3, <2>4 DEF NinethRun
    <3> QED BY <2>1, <2>2, <3>1
  <2> QED BY <2>3, <2>4
<1>11. Pairs9' = Pairs9 \cup (IF included = {} THEN {} ELSE {<<parent[u], u>>})
  <2>1. Pairs9' = { <<parent'[v], v>> : v \in now \ {1} }
    BY <1>1 DEF Pairs9
  <2>2. Pairs9' = { <<parent[v], v>> : v \in now \ {1} }
    BY <1>8, <2>1
  <2>3. CASE included = {}
    BY <1>2, <2>2, <2>3 DEF Pairs9
  <2>4. CASE included # {}
    BY <1>2, <2>2, <2>4 DEF Pairs9
  <2> QED BY <2>3, <2>4
<1>12. \A R \in SUBSET V : 1 \in R /\ (\A e \in Pairs9' : e[1] \in R => e[2] \in R) => now \subseteq R
  <2> SUFFICES ASSUME NEW R \in SUBSET V, 1 \in R, \A e \in Pairs9' : e[1] \in R => e[2] \in R
               PROVE  now \subseteq R
    OBVIOUS
  <2>1. included \subseteq R
    BY <1>3, <1>11 DEF NinethRun
  <2>2. CASE included = {}
    BY <1>2, <2>2
  <2>3. CASE included # {}
    BY <1>2, <1>11, <2>1, <2>3
  <2> QED BY <2>2, <2>3
<1>13. \E T \in Lightest : Pairs9' \subseteq Mirrored(T)
  <2>1. PICK T \in Lightest : Pairs9 \subseteq Mirrored(T)
    BY <1>3 DEF NinethRun
  <2>2. CASE included = {}
    BY <1>11, <2>1, <2>2
  <2>3. CASE included # {}
    <3>1. 1 \in included
      BY <1>3, <2>3 DEF NinethRun
    <3>2. Pairs9 \subseteq included \X included
      <4>1. \A v \in included \ {1} : parent[v] \in included
        BY <1>3 DEF NinethRun, Linked
      <4> QED BY <4>1 DEF Pairs9
    <3>3. \A x \in included : \A y \in V \ included : <<x, y>> \in Seen9 => graph[parent[u]][u] <= graph[x][y]
      <4> SUFFICES ASSUME NEW x \in included, NEW y \in V \ included, <<x, y>> \in Seen9
                   PROVE  graph[parent[u]][u] <= graph[x][y]
        OBVIOUS
      <4>1. min_weight[y] <= graph[x][y]
        BY <1>3 DEF NinethRun
      <4>2. graph[x][y] < INT_MAX /\ graph[x][y] \in Int /\ min_weight[y] \in Int
        BY <1>3, NinethWeights
      <4>3. min_weight[y] < INT_MAX
        BY <1>3, <4>1, <4>2
      <4>4. min_weight[u] <= min_weight[y] /\ min_weight[u] \in Int
        BY <1>2, <1>3, <4>3
      <4> QED BY <1>2, <2>3, <4>1, <4>2, <4>4
    <3>4. \A R \in SUBSET V : 1 \in R /\ (\A e \in Pairs9 : e[1] \in R => e[2] \in R) => included \subseteq R
      BY <1>3 DEF NinethRun
    <3>5. \E U \in Lightest : Pairs9 \cup {<<parent[u], u>>} \subseteq Mirrored(U)
      <4>1. PICK p, K, I : p = parent[u] /\ K = Pairs9 /\ I = included
        OBVIOUS
      <4>2. /\ I \in SUBSET V /\ 1 \in I /\ K \subseteq Mirrored(T) /\ K \subseteq I \X I
            /\ p \in I /\ u \in V \ I /\ <<p, u>> \in Seen9
        BY <1>2, <1>3, <2>1, <2>3, <3>1, <3>2, <4>1
      <4>3. \A x \in I : \A y \in V \ I : <<x, y>> \in Seen9 => graph[p][u] <= graph[x][y]
        BY <3>3, <4>1
      <4>4. \A R \in SUBSET V : 1 \in R /\ (\A e \in K : e[1] \in R => e[2] \in R) => I \subseteq R
        BY <3>4, <4>1
      <4>5. Weighted9 /\ T \in Lightest
        BY <1>3, <2>1
      <4>7. LightestOut(T, I, K, p, u)
        BY <4>2, <4>3, <4>4, <4>5 DEF LightestOut
      <4>6. \E U \in Lightest : K \cup {<<p, u>>} \subseteq Mirrored(U)
        BY <4>5, <4>7, Exchange
      <4> QED BY <4>1, <4>6
    <3> QED BY <1>11, <2>3, <3>5
  <2> QED BY <2>2, <2>3
<1>14. parent'[1] = -1 /\ 1 \in now /\ now # {}
  <2>1. 1 \in now
    BY <1>2, <1>3 DEF NinethRun
  <2> QED BY <1>3, <1>8, <2>1 DEF NinethRun
<1>15. NinethRun'
  BY <1>1, <1>3, <1>5, <1>9, <1>10, <1>12, <1>13, <1>14 DEF NinethRun, Weighted9
<1> QED BY <1>1, <1>3, <1>7, <1>15 DEF NinethInv

(* As many elements as vertices that name them, if no two name the same.   *)
LEMMA Renamed ==
  ASSUME NEW S, IsFiniteSet(S), NEW g
  PROVE  /\ IsFiniteSet({ g[x] : x \in S })
         /\ (\A x, y \in S : g[x] = g[y] => x = y) => Cardinality({ g[x] : x \in S }) = Cardinality(S)
<1>1. PICK h : h = [x \in S |-> g[x]]
  OBVIOUS
<1>2. PICK I : I = { g[x] : x \in S }
  OBVIOUS
<1>3. h \in [S -> I] /\ \A x \in S : h[x] = g[x]
  BY <1>1, <1>2
<1>4. \A y \in I : \E x \in S : h[x] = y
  BY <1>2, <1>3
<1>5. h \in Surjection(S, I)
  BY <1>3, <1>4 DEF Surjection
<1>6. (\A x, y \in S : g[x] = g[y] => x = y) => h \in Injection(S, I)
  BY <1>3 DEF Injection, IsInjective
<1> QED BY <1>2, <1>5, <1>6, FS_Surjection

(* A sum over a set is the sum over the vertices that name its elements.   *)
LEMMA SumRenamed ==
  ASSUME NEW S, IsFiniteSet(S), NEW g, NEW f, NEW h,
         \A x, y \in S : g[x] = g[y] => x = y,
         \A x \in S : h[x] \in Int /\ f[g[x]] = h[x]
  PROVE  SumFunctionOnSet(f, { g[x] : x \in S }) = SumFunctionOnSet(h, S)
<1> DEFINE Im(s) == { g[x] : x \in s }
           F(s) == SumFunctionOnSet(f, s)
           H(s) == SumFunctionOnSet(h, s)
           Good == { s \in SUBSET S : F(Im(s)) = H(s) }
<1>1. \A s \in SUBSET S : IsFiniteSet(Im(s))
  <2> SUFFICES ASSUME NEW s \in SUBSET S PROVE IsFiniteSet(Im(s))
    OBVIOUS
  <2> QED BY FS_Subset, Renamed
<1>2. \A s \in SUBSET S : \A x \in s : H(s) = h[x] + H(s \ {x})
  <2>1. \A x \in S : h[x] \in Int
    OBVIOUS
  <2>2. \A m \in SUBSET S :
          /\ SumFunctionOnSet(h, m) \in Int
          /\ \A x \in m : SumFunctionOnSet(h, m) = h[x] + SumFunctionOnSet(h, m \ {x})
    BY <2>1, SubsetSums
  <2> QED BY <2>2
<1>3. \A s \in SUBSET S : \A x \in s : F(Im(s)) = h[x] + F(Im(s) \ {g[x]})
  <2> SUFFICES ASSUME NEW s \in SUBSET S, NEW x \in s PROVE F(Im(s)) = h[x] + F(Im(s) \ {g[x]})
    OBVIOUS
  <2>1. PICK I : I = Im(s)
    OBVIOUS
  <2>2. IsFiniteSet(I) /\ g[x] \in I /\ \A y \in I : f[y] \in Int
    BY <1>1, <2>1
  <2>3. F(I) = f[g[x]] + F(I \ {g[x]})
    BY <2>2, SumPick
  <2> QED BY <2>1, <2>3
<1>4. \A s \in SUBSET S : \A x \in s : Im(s) \ {g[x]} = Im(s \ {x})
  OBVIOUS
<1>5. {} \in Good
  <2>1. Im({}) = {}
    OBVIOUS
  <2>2. F({}) = 0 /\ H({}) = 0
    BY SumEmpty
  <2> HIDE DEF F, H, Im
  <2> QED BY <2>1, <2>2
<1> HIDE DEF F, H, Im
<1>6. \A m \in SUBSET S : \A x \in m : m \ {x} \in Good => m \in Good
  BY <1>2, <1>3, <1>4
<1>7. S \in Good
  <2> HIDE DEF Good
  <2> QED BY <1>5, <1>6, SubsetInduction
<1> QED BY <1>7 DEF F, H, Im

(* The tree is there: what is printed is read off parent and min_weight.   *)
LEMMA NinethCollect ==
  ASSUME NinethInv, Nineth!Collect
  PROVE  NinethInv'
<1> USE DEF Nineth!result, Nineth!NoParent
<1> DEFINE ok == \A v \in V : Nineth!Total(v) \in Nineth!Ints
<1>1. /\ pc = "prim" /\ included = V /\ UNCHANGED <<graph, included, parent, min_weight>>
  BY NinethReads DEF Nineth!Collect
<1>2. CASE ~ok
  <2>1. pc' = "undefined" /\ UNCHANGED <<mst_edges, total_weight>>
    BY <1>2, NinethReads DEF Nineth!Collect
  <2>2. UNCHANGED <<graph, vars9>> /\ pc' \in {"error", "undefined"}
    BY <1>1, <2>1 DEF vars9
  <2> QED BY <2>2, NinethStill
<1>3. CASE ok
  <2>1. /\ pc' = "done"
        /\ mst_edges' = { <<parent[v], v, min_weight[v]>> : v \in { w \in V \ {1} : parent[w] # -1 } }
        /\ total_weight' = Nineth!Total(Len(graph))
    BY <1>3, NinethReads DEF Nineth!Collect
  <2>2. \A v : Nineth!Total(v) = SumFunctionOnSet(min_weight, { w \in 2..v : parent[w] # -1 })
    BY NinethReads DEF Nineth!Total
  <2>3. NinethRun /\ graph \in Inputs["nineth"]
    BY <1>1 DEF NinethInv
  <2>4. /\ V' = V /\ Seen9' = Seen9 /\ Lightest' = Lightest
        /\ \A T : Mirrored(T)' = Mirrored(T)
        /\ CheckDirected(graph)' <=> CheckDirected(graph)
    BY <1>1, NinethSame
  <2>5. Pairs9' = Pairs9 /\ \A v : Linked(v)' = Linked(v)
    BY <1>1, <2>4 DEF Pairs9, Linked
  <2>6. NinethRun'
    BY <1>1, <2>3, <2>4, <2>5 DEF NinethRun
  <2>7. Len(graph) \in V
    <3>1. graph \in Graphs /\ V # {}
      BY <2>3, NinethTypes DEF NinethRun
    <3> QED BY <3>1, GraphFacts
  <2>8. total_weight' \in Nineth!Ints
    BY <1>3, <2>1, <2>7
  <2>9. mst_edges' \subseteq V \X V \X Nineth!Ints
    <3>1. \A w \in V \ {1} : parent[w] # -1 => <<parent[w], w, min_weight[w]>> \in V \X V \X Nineth!Ints
      BY <1>1, NinethTypes
    <3> QED BY <2>1, <3>1
  <2>10. Nineth!TypeOK'
    <3>1. /\ parent \in [V -> V \cup {-1}] /\ min_weight \in [V -> Nineth!Ints]
      BY <1>1, NinethTypes
    <3> QED BY <1>1, <2>1, <2>4, <2>8, <2>9, <3>1, NinethReads DEF Nineth!TypeOK, Nineth!Ints
  <2> QED BY <1>1, <2>1, <2>2, <2>3, <2>4, <2>6, <2>10 DEF NinethInv
<1> QED BY <1>2, <1>3

(* Every step of MSTFinder keeps its invariant.                            *)
LEMMA NinethStep ==
  ASSUME NinethInv, Nineth!Next \/ UNCHANGED <<graph, pc, vars9>>
  PROVE  NinethInv'
<1>1. CASE Nineth!Disconnected
  <2>1. UNCHANGED <<graph, vars9>> /\ pc' \in {"error", "undefined"}
    BY <1>1 DEF Nineth!Disconnected, Nineth!result, vars9
  <2> QED BY <2>1, NinethStill
<1>2. CASE UNCHANGED <<graph, pc, vars9>>
  BY <1>2, NinethStill
<1> QED BY <1>1, <1>2, NinethStart, NinethInclude, NinethCollect DEF Nineth!Next

(* A tree on all vertices is a whole lightest one, and adds up to it.      *)
LEMMA WholeTree ==
  ASSUME NinethInv, NinethRun, included = V
  PROVE  \E T \in Lightest :
           /\ Mirrored(T) = Mirrored(Pairs9)
           /\ WeightSum(T) = SumFunctionOnSet(min_weight, V \ {1})
<1>1. PICK T \in Lightest : Pairs9 \subseteq Mirrored(T)
  BY DEF NinethRun
<1>2. /\ graph \in Graphs /\ Weighted9 /\ 1 \in V /\ V \subseteq Int /\ IsFiniteSet(V)
      /\ \A v \in V : min_weight[v] \in Int
  <2>1. graph \in Graphs /\ \A v \in V : min_weight[v] \in Int
    BY NinethTypes
  <2>2. Weighted9
    BY <2>1 DEF NinethRun, Weighted9
  <2> QED BY <2>1, <2>2, SeenFacts
<1>3. /\ T \in SUBSET Usable /\ IsFiniteSet(T) /\ Cardinality(T) = Cardinality(Reached) - 1
      /\ \A a, b : <<a, b>> \in Mirrored(T) <=> <<a, b>> \in T \/ <<b, a>> \in T
  BY <1>2, UsableFacts DEF Lightest, Spanning
<1>4. \A v \in V \ {1} : /\ parent[v] \in V /\ <<parent[v], v>> \in Seen9
                         /\ min_weight[v] = graph[parent[v]][v]
  BY DEF NinethRun, Linked
<1>5. \A R \in SUBSET V : 1 \in R /\ (\A v \in V \ {1} : parent[v] \in R => v \in R) => V \subseteq R
  <2>1. \A e \in Pairs9 : \E v \in V \ {1} : e[1] = parent[v] /\ e[2] = v
    BY DEF Pairs9
  <2> QED BY <2>1 DEF NinethRun
<1>6. Reached = V
  <2>1. 1 \in Reached /\ Reached \in SUBSET V
        /\ \A x \in Reached : \A y : <<x, y>> \in Seen9 => y \in Reached
    BY <1>2, ReachedFacts
  <2> QED BY <1>4, <1>5, <2>1
<1> DEFINE g == [v \in V \ {1} |-> Orient(parent[v], v)]
           W == [e \in V \X V |-> graph[e[1]][e[2]]]
<1>7. \A v \in V \ {1} : g[v] \in T /\ (g[v] = <<parent[v], v>> \/ g[v] = <<v, parent[v]>>)
  <2> SUFFICES ASSUME NEW v \in V \ {1}
               PROVE  g[v] \in T /\ (g[v] = <<parent[v], v>> \/ g[v] = <<v, parent[v]>>)
    OBVIOUS
  <2>1. PICK p : p = parent[v]
    OBVIOUS
  <2>2. <<p, v>> \in Pairs9 /\ p \in V /\ p \in Int /\ v \in Int
    BY <1>2, <1>4, <2>1 DEF Pairs9
  <2>3. <<p, v>> \in T \/ <<v, p>> \in T
    BY <1>1, <1>3, <2>2
  <2>4. \A a, b : <<a, b>> \in T => a < b
    <3>1. \A e \in T : e[1] < e[2]
      BY <1>3 DEF Usable
    <3> QED BY <3>1
  <2>5. Orient(p, v) \in T /\ (Orient(p, v) = <<p, v>> \/ Orient(p, v) = <<v, p>>)
    BY <2>2, <2>3, <2>4 DEF Orient
  <2> QED BY <2>1, <2>5
<1> HIDE DEF g
<1>8. \A v, w \in V \ {1} : g[v] = g[w] => v = w
  <2> SUFFICES ASSUME NEW v \in V \ {1}, NEW w \in V \ {1}, g[v] = g[w], v # w
               PROVE  FALSE
    OBVIOUS
  <2>1. parent[v] = w /\ parent[w] = v
    BY <1>7
  <2>2. PICK R : R = V \ {v, w}
    OBVIOUS
  <2>3. R \in SUBSET V /\ 1 \in R /\ v \notin R
    BY <1>2, <2>2
  <2>4. \A x \in V \ {1} : parent[x] \in R => x \in R
    BY <2>1, <2>2
  <2> QED BY <1>5, <2>3, <2>4
<1> DEFINE I == { g[v] : v \in V \ {1} }
<1>9. I = T
  <2>1. IsFiniteSet(V \ {1}) /\ Cardinality(V \ {1}) = Cardinality(V) - 1
    BY <1>2, FS_RemoveElement
  <2>2. I \subseteq T
    BY <1>7
  <2>3. IsFiniteSet(I) /\ Cardinality(I) = Cardinality(V \ {1})
    <3>1. PICK D : D = V \ {1}
      OBVIOUS
    <3>2. /\ IsFiniteSet({ g[v] : v \in D })
          /\ (\A v, w \in D : g[v] = g[w] => v = w) => Cardinality({ g[v] : v \in D }) = Cardinality(D)
      BY <2>1, <3>1, Renamed
    <3> QED BY <1>8, <3>1, <3>2
  <2> HIDE DEF I
  <2> QED BY <1>3, <1>6, <2>1, <2>2, <2>3, FS_Subset
<1>10. Mirrored(T) = Mirrored(Pairs9)
  <2>1. \A e \in T : \E v \in V \ {1} : e = g[v]
    BY <1>9
  <2>2. \A e \in T : <<e[2], e[1]>> \in Mirrored(Pairs9) /\ e \in Mirrored(Pairs9)
    <3> SUFFICES ASSUME NEW e \in T
                 PROVE  <<e[2], e[1]>> \in Mirrored(Pairs9) /\ e \in Mirrored(Pairs9)
      OBVIOUS
    <3>1. PICK v \in V \ {1} : e = g[v]
      BY <2>1
    <3>2. PICK p : p = parent[v]
      OBVIOUS
    <3>3. <<p, v>> \in Pairs9
      BY <3>2 DEF Pairs9
    <3>4. Pairs9 \subseteq V \X V
      BY <1>4 DEF Pairs9
    <3>5. <<p, v>> \in Mirrored(Pairs9) /\ <<v, p>> \in Mirrored(Pairs9)
      BY <3>3, <3>4, MirroredLaw
    <3>6. e = <<p, v>> \/ e = <<v, p>>
      BY <1>7, <3>1, <3>2
    <3> QED BY <3>5, <3>6
  <2>3. Mirrored(T) \subseteq Mirrored(Pairs9)
    <3>1. \A e \in Mirrored(T) : e \in T \/ \E f \in T : e = <<f[2], f[1]>>
      BY DEF Mirrored
    <3> QED BY <2>2, <3>1
  <2>4. Mirrored(Pairs9) \subseteq Mirrored(T)
    <3> SUFFICES ASSUME NEW e \in Mirrored(Pairs9) PROVE e \in Mirrored(T)
      OBVIOUS
    <3>1. CASE e \in Pairs9
      BY <1>1, <3>1
    <3>2. CASE \E f \in Pairs9 : e = <<f[2], f[1]>>
      <4>1. PICK f \in Pairs9 : e = <<f[2], f[1]>>
        BY <3>2
      <4>2. PICK v \in V \ {1} : f = <<parent[v], v>>
        BY DEF Pairs9
      <4>3. PICK p : p = parent[v]
        OBVIOUS
      <4>4. <<p, v>> \in Mirrored(T) /\ e = <<v, p>>
        BY <1>1, <4>1, <4>2, <4>3
      <4> QED BY <1>3, <4>4
    <3> QED BY <3>1, <3>2 DEF Mirrored
  <2> QED BY <2>3, <2>4
<1>11. WeightSum(T) = SumFunctionOnSet(min_weight, V \ {1})
  <2>1. \A v \in V \ {1} : min_weight[v] \in Int /\ W[g[v]] = min_weight[v]
    <3> SUFFICES ASSUME NEW v \in V \ {1} PROVE W[g[v]] = min_weight[v]
      BY <1>2
    <3>1. PICK p : p = parent[v]
      OBVIOUS
    <3>2. p \in V /\ <<p, v>> \in Seen9 /\ min_weight[v] = graph[p][v]
      BY <1>4, <3>1
    <3>3. graph[v][p] = graph[p][v]
      BY <1>2, <3>2, SeenFacts
    <3>4. W[<<p, v>>] = graph[p][v] /\ W[<<v, p>>] = graph[v][p]
      BY <3>2
    <3>5. g[v] = <<p, v>> \/ g[v] = <<v, p>>
      BY <1>7, <3>1
    <3> HIDE DEF W
    <3> QED BY <3>2, <3>3, <3>4, <3>5
  <2>2. IsFiniteSet(V \ {1})
    BY <1>2, FS_Subset
  <2>3. PICK D : D = V \ {1}
    OBVIOUS
  <2> HIDE DEF W
  <2>4. SumFunctionOnSet(W, { g[v] : v \in D }) = SumFunctionOnSet(min_weight, D)
    <3>1. /\ IsFiniteSet(D) /\ \A v, w \in D : g[v] = g[w] => v = w
          /\ \A v \in D : min_weight[v] \in Int /\ W[g[v]] = min_weight[v]
      BY <1>8, <2>1, <2>2, <2>3
    <3> QED BY <3>1, SumRenamed
  <2> QED BY <1>9, <2>3, <2>4 DEF WeightSum, W
<1> QED BY <1>1, <1>10, <1>11

(* At the end the edges are those of a lightest spanning tree and the      *)
(* total is its weight, or it overflowed.                                  *)
LEMMA NinethRight ==
  ASSUME NinethInv
  PROVE  Nineth!LeastTree
<1>1. Nineth!Tree = Pairs9
  BY DEF Nineth!Tree, Pairs9
<1>2. pc = "prim" => \E T \in Nineth!LeastTrees : Nineth!Tree \subseteq Nineth!Mirrored(T)
  BY <1>1, NinethReads DEF NinethInv, NinethRun
<1>3. ASSUME pc = "done"
      PROVE  /\ mst_edges = { <<e[1], e[2], graph[e[1]][e[2]]>> : e \in Nineth!Tree }
             /\ \E T \in Nineth!LeastTrees :
                  /\ Nineth!Mirrored(T) = Nineth!Mirrored(Nineth!Tree)
                  /\ Nineth!WeightOf(T) = total_weight
  <2>1. /\ NinethRun /\ included = V
        /\ mst_edges = { <<parent[v], v, min_weight[v]>> : v \in { w \in V \ {1} : parent[w] # -1 } }
        /\ total_weight = SumFunctionOnSet(min_weight, { w \in 2..Len(graph) : parent[w] # -1 })
    BY <1>3 DEF NinethInv
  <2>2. \A v \in V \ {1} : parent[v] # -1 /\ min_weight[v] = graph[parent[v]][v]
    BY <2>1 DEF NinethRun, Linked
  <2>3. { w \in 2..Len(graph) : parent[w] # -1 } = V \ {1}
    <3>1. V = 1..Len(graph) /\ Len(graph) \in Nat
      BY NinethTypes, GraphFacts
    <3>2. 2..Len(graph) = V \ {1}
      BY <3>1
    <3> QED BY <2>2, <3>2
  <2>4. mst_edges = { <<parent[v], v, min_weight[v]>> : v \in V \ {1} }
    BY <2>1, <2>2
  <2>5. mst_edges = { <<e[1], e[2], graph[e[1]][e[2]]>> : e \in Pairs9 }
    <3>1. \A v \in V \ {1} : <<parent[v], v, min_weight[v]>> = <<parent[v], v, graph[parent[v]][v]>>
      BY <2>2
    <3>2. Pairs9 = { <<parent[v], v>> : v \in V \ {1} }
      BY <2>1 DEF Pairs9
    <3>3. { <<e[1], e[2], graph[e[1]][e[2]]>> : e \in Pairs9 } =
            { <<parent[v], v, graph[parent[v]][v]>> : v \in V \ {1} }
      <4> DEFINE t(e) == <<e[1], e[2], graph[e[1]][e[2]]>>
                 k(v) == <<parent[v], v, graph[parent[v]][v]>>
      <4>1. \A v : t(<<parent[v], v>>) = k(v)
        OBVIOUS
      <4> HIDE DEF t, k
      <4>3. \A v \in V \ {1} : k(v) \in { t(e) : e \in Pairs9 }
        BY <3>2, <4>1
      <4>4. \A e \in Pairs9 : t(e) \in { k(v) : v \in V \ {1} }
        BY <3>2, <4>1
      <4>5. { t(e) : e \in Pairs9 } = { k(v) : v \in V \ {1} }
        BY <4>3, <4>4
      <4> QED BY <4>5 DEF t, k
    <3> QED BY <2>4, <3>1, <3>3
  <2>6. \E T \in Lightest : Mirrored(T) = Mirrored(Pairs9) /\ WeightSum(T) = total_weight
    BY <2>1, <2>3, WholeTree
  <2> QED BY <1>1, <2>5, <2>6, NinethReads
<1> QED BY <1>2, <1>3 DEF Nineth!LeastTree

-----------------------------------------------------------------------------
(* The programs together, and the theorems.                                *)

(* One program runs.                                                       *)
SearchesInv ==
  /\ program \in Programs /\ graph \in Graphs
  /\ program = "first" => FirstInv
  /\ program = "second" => SecondInv
  /\ program = "third" => ThirdInv
  /\ program = "fifth" => FifthInv
  /\ program = "seventh" => SeventhInv
  /\ program = "nineth" => NinethInv
  /\ program # "third" => start_vertex = 1

(* Every step is one of the program that runs, and the state of the others *)
(* stays.                                                                  *)
LEMMA OneRuns ==
  ASSUME [Next \/ Terminated]_vars
  PROVE  /\ UNCHANGED program
         /\ program = "first" => First!Next \/ UNCHANGED <<graph, pc, vars1>>
         /\ program = "second" => Second!Next \/ UNCHANGED <<graph, pc, vars2>>
         /\ program = "third" => Third!Next \/ UNCHANGED <<graph, pc, vars3>>
         /\ program = "fifth" => Fifth!Next \/ UNCHANGED <<graph, pc, vars5>>
         /\ program = "seventh" => Seventh!Next \/ UNCHANGED <<graph, pc, vars7>>
         /\ program = "nineth" => Nineth!Next \/ UNCHANGED <<graph, pc, vars9>>
         /\ program # "third" => UNCHANGED vars3
<1>1. CASE UNCHANGED vars
  <2>1. UNCHANGED <<graph, pc, program, vars1, vars2, vars3, vars5, vars7, vars9>>
    BY <1>1 DEF vars
  <2> QED BY <2>1
<1>2. CASE Terminated
  <2>1. UNCHANGED <<graph, pc, program, vars1, vars2, vars3, vars5, vars7, vars9>>
    BY <1>2 DEF Terminated, vars
  <2> QED BY <2>1
<1>3. CASE Next
  BY <1>3, Zenon DEF Next
<1> QED BY <1>1, <1>2, <1>3

(* The graph is one class Graph can hold.                                  *)
LEMMA SearchesGraph ==
  ASSUME program \in Programs, graph \in Inputs[program]
  PROVE  graph \in Graphs
BY InputsAssumption DEF InputsAssumption

(* The programs begin in their invariants.                                 *)
LEMMA SearchesInit == Init => SearchesInv
<1> SUFFICES ASSUME Init PROVE SearchesInv
  OBVIOUS
<1>1. /\ program \in Programs /\ graph \in Inputs[program] /\ pc = "start"
      /\ First!New /\ Second!New /\ Third!New /\ Fifth!New /\ Seventh!New /\ Nineth!New
      /\ program # "third" => start_vertex = 1
  BY DEF Init
<1>2. graph \in Graphs
  BY <1>1, SearchesGraph
<1> QED
  BY <1>1, <1>2, FirstInit, SecondInit, ThirdInit, FifthInitInv, SeventhInit, NinethInit DEF SearchesInv

(* Every step keeps the invariant of the program that runs.                *)
LEMMA SearchesKept == SearchesInv /\ [Next \/ Terminated]_vars => SearchesInv'
<1> SUFFICES ASSUME SearchesInv, [Next \/ Terminated]_vars PROVE SearchesInv'
  OBVIOUS
<1>1. program' = program
  BY OneRuns
<1>2. CASE program = "first"
  <2>1. FirstInv'
    BY <1>2, OneRuns, FirstStep DEF SearchesInv
  <2> QED BY <1>1, <1>2, <2>1, OneRuns DEF SearchesInv, FirstInv, vars3
<1>3. CASE program = "third"
  <2>1. ThirdInv'
    BY <1>3, OneRuns, ThirdStep DEF SearchesInv
  <2> QED BY <1>1, <1>3, <2>1 DEF SearchesInv, ThirdInv, ThirdBegun
<1>4. CASE program = "fifth"
  <2>1. FifthInv'
    <3>1. FifthInv /\ (Fifth!Next \/ UNCHANGED Fifth!vars)
      BY <1>4, OneRuns DEF SearchesInv, Fifth!vars, vars5
    <3> QED
      BY <3>1, FifthStartInv, FifthCheckedInv, FifthFinishInv, FifthRootInv, FifthPopInv, FifthClashInv,
         FifthStutterInv, Zenon DEF Fifth!Next
  <2> QED BY <1>1, <1>4, <2>1, OneRuns DEF SearchesInv, FifthInv, FifthBegun, vars3
<1>5. CASE program = "nineth"
  <2>1. NinethInv'
    BY <1>5, OneRuns, NinethStep DEF SearchesInv
  <2>2. graph' \in Graphs
    BY <1>1, <1>5, <2>1, InputsAssumption DEF SearchesInv, NinethInv, InputsAssumption
  <2> QED BY <1>1, <1>5, <2>1, <2>2, OneRuns DEF SearchesInv, vars3
<1>6. CASE program = "seventh"
  <2>1. SeventhInv'
    BY <1>6, OneRuns, SeventhStep DEF SearchesInv
  <2> QED BY <1>1, <1>6, <2>1, OneRuns DEF SearchesInv, SeventhInv, vars3
<1>7. CASE program = "second"
  <2>1. SecondInv'
    BY <1>7, OneRuns, SecondStep DEF SearchesInv
  <2> QED BY <1>1, <1>7, <2>1, OneRuns DEF SearchesInv, SecondInv, vars3
<1> QED BY <1>2, <1>3, <1>4, <1>5, <1>6, <1>7 DEF SearchesInv, Programs

(* The inductive invariant holds throughout.                               *)
LEMMA SearchesAlways == Spec => []SearchesInv
BY SearchesInit, SearchesKept, PTL DEF Spec

(* Theorem (the six programs). The state of the program that runs has its  *)
(* type.                                                                   *)
THEOREM SearchesTyped == Spec => []TypeOK
<1>1. SearchesInv => TypeOK
  BY DEF SearchesInv, TypeOK, FirstInv, SecondInv, ThirdInv, FifthInv, SeventhInv, NinethInv
<1> QED BY <1>1, SearchesAlways, PTL

(* Theorem (first.cpp, ConnectivityFinder). Whatever was called before it, *)
(* a method returns every vertex once; every component is what its least   *)
(* vertex reaches apart from the earlier components, which on an           *)
(* undirected graph, and for the weak components, is its whole class.      *)
THEOREM Components == Spec => []ComponentsAreClasses
<1>1. SearchesInv => ComponentsAreClasses
  BY FirstRight DEF SearchesInv, ComponentsAreClasses
<1> QED BY <1>1, SearchesAlways, PTL

(* Theorem (second.cpp, BridgeArticulationFinder). Whenever a caller reads *)
(* low of the vertex whose call has returned, it is the least number of    *)
(* the ends of the edges of its subtree, other than the edge the call came *)
(* along, and those edges lead into the subtree or to a vertex whose call  *)
(* is pending.                                                             *)
THEOREM LowPoints == Spec => []LowWhenRead
<1>1. SearchesInv => LowWhenRead
  BY LowAsRead DEF SearchesInv, LowWhenRead
<1> QED BY <1>1, SearchesAlways, PTL

(* Theorem (second.cpp, BridgeArticulationFinder). The bridges are the     *)
(* edges without which their ends are no longer connected, and the cut     *)
(* vertices, each printed once, those without which two of their           *)
(* neighbours are not.                                                     *)
THEOREM BridgesAndCuts == Spec => []BridgesAndCutVertices
<1>1. SearchesInv => BridgesAndCutVertices
  BY SecondRight DEF SearchesInv, BridgesAndCutVertices
<1> QED BY <1>1, SearchesAlways, PTL

(* Theorem (third.cpp, SpanningTree). At the end the tree has one edge     *)
(* less than there are vertices; searched breadth first it keeps the       *)
(* distances from the start, and depth first every edge of the graph joins *)
(* a vertex to one of its ancestors.                                       *)
THEOREM Trees == Spec => []SearchTree
<1>1. SearchesInv => SearchTree
  BY ThirdRight DEF SearchesInv, SearchTree
<1> QED BY <1>1, SearchesAlways, PTL

(* Theorem (fifth.cpp, BipartiteChecker). The constructor says yes exactly *)
(* if the vertices can be shared out so that every edge has one end on     *)
(* either side, and then its parts do so.                                  *)
THEOREM Colourings == Spec => []TwoColored
<1>1. SearchesInv => TwoColored
  BY FifthRight DEF SearchesInv, TwoColored
<1> QED BY <1>1, SearchesAlways, PTL

(* Theorem (seventh.cpp, StronglyConnectedComponents). The components are  *)
(* the classes of mutually reachable vertices, each once, in the order of  *)
(* the arcs between them.                                                  *)
THEOREM StrongClasses == Spec => []StrongComponents
<1>1. SearchesInv => StrongComponents
  BY SeventhRight DEF SearchesInv, StrongComponents
<1> QED BY <1>1, SearchesAlways, PTL

(* Theorem (nineth.cpp, MSTFinder). After every choice the edges chosen    *)
(* are part of a lightest spanning tree of what vertex 1 reaches, and what *)
(* is printed is such a tree, with the weights of its edges and their sum. *)
THEOREM MinimumTrees == Spec => []LeastTree
<1>1. SearchesInv => LeastTree
  BY NinethRight DEF SearchesInv, LeastTree
<1> QED BY <1>1, SearchesAlways, PTL

-----------------------------------------------------------------------------
(* What TreeGrowth sees of the programs.                                   *)
GrownFrom ==
  CASE program = "third" -> found [] program = "nineth" -> included [] OTHER -> {}

GrownTree ==
  CASE program = "third" -> tree_edges [] program = "nineth" -> Nineth!Tree [] OTHER -> {}

GrownStatus ==
  IF program \notin {"third", "nineth"} THEN "growing"
  ELSE CASE pc = "done" -> "spanned" [] pc = "error" -> "refused" [] OTHER -> "growing"

(* TreeGrowth under the mapping, in the words of this module.              *)
LEMMA GrowthReads ==
  /\ Growth!vars = <<Spanned, start_vertex, GrownFrom, GrownTree, GrownStatus>>
  /\ Growth!vars' = <<Spanned', start_vertex', GrownFrom', GrownTree', GrownStatus'>>
  /\ Growth!Init <=> GrownFrom = {} /\ GrownTree = {} /\ GrownStatus = "growing"
  /\ Growth!CheckDirected(Spanned) <=> CheckDirected(Spanned)
  /\ \A u : Growth!adjacency_list(Spanned, u) = adjacency_list(Spanned, u)
<1>1. /\ Growth!vars = <<Spanned, start_vertex, GrownFrom, GrownTree, GrownStatus>>
      /\ Growth!vars' = <<Spanned', start_vertex', GrownFrom', GrownTree', GrownStatus'>>
  BY DEF Growth!vars, GrownFrom, GrownTree, GrownStatus
<1>2. Growth!Init <=> GrownFrom = {} /\ GrownTree = {} /\ GrownStatus = "growing"
  BY DEF Growth!Init, GrownFrom, GrownTree, GrownStatus
<1>3. Growth!CheckDirected(Spanned) <=> CheckDirected(Spanned)
  BY DEF Growth!CheckDirected, CheckDirected, Growth!weight, weight, Growth!Vertices, Vertices
<1>4. \A u : Growth!adjacency_list(Spanned, u) = adjacency_list(Spanned, u)
  BY DEF Growth!adjacency_list, adjacency_list, Growth!is_edge, is_edge, Growth!weight, weight,
         Growth!Vertices, Vertices
<1> QED BY <1>1, <1>2, <1>3, <1>4

(* A step that reaches the root alone is Plant.                            *)
LEMMA GrowthPlants ==
  ASSUME GrownFrom = {}, GrownStatus = "growing", ~CheckDirected(Spanned), start_vertex \in DOMAIN Spanned,
         GrownFrom' = {start_vertex},
         Spanned' = Spanned, start_vertex' = start_vertex, GrownTree' = GrownTree, GrownStatus' = GrownStatus
  PROVE  Growth!Next
<1>1. Growth!Plant
  BY GrowthReads DEF Growth!Plant, Growth!Vertices, GrownFrom, GrownTree, GrownStatus
<1> QED BY <1>1 DEF Growth!Next

(* A step that hangs new neighbours of a vertex reached on it is Grow.     *)
LEMMA GrowthGrows ==
  ASSUME GrownStatus = "growing", NEW u \in GrownFrom, NEW new,
         new \subseteq adjacency_list(Spanned, u) \ GrownFrom,
         GrownFrom' = GrownFrom \cup new, GrownTree' = GrownTree \cup ({u} \X new),
         Spanned' = Spanned, start_vertex' = start_vertex, GrownStatus' = GrownStatus
  PROVE  Growth!Next
<1>1. Growth!Grow
  <2>1. new \in SUBSET (Growth!adjacency_list(Spanned, u) \ GrownFrom)
    BY GrowthReads
  <2> QED BY <2>1 DEF Growth!Grow, GrownFrom, GrownTree, GrownStatus
<1> QED BY <1>1 DEF Growth!Next

(* A step that ends with nothing left to reach is Finish.                  *)
LEMMA GrowthEnds ==
  ASSUME GrownStatus = "growing", GrownFrom # {} \/ CheckDirected(Spanned),
         \A u \in GrownFrom : adjacency_list(Spanned, u) \subseteq GrownFrom,
         GrownStatus' = IF GrownFrom = DOMAIN Spanned THEN "spanned" ELSE "refused",
         Spanned' = Spanned, start_vertex' = start_vertex,
         GrownFrom' = GrownFrom, GrownTree' = GrownTree
  PROVE  Growth!Next
<1>1. Growth!Finish
  BY GrowthReads DEF Growth!Finish, Growth!Vertices, GrownFrom, GrownTree, GrownStatus
<1> QED BY <1>1 DEF Growth!Next

(* Every step of SpanningTree is a step of TreeGrowth, or none.            *)
LEMMA GrowthThird ==
  ASSUME SearchesInv, program = "third", program' = program,
         Third!Next \/ UNCHANGED <<graph, pc, vars3>>
  PROVE  Growth!Next \/ UNCHANGED Growth!vars
<1>1. /\ GrownFrom = found /\ GrownTree = tree_edges /\ Spanned = graph
      /\ GrownFrom' = found' /\ GrownTree' = tree_edges' /\ Spanned' = graph'
      /\ GrownStatus = (CASE pc = "done" -> "spanned" [] pc = "error" -> "refused" [] OTHER -> "growing")
      /\ GrownStatus' = (CASE pc' = "done" -> "spanned" [] pc' = "error" -> "refused" [] OTHER -> "growing")
  BY DEF GrownFrom, GrownTree, GrownStatus, Spanned
<1>2. /\ ThirdInv /\ V = DOMAIN graph
      /\ \A u : adjacency_list(Spanned, u) = Near(u)
  BY <1>1 DEF SearchesInv, V, Vertices, Near
<1>3. CASE UNCHANGED <<graph, pc, vars3>>
  BY <1>1, <1>3, GrowthReads DEF vars3
<1>4. CASE Third!OutOfRange
  BY <1>1, <1>4, GrowthReads DEF Third!OutOfRange, Third!arguments
<1>5. CASE Third!Up
  BY <1>1, <1>5, GrowthReads DEF Third!Up, Third!arguments
<1>6. CASE Third!Refuse
  <2>1. /\ pc = "start" /\ CheckDirected(graph) /\ pc' = "error" /\ found = {}
        /\ UNCHANGED <<graph, algorithm, start_vertex, found, tree_edges, waiting>>
    BY <1>2, <1>6, ThirdReads DEF Third!Refuse, Third!arguments, ThirdInv, ThirdBegun
  <2>2. DOMAIN graph # {}
    BY <2>1 DEF CheckDirected, Vertices
  <2> QED BY <1>1, <2>1, <2>2, GrowthEnds
<1>7. CASE Third!Start
  <2>1. /\ pc = "start" /\ ~CheckDirected(graph) /\ pc' = "search" /\ found = {} /\ start_vertex \in V
        /\ found' = {start_vertex} /\ UNCHANGED <<graph, start_vertex, tree_edges>>
    BY <1>2, <1>7, ThirdReads DEF Third!Start, Third!arguments, ThirdInv, ThirdBegun
  <2> QED BY <1>1, <1>2, <2>1, GrowthPlants
<1>8. CASE Third!Pop
  <2>1. PICK u : u = Head(waiting)
    OBVIOUS
  <2>2. /\ pc = "search" /\ pc' = pc /\ waiting # <<>> /\ UNCHANGED <<graph, start_vertex>>
        /\ found' = found \cup (Near(u) \ found)
        /\ tree_edges' = tree_edges \cup ({u} \X (Near(u) \ found))
    BY <1>2, <1>8, <2>1, ThirdTypes DEF Third!Pop, Third!Searching, Third!arguments, Third!Attach
  <2>3. u \in found
    BY <1>2, <2>1, <2>2, ThirdTypes
  <2>4. PICK new : new = Near(u) \ found
    OBVIOUS
  <2> QED BY <1>1, <1>2, <2>2, <2>3, <2>4, GrowthGrows
<1>9. CASE Third!Down
  <2>1. PICK u, new : u = Third!Top /\ new = {Least(Third!Found(u))}
    OBVIOUS
  <2>2. /\ pc = "search" /\ pc' = pc /\ waiting # <<>> /\ UNCHANGED <<graph, start_vertex>>
        /\ found' = found \cup new /\ Third!Found(u) # {}
        /\ tree_edges' = tree_edges \cup ({u} \X new)
    BY <1>2, <1>9, <2>1, ThirdReads DEF Third!Down, Third!Searching, Third!arguments, Third!Attach
  <2>3. u \in found
    <3>1. waiting \in Seq(found)
      BY <1>2, ThirdTypes
    <3> QED BY <2>1, <2>2, <3>1 DEF Third!Top
  <2>4. new \subseteq Near(u) \ found
    BY <1>2, <2>1, <2>2, ThirdTypes, LeastIsLeast
  <2> QED BY <1>1, <1>2, <2>2, <2>3, <2>4, GrowthGrows
<1>10. CASE Third!Check
  <2>1. /\ pc = "search" /\ waiting = <<>> /\ pc' = (IF found = V THEN "done" ELSE "error")
        /\ UNCHANGED <<graph, start_vertex, found, tree_edges>>
    BY <1>2, <1>10, ThirdReads DEF Third!Check, Third!arguments
  <2>2. found # {} /\ \A u \in found : Near(u) \subseteq found
    BY <1>2, <2>1 DEF ThirdInv, ThirdBegun, ThirdTree, Lists
  <2> QED BY <1>1, <1>2, <2>1, <2>2, GrowthEnds
<1> QED BY <1>3, <1>4, <1>5, <1>6, <1>7, <1>8, <1>9, <1>10 DEF Third!Next

(* What prim sees of an undirected graph.                                  *)
LEMMA SeenGraph ==
  ASSUME NinethInv, ~CheckDirected(graph), V # {}
  PROVE  /\ DOMAIN Nineth!Seen = V /\ ~CheckDirected(Nineth!Seen)
         /\ \A u \in V : \A v : v \in adjacency_list(Nineth!Seen, u) <=> <<u, v>> \in Seen9
<1>1. Weighted9
  BY NinethTypes DEF Weighted9
<1>2. Nineth!Seen = [u \in V |-> [v \in V |-> IF graph[u][v] = INT_MAX THEN 0 ELSE graph[u][v]]]
  BY NinethReads DEF Nineth!Seen
<1>3. PICK g : g = Nineth!Seen
  OBVIOUS
<1>4. DOMAIN g = V /\ \A u, v \in V : g[u][v] = IF graph[u][v] = INT_MAX THEN 0 ELSE graph[u][v]
  BY <1>2, <1>3
<1>5. \A u, v \in V : graph[u][v] = graph[v][u]
  BY DEF CheckDirected, weight, V
<1>6. ~CheckDirected(g)
  BY <1>4, <1>5 DEF CheckDirected, weight, Vertices
<1>7. \A u \in V : \A v : v \in adjacency_list(g, u) <=> <<u, v>> \in Seen9
  <2> SUFFICES ASSUME NEW u \in V, NEW v
               PROVE  v \in adjacency_list(g, u) <=> <<u, v>> \in Seen9
    OBVIOUS
  <2>1. <<u, v>> \in Seen9 <=> v \in V /\ graph[u][v] # 0 /\ graph[u][v] # INT_MAX
    BY <1>1, SeenFacts
  <2>2. v \in adjacency_list(g, u) <=> v \in V /\ g[u][v] # 0
    BY <1>4 DEF adjacency_list, is_edge, weight, Vertices
  <2> QED BY <1>4, <2>1, <2>2
<1> QED BY <1>3, <1>4, <1>6, <1>7

(* Every step of MSTFinder is a step of TreeGrowth, or none.               *)
LEMMA GrowthNineth ==
  ASSUME SearchesInv, program = "nineth", program' = program, UNCHANGED start_vertex,
         Nineth!Next \/ UNCHANGED <<graph, pc, vars9>>
  PROVE  Growth!Next \/ UNCHANGED Growth!vars
<1> USE DEF Nineth!result
<1>1. /\ GrownFrom = included /\ GrownTree = Pairs9
      /\ GrownFrom' = included' /\ GrownTree' = Pairs9'
      /\ GrownStatus = (CASE pc = "done" -> "spanned" [] pc = "error" -> "refused" [] OTHER -> "growing")
      /\ GrownStatus' = (CASE pc' = "done" -> "spanned" [] pc' = "error" -> "refused" [] OTHER -> "growing")
  BY DEF GrownFrom, GrownTree, GrownStatus, Nineth!Tree, Pairs9
<1>2. NinethInv /\ start_vertex = 1 /\ V = DOMAIN graph
  BY DEF SearchesInv, V, Vertices
<1>3. /\ Spanned = IF ~CheckDirected(graph) THEN Nineth!Seen ELSE graph
      /\ graph' = graph => Spanned' = Spanned
  <2>1. graph' = graph => Nineth!Seen' = Nineth!Seen /\ (CheckDirected(graph)' <=> CheckDirected(graph))
    <3>1. Nineth!V = V /\ Nineth!V' = V'
      BY NinethReads
    <3> QED BY <3>1, GraphSame DEF Nineth!Seen
  <2> QED BY <2>1 DEF Spanned
<1>4. CASE UNCHANGED <<graph, included, parent>> /\ (pc' \notin {"done", "error"}) /\ (pc \notin {"done", "error"})
  <2>1. Pairs9' = Pairs9
    BY <1>4 DEF Pairs9
  <2> QED BY <1>1, <1>2, <1>3, <1>4, <2>1, GrowthReads
<1>5. CASE UNCHANGED <<graph, pc, vars9>>
  <2>1. Pairs9' = Pairs9
    BY <1>5 DEF Pairs9, vars9
  <2> QED BY <1>1, <1>2, <1>3, <1>5, <2>1, GrowthReads DEF vars9
<1>6. CASE Nineth!Start
  <2>1. /\ pc = "start" /\ UNCHANGED <<graph, included, parent>> /\ included = {}
        /\ pc' = "error" => CheckDirected(graph)
        /\ pc' \in {"error", "undefined", "prim"}
    BY <1>2, <1>6, NinethReads DEF Nineth!Start, NinethInv
  <2>2. CASE pc' # "error"
    BY <1>4, <2>1, <2>2
  <2>3. CASE pc' = "error"
    <3>1. DOMAIN graph # {} /\ CheckDirected(graph) /\ Spanned = graph
      BY <1>3, <2>1, <2>3 DEF CheckDirected, Vertices
    <3>2. Pairs9' = Pairs9
      BY <2>1 DEF Pairs9
    <3> QED BY <1>1, <1>2, <1>3, <2>1, <2>3, <3>1, <3>2, GrowthEnds
  <2> QED BY <2>2, <2>3
<1>7. ASSUME pc = "prim"
      PROVE  /\ NinethRun /\ DOMAIN Spanned = V /\ ~CheckDirected(Spanned)
             /\ \A u \in V : \A v : v \in adjacency_list(Spanned, u) <=> <<u, v>> \in Seen9
             /\ 1 \in V /\ included \subseteq V
  <2>1. NinethRun /\ ~CheckDirected(graph) /\ V # {} /\ graph \in Graphs
    BY <1>2, <1>7, NinethTypes DEF NinethInv, NinethRun
  <2> QED BY <1>2, <1>3, <2>1, SeenGraph, SeenFacts, NinethTypes DEF Weighted9
<1>8. CASE Nineth!Include
  <2>0. PICK u : u = Nineth!find_min_weight_vertex
    OBVIOUS
  <2>1. /\ pc = "prim" /\ Nineth!Candidates # {} /\ pc' = pc /\ graph' = graph
        /\ included' = included \cup {u}
        /\ \A v \in included \cup {u} : v \in V => parent'[v] = parent[v]
    BY <1>8, <2>0, NinethReads DEF Nineth!Include, Nineth!Closer
  <2>2. /\ u \in V \ included
        /\ included = {} => u = 1
        /\ included # {} => u # 1 /\ parent[u] \in included /\ <<parent[u], u>> \in Seen9
    BY <1>2, <2>0, <2>1, NinethChoice
  <2>3. Pairs9' = Pairs9 \cup (IF included = {} THEN {} ELSE {<<parent[u], u>>})
    <3>1. Pairs9' = { <<parent'[v], v>> : v \in (included \cup {u}) \ {1} }
      BY <2>1 DEF Pairs9
    <3>2. Pairs9' = { <<parent[v], v>> : v \in (included \cup {u}) \ {1} }
      BY <1>7, <2>1, <2>2, <3>1
    <3>3. CASE included = {}
      BY <2>2, <3>2, <3>3 DEF Pairs9
    <3>4. CASE included # {}
      BY <2>2, <3>2, <3>4 DEF Pairs9
    <3> QED BY <3>3, <3>4
  <2>4. CASE included = {}
    BY <1>1, <1>2, <1>3, <1>7, <2>1, <2>2, <2>3, <2>4, GrowthPlants
  <2>5. CASE included # {}
    <3>1. PICK p, new : p = parent[u] /\ new = {u}
      OBVIOUS
    <3>2. p \in GrownFrom /\ new \subseteq adjacency_list(Spanned, p) \ GrownFrom
      BY <1>1, <1>7, <2>1, <2>2, <2>5, <3>1
    <3>3. GrownFrom' = GrownFrom \cup new /\ GrownTree' = GrownTree \cup ({p} \X new)
      BY <1>1, <2>1, <2>3, <2>5, <3>1
    <3>4. /\ Spanned' = Spanned /\ start_vertex' = start_vertex /\ GrownStatus' = GrownStatus
          /\ GrownStatus = "growing"
      BY <1>1, <1>3, <2>1
    <3> QED BY <3>2, <3>3, <3>4, GrowthGrows
  <2> QED BY <2>4, <2>5
<1>9. CASE Nineth!Disconnected
  <2>1. /\ pc = "prim" /\ pc' = "error" /\ included # V /\ UNCHANGED <<graph, included, parent>>
        /\ \A v \in V \ included : ~(min_weight[v] < INT_MAX)
    BY <1>9, NinethReads DEF Nineth!Disconnected, Nineth!Candidates
  <2>2. INT_MAX \in Nat \ {0} /\ \A v \in V : min_weight[v] \in Int
    BY <1>2, NinethTypes, NinethWeights DEF NinethInv
  <2>3. included # {}
    BY <1>7, <2>1, <2>2 DEF NinethRun
  <2>4. \A u \in included : adjacency_list(Spanned, u) \subseteq included
    <3> SUFFICES ASSUME NEW u \in included, NEW v, <<u, v>> \in Seen9 PROVE v \in included
      BY <1>7, <2>1
    <3>1. v \in V /\ graph[u][v] < INT_MAX /\ graph[u][v] \in Int
      <4>1. graph \in Inputs["nineth"] /\ Weighted9
        BY <1>2, <1>7, <2>1, NinethTypes DEF NinethInv, NinethRun, Weighted9
      <4> QED BY <4>1, NinethWeights, SeenFacts
    <3>2. v \notin included => min_weight[v] <= graph[u][v]
      BY <1>7, <2>1, <3>1 DEF NinethRun
    <3> QED BY <2>1, <2>2, <3>1, <3>2
  <2>5. Pairs9' = Pairs9
    BY <2>1 DEF Pairs9
  <2> QED BY <1>1, <1>2, <1>3, <1>7, <2>1, <2>3, <2>4, <2>5, GrowthEnds
<1>10. CASE Nineth!Collect
  <2>1. /\ pc = "prim" /\ pc' \in {"done", "undefined"} /\ included = V /\ UNCHANGED <<graph, included, parent>>
    BY <1>10, NinethReads DEF Nineth!Collect
  <2>2. CASE pc' = "undefined"
    BY <1>4, <2>1, <2>2
  <2>3. CASE pc' = "done"
    <3>1. included # {} /\ \A u \in included : adjacency_list(Spanned, u) \subseteq included
      <4>1. Weighted9
        BY <1>2, <1>7, <2>1, NinethTypes DEF NinethInv, NinethRun, Weighted9
      <4> QED BY <1>7, <2>1, <4>1, SeenFacts
    <3>2. Pairs9' = Pairs9
      BY <2>1 DEF Pairs9
    <3> QED BY <1>1, <1>2, <1>3, <1>7, <2>1, <2>3, <3>1, <3>2, GrowthEnds
  <2> QED BY <2>1, <2>2, <2>3
<1> QED BY <1>5, <1>6, <1>8, <1>9, <1>10 DEF Nineth!Next

(* Every step is a step of TreeGrowth, or none.                            *)
LEMMA GrowthStep == SearchesInv /\ [Next \/ Terminated]_vars => [Growth!Next]_(Growth!vars)
<1> SUFFICES ASSUME SearchesInv, [Next \/ Terminated]_vars PROVE Growth!Next \/ UNCHANGED Growth!vars
  OBVIOUS
<1>1. CASE program = "third"
  BY <1>1, OneRuns, GrowthThird
<1>2. CASE program = "nineth"
  BY <1>2, OneRuns, GrowthNineth DEF vars3
<1>3. CASE program \notin {"third", "nineth"}
  <2>1. UNCHANGED <<graph, start_vertex, program>>
    <3>1. program' = program /\ start_vertex' = start_vertex
      BY <1>3, OneRuns DEF vars3
    <3>2. graph' = graph
      BY <1>3, OneRuns DEF vars1, vars2, vars5, vars7, SearchesInv, Programs,
         First!Next, First!Call, First!Root, First!Visit, First!Pop, First!Down, First!Up, First!Searched, First!Return,
         Fifth!Next, Fifth!Start, Fifth!Root, Fifth!Pop, Fifth!Clash, Fifth!Checked, Fifth!Finish,
         Second!Next, Second!Construct, Second!ScanSkip, Second!ScanCall, Second!ScanVisited,
         Second!Return, Second!Leave, Second!FindCall, Second!FindSkip, Second!FindEnd, Seventh!Next,
         Seventh!Start, Seventh!Root1, Seventh!Down, Seventh!Up1, Seventh!Transpose, Seventh!Root2,
         Seventh!Up2, Seventh!Finish
    <3> QED BY <3>1, <3>2
  <2>2. Spanned = graph /\ Spanned' = graph'
    BY <1>3, <2>1 DEF Spanned
  <2> QED BY <1>3, <2>1, <2>2, GrowthReads DEF GrownFrom, GrownTree, GrownStatus
<1> QED BY <1>1, <1>2, <1>3

(* The programs begin as TreeGrowth does.                                  *)
LEMMA GrowthInit == Init => Growth!Init
<1> SUFFICES ASSUME Init PROVE GrownFrom = {} /\ GrownTree = {} /\ GrownStatus = "growing"
  BY GrowthReads
<1> QED BY DEF Init, GrownFrom, GrownTree, GrownStatus, Third!New, Nineth!New, Nineth!Tree

(* Theorem (third.cpp and nineth.cpp). Both programs grow a tree from      *)
(* their root, one or more neighbours of a reached vertex at a time,       *)
(* report it only when it spans the graph, and refuse exactly the graphs   *)
(* that are directed or not connected: they implement TreeGrowth.          *)
THEOREM TreesGrow == Spec => GrowsATree
<1>1. Spec => Growth!Init
  BY GrowthInit, PTL DEF Spec
<1>2. Spec => [][Growth!Next]_(Growth!vars)
  BY SearchesAlways, GrowthStep, PTL DEF Spec
<1> QED BY <1>1, <1>2 DEF GrowsATree, Growth!Spec

=============================================================================
