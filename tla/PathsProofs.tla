---------------------------- MODULE PathsProofs ----------------------------
(***************************************************************************)
(* The programs fourth, tenth and sixth.cpp, for every graph and every map.*)
(*                                                                         *)
(* The matrix: the walks between two vertices are taken apart at an inner  *)
(* vertex z and put together again (Parted, Joined), so that a pass does   *)
(* for shortest paths what the code does with two entries (PassLaw); the   *)
(* row and the column a pass reads do not change while it runs.  Where a   *)
(* path as long as INT_MAX may exist this is false: Attained says that     *)
(* none hides behind INT_MAX.                                              *)
(*                                                                         *)
(* The table of next vertices: at each pass there are ranks that fall from *)
(* a vertex to the next one (Routes), so that a walk that follows the      *)
(* table ends, and what it has behind it and ahead of it add up.           *)
(*                                                                         *)
(* The components: each is what its least vertex is linked with, of what   *)
(* is left (Chosen), and linked are two of which one reaches the other.    *)
(*                                                                         *)
(* The maze: what is in the tree has the ring of its distance, the queue   *)
(* holds what is left of one ring and then the next (Search, Frontier),    *)
(* and the way back climbs the tree ring by ring (WayBack).                *)
(***************************************************************************)
EXTENDS Paths, SumTheorems, SequenceTheorems

(* What is assumed of a graph the programs of AllPairs run on.             *)
Weighed == graph \in Graphs /\ graph \in GraphsOn(Len(graph), Ints)

w(x, y) == weight(graph, x, y)

(* A weighed graph: its vertices, its weights, and the edges among them.   *)
LEMMA WeighedFacts ==
  ASSUME Weighed
  PROVE  /\ n \in Nat /\ V = 1..n /\ V \subseteq Nat /\ IsFiniteSet(V)
         /\ \A T \in SUBSET V : IsFiniteSet(T) /\ Cardinality(T) \in 0..n
         /\ INT_MAX \in Nat /\ Ints \subseteq Int
         /\ \A x, y \in V : w(x, y) \in Ints /\ w(x, y) \in Int
         /\ \A x, y \in V : SeenEdge(x, y) <=> w(x, y) # 0 /\ w(x, y) # INT_MAX
<1>1. n \in Nat /\ V = 1..n
  BY GraphsAssumption DEF GraphsAssumption, Weighed, GraphsOn, V, Vertices, n
<1>2. INT_MAX \in Nat
  BY IntAssumption
<1>3. Ints \subseteq Int
  BY <1>2 DEF Ints
<1>4. graph \in [V -> [V -> Ints]]
  BY <1>1 DEF Weighed, GraphsOn, n
<1>5. IsFiniteSet(V) /\ Cardinality(V) = n
  BY <1>1, FS_Interval
<1>6. ASSUME NEW T \in SUBSET V PROVE IsFiniteSet(T) /\ Cardinality(T) \in 0..n
  <2>1. IsFiniteSet(T) /\ Cardinality(T) <= n
    BY <1>5, FS_Subset
  <2> QED BY <1>1, <2>1, FS_CardinalityType
<1>7. \A x, y \in V : w(x, y) \in Ints
  BY <1>4 DEF w, weight
<1>8. \A x, y \in V : SeenEdge(x, y) <=> w(x, y) # 0 /\ w(x, y) # INT_MAX
  BY DEF SeenEdge, is_edge, w
<1>9. V \subseteq Nat
  <2>1. 1..n \subseteq Nat
    OBVIOUS
  <2> QED BY <1>1, <2>1
<1>10. \A x, y \in V : w(x, y) \in Int
  BY <1>3, <1>7
<1> QED BY <1>1, <1>2, <1>3, <1>5, <1>6, <1>7, <1>8, <1>9, <1>10

-----------------------------------------------------------------------------
(* The recursion of Lengths, with its parts named.                         *)
Hop(x, t) == IF SeenEdge(x, t) THEN {w(x, t)} ELSE {}

Longer(A, x, y) == { w(x, y) + l : l \in A }

Onward(L, T, x) ==
  UNION { Longer(L[T \ {y}][y], x, y) : y \in { z \in T : SeenEdge(x, z) } }

Ways(t) == CHOOSE L : L = [T \in SUBSET V |-> [x \in V |-> Hop(x, t) \cup Onward(L, T, x)]]

(* Lengths is that recursion at the inner vertices that are neither end.   *)
LEMMA LengthsUnfolded ==
  ASSUME NEW S, NEW x, NEW t
  PROVE  Lengths(S, x, t) = Ways(t)[S \ {x, t}][x]
BY Zenon DEF Lengths, Ways, Hop, Onward, Longer, w

(* There is a function as the recursion describes: by the number of inner  *)
(* vertices.                                                               *)
LEMMA WaysExist ==
  ASSUME Weighed, NEW t \in V
  PROVE  /\ Ways(t) = [T \in SUBSET V |-> [x \in V |-> Hop(x, t) \cup Onward(Ways(t), T, x)]]
         /\ Ways(t) \in [SUBSET V -> [V -> SUBSET Int]]
<1> DEFINE U == [SUBSET V -> [V -> SUBSET Int]]
           F(L) == [T \in SUBSET V |-> [x \in V |-> Hop(x, t) \cup Onward(L, T, x)]]
           P == [m \in 0..(n + 1) |-> U]
           R == [m \in 1..(n + 1) |-> { p \in U \X U : p[2] = F(p[1]) }]
<1>0. /\ n \in Nat /\ \A x, y \in V : w(x, y) \in Int
      /\ \A T \in SUBSET V : IsFiniteSet(T) /\ Cardinality(T) \in 0..n
  BY WeighedFacts
<1>1. ASSUME NEW L \in U PROVE F(L) \in U
  <2> SUFFICES ASSUME NEW T \in SUBSET V, NEW x \in V PROVE Hop(x, t) \cup Onward(L, T, x) \in SUBSET Int
    OBVIOUS
  <2>1. Hop(x, t) \in SUBSET Int
    BY <1>0 DEF Hop
  <2>2. ASSUME NEW y \in T PROVE Longer(L[T \ {y}][y], x, y) \in SUBSET Int
    <3>1. y \in V /\ T \ {y} \in SUBSET V
      OBVIOUS
    <3>2. L[T \ {y}][y] \in SUBSET Int /\ w(x, y) \in Int
      BY <1>0, <3>1
    <3> QED BY <3>2 DEF Longer
  <2> QED BY <2>1, <2>2 DEF Onward
<1>2. [T \in SUBSET V |-> [x \in V |-> {}]] \in U
  OBVIOUS
<1>3. PICK f \in [0..(n + 1) -> U] : \A m \in 1..(n + 1) : f[m] = F(f[m - 1])
  <2>1. P[0] # {} /\ \A m \in 0..(n + 1) : P[m] \subseteq U
    <3> HIDE DEF U
    <3> QED BY <1>0, <1>2
  <2>2. ASSUME NEW m \in 1..(n + 1), NEW a \in P[m - 1] PROVE \E b \in P[m] : <<a, b>> \in R[m]
    <3> HIDE DEF F, U
    <3>1. m \in 0..(n + 1) /\ m - 1 \in 0..(n + 1)
      BY <1>0
    <3>2. a \in U /\ F(a) \in U
      BY <1>1, <3>1
    <3> QED BY <3>1, <3>2
  <2>3. PICK f \in [0..(n + 1) -> U] : \A m \in 1..(n + 1) : <<f[m - 1], f[m]>> \in R[m]
    <3> HIDE DEF P, R, U
    <3>1. n + 1 \in Nat
      BY <1>0
    <3> QED BY <3>1, <2>1, <2>2, Stepwise
  <2> HIDE DEF F, U
  <2> QED BY <2>3
<1> DEFINE g == [T \in SUBSET V |-> f[Cardinality(T) + 1][T]]
<1>4. ASSUME NEW T \in SUBSET V, NEW x \in V
      PROVE  g[T][x] = Hop(x, t) \cup Onward(g, T, x)
  <2> DEFINE m == Cardinality(T)
  <2>1. m \in Nat /\ m + 1 \in 1..(n + 1) /\ (m + 1) - 1 = m
    BY <1>0
  <2>2. f[m + 1] = F(f[m])
    BY <1>3, <2>1
  <2>3. g[T][x] = Hop(x, t) \cup Onward(f[m], T, x)
    <3> HIDE DEF m
    <3>1. f[m + 1][T][x] = Hop(x, t) \cup Onward(f[m], T, x)
      BY <2>2
    <3> QED BY <3>1 DEF m
  <2>4. ASSUME NEW y \in T PROVE g[T \ {y}][y] = f[m][T \ {y}][y]
    <3>1. IsFiniteSet(T) /\ T \ {y} \in SUBSET V
      BY <1>0
    <3>2. Cardinality(T \ {y}) = m - 1
      BY <3>1, FS_RemoveElement
    <3>3. Cardinality(T \ {y}) + 1 = m
      <4> HIDE DEF m
      <4> QED BY <2>1, <3>2
    <3> QED BY <3>1, <3>3
  <2> HIDE DEF g, m
  <2>5. \A y \in T : Longer(g[T \ {y}][y], x, y) = Longer(f[m][T \ {y}][y], x, y)
    BY <2>4
  <2>6. Onward(g, T, x) = Onward(f[m], T, x)
    BY <2>5 DEF Onward
  <2> QED BY <2>3, <2>6
<1>5. g \in U
  <2> SUFFICES ASSUME NEW T \in SUBSET V PROVE f[Cardinality(T) + 1][T] \in [V -> SUBSET Int]
    OBVIOUS
  <2>1. Cardinality(T) + 1 \in 0..(n + 1)
    <3>1. n \in Nat /\ Cardinality(T) \in 0..n
      BY <1>0
    <3> QED BY <3>1
  <2>2. f[Cardinality(T) + 1] \in U
    BY <1>3, <2>1
  <2> QED BY <2>2
<1>6. g = F(g)
  <2> HIDE DEF g
  <2> QED BY <1>4, <1>5
<1>7. Ways(t) = F(Ways(t))
  <2>1. Ways(t) = CHOOSE L : L = F(L)
    BY DEF Ways
  <2> HIDE DEF F, g
  <2> QED BY <1>6, <2>1, Zenon
<1> DEFINE h == Ways(t)
<1>8. h \in U
  <2>0. h = F(h)
    BY <1>7
  <2> HIDE DEF h
  <2>1. ASSUME NEW T \in SUBSET V, NEW x \in V PROVE h[T][x] = Hop(x, t) \cup Onward(h, T, x)
    <3>1. h[T] = [y \in V |-> Hop(y, t) \cup Onward(h, T, y)]
      BY <2>0, Zenon
    <3> QED BY <3>1
  <2> DEFINE C == { T \in SUBSET V : h[T] # g[T] }
  <2> SUFFICES ASSUME C # {} PROVE FALSE
    <3>1. \A T \in SUBSET V : h[T] = g[T]
      OBVIOUS
    <3>2. h = [T \in SUBSET V |-> h[T]]
      BY <2>0
    <3> HIDE DEF g
    <3> QED BY <1>5, <3>1, <3>2
  <2>2. PICK T \in C : \A y \in T : T \ {y} \notin C
    <3>1. \A S \in C : IsFiniteSet(S)
      BY <1>0
    <3> HIDE DEF C
    <3> QED BY <3>1, SmallestSet
  <2> HIDE DEF g
  <2>3. T \in SUBSET V /\ h[T] # g[T] /\ \A y \in T : h[T \ {y}] = g[T \ {y}]
    BY <2>2
  <2>4. ASSUME NEW x \in V PROVE Onward(h, T, x) = Onward(g, T, x)
    <3>1. \A y \in T : Longer(h[T \ {y}][y], x, y) = Longer(g[T \ {y}][y], x, y)
      BY <2>3
    <3> QED BY <3>1 DEF Onward
  <2>5. ASSUME NEW x \in V PROVE h[T][x] = g[T][x]
    <3>1. g[T][x] = Hop(x, t) \cup Onward(g, T, x)
      BY <1>4, <2>3
    <3> QED BY <2>1, <2>3, <2>4, <3>1
  <2>6. h[T] = [x \in V |-> h[T][x]]
    BY <2>0, <2>3
  <2>7. g[T] = [x \in V |-> g[T][x]]
    BY <1>5, <2>3
  <2> QED BY <2>3, <2>5, <2>6, <2>7
<1> QED BY <1>7, <1>8

(* The lengths of the walks from x to t whose inner vertices are distinct  *)
(* members of T.                                                           *)
Through(T, x, t) == Ways(t)[T][x]

(* Lengths in these terms.                                                 *)
LEMMA LengthsThrough ==
  ASSUME NEW S, NEW x, NEW t
  PROVE  Lengths(S, x, t) = Through(S \ {x, t}, x, t)
BY LengthsUnfolded DEF Through

(* Such a walk is an edge, or an edge to some member of T and a walk on.   *)
LEMMA ThroughLaw ==
  ASSUME Weighed, NEW t \in V, NEW T \in SUBSET V, NEW x \in V
  PROVE  /\ Through(T, x, t) \in SUBSET Int
         /\ SeenEdge(x, t) => w(x, t) \in Through(T, x, t)
         /\ \A y \in T : SeenEdge(x, y) =>
              \A a \in Through(T \ {y}, y, t) : w(x, y) + a \in Through(T, x, t)
         /\ \A c \in Through(T, x, t) :
              \/ SeenEdge(x, t) /\ c = w(x, t)
              \/ \E y \in T : /\ SeenEdge(x, y)
                              /\ \E a \in Through(T \ {y}, y, t) : c = w(x, y) + a
<1>1. Through(T, x, t) = Hop(x, t) \cup Onward(Ways(t), T, x)
  BY WaysExist DEF Through
<1>2. Through(T, x, t) \in SUBSET Int
  BY WaysExist DEF Through
<1>3. \A c : c \in Onward(Ways(t), T, x) <=>
               \E y \in T : SeenEdge(x, y) /\ c \in Longer(Ways(t)[T \ {y}][y], x, y)
  BY DEF Onward
<1>4. \A y : \A c : c \in Longer(Ways(t)[T \ {y}][y], x, y) <=>
                      \E a \in Through(T \ {y}, y, t) : c = w(x, y) + a
  BY DEF Longer, Through
<1>5. \A c : c \in Hop(x, t) <=> SeenEdge(x, t) /\ c = w(x, t)
  BY DEF Hop
<1>6. \A c : c \in Through(T, x, t) <=>
              \/ SeenEdge(x, t) /\ c = w(x, t)
              \/ \E y \in T : SeenEdge(x, y) /\ \E a \in Through(T \ {y}, y, t) : c = w(x, y) + a
  <2> SUFFICES ASSUME NEW c
               PROVE  c \in Through(T, x, t) <=>
                        \/ SeenEdge(x, t) /\ c = w(x, t)
                        \/ \E y \in T : SeenEdge(x, y) /\ \E a \in Through(T \ {y}, y, t) : c = w(x, y) + a
    OBVIOUS
  <2>1. c \in Onward(Ways(t), T, x) <=>
          \E y \in T : SeenEdge(x, y) /\ \E a \in Through(T \ {y}, y, t) : c = w(x, y) + a
    <3>1. \A y : c \in Longer(Ways(t)[T \ {y}][y], x, y) <=>
                   \E a \in Through(T \ {y}, y, t) : c = w(x, y) + a
      BY <1>4
    <3>2. c \in Onward(Ways(t), T, x) <=>
            \E y \in T : SeenEdge(x, y) /\ c \in Longer(Ways(t)[T \ {y}][y], x, y)
      BY <1>3
    <3> QED BY <3>1, <3>2
  <2>2. c \in Through(T, x, t) <=> c \in Hop(x, t) \/ c \in Onward(Ways(t), T, x)
    BY <1>1
  <2> QED BY <1>5, <2>1, <2>2, Zenon
<1>7. \A y \in T : SeenEdge(x, y) =>
        \A a \in Through(T \ {y}, y, t) : w(x, y) + a \in Through(T, x, t)
  BY <1>6
<1> QED BY <1>2, <1>6, <1>7

(* What holds of a set if it does of the set without any one of its        *)
(* elements, holds of every finite set.                                    *)
LEMMA SetInduction ==
  ASSUME NEW S, IsFiniteSet(S), NEW G,
         \A m \in SUBSET S : (\A x \in m : m \ {x} \in G) => m \in G
  PROVE  \A m \in SUBSET S : m \in G
<1> DEFINE C == { s \in SUBSET S : s \notin G }
<1> SUFFICES ASSUME C # {} PROVE FALSE
  OBVIOUS
<1>1. \A s \in C : IsFiniteSet(s)
  BY FS_Subset
<1>2. PICK m \in C : \A x \in m : m \ {x} \notin C
  <2> HIDE DEF C
  <2> QED BY <1>1, SmallestSet
<1>3. m \in SUBSET S /\ m \notin G /\ \A x \in m : m \ {x} \in SUBSET S
  BY <1>2
<1> QED BY <1>2, <1>3

(* More inner vertices allow more walks.                                   *)
LEMMA ThroughMore ==
  ASSUME Weighed, NEW t \in V, NEW T \in SUBSET V, NEW R \in SUBSET V, T \subseteq R, NEW x \in V
  PROVE  Through(T, x, t) \subseteq Through(R, x, t)
<1> DEFINE G == { S \in SUBSET V : \A Q \in SUBSET V : \A y \in V :
                    S \subseteq Q => Through(S, y, t) \subseteq Through(Q, y, t) }
<1>1. ASSUME NEW S \in SUBSET V, \A y \in S : S \ {y} \in G PROVE S \in G
  <2> SUFFICES ASSUME NEW Q \in SUBSET V, S \subseteq Q, NEW y \in V, NEW c \in Through(S, y, t)
               PROVE  c \in Through(Q, y, t)
    OBVIOUS
  <2>1. CASE SeenEdge(y, t) /\ c = w(y, t)
    BY <2>1, ThroughLaw
  <2>2. CASE \E z \in S : SeenEdge(y, z) /\ \E a \in Through(S \ {z}, z, t) : c = w(y, z) + a
    <3>1. PICK z \in S : SeenEdge(y, z) /\ \E a \in Through(S \ {z}, z, t) : c = w(y, z) + a
      BY <2>2
    <3>2. PICK a \in Through(S \ {z}, z, t) : c = w(y, z) + a
      BY <3>1
    <3>3. z \in Q /\ z \in V /\ Q \ {z} \in SUBSET V /\ S \ {z} \subseteq Q \ {z}
      OBVIOUS
    <3>4. Through(S \ {z}, z, t) \subseteq Through(Q \ {z}, z, t)
      BY <1>1, <3>3
    <3>5. a \in Through(Q \ {z}, z, t)
      BY <3>4
    <3> QED BY <3>1, <3>2, <3>3, <3>5, ThroughLaw
  <2>3. \/ SeenEdge(y, t) /\ c = w(y, t)
        \/ \E z \in S : SeenEdge(y, z) /\ \E a \in Through(S \ {z}, z, t) : c = w(y, z) + a
    BY ThroughLaw
  <2> QED BY <2>1, <2>2, <2>3
<1>2. IsFiniteSet(V)
  BY WeighedFacts
<1>3. T \in G
  <2> HIDE DEF G
  <2> QED BY <1>1, <1>2, SetInduction
<1> QED BY <1>3

(* A walk through z is one to z and one from z on.                         *)
LEMMA ThroughSplit ==
  ASSUME Weighed, NEW t \in V, NEW T \in SUBSET V, NEW x \in V, NEW z \in T,
         NEW c \in Through(T, x, t)
  PROVE  \/ c \in Through(T \ {z}, x, t)
         \/ \E a \in Through(T \ {z}, x, z) : \E b \in Through(T \ {z}, z, t) : c = a + b
<1> DEFINE Part(S, y, q, l) ==
             \/ l \in Through(S \ {q}, y, t)
             \/ \E a \in Through(S \ {q}, y, q) : \E b \in Through(S \ {q}, q, t) : l = a + b
           G == { S \in SUBSET V : \A y \in V : \A q \in S : \A l \in Through(S, y, t) : Part(S, y, q, l) }
<1>1. ASSUME NEW S \in SUBSET V, \A y \in S : S \ {y} \in G PROVE S \in G
  <2> SUFFICES ASSUME NEW y \in V, NEW q \in S, NEW l \in Through(S, y, t)
               PROVE  Part(S, y, q, l)
    OBVIOUS
  <2>0. S \ {q} \in SUBSET V /\ q \in V
    OBVIOUS
  <2>1. CASE SeenEdge(y, t) /\ l = w(y, t)
    BY <2>0, <2>1, ThroughLaw
  <2>2. CASE \E p \in S : SeenEdge(y, p) /\ \E a \in Through(S \ {p}, p, t) : l = w(y, p) + a
    <3>1. PICK p \in S : SeenEdge(y, p) /\ \E a \in Through(S \ {p}, p, t) : l = w(y, p) + a
      BY <2>2
    <3>2. PICK a \in Through(S \ {p}, p, t) : l = w(y, p) + a
      BY <3>1
    <3>3. CASE p = q
      <4>1. w(y, q) \in Through(S \ {q}, y, q)
        BY <2>0, <3>1, <3>3, ThroughLaw
      <4> QED BY <3>2, <3>3, <4>1
    <3>4. CASE p # q
      <4>1. /\ S \ {p} \in SUBSET V /\ S \ {p} \in G /\ q \in S \ {p} /\ p \in V
            /\ (S \ {p}) \ {q} = (S \ {q}) \ {p} /\ p \in S \ {q}
            /\ (S \ {q}) \ {p} \in SUBSET V /\ (S \ {q}) \ {p} \subseteq S \ {q}
        BY <1>1, <3>4
      <4>2. Part(S \ {p}, p, q, a)
        <5> HIDE DEF Part
        <5> QED BY <4>1
      <4>3. CASE a \in Through((S \ {p}) \ {q}, p, t)
        <5>1. l \in Through(S \ {q}, y, t)
          BY <2>0, <3>1, <3>2, <4>1, <4>3, ThroughLaw
        <5> QED BY <5>1
      <4>4. CASE \E d \in Through((S \ {p}) \ {q}, p, q) : \E b \in Through((S \ {p}) \ {q}, q, t) : a = d + b
        <5>1. PICK d \in Through((S \ {p}) \ {q}, p, q) : \E b \in Through((S \ {p}) \ {q}, q, t) : a = d + b
          BY <4>4
        <5>2. PICK b \in Through((S \ {p}) \ {q}, q, t) : a = d + b
          BY <5>1
        <5>3. w(y, p) + d \in Through(S \ {q}, y, q)
          BY <2>0, <3>1, <4>1, ThroughLaw
        <5>4. b \in Through(S \ {q}, q, t)
          BY <2>0, <4>1, ThroughMore
        <5>5. d \in Int /\ b \in Int /\ w(y, p) \in Int
          BY <2>0, <4>1, ThroughLaw, WeighedFacts
        <5>6. l = (w(y, p) + d) + b
          BY <3>2, <5>2, <5>5
        <5> QED BY <5>3, <5>4, <5>6
      <4> QED BY <4>2, <4>3, <4>4
    <3> QED BY <3>3, <3>4
  <2>3. \/ SeenEdge(y, t) /\ l = w(y, t)
        \/ \E p \in S : SeenEdge(y, p) /\ \E a \in Through(S \ {p}, p, t) : l = w(y, p) + a
    <3>1. \A e \in Through(S, y, t) :
            \/ SeenEdge(y, t) /\ e = w(y, t)
            \/ \E p \in S : SeenEdge(y, p) /\ \E a \in Through(S \ {p}, p, t) : e = w(y, p) + a
      BY ThroughLaw
    <3> QED BY <3>1
  <2> QED BY <2>1, <2>2, <2>3
<1>2. IsFiniteSet(V)
  BY WeighedFacts
<1>3. T \in G
  <2> HIDE DEF G
  <2> QED BY <1>1, <1>2, SetInduction
<1> QED BY <1>3

-----------------------------------------------------------------------------
(* A graph without negative cycles.                                        *)
Sane == Weighed /\ ~NegativeCycle

(* No way from a vertex back to itself is shorter than none.               *)
LEMMA NoNegativeWay ==
  ASSUME Sane, NEW x \in V, NEW T \in SUBSET V, x \notin T
  PROVE  \A c \in Through(T, x, x) : c \in Int /\ c >= 0
<1> SUFFICES ASSUME NEW c \in Through(T, x, x) PROVE c \in Int /\ c >= 0
  OBVIOUS
<1>1. V \ {x, x} \in SUBSET V /\ T \subseteq V \ {x, x}
  OBVIOUS
<1>2. c \in Through(V \ {x, x}, x, x)
  BY <1>1, ThroughMore DEF Sane
<1>3. c \in Lengths(V, x, x)
  BY <1>2, LengthsThrough
<1>4. ~(c < 0)
  BY <1>3 DEF Sane, NegativeCycle
<1>5. c \in Int
  BY ThroughLaw DEF Sane
<1> QED BY <1>4, <1>5

(* An edge before a walk: if the walk comes by, what it has gone round in  *)
(* between can be left out.                                                *)
LEMMA EdgeAndWalk ==
  ASSUME Sane, NEW S \in SUBSET V, NEW x \in V, NEW y \in V, NEW t \in V, SeenEdge(x, y),
         NEW c \in Lengths(S, y, t)
  PROVE  \E d \in Lengths(S \cup {y}, x, t) : d <= w(x, y) + c
<1> DEFINE A == S \ {y, t}
           B == (S \cup {y}) \ {x, t}
<1>0. /\ Weighed /\ A \in SUBSET V /\ B \in SUBSET V
      /\ w(x, y) \in Int
      /\ c \in Through(A, y, t) /\ c \in Int
  <2>1. Weighed /\ A \in SUBSET V /\ B \in SUBSET V
    BY DEF Sane
  <2>2. c \in Through(A, y, t)
    BY LengthsThrough
  <2> HIDE DEF A, B
  <2>3. w(x, y) \in Int
    BY <2>1, WeighedFacts
  <2>4. c \in Int
    BY <2>1, <2>2, ThroughLaw
  <2> QED BY <2>1, <2>2, <2>3, <2>4
<1> SUFFICES \E d \in Through(B, x, t) : d <= w(x, y) + c
  BY LengthsThrough
<1>1. CASE x # t /\ y = t
  <2>1. t \notin A
    OBVIOUS
  <2> HIDE DEF A, B
  <2>2. c >= 0
    BY <1>0, <1>1, <2>1, NoNegativeWay
  <2>3. w(x, t) \in Through(B, x, t)
    BY <1>0, <1>1, ThroughLaw
  <2>4. w(x, t) <= w(x, t) + c
    BY <1>0, <1>1, <2>2
  <2> QED BY <1>1, <2>3, <2>4
<1>2. CASE x = t /\ y = t
  <2>1. t \notin A
    OBVIOUS
  <2> HIDE DEF A, B
  <2>2. c >= 0
    BY <1>0, <1>2, <2>1, NoNegativeWay
  <2>3. w(x, t) \in Through(B, x, t)
    BY <1>0, <1>2, ThroughLaw
  <2>4. w(x, t) <= w(x, t) + c
    BY <1>0, <1>2, <2>2
  <2> QED BY <1>2, <2>3, <2>4
<1>3. CASE x = y /\ y # t
  <2>1. A = B /\ x \notin {}
    BY <1>3
  <2> HIDE DEF A, B
  <2>2. w(x, x) \in Through({}, x, x) /\ {} \in SUBSET V
    BY <1>0, <1>3, ThroughLaw
  <2>3. w(x, x) >= 0
    BY <2>1, <2>2, NoNegativeWay
  <2>4. c <= w(x, x) + c
    BY <1>0, <1>3, <2>3
  <2> QED BY <1>0, <1>3, <2>1, <2>4
<1>4. CASE y # t /\ x # y /\ x \notin A
  <2>1. y \in B /\ (x # t => B \ {y} = A) /\ (x = t => B \ {y} = A)
    BY <1>4
  <2> HIDE DEF A, B
  <2>2. w(x, y) + c \in Through(B, x, t)
    BY <1>0, <2>1, ThroughLaw
  <2>3. w(x, y) + c <= w(x, y) + c
    BY <1>0
  <2> QED BY <2>2, <2>3
<1>5. CASE y # t /\ x # y /\ x \in A
  <2>1. /\ y \in B /\ A \ {x} = B \ {y} /\ A \ {x} \in SUBSET V /\ A \ {x} \subseteq B
        /\ x \notin (A \ {x}) \cup {y} /\ (A \ {x}) \cup {y} \in SUBSET V
        /\ ((A \ {x}) \cup {y}) \ {y} = A \ {x}
    BY <1>5
  <2> HIDE DEF A, B
  <2>2. CASE c \in Through(A \ {x}, y, t)
    <3>1. w(x, y) + c \in Through(B, x, t)
      BY <1>0, <2>1, <2>2, ThroughLaw
    <3>2. w(x, y) + c <= w(x, y) + c
      BY <1>0
    <3> QED BY <3>1, <3>2
  <2>3. CASE \E a \in Through(A \ {x}, y, x) : \E b \in Through(A \ {x}, x, t) : c = a + b
    <3>1. PICK a \in Through(A \ {x}, y, x) : \E b \in Through(A \ {x}, x, t) : c = a + b
      BY <2>3
    <3>2. PICK b \in Through(A \ {x}, x, t) : c = a + b
      BY <3>1
    <3>3. w(x, y) + a \in Through((A \ {x}) \cup {y}, x, x)
      BY <1>0, <2>1, ThroughLaw
    <3>4. w(x, y) + a >= 0
      BY <2>1, <3>3, NoNegativeWay
    <3>5. a \in Int /\ b \in Int
      BY <1>0, <2>1, ThroughLaw
    <3>6. b \in Through(B, x, t)
      BY <1>0, <2>1, ThroughMore
    <3>7. b <= w(x, y) + c
      BY <1>0, <3>2, <3>4, <3>5
    <3> QED BY <3>6, <3>7
  <2> QED BY <1>0, <1>5, <2>2, <2>3, ThroughSplit
<1> QED BY <1>1, <1>2, <1>3, <1>4, <1>5

(* A walk before a walk.                                                   *)
LEMMA WalkAndWalk ==
  ASSUME Sane, NEW R \in SUBSET V, NEW z \in V, NEW t \in V, NEW b \in Lengths(R, z, t),
         NEW A \in SUBSET V, NEW x \in V, NEW a \in Through(A, x, z)
  PROVE  \E c \in Lengths(A \cup R \cup {z}, x, t) : c <= a + b
<1> DEFINE Joined(S, y, l) == \E c \in Lengths(S \cup R \cup {z}, y, t) : c <= l + b
           G == { S \in SUBSET V : \A y \in V : \A l \in Through(S, y, z) : Joined(S, y, l) }
<1>0. Weighed /\ IsFiniteSet(V)
  BY WeighedFacts DEF Sane
<1>00. b \in Int
  <2>1. R \ {z, t} \in SUBSET V /\ b \in Through(R \ {z, t}, z, t)
    BY LengthsThrough
  <2> QED BY <1>0, <2>1, ThroughLaw
<1>1. ASSUME NEW S \in SUBSET V, NEW y \in V, NEW c \in Lengths(S, y, t)
      PROVE  c \in Int /\ \A Q \in SUBSET V : S \subseteq Q => c \in Lengths(Q, y, t)
  <2>1. S \ {y, t} \in SUBSET V /\ c \in Through(S \ {y, t}, y, t)
    BY LengthsThrough
  <2>2. c \in Int
    BY <1>0, <2>1, ThroughLaw
  <2>3. ASSUME NEW Q \in SUBSET V, S \subseteq Q PROVE c \in Lengths(Q, y, t)
    <3>1. Q \ {y, t} \in SUBSET V /\ S \ {y, t} \subseteq Q \ {y, t}
      BY <2>3
    <3>2. c \in Through(Q \ {y, t}, y, t)
      BY <1>0, <2>1, <3>1, ThroughMore
    <3> QED BY <3>2, LengthsThrough
  <2> QED BY <2>2, <2>3
<1>2. ASSUME NEW S \in SUBSET V, \A y \in S : S \ {y} \in G PROVE S \in G
  <2> SUFFICES ASSUME NEW y \in V, NEW l \in Through(S, y, z) PROVE Joined(S, y, l)
    OBVIOUS
  <2>1. CASE SeenEdge(y, z) /\ l = w(y, z)
    <3>1. PICK d \in Lengths(R \cup {z}, y, t) : d <= w(y, z) + b
      BY <2>1, EdgeAndWalk
    <3>2. R \cup {z} \in SUBSET V /\ S \cup R \cup {z} \in SUBSET V
      OBVIOUS
    <3>3. d \in Lengths(S \cup R \cup {z}, y, t)
      BY <1>1, <3>2
    <3> QED BY <2>1, <3>1, <3>3
  <2>2. CASE \E p \in S : SeenEdge(y, p) /\ \E d \in Through(S \ {p}, p, z) : l = w(y, p) + d
    <3>1. PICK p \in S : SeenEdge(y, p) /\ \E d \in Through(S \ {p}, p, z) : l = w(y, p) + d
      BY <2>2
    <3>2. PICK d \in Through(S \ {p}, p, z) : l = w(y, p) + d
      BY <3>1
    <3>3. S \ {p} \in SUBSET V /\ S \ {p} \in G /\ p \in V
      BY <1>2
    <3>4. Joined(S \ {p}, p, d)
      <4> HIDE DEF Joined
      <4> QED BY <3>3
    <3> DEFINE Q == (S \ {p}) \cup R \cup {z}
    <3>5. PICK e \in Lengths(Q, p, t) : e <= d + b
      BY <3>4
    <3>6. Q \in SUBSET V /\ Q \cup {p} = S \cup R \cup {z}
      BY <3>3
    <3> HIDE DEF Q
    <3>7. PICK f \in Lengths(Q \cup {p}, y, t) : f <= w(y, p) + e
      BY <3>1, <3>3, <3>6, EdgeAndWalk
    <3>8. f \in Int /\ e \in Int /\ w(y, p) \in Int /\ d \in Int
      <4>1. Q \cup {p} \in SUBSET V
        BY <3>3, <3>6
      <4>2. d \in Int
        BY <1>0, <3>3, ThroughLaw
      <4> QED BY <1>0, <1>1, <3>3, <3>6, <4>1, <4>2, WeighedFacts
    <3>9. f <= l + b
      BY <1>00, <3>2, <3>5, <3>7, <3>8
    <3> QED BY <3>6, <3>9
  <2>3. \/ SeenEdge(y, z) /\ l = w(y, z)
        \/ \E p \in S : SeenEdge(y, p) /\ \E d \in Through(S \ {p}, p, z) : l = w(y, p) + d
    BY <1>0, ThroughLaw
  <2> QED BY <2>1, <2>2, <2>3
<1>3. A \in G
  <2> HIDE DEF G
  <2> QED BY <1>0, <1>2, SetInduction
<1>4. Joined(A, x, a)
  <2> HIDE DEF Joined
  <2> QED BY <1>3
<1> QED BY <1>4

(* Finitely many finite sets have a finite union.                          *)
LEMMA FiniteUnion ==
  ASSUME NEW S, IsFiniteSet(S), NEW f, \A x \in S : IsFiniteSet(f[x])
  PROVE  IsFiniteSet(UNION { f[x] : x \in S })
<1> DEFINE g == [x \in S |-> f[x]]
           values == { f[x] : x \in S }
<1>1. g \in Surjection(S, values)
  BY DEF Surjection
<1>2. IsFiniteSet(values)
  BY <1>1, FS_Surjection
<1>3. \A T \in values : IsFiniteSet(T)
  OBVIOUS
<1> HIDE DEF values
<1>4. IsFiniteSet(UNION values)
  BY <1>2, <1>3, FS_UNION
<1> QED BY <1>4 DEF values

(* There are finitely many walks.                                          *)
LEMMA ThroughFinite ==
  ASSUME Weighed, NEW t \in V, NEW T \in SUBSET V, NEW x \in V
  PROVE  IsFiniteSet(Through(T, x, t))
<1> DEFINE G == { S \in SUBSET V : \A y \in V : IsFiniteSet(Through(S, y, t)) }
<1>0. IsFiniteSet(V) /\ \A S \in SUBSET V : IsFiniteSet(S)
  BY WeighedFacts
<1>1. ASSUME NEW S \in SUBSET V, \A y \in S : S \ {y} \in G PROVE S \in G
  <2> SUFFICES ASSUME NEW y \in V PROVE IsFiniteSet(Through(S, y, t))
    OBVIOUS
  <2> DEFINE F == [p \in S |-> Longer(Through(S \ {p}, p, t), y, p)]
  <2>1. ASSUME NEW p \in S PROVE IsFiniteSet(F[p])
    <3> DEFINE A == Through(S \ {p}, p, t)
               h == [a \in A |-> w(y, p) + a]
    <3>1. IsFiniteSet(A)
      <4>1. S \ {p} \in G /\ p \in V
        BY <1>1
      <4> QED BY <4>1
    <3>2. h \in Surjection(A, Longer(A, y, p))
      <4> HIDE DEF A
      <4> QED BY DEF Surjection, Longer
    <3>3. IsFiniteSet(Longer(A, y, p))
      <4> HIDE DEF A, h
      <4> QED BY <3>1, <3>2, FS_Surjection
    <3> QED BY <3>3
  <2>2. IsFiniteSet(UNION { F[p] : p \in S })
    <3>1. IsFiniteSet(S) /\ \A p \in S : IsFiniteSet(F[p])
      BY <1>0, <2>1
    <3> HIDE DEF F
    <3> QED BY <3>1, FiniteUnion
  <2>3. IsFiniteSet({w(y, t)} \cup UNION { F[p] : p \in S })
    <3> HIDE DEF F
    <3>1. IsFiniteSet((UNION { F[p] : p \in S }) \cup {w(y, t)})
      BY <2>2, FS_AddElement
    <3>2. (UNION { F[p] : p \in S }) \cup {w(y, t)} = {w(y, t)} \cup UNION { F[p] : p \in S }
      OBVIOUS
    <3> QED BY <3>1, <3>2
  <2>4. ASSUME NEW c \in Through(S, y, t) PROVE c \in {w(y, t)} \cup UNION { F[p] : p \in S }
    <3>1. CASE SeenEdge(y, t) /\ c = w(y, t)
      BY <3>1
    <3>2. CASE \E p \in S : SeenEdge(y, p) /\ \E a \in Through(S \ {p}, p, t) : c = w(y, p) + a
      <4>1. PICK p \in S : \E a \in Through(S \ {p}, p, t) : c = w(y, p) + a
        BY <3>2
      <4>2. c \in F[p]
        BY <4>1 DEF Longer
      <4> QED BY <4>2
    <3>3. \/ SeenEdge(y, t) /\ c = w(y, t)
          \/ \E p \in S : SeenEdge(y, p) /\ \E a \in Through(S \ {p}, p, t) : c = w(y, p) + a
      BY ThroughLaw
    <3> QED BY <3>1, <3>2, <3>3
  <2> DEFINE all == {w(y, t)} \cup UNION { F[p] : p \in S }
  <2>5. Through(S, y, t) \in SUBSET all
    BY <2>4
  <2> HIDE DEF all
  <2>6. IsFiniteSet(all)
    BY <2>3 DEF all
  <2> QED BY <2>5, <2>6, FS_Subset
<1>2. T \in G
  <2> HIDE DEF G
  <2> QED BY <1>0, <1>1, SetInduction
<1> QED BY <1>2

-----------------------------------------------------------------------------
(* d is what Shortest(S, x, t) has to be.                                  *)
Home(x, t) == x = t /\ ~is_edge(graph, x, x)

IsShortest(d, S, x, t) ==
  /\ d \in Int /\ d <= INT_MAX
  /\ \A c \in Lengths(S, x, t) : c \in Int /\ d <= c
  /\ Home(x, t) => d <= 0
  /\ \/ d \in Lengths(S, x, t)
     \/ d = INT_MAX
     \/ d = 0 /\ Home(x, t)

(* Lengths is a finite set of integers.                                    *)
LEMMA LengthsFacts ==
  ASSUME Weighed, NEW S \in SUBSET V, NEW x \in V, NEW t \in V
  PROVE  /\ S \ {x, t} \in SUBSET V
         /\ Lengths(S, x, t) = Through(S \ {x, t}, x, t)
         /\ Lengths(S, x, t) \in SUBSET Int
         /\ IsFiniteSet(Lengths(S, x, t))
<1>1. S \ {x, t} \in SUBSET V
  OBVIOUS
<1> QED BY <1>1, LengthsThrough, ThroughLaw, ThroughFinite

(* There is one shortest length, and Shortest is it.                       *)
LEMMA ShortestLaw ==
  ASSUME Weighed, NEW S \in SUBSET V, NEW x \in V, NEW t \in V
  PROVE  /\ IsShortest(Shortest(S, x, t), S, x, t)
         /\ \A d : IsShortest(d, S, x, t) => d = Shortest(S, x, t)
<1> DEFINE A == Lengths(S, x, t)
           Z == IF x = t /\ ~is_edge(graph, x, x) THEN {0} ELSE {}
           B == A \cup {INT_MAX} \cup Z
<1>0. INT_MAX \in Int /\ INT_MAX >= 0
  BY IntAssumption
<1>1. A \in SUBSET Int /\ IsFiniteSet(A)
  BY LengthsFacts
<1>2. Shortest(S, x, t) = Least(B)
  BY DEF Shortest
<1>3. \A c : c \in Z <=> (c = 0 /\ Home(x, t))
  BY DEF Home
<1>4. IsFiniteSet(B)
  <2>1. IsFiniteSet(A \cup {INT_MAX})
    <3> HIDE DEF A
    <3> QED BY <1>1, FS_AddElement
  <2>2. IsFiniteSet((A \cup {INT_MAX}) \cup {0})
    <3> HIDE DEF A
    <3> QED BY <2>1, FS_AddElement
  <2>3. Z = {} \/ Z = {0}
    OBVIOUS
  <2> HIDE DEF A, Z
  <2> QED BY <2>1, <2>2, <2>3
<1> HIDE DEF A, Z
<1>5. \A c : c \in B <=> c \in A \/ c = INT_MAX \/ (c = 0 /\ Home(x, t))
  <2>1. \A c : c \in B <=> c \in A \/ c = INT_MAX \/ c \in Z
    OBVIOUS
  <2> HIDE DEF B
  <2> QED BY <1>3, <2>1, Zenon
<1> HIDE DEF B
<1>6. B \in SUBSET Int /\ INT_MAX \in B
  <2>1. INT_MAX \in B
    BY <1>5, Zenon
  <2>2. ASSUME NEW c \in B PROVE c \in Int
    <3>1. c \in A \/ c = INT_MAX \/ c = 0
      BY <1>5, Zenon
    <3>2. ASSUME NEW d \in A PROVE d \in Int
      BY <1>1
    <3> HIDE DEF A
    <3> QED BY <1>0, <3>1, <3>2
  <2> QED BY <2>1, <2>2
<1>7. \E m \in B : \A y \in B : m <= y
  BY <1>4, <1>6, LeastInteger
<1>8. Least(B) \in B /\ \A y \in B : Least(B) <= y
  BY <1>7 DEF Least
<1>9. IsShortest(Least(B), S, x, t)
  BY <1>0, <1>1, <1>5, <1>6, <1>8 DEF IsShortest, A
<1>10. ASSUME NEW d, IsShortest(d, S, x, t) PROVE d = Least(B)
  <2>0. /\ d \in Int /\ d <= INT_MAX /\ \A c \in A : d <= c
        /\ Home(x, t) => d <= 0
        /\ d \in A \/ d = INT_MAX \/ (d = 0 /\ Home(x, t))
    BY <1>10, Zenon DEF IsShortest, A
  <2>1. d \in B /\ \A y \in B : d <= y
    <3>1. d \in B
      BY <1>5, <2>0
    <3>2. ASSUME NEW y \in B PROVE d <= y
      <4>1. y \in A \/ y = INT_MAX \/ (y = 0 /\ Home(x, t))
        BY <1>5
      <4> QED BY <2>0, <4>1
    <3> QED BY <3>1, <3>2
  <2>2. d \in Int /\ Least(B) \in Int /\ d <= Least(B) /\ Least(B) <= d
    BY <1>6, <1>8, <2>1
  <2> QED BY <2>2
<1> QED BY <1>2, <1>9, <1>10

(* More inner vertices allow more walks.                                   *)
LEMMA LengthsMore ==
  ASSUME Weighed, NEW x \in V, NEW t \in V, NEW S \in SUBSET V, NEW R \in SUBSET V, S \subseteq R
  PROVE  Lengths(S, x, t) \subseteq Lengths(R, x, t)
<1>1. S \ {x, t} \in SUBSET V /\ R \ {x, t} \in SUBSET V /\ S \ {x, t} \subseteq R \ {x, t}
  OBVIOUS
<1>2. Through(S \ {x, t}, x, t) \subseteq Through(R \ {x, t}, x, t)
  BY <1>1, ThroughMore
<1> QED BY <1>2, LengthsThrough

(* There is no negative way from a vertex to itself.                       *)
LEMMA NotBelowZero ==
  ASSUME Sane, NEW S \in SUBSET V, NEW x \in V
  PROVE  Shortest(S, x, x) >= 0
<1> DEFINE d == Shortest(S, x, x)
<1>1. IsShortest(d, S, x, x)
  BY ShortestLaw DEF Sane
<1> HIDE DEF d
<1>2. CASE d \in Lengths(S, x, x)
  <2>1. S \ {x, x} \in SUBSET V /\ x \notin S \ {x, x} /\ d \in Through(S \ {x, x}, x, x)
    BY <1>2, LengthsThrough
  <2> QED BY <2>1, NoNegativeWay DEF d
<1>3. INT_MAX >= 0
  BY IntAssumption
<1>4. d \in Lengths(S, x, x) \/ d = INT_MAX \/ d = 0
  BY <1>1, Zenon DEF IsShortest
<1> QED BY <1>2, <1>3, <1>4 DEF d

(* Where there is a walk, there is one shorter than INT_MAX.               *)
Attained(S) == \A x, t \in V : Lengths(S, x, t) # {} => Shortest(S, x, t) < INT_MAX

(* What the loops make of the entries for x and z, z and t, x and t.       *)
Better(p, q, d) == p # INT_MAX /\ q # INT_MAX /\ p + q < d
Relaxed(p, q, d) == IF Better(p, q, d) THEN p + q ELSE d

(* The parts of IsShortest, for Shortest.                                  *)
LEMMA ShortestFacts ==
  ASSUME Weighed, NEW S \in SUBSET V, NEW x \in V, NEW t \in V
  PROVE  /\ Shortest(S, x, t) \in Int /\ Shortest(S, x, t) <= INT_MAX
         /\ \A c \in Lengths(S, x, t) : c \in Int /\ Shortest(S, x, t) <= c
         /\ Home(x, t) => Shortest(S, x, t) <= 0
         /\ \/ Shortest(S, x, t) \in Lengths(S, x, t)
            \/ Shortest(S, x, t) = INT_MAX
            \/ Shortest(S, x, t) = 0 /\ Home(x, t)
<1>1. IsShortest(Shortest(S, x, t), S, x, t)
  BY ShortestLaw
<1> QED BY <1>1, Zenon DEF IsShortest

(* A walk that is not longer than INT_MAX from x to t by z, from parts.    *)
LEMMA Joined ==
  ASSUME Sane, NEW S \in SUBSET V, NEW z \in V, NEW x \in V, NEW t \in V,
         NEW p \in Lengths(S, x, z), NEW q \in Lengths(S, z, t)
  PROVE  \E c \in Lengths(S \cup {z}, x, t) : c <= p + q
<1>1. S \ {x, z} \in SUBSET V /\ (S \ {x, z}) \cup S \cup {z} = S \cup {z}
  OBVIOUS
<1>2. p \in Through(S \ {x, z}, x, z)
  BY LengthsThrough
<1>3. \E c \in Lengths((S \ {x, z}) \cup S \cup {z}, x, t) : c <= p + q
  BY <1>1, <1>2, WalkAndWalk
<1> QED BY <1>1, <1>3

(* A walk that may go through z goes without it, or to it and on.          *)
LEMMA Parted ==
  ASSUME Sane, NEW S \in SUBSET V, NEW z \in V, z \notin S, NEW x \in V, NEW t \in V,
         NEW c \in Lengths(S \cup {z}, x, t)
  PROVE  \/ c \in Lengths(S, x, t)
         \/ \E a \in Lengths(S, x, z) : \E b \in Lengths(S, z, t) : c = a + b
<1> DEFINE A == S \ {x, t}
           B == (S \cup {z}) \ {x, t}
<1>0. A \in SUBSET V /\ B \in SUBSET V /\ c \in Through(B, x, t) /\ Weighed
  BY LengthsThrough DEF Sane
<1>1. CASE x = z \/ t = z
  <2>1. A = B
    BY <1>1
  <2> QED BY <1>0, <2>1, LengthsThrough
<1>2. CASE x # z /\ t # z
  <2>1. /\ z \in B /\ A = B \ {z}
        /\ A \subseteq S \ {x, z} /\ A \subseteq S \ {z, t}
        /\ S \ {x, z} \in SUBSET V /\ S \ {z, t} \in SUBSET V
    BY <1>2
  <2> HIDE DEF A, B
  <2>2. CASE c \in Through(A, x, t)
    BY <2>2, LengthsThrough DEF A
  <2>3. CASE \E a \in Through(A, x, z) : \E b \in Through(A, z, t) : c = a + b
    <3>1. Through(A, x, z) \subseteq Through(S \ {x, z}, x, z)
      BY <1>0, <2>1, ThroughMore
    <3>2. Through(A, z, t) \subseteq Through(S \ {z, t}, z, t)
      BY <1>0, <2>1, ThroughMore
    <3>3. \E a \in Lengths(S, x, z) : \E b \in Lengths(S, z, t) : c = a + b
      BY <2>3, <3>1, <3>2, LengthsThrough
    <3> QED BY <3>3
  <2>4. \/ c \in Through(B \ {z}, x, t)
        \/ \E a \in Through(B \ {z}, x, z) : \E b \in Through(B \ {z}, z, t) : c = a + b
    BY <1>0, <2>1, ThroughSplit
  <2> QED BY <2>1, <2>2, <2>3, <2>4
<1> QED BY <1>1, <1>2

(* What a pass has to do: if shortest ways through S are known, those      *)
(* through S and z are shortest ways through S, or two by way of z.        *)
LEMMA PassLaw ==
  ASSUME Sane, NEW S \in SUBSET V, Attained(S), NEW z \in V, z \notin S, NEW x \in V, NEW t \in V
  PROVE  Shortest(S \cup {z}, x, t)
           = Relaxed(Shortest(S, x, z), Shortest(S, z, t), Shortest(S, x, t))
<1> DEFINE p == Shortest(S, x, z)
           q == Shortest(S, z, t)
           o == Shortest(S, x, t)
           d == Relaxed(p, q, o)
           R == S \cup {z}
<1>0. R \in SUBSET V /\ Weighed /\ INT_MAX \in Int
  BY IntAssumption DEF Sane
<1>1. /\ p \in Int /\ p <= INT_MAX
      /\ \A c \in Lengths(S, x, z) : c \in Int /\ p <= c
      /\ p \in Lengths(S, x, z) \/ p = INT_MAX \/ (p = 0 /\ Home(x, z))
  BY <1>0, ShortestFacts
<1>2. /\ q \in Int /\ q <= INT_MAX
      /\ \A c \in Lengths(S, z, t) : c \in Int /\ q <= c
      /\ q \in Lengths(S, z, t) \/ q = INT_MAX \/ (q = 0 /\ Home(z, t))
  BY <1>0, ShortestFacts
<1>3. /\ o \in Int /\ o <= INT_MAX
      /\ \A c \in Lengths(S, x, t) : c \in Int /\ o <= c
      /\ Home(x, t) => o <= 0
      /\ o \in Lengths(S, x, t) \/ o = INT_MAX \/ (o = 0 /\ Home(x, t))
  BY <1>0, ShortestFacts
<1>4. /\ Lengths(S, x, z) # {} => p < INT_MAX
      /\ Lengths(S, z, t) # {} => q < INT_MAX
  BY DEF Attained
<1>5. /\ x = z => p >= 0 /\ q = o
      /\ t = z => q >= 0 /\ p = o
  BY NotBelowZero
<1> HIDE DEF p, q, o
<1>6. d \in Int /\ d <= o /\ (p # INT_MAX /\ q # INT_MAX => d <= p + q)
  BY <1>1, <1>2, <1>3 DEF Relaxed, Better
<1> HIDE DEF d
<1>7. ASSUME NEW c \in Lengths(R, x, t) PROVE c \in Int /\ d <= c
  <2>1. CASE c \in Lengths(S, x, t)
    BY <1>3, <1>6, <2>1
  <2>2. CASE \E a \in Lengths(S, x, z) : \E b \in Lengths(S, z, t) : c = a + b
    <3>1. PICK a \in Lengths(S, x, z) : \E b \in Lengths(S, z, t) : c = a + b
      BY <2>2
    <3>2. PICK b \in Lengths(S, z, t) : c = a + b
      BY <3>1
    <3>3. p < INT_MAX /\ q < INT_MAX
      BY <1>4
    <3>4. a \in Int /\ p <= a /\ b \in Int /\ q <= b
      BY <1>1, <1>2
    <3> QED BY <1>0, <1>1, <1>2, <1>6, <3>2, <3>3, <3>4
  <2>3. \/ c \in Lengths(S, x, t)
        \/ \E a \in Lengths(S, x, z) : \E b \in Lengths(S, z, t) : c = a + b
    BY Parted
  <2> QED BY <2>1, <2>2, <2>3
<1>8. d \in Lengths(R, x, t) \/ d = INT_MAX \/ (d = 0 /\ Home(x, t))
  <2>1. CASE d = o
    <3>1. Lengths(S, x, t) \subseteq Lengths(R, x, t)
      BY <1>0, LengthsMore
    <3> QED BY <1>3, <2>1, <3>1
  <2>2. CASE d # o
    <3>1. p # INT_MAX /\ q # INT_MAX /\ p + q < o /\ d = p + q
      BY <2>2 DEF d, Relaxed, Better
    <3>2. x # z /\ t # z
      BY <1>1, <1>2, <1>3, <1>5, <3>1
    <3>3. ~Home(x, z) /\ ~Home(z, t)
      BY <3>2 DEF Home
    <3>4. p \in Lengths(S, x, z) /\ q \in Lengths(S, z, t)
      BY <1>1, <1>2, <3>1, <3>3
    <3>5. PICK c \in Lengths(R, x, t) : c <= p + q
      BY <3>4, Joined
    <3>6. c \in Int /\ d <= c
      BY <1>7
    <3>7. d = c
      BY <1>6, <3>1, <3>5, <3>6
    <3> QED BY <3>7
  <2> QED BY <2>1, <2>2
<1>9. IsShortest(d, R, x, t)
  <2>1. d <= INT_MAX /\ (Home(x, t) => d <= 0)
    BY <1>0, <1>3, <1>6
  <2> HIDE DEF R
  <2> QED BY <1>6, <1>7, <1>8, <2>1, Zenon DEF IsShortest
<1>10. d = Shortest(R, x, t)
  <2> HIDE DEF R
  <2> QED BY <1>0, <1>9, ShortestLaw
<1> QED BY <1>10 DEF d, p, q, o

(* Before the first pass: an edge, or nothing.                             *)
LEMMA NoInner ==
  ASSUME Weighed, NEW x \in V, NEW t \in V
  PROVE  \A c : c \in Lengths({}, x, t) <=> SeenEdge(x, t) /\ c = w(x, t)
<1>1. {} \ {x, t} = {} /\ {} \in SUBSET V
  OBVIOUS
<1>2. Lengths({}, x, t) = Through({}, x, t)
  BY <1>1, LengthsThrough
<1>3. /\ SeenEdge(x, t) => w(x, t) \in Through({}, x, t)
      /\ \A c \in Through({}, x, t) :
           \/ SeenEdge(x, t) /\ c = w(x, t)
           \/ \E y \in {} : SeenEdge(x, y) /\ \E a \in Through({} \ {y}, y, t) : c = w(x, y) + a
  BY <1>1, ThroughLaw
<1> QED BY <1>2, <1>3

(* Before the first pass only edges count, and none weighs INT_MAX.        *)
LEMMA AttainedFirst ==
  ASSUME Weighed
  PROVE  Attained({})
<1> SUFFICES ASSUME NEW x \in V, NEW t \in V, Lengths({}, x, t) # {}
             PROVE  Shortest({}, x, t) < INT_MAX
  BY DEF Attained
<1>0. {} \in SUBSET V
  OBVIOUS
<1>1. SeenEdge(x, t) /\ w(x, t) \in Lengths({}, x, t)
  BY NoInner
<1>2. w(x, t) \in Ints /\ w(x, t) # INT_MAX /\ INT_MAX \in Int
  BY <1>1, WeighedFacts
<1>3. w(x, t) \in Int /\ w(x, t) < INT_MAX
  BY <1>2 DEF Ints
<1>4. Shortest({}, x, t) \in Int /\ Shortest({}, x, t) <= w(x, t)
  BY <1>0, <1>1, ShortestFacts
<1> QED BY <1>2, <1>3, <1>4

(* And the matrix as it is initialized says so.                            *)
LEMMA ShortestFirst ==
  ASSUME Weighed, NEW x \in V, NEW t \in V
  PROVE  Shortest({}, x, t) = Initial(x, t)
<1> DEFINE d == Initial(x, t)
<1>0. /\ {} \in SUBSET V /\ INT_MAX \in Int /\ INT_MAX >= 0
      /\ w(x, t) \in Int /\ w(x, t) <= INT_MAX
      /\ SeenEdge(x, t) <=> w(x, t) # 0 /\ w(x, t) # INT_MAX
  <2>1. INT_MAX \in Nat /\ w(x, t) \in Ints /\ Ints \subseteq Int
    BY WeighedFacts
  <2>2. SeenEdge(x, t) <=> w(x, t) # 0 /\ w(x, t) # INT_MAX
    BY WeighedFacts
  <2>3. w(x, t) <= INT_MAX
    BY <2>1 DEF Ints
  <2>4. INT_MAX \in Int /\ INT_MAX >= 0
    BY IntAssumption
  <2>5. w(x, t) \in Int
    BY <2>1
  <2> QED BY <2>2, <2>3, <2>4, <2>5
<1>1. d = IF w(x, t) # 0 THEN w(x, t) ELSE IF x = t THEN 0 ELSE INT_MAX
  BY DEF Initial, is_edge, w
<1>2. Home(x, t) <=> x = t /\ w(x, t) = 0
  BY DEF Home, is_edge, w
<1> HIDE DEF d
<1>3. \A c : c \in Lengths({}, x, t) <=> SeenEdge(x, t) /\ c = w(x, t)
  BY NoInner
<1>4. d \in Int /\ d <= INT_MAX /\ (Home(x, t) => d <= 0)
  BY <1>0, <1>1, <1>2
<1>5. \A c \in Lengths({}, x, t) : c \in Int /\ d <= c
  <2> SUFFICES ASSUME NEW c \in Lengths({}, x, t) PROVE c \in Int /\ d <= c
    OBVIOUS
  <2>1. SeenEdge(x, t) /\ c = w(x, t)
    BY <1>3
  <2> QED BY <1>0, <1>1, <2>1
<1>6. d \in Lengths({}, x, t) \/ d = INT_MAX \/ (d = 0 /\ Home(x, t))
  <2>1. CASE SeenEdge(x, t)
    <3>1. d = w(x, t)
      BY <1>0, <1>1, <2>1
    <3> QED BY <1>3, <2>1, <3>1
  <2>2. CASE ~SeenEdge(x, t)
    BY <1>0, <1>1, <1>2, <2>2
  <2> QED BY <2>1, <2>2
<1>7. IsShortest(d, {}, x, t)
  BY <1>4, <1>5, <1>6, Zenon DEF IsShortest
<1> QED BY <1>0, <1>7, ShortestLaw DEF d

-----------------------------------------------------------------------------
(* On an undirected graph every walk can be walked back.                   *)
LEMMA EdgeAfter ==
  ASSUME Weighed, NEW p \in V, NEW t \in V, SeenEdge(p, t),
         NEW T \in SUBSET V, p \notin T, NEW x \in V, NEW c \in Through(T, x, p)
  PROVE  c + w(p, t) \in Through(T \cup {p}, x, t)
<1> DEFINE G == { S \in SUBSET V : p \notin S => \A y \in V : \A l \in Through(S, y, p) :
                     l + w(p, t) \in Through(S \cup {p}, y, t) }
<1>0. IsFiniteSet(V) /\ w(p, t) \in Int
  BY WeighedFacts
<1>1. ASSUME NEW S \in SUBSET V, \A y \in S : S \ {y} \in G PROVE S \in G
  <2> SUFFICES ASSUME p \notin S, NEW y \in V, NEW l \in Through(S, y, p)
               PROVE  l + w(p, t) \in Through(S \cup {p}, y, t)
    OBVIOUS
  <2>0. S \cup {p} \in SUBSET V /\ (S \cup {p}) \ {p} = S /\ p \in S \cup {p}
    OBVIOUS
  <2>1. CASE SeenEdge(y, p) /\ l = w(y, p)
    <3>1. w(p, t) \in Through((S \cup {p}) \ {p}, p, t)
      BY <2>0, ThroughLaw
    <3> QED BY <2>0, <2>1, <3>1, ThroughLaw
  <2>2. CASE \E z \in S : SeenEdge(y, z) /\ \E a \in Through(S \ {z}, z, p) : l = w(y, z) + a
    <3>1. PICK z \in S : SeenEdge(y, z) /\ \E a \in Through(S \ {z}, z, p) : l = w(y, z) + a
      BY <2>2
    <3>2. PICK a \in Through(S \ {z}, z, p) : l = w(y, z) + a
      BY <3>1
    <3>3. /\ z \in V /\ z \in S \cup {p} /\ S \ {z} \in G /\ p \notin S \ {z} /\ S \ {z} \in SUBSET V
          /\ (S \ {z}) \cup {p} = (S \cup {p}) \ {z}
      BY <1>1
    <3>4. a + w(p, t) \in Through((S \cup {p}) \ {z}, z, t)
      BY <3>3
    <3>5. w(y, z) + (a + w(p, t)) \in Through(S \cup {p}, y, t)
      BY <2>0, <3>1, <3>3, <3>4, ThroughLaw
    <3>6. a \in Int /\ w(y, z) \in Int
      <4>1. Through(S \ {z}, z, p) \in SUBSET Int
        BY <3>3, ThroughLaw
      <4> QED BY <3>3, <4>1, WeighedFacts
    <3>7. l + w(p, t) = w(y, z) + (a + w(p, t))
      BY <1>0, <3>2, <3>6
    <3> QED BY <3>5, <3>7
  <2>3. \/ SeenEdge(y, p) /\ l = w(y, p)
        \/ \E z \in S : SeenEdge(y, z) /\ \E a \in Through(S \ {z}, z, p) : l = w(y, z) + a
    <3>1. \A a \in Through(S, y, p) :
            \/ SeenEdge(y, p) /\ a = w(y, p)
            \/ \E z \in S : SeenEdge(y, z) /\ \E b \in Through(S \ {z}, z, p) : a = w(y, z) + b
      BY ThroughLaw
    <3> QED BY <3>1
  <2> QED BY <2>1, <2>2, <2>3
<1>2. T \in G
  <2> HIDE DEF G
  <2> QED BY <1>0, <1>1, SetInduction
<1> QED BY <1>2

(* So the same lengths lead back,                                          *)
LEMMA ThroughBack ==
  ASSUME Weighed, ~CheckDirected(graph), NEW t \in V, NEW T \in SUBSET V, NEW x \in V
  PROVE  Through(T, x, t) \subseteq Through(T, t, x)
<1> DEFINE G == { S \in SUBSET V : \A y \in V : \A l \in Through(S, y, t) : l \in Through(S, t, y) }
<1>0. IsFiniteSet(V)
  BY WeighedFacts
<1>00. \A y, z \in V : w(y, z) = w(z, y) /\ (SeenEdge(y, z) <=> SeenEdge(z, y))
  BY DEF CheckDirected, V, w, SeenEdge, is_edge
<1>1. ASSUME NEW S \in SUBSET V, \A y \in S : S \ {y} \in G PROVE S \in G
  <2> SUFFICES ASSUME NEW y \in V, NEW l \in Through(S, y, t)
               PROVE  l \in Through(S, t, y)
    OBVIOUS
  <2>1. CASE SeenEdge(y, t) /\ l = w(y, t)
    <3>1. SeenEdge(t, y) /\ l = w(t, y)
      BY <1>00, <2>1
    <3> QED BY <3>1, ThroughLaw
  <2>2. CASE \E z \in S : SeenEdge(y, z) /\ \E a \in Through(S \ {z}, z, t) : l = w(y, z) + a
    <3>1. PICK z \in S : SeenEdge(y, z) /\ \E a \in Through(S \ {z}, z, t) : l = w(y, z) + a
      BY <2>2
    <3>2. PICK a \in Through(S \ {z}, z, t) : l = w(y, z) + a
      BY <3>1
    <3>3. z \in V /\ S \ {z} \in G /\ z \notin S \ {z} /\ S \ {z} \in SUBSET V /\ (S \ {z}) \cup {z} = S
      BY <1>1
    <3>4. a \in Through(S \ {z}, t, z)
      BY <3>3
    <3>5. SeenEdge(z, y) /\ w(z, y) = w(y, z)
      BY <1>00, <3>1, <3>3
    <3>6. a + w(z, y) \in Through((S \ {z}) \cup {z}, t, y)
      BY <3>3, <3>4, <3>5, EdgeAfter
    <3>7. a \in Int /\ w(y, z) \in Int
      <4>1. Through(S \ {z}, z, t) \in SUBSET Int
        BY <3>3, ThroughLaw
      <4> QED BY <3>3, <4>1, WeighedFacts
    <3>8. l = a + w(z, y)
      BY <3>2, <3>5, <3>7
    <3> QED BY <3>3, <3>6, <3>8
  <2>3. \/ SeenEdge(y, t) /\ l = w(y, t)
        \/ \E z \in S : SeenEdge(y, z) /\ \E a \in Through(S \ {z}, z, t) : l = w(y, z) + a
    BY ThroughLaw
  <2> QED BY <2>1, <2>2, <2>3
<1>2. T \in G
  <2> HIDE DEF G
  <2> QED BY <1>0, <1>1, SetInduction
<1> QED BY <1>2

(* and the shortest way is as long in both directions.                     *)
LEMMA ShortestBack ==
  ASSUME Weighed, ~CheckDirected(graph), NEW S \in SUBSET V, NEW x \in V, NEW t \in V
  PROVE  /\ Lengths(S, x, t) = Lengths(S, t, x)
         /\ Shortest(S, x, t) = Shortest(S, t, x)
<1>1. Lengths(S, x, t) = Lengths(S, t, x)
  <2>1. S \ {x, t} \in SUBSET V /\ S \ {x, t} = S \ {t, x}
    OBVIOUS
  <2>2. Through(S \ {x, t}, x, t) = Through(S \ {t, x}, t, x)
    BY <2>1, ThroughBack
  <2> QED BY <2>2, LengthsThrough
<1>2. Home(x, t) <=> Home(t, x)
  BY DEF Home
<1>3. IsShortest(Shortest(S, x, t), S, x, t)
  BY ShortestLaw
<1>4. IsShortest(Shortest(S, x, t), S, t, x)
  BY <1>1, <1>2, <1>3, Zenon DEF IsShortest
<1> QED BY <1>1, <1>4, ShortestLaw

-----------------------------------------------------------------------------
(* Sums that the pass for z forms are ints.                                *)
SumsFit(S, z) ==
  \A x, t \in V : Shortest(S, x, z) # INT_MAX /\ Shortest(S, z, t) # INT_MAX =>
                    Shortest(S, x, z) + Shortest(S, z, t) <= INT_MAX

(* A pass whose sums are ints leaves no path that counts as none: on an    *)
(* undirected graph a way out and back would have been a sum, on a digraph *)
(* it is assumed.                                                          *)
LEMMA AttainedStep ==
  ASSUME Sane, CheckDirected(graph) => Counted, NEW S \in SUBSET V, Attained(S),
         NEW z \in V, z \notin S, SumsFit(S, z)
  PROVE  Attained(S \cup {z})
<1> DEFINE R == S \cup {z}
<1> SUFFICES ASSUME NEW x \in V, NEW t \in V, Lengths(R, x, t) # {}
             PROVE  Shortest(R, x, t) < INT_MAX
  BY DEF Attained
<1> DEFINE p == Shortest(S, x, z)
           q == Shortest(S, z, t)
           o == Shortest(S, x, t)
           d == Shortest(R, x, t)
<1>0. R \in SUBSET V /\ Weighed /\ INT_MAX \in Int
  BY IntAssumption DEF Sane
<1>1. /\ d = Relaxed(p, q, o)
      /\ p \in Int /\ p <= INT_MAX /\ q \in Int /\ q <= INT_MAX /\ o \in Int /\ o <= INT_MAX
      /\ d \in Int /\ d <= INT_MAX
  BY <1>0, PassLaw, ShortestFacts
<1>2. /\ Lengths(S, x, z) # {} => p < INT_MAX
      /\ Lengths(S, z, t) # {} => q < INT_MAX
      /\ Lengths(S, x, t) # {} => o < INT_MAX
  BY DEF Attained
<1>3. p # INT_MAX /\ q # INT_MAX => p + q <= INT_MAX
  BY DEF SumsFit
<1> SUFFICES d < INT_MAX
  OBVIOUS
<1>4. CASE Lengths(S, x, t) # {}
  <2> HIDE DEF p, q, o, d
  <2> QED BY <1>0, <1>1, <1>2, <1>4 DEF Relaxed, Better
<1>5. CASE Lengths(S, x, t) = {}
  <2>1. PICK c \in Lengths(R, x, t) : TRUE
    OBVIOUS
  <2>2. \E a \in Lengths(S, x, z) : \E b \in Lengths(S, z, t) : c = a + b
    <3>1. \/ c \in Lengths(S, x, t)
          \/ \E a \in Lengths(S, x, z) : \E b \in Lengths(S, z, t) : c = a + b
      BY Parted
    <3> QED BY <1>5, <3>1
  <2>3. p < INT_MAX /\ q < INT_MAX
    BY <1>2, <2>2
  <2>4. SUFFICES ASSUME p + q = INT_MAX PROVE d < INT_MAX
    <3> HIDE DEF p, q, o, d
    <3> QED BY <1>0, <1>1, <1>3, <2>3 DEF Relaxed, Better
  <2>5. CASE ~CheckDirected(graph)
    <3>1. Shortest(S, z, x) = p /\ Shortest(S, t, z) = q
      BY <1>0, <2>5, ShortestBack
    <3>2. p + p <= INT_MAX /\ q + q <= INT_MAX
      BY <1>0, <1>1, <2>3, <3>1 DEF SumsFit
    <3>3. PICK h \in 0..INT_MAX : INT_MAX = 2 * h + 1
      BY IntAssumption
    <3> HIDE DEF p, q
    <3>4. h \in Int /\ p <= h /\ q <= h
      BY <1>0, <1>1, <3>2, <3>3
    <3> QED BY <1>1, <2>4, <3>3, <3>4
  <2>6. CASE CheckDirected(graph)
    <3>1. Counted
      BY <2>6
    <3>2. p \in Lengths(S, x, z) \/ (p = 0 /\ Home(x, z))
      BY <1>0, <2>3, ShortestFacts
    <3>3. q \in Lengths(S, z, t) \/ (q = 0 /\ Home(z, t))
      BY <1>0, <2>3, ShortestFacts
    <3>4. p \in Lengths(S, x, z) /\ q \in Lengths(S, z, t)
      <4> HIDE DEF p, q
      <4>1. p # 0 /\ q # 0
        BY <1>0, <1>1, <2>3, <2>4
      <4> QED BY <3>2, <3>3, <4>1
    <3>5. PICK l \in Lengths(R, x, t) : l <= p + q
      BY <3>4, Joined
    <3>6. l \in Int /\ d <= l
      BY <1>0, ShortestFacts
    <3>7. l \in Lengths(V, x, t)
      <4>1. Lengths(R, x, t) \subseteq Lengths(V, x, t)
        BY <1>0, LengthsMore
      <4> QED BY <4>1
    <3>8. l # INT_MAX
      BY <3>1, <3>7 DEF Counted
    <3>9. d < INT_MAX
      <4> HIDE DEF p, q, o, d
      <4> QED BY <1>0, <1>1, <2>4, <3>5, <3>6, <3>8
    <3> QED BY <3>9
  <2> QED BY <2>5, <2>6
<1> QED BY <1>4, <1>5

(* Lengths, of any graph m.                                                *)
LengthsIn(m, S, x, t) ==
  LET L[T \in SUBSET Vertices(m)] ==
        [a \in Vertices(m) |->
           (IF is_edge(m, a, t) /\ weight(m, a, t) # INT_MAX THEN {weight(m, a, t)} ELSE {})
           \cup UNION { { weight(m, a, b) + l : l \in L[T \ {b}][b] } :
                          b \in { z \in T : is_edge(m, a, z) /\ weight(m, a, z) # INT_MAX } }]
  IN  L[S \ {x, t}][x]

(* What the graph alone determines does not change.                        *)
LEMMA GraphSame ==
  ASSUME graph' = graph
  PROVE  /\ V' = V /\ n' = n /\ Weighed' = Weighed
         /\ \A S, x, t : Lengths(S, x, t)' = Lengths(S, x, t)
         /\ \A S, x, t : Shortest(S, x, t)' = Shortest(S, x, t)
         /\ NegativeCycle' = NegativeCycle /\ Counted' = Counted
         /\ CheckDirected(graph)' = CheckDirected(graph)
<1>1. V' = V /\ n' = n /\ Weighed' = Weighed /\ CheckDirected(graph)' = CheckDirected(graph)
  BY DEF V, n, Weighed, CheckDirected
<1>2. \A S, x, t : Lengths(S, x, t)' = Lengths(S, x, t)
  <2>1. \A S, x, t : Lengths(S, x, t) = LengthsIn(graph, S, x, t)
    BY Zenon DEF Lengths, LengthsIn, V, SeenEdge
  <2>2. \A S, x, t : Lengths(S, x, t)' = LengthsIn(graph', S, x, t)
    BY Zenon DEF Lengths, LengthsIn, V, SeenEdge
  <2> QED BY <2>1, <2>2
<1>3. \A S, x, t : Shortest(S, x, t)' = Shortest(S, x, t)
  BY <1>2 DEF Shortest
<1>4. NegativeCycle' = NegativeCycle /\ Counted' = Counted
  BY <1>1, <1>2 DEF NegativeCycle, Counted
<1> QED BY <1>1, <1>2, <1>3, <1>4

(* The instance of GraphAnalyzer reads the graph as this module does.      *)
LEMMA FourthReads ==
  /\ Fourth!V = V /\ Fourth!n = n /\ Fourth!NegativeCycle = NegativeCycle
  /\ \A S, x, t : Fourth!Lengths(S, x, t) = Lengths(S, x, t)
  /\ \A S, x, t : Fourth!Shortest(S, x, t) = Shortest(S, x, t)
<1>1. Fourth!V = V /\ Fourth!n = n
  BY DEF Fourth!V, Fourth!Vertices, V, Vertices, Fourth!n, n
<1>2. \A S, x, t : Fourth!Lengths(S, x, t) = Lengths(S, x, t)
  BY Zenon DEF Lengths, V, SeenEdge, weight, is_edge, Vertices, Fourth!Lengths, Fourth!V,
     Fourth!Vertices, Fourth!SeenEdge, Fourth!weight, Fourth!is_edge
<1>3. \A S, x, t : Fourth!Shortest(S, x, t) = Shortest(S, x, t)
  BY <1>2 DEF Shortest, Fourth!Shortest, Fourth!is_edge, is_edge, Fourth!weight, weight, Fourth!Least, Least
<1>4. Fourth!NegativeCycle = NegativeCycle
  BY <1>1, <1>2 DEF NegativeCycle, Fourth!NegativeCycle
<1> QED BY <1>1, <1>2, <1>3, <1>4

(* The graphs the distances are right for (see ShortestSoFar).             *)
Fair == Sane /\ (CheckDirected(graph) => Counted)

(* The cells the pass has been at when its loops stand at row a, column b; *)
(* a row it left early counts as a whole.                                  *)
Done(x, t, a, b) == x < a \/ (x = a /\ t < b)

(* The matrix D in the pass for c.                                         *)
Settled(D, a, b, c) ==
  /\ Attained(1..(c - 1))
  /\ \A x, t \in V : D[x][t] = Shortest(1..(IF Done(x, t, a, b) THEN c ELSE c - 1), x, t)
  /\ \A x, t \in V : /\ Done(x, t, a, b)
                     /\ Shortest(1..(c - 1), x, c) # INT_MAX
                     /\ Shortest(1..(c - 1), c, t) # INT_MAX
                     => Shortest(1..(c - 1), x, c) + Shortest(1..(c - 1), c, t) <= INT_MAX

(* What settles the matrix depends on the graph and the loops only.        *)
LEMMA SettledSame ==
  ASSUME graph' = graph
  PROVE  Settled(dist, i, j, k)' <=> Settled(dist', i', j', k')
<1>1. \A S : Attained(S)' <=> Attained(S)
  BY GraphSame DEF Attained
<1>2. V' = V /\ \A S, x, t : Shortest(S, x, t)' = Shortest(S, x, t)
  BY GraphSame
<1> QED BY <1>1, <1>2 DEF Settled, Done

(* The row and the column a pass reads are not changed by it.              *)
LEMMA RowAndColumn ==
  ASSUME Sane, NEW c \in V, Attained(1..(c - 1)), NEW x \in V
  PROVE  /\ 1..c = (1..(c - 1)) \cup {c} /\ c \notin 1..(c - 1)
         /\ 1..(c - 1) \in SUBSET V /\ 1..c \in SUBSET V
         /\ Shortest(1..c, x, c) = Shortest(1..(c - 1), x, c)
         /\ Shortest(1..c, c, x) = Shortest(1..(c - 1), c, x)
<1> DEFINE S == 1..(c - 1)
<1>0. n \in Nat /\ V = 1..n /\ Weighed
  BY WeighedFacts DEF Sane
<1>1. 1..c = S \cup {c} /\ c \notin S /\ S \in SUBSET V /\ 1..c \in SUBSET V
  <2>1. c \in Nat /\ 1 <= c /\ c <= n
    BY <1>0
  <2> QED BY <1>0, <2>1
<1> HIDE DEF S
<1>2. /\ Shortest(S \cup {c}, x, c) = Relaxed(Shortest(S, x, c), Shortest(S, c, c), Shortest(S, x, c))
      /\ Shortest(S \cup {c}, c, x) = Relaxed(Shortest(S, c, c), Shortest(S, c, x), Shortest(S, c, x))
  BY <1>1, PassLaw DEF S
<1>3. Shortest(S, c, c) >= 0
  BY <1>1, NotBelowZero
<1>4. Shortest(S, c, c) \in Int /\ Shortest(S, x, c) \in Int /\ Shortest(S, c, x) \in Int
  BY <1>0, <1>1, ShortestFacts
<1>5. /\ Relaxed(Shortest(S, x, c), Shortest(S, c, c), Shortest(S, x, c)) = Shortest(S, x, c)
      /\ Relaxed(Shortest(S, c, c), Shortest(S, c, x), Shortest(S, c, x)) = Shortest(S, c, x)
  BY <1>3, <1>4 DEF Relaxed, Better
<1> QED BY <1>1, <1>2, <1>5 DEF S

(* What an iteration reads, and what it should write.                      *)
LEMMA CellLaw ==
  ASSUME Sane, NEW D, NEW a \in V, NEW b \in V, NEW c \in V, Settled(D, a, b, c), NEW t \in V
  PROVE  /\ D[a][c] = Shortest(1..(c - 1), a, c)
         /\ D[c][t] = Shortest(1..(c - 1), c, t)
         /\ t >= b => D[a][t] = Shortest(1..(c - 1), a, t)
         /\ t >= b => Shortest(1..c, a, t) = Relaxed(D[a][c], D[c][t], D[a][t])
<1>0. V \subseteq Nat /\ \A x, y \in V : D[x][y] = Shortest(1..(IF Done(x, y, a, b) THEN c ELSE c - 1), x, y)
  BY WeighedFacts DEF Sane, Settled
<1>1. /\ 1..c = (1..(c - 1)) \cup {c} /\ c \notin 1..(c - 1)
      /\ 1..(c - 1) \in SUBSET V /\ Attained(1..(c - 1))
      /\ Shortest(1..c, a, c) = Shortest(1..(c - 1), a, c)
      /\ Shortest(1..c, c, t) = Shortest(1..(c - 1), c, t)
  BY RowAndColumn DEF Settled
<1>2. D[a][c] = Shortest(1..(c - 1), a, c) /\ D[c][t] = Shortest(1..(c - 1), c, t)
  BY <1>0, <1>1
<1>3. ASSUME t >= b PROVE D[a][t] = Shortest(1..(c - 1), a, t)
  <2>1. ~Done(a, t, a, b)
    <3>1. a \in Nat /\ b \in Nat /\ t \in Nat
      BY <1>0
    <3> QED BY <1>3, <3>1 DEF Done
  <2> QED BY <1>0, <2>1
<1>4. Shortest((1..(c - 1)) \cup {c}, a, t)
        = Relaxed(Shortest(1..(c - 1), a, c), Shortest(1..(c - 1), c, t), Shortest(1..(c - 1), a, t))
  BY <1>1, PassLaw
<1> QED BY <1>1, <1>2, <1>3, <1>4

-----------------------------------------------------------------------------
(* The types of the loops' variables, and where they may stand.            *)
Shaped ==
  /\ dist \in [V -> [V -> Ints]]
  /\ k \in 1..(n + 1)
  /\ IF k <= n THEN i \in V /\ j \in V ELSE i = 1 /\ j = 1

(* Where an iteration leaves the loops.                                    *)
LEMMA RelaxCases ==
  ASSUME Weighed, Shaped, Relax
  PROVE  /\ k \in V /\ i \in V /\ j \in V
         /\ dist' \in [V -> [V -> Ints]]
         /\ \A x, t \in V :
              dist'[x][t] = IF x = i /\ t = j THEN Relaxed(dist[i][k], dist[k][j], dist[i][j])
                                              ELSE dist[x][t]
         /\ dist[i][k] # INT_MAX /\ dist[k][j] # INT_MAX => dist[i][k] + dist[k][j] <= INT_MAX
         /\ \/ dist[i][k] # INT_MAX /\ j < n /\ j' = j + 1 /\ k' = k /\ i' = i
            \/ (dist[i][k] = INT_MAX \/ j = n) /\ j' = 1 /\ i < n /\ i' = i + 1 /\ k' = k
            \/ (dist[i][k] = INT_MAX \/ j = n) /\ j' = 1 /\ i = n /\ i' = 1 /\ k' = k + 1
<1>0. n \in Nat /\ V = 1..n /\ INT_MAX \in Nat
  BY WeighedFacts
<1>1. k \in V /\ i \in V /\ j \in V
  <2>1. k <= n /\ k \in 1..(n + 1)
    BY DEF Relax, Shaped
  <2>2. i \in V /\ j \in V
    BY <2>1 DEF Shaped
  <2> QED BY <1>0, <2>1, <2>2
<1>2. Connected => Sum \in Ints
  BY DEF Relax
<1>3. Improves <=> Better(dist[i][k], dist[k][j], dist[i][j])
  BY DEF Improves, Connected, Sum, Better
<1>4. dist' = IF Improves THEN [dist EXCEPT ![i][j] = Sum] ELSE dist
  BY DEF Relax
<1>5. dist' \in [V -> [V -> Ints]]
  <2>1. CASE Improves
    <3>1. Sum \in Ints
      BY <1>2, <2>1 DEF Improves
    <3> QED BY <1>1, <1>4, <2>1, <3>1 DEF Shaped
  <2>2. CASE ~Improves
    BY <1>4, <2>2 DEF Shaped
  <2> QED BY <2>1, <2>2
<1>6. ASSUME NEW x \in V, NEW t \in V
      PROVE  dist'[x][t] = IF x = i /\ t = j THEN Relaxed(dist[i][k], dist[k][j], dist[i][j])
                                             ELSE dist[x][t]
  <2>1. CASE Improves
    <3>1. dist' = [dist EXCEPT ![i][j] = Sum]
      BY <1>4, <2>1
    <3>2. dist'[x][t] = IF x = i /\ t = j THEN Sum ELSE dist[x][t]
      BY <1>1, <3>1 DEF Shaped
    <3>3. Relaxed(dist[i][k], dist[k][j], dist[i][j]) = Sum
      BY <1>3, <2>1 DEF Relaxed, Sum
    <3> QED BY <3>2, <3>3
  <2>2. CASE ~Improves
    <3>1. dist' = dist /\ Relaxed(dist[i][k], dist[k][j], dist[i][j]) = dist[i][j]
      BY <1>3, <1>4, <2>2 DEF Relaxed
    <3> QED BY <3>1
  <2> QED BY <2>1, <2>2
<1>7. dist[i][k] # INT_MAX /\ dist[k][j] # INT_MAX => dist[i][k] + dist[k][j] <= INT_MAX
  BY <1>0, <1>2 DEF Connected, Sum, Ints
<1>8. \/ dist[i][k] # INT_MAX /\ j < n /\ j' = j + 1 /\ k' = k /\ i' = i
      \/ (dist[i][k] = INT_MAX \/ j = n) /\ j' = 1 /\ i < n /\ i' = i + 1 /\ k' = k
      \/ (dist[i][k] = INT_MAX \/ j = n) /\ j' = 1 /\ i = n /\ i' = 1 /\ k' = k + 1
  <2>1. (j < n \/ j = n) /\ (i < n \/ i = n) /\ ~(j < n /\ j = n) /\ ~(i < n /\ i = n)
    BY <1>0, <1>1
  <2> QED BY <2>1 DEF Relax, NextRow
<1> QED BY <1>1, <1>5, <1>6, <1>7, <1>8

(* It keeps their types,                                                   *)
LEMMA RelaxShaped ==
  ASSUME Weighed, Shaped, Relax, graph' = graph
  PROVE  Shaped'
<1>0. n \in Nat /\ V = 1..n /\ V' = V /\ n' = n
  BY WeighedFacts, GraphSame
<1>1. k \in V /\ i \in V /\ j \in V /\ dist' \in [V -> [V -> Ints]]
  BY RelaxCases
<1>2. \/ j < n /\ j' = j + 1 /\ k' = k /\ i' = i
      \/ j' = 1 /\ i < n /\ i' = i + 1 /\ k' = k
      \/ j' = 1 /\ i = n /\ i' = 1 /\ k' = k + 1
  BY RelaxCases
<1>3. k' \in 1..(n + 1) /\ IF k' <= n THEN i' \in V /\ j' \in V ELSE i' = 1 /\ j' = 1
  BY <1>0, <1>1, <1>2
<1> QED BY <1>0, <1>1, <1>3 DEF Shaped

(* which the first matrix has; and it is settled.                          *)
LEMMA InitializeLaw ==
  ASSUME Weighed, NewLoops, Initialize, graph' = graph
  PROVE  Shaped' /\ Settled(dist, i, j, k)'
<1>0. n \in Nat /\ V = 1..n /\ V' = V /\ n' = n /\ 0 \in Ints /\ INT_MAX \in Ints
  <2>1. n \in Nat /\ V = 1..n /\ V' = V /\ n' = n /\ INT_MAX \in Nat
    BY WeighedFacts, GraphSame
  <2> QED BY <2>1 DEF Ints
<1>1. k' = 1 /\ i' = 1 /\ j' = 1
  BY DEF NewLoops, Initialize
<1>2. dist' = [x \in V |-> [y \in V |-> Initial(x, y)]]
  BY DEF Initialize
<1>3. \A x, y \in V : Initial(x, y) \in Ints
  BY <1>0, WeighedFacts DEF Initial, w
<1>4. dist' \in [V -> [V -> Ints]]
  BY <1>2, <1>3
<1>5. Shaped'
  <2>1. k' \in 1..(n' + 1) /\ (k' <= n' => i' \in V /\ j' \in V)
    BY <1>0, <1>1
  <2> QED BY <1>0, <1>1, <1>4, <2>1 DEF Shaped
<1>6. 1..(1 - 1) = {} /\ \A x, t \in V : ~Done(x, t, 1, 1)
  <2>1. 1..(1 - 1) = {}
    OBVIOUS
  <2> QED BY <1>0, <2>1 DEF Done
<1>7. Attained({}) /\ \A x, t \in V : dist'[x][t] = Shortest({}, x, t)
  BY <1>2, AttainedFirst, ShortestFirst
<1>8. Settled(dist', 1, 1, 1)
  BY <1>6, <1>7 DEF Settled
<1> QED BY <1>1, <1>5, <1>8, SettledSame

(* An iteration writes what the pass has to write there; where it leaves   *)
(* the row early, there is nothing to write.                               *)
LEMMA RelaxSettled ==
  ASSUME Fair, Shaped, Relax, graph' = graph, Settled(dist, i, j, k)
  PROVE  Settled(dist, i, j, k)'
<1> DEFINE D == dist'
           before == 1..(k - 1)
           after == 1..k
           At(x, t) == x < i \/ (x = i /\ (t < j \/ t = j \/ dist[i][k] = INT_MAX))
           SumFits(x, t) == Shortest(before, x, k) # INT_MAX /\ Shortest(before, k, t) # INT_MAX =>
                           Shortest(before, x, k) + Shortest(before, k, t) <= INT_MAX
<1>0. n \in Nat /\ V = 1..n /\ Weighed /\ Sane
  BY WeighedFacts DEF Fair, Sane
<1>1. k \in V /\ i \in V /\ j \in V
  BY <1>0, RelaxCases
<1>2. \A x, t \in V :
        D[x][t] = IF x = i /\ t = j THEN Relaxed(dist[i][k], dist[k][j], dist[i][j]) ELSE dist[x][t]
  BY <1>0, RelaxCases
<1>3. dist[i][k] # INT_MAX /\ dist[k][j] # INT_MAX => dist[i][k] + dist[k][j] <= INT_MAX
  BY <1>0, RelaxCases
<1>4. /\ Attained(before)
      /\ \A x, t \in V : dist[x][t] = Shortest(1..(IF Done(x, t, i, j) THEN k ELSE k - 1), x, t)
      /\ \A x, t \in V : Done(x, t, i, j) => SumFits(x, t)
  BY DEF Settled
<1>5. ASSUME NEW t \in V
      PROVE  /\ dist[i][k] = Shortest(before, i, k)
             /\ dist[k][t] = Shortest(before, k, t)
             /\ t >= j => dist[i][t] = Shortest(before, i, t)
             /\ t >= j => Shortest(after, i, t) = Relaxed(dist[i][k], dist[k][t], dist[i][t])
  BY <1>0, <1>1, CellLaw
<1>6. \A x, t \in V : Done(x, t, i, j) <=> x < i \/ (x = i /\ t < j)
  BY DEF Done
<1> HIDE DEF before, after, D
<1>7. ASSUME NEW x \in V, NEW t \in V, At(x, t) PROVE D[x][t] = Shortest(after, x, t) /\ SumFits(x, t)
  <2>1. CASE Done(x, t, i, j)
    <3>1. ~(x = i /\ t = j)
      BY <1>0, <1>1, <1>6, <2>1
    <3> QED BY <1>2, <1>4, <2>1, <3>1 DEF after
  <2>2. CASE ~Done(x, t, i, j)
    <3>1. x = i /\ t >= j /\ (t = j \/ dist[i][k] = INT_MAX)
      BY <1>0, <1>1, <1>6, <1>7, <2>2
    <3>2. CASE t = j
      BY <1>2, <1>3, <1>5, <3>1, <3>2
    <3>3. CASE t # j /\ dist[i][k] = INT_MAX
      <4>1. D[x][t] = dist[i][t]
        BY <1>2, <3>1, <3>3
      <4>2. Relaxed(dist[i][k], dist[k][t], dist[i][t]) = dist[i][t]
        BY <3>3 DEF Relaxed, Better
      <4>3. Shortest(after, i, t) = Relaxed(dist[i][k], dist[k][t], dist[i][t])
        BY <1>5, <3>1
      <4>4. Shortest(before, x, k) = INT_MAX
        BY <1>5, <3>1, <3>3
      <4> QED BY <3>1, <4>1, <4>2, <4>3, <4>4
    <3> QED BY <3>1, <3>2, <3>3
  <2> QED BY <2>1, <2>2
<1>8. ASSUME NEW x \in V, NEW t \in V, ~Done(x, t, i, j), ~(x = i /\ t = j)
      PROVE  D[x][t] = Shortest(before, x, t)
  BY <1>2, <1>4, <1>8 DEF before
<1> HIDE DEF SumFits, At
<1>9. SUFFICES Settled(dist', i', j', k')
  BY SettledSame
<1>10. CASE dist[i][k] # INT_MAX /\ j < n /\ j' = j + 1 /\ k' = k /\ i' = i
  <2>1. ASSUME NEW x \in V, NEW t \in V
        PROVE  /\ Done(x, t, i, j + 1) => At(x, t)
               /\ ~Done(x, t, i, j + 1) => ~Done(x, t, i, j) /\ ~(x = i /\ t = j)
    <3>1. x \in Int /\ t \in Int /\ i \in Int /\ j \in Int
      BY <1>0, <1>1
    <3> QED BY <3>1 DEF Done, At
  <2>2. \A x, t \in V : D[x][t] = Shortest(1..(IF Done(x, t, i, j + 1) THEN k ELSE k - 1), x, t)
    BY <1>7, <1>8, <2>1 DEF before, after
  <2>3. \A x, t \in V : Done(x, t, i, j + 1) => SumFits(x, t)
    BY <1>7, <2>1
  <2>4. Settled(D, i, j + 1, k)
    BY <1>4, <2>2, <2>3 DEF Settled, SumFits, before
  <2> QED BY <1>10, <2>4 DEF D
<1>11. CASE (dist[i][k] = INT_MAX \/ j = n) /\ j' = 1 /\ i < n /\ i' = i + 1 /\ k' = k
  <2>1. ASSUME NEW x \in V, NEW t \in V
        PROVE  /\ Done(x, t, i + 1, 1) => At(x, t)
               /\ ~Done(x, t, i + 1, 1) => ~Done(x, t, i, j) /\ ~(x = i /\ t = j)
    <3>1. x \in Int /\ t \in Int /\ i \in Int /\ j \in Int /\ t >= 1 /\ t <= n /\ n \in Int
      BY <1>0, <1>1
    <3>2. Done(x, t, i + 1, 1) <=> x <= i
      BY <3>1 DEF Done
    <3>3. x = i => t < j \/ t = j \/ dist[i][k] = INT_MAX
      BY <1>11, <3>1
    <3> QED BY <3>1, <3>2, <3>3 DEF At, Done
  <2>2. \A x, t \in V : D[x][t] = Shortest(1..(IF Done(x, t, i + 1, 1) THEN k ELSE k - 1), x, t)
    BY <1>7, <1>8, <2>1 DEF before, after
  <2>3. \A x, t \in V : Done(x, t, i + 1, 1) => SumFits(x, t)
    BY <1>7, <2>1
  <2>4. Settled(D, i + 1, 1, k)
    BY <1>4, <2>2, <2>3 DEF Settled, SumFits, before
  <2> QED BY <1>11, <2>4 DEF D
<1>12. CASE (dist[i][k] = INT_MAX \/ j = n) /\ j' = 1 /\ i = n /\ i' = 1 /\ k' = k + 1
  <2>1. ASSUME NEW x \in V, NEW t \in V
        PROVE  At(x, t) /\ ~Done(x, t, 1, 1)
    <3>1. x \in Int /\ t \in Int /\ i \in Int /\ j \in Int /\ t >= 1 /\ t <= n /\ n \in Int
          /\ x >= 1 /\ x <= n
      BY <1>0, <1>1
    <3>2. x = i => t < j \/ t = j \/ dist[i][k] = INT_MAX
      BY <1>12, <3>1
    <3>3. x < i \/ x = i
      BY <1>12, <3>1
    <3> QED BY <3>1, <3>2, <3>3 DEF At, Done
  <2>2. (k + 1) - 1 = k
    BY <1>0, <1>1
  <2>3. SumsFit(before, k)
    BY <1>7, <2>1 DEF SumsFit, SumFits
  <2>4. Attained(before \cup {k})
    <3>1. k \notin before /\ before \in SUBSET V
      BY <1>0, <1>1, <1>4, RowAndColumn DEF before
    <3> QED BY <1>0, <1>1, <1>4, <2>3, <3>1, AttainedStep DEF Fair
  <2>5. Attained(after)
    <3>1. after = before \cup {k}
      BY <1>0, <1>1, <1>4, RowAndColumn DEF before, after
    <3> QED BY <2>4, <3>1
  <2>6. \A x, t \in V : D[x][t] = Shortest(after, x, t)
    BY <1>7, <2>1
  <2>7. Settled(D, 1, 1, k + 1)
    BY <2>1, <2>2, <2>5, <2>6 DEF Settled, after
  <2> QED BY <1>12, <2>7 DEF D
<1>13. \/ dist[i][k] # INT_MAX /\ j < n /\ j' = j + 1 /\ k' = k /\ i' = i
       \/ (dist[i][k] = INT_MAX \/ j = n) /\ j' = 1 /\ i < n /\ i' = i + 1 /\ k' = k
       \/ (dist[i][k] = INT_MAX \/ j = n) /\ j' = 1 /\ i = n /\ i' = 1 /\ k' = k + 1
  BY <1>0, RelaxCases
<1> QED BY <1>10, <1>11, <1>12, <1>13

-----------------------------------------------------------------------------
(* The loops as the programs run them.                                     *)

(* No matrix has been set up.                                              *)
Fresh == pc = "start" \/ (program = "fourth" /\ pc = "error")

Loops ==
  /\ program \in {"fourth", "tenth", "sixth"}
  /\ program # "sixth" =>
       /\ graph \in Inputs[program]
       /\ Fresh => NewLoops
       /\ ~Fresh => Shaped /\ (Fair => Settled(dist, i, j, k))

(* The graph of a program that runs the loops is one of its inputs.        *)
LEMMA LoopsWeighed ==
  ASSUME Loops, program # "sixth"
  PROVE  Weighed
BY InputsAssumption DEF Loops, Weighed

(* The instances of AllPairs inside GraphAnalyzer act as this module does; *)
LEMMA FourthActs ==
  /\ Fourth!NewLoops <=> NewLoops
  /\ Fourth!Initialize <=> Initialize
  /\ Fourth!Relax <=> Relax
  /\ Fourth!Overflow => UNCHANGED loops
  /\ Fourth!loops = loops
<1>1. Fourth!NewLoops <=> NewLoops
  BY DEF Fourth!NewLoops, NewLoops
<1>2. Fourth!V = V /\ Fourth!n = n
  BY FourthReads
<1>3. \A x, y : Fourth!Initial(x, y) = Initial(x, y)
  BY DEF Fourth!Initial, Initial, Fourth!is_edge, is_edge, Fourth!weight, weight
<1>4. Fourth!Initialize <=> Initialize
  BY <1>2, <1>3 DEF Fourth!Initialize, Initialize
<1>5. Fourth!Improves = Improves /\ Fourth!Connected = Connected /\ Fourth!Sum = Sum /\ Fourth!Ints = Ints
  BY DEF Fourth!Improves, Improves, Fourth!Connected, Connected, Fourth!Sum, Sum, Fourth!Ints, Ints
<1>6. Fourth!NextRow <=> NextRow
  BY <1>2 DEF Fourth!NextRow, NextRow
<1>7. Fourth!Relax <=> Relax
  BY <1>2, <1>5, <1>6 DEF Fourth!Relax, Relax
<1>8. Fourth!Overflow => UNCHANGED loops
  BY DEF Fourth!Overflow, Fourth!loops, loops
<1>9. Fourth!loops = loops
  BY DEF Fourth!loops, loops
<1> QED BY <1>1, <1>4, <1>7, <1>8, <1>9

(* and so does what FloydWarshallAnalyzer reads                            *)
LEMMA TenthReads ==
  /\ Tenth!V = V /\ Tenth!n = n /\ Tenth!NegativeCycle = NegativeCycle
  /\ \A S, x, t : Tenth!Lengths(S, x, t) = Lengths(S, x, t)
  /\ \A S, x, t : Tenth!Shortest(S, x, t) = Shortest(S, x, t)
  /\ Tenth!Counted = Counted
<1>1. Tenth!V = V /\ Tenth!n = n
  BY DEF Tenth!V, Tenth!Vertices, V, Vertices, Tenth!n, n
<1>2. \A S, x, t : Tenth!Lengths(S, x, t) = Lengths(S, x, t)
  BY Zenon DEF Lengths, V, SeenEdge, weight, is_edge, Vertices, Tenth!Lengths, Tenth!V,
     Tenth!Vertices, Tenth!SeenEdge, Tenth!weight, Tenth!is_edge
<1>3. \A S, x, t : Tenth!Shortest(S, x, t) = Shortest(S, x, t)
  BY <1>2 DEF Shortest, Tenth!Shortest, Tenth!is_edge, is_edge, Tenth!weight, weight, Tenth!Least, Least
<1>4. Tenth!NegativeCycle = NegativeCycle
  BY <1>1, <1>2 DEF NegativeCycle, Tenth!NegativeCycle
<1>5. Tenth!Counted = Counted
  BY <1>1, <1>2 DEF Counted, Tenth!Counted
<1> QED BY <1>1, <1>2, <1>3, <1>4, <1>5

(* and does.                                                               *)
LEMMA TenthActs ==
  /\ Tenth!NewLoops <=> NewLoops
  /\ Tenth!Initialize <=> Initialize
  /\ Tenth!Relax <=> Relax
  /\ Tenth!Improves <=> Improves
  /\ Tenth!Overflow => UNCHANGED loops
  /\ Tenth!loops = loops
<1>1. Tenth!NewLoops <=> NewLoops
  BY DEF Tenth!NewLoops, NewLoops
<1>2. Tenth!V = V /\ Tenth!n = n
  BY TenthReads
<1>3. \A x, y : Tenth!Initial(x, y) = Initial(x, y)
  BY DEF Tenth!Initial, Initial, Tenth!is_edge, is_edge, Tenth!weight, weight
<1>4. Tenth!Initialize <=> Initialize
  BY <1>2, <1>3 DEF Tenth!Initialize, Initialize
<1>5. Tenth!Improves = Improves /\ Tenth!Connected = Connected /\ Tenth!Sum = Sum /\ Tenth!Ints = Ints
  BY DEF Tenth!Improves, Improves, Tenth!Connected, Connected, Tenth!Sum, Sum, Tenth!Ints, Ints
<1>6. Tenth!NextRow <=> NextRow
  BY <1>2 DEF Tenth!NextRow, NextRow
<1>7. Tenth!Relax <=> Relax
  BY <1>2, <1>5, <1>6 DEF Tenth!Relax, Relax
<1>8. Tenth!Overflow => UNCHANGED loops
  BY DEF Tenth!Overflow, Tenth!loops, loops
<1>9. Tenth!loops = loops
  BY DEF Tenth!loops, loops
<1> QED BY <1>1, <1>4, <1>5, <1>7, <1>8, <1>9

(* What a step does to the loops, whatever else it does.                   *)
LEMMA LoopSteps ==
  ASSUME [PathsNext \/ Terminated]_PathsVars
  PROVE  /\ program' = program /\ graph' = graph
         /\ \/ UNCHANGED loops /\ Fresh' = Fresh
            \/ pc = "start" /\ program # "sixth" /\ Initialize /\ pc' = "relax"
            \/ pc = "relax" /\ program # "sixth" /\ Relax /\ pc' = "relax"
<1> USE FourthActs, TenthActs
<1>1. CASE UNCHANGED PathsVars
  BY <1>1 DEF PathsVars, Fresh
<1>2. CASE Terminated
  BY <1>2 DEF Terminated, PathsVars, Fresh
<1>3. CASE program' = program /\ program = "sixth" /\ UNCHANGED <<graph, pc, loops>>
  BY <1>3 DEF Fresh
<1>4. CASE program' = program /\ program = "fourth" /\ Fourth!Next
  <2>1. CASE Fourth!Refuse
    BY <1>4, <2>1 DEF Fourth!Refuse, Fresh, Fourth!loops, loops
  <2>2. CASE Fourth!Construct
    BY <1>4, <2>2 DEF Fourth!Construct
  <2>3. CASE Fourth!RelaxCell
    BY <1>4, <2>3 DEF Fourth!RelaxCell
  <2>4. CASE Fourth!OverflowCell
    BY <1>4, <2>4 DEF Fourth!OverflowCell, Fresh
  <2>5. CASE Fourth!Analyze
    BY <1>4, <2>5 DEF Fourth!Analyze, Fresh, Fourth!loops, loops
  <2> QED BY <1>4, <2>1, <2>2, <2>3, <2>4, <2>5 DEF Fourth!Next
<1>5. CASE program' = program /\ program = "tenth" /\ Tenth!Next
  <2>1. CASE Tenth!Construct
    BY <1>5, <2>1 DEF Tenth!Construct
  <2>2. CASE Tenth!RelaxCell
    BY <1>5, <2>2 DEF Tenth!RelaxCell
  <2>3. CASE Tenth!OverflowCell
    BY <1>5, <2>3 DEF Tenth!OverflowCell, Fresh
  <2>4. ASSUME NEW a, NEW b, Tenth!Reconstruct(a, b)
        PROVE  graph' = graph /\ UNCHANGED loops /\ Fresh' = Fresh
    BY <1>5, <2>4 DEF Tenth!Reconstruct, Fresh, Tenth!loops, loops
  <2>5. CASE Tenth!Walk
    BY <1>5, <2>5 DEF Tenth!Walk, Fresh, Tenth!loops, loops
  <2>6. CASE Tenth!WalkEnd
    BY <1>5, <2>6 DEF Tenth!WalkEnd, Fresh, Tenth!loops, loops
  <2>7. CASE Tenth!Component
    BY <1>5, <2>7 DEF Tenth!Component, Fresh, Tenth!loops, loops
  <2>8. CASE Tenth!Describe
    BY <1>5, <2>8 DEF Tenth!Describe, Fresh, Tenth!loops, loops
  <2>9. CASE Tenth!Finish
    BY <1>5, <2>9 DEF Tenth!Finish, Fresh, Tenth!loops, loops
  <2> QED BY <1>5, <2>1, <2>2, <2>3, <2>4, <2>5, <2>6, <2>7, <2>8, <2>9 DEF Tenth!Next
<1>6. PathsNext => \/ program' = program /\ program = "fourth" /\ Fourth!Next
                   \/ program' = program /\ program = "tenth" /\ Tenth!Next
                   \/ program' = program /\ program = "sixth" /\ UNCHANGED <<graph, pc, loops>>
  BY DEF PathsNext
<1> QED BY <1>1, <1>2, <1>3, <1>4, <1>5, <1>6

(* Loops is an invariant: it holds at first,                               *)
LEMMA LoopsInit == PathsInit => Loops
<1> SUFFICES ASSUME PathsInit PROVE Loops
  OBVIOUS
<1>1. pc = "start" /\ NewLoops
  BY FourthActs DEF PathsInit, Fourth!New
<1>2. /\ program \in {"fourth", "tenth", "sixth"}
      /\ program # "sixth" => program \in DOMAIN Inputs /\ graph \in Inputs[program]
  BY InputsAssumption DEF PathsInit
<1> QED BY <1>1, <1>2 DEF Loops, Fresh

(* every step of every program keeps it,                                   *)
LEMMA LoopsNext == Loops /\ [PathsNext \/ Terminated]_PathsVars => Loops'
<1> SUFFICES ASSUME Loops, [PathsNext \/ Terminated]_PathsVars PROVE Loops'
  OBVIOUS
<1>1. program' = program /\ graph' = graph
  BY LoopSteps
<1>2. CASE program = "sixth"
  BY <1>1, <1>2 DEF Loops
<1>3. CASE program # "sixth"
  <2>1. Weighed /\ graph \in Inputs[program] /\ program \in {"fourth", "tenth", "sixth"}
    BY <1>3, LoopsWeighed DEF Loops
  <2>2. Fair' <=> Fair
    BY <1>1, GraphSame DEF Fair, Sane
  <2>3. CASE UNCHANGED loops /\ Fresh' = Fresh
    <3>1. dist' = dist /\ i' = i /\ j' = j /\ k' = k
      BY <2>3 DEF loops
    <3>2. NewLoops' <=> NewLoops
      BY <3>1 DEF NewLoops
    <3>3. Shaped' <=> Shaped
      BY <1>1, <3>1, GraphSame DEF Shaped
    <3>4. Settled(dist, i, j, k)' <=> Settled(dist, i, j, k)
      <4>1. Settled(dist', i', j', k') <=> Settled(dist, i, j, k)
        BY <3>1
      <4> QED BY <1>1, <4>1, SettledSame
    <3> QED BY <1>1, <1>3, <2>2, <2>3, <3>2, <3>3, <3>4 DEF Loops
  <2>4. CASE pc = "start" /\ program # "sixth" /\ Initialize /\ pc' = "relax"
    <3>1. NewLoops /\ ~Fresh'
      BY <1>1, <1>3, <2>4 DEF Loops, Fresh
    <3>2. Shaped' /\ Settled(dist, i, j, k)'
      BY <1>1, <2>1, <2>4, <3>1, InitializeLaw
    <3> QED BY <1>1, <2>1, <3>1, <3>2 DEF Loops
  <2>5. CASE pc = "relax" /\ program # "sixth" /\ Relax /\ pc' = "relax"
    <3>1. ~Fresh /\ ~Fresh'
      BY <2>5 DEF Fresh
    <3>2. Shaped /\ (Fair => Settled(dist, i, j, k))
      BY <1>3, <3>1 DEF Loops
    <3>3. Shaped'
      BY <1>1, <2>1, <2>5, <3>2, RelaxShaped
    <3>4. Fair => Settled(dist, i, j, k)'
      BY <1>1, <2>5, <3>2, RelaxSettled
    <3> QED BY <1>1, <2>1, <2>2, <3>1, <3>3, <3>4 DEF Loops
  <2> QED BY <2>3, <2>4, <2>5, LoopSteps
<1> QED BY <1>2, <1>3

(* so it holds always.                                                     *)
LEMMA LoopsInvariant == PathsSpec => []Loops
BY LoopsInit, LoopsNext, PTL DEF PathsSpec

(* Before the pass for k, and after the last, every entry of the matrix is *)
(* the length of a shortest path through vertices below k, on every graph  *)
(* without a negative cycle and, if it is a digraph, without a path of     *)
(* length INT_MAX.                                                         *)
LEMMA EntriesShortest ==
  ASSUME Loops, program # "sixth"
  PROVE  ShortestSoFar
<1> SUFFICES ASSUME dist # <<>>, i = 1, j = 1, ~NegativeCycle,
                    CheckDirected(graph) => Counted, NEW x \in V, NEW t \in V
             PROVE  dist[x][t] = Shortest(1..(k - 1), x, t)
  BY DEF ShortestSoFar
<1>1. Fair /\ V \subseteq Nat /\ V = 1..n
  BY LoopsWeighed, WeighedFacts DEF Fair, Sane
<1>2. ~Fresh
  BY DEF Loops, NewLoops
<1>3. Settled(dist, i, j, k)
  BY <1>1, <1>2 DEF Loops
<1>4. ~Done(x, t, i, j)
  BY <1>1 DEF Done
<1> QED BY <1>3, <1>4 DEF Settled

(* An entry a pass adds is the weight of a walk, or 0, or INT_MAX.         *)
LEMMA EntryIsWalk ==
  ASSUME Sane, NEW c \in V, NEW x \in V, NEW t \in V,
         Shortest(1..(c - 1), x, t) # INT_MAX, Shortest(1..(c - 1), x, t) # 0
  PROVE  Shortest(1..(c - 1), x, t) \in Lengths(V, x, t)
<1>1. 1..(c - 1) \in SUBSET V /\ V \in SUBSET V /\ Weighed
  BY WeighedFacts DEF Sane
<1>2. Shortest(1..(c - 1), x, t) \in Lengths(1..(c - 1), x, t)
  BY <1>1, ShortestFacts
<1>3. ASSUME NEW S \in SUBSET V PROVE Lengths(S, x, t) \subseteq Lengths(V, x, t)
  <2>1. S \subseteq V
    OBVIOUS
  <2> QED BY <1>1, <2>1, LengthsMore
<1> QED BY <1>1, <1>2, <1>3

(* A sum of the loops that is no int is the weight of two walks, on every  *)
(* graph without a negative cycle and, if it is a digraph, without a path  *)
(* of length INT_MAX.                                                      *)
LEMMA SumsAreLengths ==
  ASSUME Loops, program # "sixth"
  PROVE  OverflowNeedsHeavyWalks
<1> SUFFICES ASSUME k <= n, pc = "relax", Connected, Sum \notin Ints,
                    ~NegativeCycle, CheckDirected(graph) => Counted
             PROVE  \E x, y, z \in V : \E l \in Lengths(V, x, y), m \in Lengths(V, y, z) :
                      l + m \notin Ints
  BY DEF OverflowNeedsHeavyWalks
<1>1. Fair /\ Sane
  BY LoopsWeighed DEF Fair, Sane
<1>2. ~Fresh
  BY DEF Fresh
<1>3. Settled(dist, i, j, k) /\ Shaped
  BY <1>1, <1>2 DEF Loops
<1>4. i \in V /\ j \in V /\ k \in V
  <2>1. n \in Nat /\ V = 1..n
    BY <1>1, WeighedFacts DEF Sane
  <2> QED BY <1>3, <2>1 DEF Shaped
<1>5. /\ dist[i][k] = Shortest(1..(k - 1), i, k)
      /\ dist[k][j] = Shortest(1..(k - 1), k, j)
  BY <1>1, <1>3, <1>4, CellLaw
<1>6. dist[i][k] \in Ints /\ dist[k][j] \in Ints
  BY <1>3, <1>4 DEF Shaped
<1>7. dist[i][k] # 0 /\ dist[k][j] # 0
  BY <1>6 DEF Sum, Ints
<1>8. dist[i][k] \in Lengths(V, i, k) /\ dist[k][j] \in Lengths(V, k, j)
  BY <1>1, <1>4, <1>5, <1>7, EntryIsWalk DEF Connected
<1> QED BY <1>4, <1>8 DEF Sum

(* Before the pass for k, and after the last, every entry of the matrix is *)
(* the length of a shortest path through vertices below k, and in a pass a *)
(* sum of two entries overflows only where the weights of two walks that   *)
(* meet do, on every graph without a negative cycle and, if it is a        *)
(* digraph, without a path of length INT_MAX.                              *)
THEOREM PathsShortestInEachPass == PathsSpec => []ShortestInEachPass
<1>1. Loops => ShortestInEachPass
  BY EntriesShortest, SumsAreLengths DEF ShortestInEachPass
<1> QED BY <1>1, LoopsInvariant, PTL

-----------------------------------------------------------------------------
(* Greatest and least members.                                             *)

(* A finite set of integers has a greatest member.                         *)
LEMMA GreatestInteger ==
  ASSUME NEW S, S \in SUBSET Int, IsFiniteSet(S), S # {}
  PROVE  \E m \in S : \A y \in S : y <= m
<1> DEFINE R == { -y : y \in S }
           f == [y \in S |-> -y]
<1>1. f \in Surjection(S, R)
  BY DEF Surjection
<1>2. IsFiniteSet(R)
  <2> HIDE DEF R, f
  <2> QED BY <1>1, FS_Surjection
<1>3. R \in SUBSET Int /\ R # {} /\ \A y \in S : -y \in R
  OBVIOUS
<1>4. PICK l \in R : \A y \in R : l <= y
  <2> HIDE DEF R
  <2> QED BY <1>2, <1>3, LeastInteger
<1>5. PICK m \in S : l = -m
  OBVIOUS
<1>6. ASSUME NEW y \in S PROVE y <= m
  <2>1. l <= -y
    BY <1>3, <1>4
  <2>2. y \in Int /\ m \in Int
    OBVIOUS
  <2> HIDE DEF R
  <2> QED BY <1>5, <2>1, <2>2
<1> QED BY <1>6

(* A finite family of ints has a least and a greatest member.              *)
LEMMA Extremes ==
  ASSUME NEW S, IsFiniteSet(S), NEW f, \A x \in S : f[x] \in Int, S # {}
  PROVE  LET all == { f[x] : x \in S }
         IN  /\ all \in SUBSET Int /\ IsFiniteSet(all)
             /\ Least(all) \in all /\ Fourth!Greatest(all) \in all
             /\ Fourth!Least(all) = Least(all)
             /\ \A x \in S : Least(all) <= f[x] /\ f[x] <= Fourth!Greatest(all)
<1> DEFINE all == { f[x] : x \in S }
           g == [x \in S |-> f[x]]
<1>1. g \in Surjection(S, all)
  BY DEF Surjection
<1>2. IsFiniteSet(all)
  <2> HIDE DEF all, g
  <2> QED BY <1>1, FS_Surjection
<1>3. all \in SUBSET Int /\ all # {} /\ \A x \in S : f[x] \in all
  OBVIOUS
<1> HIDE DEF all
<1>4. \E m \in all : \A y \in all : m <= y
  BY <1>2, <1>3, LeastInteger
<1>5. Least(all) \in all /\ \A y \in all : Least(all) <= y
  BY <1>4 DEF Least
<1>6. \E m \in all : \A y \in all : y <= m
  BY <1>2, <1>3, GreatestInteger
<1>7. Fourth!Greatest(all) \in all /\ \A y \in all : y <= Fourth!Greatest(all)
  BY <1>6 DEF Fourth!Greatest
<1>8. Fourth!Least(all) = Least(all)
  BY DEF Fourth!Least, Least
<1> QED BY <1>2, <1>3, <1>5, <1>7, <1>8 DEF all

-----------------------------------------------------------------------------
(* fourth.cpp, GraphAnalyzer.                                              *)

(* The greatest distance of x to another vertex is the greatest, and in    *)
(* reach of an int.                                                        *)
LEMMA EccentricityLaw ==
  ASSUME Weighed, dist \in [V -> [V -> Ints]], NEW x \in V
  PROVE  /\ \/ Fourth!Eccentricity(x) = 0
            \/ \E y \in V \ {x} : Fourth!Eccentricity(x) = dist[x][y]
         /\ \A y \in V \ {x} : dist[x][y] <= Fourth!Eccentricity(x)
         /\ 0 <= Fourth!Eccentricity(x)
         /\ Fourth!Eccentricity(x) \in Ints /\ Fourth!Eccentricity(x) \in Int
<1> DEFINE R == { dist[x][y] : y \in V \ {x} }
           f == [y \in V \ {x} |-> dist[x][y]]
<1>0. IsFiniteSet(V) /\ Ints \subseteq Int /\ INT_MAX \in Nat
  BY WeighedFacts
<1>1. f \in Surjection(V \ {x}, R)
  BY DEF Surjection
<1>2. IsFiniteSet(V \ {x})
  BY <1>0, FS_Subset
<1>3. IsFiniteSet(R)
  <2> HIDE DEF R, f
  <2> QED BY <1>1, <1>2, FS_Surjection
<1>4. IsFiniteSet(R \cup {0})
  <2> HIDE DEF R
  <2> QED BY <1>3, FS_AddElement
<1>5. R \in SUBSET Ints
  OBVIOUS
<1>6. Fourth!Eccentricity(x) = Fourth!Greatest(R \cup {0})
  BY FourthReads DEF Fourth!Eccentricity, Fourth!Others
<1>7. \A y \in V \ {x} : dist[x][y] \in R
  OBVIOUS
<1>8. 0 \in Ints
  BY <1>0 DEF Ints
<1>9. \E m \in R \cup {0} : \A y \in R \cup {0} : y <= m
  <2> HIDE DEF R
  <2>1. R \in SUBSET Int
    BY <1>0, <1>5
  <2>2. R \cup {0} \in SUBSET Int /\ R \cup {0} # {}
    BY <2>1
  <2> QED BY <1>4, <2>2, GreatestInteger
<1> DEFINE g == Fourth!Greatest(R \cup {0})
<1>10. g \in R \cup {0} /\ \A y \in R \cup {0} : y <= g
  <2> HIDE DEF R
  <2> QED BY <1>9 DEF Fourth!Greatest
<1> HIDE DEF g
<1>11. g = 0 \/ \E y \in V \ {x} : g = dist[x][y]
  BY <1>10
<1>12. g \in Ints /\ g \in Int
  BY <1>0, <1>5, <1>8, <1>10
<1>13. 0 <= g /\ \A y \in V \ {x} : dist[x][y] <= g
  BY <1>7, <1>10
<1> QED BY <1>6, <1>11, <1>12, <1>13 DEF g

(* The results, once there are any.                                        *)
Eccentricities == [x \in V |-> Fourth!Eccentricity(x)]
AllOf(f) == { f[x] : x \in V }

Described ==
  /\ V # {} /\ k > n
  /\ eccentricities = Eccentricities
  /\ diameter = Fourth!Greatest(AllOf(Eccentricities)) /\ radius = Least(AllOf(Eccentricities))
  /\ peripheral = { x \in V : Eccentricities[x] = Fourth!Greatest(AllOf(Eccentricities)) }
  /\ central = { x \in V : Eccentricities[x] = Least(AllOf(Eccentricities)) }

FourthInv ==
  program = "fourth" =>
    /\ pc \in {"start", "relax", "done", "error", "undefined"}
    /\ pc \in {"relax", "done", "undefined"} => ~CheckDirected(graph)
    /\ pc = "done" => Described
    /\ pc # "done" => diameter = 0 /\ radius = 0 /\ peripheral = {} /\ central = {}

(* The invariant of the program fourth holds at first,                     *)
LEMMA FourthInit == PathsInit => FourthInv
BY DEF PathsInit, Fourth!New, FourthInv

(* and each of its steps keeps it.                                         *)
LEMMA FourthNext == FourthInv /\ [PathsNext \/ Terminated]_PathsVars => FourthInv'
<1> SUFFICES ASSUME FourthInv, [PathsNext \/ Terminated]_PathsVars PROVE FourthInv'
  OBVIOUS
<1> SUFFICES ASSUME program = "fourth" PROVE FourthInv'
  <2>1. program' = program
    BY LoopSteps
  <2> QED BY <2>1 DEF FourthInv
<1>0. graph' = graph /\ program' = program /\ V' = V /\ n' = n /\ CheckDirected(graph)' = CheckDirected(graph)
  BY LoopSteps, GraphSame
<1>00. Fourth!V = V /\ Fourth!n = n /\ (Fourth!CheckDirected(graph) <=> CheckDirected(graph))
  BY FourthReads DEF Fourth!CheckDirected, CheckDirected, Fourth!Vertices, Vertices, Fourth!weight, weight
<1>1. CASE pc' = pc /\ UNCHANGED <<loops, vars4>>
  <2>1. dist' = dist /\ k' = k
    BY <1>1 DEF loops
  <2>2. \A x : Fourth!Eccentricity(x)' = Fourth!Eccentricity(x)
    BY <1>0, <2>1 DEF Fourth!Eccentricity, Fourth!Others, Fourth!V, Fourth!Vertices
  <2>3. Eccentricities' = Eccentricities
    BY <1>0, <2>2 DEF Eccentricities
  <2>4. AllOf(Eccentricities)' = AllOf(Eccentricities)
    BY <1>0, <2>3 DEF AllOf
  <2>5. Described' <=> Described
    BY <1>0, <1>1, <2>1, <2>3, <2>4 DEF Described, vars4
  <2> QED BY <1>0, <1>1, <2>5 DEF FourthInv, vars4
<1>2. CASE Fourth!Refuse
  BY <1>0, <1>00, <1>2 DEF Fourth!Refuse, FourthInv, Fourth!results
<1>3. CASE Fourth!Construct
  BY <1>0, <1>00, <1>3 DEF Fourth!Construct, FourthInv, Fourth!results
<1>4. CASE Fourth!RelaxCell
  BY <1>0, <1>00, <1>4 DEF Fourth!RelaxCell, FourthInv, Fourth!results
<1>5. CASE Fourth!OverflowCell
  BY <1>0, <1>00, <1>5 DEF Fourth!OverflowCell, FourthInv, Fourth!results
<1>6. CASE Fourth!Analyze
  <2> DEFINE all == AllOf(Eccentricities)
  <2>1. pc = "relax" /\ k > n /\ UNCHANGED loops
    BY <1>00, <1>6, FourthActs DEF Fourth!Analyze, Fourth!loops, loops
  <2>2. dist' = dist /\ k' = k
    BY <2>1 DEF loops
  <2>3. \A x : Fourth!Eccentricity(x)' = Fourth!Eccentricity(x)
    BY <1>0, <2>2 DEF Fourth!Eccentricity, Fourth!Others, Fourth!V, Fourth!Vertices
  <2>4. Eccentricities' = Eccentricities
    BY <1>0, <2>3 DEF Eccentricities
  <2>5. AllOf(Eccentricities)' = AllOf(Eccentricities)
    BY <1>0, <2>4 DEF AllOf
  <2>6. Fourth!Least(all) = Least(all)
    BY DEF Fourth!Least, Least
  <2>7. /\ eccentricities' = Eccentricities
        /\ IF V = {} THEN pc' = "undefined" /\ UNCHANGED <<diameter, radius, peripheral, central>>
           ELSE /\ pc' = "done"
                /\ diameter' = Fourth!Greatest(all) /\ radius' = Fourth!Least(all)
                /\ peripheral' = { x \in V : Eccentricities[x] = Fourth!Greatest(all) }
                /\ central' = { x \in V : Eccentricities[x] = Fourth!Least(all) }
    BY <1>6, Zenon DEF Fourth!Analyze, Eccentricities, AllOf, Fourth!V, Fourth!Vertices, V, Vertices
  <2>8. CASE V = {}
    BY <1>0, <2>1, <2>7, <2>8 DEF FourthInv
  <2>9. CASE V # {}
    <3>1. Described'
      BY <1>0, <2>1, <2>2, <2>4, <2>5, <2>6, <2>7, <2>9 DEF Described
    <3> QED BY <1>0, <2>1, <2>7, <2>9, <3>1 DEF FourthInv
  <2> QED BY <2>8, <2>9
<1>7. CASE UNCHANGED PathsVars
  BY <1>1, <1>7 DEF PathsVars, vars4, loops
<1>8. CASE Terminated
  BY <1>1, <1>8 DEF Terminated, PathsVars, vars4, loops
<1> QED BY <1>2, <1>3, <1>4, <1>5, <1>6, <1>7, <1>8 DEF PathsNext, Fourth!Next

(* The loops keep their types,                                             *)
LEMMA LoopsTyped ==
  ASSUME Loops, program # "sixth"
  PROVE  LoopsTypeOK
<1>1. n \in Nat /\ V = 1..n
  BY LoopsWeighed, WeighedFacts
<1>2. CASE Fresh
  <2>1. dist = <<>> /\ k = 1 /\ i = 1 /\ j = 1
    BY <1>2 DEF Loops, NewLoops
  <2>2. 1 \in 1..(n + 1)
    BY <1>1
  <2> QED BY <2>1, <2>2 DEF LoopsTypeOK
<1>3. CASE ~Fresh
  <2>1. /\ dist \in [V -> [V -> Ints]] /\ k \in 1..(n + 1)
        /\ IF k <= n THEN i \in V /\ j \in V ELSE i = 1 /\ j = 1
    BY <1>3 DEF Loops, Shaped
  <2>2. i \in 1..(n + 1) /\ j \in 1..(n + 1)
    BY <1>1, <2>1
  <2> QED BY <2>1, <2>2 DEF LoopsTypeOK
<1> QED BY <1>2, <1>3

(* After the last pass the matrix holds the shortest ways through all.     *)
LEMMA AllPasses ==
  ASSUME Loops, program # "sixth", ~Fresh, k > n
  PROVE  /\ dist \in [V -> [V -> Ints]]
         /\ Fair => Attained(V) /\ \A x, t \in V : dist[x][t] = Shortest(V, x, t)
<1>1. n \in Nat /\ V = 1..n
  BY LoopsWeighed, WeighedFacts
<1>2. Shaped /\ (Fair => Settled(dist, i, j, k))
  BY DEF Loops
<1>3. k = n + 1 /\ i = 1 /\ j = 1
  BY <1>1, <1>2 DEF Shaped
<1>4. 1..(k - 1) = V /\ \A x, t \in V : ~Done(x, t, i, j)
  <2>1. k - 1 = n
    BY <1>1, <1>3
  <2> QED BY <1>1, <1>3, <2>1 DEF Done
<1> QED BY <1>2, <1>4 DEF Settled, Shaped

(* and so does the program fourth.                                         *)
LEMMA FourthTyped ==
  ASSUME Loops, FourthInv, program = "fourth"
  PROVE  Fourth!TypeOK
<1>1. LoopsTypeOK /\ Weighed
  BY LoopsTyped, LoopsWeighed
<1>2. Fourth!LoopsTypeOK
  BY <1>1 DEF Fourth!LoopsTypeOK, LoopsTypeOK, Fourth!V, Fourth!Vertices, V, Vertices, Fourth!n, n,
              Fourth!Ints, Ints
<1>3. IsFiniteSet(V) /\ 0 \in Ints
  <2>1. INT_MAX \in Nat /\ IsFiniteSet(V)
    BY <1>1, WeighedFacts
  <2> QED BY <2>1 DEF Ints
<1>4. {diameter, radius} \subseteq Ints /\ peripheral \cup central \subseteq V
  <2>1. CASE pc # "done"
    BY <1>3, <2>1 DEF FourthInv
  <2>2. CASE pc = "done"
    <3>1. Described /\ k > n /\ ~Fresh
      BY <2>2 DEF FourthInv, Described, Fresh
    <3>2. dist \in [V -> [V -> Ints]]
      BY <3>1, AllPasses
    <3>3. \A x \in V : Eccentricities[x] \in Ints /\ Eccentricities[x] \in Int
      BY <1>1, <3>2, EccentricityLaw DEF Eccentricities
    <3>4. V # {} /\ AllOf(Eccentricities) \subseteq Ints
      BY <3>1, <3>3 DEF Described, AllOf
    <3>5. /\ Least(AllOf(Eccentricities)) \in AllOf(Eccentricities)
          /\ Fourth!Greatest(AllOf(Eccentricities)) \in AllOf(Eccentricities)
      BY <1>3, <3>3, <3>4, Extremes DEF AllOf
    <3> QED BY <3>1, <3>4, <3>5 DEF Described
  <2> QED BY <2>1, <2>2
<1>5. pc \in {"start", "relax", "done", "error", "undefined"}
  BY DEF FourthInv
<1> QED BY <1>2, <1>4, <1>5, FourthReads DEF Fourth!TypeOK, Fourth!Ints, Ints

(* Distances of an undirected graph: to and fro are as far, and by way of  *)
(* a third vertex it is not nearer.                                        *)
LEMMA UndirectedDistances ==
  ASSUME Sane, ~CheckDirected(graph), Attained(V), NEW a \in V, NEW b \in V, NEW c \in V,
         a # c, c # b
  PROVE  /\ Shortest(V, a, c) = Shortest(V, c, a)
         /\ Shortest(V, c, a) # INT_MAX /\ Shortest(V, c, b) # INT_MAX =>
              /\ Shortest(V, a, b) # INT_MAX
              /\ Shortest(V, a, b) <= Shortest(V, c, a) + Shortest(V, c, b)
<1>0. Weighed /\ V \in SUBSET V /\ V \cup {c} = V
  BY DEF Sane
<1>1. Shortest(V, a, c) = Shortest(V, c, a)
  BY <1>0, ShortestBack
<1>2. ASSUME Shortest(V, c, a) # INT_MAX, Shortest(V, c, b) # INT_MAX
      PROVE  /\ Shortest(V, a, b) # INT_MAX
             /\ Shortest(V, a, b) <= Shortest(V, c, a) + Shortest(V, c, b)
  <2>1. ~Home(a, c) /\ ~Home(c, b)
    BY DEF Home
  <2>2. Shortest(V, a, c) \in Lengths(V, a, c)
    BY <1>0, <1>1, <1>2, <2>1, ShortestFacts
  <2>3. Shortest(V, c, b) \in Lengths(V, c, b)
    BY <1>0, <1>2, <2>1, ShortestFacts
  <2>4. \E l \in Lengths(V \cup {c}, a, b) : l <= Shortest(V, a, c) + Shortest(V, c, b)
    BY <1>0, <2>2, <2>3, Joined
  <2>5. PICK l \in Lengths(V, a, b) : l <= Shortest(V, a, c) + Shortest(V, c, b)
    BY <1>0, <2>4
  <2>6. Shortest(V, a, b) < INT_MAX
    BY <2>5 DEF Attained
  <2>7. l \in Int /\ Shortest(V, a, b) <= l
    BY <1>0, ShortestFacts
  <2>8. Shortest(V, a, b) \in Int /\ Shortest(V, c, a) \in Int /\ Shortest(V, c, b) \in Int /\ INT_MAX \in Int
    BY <1>0, ShortestFacts, IntAssumption
  <2> QED BY <1>1, <2>5, <2>6, <2>7, <2>8
<1> QED BY <1>1, <1>2

(* What the program fourth prints of an undirected graph are its           *)
(* eccentricities, radius, diameter, centre and periphery, infinite ones   *)
(* included, and they relate as they should.                               *)
THEOREM PathsCharacteristics == PathsSpec => []Characteristics
<1>1. Loops /\ FourthInv => Characteristics
  <2> SUFFICES ASSUME Loops, FourthInv, program = "fourth", pc = "done", ~NegativeCycle
               PROVE  LET Far(x) == { Shortest(V, x, y) : y \in V \ {x} }
                      IN  /\ \A x \in V : /\ eccentricities[x] \in Far(x) \cup {0}
                                          /\ \A d \in Far(x) : d <= eccentricities[x]
                          /\ \A x \in central : eccentricities[x] = radius
                          /\ \A x \in peripheral : eccentricities[x] = diameter
                          /\ central # {} /\ peripheral # {}
                          /\ IF diameter = INT_MAX THEN central = V ELSE diameter <= 2 * radius
    BY FourthReads, Zenon DEF Characteristics, Fourth!Characteristics
  <2> DEFINE Far(x) == { Shortest(V, x, y) : y \in V \ {x} }
             E == Eccentricities
             all == AllOf(Eccentricities)
  <2>0. Described /\ k > n /\ ~Fresh /\ ~CheckDirected(graph)
    BY DEF FourthInv, Described, Fresh
  <2>1. Fair /\ Sane /\ Weighed
    BY <2>0, LoopsWeighed DEF Fair, Sane
  <2>2. /\ dist \in [V -> [V -> Ints]] /\ Attained(V)
        /\ \A x, t \in V : dist[x][t] = Shortest(V, x, t)
    BY <2>0, <2>1, AllPasses
  <2>3. IsFiniteSet(V) /\ V # {} /\ INT_MAX \in Int /\ INT_MAX > 0 /\ V \in SUBSET V
    <3>1. PICK h \in 0..INT_MAX : INT_MAX = 2 * h + 1
      BY IntAssumption
    <3>2. INT_MAX \in Int /\ INT_MAX > 0
      BY <3>1
    <3> QED BY <2>0, <2>1, <3>2, WeighedFacts DEF Described
  <2>4. \A x \in V : /\ E[x] = 0 \/ \E y \in V \ {x} : E[x] = Shortest(V, x, y)
                     /\ \A y \in V \ {x} : Shortest(V, x, y) <= E[x]
                     /\ 0 <= E[x] /\ E[x] \in Int
    <3> SUFFICES ASSUME NEW x \in V
                 PROVE  /\ E[x] = 0 \/ \E y \in V \ {x} : E[x] = Shortest(V, x, y)
                        /\ \A y \in V \ {x} : Shortest(V, x, y) <= E[x]
                        /\ 0 <= E[x] /\ E[x] \in Int
      OBVIOUS
    <3>1. /\ \/ Fourth!Eccentricity(x) = 0
             \/ \E y \in V \ {x} : Fourth!Eccentricity(x) = dist[x][y]
          /\ \A y \in V \ {x} : dist[x][y] <= Fourth!Eccentricity(x)
          /\ 0 <= Fourth!Eccentricity(x) /\ Fourth!Eccentricity(x) \in Int
      BY <2>1, <2>2, EccentricityLaw
    <3>2. E[x] = Fourth!Eccentricity(x)
      BY DEF Eccentricities
    <3>3. \A y \in V \ {x} : dist[x][y] = Shortest(V, x, y)
      BY <2>2
    <3> HIDE DEF E
    <3> QED BY <3>1, <3>2, <3>3
  <2>5. /\ eccentricities = E
        /\ diameter = Fourth!Greatest(all) /\ radius = Least(all)
        /\ peripheral = { x \in V : E[x] = diameter }
        /\ central = { x \in V : E[x] = radius }
    BY <2>0 DEF Described
  <2>6. /\ radius \in all /\ diameter \in all
        /\ \A x \in V : radius <= E[x] /\ E[x] <= diameter
    <3>1. \A x \in V : E[x] \in Int
      BY <2>4
    <3>2. all = AllOf(E)
      OBVIOUS
    <3> HIDE DEF E, all
    <3>3. /\ Least(AllOf(E)) \in AllOf(E) /\ Fourth!Greatest(AllOf(E)) \in AllOf(E)
          /\ \A x \in V : Least(AllOf(E)) <= E[x] /\ E[x] <= Fourth!Greatest(AllOf(E))
      BY <2>3, <3>1, Extremes DEF AllOf
    <3> QED BY <2>5, <3>2, <3>3
  <2>7. (\E x \in V : E[x] = radius) /\ (\E x \in V : E[x] = diameter)
    BY <2>6 DEF AllOf
  <2> HIDE DEF E, all
  <2>8. \A x \in V : /\ eccentricities[x] \in Far(x) \cup {0}
                     /\ \A d \in Far(x) : d <= eccentricities[x]
    BY <2>4, <2>5
  <2>9. /\ \A x \in central : eccentricities[x] = radius
        /\ \A x \in peripheral : eccentricities[x] = diameter
        /\ central # {} /\ peripheral # {}
    BY <2>5, <2>7
  <2>10. PICK a \in V : E[a] = diameter
    BY <2>7
  <2>11. ASSUME diameter = INT_MAX PROVE central = V
    <3>1. PICK y \in V \ {a} : Shortest(V, a, y) = INT_MAX
      BY <2>3, <2>4, <2>10, <2>11
    <3>2. ASSUME NEW x \in V PROVE E[x] = INT_MAX
      <4>1. \E t \in V \ {x} : Shortest(V, x, t) = INT_MAX
        <5>1. CASE x = a
          BY <3>1, <5>1
        <5>2. CASE x = y
          <6>1. Shortest(V, x, a) = INT_MAX
            BY <2>1, <2>3, <2>0, <3>1, <5>2, ShortestBack
          <6> QED BY <3>1, <5>2, <6>1
        <5>3. CASE x # a /\ x # y
          <6>1. Shortest(V, x, a) = INT_MAX \/ Shortest(V, x, y) = INT_MAX
            BY <2>0, <2>1, <2>2, <3>1, <5>3, UndirectedDistances
          <6> QED BY <5>3, <6>1
        <5> QED BY <5>1, <5>2, <5>3
      <4>2. INT_MAX <= E[x] /\ E[x] <= INT_MAX /\ E[x] \in Int
        BY <2>4, <2>6, <2>11, <4>1
      <4> QED BY <2>3, <4>2
    <3>3. radius = INT_MAX
      BY <2>7, <3>2
    <3> QED BY <2>5, <3>2, <3>3
  <2>12. ASSUME diameter # INT_MAX PROVE diameter <= 2 * radius
    <3>1. PICK c \in V : E[c] = radius
      BY <2>7
    <3>2. diameter \in Int /\ radius \in Int /\ 0 <= radius /\ radius <= diameter
      BY <2>4, <2>6, <2>10, <3>1
    <3>3. diameter <= INT_MAX
      <4>1. CASE E[a] = 0
        BY <2>3, <2>10, <4>1
      <4>2. CASE \E y \in V \ {a} : E[a] = Shortest(V, a, y)
        BY <2>1, <2>3, <2>10, <4>2, ShortestFacts
      <4> QED BY <2>4, <4>1, <4>2
    <3>4. CASE E[a] = 0
      BY <2>10, <3>2, <3>4
    <3>5. CASE \E y \in V \ {a} : E[a] = Shortest(V, a, y)
      <4>1. PICK y \in V \ {a} : E[a] = Shortest(V, a, y)
        BY <3>5
      <4>2. CASE c = a
        BY <2>10, <3>1, <3>2, <4>2
      <4>3. CASE c = y
        <5>1. Shortest(V, c, a) = Shortest(V, a, y)
          BY <2>0, <2>1, <2>3, <4>3, ShortestBack
        <5>2. Shortest(V, c, a) <= radius
          BY <2>4, <3>1, <4>1, <4>3
        <5>3. diameter <= radius
          BY <2>10, <4>1, <5>1, <5>2
        <5> QED BY <3>2, <5>3
      <4>4. CASE c # a /\ c # y
        <5>1. Shortest(V, c, a) <= radius /\ Shortest(V, c, y) <= radius
          BY <2>4, <3>1, <4>4
        <5>2. Shortest(V, c, a) \in Int /\ Shortest(V, c, y) \in Int
          BY <2>1, <2>3, ShortestFacts
        <5>3. Shortest(V, c, a) # INT_MAX /\ Shortest(V, c, y) # INT_MAX
          BY <2>3, <2>12, <3>2, <3>3, <5>1, <5>2
        <5>4. Shortest(V, a, y) <= Shortest(V, c, a) + Shortest(V, c, y)
          BY <2>0, <2>1, <2>2, <4>4, <5>3, UndirectedDistances
        <5>5. diameter <= Shortest(V, c, a) + Shortest(V, c, y)
          BY <2>10, <4>1, <5>4
        <5> QED BY <3>2, <5>1, <5>2, <5>5
      <4> QED BY <4>2, <4>3, <4>4
    <3> QED BY <2>4, <3>4, <3>5
  <2> QED BY <2>8, <2>9, <2>11, <2>12
<1> QED BY <1>1, LoopsInvariant, FourthInit, FourthNext, PTL DEF PathsSpec

-----------------------------------------------------------------------------
(* The maze: balls of cells around the start, and the rings they differ by. *)

(* The cells within a step of B.                                           *)
Wider(B) == B \cup { c \in UNION { Steps(b) : b \in B } : Open(c) }

(* The recursion of Ball, with its step named.                             *)
LEMMA BallUnfolded ==
  Ball = CHOOSE f : f = [m \in Nat |-> IF m = 0 THEN {start} ELSE Wider(f[m - 1])]
BY Zenon DEF Ball, Wider

(* The cells next to a cell are cells of the map, and finitely many.       *)
LEMMA StepsLaw ==
  ASSUME NEW b
  PROVE  /\ \A c : c \in Steps(b) <=> Inside(b) /\ \E d \in 1..4 : c = Around(b)[d]
         /\ \A c \in Steps(b) : c \in Int \X Int
<1>1. \A c : c \in Steps(b) <=> Inside(b) /\ \E d \in 1..4 : c = Around(b)[d]
  BY DEF Steps
<1>2. ASSUME Inside(b), NEW d \in 1..4 PROVE Around(b)[d] \in Int \X Int
  <2>1. b[1] \in Int /\ b[2] \in Int
    BY <1>2 DEF Inside
  <2>2. d = 1 \/ d = 2 \/ d = 3 \/ d = 4
    OBVIOUS
  <2> QED BY <2>1, <2>2 DEF Around
<1> QED BY <1>1, <1>2

(* A step of the recursion stays in the map.                               *)
LEMMA WiderLaw ==
  ASSUME NEW B
  PROVE  \A c : c \in Wider(B) <=> c \in B \/ (Open(c) /\ \E b \in B : c \in Steps(b))
BY DEF Wider

(* Ball is the function its recursion describes.                           *)
LEMMA BallLaw ==
  /\ Ball[0] = {start}
  /\ \A m \in Nat \ {0} : Ball[m] = Wider(Ball[m - 1])
<1> DEFINE F(f) == [m \in Nat |-> IF m = 0 THEN {start} ELSE Wider(f[m - 1])]
           T == SUBSET ({start} \cup (Int \X Int))
           Run(f, m) == f[0] = {start} /\ \A l \in 1..m : f[l] = Wider(f[l - 1])
           Best(m) == CHOOSE f \in [0..m -> T] : Run(f, m)
           g == [m \in Nat |-> Best(m)[m]]
<1>1. ASSUME NEW B \in T PROVE Wider(B) \in T
  <2>1. ASSUME NEW c \in Wider(B) PROVE c \in {start} \cup (Int \X Int)
    BY StepsLaw, WiderLaw
  <2> QED BY <2>1
<1>2. ASSUME NEW m \in Nat PROVE \E f \in [0..m -> T] : Run(f, m)
  <2> DEFINE P == [l \in 0..m |-> IF l = 0 THEN {{start}} ELSE T]
             R == [l \in 1..m |-> { p \in T \X T : p[2] = Wider(p[1]) }]
  <2>1. {start} \in T
    OBVIOUS
  <2> HIDE DEF T
  <2>2. P[0] # {} /\ \A l \in 0..m : P[l] \subseteq T
    BY <2>1
  <2>3. ASSUME NEW l \in 1..m, NEW a \in P[l - 1] PROVE \E b \in P[l] : <<a, b>> \in R[l]
    <3>1. l \in 0..m /\ l - 1 \in 0..m /\ l # 0
      OBVIOUS
    <3>2. a \in T
      BY <2>2, <3>1
    <3>3. Wider(a) \in P[l] /\ <<a, Wider(a)>> \in R[l]
      BY <1>1, <3>1, <3>2
    <3> QED BY <3>3
  <2>4. PICK f \in [0..m -> T] : /\ \A l \in 0..m : f[l] \in P[l]
                                 /\ \A l \in 1..m : <<f[l - 1], f[l]>> \in R[l]
    <3> HIDE DEF P, R
    <3> QED BY <2>2, <2>3, Stepwise
  <2>5. f[0] = {start}
    BY <2>4
  <2>6. \A l \in 1..m : f[l] = Wider(f[l - 1])
    BY <2>4
  <2> QED BY <2>5, <2>6
<1>3. ASSUME NEW m \in Nat PROVE Best(m) \in [0..m -> T] /\ Run(Best(m), m)
  <2> HIDE DEF T, Run
  <2> QED BY <1>2, Zenon
<1>4. ASSUME NEW m \in Nat \ {0}, NEW l \in 0..(m - 1) PROVE Best(m - 1)[l] = Best(m)[l]
  <2> DEFINE p == Best(m - 1)
             q == Best(m)
             C == { a \in 0..(m - 1) : p[a] # q[a] }
  <2>0. m - 1 \in Nat /\ m \in Nat
    OBVIOUS
  <2>1. Run(p, m - 1) /\ Run(q, m)
    BY <1>3, <2>0, Zenon
  <2> HIDE DEF Best
  <2> SUFFICES ASSUME C # {} PROVE FALSE
    OBVIOUS
  <2>2. PICK a \in C : \A b \in C : a <= b
    <3>1. C \in SUBSET Nat
      OBVIOUS
    <3> HIDE DEF C
    <3> QED BY <3>1, LeastNatural
  <2> HIDE DEF p, q
  <2>3. a # 0
    BY <2>1, <2>2
  <2>4. a \in 1..(m - 1) /\ a \in 1..m /\ a - 1 \in 0..(m - 1) /\ ~(a <= a - 1)
    BY <2>2, <2>3
  <2>5. p[a - 1] = q[a - 1]
    BY <2>2, <2>4
  <2>6. p[a] = Wider(p[a - 1]) /\ q[a] = Wider(q[a - 1])
    BY <2>1, <2>4
  <2> QED BY <2>2, <2>5, <2>6
<1>5. g = F(g)
  <2>1. ASSUME NEW m \in Nat PROVE g[m] = IF m = 0 THEN {start} ELSE Wider(g[m - 1])
    <3>1. Run(Best(m), m)
      BY <1>3, Zenon
    <3>2. CASE m = 0
      <4> HIDE DEF Best
      <4> QED BY <3>1, <3>2
    <3>3. CASE m # 0
      <4>1. m - 1 \in 0..(m - 1) /\ m \in 1..m /\ m \in Nat \ {0} /\ m - 1 \in Nat
        BY <3>3
      <4>2. Best(m - 1)[m - 1] = Best(m)[m - 1]
        BY <1>4, <4>1, Zenon
      <4> HIDE DEF Best
      <4>3. Best(m)[m] = Wider(Best(m)[m - 1])
        BY <3>1, <4>1
      <4>4. g[m - 1] = Best(m - 1)[m - 1] /\ g[m] = Best(m)[m]
        BY <4>1
      <4> QED BY <3>3, <4>2, <4>3, <4>4
    <3> QED BY <3>2, <3>3
  <2> HIDE DEF Best
  <2>2. g = [m \in Nat |-> g[m]]
    OBVIOUS
  <2> HIDE DEF g
  <2> QED BY <2>1, <2>2
<1>6. Ball = F(Ball)
  <2>1. Ball = CHOOSE f : f = F(f)
    BY BallUnfolded, Zenon
  <2> HIDE DEF F, g
  <2> QED BY <1>5, <2>1, Zenon
<1> DEFINE h == Ball
<1>7. h = F(h)
  BY <1>6
<1> HIDE DEF h
<1>8. \A m \in Nat : h[m] = IF m = 0 THEN {start} ELSE Wider(h[m - 1])
  BY <1>7
<1>9. h[0] = {start} /\ \A m \in Nat \ {0} : h[m] = Wider(h[m - 1])
  BY <1>8
<1> QED BY <1>9 DEF h

(* The cells m steps away from the start.                                  *)
Ring(m) == IF m = 0 THEN {start} ELSE Ball[m] \ Ball[m - 1]

(* Balls grow.                                                             *)
LEMMA BallGrows ==
  ASSUME NEW m \in Nat, NEW l \in Nat, m <= l
  PROVE  Ball[m] \subseteq Ball[l]
<1> DEFINE C == { a \in Nat : m <= a /\ ~(Ball[m] \subseteq Ball[a]) }
<1> SUFFICES ASSUME C # {} PROVE FALSE
  OBVIOUS
<1>1. PICK a \in C : \A b \in C : a <= b
  <2>1. C \in SUBSET Nat
    OBVIOUS
  <2> HIDE DEF C
  <2> QED BY <2>1, LeastNatural
<1>2. a # m /\ a \in Nat /\ m <= a
  BY <1>1
<1>3. a \in Nat \ {0} /\ a - 1 \in Nat /\ m <= a - 1 /\ ~(a <= a - 1)
  BY <1>2
<1>4. Ball[m] \subseteq Ball[a - 1]
  BY <1>1, <1>3
<1>5. Ball[a - 1] \subseteq Ball[a]
  BY <1>3, BallLaw DEF Wider
<1> QED BY <1>1, <1>4, <1>5

(* A ring is what one more step adds.                                      *)
LEMMA RingLaw ==
  /\ Ring(0) = {start}
  /\ \A m \in Nat : Ring(m) \subseteq Ball[m]
  /\ \A m, l \in Nat : \A c \in Ring(m) : c \in Ball[l] => m <= l
  /\ \A m, l \in Nat : \A c \in Ring(m) : c \in Ring(l) => m = l
  /\ \A m \in Nat : \A c : c \in Ring(m + 1) <=> c \in Ball[m + 1] /\ c \notin Ball[m]
<1>1. Ring(0) = {start}
  BY DEF Ring
<1>2. \A m \in Nat : Ring(m) \subseteq Ball[m]
  BY BallLaw DEF Ring
<1>3. ASSUME NEW m \in Nat, NEW l \in Nat, NEW c \in Ring(m), c \in Ball[l], ~(m <= l) PROVE FALSE
  <2>1. m # 0 /\ m - 1 \in Nat /\ l <= m - 1
    BY <1>3
  <2>2. c \in Ball[m - 1]
    BY <1>3, <2>1, BallGrows
  <2> QED BY <2>1, <2>2 DEF Ring
<1>4. ASSUME NEW m \in Nat, NEW l \in Nat, NEW c \in Ring(m), c \in Ring(l) PROVE m = l
  <2>1. m <= l /\ l <= m
    BY <1>2, <1>3, <1>4
  <2> QED BY <2>1
<1>5. \A m \in Nat : \A c : c \in Ring(m + 1) <=> c \in Ball[m + 1] /\ c \notin Ball[m]
  <2>1. \A m \in Nat : m + 1 # 0 /\ (m + 1) - 1 = m
    OBVIOUS
  <2> QED BY <2>1 DEF Ring
<1> QED BY <1>1, <1>2, <1>3, <1>4, <1>5

(* Within a set with the start that no step leaves, lies every ball.       *)
LEMMA BallWithin ==
  ASSUME NEW D, start \in D,
         \A b \in D : \A c \in Steps(b) : Open(c) => c \in D,
         NEW m \in Nat
  PROVE  Ball[m] \subseteq D
<1> DEFINE C == { a \in Nat : ~(Ball[a] \subseteq D) }
<1> SUFFICES ASSUME C # {} PROVE FALSE
  OBVIOUS
<1>1. PICK a \in C : \A b \in C : a <= b
  <2>1. C \in SUBSET Nat
    OBVIOUS
  <2> HIDE DEF C
  <2> QED BY <2>1, LeastNatural
<1>2. a # 0 /\ a \in Nat
  BY <1>1, BallLaw
<1>3. a \in Nat \ {0} /\ a - 1 \in Nat /\ ~(a <= a - 1)
  BY <1>2
<1>4. Ball[a - 1] \subseteq D
  BY <1>1, <1>3
<1>5. Ball[a] = Wider(Ball[a - 1])
  BY <1>3, BallLaw
<1>6. Ball[a] \subseteq D
  BY <1>4, <1>5, WiderLaw
<1> QED BY <1>1, <1>6

(* Ball, of any maze.                                                      *)
OpenIn(r, q, d, c) == c[1] \in 0..(r - 1) /\ c[2] \in 0..(q - 1) /\ d[c[1] + 1][c[2] + 1] # 0
StepsIn(r, q, b) ==
  IF b[1] \in 0..(r - 1) /\ b[2] \in 0..(q - 1) THEN { Around(b)[d] : d \in 1..4 } ELSE {}
BallIn(s, r, q, d) ==
  CHOOSE f : f = [m \in Nat |->
    IF m = 0 THEN {s}
    ELSE f[m - 1] \cup { c \in UNION { StepsIn(r, q, b) : b \in f[m - 1] } : OpenIn(r, q, d, c) }]

(* Balls depend on the map and the start only.                             *)
LEMMA BallSame ==
  ASSUME start' = start, UNCHANGED map
  PROVE  /\ Ball' = Ball
         /\ \A m : Ring(m)' = Ring(m)
         /\ \A c : Open(c)' = Open(c) /\ Steps(c)' = Steps(c)
<1>0. rows' = rows /\ cols' = cols /\ data' = data
  BY DEF map
<1>1. Ball = BallIn(start, rows, cols, data)
  BY Zenon DEF Ball, BallIn, Open, OpenIn, Steps, StepsIn, Inside
<1>2. Ball' = BallIn(start', rows', cols', data')
  BY Zenon DEF Ball, BallIn, Open, OpenIn, Steps, StepsIn, Inside, Around
<1>3. Ball' = Ball
  BY <1>0, <1>1, <1>2
<1>4. \A m : Ring(m)' = Ring(m)
  BY <1>3 DEF Ring
<1>5. \A c : Open(c)' = Open(c) /\ Steps(c)' = Steps(c)
  BY <1>0 DEF Open, Steps, Inside, Around
<1> QED BY <1>3, <1>4, <1>5

-----------------------------------------------------------------------------
(* sixth.cpp: the search and the way back.                                 *)

(* The map, once it is searched.                                           *)
Mazed == rows > 0 /\ cols > 0 /\ data \in [1..rows -> [1..cols -> Int]]

(* What parent records: for every cell but the start, one a step nearer.   *)
Tree ==
  /\ start \in DOMAIN parent /\ parent[start] = NoCell
  /\ \A c \in DOMAIN parent : c = start \/ Open(c)
  /\ \A c \in DOMAIN parent : \E m \in Nat :
       /\ c \in Ring(m)
       /\ m # 0 => /\ parent[c] \in DOMAIN parent /\ parent[c] \in Ring(m - 1)
                   /\ Open(c) /\ c \in Steps(parent[c])

(* The search when it has met all cells within m steps, and some a step    *)
(* further: it has the rest of those m steps away to come by (the first l  *)
(* of the queue), then cells a step further.                               *)
Frontier(m, l) ==
  /\ Ball[m] \subseteq DOMAIN parent /\ DOMAIN parent \subseteq Ball[m + 1]
  /\ l <= Len(queue)
  /\ \A d \in 1..Len(queue) : IF d <= l THEN queue[d] \in Ring(m) ELSE queue[d] \in Ring(m + 1)

(* The cells that were taken from the queue.                               *)
Passed(b) == b \in DOMAIN parent /\ \A d \in 1..Len(queue) : queue[d] # b

Search ==
  /\ queue \in Seq(DOMAIN parent)
  /\ \E m, l \in Nat : Frontier(m, l)
  /\ \A b : Passed(b) => b # end /\ \A c \in Steps(b) : Open(c) => c \in DOMAIN parent

(* The path as far as it goes back from the end.                           *)
Stretch ==
  /\ path \in Seq(DOMAIN parent)
  /\ \A m \in 2..Len(path) : Open(path[m]) /\ path[m] \in Steps(path[m - 1])
  /\ path # <<>> => path[Len(path)] = end

WayBack ==
  /\ Stretch
  /\ IF current = NoCell
     THEN path # <<>> /\ path[1] = start /\ end \in Ring(Len(path) - 1)
     ELSE /\ current \in DOMAIN parent
          /\ IF path = <<>> THEN current = end ELSE Open(path[1]) /\ path[1] \in Steps(current)
          /\ \E m \in Nat : current \in Ring(m) /\ end \in Ring(m + Len(path))

MazeInv ==
  program = "sixth" =>
    /\ phase \in {"start", "lines", "search", "back", "done", "error"}
    /\ file \in Files /\ start \in Cells /\ rows \in Int /\ cols \in Int
    /\ phase \in {"start", "lines", "error"} => parent = <<>>
    /\ phase \in {"start", "lines", "search"} => path = <<>>
    /\ phase = "start" => data = <<>>
    /\ phase = "lines" => rows > 0 /\ cols > 0 /\ data \in Seq([1..cols -> Int])
    /\ phase \in {"search", "back", "done"} => Mazed /\ Tree
    /\ phase = "search" => Search
    /\ phase = "back" => WayBack
    /\ phase = "done" => \/ path = <<>> /\ \A m \in Nat : end \notin Ball[m]
                         \/ path # <<>> /\ WayBack /\ current = NoCell

(* The invariant of the maze gives its types and its property.             *)
LEMMA MazeInvSuffices ==
  ASSUME MazeInv, program = "sixth"
  PROVE  TypeOK /\ PathIsShortest
<1>1. TypeOK
  <2>1. CASE phase \in {"start", "lines", "error"}
    <3>1. DOMAIN parent = {}
      BY <2>1 DEF MazeInv
    <3> QED BY <2>1, <3>1 DEF MazeInv, TypeOK
  <2>2. CASE phase \in {"search", "back", "done"}
    <3>1. Mazed /\ Tree /\ start \in Cells
      BY <2>2 DEF MazeInv
    <3>2. \A c \in DOMAIN parent : c \in Int \X Int
      <4> SUFFICES ASSUME NEW c \in DOMAIN parent PROVE c \in Int \X Int
        OBVIOUS
      <4>1. PICK m \in Nat : c \in Ring(m) /\ (m # 0 => c \in Steps(parent[c]))
        BY <3>1 DEF Tree
      <4>2. CASE m = 0
        BY <3>1, <4>1, <4>2, MazeAssumption DEF Ring
      <4>3. CASE m # 0
        BY <4>1, <4>3, StepsLaw
      <4> QED BY <4>2, <4>3
    <3>3. \A c \in DOMAIN parent : c = start \/ Open(c)
      BY <3>1 DEF Tree
    <3> QED BY <2>2, <3>1, <3>2, <3>3 DEF MazeInv, TypeOK, Mazed
  <2> QED BY <2>1, <2>2 DEF MazeInv
<1>2. PathIsShortest
  <2> SUFFICES ASSUME phase = "done"
               PROVE  IF path = <<>> THEN end \notin Ball[rows * cols]
                      ELSE /\ path[1] = start /\ path[Len(path)] = end
                           /\ \A m \in 2..Len(path) : Open(path[m]) /\ path[m] \in Steps(path[m - 1])
                           /\ Len(path) > 1 => end \notin Ball[Len(path) - 2]
    BY DEF PathIsShortest
  <2>1. CASE path = <<>>
    <3>1. rows \in Nat /\ cols \in Nat
      BY DEF MazeInv, Mazed
    <3>2. rows * cols \in Nat
      BY <3>1
    <3> QED BY <2>1, <3>2 DEF MazeInv, WayBack
  <2>2. CASE path # <<>>
    <3>1. WayBack /\ current = NoCell
      BY <2>2 DEF MazeInv
    <3>2. /\ path[1] = start /\ path[Len(path)] = end /\ path \in Seq(DOMAIN parent)
          /\ \A m \in 2..Len(path) : Open(path[m]) /\ path[m] \in Steps(path[m - 1])
          /\ end \in Ring(Len(path) - 1)
      BY <2>2, <3>1 DEF WayBack, Stretch
    <3>3. Len(path) \in Nat
      BY <3>2
    <3>4. ASSUME Len(path) > 1 PROVE end \notin Ball[Len(path) - 2]
      <4>1. Len(path) - 1 \in Nat /\ Len(path) - 2 \in Nat /\ ~(Len(path) - 1 <= Len(path) - 2)
        BY <3>3, <3>4
      <4> HIDE DEF Ring
      <4> QED BY <3>2, <4>1, RingLaw
    <3> QED BY <2>2, <3>2, <3>4
  <2> QED BY <2>1, <2>2
<1> QED BY <1>1, <1>2

(* It holds at first.                                                      *)
LEMMA MazeInit == PathsInit => MazeInv
BY InputsAssumption, MazeAssumption DEF PathsInit, Init, MazeInv

Has(s, c) == \E l \in 1..Len(s) : s[l] = c

(* One sequence behind another.                                            *)
LEMMA Appended ==
  ASSUME NEW T, NEW s \in Seq(T), NEW q \in Seq(T)
  PROVE  /\ s \o q \in Seq(T)
         /\ Len(s \o q) = Len(s) + Len(q)
         /\ \A l \in 1..(Len(s) + Len(q)) :
              (s \o q)[l] = IF l <= Len(s) THEN s[l] ELSE q[l - Len(s)]
         /\ \A c : Has(s \o q, c) <=> Has(s, c) \/ Has(q, c)
<1>1. /\ s \o q \in Seq(T)
      /\ Len(s \o q) = Len(s) + Len(q)
      /\ \A l \in 1..(Len(s) + Len(q)) :
           (s \o q)[l] = IF l <= Len(s) THEN s[l] ELSE q[l - Len(s)]
      /\ Len(s) \in Nat /\ Len(q) \in Nat
  OBVIOUS
<1> DEFINE r == s \o q
<1>2. /\ r \in Seq(T) /\ Len(r) = Len(s) + Len(q)
      /\ \A l \in 1..(Len(s) + Len(q)) : r[l] = IF l <= Len(s) THEN s[l] ELSE q[l - Len(s)]
  BY <1>1
<1> HIDE DEF r
<1>3. ASSUME NEW c, Has(r, c) PROVE Has(s, c) \/ Has(q, c)
  <2>1. PICK l \in 1..Len(r) : r[l] = c
    BY <1>3 DEF Has
  <2>2. CASE l <= Len(s)
    <3>1. l \in 1..Len(s) /\ s[l] = c
      BY <1>1, <1>2, <2>1, <2>2
    <3> QED BY <3>1 DEF Has
  <2>3. CASE ~(l <= Len(s))
    <3>1. l - Len(s) \in 1..Len(q) /\ q[l - Len(s)] = c
      BY <1>1, <1>2, <2>1, <2>3
    <3> QED BY <3>1 DEF Has
  <2> QED BY <2>2, <2>3
<1>4. ASSUME NEW c, Has(s, c) PROVE Has(r, c)
  <2>1. PICK l \in 1..Len(s) : s[l] = c
    BY <1>4 DEF Has
  <2>2. l \in 1..Len(r) /\ r[l] = c
    BY <1>1, <1>2, <2>1
  <2> QED BY <2>2 DEF Has
<1>5. ASSUME NEW c, Has(q, c) PROVE Has(r, c)
  <2>1. PICK l \in 1..Len(q) : q[l] = c
    BY <1>5 DEF Has
  <2>2. Len(s) + l \in 1..Len(r) /\ ~(Len(s) + l <= Len(s)) /\ (Len(s) + l) - Len(s) = l
    BY <1>1, <1>2, <2>1
  <2>3. r[Len(s) + l] = c
    BY <1>1, <1>2, <2>1, <2>2
  <2> QED BY <2>2, <2>3 DEF Has
<1> QED BY <1>2, <1>3, <1>4, <1>5 DEF r

(* The new cells in the order of the four directions.                      *)
LEMMA FourOf ==
  ASSUME NEW S \in SUBSET (1..4), NEW f
  PROVE  LET cell(d) == IF d \in S THEN <<f[d]>> ELSE <<>>
             cells == { f[d] : d \in S }
             s == cell(1) \o cell(2) \o cell(3) \o cell(4)
         IN  s \in Seq(cells) /\ \A c \in cells : Has(s, c)
<1> DEFINE cell(d) == IF d \in S THEN <<f[d]>> ELSE <<>>
           cells == { f[d] : d \in S }
<1>1. ASSUME NEW d \in 1..4 PROVE cell(d) \in Seq(cells) /\ (d \in S => Has(cell(d), f[d]))
  <2>1. CASE d \in S
    <3>1. cell(d) = <<f[d]>> /\ f[d] \in cells
      BY <2>1
    <3>2. <<f[d]>> \in Seq(cells) /\ Has(<<f[d]>>, f[d])
      <4> HIDE DEF cells
      <4>1. Len(<<f[d]>>) = 1 /\ <<f[d]>>[1] = f[d] /\ 1 \in 1..1
        OBVIOUS
      <4> QED BY <3>1, <4>1 DEF Has
    <3> HIDE DEF cell, cells
    <3> QED BY <3>1, <3>2
  <2>2. CASE d \notin S
    <3>1. cell(d) = <<>>
      BY <2>2
    <3> HIDE DEF cell, cells
    <3> QED BY <2>2, <3>1
  <2> QED BY <2>1, <2>2
<1>2. \A c \in cells : \E d \in S : c = f[d]
  OBVIOUS
<1> HIDE DEF cell, cells
<1>3. 1 \in 1..4 /\ 2 \in 1..4 /\ 3 \in 1..4 /\ 4 \in 1..4
  OBVIOUS
<1>4. /\ cell(1) \in Seq(cells) /\ cell(2) \in Seq(cells)
      /\ cell(3) \in Seq(cells) /\ cell(4) \in Seq(cells)
  BY <1>1, <1>3
<1> DEFINE s2 == cell(1) \o cell(2)
<1>5. s2 \in Seq(cells) /\ \A c : Has(s2, c) <=> Has(cell(1), c) \/ Has(cell(2), c)
  BY <1>4, Appended
<1> HIDE DEF s2
<1> DEFINE s3 == s2 \o cell(3)
<1>6. s3 \in Seq(cells) /\ \A c : Has(s3, c) <=> Has(s2, c) \/ Has(cell(3), c)
  BY <1>4, <1>5, Appended
<1> HIDE DEF s3
<1> DEFINE s4 == s3 \o cell(4)
<1>7. s4 \in Seq(cells) /\ \A c : Has(s4, c) <=> Has(s3, c) \/ Has(cell(4), c)
  BY <1>4, <1>6, Appended
<1> HIDE DEF s4
<1>8. ASSUME NEW c \in cells PROVE Has(s4, c)
  <2>1. PICK d \in S : c = f[d]
    BY <1>2
  <2>2. d = 1 \/ d = 2 \/ d = 3 \/ d = 4
    OBVIOUS
  <2>3. Has(cell(d), c)
    BY <1>1, <2>1
  <2> QED BY <1>5, <1>6, <1>7, <2>2, <2>3
<1>9. s4 = cell(1) \o cell(2) \o cell(3) \o cell(4)
  BY DEF s2, s3, s4
<1> QED BY <1>7, <1>8, <1>9 DEF cell, cells

-----------------------------------------------------------------------------
(* The next cell of the queue is one of the nearer ones, if need be those  *)
(* of the next ring.                                                       *)
LEMMA FrontierOn ==
  ASSUME Search, queue # <<>>
  PROVE  \E m, l \in Nat : Frontier(m, l) /\ l >= 1
<1> DEFINE D == DOMAIN parent
<1>1. queue \in Seq(D) /\ Len(queue) \in Nat /\ Len(queue) >= 1
  BY DEF Search
<1>2. PICK m \in Nat : \E l \in Nat : Frontier(m, l)
  BY DEF Search
<1>3. PICK l \in Nat : Frontier(m, l)
  BY <1>2
<1>4. CASE l >= 1
  BY <1>3, <1>4
<1>5. CASE l = 0
  <2>1. \A d \in 1..Len(queue) : queue[d] \in Ring(m + 1)
    BY <1>3, <1>5 DEF Frontier
  <2>2. Ball[m] \subseteq D /\ D \subseteq Ball[m + 1]
    BY <1>3 DEF Frontier
  <2>3. m + 1 \in Nat /\ (m + 1) - 1 = m /\ m + 1 \in Nat \ {0} /\ (m + 1) + 1 \in Nat /\ m + 1 <= (m + 1) + 1
    OBVIOUS
  <2>4. \A x \in Ball[m] : Passed(x)
    BY <2>1, <2>2, RingLaw DEF Passed
  <2>5. Ball[m + 1] \subseteq D
    <3>1. Ball[m + 1] = Wider(Ball[m])
      BY <2>3, BallLaw
    <3> SUFFICES ASSUME NEW c \in Ball[m + 1] PROVE c \in D
      OBVIOUS
    <3>2. c \in Ball[m] \/ (Open(c) /\ \E b \in Ball[m] : c \in Steps(b))
      BY <3>1, WiderLaw
    <3> QED BY <2>2, <2>4, <3>2 DEF Search
  <2>6. D \subseteq Ball[(m + 1) + 1]
    <3>1. Ball[m + 1] \subseteq Ball[(m + 1) + 1]
      BY <2>3, BallGrows
    <3> QED BY <2>2, <3>1
  <2>7. Frontier(m + 1, Len(queue))
    BY <1>1, <2>1, <2>5, <2>6 DEF Frontier
  <2> QED BY <1>1, <2>3, <2>7
<1> QED BY <1>4, <1>5

(* Expanding a cell keeps the tree and the frontier of the search.         *)
LEMMA ExpandLaw ==
  ASSUME Search, Tree, Expand
  PROVE  Search' /\ Tree'
<1> DEFINE b == Head(queue)
           D == DOMAIN parent
           S == { d \in neighbors(b) : Around(b)[d] \notin D }
           cell(d) == IF d \in S THEN <<Around(b)[d]>> ELSE <<>>
           cells == { Around(b)[d] : d \in S }
           s == cell(1) \o cell(2) \o cell(3) \o cell(4)
           Dn == DOMAIN parent'
<1>0. /\ start' = start /\ end' = end /\ UNCHANGED map
      /\ queue # <<>> /\ b # end
  BY DEF Expand, map
<1>1. queue' = Tail(queue) \o s
  BY DEF Expand, Queued
<1>2. parent' = [c \in D \cup cells |-> IF c \in cells THEN b ELSE parent[c]]
  BY DEF Expand
<1>3. Dn = D \cup cells
  BY <1>2
<1>4. S \in SUBSET (1..4)
  BY DEF neighbors
<1>5. s \in Seq(cells) /\ \A c \in cells : Has(s, c)
  <2> HIDE DEF S
  <2> QED BY <1>4, FourOf
<1>6. \A c : c \in cells <=> c \in Steps(b) /\ Open(c) /\ c \notin D
  <2>1. \A c : c \in Steps(b) <=> Inside(b) /\ \E d \in 1..4 : c = Around(b)[d]
    BY StepsLaw
  <2>2. \A d : d \in S <=> Inside(b) /\ d \in 1..4 /\ Open(Around(b)[d]) /\ Around(b)[d] \notin D
    BY DEF neighbors
  <2> HIDE DEF S
  <2>3. \A c : c \in cells <=> \E d \in S : c = Around(b)[d]
    OBVIOUS
  <2> HIDE DEF cells, b, D
  <2> QED BY <2>1, <2>2, <2>3
<1> HIDE DEF s, cells, S, cell
<1>7. queue \in Seq(D) /\ Len(queue) \in Nat /\ Len(queue) >= 1
  BY <1>0 DEF Search
<1>8. b = queue[1] /\ b \in D
  BY <1>7
<1>9. PICK m \in Nat : \E l \in Nat : Frontier(m, l) /\ l >= 1
  BY <1>0, FrontierOn
<1>10. PICK l \in Nat : Frontier(m, l) /\ l >= 1
  BY <1>9
<1>11. /\ Ball[m] \subseteq D /\ D \subseteq Ball[m + 1] /\ l <= Len(queue)
       /\ \A d \in 1..Len(queue) : IF d <= l THEN queue[d] \in Ring(m) ELSE queue[d] \in Ring(m + 1)
  BY <1>10 DEF Frontier
<1>12. b \in Ring(m)
  BY <1>7, <1>8, <1>10, <1>11
<1>13. m + 1 \in Nat /\ (m + 1) - 1 = m /\ m + 1 \in Nat \ {0} /\ m + 1 # 0
  OBVIOUS
<1>14. \A c \in cells : c \in Ring(m + 1)
  <2> SUFFICES ASSUME NEW c \in cells PROVE c \in Ring(m + 1)
    OBVIOUS
  <2>1. c \in Steps(b) /\ Open(c) /\ c \notin Ball[m]
    BY <1>6, <1>11
  <2>2. b \in Ball[m]
    BY <1>12, RingLaw
  <2>3. c \in Wider(Ball[m])
    BY <2>1, <2>2, WiderLaw
  <2>4. Ball[m + 1] = Wider(Ball[m])
    BY <1>13, BallLaw
  <2> QED BY <2>1, <2>3, <2>4, RingLaw
<1>15. /\ Tail(queue) \in Seq(D) /\ Len(Tail(queue)) = Len(queue) - 1
       /\ \A d \in 1..(Len(queue) - 1) : Tail(queue)[d] = queue[d + 1]
  BY <1>0, <1>7
<1>16. Tail(queue) \in Seq(Dn) /\ s \in Seq(Dn) /\ Len(s) \in Nat
  BY <1>3, <1>5, <1>15
<1> DEFINE rest == Tail(queue)
<1> HIDE DEF Dn
<1>a. rest \in Seq(Dn) /\ s \in Seq(Dn) /\ Len(rest) = Len(queue) - 1 /\ queue' = rest \o s
  BY <1>1, <1>15, <1>16
<1> HIDE DEF rest
<1>b. /\ rest \o s \in Seq(Dn)
      /\ Len(rest \o s) = Len(rest) + Len(s)
      /\ \A d \in 1..(Len(rest) + Len(s)) :
           (rest \o s)[d] = IF d <= Len(rest) THEN rest[d] ELSE s[d - Len(rest)]
      /\ \A c : Has(rest \o s, c) <=> Has(rest, c) \/ Has(s, c)
  BY <1>a, Appended
<1> USE DEF Dn
<1>17. /\ queue' \in Seq(Dn) /\ Len(queue') = (Len(queue) - 1) + Len(s)
       /\ \A d \in 1..((Len(queue) - 1) + Len(s)) :
            queue'[d] = IF d <= Len(queue) - 1 THEN Tail(queue)[d] ELSE s[d - (Len(queue) - 1)]
       /\ \A c : Has(queue', c) <=> Has(Tail(queue), c) \/ Has(s, c)
  BY <1>a, <1>b DEF rest
<1>18. ASSUME NEW d \in 1..Len(queue')
       PROVE  IF d <= l - 1 THEN queue'[d] \in Ring(m) ELSE queue'[d] \in Ring(m + 1)
  <2>1. CASE d <= Len(queue) - 1
    <3>1. d \in 1..(Len(queue) - 1) /\ d + 1 \in 1..Len(queue) /\ (d + 1 <= l <=> d <= l - 1)
      BY <1>7, <2>1
    <3>2. queue'[d] = queue[d + 1]
      BY <1>15, <1>17, <2>1, <3>1
    <3> QED BY <1>11, <3>1, <3>2
  <2>2. CASE ~(d <= Len(queue) - 1)
    <3>1. d - (Len(queue) - 1) \in 1..Len(s) /\ ~(d <= l - 1)
      BY <1>7, <1>11, <1>16, <1>17, <2>2
    <3>2. queue'[d] = s[d - (Len(queue) - 1)]
      BY <1>17, <2>2
    <3>3. queue'[d] \in cells
      BY <1>5, <3>1, <3>2
    <3> QED BY <1>14, <3>1, <3>3
  <2> QED BY <2>1, <2>2
<1>19. Frontier(m, l - 1)'
  <2>1. Ball[m] \subseteq Dn /\ Dn \subseteq Ball[m + 1]
    BY <1>3, <1>11, <1>14, RingLaw
  <2>2. l - 1 <= Len(queue')
    BY <1>7, <1>11, <1>16, <1>17
  <2> QED BY <1>0, <1>18, <2>1, <2>2, BallSame DEF Frontier
<1>20. ASSUME NEW x, Passed(x)'
       PROVE  x # end /\ \A c \in Steps(x) : Open(c) => c \in Dn
  <2>1. x \in Dn /\ ~Has(queue', x)
    BY <1>20 DEF Passed, Has
  <2>2. x \in D
    BY <1>3, <1>5, <1>17, <2>1
  <2>3. CASE x = b
    BY <1>0, <1>3, <1>6, <2>3
  <2>4. CASE x # b
    <3>1. ASSUME NEW d \in 1..Len(queue), queue[d] = x PROVE FALSE
      <4>1. d # 1
        BY <1>8, <2>4, <3>1
      <4>2. d - 1 \in 1..(Len(queue) - 1) /\ (d - 1) + 1 = d
        BY <1>7, <4>1
      <4>3. Tail(queue)[d - 1] = x
        BY <1>15, <3>1, <4>2
      <4>4. Has(Tail(queue), x)
        BY <1>15, <4>2, <4>3 DEF Has
      <4> QED BY <1>17, <2>1, <4>4
    <3>2. Passed(x)
      BY <2>2, <3>1 DEF Passed
    <3> QED BY <1>3, <3>2 DEF Search
  <2> QED BY <2>3, <2>4
<1>21. Search'
  <2>1. m \in Nat /\ l - 1 \in Nat
    BY <1>10
  <2>2. \E a, d \in Nat : Frontier(a, d)'
    BY <1>19, <2>1
  <2>3. \A x : Passed(x)' => x # end' /\ \A c \in Steps(x)' : Open(c)' => c \in Dn
    BY <1>0, <1>20, BallSame
  <2> QED BY <1>17, <2>2, <2>3 DEF Search
<1>22. ASSUME NEW c \in Dn
       PROVE  /\ c = start \/ Open(c)
              /\ \E a \in Nat :
                   /\ c \in Ring(a)
                   /\ a # 0 => /\ parent'[c] \in Dn /\ parent'[c] \in Ring(a - 1)
                               /\ Open(c) /\ c \in Steps(parent'[c])
  <2>1. CASE c \in cells
    <3>1. parent'[c] = b /\ b \in Dn
      BY <1>2, <1>3, <1>8, <2>1
    <3>2. c \in Ring(m + 1) /\ parent'[c] \in Ring((m + 1) - 1) /\ Open(c) /\ c \in Steps(parent'[c])
      BY <1>6, <1>12, <1>13, <1>14, <2>1, <3>1
    <3> QED BY <1>13, <3>1, <3>2
  <2>2. CASE c \notin cells
    <3>1. c \in D /\ parent'[c] = parent[c]
      BY <1>2, <1>3, <2>2
    <3> HIDE DEF Dn, D
    <3>2. PICK a \in Nat : /\ c \in Ring(a)
                           /\ a # 0 => /\ parent[c] \in D /\ parent[c] \in Ring(a - 1)
                                       /\ Open(c) /\ c \in Steps(parent[c])
      BY <3>1 DEF Tree, D
    <3>3. c = start \/ Open(c)
      BY <3>1 DEF Tree, D
    <3> QED BY <1>3, <3>1, <3>2, <3>3
  <2> QED BY <2>1, <2>2
<1>23. start \in Dn /\ parent'[start] = NoCell
  <2>1. start \in D /\ parent[start] = NoCell
    BY DEF Tree
  <2>2. start \notin cells
    BY <1>6, <2>1
  <2> QED BY <1>2, <1>3, <2>1, <2>2
<1>24. Tree'
  BY <1>0, <1>22, <1>23, BallSame DEF Tree, NoCell
<1> QED BY <1>21, <1>24

(* A cell of the tree is no NoCell.                                        *)
LEMMA CellsOfTheTree ==
  ASSUME Tree, start \in Cells, NEW c \in DOMAIN parent
  PROVE  c[1] \in Nat /\ c[1] # -1 /\ c # NoCell
<1>1. c = start \/ Open(c)
  BY DEF Tree
<1>2. c[1] \in Nat
  <2>1. CASE c = start
    BY <2>1, MazeAssumption
  <2>2. CASE Open(c)
    BY <2>2 DEF Open, Inside
  <2> QED BY <1>1, <2>1, <2>2
<1>3. NoCell[1] = -1
  BY DEF NoCell
<1> QED BY <1>2, <1>3

(* What does not move, while the map stays.                                *)
LEMMA TreeStays ==
  ASSUME start' = start, UNCHANGED map, parent' = parent
  PROVE  Tree' = Tree /\ Mazed' = Mazed
<1>1. Tree' = Tree
  <2>1. \A m : Ring(m)' = Ring(m)
    BY BallSame
  <2>2. \A c : Open(c)' = Open(c) /\ Steps(c)' = Steps(c)
    BY BallSame
  <2> HIDE DEF Ring, Open, Steps
  <2> QED BY <2>1, <2>2 DEF Tree, NoCell
<1> QED BY <1>1 DEF map, Mazed

(* The search begins with the start alone,                                 *)
LEMMA MapLoadedLaw ==
  ASSUME UNCHANGED map, start' = start,
         rows > 0, cols > 0, data \in Seq([1..cols -> Int]), Len(data) = rows,
         queue' = <<start>>, parent' = [c \in {start} |-> NoCell]
  PROVE  Mazed' /\ Tree' /\ Search'
<1>1. Mazed'
  <2>1. data \in [1..rows -> [1..cols -> Int]]
    OBVIOUS
  <2> QED BY <2>1 DEF Mazed, map
<1>2. DOMAIN parent' = {start} /\ parent'[start] = NoCell
  OBVIOUS
<1>3. start \in Ring(0)' /\ 0 \in Nat
  BY BallSame, RingLaw
<1>4. Tree'
  <2>1. start' \in DOMAIN parent' /\ parent'[start'] = NoCell'
    BY <1>2 DEF NoCell
  <2>2. \A c \in DOMAIN parent' : c = start'
    BY <1>2
  <2> QED BY <1>3, <2>1, <2>2 DEF Tree
<1>5. Len(queue') = 1 /\ queue'[1] = start /\ queue' \in Seq(DOMAIN parent')
  BY <1>2
<1>6. Frontier(0, 1)'
  <2>1. Ball'[0] = {start} /\ start \in Ball'[0 + 1]
    <3>1. Ball[0] = {start} /\ Ball[0] \subseteq Ball[1]
      BY BallLaw, BallGrows
    <3> QED BY <3>1, BallSame
  <2> QED BY <1>2, <1>3, <1>5, <2>1 DEF Frontier
<1>7. ASSUME NEW b, Passed(b)' PROVE FALSE
  BY <1>2, <1>5, <1>7 DEF Passed
<1> QED BY <1>1, <1>4, <1>5, <1>6, <1>7 DEF Search

(* ends when the end comes first,                                          *)
LEMMA FoundLaw ==
  ASSUME Search, Tree, path = <<>>, start \in Cells, Found
  PROVE  WayBack'
<1>0. /\ start' = start /\ end' = end /\ UNCHANGED map /\ parent' = parent /\ path' = <<>>
      /\ current' = end
  BY DEF Found, map
<1>1. end \in DOMAIN parent
  <2>1. queue \in Seq(DOMAIN parent) /\ queue # <<>> /\ Head(queue) = end
    BY DEF Search, Found
  <2> QED BY <2>1
<1>2. PICK m \in Nat : end \in Ring(m)
  BY <1>1 DEF Tree
<1>3. end \in Ring(m)' /\ end \in Ring(m + 0)' /\ m + 0 = m /\ Len(<<>>) = 0
  BY <1>2, BallSame, <1>0
<1>4. Stretch'
  BY <1>0 DEF Stretch
<1>5. current' # NoCell'
  BY <1>0, <1>1, CellsOfTheTree DEF NoCell
<1>6. current' \in DOMAIN parent' /\ (current \in Ring(m))' /\ (end \in Ring(m + Len(path)))'
  BY <1>0, <1>1, <1>3
<1> HIDE DEF Ring, Stretch
<1> QED BY <1>0, <1>4, <1>5, <1>6 DEF WayBack

(* or when nothing is left: then no ball holds the end.                    *)
LEMMA NoPathLaw ==
  ASSUME Search, Tree, queue = <<>>, NEW m \in Nat
  PROVE  end \notin Ball[m]
<1> DEFINE D == DOMAIN parent
<1>1. \A b \in D : Passed(b)
  BY DEF Passed
<1>2. \A b \in D : b # end /\ \A c \in Steps(b) : Open(c) => c \in D
  BY <1>1 DEF Search
<1>3. start \in D
  BY DEF Tree
<1>4. Ball[m] \subseteq D
  <2> HIDE DEF D
  <2> QED BY <1>2, <1>3, BallWithin
<1> QED BY <1>2, <1>4

(* The way back goes up the tree, a ring at a time.                        *)
LEMMA BackLaw ==
  ASSUME WayBack, Tree, start \in Cells, Back
  PROVE  WayBack'
<1> DEFINE D == DOMAIN parent
<1>0. /\ start' = start /\ end' = end /\ UNCHANGED map /\ parent' = parent
      /\ path' = <<current>> \o path /\ current' = parent[current] /\ current[1] # -1
  BY DEF Back, map
<1>1. current # NoCell
  BY <1>0 DEF NoCell
<1>2. /\ current \in D
      /\ IF path = <<>> THEN current = end ELSE Open(path[1]) /\ path[1] \in Steps(current)
      /\ \E m \in Nat : current \in Ring(m) /\ end \in Ring(m + Len(path))
  BY <1>1 DEF WayBack
<1>3. /\ path \in Seq(D)
      /\ \A m \in 2..Len(path) : Open(path[m]) /\ path[m] \in Steps(path[m - 1])
      /\ path # <<>> => path[Len(path)] = end
  BY DEF WayBack, Stretch
<1> HIDE DEF D
<1>4. /\ path' \in Seq(D) /\ Len(path') = Len(path) + 1 /\ path'[1] = current
      /\ \A m \in 1..Len(path) : path'[m + 1] = path[m]
      /\ Len(path) \in Nat /\ path' # <<>>
  <2>1. <<current>> \in Seq(D) /\ Len(<<current>>) = 1 /\ <<current>>[1] = current
    BY <1>2
  <2>2. path \in Seq(D) /\ Len(path) \in Nat
    BY <1>3
  <2> DEFINE one == <<current>>
  <2>3. one \in Seq(D) /\ Len(one) = 1 /\ one[1] = current /\ path' = one \o path
    BY <1>0, <2>1
  <2> HIDE DEF one
  <2>4. /\ one \o path \in Seq(D)
        /\ Len(one \o path) = Len(one) + Len(path)
        /\ \A m \in 1..(Len(one) + Len(path)) :
             (one \o path)[m] = IF m <= Len(one) THEN one[m] ELSE path[m - Len(one)]
    BY <2>2, <2>3, Appended
  <2>5. Len(path') = Len(path) + 1 /\ path' \in Seq(D)
    BY <2>2, <2>3, <2>4
  <2>6. path'[1] = current
    BY <2>2, <2>3, <2>4
  <2>7. ASSUME NEW m \in 1..Len(path) PROVE path'[m + 1] = path[m]
    <3>1. m + 1 \in 1..(Len(one) + Len(path)) /\ ~(m + 1 <= Len(one)) /\ (m + 1) - Len(one) = m
      BY <2>2, <2>3
    <3> QED BY <2>3, <2>4, <3>1
  <2> QED BY <2>2, <2>5, <2>6, <2>7
<1>5. \A m : Ring(m)' = Ring(m)
  BY <1>0, BallSame
<1>6. \A c : Open(c)' = Open(c) /\ Steps(c)' = Steps(c)
  BY <1>0, BallSame
<1>7. Stretch'
  <2>1. ASSUME NEW m \in 2..Len(path')
        PROVE  Open(path'[m]) /\ path'[m] \in Steps(path'[m - 1])
    <3>1. CASE m = 2
      <4>1. Len(path) >= 1 /\ path # <<>> /\ 1 \in 1..Len(path) /\ 1 + 1 = 2 /\ 2 - 1 = 1
        BY <1>3, <1>4, <3>1
      <4>2. path'[2] = path[1] /\ path'[1] = current
        BY <1>4, <4>1
      <4> QED BY <1>2, <3>1, <4>1, <4>2
    <3>2. CASE m # 2
      <4>1. /\ m - 1 \in 2..Len(path) /\ m - 1 \in 1..Len(path) /\ (m - 1) + 1 = m
            /\ (m - 1) - 1 \in 1..Len(path) /\ ((m - 1) - 1) + 1 = m - 1
        BY <1>4, <3>2
      <4>2. path'[m] = path[m - 1] /\ path'[m - 1] = path[(m - 1) - 1]
        BY <1>4, <4>1
      <4> QED BY <1>3, <4>1, <4>2
    <3> QED BY <3>1, <3>2
  <2>2. path'[Len(path')] = end
    <3>1. CASE path = <<>>
      BY <1>2, <1>4, <3>1
    <3>2. CASE path # <<>>
      <4>1. Len(path) \in 1..Len(path)
        BY <1>3, <3>2
      <4> QED BY <1>3, <1>4, <3>2, <4>1
    <3> QED BY <3>1, <3>2
  <2>3. (\A m \in 2..Len(path) : Open(path[m]) /\ path[m] \in Steps(path[m - 1]))'
    BY <1>6, <2>1
  <2> QED BY <1>0, <1>4, <2>1, <2>2, <1>6 DEF Stretch, D
<1>8. PICK m \in Nat : current \in Ring(m) /\ end \in Ring(m + Len(path))
  BY <1>2
<1>9. PICK a \in Nat : /\ current \in Ring(a)
                       /\ a # 0 => /\ parent[current] \in DOMAIN parent /\ parent[current] \in Ring(a - 1)
                                   /\ Open(current) /\ current \in Steps(parent[current])
  BY <1>2 DEF Tree, D
<1>10. a = m
  BY <1>8, <1>9, RingLaw
<1>11. CASE m = 0
  <2>1. current = start
    BY <1>8, <1>11, RingLaw
  <2>2. current' = NoCell'
    BY <1>0, <2>1 DEF Tree, NoCell
  <2>3. end \in Ring(Len(path') - 1)
    <3>1. m + Len(path) = Len(path') - 1
      BY <1>4, <1>11
    <3> QED BY <1>8, <3>1
  <2>4. (path[1] = start /\ end \in Ring(Len(path) - 1))'
    BY <1>0, <1>4, <1>5, <2>1, <2>3
  <2> QED BY <1>4, <1>7, <2>2, <2>4 DEF WayBack
<1>12. CASE m # 0
  <2>1. current' \in DOMAIN parent /\ current' \in Ring(m - 1) /\ Open(current) /\ current \in Steps(current')
    BY <1>0, <1>9, <1>10, <1>12
  <2>2. current' # NoCell
    BY <2>1, CellsOfTheTree
  <2>3. m - 1 \in Nat /\ (m - 1) + Len(path') = m + Len(path)
    BY <1>4, <1>12
  <2>4. (current \in Ring(m - 1) /\ end \in Ring((m - 1) + Len(path)))'
    BY <1>0, <1>5, <1>8, <2>1, <2>3
  <2>5. (Open(path[1]) /\ path[1] \in Steps(current))'
    BY <1>4, <1>6, <2>1
  <2>6. current' \in DOMAIN parent' /\ current' # NoCell'
    BY <1>0, <2>1, <2>2 DEF NoCell
  <2> QED BY <1>4, <1>7, <2>3, <2>4, <2>5, <2>6 DEF WayBack
<1> QED BY <1>11, <1>12

(* The invariant, for a fixed program: what each phase stands on.          *)
MazeCore ==
  /\ phase \in {"start", "lines", "search", "back", "done", "error"}
  /\ file \in Files /\ start \in Cells /\ rows \in Int /\ cols \in Int
  /\ phase \in {"start", "lines", "error"} => parent = <<>>
  /\ phase \in {"start", "lines", "search"} => path = <<>>
  /\ phase = "start" => data = <<>>
  /\ phase = "lines" => rows > 0 /\ cols > 0 /\ data \in Seq([1..cols -> Int])
  /\ phase \in {"search", "back", "done"} => Mazed /\ Tree
  /\ phase = "search" => Search
  /\ phase = "back" => WayBack
  /\ phase = "done" => \/ path = <<>> /\ \A m \in Nat : end \notin Ball[m]
                       \/ path # <<>> /\ WayBack /\ current = NoCell

(* Other steps do not touch the maze.                                      *)
LEMMA MazeStays ==
  ASSUME MazeCore, UNCHANGED vars
  PROVE  MazeCore'
<1>1. /\ phase' = phase /\ file' = file /\ start' = start /\ end' = end /\ rows' = rows /\ cols' = cols
      /\ data' = data /\ parent' = parent /\ path' = path /\ queue' = queue /\ current' = current
      /\ UNCHANGED map
  BY DEF vars, map, search
<1>2. /\ Ball' = Ball /\ \A m : Ring(m)' = Ring(m)
      /\ \A c : Open(c)' = Open(c) /\ Steps(c)' = Steps(c)
  BY <1>1, BallSame
<1>3. Tree' = Tree /\ Mazed' = Mazed
  BY <1>1, TreeStays
<1> HIDE DEF Ring, Open, Steps, Ball
<1>4. Search' = Search
  <2>1. \A m, l : Frontier(m, l)' = Frontier(m, l)
    BY <1>1, <1>2 DEF Frontier
  <2>2. \A b : Passed(b)' = Passed(b)
    BY <1>1 DEF Passed
  <2> HIDE DEF Frontier, Passed
  <2> QED BY <1>1, <1>2, <2>1, <2>2 DEF Search
<1>5. WayBack' = WayBack
  BY <1>1, <1>2 DEF WayBack, Stretch, NoCell
<1> HIDE DEF Tree, Mazed, Search, WayBack
<1> QED BY <1>1, <1>2, <1>3, <1>4, <1>5 DEF MazeCore, NoCell

(* The invariant while the file is read,                                   *)
LEMMA MazeReads ==
  ASSUME MazeCore, ReadHeader \/ ReadLine
  PROVE  MazeCore'
<1>0. file \in Files /\ start \in Cells /\ rows \in Int /\ cols \in Int
  BY DEF MazeCore
<1>1. CASE ReadHeader
  <2>1. /\ phase = "start" /\ file' = file /\ start' = start /\ data' = data
        /\ parent' = parent /\ path' = path
        /\ rows' = IF Len(file.header) > 0 THEN file.header[1] ELSE rows
        /\ cols' = IF Len(file.header) > 1 THEN file.header[2] ELSE cols
        /\ IF file.empty \/ rows' <= 0 \/ cols' <= 0 THEN phase' = "error" ELSE phase' = "lines"
    BY <1>1 DEF ReadHeader, Throw, search
  <2>2. file.header \in Seq(Int)
    BY <1>0, MazeAssumption
  <2>3. rows' \in Int /\ cols' \in Int
    BY <1>0, <2>1, <2>2
  <2>4. parent = <<>> /\ path = <<>> /\ data = <<>>
    BY <2>1 DEF MazeCore
  <2>5. data' \in Seq([1..cols' -> Int])
    BY <2>1, <2>4
  <2>6. phase' = "error" \/ (phase' = "lines" /\ rows' > 0 /\ cols' > 0)
    <3>1. \/ file.empty \/ rows' <= 0 \/ cols' <= 0
          \/ rows' > 0 /\ cols' > 0
      BY <2>3
    <3> QED BY <2>1, <2>3, <3>1
  <2> QED BY <1>0, <2>1, <2>3, <2>4, <2>5, <2>6 DEF MazeCore
<1>2. CASE ReadLine
  <2>1. /\ phase = "lines" /\ Len(data) < Len(file.lines)
        /\ file' = file /\ start' = start /\ rows' = rows /\ cols' = cols
        /\ parent' = parent /\ path' = path
        /\ LET line == file.lines[Len(data) + 1]
           IN  IF Len(line) = cols THEN data' = Append(data, line) /\ phase' = phase
                                   ELSE phase' = "error" /\ data' = data
    BY <1>2 DEF ReadLine, Throw, search, Fits
  <2>2. rows > 0 /\ cols > 0 /\ data \in Seq([1..cols -> Int]) /\ parent = <<>> /\ path = <<>>
    BY <2>1 DEF MazeCore
  <2>3. file.lines \in Seq(Seq(Int))
    BY <1>0, MazeAssumption
  <2> DEFINE line == file.lines[Len(data) + 1]
  <2>4. line \in Seq(Int)
    <3>1. Len(data) + 1 \in 1..Len(file.lines)
      BY <2>1, <2>2, <2>3
    <3> QED BY <2>3, <3>1
  <2>5. IF Len(line) = cols THEN data' = Append(data, line) /\ phase' = phase
                            ELSE phase' = "error" /\ data' = data
    BY <2>1
  <2> HIDE DEF line
  <2>6. CASE Len(line) = cols
    <3>1. line \in [1..cols -> Int]
      BY <2>4, <2>6
    <3> DEFINE T == [1..cols -> Int]
    <3>2. data \in Seq(T) /\ line \in T
      BY <2>2, <3>1
    <3> HIDE DEF T
    <3>3. Append(data, line) \in Seq(T)
      BY <3>2
    <3>4. data' \in Seq([1..cols' -> Int])
      BY <2>1, <2>5, <2>6, <3>3 DEF T
    <3> QED BY <1>0, <2>1, <2>2, <2>5, <2>6, <3>4 DEF MazeCore
  <2>7. CASE Len(line) # cols
    BY <1>0, <2>1, <2>2, <2>5, <2>7 DEF MazeCore
  <2> QED BY <2>6, <2>7
<1> QED BY <1>1, <1>2

(* while the search runs,                                                  *)
LEMMA MazeSearches ==
  ASSUME MazeCore, MapLoaded \/ Expand
  PROVE  MazeCore'
<1>0. file \in Files /\ start \in Cells /\ rows \in Int /\ cols \in Int
  BY DEF MazeCore
<1>1. CASE MapLoaded
  <2>1. /\ phase = "lines" /\ Len(data) = Len(file.lines) /\ file' = file /\ start' = start
        /\ UNCHANGED map /\ rows' = rows /\ cols' = cols /\ data' = data
        /\ end' = end /\ path' = path
        /\ IF Len(data) = rows
           THEN phase' = "search" /\ queue' = <<start>> /\ parent' = [c \in {start} |-> NoCell]
           ELSE phase' = "error" /\ queue' = queue /\ parent' = parent
    BY <1>1 DEF MapLoaded, Throw, map
  <2>2. rows > 0 /\ cols > 0 /\ data \in Seq([1..cols -> Int]) /\ parent = <<>> /\ path = <<>>
    BY <2>1 DEF MazeCore
  <2>3. CASE Len(data) = rows
    <3>1. Mazed' /\ Tree' /\ Search'
      BY <2>1, <2>2, <2>3, MapLoadedLaw
    <3> HIDE DEF Mazed, Tree, Search, WayBack
    <3> QED BY <1>0, <2>1, <2>2, <2>3, <3>1 DEF MazeCore
  <2>4. CASE Len(data) # rows
    BY <1>0, <2>1, <2>2, <2>4 DEF MazeCore
  <2> QED BY <2>3, <2>4
<1>2. CASE Expand
  <2>1. /\ phase = "search" /\ phase' = phase /\ file' = file /\ start' = start /\ UNCHANGED map
        /\ rows' = rows /\ cols' = cols /\ path' = path
    BY <1>2 DEF Expand, map
  <2>2. Mazed /\ Tree /\ Search /\ path = <<>>
    BY <2>1 DEF MazeCore
  <2>3. Search' /\ Tree'
    BY <1>2, <2>2, ExpandLaw
  <2>4. Mazed'
    BY <2>1, <2>2 DEF Mazed, map
  <2> HIDE DEF Mazed, Tree, Search, WayBack
  <2> QED BY <1>0, <2>1, <2>2, <2>3, <2>4 DEF MazeCore
<1> QED BY <1>1, <1>2

(* while the path is read off the parents,                                 *)
LEMMA MazeReturns ==
  ASSUME MazeCore, Found \/ NoPath \/ Back \/ Return
  PROVE  MazeCore'
<1>0. file \in Files /\ start \in Cells /\ rows \in Int /\ cols \in Int
  BY DEF MazeCore
<1>1. /\ file' = file /\ start' = start /\ end' = end /\ UNCHANGED map /\ parent' = parent
      /\ rows' = rows /\ cols' = cols /\ data' = data /\ phase \in {"search", "back"}
  BY DEF Found, NoPath, Back, Return, map, search
<1>2. Mazed /\ Tree
  BY <1>1 DEF MazeCore
<1>3. Mazed' /\ Tree'
  BY <1>1, <1>2, TreeStays
<1>4. Ball' = Ball /\ \A m : Ring(m)' = Ring(m)
  BY <1>1, BallSame
<1>5. /\ file' \in Files /\ start' \in Cells /\ rows' \in Int /\ cols' \in Int
  BY <1>0, <1>1
<1> HIDE DEF Mazed, Tree, Search, Ball
<1>6. CASE Found
  <2>1. phase = "search" /\ phase' = "back"
    BY <1>6 DEF Found
  <2>2. Search /\ path = <<>>
    BY <2>1 DEF MazeCore
  <2>3. WayBack'
    BY <1>0, <1>2, <1>6, <2>2, FoundLaw
  <2> HIDE DEF WayBack
  <2> QED BY <1>3, <1>5, <2>1, <2>3 DEF MazeCore
<1>7. CASE NoPath
  <2>1. phase = "search" /\ phase' = "done" /\ queue = <<>> /\ path' = path
    BY <1>7 DEF NoPath, search
  <2>2. Search /\ path = <<>>
    BY <2>1 DEF MazeCore
  <2>3. \A m \in Nat : end \notin Ball[m]
    BY <1>2, <2>1, <2>2, NoPathLaw
  <2>4. path' = <<>> /\ \A m \in Nat : end' \notin Ball'[m]
    BY <1>1, <1>4, <2>1, <2>2, <2>3
  <2> HIDE DEF WayBack
  <2> QED BY <1>3, <1>5, <2>1, <2>4 DEF MazeCore
<1>8. CASE Back
  <2>1. phase = "back" /\ phase' = "back"
    BY <1>8 DEF Back
  <2>2. WayBack
    BY <2>1 DEF MazeCore
  <2>3. WayBack'
    BY <1>0, <1>2, <1>8, <2>2, BackLaw
  <2> HIDE DEF WayBack
  <2> QED BY <1>3, <1>5, <2>1, <2>3 DEF MazeCore
<1>9. CASE Return
  <2>1. phase = "back" /\ phase' = "done" /\ path' = path /\ current' = current /\ current[1] = -1
    BY <1>9 DEF Return, search
  <2>2. WayBack
    BY <2>1 DEF MazeCore
  <2>3. current = NoCell
    <3>1. ASSUME current \in DOMAIN parent PROVE FALSE
      BY <1>0, <1>2, <2>1, <3>1, CellsOfTheTree
    <3> QED BY <2>2, <3>1 DEF WayBack
  <2>4. path # <<>>
    BY <2>2, <2>3 DEF WayBack
  <2>5. \A c : Open(c)' = Open(c) /\ Steps(c)' = Steps(c)
    BY <1>1, BallSame
  <2>6. WayBack'
    <3> HIDE DEF Ring, Open, Steps
    <3> QED BY <1>1, <1>4, <2>1, <2>2, <2>5 DEF WayBack, Stretch, NoCell
  <2>7. path' # <<>> /\ current' = NoCell'
    BY <2>1, <2>3, <2>4 DEF NoCell
  <2> HIDE DEF WayBack
  <2> QED BY <1>3, <1>5, <2>1, <2>6, <2>7 DEF MazeCore
<1> QED BY <1>6, <1>7, <1>8, <1>9

(* and in every step.                                                      *)
LEMMA MazeNext ==
  ASSUME MazeInv, [PathsNext \/ Terminated]_PathsVars
  PROVE  MazeInv'
<1>1. program' = program
  BY LoopSteps
<1>2. CASE program = "sixth"
  <2>1. MazeCore
    BY <1>2 DEF MazeInv, MazeCore
  <2>2. UNCHANGED vars \/ Next
    <3>1. PathsNext => Next
      BY <1>2 DEF PathsNext
    <3>2. UNCHANGED PathsVars => UNCHANGED vars
      BY DEF PathsVars
    <3>3. Terminated => UNCHANGED PathsVars
      BY DEF Terminated
    <3> QED BY <3>1, <3>2, <3>3
  <2>3. MazeCore'
    BY <2>1, <2>2, MazeStays, MazeReads, MazeSearches, MazeReturns DEF Next
  <2> QED BY <2>3 DEF MazeInv, MazeCore
<1>3. CASE program # "sixth"
  BY <1>1, <1>3 DEF MazeInv
<1> QED BY <1>2, <1>3

(* The maze program answers with a shortest path, and with none only where *)
(* there is none: whatever the map, the start and the end.                 *)
THEOREM PathsMazePathIsShortest == PathsSpec => []MazePathIsShortest
<1>1. MazeInv => MazePathIsShortest
  BY MazeInvSuffices DEF MazePathIsShortest
<1> QED BY <1>1, MazeInit, MazeNext, PTL DEF PathsSpec

-----------------------------------------------------------------------------
(* The program tenth: the types of what it keeps beside the matrix.        *)
NoVertex == Tenth!NoVertex
Tables == [V -> [V -> V \cup {NoVertex}]]

TenthTypes ==
  program = "tenth" =>
    /\ pc \in {"start", "relax", "walk", "analyze", "done", "error", "undefined"}
    /\ IF pc = "start" THEN next = <<>> ELSE next \in Tables
    /\ pc \in {"walk", "analyze", "done"} => k > n
    /\ pc = "walk" => u \in V /\ v \in V
    /\ u \in 1..(n + 1) /\ v \in 1..(n + 1) /\ walked \in Seq(V)
    /\ at \in 1..(n + 1) /\ components \in Seq(SUBSET V)
    /\ Len(printed) \in Nat /\ Len(printed) <= Len(components)

(* They hold at first,                                                     *)
LEMMA TenthTypesInit == PathsInit => TenthTypes
<1> SUFFICES ASSUME PathsInit, program = "tenth" PROVE TenthTypes
  BY DEF TenthTypes
<1>1. pc = "start" /\ next = <<>> /\ u = 1 /\ v = 1 /\ walked = <<>> /\ at = 1
      /\ components = <<>> /\ printed = <<>>
  BY DEF PathsInit, Tenth!New
<1>2. n \in Nat
  <2>1. Loops
    BY LoopsInit
  <2> QED BY <2>1, LoopsWeighed, WeighedFacts
<1>3. 1 \in 1..(n + 1) /\ <<>> \in Seq(V) /\ <<>> \in Seq(SUBSET V) /\ Len(<<>>) = 0
  BY <1>2
<1> QED BY <1>1, <1>3 DEF TenthTypes

(* The steps of the program tenth, with what instances rename undone.      *)
Routing == next' = IF Improves THEN [next EXCEPT ![i][j] = next[i][k]] ELSE next

Rest == <<u, v, walked, at, components, printed>>

(* Every step of the program is one of these, or changes none of it.       *)
LEMMA TenthSteps ==
  ASSUME [PathsNext \/ Terminated]_PathsVars, program = "tenth"
  PROVE  /\ program' = program /\ graph' = graph
         /\ \/ UNCHANGED <<pc, loops, next, Rest>>
            \/ /\ pc = "start" /\ Initialize /\ pc' = "relax" /\ UNCHANGED Rest
               /\ next' = [x \in V |-> [y \in V |-> IF is_edge(graph, x, y) THEN y ELSE NoVertex]]
            \/ pc = "relax" /\ pc' = "relax" /\ Relax /\ Routing /\ UNCHANGED Rest
            \/ pc = "relax" /\ pc' = "undefined" /\ UNCHANGED <<loops, next, Rest>>
            \/ UNCHANGED <<loops, next>> /\ \E a, b \in 1..(n + 1) : Tenth!Reconstruct(a, b)
            \/ UNCHANGED <<loops, next>> /\ Tenth!Walk
            \/ UNCHANGED <<loops, next>> /\ Tenth!WalkEnd
            \/ UNCHANGED <<loops, next>> /\ Tenth!Component
            \/ UNCHANGED <<loops, next>> /\ Tenth!Describe
            \/ UNCHANGED <<loops, next>> /\ Tenth!Finish
<1>0. program' = program /\ graph' = graph
  BY LoopSteps
<1>1. UNCHANGED PathsVars => UNCHANGED <<pc, loops, next, Rest>>
  BY DEF PathsVars, vars10, Rest
<1>2. Terminated => UNCHANGED PathsVars
  BY DEF Terminated
<1>3. ASSUME Tenth!Next PROVE
         \/ /\ pc = "start" /\ Initialize /\ pc' = "relax" /\ UNCHANGED Rest
            /\ next' = [x \in V |-> [y \in V |-> IF is_edge(graph, x, y) THEN y ELSE NoVertex]]
         \/ pc = "relax" /\ pc' = "relax" /\ Relax /\ Routing /\ UNCHANGED Rest
         \/ pc = "relax" /\ pc' = "undefined" /\ UNCHANGED <<loops, next, Rest>>
         \/ UNCHANGED <<loops, next>> /\ \E a, b \in 1..(n + 1) : Tenth!Reconstruct(a, b)
         \/ UNCHANGED <<loops, next>> /\ Tenth!Walk
         \/ UNCHANGED <<loops, next>> /\ Tenth!WalkEnd
         \/ UNCHANGED <<loops, next>> /\ Tenth!Component
         \/ UNCHANGED <<loops, next>> /\ Tenth!Describe
         \/ UNCHANGED <<loops, next>> /\ Tenth!Finish
  <2>1. CASE Tenth!Construct
    <3>1. \A x, y : Tenth!is_edge(graph, x, y) = is_edge(graph, x, y)
      BY DEF Tenth!is_edge, is_edge, Tenth!weight, weight
    <3>2. Tenth!V = V
      BY TenthReads
    <3> HIDE DEF Initialize
    <3> QED BY <2>1, <3>1, <3>2, TenthActs DEF Tenth!Construct, NoVertex, Rest
  <2>2. CASE Tenth!RelaxCell
    <3> HIDE DEF Relax, Improves
    <3> QED BY <2>2, TenthActs DEF Tenth!RelaxCell, Routing, Rest, Tenth!Via
  <2>3. CASE Tenth!OverflowCell
    BY <2>3, TenthActs DEF Tenth!OverflowCell, Rest
  <2>4. CASE \E a, b \in 1..(n + 1) : Tenth!Reconstruct(a, b)
    <3>1. UNCHANGED <<loops, next>>
      BY <2>4, TenthActs DEF Tenth!Reconstruct, Tenth!loops, loops
    <3> QED BY <2>4, <3>1
  <2>5. CASE Tenth!Walk
    BY <2>5 DEF Tenth!Walk, Tenth!loops, loops
  <2>6. CASE Tenth!WalkEnd
    BY <2>6 DEF Tenth!WalkEnd, Tenth!loops, loops
  <2>7. CASE Tenth!Component
    BY <2>7 DEF Tenth!Component, Tenth!loops, loops
  <2>8. CASE Tenth!Describe
    BY <2>8 DEF Tenth!Describe, Tenth!loops, loops
  <2>9. CASE Tenth!Finish
    BY <2>9 DEF Tenth!Finish, Tenth!loops, loops
  <2>10. Tenth!n = n
    BY TenthReads
  <2> QED BY <1>3, <2>1, <2>2, <2>3, <2>4, <2>5, <2>6, <2>7, <2>8, <2>9, <2>10 DEF Tenth!Next
<1>4. PathsNext => Tenth!Next
  BY DEF PathsNext
<1> QED BY <1>0, <1>1, <1>2, <1>3, <1>4

(* and each step keeps them:                                               *)
LEMMA TenthTypesNext ==
  ASSUME Loops, TenthTypes, [PathsNext \/ Terminated]_PathsVars
  PROVE  TenthTypes'
<1>0. program' = program /\ graph' = graph
  BY LoopSteps
<1>1. SUFFICES ASSUME program = "tenth" PROVE TenthTypes'
  BY <1>0 DEF TenthTypes
<1>2. n \in Nat /\ V = 1..n /\ n' = n /\ V' = V /\ Weighed
  BY <1>0, <1>1, LoopsWeighed, WeighedFacts, GraphSame
<1>3. Tables' = Tables /\ NoVertex' = NoVertex
  BY <1>2 DEF Tables, NoVertex, Tenth!NoVertex
<1>4. /\ pc \in {"start", "relax", "walk", "analyze", "done", "error", "undefined"}
      /\ IF pc = "start" THEN next = <<>> ELSE next \in Tables
      /\ pc \in {"walk", "analyze", "done"} => k > n
      /\ pc = "walk" => u \in V /\ v \in V
      /\ u \in 1..(n + 1) /\ v \in 1..(n + 1) /\ walked \in Seq(V)
      /\ at \in 1..(n + 1) /\ components \in Seq(SUBSET V)
      /\ Len(printed) \in Nat /\ Len(printed) <= Len(components)
  BY <1>1 DEF TenthTypes
<1>5. Tenth!V = V /\ Tenth!n = n /\ Tenth!NoVertex = NoVertex
  BY TenthReads DEF NoVertex
<1> DEFINE Q == TenthTypes'
<1>6. CASE UNCHANGED <<pc, loops, next, Rest>>
  BY <1>0, <1>1, <1>2, <1>3, <1>4, <1>6 DEF TenthTypes, loops, Rest
<1>7. CASE /\ pc = "start" /\ Initialize /\ pc' = "relax" /\ UNCHANGED Rest
           /\ next' = [x \in V |-> [y \in V |-> IF is_edge(graph, x, y) THEN y ELSE NoVertex]]
  <2>1. next' \in Tables
    BY <1>7 DEF Tables
  <2> HIDE DEF Initialize, Tables
  <2> QED BY <1>0, <1>1, <1>2, <1>3, <1>4, <1>7, <2>1 DEF TenthTypes, Rest
<1>8. CASE pc = "relax" /\ pc' = "relax" /\ Relax /\ Routing /\ UNCHANGED Rest
  <2>1. i \in V /\ j \in V /\ k \in V
    <3>1. Shaped
      BY <1>1, <1>8 DEF Loops, Fresh
    <3> QED BY <1>2, <1>8, <3>1, RelaxCases
  <2>2. next \in Tables
    BY <1>4, <1>8
  <2>3. next' \in Tables
    BY <1>8, <2>1, <2>2 DEF Routing, Tables
  <2> HIDE DEF Relax, Tables
  <2> QED BY <1>0, <1>1, <1>2, <1>3, <1>4, <1>8, <2>3 DEF TenthTypes, Rest
<1>9. CASE pc = "relax" /\ pc' = "undefined" /\ UNCHANGED <<loops, next, Rest>>
  BY <1>0, <1>1, <1>2, <1>3, <1>4, <1>9 DEF TenthTypes, loops, Rest
<1>10. ASSUME UNCHANGED <<loops, next>>, NEW a \in 1..(n + 1), NEW b \in 1..(n + 1), Tenth!Reconstruct(a, b)
       PROVE  TenthTypes'
  <2>1. /\ pc = "relax" /\ k > n /\ u' = a /\ v' = b
        /\ at' = at /\ components' = components /\ printed' = printed /\ k' = k /\ next' = next
        /\ IF a \in V /\ b \in V
           THEN IF next[a][b] = NoVertex THEN pc' = "analyze" /\ walked' = walked
                                         ELSE pc' = "walk" /\ walked' = <<a>>
           ELSE pc' = "undefined" /\ walked' = walked
    BY <1>5, <1>10 DEF Tenth!Reconstruct, loops
  <2>2. walked' \in Seq(V)
    <3>1. walked' = walked \/ (a \in V /\ walked' = <<a>>)
      BY <2>1
    <3>2. walked \in Seq(V) /\ (a \in V => <<a>> \in Seq(V))
      BY <1>4
    <3> QED BY <3>1, <3>2
  <2> HIDE DEF Tables
  <2> QED BY <1>0, <1>1, <1>2, <1>3, <1>4, <1>10, <2>1, <2>2 DEF TenthTypes
<1>11. CASE UNCHANGED <<loops, next>> /\ Tenth!Walk
  <2>1. /\ pc = "walk" /\ v' = v /\ next' = next /\ k' = k
        /\ at' = at /\ components' = components /\ printed' = printed
        /\ \/ pc' \in {"undefined", "error"} /\ u' = u /\ walked' = walked
           \/ next[u][v] # NoVertex /\ u' = next[u][v] /\ walked' = Append(walked, u') /\ pc' = pc
    BY <1>5, <1>11 DEF Tenth!Walk, loops
  <2>2. next \in Tables /\ u \in V /\ v \in V
    BY <1>4, <2>1
  <2>3. next[u][v] \in V \cup {NoVertex}
    BY <2>2 DEF Tables
  <2>4. CASE pc' \in {"undefined", "error"} /\ u' = u /\ walked' = walked
    BY <1>0, <1>1, <1>2, <1>3, <1>4, <2>1, <2>2, <2>4 DEF TenthTypes
  <2>5. CASE next[u][v] # NoVertex /\ u' = next[u][v] /\ walked' = Append(walked, u') /\ pc' = pc
    <3>1. u' \in V /\ u' \in 1..(n + 1)
      BY <1>2, <2>3, <2>5
    <3>2. walked' \in Seq(V)
      BY <1>4, <2>5, <3>1
    <3> HIDE DEF Tables
    <3> QED BY <1>0, <1>1, <1>2, <1>3, <1>4, <2>1, <2>2, <2>5, <3>1, <3>2 DEF TenthTypes
  <2> QED BY <2>1, <2>4, <2>5
<1>12. CASE UNCHANGED <<loops, next>> /\ Tenth!WalkEnd
  BY <1>0, <1>1, <1>2, <1>3, <1>4, <1>12 DEF TenthTypes, Tenth!WalkEnd, loops
<1>13. CASE UNCHANGED <<loops, next>> /\ Tenth!Component
  <2>1. /\ pc = "analyze" /\ at <= n /\ at' = at + 1 /\ pc' = pc /\ u' = u /\ v' = v /\ walked' = walked
        /\ printed' = printed /\ next' = next /\ k' = k
        /\ \/ components' = components
           \/ components' = Append(components, { y \in V \ Tenth!Visited : Tenth!InReach(at, y) })
    BY <1>5, <1>13 DEF Tenth!Component, loops
  <2>2. at' \in 1..(n + 1)
    BY <1>2, <1>4, <2>1
  <2>3. components' \in Seq(SUBSET V) /\ Len(components') >= Len(components)
    <3> DEFINE T == { y \in V \ Tenth!Visited : Tenth!InReach(at, y) }
               P == SUBSET V
    <3>1. T \in P /\ components \in Seq(P)
      BY <1>4
    <3>2. components' = components \/ components' = Append(components, T)
      BY <2>1
    <3> HIDE DEF T, P
    <3>3. components' \in Seq(P) /\ Len(components') >= Len(components)
      BY <3>1, <3>2
    <3> QED BY <3>3 DEF P
  <2>4. Len(printed) <= Len(components')
    <3>1. Len(components) \in Nat /\ Len(components') \in Nat
      BY <1>4, <2>3
    <3> QED BY <1>4, <2>3, <3>1
  <2> HIDE DEF Tables
  <2> QED BY <1>0, <1>1, <1>2, <1>3, <1>4, <2>1, <2>2, <2>3, <2>4 DEF TenthTypes
<1>14. CASE UNCHANGED <<loops, next>> /\ Tenth!Describe
  <2>1. /\ pc = "analyze" /\ at > n /\ Len(printed) < Len(components)
        /\ at' = at /\ components' = components /\ u' = u /\ v' = v /\ walked' = walked
        /\ next' = next /\ k' = k
        /\ \/ pc' = "undefined" /\ printed' = printed
           \/ pc' = pc /\ \E r : printed' = Append(printed, r)
    BY <1>5, <1>14 DEF Tenth!Describe, loops
  <2>2. Len(printed') \in Nat /\ Len(printed') <= Len(components')
    <3>1. CASE printed' = printed
      BY <1>4, <2>1, <3>1
    <3>2. ASSUME NEW r, printed' = Append(printed, r) PROVE Len(printed') = Len(printed) + 1
      BY <3>2
    <3> QED BY <1>4, <2>1, <3>1, <3>2
  <2> HIDE DEF Tables
  <2> QED BY <1>0, <1>1, <1>2, <1>3, <1>4, <2>1, <2>2 DEF TenthTypes
<1>15. CASE UNCHANGED <<loops, next>> /\ Tenth!Finish
  BY <1>0, <1>1, <1>2, <1>3, <1>4, <1>15 DEF TenthTypes, Tenth!Finish, loops
<1> HIDE DEF TenthTypes, Initialize, Relax, Routing, Rest
<1> QED BY <1>1, <1>6, <1>7, <1>8, <1>9, <1>10, <1>11, <1>12, <1>13, <1>14, <1>15, TenthSteps

(* which are the types FloydWarshallAnalyzer states.                       *)
LEMMA TenthTyped ==
  ASSUME Loops, TenthTypes, program = "tenth"
  PROVE  Tenth!TypeOK
<1>1. LoopsTypeOK
  BY LoopsTyped
<1>2. Tenth!LoopsTypeOK
  BY <1>1 DEF Tenth!LoopsTypeOK, LoopsTypeOK, Tenth!V, Tenth!Vertices, V, Vertices, Tenth!n, n,
              Tenth!Ints, Ints
<1> HIDE DEF Tables
<1>3. /\ pc \in {"start", "relax", "walk", "analyze", "done", "error", "undefined"}
      /\ next \in Tables \/ next = <<>>
      /\ {u, v} \subseteq 1..(n + 1) /\ walked \in Seq(V)
      /\ at \in 1..(n + 1) /\ components \in Seq(SUBSET V) /\ Len(printed) <= Len(components)
  BY DEF TenthTypes
<1> QED BY <1>2, <1>3, TenthReads DEF Tenth!TypeOK, Tables, NoVertex

(* Every variable stays in its type, whichever program runs.               *)
THEOREM PathsTypesOK == PathsSpec => []PathsTypeOK
<1> DEFINE Inv == Loops /\ FourthInv /\ TenthTypes /\ MazeInv
<1>1. PathsInit => Inv
  BY LoopsInit, FourthInit, TenthTypesInit, MazeInit
<1>2. Inv /\ [PathsNext \/ Terminated]_PathsVars => Inv'
  BY LoopsNext, FourthNext, TenthTypesNext, MazeNext
<1>3. Inv => PathsTypeOK
  BY FourthTyped, TenthTyped, MazeInvSuffices DEF PathsTypeOK
<1> QED
  <2> HIDE DEF Inv
  <2> QED BY <1>1, <1>2, <1>3, PTL DEF PathsSpec

-----------------------------------------------------------------------------
(* What the table of next vertices says when a pass begins: where there is *)
(* a way, it is an edge to the target, or to an inner vertex from which it *)
(* is as much shorter as the edge is long; and h, never above m, falls.    *)
Leads(S, x, y, t) ==
  /\ y \in V /\ SeenEdge(x, y)
  /\ IF y = t THEN Shortest(S, x, t) = w(x, y)
     ELSE /\ y \in S /\ Shortest(S, y, t) # INT_MAX
          /\ Shortest(S, x, t) = w(x, y) + Shortest(S, y, t)

NoWay(x, y, t) == y = NoVertex \/ (y = t /\ is_edge(graph, x, t) /\ weight(graph, x, t) = INT_MAX)

Falling(h, x, y, t) == y # t => h[y][t] < h[x][t]

Routes(S, N, h, m) ==
  \A x, t \in V : x # t =>
    IF Shortest(S, x, t) = INT_MAX THEN NoWay(x, N[x][t], t)
    ELSE Leads(S, x, N[x][t], t) /\ Falling(h, x, N[x][t], t)

HasRoutes(S, N) == \E m \in Nat : \E h \in [V -> [V -> 1..m]] : Routes(S, N, h, m)

(* The first table holds the edges.                                        *)
LEMMA FirstRoutes ==
  ASSUME Weighed,
         NEW N, N = [x \in V |-> [y \in V |-> IF is_edge(graph, x, y) THEN y ELSE NoVertex]]
  PROVE  HasRoutes({}, N)
<1> DEFINE h == [x \in V |-> [t \in V |-> 1]]
<1>1. h \in [V -> [V -> 1..1]] /\ 1 \in Nat
  OBVIOUS
<1>2. SUFFICES Routes({}, N, h, 1)
  BY <1>1 DEF HasRoutes
<1> HIDE DEF h
<1> SUFFICES ASSUME NEW x \in V, NEW t \in V, x # t
             PROVE  IF Shortest({}, x, t) = INT_MAX THEN NoWay(x, N[x][t], t)
                    ELSE Leads({}, x, N[x][t], t) /\ Falling(h, x, N[x][t], t)
  BY DEF Routes
<1>3. Shortest({}, x, t) = Initial(x, t)
  BY ShortestFirst
<1>4. N[x][t] = IF is_edge(graph, x, t) THEN t ELSE NoVertex
  OBVIOUS
<1> HIDE DEF is_edge, weight
<1> QED BY <1>3, <1>4 DEF Initial, NoWay, Leads, Falling, SeenEdge, w

(* A way by an inner vertex is no shorter.                                 *)
LEMMA ByOne ==
  ASSUME Sane, NEW S \in SUBSET V, Attained(S), NEW y \in S, NEW x \in V, NEW t \in V,
         SeenEdge(x, y), y # t, Shortest(S, y, t) # INT_MAX
  PROVE  Shortest(S, x, t) <= w(x, y) + Shortest(S, y, t) /\ Shortest(S, x, t) # INT_MAX
<1>0. Weighed /\ y \in V /\ ~Home(y, t)
  BY DEF Sane, Home
<1>1. Shortest(S, y, t) \in Lengths(S, y, t)
  BY <1>0, ShortestFacts
<1>2. PICK c \in Lengths(S \cup {y}, x, t) : c <= w(x, y) + Shortest(S, y, t)
  BY <1>0, <1>1, EdgeAndWalk
<1>3. S \cup {y} = S
  OBVIOUS
<1>4. c \in Int /\ Shortest(S, x, t) <= c /\ Shortest(S, x, t) < INT_MAX
  BY <1>0, <1>2, <1>3, ShortestFacts DEF Attained
<1>5. Shortest(S, x, t) \in Int /\ Shortest(S, y, t) \in Int
  BY <1>0, ShortestFacts
<1>6. w(x, y) \in Int /\ INT_MAX \in Int
  BY <1>0, WeighedFacts
<1> QED BY <1>2, <1>4, <1>5, <1>6

(* An edge and what follows it is a way.                                   *)
LEMMA ByEdge ==
  ASSUME Weighed, NEW S \in SUBSET V, NEW x \in V, NEW t \in V, SeenEdge(x, t)
  PROVE  Shortest(S, x, t) <= w(x, t)
<1>1. w(x, t) \in Lengths({}, x, t)
  BY NoInner
<1>2. w(x, t) \in Lengths(S, x, t)
  <2>1. {} \in SUBSET V /\ {} \subseteq S
    OBVIOUS
  <2> QED BY <1>1, <2>1, LengthsMore
<1> QED BY <1>2, ShortestFacts

-----------------------------------------------------------------------------
(* The pass for z.                                                         *)
Improved(S, z, x, t) == Shortest(S \cup {z}, x, t) < Shortest(S, x, t)

PassedTo(S, z, N, x, t) == IF Improved(S, z, x, t) THEN N[x][z] ELSE N[x][t]

(* What the pass for z makes of one entry.                                 *)
LEMMA PassFacts ==
  ASSUME Sane, NEW S \in SUBSET V, Attained(S), NEW z \in V, z \notin S, NEW x \in V, NEW t \in V
  PROVE  /\ Shortest(S \cup {z}, x, t) \in Int /\ Shortest(S, x, t) \in Int
         /\ Shortest(S, x, z) \in Int /\ Shortest(S, z, t) \in Int
         /\ Shortest(S \cup {z}, x, t) <= Shortest(S, x, t)
         /\ Shortest(S, x, t) <= INT_MAX
         /\ Shortest(S, x, z) # INT_MAX /\ Shortest(S, z, t) # INT_MAX =>
              Shortest(S \cup {z}, x, t) <= Shortest(S, x, z) + Shortest(S, z, t)
         /\ Shortest(S \cup {z}, x, z) = Shortest(S, x, z)
         /\ Shortest(S \cup {z}, z, t) = Shortest(S, z, t)
<1>0. Weighed /\ S \cup {z} \in SUBSET V /\ INT_MAX \in Int
  BY IntAssumption DEF Sane
<1>1. /\ Shortest(S \cup {z}, x, t) \in Int /\ Shortest(S, x, t) \in Int /\ Shortest(S, x, t) <= INT_MAX
      /\ Shortest(S, x, z) \in Int /\ Shortest(S, z, t) \in Int /\ Shortest(S, z, z) \in Int
  BY <1>0, ShortestFacts
<1>2. Shortest(S, z, z) >= 0
  BY NotBelowZero
<1>3. /\ Shortest(S \cup {z}, x, t) = Relaxed(Shortest(S, x, z), Shortest(S, z, t), Shortest(S, x, t))
      /\ Shortest(S \cup {z}, x, z) = Relaxed(Shortest(S, x, z), Shortest(S, z, z), Shortest(S, x, z))
      /\ Shortest(S \cup {z}, z, t) = Relaxed(Shortest(S, z, z), Shortest(S, z, t), Shortest(S, z, t))
  BY PassLaw
<1>4. /\ Shortest(S \cup {z}, x, z) = Shortest(S, x, z)
      /\ Shortest(S \cup {z}, z, t) = Shortest(S, z, t)
  BY <1>1, <1>2, <1>3 DEF Relaxed, Better
<1>6. /\ Shortest(S \cup {z}, x, t) <= Shortest(S, x, t)
      /\ Shortest(S, x, z) # INT_MAX /\ Shortest(S, z, t) # INT_MAX =>
           Shortest(S \cup {z}, x, t) <= Shortest(S, x, z) + Shortest(S, z, t)
  BY <1>0, <1>1, <1>3 DEF Relaxed, Better
<1> QED BY <1>1, <1>4, <1>6

(* If the way became shorter, it goes by z;                                *)
LEMMA Gained ==
  ASSUME Sane, NEW S \in SUBSET V, Attained(S), NEW z \in V, z \notin S, NEW x \in V, NEW t \in V,
         Improved(S, z, x, t)
  PROVE  /\ Shortest(S, x, z) # INT_MAX /\ Shortest(S, z, t) # INT_MAX
         /\ Shortest(S \cup {z}, x, t) = Shortest(S, x, z) + Shortest(S, z, t)
         /\ x # z /\ t # z
<1>1. /\ Shortest(S \cup {z}, x, t) = Relaxed(Shortest(S, x, z), Shortest(S, z, t), Shortest(S, x, t))
      /\ Shortest(S \cup {z}, x, t) < Shortest(S, x, t)
  BY PassLaw DEF Improved
<1>2. Shortest(S, x, t) \in Int
  BY PassFacts
<1>3. x # z /\ t # z
  <2>1. Shortest(S \cup {z}, x, z) = Shortest(S, x, z) /\ Shortest(S \cup {z}, z, t) = Shortest(S, z, t)
    BY PassFacts
  <2> QED BY <1>1, <1>2, <2>1
<1> QED BY <1>1, <1>2, <1>3 DEF Relaxed, Better

(* if it did not, it is as it was.                                         *)
LEMMA NotGained ==
  ASSUME Sane, NEW S \in SUBSET V, Attained(S), NEW z \in V, z \notin S, NEW x \in V, NEW t \in V,
         ~Improved(S, z, x, t)
  PROVE  Shortest(S \cup {z}, x, t) = Shortest(S, x, t)
<1>1. ~(Shortest(S \cup {z}, x, t) < Shortest(S, x, t))
  BY DEF Improved
<1>2. /\ Shortest(S \cup {z}, x, t) \in Int /\ Shortest(S, x, t) \in Int
      /\ Shortest(S \cup {z}, x, t) <= Shortest(S, x, t)
  BY PassFacts
<1> QED BY <1>1, <1>2

(* What an edge is followed by is as long afterwards, if nothing is gained. *)
LEMMA NothingGained ==
  ASSUME NEW e \in Int, NEW a \in Int, NEW b \in Int, a <= b, e + b <= e + a
  PROVE  a = b
OBVIOUS

(* What was found stays found.                                             *)
LEMMA NothingLost ==
  ASSUME NEW e \in Int, NEW c \in Int, NEW f \in Int, NEW q \in Int,
         c <= f + q, (e + f) + q <= e + c
  PROVE  c = f + q /\ (e + f) + q = e + c
OBVIOUS

(* So a step of the table that is kept still leads on,                     *)
LEMMA RouteKept ==
  ASSUME Sane, NEW S \in SUBSET V, Attained(S), NEW z \in V, z \notin S, Attained(S \cup {z}),
         NEW x \in V, NEW t \in V, ~Improved(S, z, x, t), Shortest(S, x, t) # INT_MAX,
         NEW y \in V, Leads(S, x, y, t)
  PROVE  Leads(S \cup {z}, x, y, t) /\ (y # t => ~Improved(S, z, y, t))
<1> DEFINE R == S \cup {z}
<1>0. Weighed /\ R \in SUBSET V /\ INT_MAX \in Int
  BY IntAssumption DEF Sane
<1>1. Shortest(R, x, t) = Shortest(S, x, t) /\ Shortest(S, x, t) \in Int
  <2>1. Shortest(S \cup {z}, x, t) = Shortest(S, x, t)
    BY NotGained
  <2>2. Shortest(S, x, t) \in Int
    BY PassFacts
  <2> QED BY <2>1, <2>2
<1>2. CASE y = t
  BY <1>1, <1>2 DEF Leads
<1>3. CASE y # t
  <2>1. /\ SeenEdge(x, y) /\ y \in S /\ Shortest(S, y, t) # INT_MAX
        /\ Shortest(S, x, t) = w(x, y) + Shortest(S, y, t)
    BY <1>3 DEF Leads
  <2>2. /\ Shortest(R, y, t) \in Int /\ Shortest(S, y, t) \in Int
        /\ Shortest(R, y, t) <= Shortest(S, y, t) /\ Shortest(S, y, t) <= INT_MAX
    BY PassFacts
  <2>3. w(x, y) \in Int
    BY <1>0, WeighedFacts
  <2>4. y \in R /\ Attained(R)
    BY <2>1
  <2> HIDE DEF R
  <2>5. Shortest(R, y, t) # INT_MAX
    BY <1>0, <2>1, <2>2
  <2>6. Shortest(R, x, t) <= w(x, y) + Shortest(R, y, t)
    BY <1>0, <1>3, <2>1, <2>4, <2>5, ByOne
  <2>7. w(x, y) + Shortest(S, y, t) <= w(x, y) + Shortest(R, y, t)
    BY <1>1, <2>1, <2>6
  <2>8. Shortest(R, y, t) = Shortest(S, y, t)
    BY <2>2, <2>3, <2>7, NothingGained
  <2>9. ~Improved(S, z, y, t)
    BY <2>2, <2>8 DEF Improved, R
  <2>10. Leads(R, x, y, t)
    BY <1>1, <1>3, <2>1, <2>4, <2>5, <2>8 DEF Leads
  <2> QED BY <2>9, <2>10 DEF R
<1> QED BY <1>2, <1>3

(* and one that is taken over from the entry for z does now;               *)
LEMMA RouteTaken ==
  ASSUME Sane, NEW S \in SUBSET V, Attained(S), NEW z \in V, z \notin S, Attained(S \cup {z}),
         NEW x \in V, NEW t \in V, x # t, Improved(S, z, x, t),
         NEW y \in V, Leads(S, x, y, z)
  PROVE  Leads(S \cup {z}, x, y, t) /\ y # t
<1> DEFINE R == S \cup {z}
           p == Shortest(S, x, z)
           q == Shortest(S, z, t)
<1>0. Weighed /\ R \in SUBSET V /\ INT_MAX \in Int
  BY IntAssumption DEF Sane
<1>1. /\ Shortest(R, x, t) \in Int /\ Shortest(S, x, t) \in Int /\ p \in Int /\ q \in Int
      /\ Shortest(S, x, t) <= INT_MAX
  BY PassFacts
<1>2. p # INT_MAX /\ q # INT_MAX /\ Shortest(R, x, t) = p + q /\ x # z /\ t # z
  BY SMTT(30), <1>0, Gained
<1>3. Shortest(R, z, t) = q
  BY PassFacts
<1>4. Shortest(R, x, t) < Shortest(S, x, t)
  BY DEF Improved
<1>5. SeenEdge(x, y) /\ w(x, y) \in Int
  BY <1>0, WeighedFacts DEF Leads
<1>6. z \in R /\ S \subseteq R /\ Attained(R)
  OBVIOUS
<1>7. y # t
  <2> SUFFICES ASSUME y = t PROVE FALSE
    OBVIOUS
  <2> DEFINE f == Shortest(S, t, z)
             o == Shortest(R, t, t)
             e == w(x, t)
  <2>1. f # INT_MAX /\ p = e + f
    BY <1>2 DEF Leads
  <2>2. Shortest(S, x, t) <= e
    BY <1>0, <1>5, ByEdge
  <2>3. o <= f + q /\ f \in Int /\ o \in Int
    BY <1>2, <2>1, PassFacts
  <2>4. o >= 0
    BY <1>0, NotBelowZero
  <2>5. e \in Int
    BY <1>5
  <2>6. (e + f) + q < e
    <3> DEFINE a == Shortest(R, x, t)
               b == Shortest(S, x, t)
    <3>1. a \in Int /\ b \in Int /\ a < b /\ b <= e /\ a = p + q /\ p = e + f
      BY <1>1, <1>2, <1>4, <2>1, <2>2
    <3> HIDE DEF a, b, e, f, p, q
    <3> QED BY <1>1, <2>3, <2>5, <3>1
  <2> HIDE DEF e, f, o, p, q
  <2> QED BY <1>1, <2>3, <2>4, <2>5, <2>6
<1>8. CASE y = z
  <2>1. p = w(x, z)
    BY <1>8 DEF Leads
  <2> HIDE DEF R, p, q
  <2>2. Leads(R, x, y, t)
    BY <1>2, <1>3, <1>5, <1>6, <1>7, <1>8, <2>1 DEF Leads
  <2> QED BY <1>7, <2>2 DEF R
<1>9. CASE y # z
  <2> DEFINE f == Shortest(S, y, z)
             c == Shortest(R, y, t)
             e == w(x, y)
  <2>1. y \in S /\ f # INT_MAX /\ p = e + f
    BY <1>9 DEF Leads
  <2>2. c <= f + q /\ f \in Int /\ c \in Int
    BY <1>2, <2>1, PassFacts
  <2>3. \E l \in Lengths(R, y, t) : TRUE
    <3>1. f \in Lengths(S, y, z)
      <4>1. ~Home(y, z)
        BY <1>9 DEF Home
      <4> QED BY <1>0, <2>1, <4>1, ShortestFacts
    <3>2. q \in Lengths(S, z, t)
      <4>1. ~Home(z, t)
        BY <1>2 DEF Home
      <4> QED BY <1>0, <1>2, <4>1, ShortestFacts
    <3>3. \E l \in Lengths(S \cup {z}, y, t) : l <= f + q
      <4> HIDE DEF f, q
      <4> QED BY <3>1, <3>2, Joined
    <3> QED BY <3>3
  <2>4. c # INT_MAX
    <3>1. c < INT_MAX
      BY <1>6, <2>3 DEF Attained
    <3> QED BY <1>0, <2>2, <3>1
  <2>5. y \in R
    BY <2>1
  <2>6. Shortest(R, x, t) <= e + c
    <3> HIDE DEF R
    <3> QED BY <1>0, <1>5, <1>6, <1>7, <2>4, <2>5, ByOne
  <2>7. (e + f) + q <= e + c
    BY <1>2, <2>1, <2>6
  <2>8. c = f + q /\ (e + f) + q = e + c
    <3>1. e \in Int /\ q \in Int
      BY <1>1, <1>5
    <3> HIDE DEF e, c, f, q
    <3> QED BY <2>2, <2>7, <3>1, NothingLost
  <2>9. Shortest(R, x, t) = e + c
    BY <1>2, <2>1, <2>8
  <2>10. Leads(R, x, y, t)
    <3> HIDE DEF R
    <3> QED BY <1>5, <1>7, <2>4, <2>5, <2>9 DEF Leads
  <2> QED BY <1>7, <2>10
<1> QED BY <1>8, <1>9

(* with ranks that first descend to z and then from z.                     *)
LEMMA PassRoutes ==
  ASSUME Sane, NEW S \in SUBSET V, Attained(S), NEW z \in V, z \notin S, Attained(S \cup {z}),
         NEW N, HasRoutes(S, N), NEW Nn, \A x, t \in V : Nn[x][t] = PassedTo(S, z, N, x, t)
  PROVE  HasRoutes(S \cup {z}, Nn)
<1>a. PICK m \in Nat : \E h \in [V -> [V -> 1..m]] : Routes(S, N, h, m)
  BY DEF HasRoutes
<1>b. PICK h \in [V -> [V -> 1..m]] : Routes(S, N, h, m)
  BY <1>a
<1> DEFINE R == S \cup {z}
           g == [x \in V |-> [t \in V |-> IF Improved(S, z, x, t) THEN h[x][z] + m ELSE h[x][t]]]
<1>1. \A x, t \in V : h[x][t] \in Int /\ 1 <= h[x][t] /\ h[x][t] <= m /\ h[x][t] \in 1..m
  OBVIOUS
<1>2. g \in [V -> [V -> 1..(m + m)]]
  <2>1. ASSUME NEW x \in V, NEW t \in V
        PROVE  (IF Improved(S, z, x, t) THEN h[x][z] + m ELSE h[x][t]) \in 1..(m + m)
    <3> HIDE DEF Improved
    <3> QED BY <1>1
  <2> QED BY <2>1
<1>3. \A x, t \in V : g[x][t] = IF Improved(S, z, x, t) THEN h[x][z] + m ELSE h[x][t]
  OBVIOUS
<1> HIDE DEF g
<1>4. ASSUME NEW x \in V, NEW t \in V, x # t
      PROVE  IF Shortest(R, x, t) = INT_MAX THEN NoWay(x, Nn[x][t], t)
             ELSE Leads(R, x, Nn[x][t], t) /\ Falling(g, x, Nn[x][t], t)
  <2>1. CASE ~Improved(S, z, x, t)
    <3>1. Nn[x][t] = N[x][t] /\ g[x][t] = h[x][t]
      BY <1>3, <2>1 DEF PassedTo
    <3>2. Shortest(R, x, t) = Shortest(S, x, t)
      BY <2>1, NotGained
    <3> DEFINE y == N[x][t]
    <3>3. IF Shortest(S, x, t) = INT_MAX THEN NoWay(x, y, t)
          ELSE Leads(S, x, y, t) /\ Falling(h, x, y, t)
      BY <1>4, <1>b DEF Routes
    <3>4. CASE Shortest(S, x, t) = INT_MAX
      BY <3>1, <3>2, <3>3, <3>4
    <3>5. CASE Shortest(S, x, t) # INT_MAX
      <4>1. y \in V /\ Leads(S, x, y, t) /\ Falling(h, x, y, t)
        BY <3>3, <3>5 DEF Leads
      <4> HIDE DEF y
      <4>2. Leads(R, x, y, t) /\ (y # t => ~Improved(S, z, y, t))
        BY <2>1, <3>5, <4>1, RouteKept
      <4>3. Falling(g, x, y, t)
        BY <1>3, <3>1, <4>1, <4>2 DEF Falling
      <4> QED BY <3>1, <3>2, <3>5, <4>2, <4>3 DEF y
    <3> QED BY <3>4, <3>5
  <2>2. CASE Improved(S, z, x, t)
    <3> DEFINE y == N[x][z]
    <3>1. Nn[x][t] = y /\ g[x][t] = h[x][z] + m
      BY <1>3, <2>2 DEF PassedTo
    <3>2. x # z /\ Shortest(S, x, z) # INT_MAX
      BY <2>2, Gained
    <3>3. Leads(S, x, y, z) /\ Falling(h, x, y, z) /\ y \in V
      BY <1>b, <3>2 DEF Routes, Leads
    <3> HIDE DEF y
    <3>4. Leads(R, x, y, t) /\ y # t
      BY <1>4, <2>2, <3>3, RouteTaken
    <3>5. Shortest(R, x, t) # INT_MAX
      <4>1. /\ Shortest(R, x, t) \in Int /\ Shortest(S, x, t) \in Int /\ Shortest(S, x, t) <= INT_MAX
        BY PassFacts
      <4>2. Shortest(R, x, t) < Shortest(S, x, t) /\ INT_MAX \in Int
        BY <2>2, IntAssumption DEF Improved
      <4> QED BY <4>1, <4>2
    <3>6. Falling(g, x, y, t)
      <4>1. /\ h[y][z] \in Int /\ h[x][z] \in Int /\ h[y][t] \in Int /\ h[y][t] <= m /\ 1 <= h[x][z]
        BY <1>1, <3>3
      <4>2. g[y][t] = IF Improved(S, z, y, t) THEN h[y][z] + m ELSE h[y][t]
        BY <1>3, <3>3
      <4>3. y = z => ~Improved(S, z, y, t)
        <5>1. Shortest(S \cup {z}, z, t) = Shortest(S, z, t) /\ Shortest(S, z, t) \in Int
          BY PassFacts
        <5> QED BY <5>1 DEF Improved
      <4>4. y # z => h[y][z] < h[x][z]
        BY <3>3 DEF Falling
      <4> HIDE DEF Improved
      <4>5. g[y][t] < g[x][t]
        BY <3>1, <4>1, <4>2, <4>3, <4>4
      <4> QED BY <4>5 DEF Falling
    <3> HIDE DEF R
    <3> QED BY <3>1, <3>4, <3>5, <3>6
  <2> QED BY <2>1, <2>2
<1>5. Routes(R, Nn, g, m + m)
  BY <1>4 DEF Routes
<1>6. m + m \in Nat
  OBVIOUS
<1> QED BY <1>2, <1>5, <1>6 DEF HasRoutes

(* The table T in the pass for c, where the loops stand at row a, column b. *)
TableOf(T, N, a, b, c) ==
  \A x, t \in V : T[x][t] = IF Done(x, t, a, b) THEN PassedTo(1..(c - 1), c, N, x, t) ELSE N[x][t]

Routed(T, a, b, c) ==
  \E N \in Tables : HasRoutes(1..(c - 1), N) /\ TableOf(T, N, a, b, c)

(* All this depends on the graph, the loops and the table only.            *)
LEMMA RoutedSame ==
  ASSUME graph' = graph
  PROVE  /\ Routed(next, i, j, k)' <=> Routed(next', i', j', k')
         /\ Tables' = Tables
<1>1. V' = V /\ (\A S, x, t : Shortest(S, x, t)' = Shortest(S, x, t)) /\ NoVertex' = NoVertex
  BY GraphSame DEF NoVertex, Tenth!NoVertex
<1>2. Tables' = Tables
  BY <1>1 DEF Tables
<1>3. \A S, x, y, t : Leads(S, x, y, t)' = Leads(S, x, y, t)
  <2>1. \A x, y : SeenEdge(x, y)' = SeenEdge(x, y) /\ w(x, y)' = w(x, y)
    BY DEF SeenEdge, is_edge, weight, w
  <2> HIDE DEF SeenEdge, w
  <2> QED BY <1>1, <2>1 DEF Leads
<1>4. \A x, y, t : NoWay(x, y, t)' = NoWay(x, y, t)
  BY <1>1 DEF NoWay, is_edge, weight
<1>5. \A S, N, h, m : Routes(S, N, h, m)' = Routes(S, N, h, m)
  <2> HIDE DEF Leads, NoWay
  <2> QED BY <1>1, <1>3, <1>4 DEF Routes, Falling
<1>6. \A S, z, N, x, t : PassedTo(S, z, N, x, t)' = PassedTo(S, z, N, x, t)
  BY <1>1 DEF PassedTo, Improved
<1>7. \A N : TableOf(next, N, i, j, k)' = TableOf(next', N, i', j', k')
  <2> HIDE DEF PassedTo
  <2> QED BY <1>1, <1>6 DEF TableOf, Done
<1>8. \A S, N : HasRoutes(S, N)' = HasRoutes(S, N)
  <2> HIDE DEF Routes
  <2> QED BY <1>1, <1>5 DEF HasRoutes
<1> HIDE DEF Tables, HasRoutes, TableOf
<1> QED BY <1>1, <1>2, <1>7, <1>8 DEF Routed

(* An iteration takes the step that belongs to the entry it writes.        *)
LEMMA RelaxRouted ==
  ASSUME Fair, Shaped, Relax, graph' = graph, Settled(dist, i, j, k),
         Routing, next \in Tables, Routed(next, i, j, k)
  PROVE  Routed(next, i, j, k)'
<1> DEFINE T == next'
           before == 1..(k - 1)
           At(x, t) == x < i \/ (x = i /\ (t < j \/ t = j \/ dist[i][k] = INT_MAX))
<1>0. n \in Nat /\ V = 1..n /\ Weighed /\ Sane
  BY WeighedFacts DEF Fair, Sane
<1>1. k \in V /\ i \in V /\ j \in V
  BY <1>0, RelaxCases
<1>4. /\ before \in SUBSET V /\ k \notin before /\ Attained(before) /\ 1..k = before \cup {k}
  BY <1>0, <1>1, RowAndColumn DEF Settled
<1>a. ASSUME NEW t \in V
      PROVE  /\ dist[i][k] = Shortest(before, i, k)
             /\ dist[k][t] = Shortest(before, k, t)
             /\ t >= j => dist[i][t] = Shortest(before, i, t)
  BY <1>0, <1>1, CellLaw
<1> HIDE DEF before
<1>5. /\ dist[i][k] = Shortest(before, i, k)
      /\ dist[k][j] = Shortest(before, k, j)
      /\ dist[i][j] = Shortest(before, i, j)
  <2>1. j >= j
    BY <1>0, <1>1
  <2> QED BY <1>1, <1>a, <2>1
<1>6. \A x, t \in V : Done(x, t, i, j) <=> x < i \/ (x = i /\ t < j)
  BY DEF Done
<1>7. Improves <=> Improved(before, k, i, j)
  <2>1. Improves <=> Better(dist[i][k], dist[k][j], dist[i][j])
    BY DEF Improves, Connected, Sum, Better
  <2>2. Shortest(before \cup {k}, i, j) = Relaxed(dist[i][k], dist[k][j], dist[i][j])
    <3>1. Shortest(before \cup {k}, i, j)
            = Relaxed(Shortest(before, i, k), Shortest(before, k, j), Shortest(before, i, j))
      BY <1>0, <1>1, <1>4, PassLaw
    <3> QED BY <1>5, <3>1
  <2>3. dist[i][j] \in Int
    <3>1. Shortest(before, i, j) \in Int
      BY <1>0, <1>1, <1>4, PassFacts
    <3> QED BY <1>5, <3>1
  <2> QED BY <1>5, <2>1, <2>2, <2>3 DEF Improved, Relaxed, Better
<1>b. ~Improved(before, k, i, k)
  <2>1. Shortest(before \cup {k}, i, k) = Shortest(before, i, k)
    <3>1. Attained(1..(k - 1))
      BY <1>4 DEF before
    <3>2. Shortest(1..k, i, k) = Shortest(1..(k - 1), i, k)
      BY <1>0, <1>1, <3>1, RowAndColumn
    <3>3. Shortest(1..k, i, k) = Shortest(before, i, k)
      BY <3>2 DEF before
    <3> QED BY <1>4, <3>3
  <2>2. Shortest(before, i, k) \in Int
    BY <1>0, <1>1, <1>4, ShortestFacts
  <2> QED BY <2>1, <2>2 DEF Improved
<1>3. PICK N \in Tables : HasRoutes(before, N) /\ TableOf(next, N, i, j, k)
  BY DEF Routed, before
<1>8. /\ next[i][k] = N[i][k] /\ next[i][j] = N[i][j]
  <2>1. ~Done(i, j, i, j)
    BY <1>0, <1>1, <1>6
  <2>3. PassedTo(before, k, N, i, k) = N[i][k]
    BY <1>b DEF PassedTo
  <2> QED BY <1>1, <1>3, <2>1, <2>3 DEF TableOf, before
<1>9. \A x, t \in V : T[x][t] = IF x = i /\ t = j THEN PassedTo(before, k, N, i, j) ELSE next[x][t]
  <2>1. CASE Improves
    <3>1. PassedTo(before, k, N, i, j) = N[i][k]
      BY <1>7, <2>1 DEF PassedTo
    <3>2. next' = [next EXCEPT ![i][j] = next[i][k]]
      BY <2>1 DEF Routing
    <3> QED BY <1>1, <1>8, <3>1, <3>2 DEF Tables
  <2>2. CASE ~Improves
    <3>1. PassedTo(before, k, N, i, j) = N[i][j]
      BY <1>7, <2>2 DEF PassedTo
    <3>2. next' = next
      BY <2>2 DEF Routing
    <3> QED BY <1>1, <1>8, <3>1, <3>2
  <2> QED BY <2>1, <2>2
<1>10. T \in Tables
  BY <1>1 DEF Routing, Tables
<1> HIDE DEF T, Tables
<1>11. ASSUME NEW x \in V, NEW t \in V, At(x, t) PROVE T[x][t] = PassedTo(before, k, N, x, t)
  <2>1. CASE Done(x, t, i, j)
    <3>1. ~(x = i /\ t = j)
      BY <1>0, <1>1, <1>6, <2>1
    <3> QED BY <1>3, <1>9, <2>1, <3>1 DEF TableOf, before
  <2>2. CASE ~Done(x, t, i, j)
    <3>1. x = i /\ (t = j \/ dist[i][k] = INT_MAX)
      BY <1>0, <1>1, <1>6, <1>11, <2>2
    <3>2. CASE t = j
      BY <1>9, <3>1, <3>2
    <3>3. CASE t # j /\ dist[i][k] = INT_MAX
      <4>1. ~Improved(before, k, x, t)
        <5>1. Shortest(before, x, k) = INT_MAX
          BY <1>5, <3>1, <3>3
        <5> QED BY <1>0, <1>1, <1>4, <5>1, Gained
      <4>2. T[x][t] = N[x][t]
        BY <1>3, <1>9, <2>2, <3>3 DEF TableOf
      <4> QED BY <4>1, <4>2 DEF PassedTo
    <3> QED BY <3>1, <3>2, <3>3
  <2> QED BY <2>1, <2>2
<1>12. ASSUME NEW x \in V, NEW t \in V, ~Done(x, t, i, j), ~(x = i /\ t = j) PROVE T[x][t] = N[x][t]
  BY <1>3, <1>9, <1>12 DEF TableOf
<1> HIDE DEF At
<1>13. SUFFICES Routed(next', i', j', k')
  BY RoutedSame
<1>14. CASE dist[i][k] # INT_MAX /\ j < n /\ j' = j + 1 /\ k' = k /\ i' = i
  <2>1. ASSUME NEW x \in V, NEW t \in V
        PROVE  /\ Done(x, t, i, j + 1) => At(x, t)
               /\ ~Done(x, t, i, j + 1) => ~Done(x, t, i, j) /\ ~(x = i /\ t = j)
    <3>1. x \in Int /\ t \in Int /\ i \in Int /\ j \in Int
      BY <1>0, <1>1
    <3> QED BY <3>1 DEF Done, At
  <2>2. TableOf(T, N, i, j + 1, k)
    BY <1>11, <1>12, <2>1 DEF TableOf, before
  <2>3. Routed(T, i, j + 1, k)
    BY <1>3, <2>2 DEF Routed, before
  <2> QED BY <1>14, <2>3 DEF T
<1>15. CASE (dist[i][k] = INT_MAX \/ j = n) /\ j' = 1 /\ i < n /\ i' = i + 1 /\ k' = k
  <2>1. ASSUME NEW x \in V, NEW t \in V
        PROVE  /\ Done(x, t, i + 1, 1) => At(x, t)
               /\ ~Done(x, t, i + 1, 1) => ~Done(x, t, i, j) /\ ~(x = i /\ t = j)
    <3>1. x \in Int /\ t \in Int /\ i \in Int /\ j \in Int /\ t >= 1 /\ t <= n /\ n \in Int
      BY <1>0, <1>1
    <3>2. Done(x, t, i + 1, 1) <=> x <= i
      BY <3>1 DEF Done
    <3>3. x = i => t < j \/ t = j \/ dist[i][k] = INT_MAX
      BY <1>15, <3>1
    <3> QED BY <3>1, <3>2, <3>3 DEF At, Done
  <2>2. TableOf(T, N, i + 1, 1, k)
    BY <1>11, <1>12, <2>1 DEF TableOf, before
  <2>3. Routed(T, i + 1, 1, k)
    BY <1>3, <2>2 DEF Routed, before
  <2> QED BY <1>15, <2>3 DEF T
<1>16. CASE (dist[i][k] = INT_MAX \/ j = n) /\ j' = 1 /\ i = n /\ i' = 1 /\ k' = k + 1
  <2>1. ASSUME NEW x \in V, NEW t \in V
        PROVE  At(x, t) /\ ~Done(x, t, 1, 1)
    <3>1. x \in Int /\ t \in Int /\ i \in Int /\ j \in Int /\ t >= 1 /\ t <= n /\ n \in Int
          /\ x >= 1 /\ x <= n
      BY <1>0, <1>1
    <3>2. x = i => t < j \/ t = j \/ dist[i][k] = INT_MAX
      BY <1>16, <3>1
    <3>3. x < i \/ x = i
      BY <1>16, <3>1
    <3> QED BY <3>1, <3>2, <3>3 DEF At, Done
  <2>2. (k + 1) - 1 = k
    BY <1>0, <1>1
  <2>3. Attained(before \cup {k})
    <3>1. Settled(dist', i', j', k')
      BY RelaxSettled, SettledSame
    <3>2. Attained(1..(k' - 1))
      BY <3>1 DEF Settled
    <3> QED BY <1>4, <1>16, <2>2, <3>2
  <2>4. \A x, t \in V : T[x][t] = PassedTo(before, k, N, x, t)
    BY <1>11, <2>1
  <2>5. HasRoutes(before \cup {k}, T)
    BY <1>0, <1>1, <1>3, <1>4, <2>3, <2>4, PassRoutes
  <2>6. TableOf(T, T, 1, 1, k + 1)
    BY <2>1 DEF TableOf
  <2>8. 1..((k + 1) - 1) = before \cup {k}
    BY <1>4, <2>2
  <2>9. Routed(T, 1, 1, k + 1)
    BY <1>10, <2>5, <2>6, <2>8 DEF Routed
  <2> QED BY <1>16, <2>9 DEF T
<1>17. \/ dist[i][k] # INT_MAX /\ j < n /\ j' = j + 1 /\ k' = k /\ i' = i
       \/ (dist[i][k] = INT_MAX \/ j = n) /\ j' = 1 /\ i < n /\ i' = i + 1 /\ k' = k
       \/ (dist[i][k] = INT_MAX \/ j = n) /\ j' = 1 /\ i = n /\ i' = 1 /\ k' = k + 1
  BY <1>0, RelaxCases
<1> QED BY <1>14, <1>15, <1>16, <1>17

RoutesInv == program = "tenth" /\ pc # "start" /\ Fair => Routed(next, i, j, k)

(* That a pass makes the next table from one that has routes holds at      *)
(* first,                                                                  *)
LEMMA RoutesInit == PathsInit => RoutesInv
BY DEF PathsInit, RoutesInv

(* and each step keeps it.                                                 *)
LEMMA RoutesNext ==
  ASSUME Loops, TenthTypes, RoutesInv, [PathsNext \/ Terminated]_PathsVars
  PROVE  RoutesInv'
<1>0. program' = program /\ graph' = graph
  BY LoopSteps
<1>1. Fair' <=> Fair
  BY <1>0, GraphSame DEF Fair, Sane
<1>2. SUFFICES ASSUME program = "tenth", Fair PROVE pc' # "start" => Routed(next, i, j, k)'
  BY <1>0, <1>1 DEF RoutesInv
<1>3. Weighed /\ n \in Nat /\ V = 1..n
  BY <1>2, LoopsWeighed, WeighedFacts
<1>4. CASE UNCHANGED <<loops, next>> /\ pc # "start"
  <2>1. Routed(next, i, j, k)
    BY <1>2, <1>4 DEF RoutesInv
  <2> QED BY <1>0, <1>4, <2>1, RoutedSame DEF loops
<1>5. CASE UNCHANGED <<pc, loops, next, Rest>>
  BY <1>4, <1>5
<1>6. CASE /\ pc = "start" /\ Initialize /\ pc' = "relax" /\ UNCHANGED Rest
           /\ next' = [x \in V |-> [y \in V |-> IF is_edge(graph, x, y) THEN y ELSE NoVertex]]
  <2>1. k' = 1 /\ i' = 1 /\ j' = 1
    <3>1. NewLoops
      BY <1>2, <1>6 DEF Loops, Fresh
    <3> QED BY <1>6, <3>1 DEF Initialize, NewLoops
  <2> DEFINE N == next'
  <2>2. N \in Tables
    BY <1>6 DEF Tables
  <2>4. 1..(1 - 1) = {}
    OBVIOUS
  <2>5. HasRoutes(1..(1 - 1), N)
    <3>1. N = [x \in V |-> [y \in V |-> IF is_edge(graph, x, y) THEN y ELSE NoVertex]]
      BY <1>6
    <3> HIDE DEF N
    <3> QED BY <1>3, <2>4, <3>1, FirstRoutes
  <2>6. TableOf(N, N, 1, 1, 1)
    <3>1. \A x, t \in V : ~Done(x, t, 1, 1)
      BY <1>3 DEF Done
    <3> QED BY <3>1 DEF TableOf
  <2>7. Routed(N, 1, 1, 1)
    <3> HIDE DEF N, Tables
    <3> QED BY <2>2, <2>5, <2>6 DEF Routed
  <2> QED BY <1>0, <2>1, <2>7, RoutedSame
<1>7. CASE pc = "relax" /\ pc' = "relax" /\ Relax /\ Routing /\ UNCHANGED Rest
  <2>1. Shaped /\ Settled(dist, i, j, k)
    BY <1>2, <1>7 DEF Loops, Fresh
  <2>2. next \in Tables
    BY <1>2, <1>7 DEF TenthTypes
  <2>3. Routed(next, i, j, k)
    BY <1>2, <1>7 DEF RoutesInv
  <2> QED BY <1>0, <1>2, <1>7, <2>1, <2>2, <2>3, RelaxRouted
<1>8. CASE pc = "relax" /\ pc' = "undefined" /\ UNCHANGED <<loops, next, Rest>>
  BY <1>4, <1>8
<1>9. CASE UNCHANGED <<loops, next>> /\ \E a, b \in 1..(n + 1) : Tenth!Reconstruct(a, b)
  BY <1>4, <1>9 DEF Tenth!Reconstruct
<1>10. CASE UNCHANGED <<loops, next>> /\ Tenth!Walk
  BY <1>4, <1>10 DEF Tenth!Walk
<1>11. CASE UNCHANGED <<loops, next>> /\ Tenth!WalkEnd
  BY <1>4, <1>11 DEF Tenth!WalkEnd
<1>12. CASE UNCHANGED <<loops, next>> /\ Tenth!Component
  BY <1>4, <1>12 DEF Tenth!Component
<1>13. CASE UNCHANGED <<loops, next>> /\ Tenth!Describe
  BY <1>4, <1>13 DEF Tenth!Describe
<1>14. CASE UNCHANGED <<loops, next>> /\ Tenth!Finish
  BY <1>4, <1>14 DEF Tenth!Finish
<1> HIDE DEF Initialize, Relax, Routing, Rest
<1> QED BY <1>2, <1>5, <1>6, <1>7, <1>8, <1>9, <1>10, <1>11, <1>12, <1>13, <1>14, TenthSteps

(* What the finished matrices promise from x to t, and the ranks by which  *)
(* each step of the table comes nearer to t.                               *)
Left(t, x) == IF x = t THEN 0 ELSE dist[x][t]

Slope(t, r) ==
  \A x \in V : x # t /\ next[x][t] # NoVertex =>
    /\ next[x][t] \in V /\ r[next[x][t]] < r[x]
    /\ Left(t, x) = w(x, next[x][t]) + Left(t, next[x][t])

(* After the last pass the table has routes to wherever there is a way.    *)
LEMMA LastRoutes ==
  ASSUME Loops, TenthTypes, RoutesInv, program = "tenth", pc # "start", k > n, Fair
  PROVE  /\ dist \in [V -> [V -> Ints]]
         /\ \A x, t \in V : dist[x][t] = Shortest(V, x, t)
         /\ HasRoutes(V, next)
<1>0. Weighed /\ n \in Nat /\ V = 1..n
  BY LoopsWeighed, WeighedFacts
<1>1. /\ dist \in [V -> [V -> Ints]] /\ ~Fresh
      /\ \A x, t \in V : dist[x][t] = Shortest(V, x, t)
  BY AllPasses DEF Fresh
<1>2. k = n + 1 /\ i = 1 /\ j = 1
  <2>1. Shaped
    BY <1>1 DEF Loops
  <2> QED BY <1>0, <2>1 DEF Shaped
<1>3. Routed(next, 1, 1, n + 1)
  BY <1>2 DEF RoutesInv
<1>4. PICK N \in Tables : HasRoutes(1..((n + 1) - 1), N) /\ TableOf(next, N, 1, 1, n + 1)
  BY <1>3 DEF Routed
<1>5. 1..((n + 1) - 1) = V
  BY <1>0
<1>6. \A x, t \in V : next[x][t] = N[x][t]
  <2>1. \A x, t \in V : ~Done(x, t, 1, 1)
    BY <1>0 DEF Done
  <2> QED BY <1>4, <2>1 DEF TableOf
<1>7. PICK m \in Nat : \E h \in [V -> [V -> 1..m]] : Routes(V, N, h, m)
  BY <1>4, <1>5 DEF HasRoutes
<1>8. PICK h \in [V -> [V -> 1..m]] : Routes(V, N, h, m)
  BY <1>7
<1>9. Routes(V, next, h, m)
  BY <1>6, <1>8 DEF Routes
<1> QED BY <1>1, <1>9 DEF HasRoutes

(* So there are ranks for every target.                                    *)
LEMMA SlopeTo ==
  ASSUME Loops, TenthTypes, RoutesInv, program = "tenth", pc # "start", k > n, Fair, NEW t \in V
  PROVE  \E r \in [V -> Nat] : Slope(t, r)
<1>0. Weighed /\ INT_MAX \in Int
  BY LoopsWeighed, IntAssumption
<1>1. /\ dist \in [V -> [V -> Ints]]
      /\ \A x \in V : dist[x][t] = Shortest(V, x, t)
      /\ HasRoutes(V, next)
  BY LastRoutes
<1>2. PICK m \in Nat : \E h \in [V -> [V -> 1..m]] : Routes(V, next, h, m)
  BY <1>1 DEF HasRoutes
<1>3. PICK h \in [V -> [V -> 1..m]] : Routes(V, next, h, m)
  BY <1>2
<1> DEFINE r == [x \in V |-> IF x = t THEN 0 ELSE h[x][t]]
<1>4. \A x, z \in V : h[x][z] \in Nat /\ 1 <= h[x][z]
  <2>1. \A x, z \in V : h[x][z] \in 1..m
    OBVIOUS
  <2> QED BY <2>1
<1>5. r \in [V -> Nat]
  BY <1>4
<1>6. \A x \in V : r[x] = IF x = t THEN 0 ELSE h[x][t]
  OBVIOUS
<1> HIDE DEF r
<1>7. ASSUME NEW x \in V, x # t, next[x][t] # NoVertex
      PROVE  /\ next[x][t] \in V /\ r[next[x][t]] < r[x]
             /\ Left(t, x) = w(x, next[x][t]) + Left(t, next[x][t])
  <2> DEFINE y == next[x][t]
  <2>1. IF Shortest(V, x, t) = INT_MAX THEN NoWay(x, y, t)
        ELSE Leads(V, x, y, t) /\ Falling(h, x, y, t)
    BY <1>3, <1>7 DEF Routes
  <2>2. Left(t, x) = Shortest(V, x, t)
    BY <1>1, <1>7 DEF Left
  <2>3. y # NoVertex
    BY <1>7
  <2> HIDE DEF y
  <2>4. CASE Shortest(V, x, t) = INT_MAX
    <3>1. y = t /\ w(x, t) = INT_MAX
      BY <2>1, <2>3, <2>4 DEF NoWay, w
    <3>2. r[t] = 0 /\ r[x] = h[x][t] /\ Left(t, t) = 0
      BY <1>6, <1>7 DEF Left
    <3> QED BY <1>0, <1>4, <2>2, <2>4, <3>1, <3>2 DEF y
  <2>5. CASE Shortest(V, x, t) # INT_MAX
    <3>1. y \in V /\ Leads(V, x, y, t) /\ Falling(h, x, y, t)
      BY <2>1, <2>5 DEF Leads
    <3>2. w(x, y) \in Int
      BY <1>0, <3>1, WeighedFacts
    <3>3. Shortest(V, x, t) = w(x, y) + Left(t, y)
      <4>1. CASE y = t
        <5>1. Shortest(V, x, t) = w(x, y) /\ Left(t, y) = 0
          BY <3>1, <4>1 DEF Leads, Left
        <5> QED BY <3>2, <5>1
      <4>2. CASE y # t
        BY <1>1, <3>1, <4>2 DEF Leads, Left
      <4> QED BY <4>1, <4>2
    <3>4. r[y] < r[x]
      BY <1>4, <1>6, <1>7, <3>1 DEF Falling
    <3> QED BY <2>2, <3>1, <3>3, <3>4 DEF y
  <2> QED BY <2>4, <2>5
<1>8. Slope(t, r)
  BY <1>7 DEF Slope
<1> QED BY <1>5, <1>8

-----------------------------------------------------------------------------
Descends(p, r) == \A a, b \in 1..Len(p) : a < b => r[p[b]] < r[p[a]]

(* Where the ranks fall no vertex comes twice.                             *)
LEMMA DescendingFits ==
  ASSUME Weighed, NEW p \in Seq(V), NEW r \in [V -> Nat], Descends(p, r)
  PROVE  Len(p) <= n
<1>a. n \in Nat /\ V = 1..n /\ Len(p) \in Nat /\ 1 \in Int
  BY WeighedFacts
<1>0. IsFiniteSet(V) /\ Cardinality(V) = n
  <2> DEFINE m == n
  <2>1. m \in Nat /\ 1 \in Int /\ m \in Int /\ V = 1..m
    BY <1>a
  <2> HIDE DEF m
  <2>2. IsFiniteSet(1..m) /\ Cardinality(1..m) = IF 1 > m THEN 0 ELSE m - 1 + 1
    BY <2>1, FS_Interval
  <2>3. Cardinality(1..m) = m
    BY <2>1, <2>2
  <2> QED BY <2>1, <2>2, <2>3 DEF m
<1> DEFINE D == 1..Len(p)
<1>1. p \in [D -> V]
  OBVIOUS
<1>2. ASSUME NEW a \in D, NEW b \in D, p[a] = p[b] PROVE a = b
  <2>1. r[p[a]] \in Int /\ r[p[b]] \in Int
    BY <1>1
  <2>2. ~(a < b) /\ ~(b < a)
    <3>1. a < b => r[p[b]] < r[p[a]]
      BY DEF Descends
    <3>2. b < a => r[p[a]] < r[p[b]]
      BY DEF Descends
    <3> QED BY <1>2, <2>1, <3>1, <3>2
  <2>3. a \in Int /\ b \in Int
    OBVIOUS
  <2> QED BY <2>2, <2>3
<1>3. p \in Injection(D, V)
  <2> HIDE DEF D
  <2> QED BY <1>1, <1>2 DEF Injection, IsInjective
<1>4. Cardinality(D) <= Cardinality(V)
  <2> HIDE DEF D
  <2> QED BY <1>0, <1>3, FS_Injection
<1>5. Cardinality(D) = Len(p)
  <2> DEFINE m == Len(p)
  <2>1. m \in Nat /\ 1 \in Int /\ m \in Int
    BY <1>a
  <2> HIDE DEF m
  <2>2. Cardinality(1..m) = IF 1 > m THEN 0 ELSE m - 1 + 1
    BY <2>1, FS_Interval
  <2>3. Cardinality(1..m) = m
    BY <2>1, <2>2
  <2> QED BY <2>3 DEF m
<1> QED BY <1>0, <1>4, <1>5

(* A vertex further.                                                       *)
LEMMA DescendsOn ==
  ASSUME NEW p \in Seq(V), NEW r \in [V -> Nat], Descends(p, r), p # <<>>,
         NEW y \in V, r[y] < r[p[Len(p)]]
  PROVE  Descends(Append(p, y), r)
<1> DEFINE q == Append(p, y)
<1>1. Len(q) = Len(p) + 1 /\ q[Len(p) + 1] = y /\ Len(p) \in Nat /\ Len(p) \in 1..Len(p)
      /\ \A a \in 1..Len(p) : q[a] = p[a] /\ p[a] \in V
  OBVIOUS
<1> HIDE DEF q
<1>2. ASSUME NEW a \in 1..Len(q), NEW b \in 1..Len(q), a < b PROVE r[q[b]] < r[q[a]]
  <2>1. a \in 1..Len(p)
    BY <1>1, <1>2
  <2>2. CASE b \in 1..Len(p)
    BY <1>1, <1>2, <2>1, <2>2 DEF Descends
  <2>3. CASE b \notin 1..Len(p)
    <3>1. b = Len(p) + 1
      BY <1>1, <2>3
    <3>2. q[b] = y /\ q[a] = p[a]
      BY <1>1, <2>1, <3>1
    <3>3. a = Len(p) \/ r[p[Len(p)]] < r[p[a]]
      <4>1. a = Len(p) \/ a < Len(p)
        BY <1>1, <2>1
      <4> QED BY <1>1, <2>1, <4>1 DEF Descends
    <3>4. r[y] \in Int /\ r[p[Len(p)]] \in Int /\ r[p[a]] \in Int
      BY <1>1, <2>1
    <3> QED BY <3>2, <3>3, <3>4
  <2> QED BY <2>2, <2>3
<1> QED BY <1>2 DEF Descends, q

-----------------------------------------------------------------------------
(* The lengths walked, vertex by vertex.                                   *)
Adds(p, f) == f[1] = 0 /\ \A l \in 2..Len(p) : f[l] = f[l - 1] + w(p[l - 1], p[l])

(* The lengths one vertex further.                                         *)
LEMMA AddsOn ==
  ASSUME Weighed, NEW p \in Seq(V), p # <<>>, NEW f \in [1..Len(p) -> Int], Adds(p, f), NEW y \in V
  PROVE  \E g \in [1..(Len(p) + 1) -> Int] :
           Adds(Append(p, y), g) /\ g[Len(p) + 1] = f[Len(p)] + w(p[Len(p)], y)
<1> DEFINE q == Append(p, y)
           s == f[Len(p)] + w(p[Len(p)], y)
           g == [l \in 1..(Len(p) + 1) |-> IF l \in 1..Len(p) THEN f[l] ELSE s]
<1>1. Len(q) = Len(p) + 1 /\ q[Len(p) + 1] = y /\ Len(p) \in Nat /\ Len(p) \in 1..Len(p)
      /\ (\A a \in 1..Len(p) : q[a] = p[a] /\ p[a] \in V) /\ 1 \in 1..Len(p)
  OBVIOUS
<1>2. s \in Int
  <2>1. w(p[Len(p)], y) \in Int
    BY <1>1, WeighedFacts
  <2>2. f[Len(p)] \in Int
    BY <1>1
  <2> QED BY <2>1, <2>2
<1>3. g \in [1..(Len(p) + 1) -> Int]
  <2> HIDE DEF s
  <2> QED BY <1>2
<1>4. /\ \A l \in 1..Len(p) : g[l] = f[l]
      /\ g[Len(p) + 1] = s
  <2>1. Len(p) + 1 \notin 1..Len(p) /\ Len(p) + 1 \in 1..(Len(p) + 1) /\ 1..Len(p) \subseteq 1..(Len(p) + 1)
    BY <1>1
  <2> HIDE DEF s
  <2> QED BY <2>1
<1> HIDE DEF g, q
<1>5. ASSUME NEW l \in 2..Len(q) PROVE g[l] = g[l - 1] + w(q[l - 1], q[l])
  <2>1. CASE l \in 2..Len(p)
    <3>1. l \in 1..Len(p) /\ l - 1 \in 1..Len(p)
      BY <1>1, <2>1
    <3> QED BY <1>1, <1>4, <2>1, <3>1 DEF Adds
  <2>2. CASE l \notin 2..Len(p)
    <3>1. l = Len(p) + 1 /\ l - 1 = Len(p)
      BY <1>1, <2>2
    <3> QED BY <1>1, <1>4, <3>1
  <2> QED BY <2>1, <2>2
<1>6. g[1] = 0
  BY <1>1, <1>4 DEF Adds
<1>7. Adds(q, g)
  BY <1>5, <1>6 DEF Adds
<1> QED BY <1>3, <1>4, <1>7 DEF q

(* The reference definition adds up the same.                              *)
LEMMA AddsUpTheSame ==
  ASSUME NEW p \in Seq(V), p # <<>>, NEW f \in [1..Len(p) -> Int], Adds(p, f),
         NEW W, W = CHOOSE g : g = [l \in 1..Len(p) |->
                      IF l = 1 THEN 0 ELSE g[l - 1] + w(p[l - 1], p[l])]
  PROVE  W[Len(p)] = f[Len(p)]
<1> DEFINE F(g) == [l \in 1..Len(p) |-> IF l = 1 THEN 0 ELSE g[l - 1] + w(p[l - 1], p[l])]
<1>0. Len(p) \in Nat /\ Len(p) \in 1..Len(p)
  OBVIOUS
<1>1. f = F(f)
  <2>1. ASSUME NEW l \in 1..Len(p) PROVE f[l] = IF l = 1 THEN 0 ELSE f[l - 1] + w(p[l - 1], p[l])
    <3>1. CASE l = 1
      BY <3>1 DEF Adds
    <3>2. CASE l # 1
      <4>1. l \in 2..Len(p)
        BY <1>0, <3>2
      <4> QED BY <3>2, <4>1 DEF Adds
    <3> QED BY <3>1, <3>2
  <2> QED BY <2>1
<1>2. W = CHOOSE g : g = F(g)
  BY Zenon
<1> HIDE DEF F
<1>3. W = F(W)
  BY <1>1, <1>2, Zenon
<1>4. \A l \in 1..Len(p) : W[l] = IF l = 1 THEN 0 ELSE W[l - 1] + w(p[l - 1], p[l])
  BY <1>3 DEF F
<1> DEFINE U == { l \in 1..Len(p) : W[l] # f[l] }
<1>5. SUFFICES ASSUME U # {} PROVE FALSE
  BY <1>0
<1>6. PICK m \in U : \A l \in U : m <= l
  <2>1. U \in SUBSET Nat
    BY <1>0
  <2> HIDE DEF U
  <2> QED BY <1>5, <2>1, LeastNatural
<1>7. m \in 1..Len(p) /\ W[m] # f[m]
  OBVIOUS
<1>8. m # 1
  BY <1>4, <1>7 DEF Adds
<1>9. m \in 2..Len(p) /\ m - 1 \in 1..Len(p) /\ ~(m <= m - 1)
  BY <1>0, <1>7, <1>8
<1>10. W[m - 1] = f[m - 1]
  BY <1>6, <1>9
<1>11. W[m] = W[m - 1] + w(p[m - 1], p[m])
  BY <1>4, <1>7, <1>8
<1>12. f[m] = f[m - 1] + w(p[m - 1], p[m])
  BY <1>9 DEF Adds
<1> QED BY <1>7, <1>10, <1>11, <1>12

-----------------------------------------------------------------------------
(* The walk p for t: where it has come the ranks fall, and what it has     *)
(* walked and what is left add up to what was promised.                    *)
Downhill(p, t) == \E r \in [V -> Nat] : Slope(t, r) /\ Descends(p, r)

Promised(p, t) ==
  \E f \in [1..Len(p) -> Int] : Adds(p, f) /\ f[Len(p)] + Left(t, p[Len(p)]) = Left(t, p[1])

OnItsWay(p, t) == p # <<>> /\ Downhill(p, t) /\ Promised(p, t)

WalkInv ==
  program = "tenth" /\ Fair =>
    /\ pc # "error"
    /\ pc \in {"start", "relax"} => walked = <<>>
    /\ pc = "walk" => OnItsWay(walked, v) /\ walked[Len(walked)] = u
    /\ pc \in {"analyze", "done"} /\ walked = <<>> =>
         u \in V /\ v \in V /\ (u # v => dist[u][v] = INT_MAX)

(* What a walk promises depends on the graph, the matrix and the table     *)
(* only.                                                                   *)
LEMMA OnItsWaySame ==
  ASSUME graph' = graph, UNCHANGED <<loops, next>>
  PROVE  OnItsWay(walked, v)' <=> OnItsWay(walked', v')
<1>1. V' = V /\ NoVertex' = NoVertex /\ dist' = dist /\ next' = next
  BY GraphSame DEF NoVertex, Tenth!NoVertex, loops
<1>2. \A x, y : w(x, y)' = w(x, y)
  BY DEF w, weight
<1>3. \A t, x : Left(t, x)' = Left(t, x)
  BY <1>1 DEF Left
<1>4. \A t, r : Slope(t, r)' <=> Slope(t, r)
  <2> HIDE DEF Left, w, NoVertex
  <2> QED BY <1>1, <1>2, <1>3 DEF Slope
<1>5. \A p, f : Adds(p, f)' <=> Adds(p, f)
  <2> HIDE DEF w
  <2> QED BY <1>2 DEF Adds
<1>6. \A p, t : Downhill(p, t)' <=> Downhill(p, t)
  <2> HIDE DEF Slope
  <2> QED BY <1>1, <1>4 DEF Downhill, Descends
<1>7. \A p, t : Promised(p, t)' <=> Promised(p, t)
  <2> HIDE DEF Adds, Left
  <2> QED BY <1>3, <1>5 DEF Promised
<1> HIDE DEF Downhill, Promised
<1> QED BY <1>6, <1>7 DEF OnItsWay

(* A sequence with one more element.                                       *)
LEMMA Extended ==
  ASSUME NEW S, NEW p \in Seq(S), p # <<>>, NEW y \in S
  PROVE  LET q == Append(p, y)
         IN  /\ q \in Seq(S) /\ q # <<>> /\ Len(q) = Len(p) + 1
             /\ q[Len(q)] = y /\ q[1] = p[1]
<1>1. Len(p) \in Nat /\ Len(p) + 1 # 1 /\ 1 \in 1..Len(p)
  OBVIOUS
<1>2. Len(Append(p, y)) = Len(p) + 1 /\ Append(p, y) \in Seq(S)
  OBVIOUS
<1>3. Append(p, y)[Len(p) + 1] = y
  OBVIOUS
<1>4. Append(p, y)[1] = p[1]
  BY <1>1
<1>5. Append(p, y) # <<>>
  OBVIOUS
<1> QED BY <1>2, <1>3, <1>4, <1>5

(* What is left is an integer.                                             *)
LEMMA LeftIsInt ==
  ASSUME Weighed, dist \in [V -> [V -> Ints]], NEW x \in V, NEW t \in V
  PROVE  Left(t, x) \in Int
BY WeighedFacts DEF Left

(* The walk begins.                                                        *)
LEMMA WalkBegins ==
  ASSUME Loops, TenthTypes, RoutesInv, program = "tenth", pc # "start", k > n, Fair,
         NEW a \in V, NEW t \in V
  PROVE  OnItsWay(<<a>>, t)
<1> DEFINE p == <<a>>
           f == [l \in 1..Len(p) |-> 0]
<1>1. PICK r \in [V -> Nat] : Slope(t, r)
  BY SlopeTo
<1>2. Len(p) = 1 /\ p[1] = a /\ p # <<>>
  OBVIOUS
<1>3. Descends(p, r)
  <2> HIDE DEF p
  <2> QED BY <1>2 DEF Descends
<1>4. Left(t, a) \in Int
  BY LoopsWeighed, LastRoutes, LeftIsInt
<1>5. Promised(p, t)
  <2>1. f \in [1..Len(p) -> Int] /\ f[1] = 0
    OBVIOUS
  <2>2. Adds(p, f)
    <3> HIDE DEF f, p
    <3> QED BY <1>2, <2>1 DEF Adds
  <2> HIDE DEF f, p
  <2> QED BY <1>2, <1>4, <2>1, <2>2 DEF Promised
<1>6. Downhill(p, t)
  <2> HIDE DEF p
  <2> QED BY <1>1, <1>3 DEF Downhill
<1> HIDE DEF p
<1>7. OnItsWay(p, t)
  BY <1>2, <1>5, <1>6 DEF OnItsWay
<1> QED BY <1>7 DEF p

(* And goes on: the next vertex is there, and memory is not the limit.     *)
LEMMA WalkGoesOn ==
  ASSUME Weighed, dist \in [V -> [V -> Ints]], NEW p \in Seq(V), NEW t \in V, OnItsWay(p, t),
         NEW x \in V, p[Len(p)] = x, x # t, next[x][t] # NoVertex
  PROVE  /\ next[x][t] \in V
         /\ OnItsWay(Append(p, next[x][t]), t)
         /\ Len(p) + 1 <= n
<1> DEFINE y == next[x][t]
           q == Append(p, y)
<1>1. PICK r \in [V -> Nat] : Slope(t, r) /\ Descends(p, r)
  BY DEF OnItsWay, Downhill
<1>2. y \in V /\ r[y] < r[x] /\ Left(t, x) = w(x, y) + Left(t, y)
  BY <1>1 DEF Slope
<1>3. p # <<>> /\ Promised(p, t)
  BY DEF OnItsWay
<1> HIDE DEF y
<1>4. q \in Seq(V) /\ q # <<>> /\ Len(q) = Len(p) + 1 /\ q[Len(q)] = y /\ q[1] = p[1]
  BY <1>2, <1>3, Extended
<1>5. Descends(q, r)
  <2>1. r[y] < r[p[Len(p)]]
    BY <1>2
  <2> QED BY <1>1, <1>2, <1>3, <2>1, DescendsOn
<1>6. Downhill(q, t)
  <2> HIDE DEF q
  <2> QED BY <1>1, <1>5 DEF Downhill
<1>7. Len(q) <= n
  <2> HIDE DEF q
  <2> QED BY <1>4, <1>5, DescendingFits
<1>8. Promised(q, t)
  <2>1. PICK f \in [1..Len(p) -> Int] : Adds(p, f) /\ f[Len(p)] + Left(t, x) = Left(t, p[1])
    BY <1>3 DEF Promised
  <2>2. PICK g \in [1..(Len(p) + 1) -> Int] : Adds(q, g) /\ g[Len(p) + 1] = f[Len(p)] + w(p[Len(p)], y)
    BY <1>2, <1>3, <2>1, AddsOn
  <2>3. Left(t, y) \in Int /\ w(x, y) \in Int /\ f[Len(p)] \in Int
    <3>1. Len(p) \in 1..Len(p)
      BY <1>3
    <3> QED BY <1>2, <2>1, <3>1, LeftIsInt, WeighedFacts
  <2>4. g[Len(p) + 1] + Left(t, y) = Left(t, p[1])
    BY <1>2, <2>1, <2>2, <2>3
  <2> HIDE DEF q
  <2> QED BY <1>4, <2>2, <2>4 DEF Promised
<1>9. OnItsWay(q, t)
  <2> HIDE DEF q
  <2> QED BY <1>4, <1>6, <1>8 DEF OnItsWay
<1> QED BY <1>2, <1>4, <1>7, <1>9 DEF y

(* WalkInv holds at first,                                                 *)
LEMMA WalkInit == PathsInit => WalkInv
<1> SUFFICES ASSUME PathsInit, program = "tenth" PROVE WalkInv
  BY DEF WalkInv
<1>1. pc = "start" /\ walked = <<>>
  BY DEF PathsInit, Tenth!New
<1> QED BY <1>1 DEF WalkInv

(* and each step keeps it.                                                 *)
LEMMA WalkNext ==
  ASSUME Loops, TenthTypes, RoutesInv, WalkInv, [PathsNext \/ Terminated]_PathsVars
  PROVE  WalkInv'
<1>0. program' = program /\ graph' = graph
  BY LoopSteps
<1>1. (Fair' <=> Fair) /\ V' = V
  BY <1>0, GraphSame DEF Fair, Sane
<1>2. SUFFICES ASSUME program = "tenth", Fair PROVE WalkInv'
  BY <1>0, <1>1 DEF WalkInv
<1>3. /\ pc # "error"
      /\ pc \in {"start", "relax"} => walked = <<>>
      /\ pc = "walk" => OnItsWay(walked, v) /\ walked[Len(walked)] = u
      /\ pc \in {"analyze", "done"} /\ walked = <<>> =>
           u \in V /\ v \in V /\ (u # v => dist[u][v] = INT_MAX)
  BY <1>2 DEF WalkInv
<1>4. Weighed /\ n \in Nat /\ V = 1..n
  BY <1>2, LoopsWeighed, WeighedFacts
<1>5. /\ pc # "start" => next \in Tables
      /\ pc \in {"walk", "analyze", "done"} => k > n
      /\ pc = "walk" => u \in V /\ v \in V
      /\ walked \in Seq(V)
  BY <1>2 DEF TenthTypes
<1>6. Tenth!V = V /\ Tenth!n = n /\ Tenth!NoVertex = NoVertex
  BY TenthReads DEF NoVertex
<1> HIDE DEF OnItsWay, Tables, NoVertex
<1>7. CASE /\ UNCHANGED <<loops, next>> /\ u' = u /\ v' = v /\ walked' = walked
           /\ pc' = pc \/ (pc = "analyze" /\ pc' \in {"done", "undefined"}) \/ (pc = "relax" /\ pc' = "undefined")
  <2>1. OnItsWay(walked, v)' <=> OnItsWay(walked, v)
    BY <1>0, <1>7, OnItsWaySame
  <2>2. dist' = dist
    BY <1>7 DEF loops
  <2> QED BY <1>1, <1>3, <1>7, <2>1, <2>2 DEF WalkInv
<1>8. CASE UNCHANGED <<pc, loops, next, Rest>>
  BY <1>7, <1>8 DEF Rest
<1>9. CASE /\ pc = "start" /\ Initialize /\ pc' = "relax" /\ UNCHANGED Rest
           /\ next' = [x \in V |-> [y \in V |-> IF is_edge(graph, x, y) THEN y ELSE NoVertex]]
  <2> HIDE DEF Initialize
  <2> QED BY <1>3, <1>9 DEF WalkInv, Rest
<1>10. CASE pc = "relax" /\ pc' = "relax" /\ Relax /\ Routing /\ UNCHANGED Rest
  <2> HIDE DEF Relax, Routing
  <2> QED BY <1>3, <1>10 DEF WalkInv, Rest
<1>11. CASE pc = "relax" /\ pc' = "undefined" /\ UNCHANGED <<loops, next, Rest>>
  BY <1>7, <1>11 DEF Rest
<1>12. ASSUME UNCHANGED <<loops, next>>, NEW a \in 1..(n + 1), NEW b \in 1..(n + 1), Tenth!Reconstruct(a, b)
       PROVE  WalkInv'
  <2>1. /\ pc = "relax" /\ k > n /\ u' = a /\ v' = b
        /\ IF a \in V /\ b \in V
           THEN IF next[a][b] = NoVertex THEN pc' = "analyze" /\ walked' = walked
                                         ELSE pc' = "walk" /\ walked' = <<a>>
           ELSE pc' = "undefined" /\ walked' = walked
    BY <1>6, <1>12 DEF Tenth!Reconstruct
  <2>2. CASE a \in V /\ b \in V /\ next[a][b] # NoVertex
    <3>1. OnItsWay(<<a>>, b)
      BY <1>2, <2>1, <2>2, WalkBegins
    <3>2. OnItsWay(walked, v)' <=> OnItsWay(walked', v')
      BY <1>0, <1>12, OnItsWaySame
    <3>3. OnItsWay(walked, v)'
      BY <2>1, <2>2, <3>1, <3>2
    <3>4. walked'[Len(walked')] = u' /\ pc' = "walk"
      <4>1. Len(<<a>>) = 1 /\ <<a>>[1] = a
        OBVIOUS
      <4>2. walked' = <<a>> /\ u' = a /\ pc' = "walk"
        BY <2>1, <2>2
      <4> QED BY <4>1, <4>2
    <3> QED BY <3>3, <3>4 DEF WalkInv
  <2>3. CASE a \in V /\ b \in V /\ next[a][b] = NoVertex
    <3>1. a # b => dist[a][b] = INT_MAX
      <4> SUFFICES ASSUME a # b PROVE dist[a][b] = INT_MAX
        OBVIOUS
      <4>1. HasRoutes(V, next) /\ dist[a][b] = Shortest(V, a, b)
        BY <1>2, <2>1, <2>3, LastRoutes
      <4>2. PICK m \in Nat : \E h \in [V -> [V -> 1..m]] : Routes(V, next, h, m)
        BY <4>1 DEF HasRoutes
      <4>3. PICK h \in [V -> [V -> 1..m]] : Routes(V, next, h, m)
        BY <4>2
      <4>4. Shortest(V, a, b) # INT_MAX => next[a][b] \in V
        BY <2>3, <4>3 DEF Routes, Leads
      <4>5. NoVertex \notin V
        BY <1>4 DEF NoVertex, Tenth!NoVertex
      <4> QED BY <2>3, <4>1, <4>4, <4>5
    <3>2. dist' = dist
      BY <1>12 DEF loops
    <3> QED BY <1>1, <2>1, <2>3, <3>1, <3>2 DEF WalkInv
  <2>4. CASE ~(a \in V /\ b \in V)
    BY <2>1, <2>4 DEF WalkInv
  <2> QED BY <2>2, <2>3, <2>4
<1>13. CASE UNCHANGED <<loops, next>> /\ Tenth!Walk
  <2>1. /\ pc = "walk" /\ v' = v /\ u # v
        /\ \/ pc' = "undefined"
           \/ pc' = "error" /\ next[u][v] # NoVertex /\ Len(walked) = Memory
           \/ next[u][v] # NoVertex /\ u' = next[u][v] /\ walked' = Append(walked, u') /\ pc' = pc
    BY <1>6, <1>13 DEF Tenth!Walk
  <2>2. dist \in [V -> [V -> Ints]]
    BY <1>2, <1>5, <2>1, LastRoutes
  <2>3. next[u][v] # NoVertex =>
          OnItsWay(Append(walked, next[u][v]), v) /\ Len(walked) + 1 <= n
    BY <1>3, <1>4, <1>5, <2>1, <2>2, WalkGoesOn
  <2>4. n <= Memory /\ Memory \in Nat
    BY <1>2, InputsAssumption DEF Loops, n
  <2>5. pc' # "error"
    <3>1. Len(walked) \in Nat
      BY <1>5
    <3> QED BY <1>4, <2>1, <2>3, <2>4, <3>1
  <2>6. CASE pc' = "undefined"
    BY <2>6 DEF WalkInv
  <2>7. CASE next[u][v] # NoVertex /\ u' = next[u][v] /\ walked' = Append(walked, u') /\ pc' = pc
    <3>1. OnItsWay(walked, v)' <=> OnItsWay(walked', v')
      BY <1>0, <1>13, OnItsWaySame
    <3>2. OnItsWay(walked, v)'
      BY <2>1, <2>3, <2>7, <3>1
    <3>3. walked'[Len(walked')] = u'
      BY <1>5, <2>7
    <3>4. pc' = "walk"
      BY <2>1, <2>7
    <3> QED BY <3>2, <3>3, <3>4 DEF WalkInv
  <2> QED BY <2>1, <2>5, <2>6, <2>7
<1>14. CASE UNCHANGED <<loops, next>> /\ Tenth!WalkEnd
  <2>1. pc = "walk" /\ pc' = "analyze" /\ walked' = walked
    BY <1>14 DEF Tenth!WalkEnd
  <2>2. walked # <<>>
    BY <1>3, <2>1 DEF OnItsWay
  <2> QED BY <2>1, <2>2 DEF WalkInv
<1>15. CASE UNCHANGED <<loops, next>> /\ Tenth!Component
  BY <1>7, <1>15 DEF Tenth!Component
<1>16. CASE UNCHANGED <<loops, next>> /\ Tenth!Describe
  <2>1. pc = "analyze" /\ u' = u /\ v' = v /\ walked' = walked /\ pc' \in {pc, "undefined"}
    BY <1>16 DEF Tenth!Describe
  <2> QED BY <1>7, <1>16, <2>1
<1>17. CASE UNCHANGED <<loops, next>> /\ Tenth!Finish
  BY <1>7, <1>17 DEF Tenth!Finish
<1> HIDE DEF WalkInv, Initialize, Relax, Routing, Rest
<1> QED BY <1>2, <1>8, <1>9, <1>10, <1>11, <1>12, <1>13, <1>14, <1>15, <1>16, <1>17, TenthSteps

(* It gives the property of the walk.                                      *)
LEMMA WalkSuffices ==
  ASSUME Loops, TenthTypes, WalkInv
  PROVE  WalkKeepsLength
<1>1. SUFFICES ASSUME program = "tenth", pc \in {"walk", "done", "error"}, ~NegativeCycle, Counted
               PROVE  Tenth!WalkKeepsLength
  BY TenthReads DEF WalkKeepsLength, Tenth!WalkKeepsLength
<1>2. Weighed /\ Fair
  BY <1>1, LoopsWeighed DEF Fair, Sane
<1>3. /\ pc # "error"
      /\ pc = "walk" => OnItsWay(walked, v) /\ walked[Len(walked)] = u /\ u \in V /\ v \in V
      /\ pc = "done" /\ walked = <<>> => (u # v => dist[u][v] = INT_MAX)
      /\ walked \in Seq(V)
  BY <1>1, <1>2 DEF WalkInv, TenthTypes
<1> DEFINE W == CHOOSE g : g = [l \in 1..Len(walked) |->
                  IF l = 1 THEN 0 ELSE g[l - 1] + w(walked[l - 1], walked[l])]
<1>4. ASSUME pc = "walk"
      PROVE  W[Len(walked)] + Left(v, u) = Left(v, walked[1]) /\ Len(walked) <= n
  <2>1. walked # <<>> /\ Downhill(walked, v) /\ Promised(walked, v)
    BY <1>3, <1>4 DEF OnItsWay
  <2>2. Len(walked) <= n
    BY <1>2, <1>3, <2>1, DescendingFits DEF Downhill
  <2>3. PICK f \in [1..Len(walked) -> Int] : Adds(walked, f) /\ f[Len(walked)] + Left(v, u) = Left(v, walked[1])
    BY <1>3, <1>4, <2>1 DEF Promised
  <2>4. W[Len(walked)] = f[Len(walked)]
    <3>1. W = CHOOSE g : g = [l \in 1..Len(walked) |->
                IF l = 1 THEN 0 ELSE g[l - 1] + w(walked[l - 1], walked[l])]
      OBVIOUS
    <3> HIDE DEF W
    <3> QED BY <1>3, <2>1, <2>3, <3>1, AddsUpTheSame
  <2> HIDE DEF W
  <2> QED BY <2>2, <2>3, <2>4
<1>5. /\ pc = "walk" => W[Len(walked)] + (IF u = v THEN 0 ELSE dist[u][v]) =
                          (IF walked[1] = v THEN 0 ELSE dist[walked[1]][v])
                        /\ Len(walked) <= Tenth!n
      /\ pc # "error"
      /\ pc = "done" /\ walked = <<>> /\ u # v => dist[u][v] = INT_MAX
  <2> HIDE DEF W
  <2> QED BY <1>3, <1>4, TenthReads DEF Left
<1>6. W = CHOOSE Walked : Walked = [l \in 1..Len(walked) |->
            IF l = 1 THEN 0 ELSE Walked[l - 1] + Tenth!weight(graph, walked[l - 1], walked[l])]
  BY Zenon DEF w, weight, Tenth!weight
<1> QED BY <1>5, <1>6, Zenon DEF Tenth!WalkKeepsLength

(* What the walk has behind it and what the matrix promises of the rest    *)
(* add up; it never meets n + 1 vertices.                                  *)
THEOREM PathsWalkKeepsLength == PathsSpec => []WalkKeepsLength
<1> DEFINE Inv == Loops /\ TenthTypes /\ RoutesInv /\ WalkInv
<1>1. PathsInit => Inv
  BY LoopsInit, TenthTypesInit, RoutesInit, WalkInit
<1>2. Inv /\ [PathsNext \/ Terminated]_PathsVars => Inv'
  BY LoopsNext, TenthTypesNext, RoutesNext, WalkNext
<1>3. Inv => WalkKeepsLength
  BY WalkSuffices
<1> QED
  <2> HIDE DEF Inv
  <2> QED BY <1>1, <1>2, <1>3, PTL DEF PathsSpec

-----------------------------------------------------------------------------
(* Reachability.  Within is a recursive function; what the proofs use of   *)
(* it is WithinLaw, and of ReachableBy that it is the least set with x     *)
(* that no pair of E leads out of (ReachLaw).                              *)

Onto(E, S) == S \cup { y \in V : \E z \in S : <<z, y>> \in E }

(* The recursion of Within, with its step named.                           *)
LEMMA WithinUnfolded ==
  ASSUME NEW E, NEW x
  PROVE  Within(E, x) = CHOOSE R : R = [q \in 0..n |->
                                          IF q = 0 THEN {x} ELSE Onto(E, R[q - 1])]
BY Zenon DEF Within, Onto, n

(* Within is the function its recursion describes, and stays among the     *)
(* vertices.                                                               *)
LEMMA WithinLaw ==
  ASSUME Weighed, NEW E, NEW x \in V
  PROVE  /\ Within(E, x) = [q \in 0..n |->
                              IF q = 0 THEN {x} ELSE Onto(E, Within(E, x)[q - 1])]
         /\ Within(E, x)[0] = {x}
         /\ \A q \in 1..n : Within(E, x)[q] = Onto(E, Within(E, x)[q - 1])
         /\ \A q \in 0..n : Within(E, x)[q] \in SUBSET V
<1> DEFINE T == SUBSET V
           F(B) == [q \in 0..n |-> IF q = 0 THEN {x} ELSE Onto(E, B[q - 1])]
           P == [q \in 0..n |-> IF q = 0 THEN {{x}} ELSE T]
           R == [q \in 1..n |-> { p \in T \X T : p[2] = Onto(E, p[1]) }]
           W == Within(E, x)
<1>1. n \in Nat /\ {x} \in T
  BY WeighedFacts
<1>2. \A B \in T : Onto(E, B) \in T
  BY DEF Onto
<1>3. P[0] # {} /\ \A q \in 0..n : P[q] \subseteq T
  <2>1. 0 \in 0..n
    BY <1>1
  <2>2. P[0] = {{x}}
    BY <2>1
  <2>3. ASSUME NEW q \in 0..n PROVE P[q] \subseteq T
    BY <1>1
  <2> QED BY <2>2, <2>3
<1>4. ASSUME NEW q \in 1..n, NEW a \in P[q - 1] PROVE \E b \in P[q] : <<a, b>> \in R[q]
  <2>1. q \in 0..n /\ q - 1 \in 0..n /\ q # 0
    BY <1>1
  <2>2. a \in T
    BY <1>3, <2>1
  <2>3. Onto(E, a) \in P[q] /\ <<a, Onto(E, a)>> \in R[q]
    BY <1>2, <2>1, <2>2
  <2> QED BY <2>3
<1>5. PICK f \in [0..n -> T] : /\ \A q \in 0..n : f[q] \in P[q]
                               /\ \A q \in 1..n : <<f[q - 1], f[q]>> \in R[q]
  <2> HIDE DEF T, P, R
  <2> QED BY <1>1, <1>3, <1>4, Stepwise
<1>6. f = F(f)
  <2>1. f[0] = {x}
    BY <1>1, <1>5
  <2>2. \A q \in 0..n : q # 0 => q \in 1..n
    BY <1>1
  <2>3. \A q \in 1..n : f[q] = Onto(E, f[q - 1])
    BY <1>5
  <2>4. \A q \in 0..n : f[q] = F(f)[q]
    BY <2>1, <2>2, <2>3
  <2> QED BY <2>4
<1>7. W = F(W)
  <2>1. W = CHOOSE B : B = F(B)
    BY WithinUnfolded, Zenon DEF n
  <2> HIDE DEF W, F
  <2> QED BY <1>6, <2>1, Zenon
<1> HIDE DEF W
<1>8. \A q \in 0..n : W[q] = IF q = 0 THEN {x} ELSE Onto(E, W[q - 1])
  BY <1>7
<1>9. W[0] = {x} /\ \A q \in 1..n : W[q] = Onto(E, W[q - 1])
  BY <1>1, <1>8
<1>10. \A q \in 0..n : W[q] \in T
  <2> DEFINE U == { q \in 0..n : W[q] \notin T }
  <2> SUFFICES ASSUME U # {} PROVE FALSE
    BY Zenon
  <2>1. PICK m \in U : \A o \in U : m <= o
    <3>1. U \in SUBSET Nat
      OBVIOUS
    <3> HIDE DEF U
    <3> QED BY <3>1, LeastNatural
  <2>2. m # 0
    BY <1>1, <1>9
  <2>3. m \in 1..n /\ m - 1 \in 0..n /\ ~(m <= m - 1)
    BY <1>1, <2>2
  <2>4. W[m - 1] \in T
    BY <2>1, <2>3
  <2>5. W[m] \in T
    BY <1>2, <1>9, <2>3, <2>4
  <2> QED BY <2>5
<1> QED BY <1>7, <1>9, <1>10 DEF W

(* What is within l pairs contains what is within fewer.                   *)
LEMMA WithinGrows ==
  ASSUME Weighed, NEW E, NEW x \in V, NEW q \in 0..n, NEW l \in q..n
  PROVE  Within(E, x)[q] \subseteq Within(E, x)[l]
<1> DEFINE W == Within(E, x)
           U == { o \in 0..n : q <= o /\ ~(W[q] \subseteq W[o]) }
<1>0. n \in Nat
  BY WeighedFacts
<1> SUFFICES ASSUME U # {} PROVE FALSE
  <2>1. l \in 0..n /\ q <= l
    BY <1>0
  <2> QED BY <2>1
<1>1. PICK m \in U : \A o \in U : m <= o
  <2>1. U \in SUBSET Nat
    OBVIOUS
  <2> HIDE DEF U
  <2> QED BY <2>1, LeastNatural
<1>2. m \in 0..n /\ q <= m /\ m # q
  OBVIOUS
<1>3. m \in 1..n /\ m - 1 \in 0..n /\ q <= m - 1 /\ ~(m <= m - 1)
  BY <1>0, <1>2
<1>4. W[q] \subseteq W[m - 1]
  BY <1>1, <1>3
<1>5. W[m - 1] \subseteq W[m]
  BY <1>3, WithinLaw DEF Onto
<1> QED BY <1>4, <1>5

(* A step adds a vertex or the last one would not: so n steps are enough.  *)
LEMMA WithinSettles ==
  ASSUME Weighed, NEW E, NEW x \in V
  PROVE  Onto(E, Within(E, x)[n]) = Within(E, x)[n]
<1> DEFINE W == Within(E, x)
           G == [q \in 0..n |-> Cardinality(W[q])]
           H == [q \in 0..n |-> q + 1]
<1>0. n \in Nat /\ V = 1..n /\ IsFiniteSet(V) /\ \A S \in SUBSET V : IsFiniteSet(S)
  BY WeighedFacts
<1>1. /\ W[0] = {x} /\ \A q \in 1..n : W[q] = Onto(E, W[q - 1])
      /\ \A q \in 0..n : W[q] \in SUBSET V
  BY WithinLaw
<1> HIDE DEF W
<1>2. ASSUME NEW q \in 0..n, Onto(E, W[q]) = W[q]
      PROVE  W[n] = W[q]
  <2> DEFINE U == { o \in 0..n : q <= o /\ W[o] # W[q] }
  <2> SUFFICES ASSUME n \in U PROVE FALSE
    BY <1>0
  <2>1. PICK m \in U : \A o \in U : m <= o
    <3>1. U \in SUBSET Nat
      BY <1>0
    <3> HIDE DEF U
    <3> QED BY <3>1, LeastNatural
  <2>2. m \in 0..n /\ q <= m /\ m # q
    BY <2>1
  <2>3. m \in 1..n /\ m - 1 \in 0..n /\ q <= m - 1 /\ ~(m <= m - 1)
    BY <1>0, <2>2
  <2>4. W[m - 1] = W[q]
    BY <2>1, <2>3
  <2> QED BY <1>1, <1>2, <2>1, <2>3, <2>4
<1>3. SUFFICES ASSUME Onto(E, W[n]) # W[n] PROVE FALSE
  BY DEF W
<1>4. ASSUME NEW q \in 1..n
      PROVE  G[q] \in Nat /\ G[q - 1] \in Nat /\ G[q - 1] + 1 <= G[q]
  <2>1. q \in 0..n /\ q - 1 \in 0..n
    BY <1>0
  <2>2. W[q] = Onto(E, W[q - 1]) /\ W[q] \in SUBSET V /\ W[q - 1] \in SUBSET V
    BY <1>1, <2>1
  <2>3. W[q] # W[q - 1]
    <3>1. Onto(E, W[q - 1]) # W[q - 1]
      BY <1>2, <1>3, <2>1
    <3> QED BY <2>2, <3>1
  <2>4. W[q - 1] \in SUBSET W[q]
    BY <2>2 DEF Onto
  <2>5. IsFiniteSet(W[q]) /\ IsFiniteSet(W[q - 1])
    BY <1>0, <2>2
  <2>6. Cardinality(W[q]) \in Nat /\ Cardinality(W[q - 1]) \in Nat
    BY <2>5, FS_CardinalityType
  <2>7. Cardinality(W[q - 1]) <= Cardinality(W[q]) /\ Cardinality(W[q - 1]) # Cardinality(W[q])
    BY <2>3, <2>4, <2>5, FS_Subset
  <2> QED BY <2>1, <2>6, <2>7
<1>5. H[n] <= G[n]
  <2>1. G[0] = 1
    <3>1. 0 \in 0..n
      BY <1>0
    <3> QED BY <1>1, <3>1, FS_Singleton
  <2>2. \A q \in 0..n : H[q] \in Int /\ G[q] \in Int
    <3>1. ASSUME NEW q \in 0..n PROVE G[q] \in Int
      <4>1. IsFiniteSet(W[q])
        BY <1>0, <1>1
      <4> QED BY <4>1, FS_CardinalityType
    <3> QED BY <1>0, <3>1
  <2>3. H[0] <= G[0]
    BY <1>0, <2>1
  <2>4. \A q \in 1..n : H[q] - H[q - 1] <= G[q] - G[q - 1]
    <3>1. ASSUME NEW q \in 1..n PROVE H[q] - H[q - 1] = 1
      BY <1>0
    <3> HIDE DEF G, H
    <3> QED BY <1>4, <3>1
  <2> HIDE DEF G, H
  <2> QED BY <1>0, <2>2, <2>3, <2>4, NoFaster
<1>6. G[n] <= n
  <2>1. n \in 0..n
    BY <1>0
  <2>2. W[n] \in SUBSET V
    BY <1>1, <2>1
  <2>3. Cardinality(V) = n
    BY <1>0, FS_Interval
  <2> QED BY <1>0, <2>1, <2>2, <2>3, FS_Subset
<1>7. H[n] = n + 1
  BY <1>0
<1>8. G[n] \in Int
  <2>1. n \in 0..n
    BY <1>0
  <2>2. IsFiniteSet(W[n])
    BY <1>0, <1>1, <2>1
  <2> QED BY <2>1, <2>2, FS_CardinalityType
<1> HIDE DEF G, H
<1> QED BY <1>0, <1>5, <1>6, <1>7, <1>8

(* What can be reached from x is the least set with x that no pair in E    *)
(* leaves: n rounds are enough.                                   *)
LEMMA ReachLaw ==
  ASSUME Weighed, NEW E, NEW x \in V
  PROVE  /\ x \in ReachableBy(E, x) /\ ReachableBy(E, x) \in SUBSET V
         /\ \A z \in ReachableBy(E, x) : \A y \in V : <<z, y>> \in E => y \in ReachableBy(E, x)
         /\ \A S : x \in S /\ (\A z \in S : \A y \in V : <<z, y>> \in E => y \in S)
                     => ReachableBy(E, x) \subseteq S
<1> DEFINE W == Within(E, x)
<1>0. n \in Nat /\ 0 \in 0..n /\ n \in 0..n
  <2>1. n \in Nat
    BY WeighedFacts
  <2> QED BY <2>1
<1>1. /\ W[0] = {x} /\ \A q \in 1..n : W[q] = Onto(E, W[q - 1])
      /\ \A q \in 0..n : W[q] \in SUBSET V
  BY WithinLaw
<1>2. W[0] \subseteq W[n] /\ Onto(E, W[n]) = W[n]
  BY <1>0, WithinGrows, WithinSettles
<1>3. ReachableBy(E, x) = W[n]
  BY DEF ReachableBy, n
<1> HIDE DEF W
<1>4. ASSUME NEW S, x \in S, \A z \in S : \A y \in V : <<z, y>> \in E => y \in S
      PROVE  W[n] \subseteq S
  <2> DEFINE U == { o \in 0..n : ~(W[o] \subseteq S) }
  <2> SUFFICES ASSUME n \in U PROVE FALSE
    BY <1>0
  <2>1. PICK m \in U : \A o \in U : m <= o
    <3>1. U \in SUBSET Nat
      BY <1>0
    <3> HIDE DEF U
    <3> QED BY <3>1, LeastNatural
  <2>2. m # 0
    BY <1>1, <1>4, <2>1
  <2>3. m \in 1..n /\ m - 1 \in 0..n /\ ~(m <= m - 1)
    BY <1>0, <2>1, <2>2
  <2>4. W[m - 1] \subseteq S
    BY <2>1, <2>3
  <2>5. W[m] = Onto(E, W[m - 1])
    BY <1>1, <2>3
  <2>6. W[m] \subseteq S
    BY <1>4, <2>4, <2>5 DEF Onto
  <2> QED BY <2>1, <2>6
<1>5. x \in W[n] /\ W[n] \in SUBSET V
  BY <1>0, <1>1, <1>2
<1>6. \A z \in W[n] : \A y \in V : <<z, y>> \in E => y \in W[n]
  BY <1>2 DEF Onto
<1> QED BY <1>3, <1>4, <1>5, <1>6

(* One pair further is still within reach.                                 *)
LEMMA ReachNext ==
  ASSUME Weighed, NEW E, NEW x \in V, NEW z \in ReachableBy(E, x),
         NEW y \in V, <<z, y>> \in E
  PROVE  y \in ReachableBy(E, x)
BY ReachLaw

(* What is within reach of something within reach.                         *)
LEMMA ReachOn ==
  ASSUME Weighed, NEW E, NEW x \in V, NEW y \in ReachableBy(E, x)
  PROVE  y \in V /\ ReachableBy(E, y) \subseteq ReachableBy(E, x)
<1>1. y \in V
  BY ReachLaw
<1> QED BY <1>1, ReachLaw

(* More pairs reach more.                                                  *)
LEMMA ReachMore ==
  ASSUME Weighed, NEW E, NEW F, E \subseteq F, NEW x \in V
  PROVE  ReachableBy(E, x) \subseteq ReachableBy(F, x)
<1>1. \A z \in ReachableBy(F, x) : \A y \in V : <<z, y>> \in E => y \in ReachableBy(F, x)
  BY ReachLaw
<1>2. x \in ReachableBy(F, x)
  BY ReachLaw
<1> HIDE DEF ReachableBy
<1> QED BY <1>1, <1>2, ReachLaw

(* Pairs that come with their reverses lead back.                          *)
LEMMA ReachBack ==
  ASSUME Weighed, NEW E, \A a, b \in V : <<a, b>> \in E => <<b, a>> \in E,
         NEW x \in V, NEW y \in ReachableBy(E, x)
  PROVE  x \in ReachableBy(E, y)
<1> DEFINE S == { z \in V : x \in ReachableBy(E, z) }
<1>1. x \in S
  BY ReachLaw
<1>2. ASSUME NEW z \in S, NEW c \in V, <<z, c>> \in E
      PROVE  c \in S
  <2>1. z \in V /\ <<c, z>> \in E
    BY <1>2
  <2>2. c \in ReachableBy(E, c)
    BY <1>2, ReachLaw
  <2>3. z \in ReachableBy(E, c)
    BY <1>2, <2>1, <2>2, ReachNext
  <2> QED BY <1>2, <2>3, ReachOn
<1> HIDE DEF S
<1>3. ReachableBy(E, x) \subseteq S
  BY <1>1, <1>2, ReachLaw
<1> QED BY <1>3 DEF S

-----------------------------------------------------------------------------
(* The edges the loops see, and the loops on vertices among them.          *)
Seen == { e \in Edges : SeenEdge(e[1], e[2]) }

LoopsSeen == \A x \in V : weight(graph, x, x) # INT_MAX

(* A pair is one of these edges where the loops see one.                   *)
LEMMA SeenLaw ==
  ASSUME NEW a \in V, NEW b \in V
  PROVE  <<a, b>> \in Seen <=> SeenEdge(a, b)
<1>1. b \in Near(a) <=> is_edge(graph, a, b)
  BY DEF Near, adjacency_list, V
<1>2. <<a, b>> \in Edges <=> b \in Near(a)
  <2>1. ASSUME <<a, b>> \in Edges PROVE b \in Near(a)
    <3>1. PICK x \in V : <<a, b>> \in { <<x, y>> : y \in Near(x) }
      BY <2>1 DEF Edges
    <3>2. PICK y \in Near(x) : <<a, b>> = <<x, y>>
      BY <3>1
    <3> QED BY <3>2
  <2>2. ASSUME b \in Near(a) PROVE <<a, b>> \in Edges
    BY <2>2 DEF Edges
  <2> QED BY <2>1, <2>2
<1> HIDE DEF Edges, Near, is_edge
<1> QED BY <1>1, <1>2 DEF Seen, SeenEdge

(* There is a walk from x to another vertex where that can be reached.     *)
LEMMA WalkReaches ==
  ASSUME Weighed, NEW t \in V, NEW T \in SUBSET V, NEW x \in V, Through(T, x, t) # {}
  PROVE  t \in ReachableBy(Seen, x)
<1> DEFINE G == { S \in SUBSET V : \A y \in V : Through(S, y, t) # {} => t \in ReachableBy(Seen, y) }
<1>0. IsFiniteSet(V)
  BY WeighedFacts
<1>1. ASSUME NEW S \in SUBSET V, \A y \in S : S \ {y} \in G PROVE S \in G
  <2> SUFFICES ASSUME NEW y \in V, NEW c \in Through(S, y, t) PROVE t \in ReachableBy(Seen, y)
    OBVIOUS
  <2>0. y \in ReachableBy(Seen, y)
    BY ReachLaw
  <2>1. CASE SeenEdge(y, t)
    BY <2>0, <2>1, SeenLaw, ReachNext
  <2>2. CASE \E z \in S : SeenEdge(y, z) /\ \E a \in Through(S \ {z}, z, t) : c = w(y, z) + a
    <3>1. PICK z \in S : SeenEdge(y, z) /\ \E a \in Through(S \ {z}, z, t) : c = w(y, z) + a
      BY <2>2
    <3>2. z \in V /\ S \ {z} \in G /\ Through(S \ {z}, z, t) # {}
      BY <1>1, <3>1
    <3>3. t \in ReachableBy(Seen, z)
      BY <3>2
    <3>4. z \in ReachableBy(Seen, y)
      BY <2>0, <3>1, <3>2, SeenLaw, ReachNext
    <3> QED BY <3>3, <3>4, ReachOn
  <2>3. \/ SeenEdge(y, t)
        \/ \E z \in S : SeenEdge(y, z) /\ \E a \in Through(S \ {z}, z, t) : c = w(y, z) + a
    BY ThroughLaw
  <2> QED BY <2>1, <2>2, <2>3
<1>2. T \in G
  <2> HIDE DEF G
  <2> QED BY <1>0, <1>1, SetInduction
<1> QED BY <1>2

(* And the other way round, since walks can be joined.                     *)
LEMMA ReachWalks ==
  ASSUME Sane, NEW x \in V, NEW y \in ReachableBy(Seen, x)
  PROVE  y \in V /\ (y # x => Lengths(V, x, y) # {})
<1> DEFINE S == { z \in V : z = x \/ Lengths(V, x, z) # {} }
<1>0. Weighed /\ V \in SUBSET V
  BY DEF Sane
<1>1. x \in S
  OBVIOUS
<1>2. ASSUME NEW z \in S, NEW t \in V, <<z, t>> \in Seen PROVE t \in S
  <2>1. SeenEdge(z, t) /\ z \in V
    BY <1>2, SeenLaw
  <2>2. w(z, t) \in Lengths(V, z, t)
    <3>1. w(z, t) \in Through(V \ {z, t}, z, t)
      BY <1>0, <2>1, ThroughLaw
    <3> QED BY <3>1, LengthsThrough
  <2>3. CASE z = x
    BY <2>2, <2>3
  <2>4. CASE z # x
    <3>1. PICK p \in Lengths(V, x, z) : TRUE
      BY <2>4
    <3>2. \E c \in Lengths(V \cup {z}, x, t) : c <= p + w(z, t)
      BY <1>0, <2>1, <2>2, <3>1, Joined
    <3>3. V \cup {z} = V
      BY <2>1
    <3>4. Lengths(V, x, t) # {}
      BY <3>2, <3>3
    <3> QED BY <3>4
  <2> QED BY <2>3, <2>4
<1>3. ReachableBy(Seen, x) \subseteq S
  <2> HIDE DEF S
  <2> QED BY <1>0, <1>1, <1>2, ReachLaw
<1> QED BY <1>3

(* The finished matrix has an entry where the one can reach the other.     *)
LEMMA EntriesReach ==
  ASSUME Loops, program # "sixth", ~Fresh, k > n, Fair, LoopsSeen, NEW x \in V, NEW t \in V
  PROVE  dist[x][t] # INT_MAX <=> t \in ReachableBy(Seen, x)
<1>0. Weighed /\ Sane /\ V \in SUBSET V
  BY LoopsWeighed DEF Fair
<1>1. Attained(V) /\ dist[x][t] = Shortest(V, x, t)
  BY AllPasses
<1>2. \/ Shortest(V, x, t) \in Lengths(V, x, t)
      \/ Shortest(V, x, t) = INT_MAX
      \/ x = t
  BY <1>0, ShortestFacts DEF Home
<1>3. Lengths(V, x, t) # {} => Shortest(V, x, t) < INT_MAX
  BY <1>1 DEF Attained
<1>4. INT_MAX \in Nat /\ INT_MAX # 0 /\ Shortest(V, x, t) \in Int
  <2>1. PICK h \in 0..INT_MAX : INT_MAX = 2 * h + 1
    BY IntAssumption
  <2>2. INT_MAX # 0
    BY <2>1, IntAssumption
  <2> QED BY <1>0, <2>2, IntAssumption, ShortestFacts
<1>5. CASE x # t
  <2>1. Lengths(V, x, t) # {} => t \in ReachableBy(Seen, x)
    <3>1. Lengths(V, x, t) = Through(V \ {x, t}, x, t) /\ V \ {x, t} \in SUBSET V
      BY LengthsThrough
    <3> QED BY <1>0, <3>1, WalkReaches
  <2>2. t \in ReachableBy(Seen, x) => Lengths(V, x, t) # {}
    BY <1>0, <1>5, ReachWalks
  <2>3. Lengths(V, x, t) = {} => Shortest(V, x, t) = INT_MAX
    BY <1>2, <1>5
  <2>4. Lengths(V, x, t) # {} => Shortest(V, x, t) # INT_MAX
    BY <1>3, <1>4
  <2> QED BY <1>1, <2>1, <2>2, <2>3, <2>4
<1>6. CASE x = t
  <2>1. x \in ReachableBy(Seen, x)
    BY <1>0, ReachLaw
  <2>2. Shortest(V, x, x) # INT_MAX
    <3>1. CASE is_edge(graph, x, x)
      <4>1. SeenEdge(x, x)
        BY <3>1 DEF LoopsSeen, SeenEdge
      <4>2. w(x, x) \in Through(V \ {x, x}, x, x)
        BY <1>0, <4>1, ThroughLaw
      <4>3. Lengths(V, x, x) # {}
        BY <4>2, LengthsThrough
      <4> QED BY <1>3, <1>4, <1>6, <4>3
    <3>2. CASE ~is_edge(graph, x, x)
      <4>1. Shortest(V, x, x) <= 0
        BY <1>0, <3>2, ShortestFacts DEF Home
      <4> QED BY <1>4, <1>6, <4>1
    <3> QED BY <3>1, <3>2
  <2> QED BY <1>1, <1>6, <2>1, <2>2
<1> QED BY <1>5, <1>6

-----------------------------------------------------------------------------
(* The components as they are collected: each is what its least vertex is  *)
(* linked with, of what no earlier one holds.                              *)
Linked(x, y) == dist[x][y] # INT_MAX \/ dist[y][x] # INT_MAX

Before(C, c) == UNION { C[d] : d \in 1..(c - 1) }

Chosen(C, c) ==
  \E a \in V \ Before(C, c) :
    /\ Linked(a, a)
    /\ C[c] = { y \in V \ Before(C, c) : Linked(a, y) }
    /\ \A y \in C[c] : a <= y

Collected(C) == \A c \in 1..Len(C) : Chosen(C, c)

(* What the components before c hold.                                      *)
LEMMA BeforeIs ==
  ASSUME NEW C, NEW c, NEW x
  PROVE  x \in Before(C, c) <=> \E d \in 1..(c - 1) : x \in C[d]
BY DEF Before

(* What has been visited is what all of them hold.                         *)
LEMMA VisitedIs ==
  ASSUME components \in Seq(SUBSET V)
  PROVE  Tenth!Visited = Before(components, Len(components) + 1)
<1>1. DOMAIN components = 1..Len(components) /\ (Len(components) + 1) - 1 = Len(components)
  OBVIOUS
<1> QED BY <1>1 DEF Tenth!Visited, Before

(* One more is chosen as those before it.                                  *)
LEMMA CollectedOne ==
  ASSUME NEW C \in Seq(SUBSET V), Collected(C), NEW a \in V \ Before(C, Len(C) + 1), Linked(a, a),
         V \subseteq Nat, \A y \in V \ Before(C, Len(C) + 1) : a <= y
  PROVE  LET D == Append(C, { y \in V \ Before(C, Len(C) + 1) : Linked(a, y) })
         IN  /\ Collected(D) /\ Len(D) = Len(C) + 1
             /\ Before(C, Len(C) + 1) \cup {a} \subseteq Before(D, Len(D) + 1)
<1> DEFINE T == { y \in V \ Before(C, Len(C) + 1) : Linked(a, y) }
           D == Append(C, T)
           P == SUBSET V
<1>1. T \in P /\ a \in T /\ \A y \in T : a <= y
  OBVIOUS
<1>2. /\ Len(C) \in Nat /\ Len(D) = Len(C) + 1 /\ D[Len(C) + 1] = T
      /\ \A c \in 1..Len(C) : D[c] = C[c]
  <2>1. T \in P /\ C \in Seq(P)
    BY <1>1
  <2> HIDE DEF T, P
  <2> QED BY <2>1
<1>3. T = { y \in V \ Before(C, Len(C) + 1) : Linked(a, y) }
  OBVIOUS
<1> HIDE DEF T, D, P, Before, Linked
<1>4. ASSUME NEW c \in 1..(Len(C) + 1) PROVE Before(D, c) = Before(C, c)
  <2>1. 1..(c - 1) \subseteq 1..Len(C)
    BY <1>2
  <2>2. \A d \in 1..(c - 1) : D[d] = C[d]
    BY <1>2, <2>1
  <2> QED BY <2>2 DEF Before
<1>5. ASSUME NEW c \in 1..Len(D) PROVE Chosen(D, c)
  <2>1. CASE c \in 1..Len(C)
    <3>1. Before(D, c) = Before(C, c) /\ D[c] = C[c]
      BY <1>2, <1>4, <2>1
    <3>2. Chosen(C, c)
      BY <2>1 DEF Collected
    <3> QED BY <3>1, <3>2 DEF Chosen
  <2>2. CASE c \notin 1..Len(C)
    <3>1. c = Len(C) + 1
      BY <1>2, <2>2
    <3>2. Before(D, c) = Before(C, c) /\ D[c] = T
      BY <1>2, <1>4, <3>1
    <3> QED BY <1>1, <1>3, <3>1, <3>2 DEF Chosen
  <2> QED BY <2>1, <2>2
<1>6. Before(C, Len(C) + 1) \cup {a} \subseteq Before(D, Len(D) + 1)
  <2> SUFFICES ASSUME NEW x \in Before(C, Len(C) + 1) \cup {a} PROVE x \in Before(D, Len(D) + 1)
    OBVIOUS
  <2>1. CASE x = a
    <3>1. x \in D[Len(C) + 1] /\ Len(C) + 1 \in 1..((Len(D) + 1) - 1)
      BY <1>1, <1>2, <2>1
    <3> QED BY <3>1, BeforeIs
  <2>2. CASE x \in Before(C, Len(C) + 1)
    <3>1. PICK d \in 1..((Len(C) + 1) - 1) : x \in C[d]
      BY <2>2, BeforeIs
    <3>2. d \in 1..Len(C) /\ d \in 1..((Len(D) + 1) - 1)
      BY <1>2
    <3>3. x \in D[d]
      BY <1>2, <3>1, <3>2
    <3> QED BY <3>2, <3>3, BeforeIs
  <2> QED BY <2>1, <2>2
<1>7. Collected(D)
  BY <1>5 DEF Collected
<1> QED BY <1>2, <1>6, <1>7 DEF D, T

-----------------------------------------------------------------------------
ComponentsInv ==
  program = "tenth" /\ Fair /\ LoopsSeen =>
    /\ pc \in {"start", "relax", "walk"} => at = 1 /\ components = <<>>
    /\ pc \in {"analyze", "done"} =>
         Collected(components) /\ 1..(at - 1) \subseteq Before(components, Len(components) + 1)
    /\ pc = "done" => at = n + 1

(* This depends on the graph and the matrix only.                          *)
LEMMA CollectedSame ==
  ASSUME graph' = graph, UNCHANGED loops
  PROVE  Collected(components)' <=> Collected(components')
<1>1. V' = V /\ dist' = dist
  BY GraphSame DEF loops
<1>2. \A x, y : Linked(x, y)' <=> Linked(x, y)
  BY <1>1 DEF Linked
<1>3. \A C, c : Chosen(C, c)' <=> Chosen(C, c)
  <2> HIDE DEF Linked
  <2> QED BY <1>1, <1>2 DEF Chosen, Before
<1> HIDE DEF Chosen
<1> QED BY <1>3 DEF Collected

(* ComponentsInv holds at first,                                           *)
LEMMA ComponentsInit == PathsInit => ComponentsInv
<1> SUFFICES ASSUME PathsInit, program = "tenth" PROVE ComponentsInv
  BY DEF ComponentsInv
<1>1. pc = "start" /\ at = 1 /\ components = <<>>
  BY DEF PathsInit, Tenth!New
<1> QED BY <1>1 DEF ComponentsInv

(* and each step keeps it.                                                 *)
LEMMA ComponentsNext ==
  ASSUME Loops, TenthTypes, ComponentsInv, [PathsNext \/ Terminated]_PathsVars
  PROVE  ComponentsInv'
<1>0. program' = program /\ graph' = graph
  BY LoopSteps
<1>1. (Fair' <=> Fair) /\ V' = V /\ n' = n /\ (LoopsSeen' <=> LoopsSeen)
  BY <1>0, GraphSame DEF Fair, Sane, LoopsSeen
<1>2. SUFFICES ASSUME program = "tenth", Fair, LoopsSeen PROVE ComponentsInv'
  BY <1>0, <1>1 DEF ComponentsInv
<1>3. /\ pc \in {"start", "relax", "walk"} => at = 1 /\ components = <<>>
      /\ pc \in {"analyze", "done"} =>
           Collected(components) /\ 1..(at - 1) \subseteq Before(components, Len(components) + 1)
      /\ pc = "done" => at = n + 1
  BY <1>2 DEF ComponentsInv
<1>4. Weighed /\ n \in Nat /\ V = 1..n /\ V \subseteq Nat
  BY <1>2, LoopsWeighed, WeighedFacts
<1>5. components \in Seq(SUBSET V) /\ at \in 1..(n + 1) /\ (pc = "analyze" => k > n)
  BY <1>2 DEF TenthTypes
<1>6. Tenth!V = V /\ Tenth!n = n
  BY TenthReads
<1>7. at' = at /\ components' = components /\ UNCHANGED loops /\ pc \in {"analyze", "done"} =>
        /\ Collected(components)'
        /\ (1..(at - 1) \subseteq Before(components, Len(components) + 1))'
  <2> SUFFICES ASSUME at' = at, components' = components, UNCHANGED loops, pc \in {"analyze", "done"}
               PROVE  /\ Collected(components)'
                      /\ (1..(at - 1) \subseteq Before(components, Len(components) + 1))'
    OBVIOUS
  <2>1. Collected(components)'
    BY <1>0, <1>3, CollectedSame
  <2>2. (1..(at - 1) \subseteq Before(components, Len(components) + 1))'
    BY <1>3 DEF Before
  <2> QED BY <2>1, <2>2
<1> HIDE DEF Collected, Before
<1>8. CASE UNCHANGED <<pc, loops, next, Rest>>
  BY <1>1, <1>3, <1>7, <1>8 DEF ComponentsInv, Rest
<1>9. CASE /\ pc = "start" /\ Initialize /\ pc' = "relax" /\ UNCHANGED Rest
           /\ next' = [x \in V |-> [y \in V |-> IF is_edge(graph, x, y) THEN y ELSE NoVertex]]
  <2> HIDE DEF Initialize
  <2> QED BY <1>3, <1>9 DEF ComponentsInv, Rest
<1>10. CASE pc = "relax" /\ pc' = "relax" /\ Relax /\ Routing /\ UNCHANGED Rest
  <2> HIDE DEF Relax, Routing
  <2> QED BY <1>3, <1>10 DEF ComponentsInv, Rest
<1>11. CASE pc = "relax" /\ pc' = "undefined" /\ UNCHANGED <<loops, next, Rest>>
  BY <1>11 DEF ComponentsInv
<1>12. CASE /\ pc \in {"relax", "walk"} /\ pc' \in {"analyze", "walk", "undefined", "error"}
            /\ at' = at /\ components' = components
  <2>1. at' = 1 /\ components' = <<>>
    BY <1>3, <1>12
  <2>2. Collected(components)'
    BY <2>1 DEF Collected
  <2>3. (1..(at - 1) \subseteq Before(components, Len(components) + 1))'
    <3>1. 1..(at' - 1) = {}
      BY <2>1
    <3> QED BY <3>1
  <2> QED BY <1>12, <2>1, <2>2, <2>3 DEF ComponentsInv
<1>13. ASSUME NEW a \in 1..(n + 1), NEW b \in 1..(n + 1), Tenth!Reconstruct(a, b)
       PROVE  ComponentsInv'
  <2>1. pc \in {"relax", "walk"} /\ pc' \in {"analyze", "walk", "undefined", "error"}
        /\ at' = at /\ components' = components
    BY <1>13 DEF Tenth!Reconstruct
  <2> QED BY <1>12, <2>1
<1>14. CASE UNCHANGED <<loops, next>> /\ Tenth!Walk
  <2>1. pc \in {"relax", "walk"} /\ pc' \in {"analyze", "walk", "undefined", "error"}
        /\ at' = at /\ components' = components
    BY <1>14 DEF Tenth!Walk
  <2> QED BY <1>12, <2>1
<1>15. CASE UNCHANGED <<loops, next>> /\ Tenth!WalkEnd
  BY <1>12, <1>15 DEF Tenth!WalkEnd
<1>16. CASE UNCHANGED <<loops, next>> /\ Tenth!Component
  <2> DEFINE B == Before(components, Len(components) + 1)
  <2>1. /\ pc = "analyze" /\ pc' = pc /\ at <= n /\ at' = at + 1
        /\ components' = IF at \in Tenth!Visited THEN components
                         ELSE Append(components, { y \in V \ Tenth!Visited : Tenth!InReach(at, y) })
    BY <1>6, <1>16 DEF Tenth!Component
  <2>2. Tenth!Visited = B /\ \A y : Tenth!InReach(at, y) <=> Linked(at, y)
    BY <1>5, VisitedIs DEF Tenth!InReach, Linked
  <2>3. at \in V /\ 1..(at' - 1) = 1..(at - 1) \cup {at}
    BY <1>4, <1>5, <2>1
  <2>4. Collected(components) /\ 1..(at - 1) \subseteq B
    BY <1>3, <2>1
  <2>5. CASE at \in B
    <3>1. components' = components
      BY <2>1, <2>2, <2>5
    <3>2. Collected(components)'
      BY <1>0, <1>16, <2>4, <3>1, CollectedSame
    <3>3. (1..(at - 1) \subseteq Before(components, Len(components) + 1))'
      BY <2>3, <2>4, <2>5, <3>1 DEF Before
    <3> QED BY <2>1, <3>2, <3>3 DEF ComponentsInv
  <2>6. CASE at \notin B
    <3> DEFINE D == Append(components, { y \in V \ B : Linked(at, y) })
    <3>1. components' = D
      BY <2>1, <2>2, <2>6
    <3>2. Linked(at, at)
      <4>1. at \in ReachableBy(Seen, at)
        BY <1>4, <2>3, ReachLaw
      <4>2. k > n /\ ~Fresh /\ program # "sixth"
        BY <1>2, <1>5, <2>1 DEF Fresh
      <4> QED BY <1>2, <2>3, <4>1, <4>2, EntriesReach DEF Linked
    <3>3. \A y \in V \ B : at <= y
      <4> SUFFICES ASSUME NEW y \in V \ B PROVE at <= y
        OBVIOUS
      <4>1. y \notin 1..(at - 1)
        BY <2>4
      <4> QED BY <1>4, <1>5, <4>1
    <3>4. /\ Collected(D) /\ Len(D) = Len(components) + 1
          /\ B \cup {at} \subseteq Before(D, Len(D) + 1)
      BY <1>4, <1>5, <2>3, <2>4, <2>6, <3>2, <3>3, CollectedOne
    <3> HIDE DEF D, B
    <3>5. Collected(components)'
      BY <1>0, <1>16, <3>1, <3>4, CollectedSame
    <3>6. (1..(at - 1) \subseteq Before(components, Len(components) + 1))'
      <4>1. 1..(at' - 1) \subseteq Before(D, Len(D) + 1)
        BY <2>3, <2>4, <3>4
      <4> QED BY <3>1, <4>1 DEF Before
    <3> QED BY <2>1, <3>5, <3>6 DEF ComponentsInv
  <2> QED BY <2>5, <2>6
<1>17. CASE UNCHANGED <<loops, next>> /\ Tenth!Describe
  <2>1. pc = "analyze" /\ at' = at /\ components' = components /\ pc' \in {pc, "undefined"}
    BY <1>17 DEF Tenth!Describe
  <2> QED BY <1>7, <1>17, <2>1 DEF ComponentsInv
<1>18. CASE UNCHANGED <<loops, next>> /\ Tenth!Finish
  <2>1. pc = "analyze" /\ at > n /\ at' = at /\ components' = components /\ pc' = "done"
    BY <1>6, <1>18 DEF Tenth!Finish
  <2>2. at' = n' + 1
    BY <1>1, <1>4, <1>5, <2>1
  <2> QED BY <1>7, <1>18, <2>1, <2>2 DEF ComponentsInv
<1> HIDE DEF ComponentsInv, Initialize, Relax, Routing, Rest
<1> QED BY <1>2, <1>8, <1>9, <1>10, <1>11, <1>13, <1>14, <1>15, <1>16, <1>17, <1>18, TenthSteps

-----------------------------------------------------------------------------
(* What has been collected where the matrix says who reaches whom.         *)
Reaches(x, y) == y \in ReachableBy(Seen, x)
Weakly(x, y) == y \in ReachableBy(Mirrored(Seen), x)

LinkedIsReach == \A x, t \in V : Linked(x, t) <=> Reaches(x, t) \/ Reaches(t, x)

(* What is reached from what is reached.                                   *)
LEMMA ReachesOn ==
  ASSUME Weighed, NEW x \in V, NEW y \in V, NEW z \in V, Reaches(x, y), Reaches(y, z)
  PROVE  Reaches(x, z)
<1> HIDE DEF ReachableBy
<1> QED BY ReachOn DEF Reaches

(* Walks without their direction lead back and on.                         *)
LEMMA WeaklyLaw ==
  ASSUME Weighed, NEW x \in V, NEW y \in V
  PROVE  /\ Reaches(x, y) => Weakly(x, y)
         /\ Weakly(x, y) => Weakly(y, x)
         /\ \A z \in V : Weakly(x, y) /\ Weakly(y, z) => Weakly(x, z)
<1>1. Seen \subseteq Mirrored(Seen)
  BY DEF Mirrored
<1>2. \A a, b \in V : <<a, b>> \in Mirrored(Seen) => <<b, a>> \in Mirrored(Seen)
  <2> SUFFICES ASSUME NEW a \in V, NEW b \in V, <<a, b>> \in Mirrored(Seen)
               PROVE  <<b, a>> \in Mirrored(Seen)
    OBVIOUS
  <2>1. CASE <<a, b>> \in Seen
    <3>1. <<b, a>> = <<<<a, b>>[2], <<a, b>>[1]>>
      OBVIOUS
    <3> HIDE DEF Seen
    <3> QED BY <2>1, <3>1 DEF Mirrored
  <2>2. ASSUME NEW e \in Seen, <<a, b>> = <<e[2], e[1]>> PROVE <<b, a>> \in Seen
    <3>1. \E p, q : e = <<p, q>>
      <4>1. e \in Edges
        BY DEF Seen
      <4>2. PICK p \in V : e \in { <<p, q>> : q \in Near(p) }
        BY <4>1 DEF Edges
      <4> QED BY <4>2
    <3> QED BY <2>2, <3>1
  <2> HIDE DEF Seen
  <2>3. <<a, b>> \in Seen \/ \E e \in Seen : <<a, b>> = <<e[2], e[1]>>
    BY DEF Mirrored
  <2>4. <<b, a>> \in Seen => <<b, a>> \in Mirrored(Seen)
    BY DEF Mirrored
  <2> QED BY <2>1, <2>2, <2>3, <2>4
<1> HIDE DEF Seen, Mirrored, ReachableBy
<1>3. Reaches(x, y) => Weakly(x, y)
  BY <1>1, ReachMore DEF Reaches, Weakly
<1>4. Weakly(x, y) => Weakly(y, x)
  BY <1>2, ReachBack DEF Weakly
<1>5. \A z \in V : Weakly(x, y) /\ Weakly(y, z) => Weakly(x, z)
  BY ReachOn DEF Weakly
<1> QED BY <1>3, <1>4, <1>5

(* Two components share nothing, and the least vertex of the later one was *)
(* not linked with that of the earlier one, or it would be in there.       *)
LEMMA CollectedApart ==
  ASSUME Weighed, NEW C \in Seq(SUBSET V), Collected(C), LinkedIsReach
  PROVE  \A c, d \in 1..Len(C) : c < d =>
           /\ C[c] \cap C[d] = {}
           /\ ~Reaches(Least(C[c]), Least(C[d])) /\ ~Reaches(Least(C[d]), Least(C[c]))
<1> SUFFICES ASSUME NEW c \in 1..Len(C), NEW d \in 1..Len(C), c < d
             PROVE  /\ C[c] \cap C[d] = {}
                    /\ ~Reaches(Least(C[c]), Least(C[d])) /\ ~Reaches(Least(C[d]), Least(C[c]))
  OBVIOUS
<1>0. V \subseteq Nat
  BY WeighedFacts
<1>1. ASSUME NEW e \in 1..Len(C)
      PROVE  \E a \in V \ Before(C, e) :
               /\ Least(C[e]) = a
               /\ C[e] = { y \in V \ Before(C, e) : Linked(a, y) }
  <2>1. PICK a \in V \ Before(C, e) :
            /\ Linked(a, a)
            /\ C[e] = { y \in V \ Before(C, e) : Linked(a, y) }
            /\ \A y \in C[e] : a <= y
    BY DEF Collected, Chosen
  <2> HIDE DEF Before, Linked
  <2>2. a \in C[e] /\ C[e] \subseteq Nat
    BY <1>0, <2>1
  <2>3. \A x \in C[e] : (\A y \in C[e] : x <= y) => x = a
    BY <2>1, <2>2
  <2>4. Least(C[e]) = a
    BY <2>1, <2>2, <2>3 DEF Least
  <2> QED BY <2>1, <2>4
<1>2. PICK a \in V \ Before(C, c) : Least(C[c]) = a /\ C[c] = { y \in V \ Before(C, c) : Linked(a, y) }
  BY <1>1
<1>3. PICK b \in V \ Before(C, d) : Least(C[d]) = b /\ C[d] = { y \in V \ Before(C, d) : Linked(b, y) }
  BY <1>1
<1>4. C[c] \subseteq Before(C, d) /\ Before(C, c) \subseteq Before(C, d)
  <2>1. c \in 1..(d - 1) /\ 1..(c - 1) \subseteq 1..(d - 1)
    OBVIOUS
  <2> QED BY <2>1 DEF Before
<1> HIDE DEF Before, Linked, Reaches
<1>5. ~Linked(a, b)
  BY <1>2, <1>3, <1>4
<1>6. ~Reaches(a, b) /\ ~Reaches(b, a)
  BY <1>5 DEF LinkedIsReach
<1> QED BY <1>2, <1>3, <1>4, <1>6

(* All of a component is linked with its least vertex, and what is         *)
(* strongly connected with a member is linked with the same vertices as    *)
(* that.                                                                   *)
LEMMA CollectedWhole ==
  ASSUME Weighed, NEW C \in Seq(SUBSET V), Collected(C), LinkedIsReach,
         NEW c \in 1..Len(C), NEW x \in C[c], NEW y \in V
  PROVE  /\ y \in C[c] => Weakly(x, y)
         /\ Reaches(x, y) /\ Reaches(y, x) => y \in C[c]
<1>1. ASSUME NEW e \in 1..Len(C)
      PROVE  \E a \in V : C[e] = { z \in V \ Before(C, e) : Linked(a, z) }
  BY DEF Collected, Chosen
<1>2. PICK a \in V : C[c] = { z \in V \ Before(C, c) : Linked(a, z) }
  BY <1>1
<1> HIDE DEF Before, Linked, Reaches, Weakly
<1>3. x \in V /\ x \notin Before(C, c) /\ Linked(a, x)
  BY <1>2
<1>4. ASSUME y \in C[c] PROVE Weakly(x, y)
  <2>1. Linked(a, y)
    BY <1>2, <1>4
  <2>2. Weakly(a, x) /\ Weakly(a, y)
    BY <1>3, <2>1, WeaklyLaw DEF LinkedIsReach
  <2> QED BY <1>3, <2>2, WeaklyLaw
<1>5. ASSUME Reaches(x, y), Reaches(y, x), NEW b \in V
      PROVE  Linked(b, x) <=> Linked(b, y)
  <2>1. Reaches(b, x) <=> Reaches(b, y)
    BY <1>3, <1>5, ReachesOn
  <2>2. Reaches(x, b) <=> Reaches(y, b)
    BY <1>3, <1>5, ReachesOn
  <2> QED BY <1>3, <2>1, <2>2 DEF LinkedIsReach
<1>6. ASSUME Reaches(x, y), Reaches(y, x) PROVE y \in C[c]
  <2> DEFINE U == { e \in 1..Len(C) : e < c /\ y \in C[e] }
  <2>1. Linked(a, y)
    BY <1>3, <1>5, <1>6
  <2>2. y \notin Before(C, c)
    <3> SUFFICES ASSUME y \in Before(C, c) PROVE FALSE
      OBVIOUS
    <3>1. PICK d \in 1..(c - 1) : y \in C[d]
      BY BeforeIs
    <3>2. d \in 1..Len(C) /\ 1..(d - 1) \subseteq 1..(c - 1)
      OBVIOUS
    <3>3. PICK b \in V : C[d] = { z \in V \ Before(C, d) : Linked(b, z) }
      BY <1>1, <3>2
    <3>4. Linked(b, x)
      BY <1>5, <1>6, <3>1, <3>3
    <3>5. x \notin Before(C, d) /\ x \notin C[d]
      BY <1>3, <3>2, BeforeIs
    <3> QED BY <1>3, <3>3, <3>4, <3>5
  <2> QED BY <1>2, <2>1, <2>2
<1> QED BY <1>4, <1>6

(* So the components lie between the two notions.                          *)
LEMMA ComponentsSuffice ==
  ASSUME Loops, TenthTypes, ComponentsInv
  PROVE  ComponentsBetween
<1> DEFINE Hm == \A x \in Tenth!V : Tenth!weight(graph, x, x) # INT_MAX
<1>1. SUFFICES ASSUME program = "tenth", pc = "done", LoopsSeen, ~NegativeCycle, Counted
               PROVE  /\ Tenth!Visited = V
                      /\ \A c, d \in DOMAIN components : c # d =>
                           /\ components[c] \cap components[d] = {}
                           /\ ~Reaches(Least(components[c]), Least(components[d]))
                      /\ \A c \in DOMAIN components : \A x \in components[c] : \A y \in V :
                           /\ y \in components[c] => Weakly(x, y)
                           /\ Reaches(x, y) /\ Reaches(y, x) => y \in components[c]
  <2>1. Tenth!V = V /\ Tenth!NegativeCycle = NegativeCycle /\ Tenth!Counted = Counted
    BY TenthReads
  <2>2. Hm <=> LoopsSeen
    BY <2>1 DEF LoopsSeen, Tenth!weight, weight
  <2>3. { e \in Tenth!Edges : Tenth!SeenEdge(e[1], e[2]) } = Seen
    <3>1. \A x : Tenth!Near(x) = Near(x)
      BY <2>1 DEF Tenth!Near, Near, Tenth!adjacency_list, adjacency_list, Tenth!is_edge, is_edge,
                  Tenth!weight, weight, Tenth!Vertices, Vertices
    <3>2. Tenth!Edges = Edges
      BY <2>1, <3>1 DEF Tenth!Edges, Edges
    <3>3. \A x, y : Tenth!SeenEdge(x, y) = SeenEdge(x, y)
      BY DEF Tenth!SeenEdge, SeenEdge, Tenth!is_edge, is_edge, Tenth!weight, weight
    <3> HIDE DEF Edges, SeenEdge
    <3> QED BY <3>2, <3>3 DEF Seen
  <2>4. \A E, x : Tenth!ReachableBy(E, x) = ReachableBy(E, x)
    BY Zenon DEF Tenth!ReachableBy, ReachableBy, Tenth!Within, Within, Tenth!V, V, Tenth!Vertices, Vertices
  <2>5. \A E : Tenth!Mirrored(E) = Mirrored(E)
    BY DEF Tenth!Mirrored, Mirrored
  <2>6. \A S : Tenth!Least(S) = Least(S)
    BY DEF Tenth!Least, Least
  <2> HIDE DEF Seen, Mirrored, ReachableBy, Least, Hm
  <2>7. program = "tenth" => Tenth!ComponentsBetween
    <3> SUFFICES ASSUME program = "tenth", pc = "done", Hm, ~NegativeCycle, Counted
                 PROVE  /\ Tenth!Visited = V
                        /\ \A c, d \in DOMAIN components : c # d =>
                             /\ components[c] \cap components[d] = {}
                             /\ ~(Least(components[d]) \in ReachableBy(Seen, Least(components[c])))
                        /\ \A c \in DOMAIN components : \A x \in components[c] : \A y \in V :
                             /\ y \in components[c] => y \in ReachableBy(Mirrored(Seen), x)
                             /\ y \in ReachableBy(Seen, x) /\ x \in ReachableBy(Seen, y) => y \in components[c]
      BY <2>1, <2>3, <2>4, <2>5, <2>6, Zenon DEF Tenth!ComponentsBetween, Hm
    <3> QED BY <1>1, <2>2 DEF Reaches, Weakly
  <2> QED BY <2>7 DEF ComponentsBetween
<1>2. Weighed /\ Fair
  BY <1>1, LoopsWeighed DEF Fair, Sane
<1>3. components \in Seq(SUBSET V) /\ n \in Nat /\ V = 1..n
  BY <1>1, <1>2, WeighedFacts DEF TenthTypes
<1>4. Collected(components) /\ V \subseteq Before(components, Len(components) + 1)
  <2>1. 1..((n + 1) - 1) = V
    BY <1>3
  <2> QED BY <1>1, <1>2, <2>1 DEF ComponentsInv
<1>5. LinkedIsReach
  <2>1. \A x, t \in V : dist[x][t] # INT_MAX <=> Reaches(x, t)
    <3>1. k > n /\ ~Fresh /\ program # "sixth"
      BY <1>1 DEF TenthTypes, Fresh
    <3> QED BY <1>1, <1>2, <3>1, EntriesReach DEF Reaches
  <2> HIDE DEF Reaches
  <2> QED BY <2>1 DEF LinkedIsReach, Linked
<1>6. DOMAIN components = 1..Len(components) /\ Len(components) \in Nat
  BY <1>3
<1>7. Tenth!Visited = V
  <2>1. \A c \in 1..Len(components) : components[c] \subseteq V
    BY <1>3
  <2>2. Before(components, Len(components) + 1) \subseteq V
    <3>1. 1..((Len(components) + 1) - 1) = 1..Len(components)
      BY <1>6
    <3> QED BY <2>1, <3>1 DEF Before
  <2> QED BY <1>3, <1>4, <2>2, VisitedIs
<1> HIDE DEF Collected, Reaches, Weakly, LinkedIsReach
<1>8. ASSUME NEW c \in DOMAIN components, NEW d \in DOMAIN components, c # d
      PROVE  /\ components[c] \cap components[d] = {}
             /\ ~Reaches(Least(components[c]), Least(components[d]))
  <2>1. c < d \/ d < c
    BY <1>6, <1>8
  <2>2. \A a, b \in 1..Len(components) : a < b =>
           /\ components[a] \cap components[b] = {}
           /\ ~Reaches(Least(components[a]), Least(components[b]))
           /\ ~Reaches(Least(components[b]), Least(components[a]))
    BY <1>2, <1>3, <1>4, <1>5, CollectedApart
  <2> QED BY <1>6, <2>1, <2>2
<1>9. ASSUME NEW c \in DOMAIN components, NEW x \in components[c], NEW y \in V
      PROVE  /\ y \in components[c] => Weakly(x, y)
             /\ Reaches(x, y) /\ Reaches(y, x) => y \in components[c]
  BY <1>2, <1>3, <1>4, <1>5, <1>6, CollectedWhole
<1> QED BY <1>7, <1>8, <1>9

(* The components share the vertices out, cut no strong component and join *)
(* no two weak ones, and their least vertices do not reach each other.     *)
THEOREM PathsComponentsBetween == PathsSpec => []ComponentsBetween
<1> DEFINE Inv == Loops /\ TenthTypes /\ ComponentsInv
<1>1. PathsInit => Inv
  BY LoopsInit, TenthTypesInit, ComponentsInit
<1>2. Inv /\ [PathsNext \/ Terminated]_PathsVars => Inv'
  BY LoopsNext, TenthTypesNext, ComponentsNext
<1>3. Inv => ComponentsBetween
  BY ComponentsSuffice
<1> QED
  <2> HIDE DEF Inv
  <2> QED BY <1>1, <1>2, <1>3, PTL DEF PathsSpec

=============================================================================
