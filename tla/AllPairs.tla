------------------------------ MODULE AllPairs ------------------------------
(***************************************************************************)
(* The distance matrix and the three loops that the constructors of        *)
(* graphs/tenth.cpp and graphs/fourth.cpp have in common.  A step is one   *)
(* iteration of the inner loop, or a row that is skipped.  INT_MAX is both *)
(* the greatest int and "no path", as in the code; a sum that is no int    *)
(* leaves everything after it undefined.                                   *)
(***************************************************************************)
EXTENDS GraphProgram

CONSTANT INT_MAX

(* It is one less than a power of two; all that matters of that is: odd.   *)
ASSUME IntAssumption == INT_MAX \in Nat /\ \E h \in 0..INT_MAX : INT_MAX = 2 * h + 1

VARIABLES dist, k, i, j

loops == <<dist, k, i, j>>

Ints == (-INT_MAX - 1)..INT_MAX

n == Len(graph)

NewLoops == dist = <<>> /\ k = 1 /\ i = 1 /\ j = 1

(* A self-loop overwrites the 0. *)
Initial(u, v) ==
  IF is_edge(graph, u, v) THEN weight(graph, u, v) ELSE IF u = v THEN 0 ELSE INT_MAX

Initialize ==
  /\ dist' = [u \in V |-> [v \in V |-> Initial(u, v)]]
  /\ UNCHANGED <<k, i, j>>

Sum == dist[i][k] + dist[k][j]

(* Variant of Connected: INT_MAX enters a sum.                             *)
ConnectedFirst == dist[i][k] # INT_MAX

Connected == dist[i][k] # INT_MAX /\ dist[k][j] # INT_MAX

Improves == Connected /\ Sum < dist[i][j]

NextRow == j' = 1 /\ IF i < n THEN i' = i + 1 /\ UNCHANGED k ELSE i' = 1 /\ k' = k + 1

(* The caller says what else an improvement changes. *)
Relax ==
  /\ k <= n
  /\ Connected => Sum \in Ints
  /\ dist' = IF Improves THEN [dist EXCEPT ![i][j] = Sum] ELSE dist
  /\ IF dist[i][k] # INT_MAX /\ j < n THEN j' = j + 1 /\ UNCHANGED <<k, i>> ELSE NextRow

Overflow == k <= n /\ Connected /\ Sum \notin Ints /\ UNCHANGED loops

-----------------------------------------------------------------------------

LoopsTypeOK ==
  /\ k \in 1..(n + 1) /\ i \in 1..(n + 1) /\ j \in 1..(n + 1)
  /\ dist \in [V -> [V -> Ints]] \/ dist = <<>>

(* The weights of the walks from u to v whose inner vertices are distinct  *)
(* members of S (and neither u nor v), over the edges the loops see.       *)
SeenEdge(u, v) == is_edge(graph, u, v) /\ weight(graph, u, v) # INT_MAX

Lengths(S, u, v) ==
  LET L[T \in SUBSET V] ==
        [x \in V |->
           (IF SeenEdge(x, v) THEN {weight(graph, x, v)} ELSE {})
           \cup UNION { { weight(graph, x, y) + l : l \in L[T \ {y}][y] } :
                          y \in { z \in T : SeenEdge(x, z) } }]
  IN  L[S \ {u, v}][u]

NegativeCycle == \E u \in V : \E l \in Lengths(V, u, u) : l < 0

(* No path has the length that stands for none.                            *)
Counted == \A u, v \in V : INT_MAX \notin Lengths(V, u, v)

(* A path that is already there, or none, counts as the code counts it.    *)
Shortest(S, u, v) ==
  Least(Lengths(S, u, v) \cup {INT_MAX} \cup
        IF u = v /\ ~is_edge(graph, u, u) THEN {0} ELSE {})

(* Before the pass for k, and after the last, every entry is the length of *)
(* a shortest path through vertices below k, or INT_MAX.  The rows and the *)
(* column the pass reads are rewritten while it runs.  On the diagonal     *)
(* stands the shortest way out and back where there is a self-loop.  On a  *)
(* digraph a path as long as INT_MAX is lost, and with it a shorter one    *)
(* that goes on along a negative edge; on an undirected graph the way out  *)
(* and back would have overflowed before.                                  *)
ShortestSoFar ==
  dist # <<>> /\ i = 1 /\ j = 1 /\ ~NegativeCycle /\ (CheckDirected(graph) => Counted) =>
    \A u, v \in V : dist[u][v] = Shortest(1..(k - 1), u, v)

(* A sum that is formed in the course of a pass leaves the range of an int  *)
(* only where the graph has two walks, the second from where the first      *)
(* ends, whose weights together do.  So INT_MAX as "no path" never gets     *)
(* into a sum, and no entry is further from 0 than a walk without repeated  *)
(* inner vertices is, although a pass adds entries it has changed itself.   *)
OverflowNeedsHeavyWalks ==
  k <= n /\ pc = "relax" /\ Connected /\ Sum \notin Ints
    /\ ~NegativeCycle /\ (CheckDirected(graph) => Counted) =>
      \E x, y, z \in V : \E l \in Lengths(V, x, y), m \in Lengths(V, y, z) : l + m \notin Ints

=============================================================================
