----------------------- MODULE FloydWarshallAnalyzer -----------------------
(***************************************************************************)
(* Class FloydWarshallAnalyzer of graphs/tenth.cpp: the matrix next_ kept  *)
(* beside the distances, a path read off it, and the components with their *)
(* eccentricities read off the distances.  The path is what memory holds:  *)
(* push_back throws std::bad_alloc after Memory vertices.                  *)
(***************************************************************************)
EXTENDS AllPairs

CONSTANT Memory

VARIABLES
  next,
  u, v, path,          \* of reconstructPath
  at, components,      \* of analyzeComponents: its u, and what it has collected
  printed              \* what it has said of the components

vars == <<graph, pc, dist, k, i, j, next, u, v, path, at, components, printed>>

NoVertex == -1

New ==
  /\ NewLoops
  /\ next = <<>> /\ u = 1 /\ v = 1 /\ path = <<>>
  /\ at = 1 /\ components = <<>> /\ printed = <<>>

Init == Loaded /\ New

Construct ==
  /\ pc = "start"
  /\ Initialize
  /\ next' = [x \in V |-> [y \in V |-> IF is_edge(graph, x, y) THEN y ELSE NoVertex]]
  /\ pc' = "relax"
  /\ UNCHANGED <<graph, u, v, path, at, components, printed>>

(* Variant of Via: the last vertex before the target, not the first after  *)
(* the source.                                                             *)
ViaMiddle == k

Via == next[i][k]

RelaxCell ==
  /\ pc = "relax" /\ Relax
  /\ next' = IF Improves THEN [next EXCEPT ![i][j] = Via] ELSE next
  /\ UNCHANGED <<graph, pc, u, v, path, at, components, printed>>

OverflowCell ==
  /\ pc = "relax" /\ Overflow
  /\ pc' = "undefined"
  /\ UNCHANGED <<graph, next, u, v, path, at, components, printed>>

(* reconstructPath indexes with what it is given; no path is empty. *)
Reconstruct(a, b) ==
  /\ pc = "relax" /\ k > n
  /\ u' = a /\ v' = b
  /\ IF {a, b} \subseteq V
     THEN IF next[a][b] = NoVertex THEN pc' = "analyze" /\ UNCHANGED path
                                   ELSE pc' = "walk" /\ path' = <<a>>
     ELSE pc' = "undefined" /\ UNCHANGED path
  /\ UNCHANGED <<graph, loops, next, at, components, printed>>

Walk ==
  /\ pc = "walk" /\ u # v
  /\ IF next[u][v] = NoVertex \/ Len(path) = Memory
     THEN /\ pc' = IF next[u][v] = NoVertex THEN "undefined" ELSE "error"
          /\ UNCHANGED <<u, path>>
     ELSE u' = next[u][v] /\ path' = Append(path, u') /\ UNCHANGED pc
  /\ UNCHANGED <<graph, loops, next, v, at, components, printed>>

WalkEnd ==
  /\ pc = "walk" /\ u = v
  /\ pc' = "analyze"
  /\ UNCHANGED <<graph, loops, next, u, v, path, at, components, printed>>

Visited == UNION { components[c] : c \in DOMAIN components }

(* Variant of InReach: only what the vertex reaches.                       *)
InReachForward(x, y) == dist[x][y] # INT_MAX

InReach(x, y) == dist[x][y] # INT_MAX \/ dist[y][x] # INT_MAX

Component ==
  /\ pc = "analyze" /\ at <= n
  /\ components' = IF at \in Visited THEN components
                   ELSE Append(components, { y \in V \ Visited : InReach(at, y) })
  /\ at' = at + 1
  /\ UNCHANGED <<graph, pc, loops, next, u, v, path, printed>>

Greatest(S) == CHOOSE x \in S : \A y \in S : y <= x

(* x itself is not left out. *)
Eccentricity(comp, x) ==
  Greatest({0} \cup ({ dist[x][y] : y \in comp } \ {INT_MAX}))

(* A vertex whose loop weighs INT_MAX may be out of reach of itself, which *)
(* makes its component empty: it has no least eccentricity.                *)
Describe ==
  /\ pc = "analyze" /\ at > n /\ Len(printed) < Len(components)
  /\ LET comp == components[Len(printed) + 1]
         ecc == [x \in comp |-> Eccentricity(comp, x)]
         all == { ecc[x] : x \in comp }
     IN  IF comp = {} THEN pc' = "undefined" /\ UNCHANGED printed
         ELSE /\ printed' = Append(printed,
                   [radius |-> Least(all), diameter |-> Greatest(all),
                    central |-> { x \in comp : ecc[x] = Least(all) },
                    peripherial |-> { x \in comp : ecc[x] = Greatest(all) }])
              /\ UNCHANGED pc
  /\ UNCHANGED <<graph, loops, next, u, v, path, at, components>>

Finish ==
  /\ pc = "analyze" /\ at > n /\ Len(printed) = Len(components)
  /\ pc' = "done"
  /\ UNCHANGED <<graph, loops, next, u, v, path, at, components, printed>>

Next ==
  \/ Construct \/ RelaxCell \/ OverflowCell
  \/ \E a, b \in 1..(n + 1) : Reconstruct(a, b)
  \/ Walk \/ WalkEnd
  \/ Component \/ Describe \/ Finish

Spec == Init /\ [][Next]_vars

-----------------------------------------------------------------------------

TypeOK ==
  /\ LoopsTypeOK
  /\ pc \in {"start", "relax", "walk", "analyze", "done", "error", "undefined"}
  /\ next \in [V -> [V -> V \cup {NoVertex}]] \/ next = <<>>
  /\ {u, v} \subseteq 1..(n + 1) /\ path \in Seq(V)
  /\ at \in 1..(n + 1) /\ components \in Seq(SUBSET V) /\ Len(printed) <= Len(components)

(* Walking along next_, what has been walked and what the matrix says of   *)
(* the rest add up to the length promised, vertex by vertex; the walk ends *)
(* before it meets n + 1 vertices; and only where no path was found is     *)
(* there none.  Without negative cycles, that is: with one, next_ may lead *)
(* round for ever; and without a path as long as INT_MAX, which is lost    *)
(* for one pair and found in parts for another.  (The way from a vertex to *)
(* itself is one vertex long, whatever the diagonal says.)                 *)
WalkKeepsLength ==
  pc \in {"walk", "done", "error"} /\ ~NegativeCycle /\ Counted =>
    LET Left(x) == IF x = v THEN 0 ELSE dist[x][v]
        Walked[l \in 1..Len(path)] ==
          IF l = 1 THEN 0 ELSE Walked[l - 1] + weight(graph, path[l - 1], path[l])
    IN  /\ pc = "walk" => /\ Walked[Len(path)] + Left(u) = Left(path[1])
                          /\ Len(path) <= n
        /\ pc # "error"
        /\ pc = "done" /\ path = <<>> /\ u # v => dist[u][v] = INT_MAX

(* The components of analyzeComponents share the vertices out, and lie     *)
(* between two notions: none cuts a strong component, none joins two weak  *)
(* ones (both of the edges that count).  On undirected graphs these agree, *)
(* so that the components are right; on a digraph all that holds besides   *)
(* is that the least vertices of two components do not reach each other.   *)
(* (A vertex whose loop weighs INT_MAX may be left out of all of them.)    *)
ComponentsBetween ==
  LET E == { e \in Edges : SeenEdge(e[1], e[2]) }
      Reach(x, y) == y \in ReachableBy(E, x)
      Weak(x, y) == y \in ReachableBy(Mirrored(E), x)
      Home == \A x \in V : weight(graph, x, x) # INT_MAX
  IN  pc = "done" /\ Home /\ ~NegativeCycle /\ Counted =>
        /\ Visited = V
        /\ \A c, d \in DOMAIN components : c # d =>
             /\ components[c] \cap components[d] = {}
             /\ ~Reach(Least(components[c]), Least(components[d]))
        /\ \A c \in DOMAIN components : \A x \in components[c] : \A y \in V :
             /\ y \in components[c] => Weak(x, y)
             /\ Reach(x, y) /\ Reach(y, x) => y \in components[c]

=============================================================================
