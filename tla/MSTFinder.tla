----------------------------- MODULE MSTFinder -----------------------------
(***************************************************************************)
(* Class MSTFinder of graphs/nineth.cpp: Prim's algorithm from vertex 1.   *)
(* One step is one iteration of the outer loop of prim.  INT_MAX stands    *)
(* for "no edge to the tree", so that an edge of that weight is not seen.  *)
(***************************************************************************)
EXTENDS GraphProgram, FiniteSetsExt

CONSTANT INT_MAX

VARIABLES included, parent, min_weight, mst_edges, total_weight

result == <<mst_edges, total_weight>>
vars == <<graph, pc, included, parent, min_weight, mst_edges, total_weight>>

NoParent == -1

New ==
  /\ included = {}
  /\ parent = [v \in V |-> NoParent] /\ min_weight = [v \in V |-> INT_MAX]
  /\ mst_edges = {} /\ total_weight = 0

Init == Loaded /\ New

(* Without vertices, min_weight_[1] is written past the end. *)
Start ==
  /\ pc = "start"
  /\ \/ CheckDirected(graph) /\ pc' = "error" /\ UNCHANGED min_weight
     \/ V = {} /\ pc' = "undefined" /\ UNCHANGED min_weight
     \/ /\ ~CheckDirected(graph) /\ V # {}
        /\ min_weight' = [min_weight EXCEPT ![1] = 0]
        /\ pc' = "prim"
  /\ UNCHANGED <<graph, included, parent, result>>

Candidates == { v \in V \ included : min_weight[v] < INT_MAX }

find_min_weight_vertex ==
  Least({ v \in Candidates : \A w \in Candidates : min_weight[v] <= min_weight[w] })

(* Variant of Offer: the way to v through u, not the edge alone.           *)
OfferPath(u, v) == min_weight[u] + weight(graph, u, v)

Offer(u, v) == weight(graph, u, v)

(* Variant of Closer: vertices of the tree are offered edges, too.         *)
CloserAnyway(u, v) == is_edge(graph, u, v) /\ Offer(u, v) < min_weight[v]

Closer(u, v) ==
  is_edge(graph, u, v) /\ v \notin included \cup {u} /\ Offer(u, v) < min_weight[v]

Include ==
  /\ pc = "prim" /\ Candidates # {}
  /\ LET u == find_min_weight_vertex
     IN  /\ included' = included \cup {u}
         /\ parent' = [v \in V |-> IF Closer(u, v) THEN u ELSE parent[v]]
         /\ min_weight' = [v \in V |-> IF Closer(u, v) THEN Offer(u, v) ELSE min_weight[v]]
  /\ UNCHANGED <<graph, pc, result>>

Disconnected ==
  /\ pc = "prim" /\ Candidates = {} /\ included # V
  /\ pc' = "error"
  /\ UNCHANGED <<graph, included, parent, min_weight, result>>

Ints == (-INT_MAX - 1)..INT_MAX

(* The total over the vertices up to v, in the order of the loop. *)
Total(v) == SumFunctionOnSet(min_weight, { w \in 2..v : parent[w] # NoParent })

Collect ==
  /\ pc = "prim" /\ included = V
  /\ IF \A v \in V : Total(v) \in Ints
     THEN /\ pc' = "done"
          /\ mst_edges' = { <<parent[v], v, min_weight[v]>> :
                              v \in { w \in V \ {1} : parent[w] # NoParent } }
          /\ total_weight' = Total(Len(graph))
     ELSE pc' = "undefined" /\ UNCHANGED result
  /\ UNCHANGED <<graph, included, parent, min_weight>>

Next == Start \/ Include \/ Disconnected \/ Collect

Spec == Init /\ [][Next]_vars

-----------------------------------------------------------------------------

TypeOK ==
  /\ pc \in {"start", "prim", "done", "error", "undefined"}
  /\ included \subseteq V
  /\ parent \in [V -> included \cup {NoParent}]
  /\ min_weight \in [V -> Ints] /\ total_weight \in Ints
  /\ mst_edges \subseteq included \X included \X Ints

Tree == { <<parent[v], v>> : v \in included \ {1} }

(* The graph as prim sees it. *)
Seen == [u \in V |-> [v \in V |-> IF graph[u][v] = INT_MAX THEN 0 ELSE graph[u][v]]]

Weights == [e \in V \X V |-> weight(graph, e[1], e[2])]

WeightOf(T) == SumFunctionOnSet(Weights, T)

(* The spanning trees of what 1 reaches, each edge with its lesser end     *)
(* first, and those of least weight.                                       *)
Trees ==
  LET E == { e \in Edges : graph[e[1]][e[2]] # INT_MAX }
      S == ReachableBy(E, 1)
  IN  { T \in kSubset(Cardinality(S) - 1, { e \in E : e[1] < e[2] /\ e[1] \in S }) :
          ReachableBy(Mirrored(T), 1) = S }

LeastTrees == LET all == Trees IN { T \in all : \A U \in all : WeightOf(T) <= WeightOf(U) }

(* After every choice the tree is part of a tree of least weight (so that  *)
(* a wrong choice, which a later one may hide, shows at once), also where  *)
(* the graph will turn out to be disconnected; what is printed is a whole  *)
(* one, with the weights of its edges and their sum.                       *)
LeastTree ==
  /\ pc = "prim" => \E T \in LeastTrees : Tree \subseteq Mirrored(T)
  /\ pc = "done" =>
       /\ mst_edges = { <<e[1], e[2], graph[e[1]][e[2]]>> : e \in Tree }
       /\ \E T \in LeastTrees : Mirrored(T) = Mirrored(Tree) /\ WeightOf(T) = total_weight

=============================================================================
