----------------------------- MODULE TreeGrowth -----------------------------
(***************************************************************************)
(* What the programs that span a graph promise, without their order: from  *)
(* a root, a vertex reached passes the tree on along edges to vertices not *)
(* yet reached, any number of them at once, until no edge leads out; the   *)
(* graph is refused if some vertex is then left over, or if it is          *)
(* directed.  Modules SpanningTree (graphs/third.cpp) and MSTFinder        *)
(* (graphs/nineth.cpp) implement this specification.                       *)
(***************************************************************************)
EXTENDS Graph, FiniteSets

VARIABLES graph, root,   \* any graph and any vertex, or none; never assigned
          reached,       \* the vertices of the tree
          tree,          \* its edges, as pairs <<parent, child>>
          status         \* "growing", "spanned" or "refused"

vars == <<graph, root, reached, tree, status>>

Init ==
  /\ reached = {} /\ tree = {}
  /\ status = "growing"

Plant ==
  /\ reached = {} /\ status = "growing"
  /\ ~CheckDirected(graph) /\ root \in Vertices(graph)
  /\ reached' = {root}
  /\ UNCHANGED <<graph, root, tree, status>>

Grow ==
  /\ status = "growing"
  /\ \E u \in reached : \E new \in SUBSET (adjacency_list(graph, u) \ reached) :
       /\ reached' = reached \cup new
       /\ tree' = tree \cup ({u} \X new)
  /\ UNCHANGED <<graph, root, status>>

Finish ==
  /\ status = "growing"
  /\ reached # {} \/ CheckDirected(graph)
  /\ \A u \in reached : adjacency_list(graph, u) \subseteq reached
  /\ status' = IF reached = Vertices(graph) THEN "spanned" ELSE "refused"
  /\ UNCHANGED <<graph, root, reached, tree>>

Next == Plant \/ Grow \/ Finish

Spec == Init /\ [][Next]_vars

-----------------------------------------------------------------------------

(* The pairs are a tree on the vertices reached, at every moment: each of  *)
(* them but the root has one parent, itself reached, and the root leads    *)
(* everywhere (a set that has the root and with every parent its children  *)
(* is all).                                                                *)
TreeOnReached ==
  /\ \A e \in tree : /\ e[1] \in reached /\ is_edge(graph, e[1], e[2])
                     /\ e[2] \in reached \ {root}
                     /\ \A f \in tree : e[2] = f[2] => e = f
  /\ \A S \in SUBSET reached :
       root \in S /\ (\A e \in tree : e[1] \in S => e[2] \in S) => S = reached

=============================================================================
