---------------------------- MODULE SpanningTree ----------------------------
(***************************************************************************)
(* Class SpanningTree of graphs/third.cpp: the constructor searches the    *)
(* graph breadth first or depth first and keeps the edges along which it   *)
(* finds vertices.  Steps are those of module ConnectivityFinder.          *)
(***************************************************************************)
EXTENDS GraphProgram

VARIABLES
  algorithm, start_vertex,   \* arguments
  visited, tree_edges,
  frontier                   \* the queue of bfs, or the pending calls of dfs

arguments == <<graph, algorithm, start_vertex>>
vars == <<graph, pc, algorithm, start_vertex, visited, tree_edges, frontier>>

(* The default start is 1, whatever the size of the graph. *)
New ==
  /\ algorithm \in {"bfs", "dfs"} /\ start_vertex \in V \cup {1}
  /\ visited = {} /\ tree_edges = {} /\ frontier = <<>>

Init == Loaded /\ New

Refuse ==
  /\ pc = "start" /\ CheckDirected(graph)
  /\ pc' = "error"
  /\ UNCHANGED <<arguments, visited, tree_edges, frontier>>

(* visited_[start] is written before anything looks at start. *)
OutOfRange ==
  /\ pc = "start" /\ ~CheckDirected(graph) /\ start_vertex \notin V
  /\ pc' = "undefined"
  /\ UNCHANGED <<arguments, visited, tree_edges, frontier>>

Start ==
  /\ pc = "start" /\ ~CheckDirected(graph) /\ start_vertex \in V
  /\ visited' = {start_vertex} /\ frontier' = <<start_vertex>>
  /\ pc' = "search"
  /\ UNCHANGED <<arguments, tree_edges>>

Searching(a) == pc = "search" /\ algorithm = a /\ frontier # <<>>

(* Variant of Found: a vertex may be found more than once.                 *)
FoundAgain(u) == Near(u) \ {u}

Found(u) == Near(u) \ visited

Attach(u, S) ==
  /\ visited' = visited \cup S
  /\ tree_edges' = tree_edges \cup ({u} \X S)

Pop ==
  /\ Searching("bfs")
  /\ LET u == Head(frontier)
     IN  /\ Attach(u, Found(u))
         /\ frontier' = Tail(frontier) \o Ascending(Found(u))
  /\ UNCHANGED <<arguments, pc>>

(* Variant of Top: the first call and not the last one goes on.            *)
TopFirst == frontier[1]

Top == frontier[Len(frontier)]

Down ==
  /\ Searching("dfs") /\ Found(Top) # {}
  /\ Attach(Top, {Least(Found(Top))})
  /\ frontier' = Append(frontier, Least(Found(Top)))
  /\ UNCHANGED <<arguments, pc>>

Up ==
  /\ Searching("dfs") /\ Found(Top) = {}
  /\ frontier' = SubSeq(frontier, 1, Len(frontier) - 1)
  /\ UNCHANGED <<arguments, pc, visited, tree_edges>>

(* The check of connectivity comes last. *)
Check ==
  /\ pc = "search" /\ frontier = <<>>
  /\ pc' = IF visited = V THEN "done" ELSE "error"
  /\ UNCHANGED <<arguments, visited, tree_edges, frontier>>

Next == Refuse \/ OutOfRange \/ Start \/ Pop \/ Down \/ Up \/ Check

Spec == Init /\ [][Next]_vars

-----------------------------------------------------------------------------

TypeOK ==
  /\ pc \in {"start", "search", "done", "error", "undefined"}
  /\ algorithm \in {"bfs", "dfs"} /\ start_vertex \in V \cup {1}
  /\ visited \subseteq V /\ tree_edges \subseteq visited \X visited
  /\ frontier \in Seq(visited)

(* The tree is the one its algorithm is known for.  Breadth first, every   *)
(* vertex is as near to the start in the tree as in the graph; depth       *)
(* first, every edge of the graph joins a vertex to one of its ancestors.  *)
SearchTree ==
  pc = "done" =>
    /\ Cardinality(tree_edges) = Cardinality(V) - 1
    /\ algorithm = "bfs" =>
         Within(tree_edges, start_vertex) = Within(Edges, start_vertex)
    /\ algorithm = "dfs" =>
         \A e \in Edges : \/ e[1] \in ReachableBy(tree_edges, e[2])
                          \/ e[2] \in ReachableBy(tree_edges, e[1])

=============================================================================
