------------------------- MODULE ConnectivityFinder -------------------------
(***************************************************************************)
(* Class ConnectivityFinder of graphs/first.cpp: one object whose methods  *)
(* may be called again and again, each search leaving its visited_ and     *)
(* components_ behind.  A step of the breadth-first searches is a whole    *)
(* iteration of their while loop; a step of dfs goes down to the next      *)
(* neighbour not visited, or returns when there is none (the frames need   *)
(* no cursor, as visited_ only grows).  A component is a set: main sorts   *)
(* it.                                                                     *)
(***************************************************************************)
EXTENDS GraphProgram

VARIABLES
  method,        \* the method that runs or has returned: "bfs", "dfs" or "weak"
  visited,
  components,    \* the last one is being filled while pc = "search"
  frontier       \* the queue, or the vertices of the pending calls of dfs

vars == <<graph, pc, method, visited, components, frontier>>

New ==
  /\ method = "bfs"
  /\ visited = {} /\ components = <<>> /\ frontier = <<>>

Init == Loaded /\ New

(* Variant of Call: visited_ is left as the constructor or the last call   *)
(* has left it.                                                            *)
CallUnreset(m) ==
  /\ pc \in {"start", "idle"}
  /\ method' = IF m = "weak" /\ ~CheckDirected(graph) THEN "bfs" ELSE m
  /\ components' = <<>>
  /\ pc' = "roots"
  /\ UNCHANGED <<graph, visited, frontier>>

(* find_weak_components looks for a digraph itself only. *)
Call(m) ==
  /\ pc \in {"start", "idle"}
  /\ method' = IF m = "weak" /\ ~CheckDirected(graph) THEN "bfs" ELSE m
  /\ visited' = {} /\ components' = <<>>
  /\ pc' = "roots"
  /\ UNCHANGED <<graph, frontier>>

-----------------------------------------------------------------------------

Back(x) == { y \in V : is_edge(graph, y, x) }

(* What a search adds on taking x, in its order: undir_adj[x] holds the    *)
(* rows before that of x, the row itself, and the rows after it.           *)
Unvisited(x) ==
  IF method = "weak"
  THEN LET before == { y \in Back(x) : y < x }
           after == { y \in Back(x) : y > x }
       IN  Ascending(before \ visited) \o Ascending(Near(x) \ (before \cup visited))
             \o Ascending(after \ (Near(x) \cup visited))
  ELSE Ascending(Near(x) \ visited)

Visit(S) ==
  /\ visited' = visited \cup S
  /\ components' = [components EXCEPT ![Len(components)] = @ \cup S]

Root ==
  /\ pc = "roots" /\ visited # V
  /\ LET u == Least(V \ visited)
     IN  /\ visited' = visited \cup {u}
         /\ components' = Append(components, {u})
         /\ frontier' = <<u>>
  /\ pc' = "search"
  /\ UNCHANGED <<graph, method>>

Pop ==
  /\ pc = "search" /\ method # "dfs" /\ frontier # <<>>
  /\ LET new == Unvisited(Head(frontier))
     IN  /\ Visit({ new[k] : k \in DOMAIN new })
         /\ frontier' = Tail(frontier) \o new
  /\ UNCHANGED <<graph, pc, method>>

Down ==
  /\ pc = "search" /\ method = "dfs" /\ frontier # <<>>
  /\ LET new == Unvisited(frontier[Len(frontier)])
     IN  /\ new # <<>>
         /\ Visit({Head(new)})
         /\ frontier' = Append(frontier, Head(new))
  /\ UNCHANGED <<graph, pc, method>>

Up ==
  /\ pc = "search" /\ method = "dfs" /\ frontier # <<>>
  /\ Unvisited(frontier[Len(frontier)]) = <<>>
  /\ frontier' = SubSeq(frontier, 1, Len(frontier) - 1)
  /\ UNCHANGED <<graph, pc, method, visited, components>>

Searched ==
  /\ pc = "search" /\ frontier = <<>>
  /\ pc' = "roots"
  /\ UNCHANGED <<graph, method, visited, components, frontier>>

Return ==
  /\ pc = "roots" /\ visited = V
  /\ pc' = "idle"
  /\ UNCHANGED <<graph, method, visited, components, frontier>>

Next ==
  \/ \E m \in {"bfs", "dfs", "weak"} : Call(m)
  \/ Root \/ Pop \/ Down \/ Up \/ Searched \/ Return

Spec == Init /\ [][Next]_vars

-----------------------------------------------------------------------------

(* A vertex waits in frontier only once it is visited, and once only; the  *)
(* components hold what is visited.                                        *)
TypeOK ==
  /\ pc \in {"start", "idle", "roots", "search"} /\ method \in {"bfs", "dfs", "weak"}
  /\ visited \subseteq V
  /\ components \in Seq(SUBSET V)
  /\ UNION { components[i] : i \in DOMAIN components } = visited
  /\ frontier \in Seq(visited)
  /\ \A j, k \in DOMAIN frontier : frontier[j] = frontier[k] => j = k

(* A method returns, whatever was called before it, every vertex once, the *)
(* components in the order of their least vertices that main sorts them    *)
(* into.  Each is what its least vertex reaches apart from the components  *)
(* before it: on a digraph searched by bfs or dfs no more than that, but   *)
(* otherwise (an undirected graph, or the weak components) the whole class *)
(* of the vertex.                                                          *)
ComponentsAreClasses ==
  pc = "idle" =>
    LET Before(i) == UNION { components[j] : j \in 1..(i - 1) }
        E == IF method = "weak" THEN Mirrored(Edges) ELSE Edges
    IN  /\ Before(Len(components) + 1) = V
        /\ \A i \in DOMAIN components :
             LET reached == ReachableBy(E, Least(components[i]))
             IN  /\ components[i] = reached \ Before(i)
                 /\ i > 1 => Least(components[i - 1]) < Least(components[i])
                 /\ E = Mirrored(E) => components[i] = reached

=============================================================================
