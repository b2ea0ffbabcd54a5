-------------------- MODULE StronglyConnectedComponents --------------------
(***************************************************************************)
(* Class StronglyConnectedComponents of graphs/seventh.cpp: a depth-first  *)
(* search notes the vertices in the order in which their calls end, and a  *)
(* second one, on the transposed graph, takes them in the reverse order.   *)
(* A step of dfs_pass1 and dfs_pass2 goes down to the next neighbour not   *)
(* visited, or returns; calls holds the vertices of the pending calls.     *)
(***************************************************************************)
EXTENDS GraphProgram

VARIABLES
  visited, order, calls,
  components     \* sets; the last one is being filled while calls remain

vars == <<graph, pc, visited, order, calls, components>>

New ==
  /\ visited = {} /\ order = <<>> /\ calls = <<>> /\ components = <<>>

Init == Loaded /\ New

Start ==
  /\ pc = "start"
  /\ pc' = IF CheckDirected(graph) THEN "pass1" ELSE "error"
  /\ UNCHANGED <<graph, visited, order, calls, components>>

Pop(s) == SubSeq(s, 1, Len(s) - 1)

(* Variant of Following: the second pass is not on the transposed graph.   *)
FollowingForward(u) == Near(u) \ visited

(* transpose[u] has its vertices in increasing order, too. *)
Following(u) ==
  (IF pc = "pass1" THEN Near(u) ELSE { v \in V : is_edge(graph, v, u) }) \ visited

Top == calls[Len(calls)]

Root1 ==
  /\ pc = "pass1" /\ calls = <<>> /\ visited # V
  /\ visited' = visited \cup {Least(V \ visited)}
  /\ calls' = <<Least(V \ visited)>>
  /\ UNCHANGED <<graph, pc, order, components>>

Down ==
  /\ calls # <<>> /\ Following(Top) # {}
  /\ LET v == Least(Following(Top))
     IN  /\ visited' = visited \cup {v}
         /\ calls' = Append(calls, v)
         /\ components' = IF pc = "pass1" THEN components
                          ELSE [components EXCEPT ![Len(components)] = @ \cup {v}]
  /\ UNCHANGED <<graph, pc, order>>

Up1 ==
  /\ pc = "pass1" /\ calls # <<>> /\ Following(Top) = {}
  /\ order' = Append(order, Top)
  /\ calls' = Pop(calls)
  /\ UNCHANGED <<graph, pc, visited, components>>

Transpose ==
  /\ pc = "pass1" /\ calls = <<>> /\ visited = V
  /\ visited' = {}
  /\ pc' = "pass2"
  /\ UNCHANGED <<graph, order, calls, components>>

(* The loop over order_, from its top; u has a component already, or       *)
(* starts one.                                                             *)
Root2 ==
  /\ pc = "pass2" /\ calls = <<>> /\ order # <<>>
  /\ order' = Pop(order)
  /\ LET u == order[Len(order)]
     IN  IF u \in visited
         THEN UNCHANGED <<visited, calls, components>>
         ELSE /\ visited' = visited \cup {u}
              /\ calls' = <<u>>
              /\ components' = Append(components, {u})
  /\ UNCHANGED <<graph, pc>>

Up2 ==
  /\ pc = "pass2" /\ calls # <<>> /\ Following(Top) = {}
  /\ calls' = Pop(calls)
  /\ UNCHANGED <<graph, pc, visited, order, components>>

Finish ==
  /\ pc = "pass2" /\ calls = <<>> /\ order = <<>>
  /\ pc' = "done"
  /\ UNCHANGED <<graph, visited, order, calls, components>>

Next == Start \/ Root1 \/ Down \/ Up1 \/ Transpose \/ Root2 \/ Up2 \/ Finish

Spec == Init /\ [][Next]_vars

-----------------------------------------------------------------------------

(* At the end of the first pass every vertex is in order_ exactly once.    *)
TypeOK ==
  /\ pc \in {"start", "pass1", "pass2", "done", "error"}
  /\ visited \subseteq V
  /\ calls \in Seq(visited) /\ order \in Seq(V)
  /\ components \in Seq(SUBSET V)
  /\ pc = "pass1" => Cardinality(visited) = Len(order) + Len(calls)

(* Whenever the second pass is between two trees, what it has collected    *)
(* are whole classes of mutually reachable vertices, each once; and they   *)
(* come in the order of the arcs, every arc between two of them leading    *)
(* from an earlier to a later one.  At the end they are all.               *)
StrongComponents ==
  /\ pc = "pass2" /\ calls = <<>> =>
       \A i \in DOMAIN components : \A x \in components[i] :
         /\ components[i] =
              { y \in ReachableBy(Edges, x) : x \in ReachableBy(Edges, y) }
         /\ \A j \in 1..(i - 1) : ({x} \cup Near(x)) \cap components[j] = {}
  /\ pc = "done" => \A x \in V : \E i \in DOMAIN components : x \in components[i]

=============================================================================
