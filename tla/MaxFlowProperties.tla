------------------------- MODULE MaxFlowProperties -------------------------
(***************************************************************************)
(* What the maximum flow program promises about sums, paths and distances, *)
(* and that it implements the Ford-Fulkerson method.                       *)
(***************************************************************************)
EXTENDS MaxFlow, FiniteSetsExt

(* The net flow out of x: what the residual arcs of x have lost.           *)
NetOut(x) == SumFunction([y \in V |-> NetFlow(x, y)])

(* What the arcs that lead out of S can carry.                             *)
Capacity(S) ==
  SumFunction([x \in S |-> SumFunction([y \in V \ S |-> weight(graph, x, y)])])

(* Between augmentations the residual network describes a flow: nothing is *)
(* lost or created except at the source and the sink, and the sum booked   *)
(* in max_flow is what leaves the source.  It is booked before the walk,   *)
(* but at no time exceeds the capacity of the arcs that leave the source:  *)
(* max_flow overflows only if that sum does not fit an int.                *)
FlowConserved ==
  /\ pc \in {"bfs", "pop", "scan", "collect", "done"} =>
       /\ \A x \in V \ {source, sink} : NetOut(x) = 0
       /\ source # sink => NetOut(source) = max_flow
  /\ max_flow <= Capacity({source})

Shipped(a, b) ==
  SumFunction([e \in { e \in flow_edges : e[1] = a /\ e[2] = b } |-> e[3]])

(* What the printed lines take away from x, less what they bring.          *)
ShippedOut(x) == SumFunction([y \in V |-> Shipped(x, y) - Shipped(y, x)])

(* The printed result is itself a legal flow of the printed value: every   *)
(* line is an arc of the network within its capacity, what enters a vertex *)
(* leaves it, and the lines of the source add up to the value.  This does  *)
(* not follow: the residual network also holds the flow of reverse arcs,   *)
(* which are not arcs of the network and are left out.                     *)
ReportedFlowIsLegal ==
  pc = "done" =>
    /\ ReportedArcs
    /\ \A x \in V \ {source, sink} : ShippedOut(x) = 0
    /\ source # sink => ShippedOut(source) = max_flow

(* No addition of the walk leaves the range of an int, however often flow   *)
(* is sent one way and the other over an arc and its reverse: every push    *)
(* leaves residual capacities between 0 and INT_MAX.                        *)
ResidualsFit ==
  Initialised => \A a, b \in V : residual_graph[a][b] \in 0..IntMax

(* At every stage the network holds a flow that an int can hold, and in the *)
(* end so do the lines that are printed.                                    *)
FlowIsLegal == FlowConserved /\ ResidualsFit /\ ReportedFlowIsLegal

Cuts == { S \in SUBSET V : source \in S /\ sink \notin S }

(* The value is the maximum: when the result is collected, the vertices    *)
(* labelled by the failed search are one side of a cut that can carry      *)
(* max_flow and no more, and every other cut can carry as much.            *)
MinimumCut ==
  (pc \in {"collect", "done"} /\ source # sink) =>
    /\ \E S \in Cuts : /\ S = { x \in V : parent[x] # Unvisited }
                       /\ Capacity(S) = max_flow
    /\ \A S \in Cuts : max_flow <= Capacity(S)

(* The vertices at most k arcs away from the source in the residual        *)
(* network.                                                                *)
Ball ==
  LET B[k \in 0..size] ==
        IF k = 0 THEN {source}
        ELSE LET near == B[k - 1]
             IN  near \cup { y \in V : \E x \in near : residual_graph[x][y] > 0 }
  IN  B

(* size when the sink is out of reach. *)
Distance == Min({ k \in 0..size : k = size \/ sink \in Ball[k] })

(* The vertices from x back to the source along parent: those of every set  *)
(* that holds x and, with each vertex but the source, its parent.          *)
Ancestors(x) ==
  { y \in V : \A S \in SUBSET V :
                 (x \in S /\ \A z \in S \ {source} : parent[z] \in S) => y \in S }

PathLength == Cardinality(Ancestors(sink)) - 1

(* The path bfs returns is a shortest path of the residual network it was  *)
(* given, which is what bounds the number of augmentations.                *)
ShortestAugmentingPath ==
  (pc = "augment" /\ v = sink) => PathLength = Distance

(* The pushes of the current walk that are still to be done. *)
PendingArcs ==
  IF pc = "augment"
  THEN { <<parent[x], x>> : x \in Ancestors(v) \ {source} }
  ELSE {}

(* The residual network after those pushes, which use no arc twice.        *)
SettledResidual ==
  [a \in V |-> [b \in V |->
     IF Initialised
     THEN residual_graph[a][b] - (IF <<a, b>> \in PendingArcs THEN new_flow ELSE 0)
                               + (IF <<b, a>> \in PendingArcs THEN new_flow ELSE 0)
     ELSE graph[a][b]]]

Method ==
  INSTANCE FordFulkerson WITH
    residual <- SettledResidual,
    value    <- max_flow,
    status   <- CASE pc = "error" -> "refused"
                  [] pc \in {"collect", "done"} -> "finished"
                  [] OTHER -> "running"

(* The loops of ford_fulkerson and bfs implement the Ford-Fulkerson method: *)
(* meeting the sink is the augmentation, everything else a stutter.         *)
ImplementsMethod == Method!FFSpec

(* The nested loops come to an end, with a result or with the exception    *)
(* that main reports.                                                      *)
Terminates == <>(pc \in {"done", "error"})

=============================================================================
