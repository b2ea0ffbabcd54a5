--------------------------- MODULE GraphAnalyzer ---------------------------
(***************************************************************************)
(* Class GraphAnalyzer of graphs/fourth.cpp: the characteristics of an     *)
(* undirected graph that its constructor derives from the distances.  The  *)
(* functions after floyd_warshall are one step.                            *)
(***************************************************************************)
EXTENDS AllPairs

VARIABLES degrees, eccentricities, diameter, radius, peripheral, central

results == <<degrees, eccentricities, diameter, radius, peripheral, central>>
vars == <<graph, pc, dist, k, i, j,
          degrees, eccentricities, diameter, radius, peripheral, central>>

New ==
  /\ NewLoops
  /\ degrees = <<>> /\ eccentricities = <<>> /\ diameter = 0 /\ radius = 0
  /\ peripheral = {} /\ central = {}

Init == Loaded /\ New

Refuse ==
  /\ pc = "start" /\ CheckDirected(graph)
  /\ pc' = "error"
  /\ UNCHANGED <<graph, loops, results>>

Construct ==
  /\ pc = "start" /\ ~CheckDirected(graph)
  /\ Initialize
  /\ pc' = "relax"
  /\ UNCHANGED <<graph, results>>

RelaxCell == pc = "relax" /\ Relax /\ UNCHANGED <<graph, pc, results>>

OverflowCell ==
  /\ pc = "relax" /\ Overflow
  /\ pc' = "undefined"
  /\ UNCHANGED <<graph, results>>

(* Variant of Others: x is not left out.                                   *)
OthersToo(x) == V

Others(x) == V \ {x}

Greatest(S) == CHOOSE x \in S : \A y \in S : y <= x

(* INT_MAX is greater than every distance. *)
Eccentricity(x) == Greatest({ dist[x][y] : y \in Others(x) } \cup {0})

(* Without vertices, max_element has nothing to point to. *)
Analyze ==
  /\ pc = "relax" /\ k > n
  /\ LET ecc == [x \in V |-> Eccentricity(x)]
         all == { ecc[x] : x \in V }
     IN  /\ degrees' = [x \in V |-> Cardinality(Near(x))]
         /\ eccentricities' = ecc
         /\ IF V = {}
            THEN /\ pc' = "undefined"
                 /\ UNCHANGED <<diameter, radius, peripheral, central>>
            ELSE /\ pc' = "done"
                 /\ diameter' = Greatest(all) /\ radius' = Least(all)
                 /\ peripheral' = { x \in V : ecc[x] = Greatest(all) }
                 /\ central' = { x \in V : ecc[x] = Least(all) }
  /\ UNCHANGED <<graph, loops>>

Next == Refuse \/ Construct \/ RelaxCell \/ OverflowCell \/ Analyze

Spec == Init /\ [][Next]_vars

-----------------------------------------------------------------------------

TypeOK ==
  /\ LoopsTypeOK
  /\ pc \in {"start", "relax", "done", "error", "undefined"}
  /\ {diameter, radius} \subseteq Ints /\ peripheral \cup central \subseteq V

(* The eccentricities are those of the graph, whatever loops it has: the   *)
(* greatest of the shortest ways to others, infinite for every vertex if   *)
(* they are for one.  So diameter and radius are, too, and are at most a   *)
(* factor of two apart unless infinite.                                    *)
Characteristics ==
  pc = "done" /\ ~NegativeCycle =>
    LET Far(x) == { Shortest(V, x, y) : y \in V \ {x} }
    IN  /\ \A x \in V : /\ eccentricities[x] \in Far(x) \cup {0}
                        /\ \A d \in Far(x) : d <= eccentricities[x]
        /\ \A x \in central : eccentricities[x] = radius
        /\ \A x \in peripheral : eccentricities[x] = diameter
        /\ central # {} /\ peripheral # {}
        /\ IF diameter = INT_MAX THEN central = V ELSE diameter <= 2 * radius

=============================================================================
