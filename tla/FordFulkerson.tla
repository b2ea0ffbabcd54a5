--------------------------- MODULE FordFulkerson ---------------------------
(***************************************************************************)
(* What ford_fulkerson of graphs/thirteents.cpp promises, without its      *)
(* breadth-first search: as long as some path of the residual network      *)
(* leads from the source to the sink, the bottleneck of one of them is     *)
(* pushed along it, in one step; which path is left open.  Module MaxFlow  *)
(* implements this specification.                                          *)
(***************************************************************************)
EXTENDS FlowProblem, Sequences, FiniteSetsExt

VARIABLES residual,   \* the residual capacities
          value,      \* the flow pushed so far
          status      \* "running", "finished", or "refused" by the check

FFVars == <<graph, residual, value, status>>

Arcs(m) == { a \in Vertices(m) \X Vertices(m) : weight(m, a[1], a[2]) > 0 }

PathArcs(p) == { <<p[i], p[i + 1]>> : i \in 1..(Len(p) - 1) }

(* The simple paths from the source with k arcs, all of positive capacity. *)
PathsFrom(m) ==
  LET arcs == Arcs(m)
      P[k \in 0..size] ==
        IF k = 0 THEN {<<source>>}
        ELSE { Append(px[1], px[2]) : px \in
                 { px \in P[k - 1] \X Vertices(m) :
                     /\ <<px[1][k], px[2]>> \in arcs
                     /\ \A i \in 1..k : px[1][i] # px[2] } }
  IN  P

AugmentingPaths(m) ==
  LET P == PathsFrom(m)
  IN  { p \in UNION { P[k] : k \in 1..(size - 1) } : p[Len(p)] = sink }

Bottleneck(m, p) == Min({ weight(m, a[1], a[2]) : a \in PathArcs(p) })

(* Variant of Pushed: no capacity for undoing the flow.                    *)
PushedForwardOnly(m, A, f) ==
  [a \in Vertices(m) |-> [b \in Vertices(m) |->
     weight(m, a, b) - (IF <<a, b>> \in A THEN f ELSE 0)]]

(* Flow f on the arcs of A: what they lose, their reverse arcs gain.       *)
Pushed(m, A, f) ==
  [a \in Vertices(m) |-> [b \in Vertices(m) |->
     weight(m, a, b) - (IF <<a, b>> \in A THEN f ELSE 0)
                     + (IF <<b, a>> \in A THEN f ELSE 0)]]

FFInit ==
  /\ graph \in Networks
  /\ residual = graph
  /\ value = 0
  /\ status = "running"

Refuse ==
  /\ status = "running" /\ ~CheckDirected(graph)
  /\ status' = "refused"
  /\ UNCHANGED <<graph, residual, value>>

Augment ==
  /\ status = "running" /\ CheckDirected(graph)
  /\ \E p \in AugmentingPaths(residual) :
       /\ value' = value + Bottleneck(residual, p)
       /\ residual' = Pushed(residual, PathArcs(p), Bottleneck(residual, p))
  /\ UNCHANGED <<graph, status>>

Finish ==
  /\ status = "running" /\ CheckDirected(graph)
  /\ status' = "finished"
  /\ AugmentingPaths(residual) = {}
  /\ UNCHANGED <<graph, residual, value>>

FFNext == Refuse \/ Augment \/ Finish

FFSpec == FFInit /\ [][FFNext]_FFVars

-----------------------------------------------------------------------------

CutCapacity(S) ==
  MapThenSumSet(LAMBDA a : weight(graph, a[1], a[2]),
                { a \in Arcs(graph) : a[1] \in S /\ a[2] \notin S })

LeastCut ==
  Min({ CutCapacity(S) : S \in { S \in SUBSET Vertices(graph) :
                                source \in S /\ sink \notin S } })

(* Whichever augmenting paths are taken and in whichever order, the loop   *)
(* of ford_fulkerson ends with the value of a minimum cut of the network   *)
(* (0 when the source is the sink).                                        *)
MaxFlowMinCut ==
  status = "finished" => value = IF source = sink THEN 0 ELSE LeastCut

=============================================================================
