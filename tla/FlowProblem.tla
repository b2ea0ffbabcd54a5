---- MODULE FlowProblem ----
(***************************************************************************)
(* The arguments of ford_fulkerson(graph, s, t) in graphs/thirteents.cpp.  *)
(* Two specifications are about them: FordFulkerson, the method by itself, *)
(* and MaxFlow, the program.                                               *)
(***************************************************************************)
EXTENDS Graph

CONSTANT source      \* s
CONSTANT sink        \* t
CONSTANT size        \* graph.size()

(* The vertices of a graph of that size, numbered from 1.                   *)
V == 1..size

CONSTANT Networks    \* the graphs a run may be given

(* The vertices named in main are never compared with size by the code, and *)
(* a capacity may be any int: that they denote a flow network is the        *)
(* caller's duty.                                                           *)
ASSUME NetworkAssumption ==
  /\ size \in Nat
  /\ source \in 1..size
  /\ sink \in 1..size
  /\ Networks \subseteq GraphsOn(size, Nat)

VARIABLE graph       \* what is passed for graph; never assigned

====
