---------------------------- MODULE GraphProgram ----------------------------
(***************************************************************************)
(* What the programs of graphs/ that search a graph have in common: main   *)
(* builds one Graph, of any size, and hands it to a class that reads it    *)
(* through the accessors and never assigns it.  pc is the point the        *)
(* program has reached; "error" is an exception that reaches main, and     *)
(* "undefined" an access outside a vector, after which nothing is modelled.*)
(***************************************************************************)
EXTENDS Graph, FiniteSets

CONSTANT Graphs

ASSUME GraphsAssumption ==
  \A g \in Graphs : Len(g) \in Nat /\ g \in GraphsOn(Len(g), Int)

VARIABLES graph, pc

Loaded == graph \in Graphs /\ pc = "start"

V == Vertices(graph)

Near(x) == adjacency_list(graph, x)

Least(S) == CHOOSE x \in S : \A y \in S : x <= y

(* The elements of a set of vertices in the order of adjacency_list.       *)
Ascending(S) ==
  [k \in 1..Cardinality(S) |->
     CHOOSE x \in S : Cardinality({ y \in S : y < x }) = k - 1]

-----------------------------------------------------------------------------
(* Reference definitions, for the properties only. *)

Edges == UNION { { <<x, y>> : y \in Near(x) } : x \in V }

Mirrored(E) == E \cup { <<e[2], e[1]>> : e \in E }

(* The vertices that can be reached from x along at most k pairs in E.     *)
Within(E, x) ==
  LET R[k \in 0..Len(graph)] ==
        IF k = 0 THEN {x}
        ELSE LET near == R[k - 1]
             IN  near \cup { y \in V : \E z \in near : <<z, y>> \in E }
  IN  R

ReachableBy(E, x) == Within(E, x)[Len(graph)]

=============================================================================
