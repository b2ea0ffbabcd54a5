------------------------- MODULE MCBellmanFordMoore -------------------------
(***************************************************************************)
(* Graphs of four vertices whose shortest paths need all n - 1 phases:     *)
(* edges among a path 1, 3, 2, 4, back edges that may close a negative     *)
(* cycle, a self-loop; 4 may be out of reach.  In one more graph a         *)
(* negative cycle leads through 2, which is INT_MAX away.  Vertices 0 and  *)
(* 5 are refused.  The potentials are small integers.                      *)
(***************************************************************************)
EXTENDS BellmanFordMoore

Arcs(a, b, c, d, e, f, l) ==
  [x \in 1..4 |-> [y \in 1..4 |->
     CASE x = 1 /\ y = 3 -> a
       [] x = 3 /\ y = 2 -> b
       [] x = 2 /\ y = 4 -> c
       [] x = 1 /\ y = 4 -> d
       [] x = 2 /\ y = 1 -> e
       [] x = 4 /\ y = 3 -> f
       [] x = 4 /\ y = 4 -> l
       [] OTHER -> 0]]

MCGraphs ==
  { Arcs(a, b, c, d, e, f, l) :
      a \in {1, -1}, b \in {1, -1}, c \in {0, -2, 2}, d \in {0, 1, 6}, e \in {0, -1, 1},
      f \in {0, -1, 2}, l \in {0, -1} }
  \cup { [x \in 1..4 |-> [y \in 1..4 |->
            IF x = 1 /\ y = 2 THEN INT_MAX ELSE IF x = 2 /\ y = 1 THEN -INT_MAX - 1 ELSE 0]] }

MCPotentials == [1..4 -> -2..1]

=============================================================================
