----------------------------- MODULE MCMatching -----------------------------
(***************************************************************************)
(* Six vertices: all bipartite graphs between {1, 4, 5} and {2, 3, 6}, in  *)
(* which components begin on either side, and all graphs, with loops, on   *)
(* {1, 2, 3}, undirected or not, of which many are refused.                *)
(***************************************************************************)
EXTENDS Matching

MCGraphOn(E) == [x \in 1..6 |-> [y \in 1..6 |-> IF <<x, y>> \in E THEN 1 ELSE 0]]

MCBothWays(E) == E \cup { <<e[2], e[1]>> : e \in E }

MCGraphs ==
  { MCGraphOn(MCBothWays(E)) : E \in SUBSET ({1, 4, 5} \X {2, 3, 6}) }
    \cup { MCGraphOn(E) : E \in SUBSET ((1..3) \X (1..3)) }

=============================================================================
