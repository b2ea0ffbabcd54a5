----------------------------- MODULE MCSearches -----------------------------
(***************************************************************************)
(* Graphs for the programs of module Searches, of sizes from 0: those that *)
(* matter to each.                                                         *)
(***************************************************************************)
EXTENDS Searches, FiniteSetsExt

Pairs(n) == { <<x, y>> : x, y \in 1..n }
Weighted(n, w) == [x \in 1..n |-> [y \in 1..n |-> w[<<x, y>>]]]
ByPairs(n, E) == Weighted(n, [e \in Pairs(n) |-> IF e \in E THEN 1 ELSE 0])

Digraphs(n) == { ByPairs(n, E) : E \in SUBSET Pairs(n) }
Undirected(n) == { ByPairs(n, Mirrored(E)) : E \in SUBSET { e \in Pairs(n) : e[1] < e[2] } }
WithLoops(n) == { ByPairs(n, Mirrored(E)) : E \in SUBSET { e \in Pairs(n) : e[1] <= e[2] } }

(* Digraphs of five vertices with cycles that share vertices and arcs that *)
(* lead from one cycle to the next, with and against the numbering.        *)
Cyclic ==
  { ByPairs(5, E) : E \in SUBSET { <<1, 3>>, <<3, 1>>, <<3, 2>>, <<2, 4>>, <<4, 2>>,
                                   <<4, 5>>, <<5, 4>>, <<5, 1>>, <<2, 5>> } }

(* Three weights and none on five edges of four vertices; with INT_MAX 5,  *)
(* the greatest is the one that is not seen, and totals overflow.          *)
WeightedFour ==
  LET E == kSubset(2, 1..4) \ {{1, 4}}
  IN  { Weighted(4, [e \in Pairs(4) |-> IF {e[1], e[2]} \in E THEN w[{e[1], e[2]}] ELSE 0]) :
          w \in [E -> {0, -1, 2, 5}] }

Small == Digraphs(0) \cup Digraphs(1) \cup Digraphs(2)

MCInputs ==
  [first |-> Small \cup Digraphs(3) \cup Undirected(4),
   second |-> Small \cup Undirected(5),
   third |-> Small \cup WithLoops(3) \cup Undirected(4),
   fifth |-> Small \cup WithLoops(3) \cup Undirected(5),
   seventh |-> Small \cup Digraphs(3) \cup Cyclic,
   nineth |-> Small \cup WeightedFour]

MCGraphs == UNION { MCInputs[p] : p \in DOMAIN MCInputs }

=============================================================================
