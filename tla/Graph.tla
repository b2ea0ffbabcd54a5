------------------------------- MODULE Graph -------------------------------
(***************************************************************************)
(* The read interface of class Graph (graphs/Graph.h), which every         *)
(* algorithm of the library consults.  A graph is its adjacency matrix, a  *)
(* function from 1..size to rows; the padding row and column 0 of the C++  *)
(* vector, which no accessor returns, exist only while a file is loaded    *)
(* (module GraphLoader).  A weight 0 means "no edge".  The C++ accessors   *)
(* throw std::out_of_range outside 1..size; here they are applied inside   *)
(* it only, and a caller that may leave it says so.                        *)
(***************************************************************************)
EXTENDS Integers, Sequences

(* All graphs on vertices 1..n with weights from W. *)
GraphsOn(n, W) == [1..n -> [1..n -> W]]

Vertices(m) == DOMAIN m

weight(m, u, v) == m[u][v]

is_edge(m, u, v) == weight(m, u, v) # 0

(* The list is in ascending order; callers go through it with a cursor.    *)
adjacency_list(m, v) == { u \in Vertices(m) : is_edge(m, v, u) }

(* The matrix is scanned for an entry that differs from its mirror image:  *)
(* a digraph whose matrix happens to be symmetric counts as undirected.    *)
CheckDirected(m) == \E u, v \in Vertices(m) : weight(m, u, v) # weight(m, v, u)

=============================================================================
