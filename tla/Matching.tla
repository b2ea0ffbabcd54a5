------------------------------ MODULE Matching ------------------------------
(***************************************************************************)
(* findMaxMatching of graphs/twelvth.cpp: the vertices of an undirected    *)
(* graph are coloured with two colours, breadth first; then Kuhn's search  *)
(* tries to match every vertex of the first colour, moving vertices that   *)
(* are matched already out of its way.                                     *)
(*                                                                         *)
(* The recursion of dfsKuhn is a stack of frames <<u, v>>: the argument u  *)
(* and the neighbour v its loop has reached.  A frame that has made a call *)
(* stays at its v.  pc names what runs next: "color" and "neighbors" the   *)
(* loops of checkBipartition, "sources" the loop over U, "call" the entry  *)
(* of dfsKuhn for callee, "scan" its loop, "return" what follows the       *)
(* return of result.  "error" is an exception.                             *)
(***************************************************************************)
EXTENDS Graph, FiniteSets

CONSTANTS size, Graphs

ASSUME GraphAssumption == size \in Nat /\ Graphs \subseteq GraphsOn(size, Int)

V == 1..size

Free == -1

VARIABLES
  graph,         \* never assigned
  color,         \* 0 while uncoloured
  q,             \* checkBipartition's queue
  current, neighbor,
  u,             \* the vertex the outer loop has reached
  match,         \* per vertex of the second colour
  visited,       \* of the search at work
  stack, callee, result,
  maxMatching,
  matchingPairs,
  pc

coloring == <<color, q, current, neighbor>>
search == <<visited, stack, callee, result>>
vars == <<graph, color, q, current, neighbor, u, match, visited, stack, callee, result,
          maxMatching, matchingPairs, pc>>

Init ==
  /\ graph \in Graphs
  /\ color = [x \in V |-> 0] /\ q = <<>> /\ u = 1
  /\ current = 0 /\ neighbor = 1
  /\ match = [x \in V |-> Free]
  /\ visited = [x \in V |-> FALSE]
  /\ stack = <<>> /\ callee = 0 /\ result = FALSE
  /\ maxMatching = 0 /\ matchingPairs = {}
  /\ pc = "start"

Start ==
  /\ pc = "start"
  /\ pc' = IF CheckDirected(graph) THEN "error" ELSE "color"
  /\ UNCHANGED <<graph, coloring, u, match, search, maxMatching, matchingPairs>>

-----------------------------------------------------------------------------
(* checkBipartition *)

(* Variant of ColorRoot: only the first component is coloured.             *)
ColorRootOnce ==
  /\ pc = "color" /\ q = <<>> /\ u <= size
  /\ IF u = 1
     THEN color' = [color EXCEPT ![u] = 1] /\ q' = <<u>>
     ELSE UNCHANGED <<color, q>>
  /\ u' = u + 1
  /\ UNCHANGED <<graph, current, neighbor, match, search, maxMatching, matchingPairs, pc>>

ColorRoot ==
  /\ pc = "color" /\ q = <<>> /\ u <= size
  /\ IF color[u] = 0
     THEN color' = [color EXCEPT ![u] = 1] /\ q' = <<u>>
     ELSE UNCHANGED <<color, q>>
  /\ u' = u + 1
  /\ UNCHANGED <<graph, current, neighbor, match, search, maxMatching, matchingPairs, pc>>

ColorNext ==
  /\ pc = "color" /\ q # <<>>
  /\ current' = Head(q) /\ q' = Tail(q)
  /\ neighbor' = 1
  /\ pc' = "neighbors"
  /\ UNCHANGED <<graph, color, u, match, search, maxMatching, matchingPairs>>

NeighborSkip ==
  /\ pc = "neighbors" /\ neighbor <= size
  /\ is_edge(graph, current, neighbor) => color[neighbor] \notin {0, color[current]}
  /\ neighbor' = neighbor + 1
  /\ UNCHANGED <<graph, color, q, current, u, match, search, maxMatching, matchingPairs,
                 pc>>

NeighborColor ==
  /\ pc = "neighbors" /\ neighbor <= size
  /\ is_edge(graph, current, neighbor) /\ color[neighbor] = 0
  /\ color' = [color EXCEPT ![neighbor] = IF color[current] = 1 THEN 2 ELSE 1]
  /\ q' = Append(q, neighbor)
  /\ neighbor' = neighbor + 1
  /\ UNCHANGED <<graph, current, u, match, search, maxMatching, matchingPairs, pc>>

NeighborClash ==
  /\ pc = "neighbors" /\ neighbor <= size
  /\ is_edge(graph, current, neighbor)
  /\ color[neighbor] = color[current] /\ color[neighbor] # 0
  /\ pc' = "error"
  /\ UNCHANGED <<graph, coloring, u, match, search, maxMatching, matchingPairs>>

NeighborsDone ==
  /\ pc = "neighbors" /\ neighbor > size
  /\ pc' = "color"
  /\ UNCHANGED <<graph, coloring, u, match, search, maxMatching, matchingPairs>>

Colored ==
  /\ pc = "color" /\ q = <<>> /\ u > size
  /\ u' = 1
  /\ pc' = "sources"
  /\ UNCHANGED <<graph, coloring, match, search, maxMatching, matchingPairs>>

-----------------------------------------------------------------------------
(* findMaxMatching, dfsKuhn *)

PassOver ==
  /\ pc = "sources" /\ u <= size /\ color[u] # 1
  /\ u' = u + 1
  /\ UNCHANGED <<graph, coloring, match, search, maxMatching, matchingPairs, pc>>

(* Variant of Search: one visited serves all searches.                     *)
SearchStale ==
  /\ pc = "sources" /\ u <= size /\ color[u] = 1
  /\ callee' = u
  /\ pc' = "call"
  /\ UNCHANGED <<graph, coloring, u, match, visited, stack, result, maxMatching,
                 matchingPairs>>

Search ==
  /\ pc = "sources" /\ u <= size /\ color[u] = 1
  /\ visited' = [x \in V |-> FALSE]
  /\ callee' = u
  /\ pc' = "call"
  /\ UNCHANGED <<graph, coloring, u, match, stack, result, maxMatching, matchingPairs>>

Enter ==
  /\ pc = "call"
  /\ IF visited[callee]
     THEN result' = FALSE /\ pc' = "return" /\ UNCHANGED <<visited, stack>>
     ELSE /\ visited' = [visited EXCEPT ![callee] = TRUE]
          /\ stack' = Append(stack, <<callee, 1>>)
          /\ pc' = "scan"
          /\ UNCHANGED result
  /\ UNCHANGED <<graph, coloring, u, match, callee, maxMatching, matchingPairs>>

Frame == stack[Len(stack)]
Caller == SubSeq(stack, 1, Len(stack) - 1)
Advanced == [stack EXCEPT ![Len(stack)] = <<Frame[1], Frame[2] + 1>>]

ScanSkip ==
  /\ pc = "scan" /\ Frame[2] <= size
  /\ ~is_edge(graph, Frame[1], Frame[2])
  /\ stack' = Advanced
  /\ UNCHANGED <<graph, coloring, u, match, visited, callee, result, maxMatching,
                 matchingPairs, pc>>

ScanFree ==
  /\ pc = "scan" /\ Frame[2] <= size
  /\ is_edge(graph, Frame[1], Frame[2]) /\ match[Frame[2]] = Free
  /\ match' = [match EXCEPT ![Frame[2]] = Frame[1]]
  /\ stack' = Caller
  /\ result' = TRUE
  /\ pc' = "return"
  /\ UNCHANGED <<graph, coloring, u, visited, callee, maxMatching, matchingPairs>>

ScanMatched ==
  /\ pc = "scan" /\ Frame[2] <= size
  /\ is_edge(graph, Frame[1], Frame[2]) /\ match[Frame[2]] # Free
  /\ callee' = match[Frame[2]]
  /\ pc' = "call"
  /\ UNCHANGED <<graph, coloring, u, match, visited, stack, result, maxMatching,
                 matchingPairs>>

ScanEnd ==
  /\ pc = "scan" /\ Frame[2] > size
  /\ stack' = Caller
  /\ result' = FALSE
  /\ pc' = "return"
  /\ UNCHANGED <<graph, coloring, u, match, visited, callee, maxMatching, matchingPairs>>

(* Variant of Moved: the caller does not take over the neighbour.          *)
MovedNotTaken ==
  /\ pc = "return" /\ stack # <<>> /\ result
  /\ stack' = Caller
  /\ UNCHANGED <<graph, coloring, u, match, visited, callee, result, maxMatching,
                 matchingPairs, pc>>

(* The neighbour's mate has found another: the neighbour changes hands.    *)
Moved ==
  /\ pc = "return" /\ stack # <<>> /\ result
  /\ match' = [match EXCEPT ![Frame[2]] = Frame[1]]
  /\ stack' = Caller
  /\ UNCHANGED <<graph, coloring, u, visited, callee, result, maxMatching,
                 matchingPairs, pc>>

(* Variant of NotMoved: the loop does not go on.                           *)
NotMovedAgain ==
  /\ pc = "return" /\ stack # <<>> /\ ~result
  /\ pc' = "scan"
  /\ UNCHANGED <<graph, coloring, u, match, search, maxMatching, matchingPairs>>

NotMoved ==
  /\ pc = "return" /\ stack # <<>> /\ ~result
  /\ stack' = Advanced
  /\ pc' = "scan"
  /\ UNCHANGED <<graph, coloring, u, match, visited, callee, result, maxMatching,
                 matchingPairs>>

Searched ==
  /\ pc = "return" /\ stack = <<>>
  /\ maxMatching' = IF result THEN maxMatching + 1 ELSE maxMatching
  /\ u' = u + 1
  /\ pc' = "sources"
  /\ UNCHANGED <<graph, coloring, match, search, matchingPairs>>

(* The matched neighbour of x that comes last, or Free.                    *)
mateU(x) ==
  LET Mates == { y \in V : match[y] = x }
  IN  IF Mates = {} THEN Free ELSE CHOOSE y \in Mates : \A z \in Mates : z <= y

Collect ==
  /\ pc = "sources" /\ u > size
  /\ matchingPairs' = { <<x, mateU(x)>> : x \in { x \in V : color[x] = 1 /\ mateU(x) # Free } }
  /\ pc' = "done"
  /\ UNCHANGED <<graph, coloring, u, match, search, maxMatching>>

Terminated == pc \in {"done", "error"} /\ UNCHANGED vars

Next ==
  \/ Start \/ ColorRoot \/ ColorNext \/ NeighborSkip \/ NeighborColor
  \/ NeighborClash \/ NeighborsDone \/ Colored
  \/ PassOver \/ Search \/ Enter
  \/ ScanSkip \/ ScanFree \/ ScanMatched \/ ScanEnd
  \/ Moved \/ NotMoved \/ Searched \/ Collect \/ Terminated

Spec == Init /\ [][Next]_vars /\ WF_vars(Next)

-----------------------------------------------------------------------------

TypeOK ==
  /\ graph \in GraphsOn(size, Int)
  /\ color \in [V -> 0..2] /\ q \in Seq(V)
  /\ current \in V \cup {0} /\ neighbor \in 1..(size + 1)
  /\ u \in 1..(size + 1)
  /\ match \in [V -> V \cup {Free}]
  /\ visited \in [V -> BOOLEAN]
  /\ stack \in Seq(V \X (1..(size + 1)))
  /\ callee \in V \cup {0} /\ result \in BOOLEAN
  /\ maxMatching \in Nat
  /\ matchingPairs \subseteq V \X V
  /\ pc \in {"start", "color", "neighbors", "sources", "call", "scan", "return", "done",
             "error"}

Edges == { e \in V \X V : is_edge(graph, e[1], e[2]) }

Matchings ==
  { M \in SUBSET { e \in Edges : color[e[1]] = 1 } :
      \A e, f \in M : e # f => e[1] # f[1] /\ e[2] # f[2] }

(* At every step of the recursion, matched vertices are neighbours of      *)
(* different colours, and nobody is matched twice, except while a          *)
(* successful search returns: then the mate that has moved still holds its *)
(* former neighbour, the one the frame on top is about to take over.       *)
MatchedEdges ==
  \A y \in V : match[y] # Free => /\ is_edge(graph, match[y], y)
                                  /\ color[match[y]] = 1 /\ color[y] = 2

OneMateEach ==
  \A y, z \in V :
    (y # z /\ match[y] = match[z] /\ match[y] # Free) =>
      /\ pc = "return" /\ result /\ stack # <<>>
      /\ Frame[2] \in {y, z}

MatchingSound == MatchedEdges /\ OneMateEach

(* The counter is the number of matched vertices, apart from the one that  *)
(* the search under way has just won.                                      *)
CountsMatched ==
  Cardinality({ y \in V : match[y] # Free })
    = maxMatching + IF pc = "return" /\ result THEN 1 ELSE 0

(* The result is a maximum matching, and its pairs are one of that size.   *)
MaximumMatching ==
  pc = "done" =>
    /\ matchingPairs \in Matchings
    /\ Cardinality(matchingPairs) = maxMatching
    /\ \A M \in Matchings : Cardinality(M) <= maxMatching

(* A graph is refused when it is directed or has no two-colouring, and     *)
(* only then; isolated vertices and several components are no obstacle.    *)
TwoColorable ==
  \E c \in [V -> 1..2] : \A e \in Edges : c[e[1]] # c[e[2]]

RefusedIffNotBipartite ==
  /\ pc = "error" => CheckDirected(graph) \/ ~TwoColorable
  /\ pc = "done" => ~CheckDirected(graph) /\ TwoColorable

(* The loops and the recursion end.                                        *)
Terminates == <>(pc \in {"done", "error"})

=============================================================================
