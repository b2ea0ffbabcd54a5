---------------------- MODULE BridgeArticulationFinder ----------------------
(***************************************************************************)
(* Class BridgeArticulationFinder of graphs/second.cpp: a depth-first      *)
(* search that numbers the vertices as it enters them, keeps for each the  *)
(* smallest number its subtree has an edge to, and reads off these which   *)
(* edges and which vertices of an undirected graph hold it together.       *)
(*                                                                         *)
(* The recursion of dfs is a stack of frames, the locals of its pending    *)
(* calls; v is the cursor in adjacency_list(u), and a frame that has made  *)
(* a call stays at its v.  pc "dfs" runs the loop of the frame on top, or, *)
(* without frames, the loop of find; "return" is the code after a          *)
(* recursive call.  "error" is the exception of the constructor.           *)
(***************************************************************************)
EXTENDS GraphProgram

size == Len(graph)

NoParent == -1

VARIABLES
  visited, entry_time, low, timer,
  bridges,                \* pairs <<x, y>> with x < y
  articulation_points,    \* in the order they are printed in
  root,                   \* the vertex the loop of find has reached
  stack

numbers == <<visited, entry_time, low, timer>>
found == <<bridges, articulation_points>>
vars == <<graph, pc, numbers, found, root, stack>>

New ==
  /\ visited = {}
  /\ entry_time = [x \in V |-> 0] /\ low = [x \in V |-> 0]
  /\ timer = 0
  /\ bridges = {} /\ articulation_points = <<>>
  /\ root = 1
  /\ stack = <<>>

Init == Loaded /\ New

Construct ==
  /\ pc = "start"
  /\ pc' = IF CheckDirected(graph) THEN "error" ELSE "dfs"
  /\ UNCHANGED <<graph, numbers, found, root, stack>>

-----------------------------------------------------------------------------
(* dfs *)

NewFrame(x, p) ==
  [u |-> x, parent |-> p, v |-> 1, children |-> 0, is_articulation |-> FALSE]

Frame == stack[Len(stack)]

(* The stack with f in the place of its top. *)
Updated(f) == [stack EXCEPT ![Len(stack)] = f]

(* A call of dfs up to its loop. *)
Enter(x, p) ==
  /\ visited' = visited \cup {x}
  /\ entry_time' = [entry_time EXCEPT ![x] = timer]
  /\ low' = [low EXCEPT ![x] = timer]
  /\ timer' = timer + 1
  /\ stack' = Append(stack, NewFrame(x, p))

InLoop == pc = "dfs" /\ stack # <<>> /\ Frame.v <= size

IsNeighbor == is_edge(graph, Frame.u, Frame.v)

(* Variant of Onward: the edge to the parent is taken for a way around.    *)
OnwardOrBack == IsNeighbor

Onward == IsNeighbor /\ Frame.v # Frame.parent

ScanSkip ==
  /\ InLoop
  /\ ~Onward
  /\ stack' = Updated([Frame EXCEPT !.v = @ + 1])
  /\ UNCHANGED <<graph, numbers, found, root, pc>>

ScanCall ==
  /\ InLoop
  /\ Onward /\ Frame.v \notin visited
  /\ Enter(Frame.v, Frame.u)
  /\ UNCHANGED <<graph, found, root, pc>>

Smaller(a, b) == IF a < b THEN a ELSE b

ScanVisited ==
  /\ InLoop
  /\ Onward /\ Frame.v \in visited
  /\ low' = [low EXCEPT ![Frame.u] = Smaller(low[Frame.u], entry_time[Frame.v])]
  /\ stack' = Updated([Frame EXCEPT !.v = @ + 1])
  /\ UNCHANGED <<graph, visited, entry_time, timer, found, root, pc>>

(* Variant of IsBridge: not strict.                                        *)
IsBridgeOrCut(x, y) == low[y] >= entry_time[x]

IsBridge(x, y) == low[y] > entry_time[x]

(* Variant of Separates: the root is no exception.                         *)
SeparatesAlways(f) == low[f.v] >= entry_time[f.u]

Separates(f) == low[f.v] >= entry_time[f.u] /\ f.parent # NoParent

(* The rest of the iteration that has made the call. *)
Return ==
  /\ pc = "return" /\ stack # <<>>
  /\ low' = [low EXCEPT ![Frame.u] = Smaller(low[Frame.u], low[Frame.v])]
  /\ bridges' = bridges \cup
       IF IsBridge(Frame.u, Frame.v)
       THEN { <<Smaller(Frame.u, Frame.v), IF Frame.u < Frame.v THEN Frame.v ELSE Frame.u>> }
       ELSE {}
  /\ stack' = Updated([Frame EXCEPT !.v = @ + 1,
                                    !.children = @ + 1,
                                    !.is_articulation = @ \/ Separates(Frame)])
  /\ pc' = "dfs"
  /\ UNCHANGED <<graph, visited, entry_time, timer, articulation_points, root>>

(* What follows the loop: a root is judged by its children, and the vertex *)
(* is noted, once.                                                         *)
Leave ==
  /\ pc = "dfs" /\ stack # <<>> /\ Frame.v > size
  /\ LET is_articulation ==
           Frame.is_articulation \/ (Frame.parent = NoParent /\ Frame.children > 1)
         is_ap_added == \E k \in DOMAIN articulation_points : articulation_points[k] = Frame.u
     IN  articulation_points' =
           IF is_articulation /\ ~is_ap_added
           THEN Append(articulation_points, Frame.u) ELSE articulation_points
  /\ stack' = SubSeq(stack, 1, Len(stack) - 1)
  /\ pc' = IF Len(stack) = 1 THEN "dfs" ELSE "return"
  /\ UNCHANGED <<graph, numbers, bridges, root>>

-----------------------------------------------------------------------------
(* find *)

FindCall ==
  /\ pc = "dfs" /\ stack = <<>> /\ root <= size /\ root \notin visited
  /\ Enter(root, NoParent)
  /\ root' = root + 1
  /\ UNCHANGED <<graph, found, pc>>

FindSkip ==
  /\ pc = "dfs" /\ stack = <<>> /\ root <= size /\ root \in visited
  /\ root' = root + 1
  /\ UNCHANGED <<graph, numbers, found, stack, pc>>

FindEnd ==
  /\ pc = "dfs" /\ stack = <<>> /\ root > size
  /\ pc' = "done"
  /\ UNCHANGED <<graph, numbers, found, root, stack>>

Next ==
  \/ Construct
  \/ ScanSkip \/ ScanCall \/ ScanVisited \/ Return \/ Leave
  \/ FindCall \/ FindSkip \/ FindEnd

Spec == Init /\ [][Next]_vars

-----------------------------------------------------------------------------

Frames ==
  [u : V, parent : V \cup {NoParent}, v : 1..(size + 1), children : 0..size,
   is_articulation : BOOLEAN]

TypeOK ==
  /\ visited \subseteq V
  /\ entry_time \in [V -> Nat] /\ low \in [V -> Nat]
  /\ timer = Cardinality(visited)
  /\ bridges \subseteq V \X V
  /\ articulation_points \in Seq(V)
  /\ root \in 1..(size + 1)
  /\ stack \in Seq(Frames)
  /\ pc \in {"start", "dfs", "return", "done", "error"}

(* What is visited when a call for v returns and was entered after v.      *)
Subtree(v) == { x \in visited : entry_time[x] >= entry_time[v] }

(* When the caller reads low of the vertex whose call has returned, it is  *)
(* the smallest number among that vertex and the ends of the edges of its  *)
(* subtree, other than the edge the call came along; and every edge of the *)
(* subtree leads into it or to a vertex whose call is still pending.       *)
LowWhenRead ==
  pc = "return" =>
    LET v == Frame.v
        T == Subtree(v)
        Ways == { e \in T \X V : is_edge(graph, e[1], e[2]) /\ e # <<v, Frame.u>> }
        Numbers == { entry_time[e[2]] : e \in Ways } \cup { entry_time[v] }
    IN  /\ low[v] \in Numbers /\ \A n \in Numbers : low[v] <= n
        /\ \A e \in Ways : \/ e[2] \in T
                           \/ \E k \in DOMAIN stack : stack[k].u = e[2]

(* The bridges are the edges without which their ends are no longer        *)
(* connected, and the cut vertices those without which two of their        *)
(* neighbours are not, in all components; each cut vertex is printed once. *)
BridgesAndCutVertices ==
  pc = "done" =>
    LET Bridges == { e \in Edges : /\ e[1] < e[2]
                                   /\ e[2] \notin ReachableBy(Edges \ Mirrored({e}), e[1]) }
        Without(x) == { e \in Edges : x \notin {e[1], e[2]} }
        Cuts == { x \in V : \E y, z \in Near(x) \ {x} : z \notin ReachableBy(Without(x), y) }
    IN  /\ bridges = Bridges
        /\ { articulation_points[k] : k \in DOMAIN articulation_points } = Cuts
        /\ Len(articulation_points) = Cardinality(Cuts)

=============================================================================
