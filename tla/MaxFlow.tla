------------------------------ MODULE MaxFlow ------------------------------
(***************************************************************************)
(* ford_fulkerson and bfs of graphs/thirteents.cpp, the program that       *)
(* CMakeLists.txt builds: the maximum flow of a network, found by pushing  *)
(* flow along augmenting paths that a breadth-first search returns.        *)
(*                                                                         *)
(* One action is one iteration of one loop of the code.  pc names the loop *)
(* that runs next: "start" is the body of ford_fulkerson before its while  *)
(* loop, "bfs" a call of bfs, "pop" and "scan" the two loops of bfs,       *)
(* "augment" the walk from the sink back to the source, "collect" what     *)
(* follows the while loop.  "error" is the exception.                      *)
(***************************************************************************)
EXTENDS FlowProblem, Sequences

CONSTANT IntMax      \* numeric_limits<int>::max()

(* The code leaves it to the caller, too, that the flow of an arc and of    *)
(* its reverse fit one int together, without which the pushes overflow.     *)
ASSUME IntMaxAssumption ==
  /\ IntMax \in Nat \ {0}
  /\ \A g \in Networks : \A a, b \in 1..size : g[a][b] + g[b][a] <= IntMax

Unvisited == -1
Root == -2

VARIABLES
  residual_graph,
  parent,
  q,               \* bfs: queue of <<vertex, flow that reaches it>>
  u, flow,         \* bfs: the entry being expanded
  v,               \* bfs: column being scanned; afterwards the walk back
  new_flow,
  max_flow,
  flow_edges,      \* result; sorted by the code, so a set carries it
  pc

vars == <<graph, residual_graph, parent, q, u, flow, v, new_flow, max_flow,
          flow_edges, pc>>

Init ==
  /\ graph \in Networks
  /\ residual_graph = [a \in V |-> [b \in V |-> 0]]
  /\ parent = [a \in V |-> 0]
  /\ q = <<>>
  /\ u = source /\ flow = 0 /\ v = source
  /\ new_flow = 0 /\ max_flow = 0
  /\ flow_edges = {}
  /\ pc = "start"

(* Variant of Start: the residual network is left at its initial zeros on   *)
(* and above the diagonal.                                                  *)
StartHalfCopied ==
  /\ pc = "start" /\ CheckDirected(graph)
  /\ residual_graph' = [a \in V |-> [b \in V |-> IF a < b THEN 0 ELSE graph[a][b]]]
  /\ pc' = "bfs"
  /\ UNCHANGED <<graph, parent, q, u, flow, v, new_flow, max_flow, flow_edges>>

(* The network is refused, or the residual network starts as a copy of it. *)
Start ==
  /\ pc = "start"
  /\ IF CheckDirected(graph)
     THEN residual_graph' = graph /\ pc' = "bfs"
     ELSE pc' = "error" /\ UNCHANGED residual_graph
  /\ UNCHANGED <<graph, parent, q, u, flow, v, new_flow, max_flow, flow_edges>>

BfsCall ==
  /\ pc = "bfs"
  /\ parent' = [[a \in V |-> Unvisited] EXCEPT ![source] = Root]
  /\ q' = << <<source, IntMax>> >>
  /\ pc' = "pop"
  /\ UNCHANGED <<graph, residual_graph, u, flow, v, new_flow, max_flow, flow_edges>>

Pop ==
  /\ pc = "pop" /\ q # <<>>
  /\ u' = Head(q)[1] /\ flow' = Head(q)[2]
  /\ q' = Tail(q)
  /\ v' = 1
  /\ pc' = "scan"
  /\ UNCHANGED <<graph, residual_graph, parent, new_flow, max_flow, flow_edges>>

(* Variant of BfsFails: the caller does not look at the 0. *)
BfsFailsUnnoticed ==
  /\ pc = "pop" /\ q = <<>>
  /\ new_flow' = 0
  /\ pc' = "bfs"
  /\ UNCHANGED <<graph, residual_graph, parent, q, u, flow, v, max_flow, flow_edges>>

(* The queue ran dry before the sink was met: bfs returns 0 and the outer  *)
(* loop ends.                                                              *)
BfsFails ==
  /\ pc = "pop" /\ q = <<>>
  /\ new_flow' = 0
  /\ pc' = "collect"
  /\ UNCHANGED <<graph, residual_graph, parent, q, u, flow, v, max_flow, flow_edges>>

Discoverable == parent[v] = Unvisited /\ residual_graph[u][v] > 0

(* min(flow, residual_graph[u][v]) *)
Narrowed == IF residual_graph[u][v] < flow THEN residual_graph[u][v] ELSE flow

ScanSkip ==
  /\ pc = "scan" /\ v <= size
  /\ ~Discoverable
  /\ v' = v + 1
  /\ UNCHANGED <<graph, residual_graph, parent, q, u, flow, new_flow, max_flow,
                 flow_edges, pc>>

(* Variant of ScanDiscover: the new entry overtakes the queue. *)
ScanDiscoverLifo ==
  /\ pc = "scan" /\ v <= size
  /\ Discoverable /\ v # sink
  /\ parent' = [parent EXCEPT ![v] = u]
  /\ q' = << <<v, Narrowed>> >> \o q
  /\ v' = v + 1
  /\ UNCHANGED <<graph, residual_graph, u, flow, new_flow, max_flow, flow_edges, pc>>

ScanDiscover ==
  /\ pc = "scan" /\ v <= size
  /\ Discoverable /\ v # sink
  /\ parent' = [parent EXCEPT ![v] = u]
  /\ q' = Append(q, <<v, Narrowed>>)
  /\ v' = v + 1
  /\ UNCHANGED <<graph, residual_graph, u, flow, new_flow, max_flow, flow_edges, pc>>

(* The sink is met: bfs returns the bottleneck at once, its queue dies     *)
(* with it, and the caller, unless it got a 0, books the flow before it    *)
(* walks the path.                                                         *)
ScanReachSink ==
  /\ pc = "scan" /\ v <= size
  /\ Discoverable /\ v = sink
  /\ parent' = [parent EXCEPT ![v] = u]
  /\ new_flow' = Narrowed
  /\ max_flow' = max_flow + Narrowed
  /\ q' = <<>>
  /\ pc' = IF Narrowed = 0 THEN "collect" ELSE "augment"
  /\ UNCHANGED <<graph, residual_graph, u, flow, v, flow_edges>>

(* Variant of ScanEnd: bfs returns when one vertex has been scanned. *)
ScanEndTooEarly ==
  /\ pc = "scan" /\ v > size
  /\ new_flow' = 0
  /\ pc' = "collect"
  /\ UNCHANGED <<graph, residual_graph, parent, q, u, flow, v, max_flow, flow_edges>>

ScanEnd ==
  /\ pc = "scan" /\ v > size
  /\ pc' = "pop"
  /\ UNCHANGED <<graph, residual_graph, parent, q, u, flow, v, new_flow, max_flow,
                 flow_edges>>

(* Variant of Push: no capacity for undoing the flow. *)
PushForwardOnly ==
  /\ pc = "augment" /\ v # source
  /\ residual_graph' = [residual_graph EXCEPT ![parent[v]][v] = @ - new_flow]
  /\ v' = parent[v]
  /\ UNCHANGED <<graph, parent, q, u, flow, new_flow, max_flow, flow_edges, pc>>

(* One iteration of the walk from the sink to the source. *)
Push ==
  /\ pc = "augment" /\ v # source
  /\ residual_graph' = [residual_graph EXCEPT ![parent[v]][v] = @ - new_flow,
                                              ![v][parent[v]] = @ + new_flow]
  /\ v' = parent[v]
  /\ UNCHANGED <<graph, parent, q, u, flow, new_flow, max_flow, flow_edges, pc>>

WalkEnd ==
  /\ pc = "augment" /\ v = source
  /\ pc' = "bfs"
  /\ UNCHANGED <<graph, residual_graph, parent, q, u, flow, v, new_flow, max_flow,
                 flow_edges>>

(* The flow on an arc of the network: what its residual capacity lost.     *)
NetFlow(a, b) == weight(graph, a, b) - residual_graph[a][b]

(* Variant of Collect: capacities of 0 are not passed over. *)
CollectEveryPair ==
  /\ pc = "collect"
  /\ flow_edges' = { <<e[1], e[2], NetFlow(e[1], e[2])>> : e \in
                        { e \in V \X V : NetFlow(e[1], e[2]) # 0 } }
  /\ pc' = "done"
  /\ UNCHANGED <<graph, residual_graph, parent, q, u, flow, v, new_flow, max_flow>>

Collect ==
  /\ pc = "collect"
  /\ flow_edges' =
       { <<e[1], e[2], NetFlow(e[1], e[2])>> : e \in
           { e \in V \X V : weight(graph, e[1], e[2]) > 0 /\ NetFlow(e[1], e[2]) > 0 } }
  /\ pc' = "done"
  /\ UNCHANGED <<graph, residual_graph, parent, q, u, flow, v, new_flow, max_flow>>

Terminated == pc \in {"done", "error"} /\ UNCHANGED vars

Next ==
  \/ Start \/ BfsCall \/ Pop \/ BfsFails
  \/ ScanSkip \/ ScanDiscover \/ ScanReachSink \/ ScanEnd
  \/ Push \/ WalkEnd \/ Collect \/ Terminated

(* A sequential program keeps running until it returns or throws. *)
Spec == Init /\ [][Next]_vars /\ WF_vars(Next)

-----------------------------------------------------------------------------

PCs == {"start", "bfs", "pop", "scan", "augment", "collect", "done", "error"}

TypeOK ==
  /\ graph \in GraphsOn(size, Nat)
  /\ residual_graph \in GraphsOn(size, Int)
  /\ parent \in [V -> V \cup {Unvisited, Root, 0}]
  /\ q \in Seq(V \X Nat)
  /\ u \in V /\ flow \in Nat
  /\ v \in 1..(size + 1)
  /\ new_flow \in Nat /\ max_flow \in Nat
  /\ flow_edges \subseteq V \X V \X Nat
  /\ pc \in PCs

Initialised == pc \notin {"start", "error"}

(* Every iteration of the walk that updates the residual network leaves an  *)
(* arc and its reverse the capacity they have together in the network, and  *)
(* no residual capacity below 0: new_flow is still a lower bound of every   *)
(* arc the walk has not reached, although the walk itself rewrites the      *)
(* matrix the bound was computed from.                                      *)
ResidualCapacities ==
  Initialised =>
    \A a, b \in V :
      /\ residual_graph[a][b] >= 0
      /\ residual_graph[a][b] + residual_graph[b][a] = graph[a][b] + graph[b][a]

(* When the result is collected, the vertices the last, failed search has   *)
(* labelled are one side of a cut that separates the source from the sink   *)
(* and that has no residual capacity left: the certificate of optimality.   *)
SaturatedCut ==
  (pc \in {"collect", "done"} /\ source # sink) =>
    /\ parent[source] # Unvisited
    /\ parent[sink] = Unvisited
    /\ \A a, b \in V : (parent[a] # Unvisited /\ parent[b] = Unvisited)
                          => residual_graph[a][b] = 0

(* A printed flow is positive and within the capacity of its arc.          *)
ReportedArcs ==
  \A e \in flow_edges : e[3] \in 1..weight(graph, e[1], e[2])

=============================================================================
