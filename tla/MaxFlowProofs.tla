--------------------------- MODULE MaxFlowProofs ---------------------------
(***************************************************************************)
(* The maximum flow program, for every size, source, sink and set of       *)
(* networks: its types, the soundness of the residual network throughout   *)
(* the walk that rewrites it, the cut that certifies its result, that it   *)
(* implements the Ford-Fulkerson method, that the method ends with a       *)
(* minimum cut, and that the paths of the search are the shortest.         *)
(*                                                                         *)
(* Two ideas carry the argument.  What the queue of bfs holds for a vertex, *)
(* and what the walk still has ahead, is a simple path p from the source,  *)
(* linked by parent, every arc of which has residual capacity for the flow *)
(* at hand.  A discovery adds one vertex to such a path, an iteration of   *)
(* the walk takes one away; neither disturbs the others.  The path is not  *)
(* a variable of the program, so the invariant says that there is one.     *)
(* And at every instant of the walk the residual network describes a flow  *)
(* but for what has arrived at v and has not yet left the source: Balance. *)
(***************************************************************************)
EXTENDS MaxFlowProperties, FordFulkerson, SumTheorems, SequenceTheorems

Labelled(x) == parent[x] # Unvisited

(* p is a simple path of par from the source to x with room for flow f.    *)
PathTo(par, res, p, x, f) ==
  /\ p \in Seq(V) /\ p # <<>> /\ p[1] = source /\ p[Len(p)] = x
  /\ \A i \in 1..(Len(p) - 1) : par[p[i + 1]] = p[i] /\ f <= res[p[i]][p[i + 1]]
  /\ \A i, j \in 1..Len(p) : p[i] = p[j] => i = j

Reachable(par, res, x, f) == \E p : PathTo(par, res, p, x, f)

(* f is the residual capacity of an arc of p, if p has an arc.             *)
Tight(res, p, f) ==
  \/ Len(p) = 1 /\ f = IntMax
  \/ \E i \in 1..(Len(p) - 1) : f = res[p[i]][p[i + 1]]

(* There is a path to x whose bottleneck is f. *)
BottleneckTo(par, res, x, f) ==
  \E p : PathTo(par, res, p, x, f) /\ Tight(res, p, f)

Searching == pc \in {"pop", "scan"}

QueueReachable ==
  Searching => \A i \in 1..Len(q) :
                 q[i][2] > 0 /\ BottleneckTo(parent, residual_graph, q[i][1], q[i][2])

CurrentReachable ==
  pc = "scan" => flow > 0 /\ BottleneckTo(parent, residual_graph, u, flow)

WalkReachable == pc = "augment" => v \in V /\ Reachable(parent, residual_graph, v, new_flow)

(* What bfs has done with x so far: nothing, or all of its row, or the     *)
(* columns before v.                                                       *)
Queued(x) == \E i \in 1..Len(q) : q[i][1] = x

ScannedUpTo(x, k) == \A y \in V : y < k /\ ~Labelled(y) => residual_graph[x][y] = 0

SearchComplete ==
  pc \in {"pop", "scan", "collect", "done"} =>
    /\ Labelled(source)
    /\ source # sink => ~Labelled(sink)
    /\ pc \in {"collect", "done"} => q = <<>>
    /\ \A x \in V : Labelled(x) =>
         \/ Queued(x)
         \/ pc = "scan" /\ x = u /\ ScannedUpTo(x, v)
         \/ ScannedUpTo(x, size + 1)

(* What x, other than the sink, sends out more than it receives: what is    *)
(* booked at the source; while the walk goes on, new_flow has arrived at v *)
(* and not yet left the source.                                            *)
Owed(x) ==
  (IF x = source THEN max_flow ELSE 0)
    + (IF pc # "augment" \/ x \notin {source, v} \/ v = source THEN 0
       ELSE IF x = v THEN new_flow ELSE -new_flow)

Balance ==
  /\ Initialised => CheckDirected(graph)
  /\ ~Initialised \/ source = sink => max_flow = 0
  /\ source = sink => pc # "augment"
  /\ Initialised => \A x \in V \ {sink} : NetOut(x) = Owed(x)

(* The printed lines are those the residual network calls for.             *)
Lines(g, r) ==
  { <<e[1], e[2], g[e[1]][e[2]] - r[e[1]][e[2]]>> : e \in
      { e \in V \X V : g[e[1]][e[2]] > 0 /\ g[e[1]][e[2]] - r[e[1]][e[2]] > 0 } }

Reported == pc = "done" => flow_edges = Lines(graph, residual_graph)

IInv ==
  /\ TypeOK /\ graph \in Networks
  /\ ResidualCapacities
  /\ QueueReachable
  /\ CurrentReachable
  /\ WalkReachable
  /\ SearchComplete
  /\ ReportedArcs
  /\ Reported
  /\ Balance

-----------------------------------------------------------------------------
(* NetOut, of the matrices it reads.                                       *)
Out(g, r, x) == SumFunctionOnSet([y \in V |-> g[x][y] - r[x][y]], V)

LEMMA NetOuts ==
  ASSUME NEW x
  PROVE  /\ NetOut(x) = Out(graph, residual_graph, x)
         /\ NetOut(x)' = Out(graph', residual_graph', x)
<1>1. /\ NetOut(x) = SumFunction([y \in V |-> graph[x][y] - residual_graph[x][y]])
      /\ NetOut(x)' = SumFunction([y \in V |-> graph'[x][y] - residual_graph'[x][y]])
  BY Zenon DEF NetOut, NetFlow, weight
<1>2. ASSUME NEW g, NEW r
      PROVE  SumFunction([y \in V |-> g[x][y] - r[x][y]]) = Out(g, r, x)
  <2> DEFINE h == [y \in V |-> g[x][y] - r[x][y]]
  <2>1. DOMAIN h = V
    OBVIOUS
  <2> HIDE DEF h
  <2>2. SumFunction(h) = SumFunctionOnSet(h, V)
    BY <2>1, Zenon DEF SumFunction
  <2> QED
    BY <2>2, Zenon DEF Out, h
<1> QED
  BY <1>1, <1>2

(* Nothing is owed to a step that neither pushes nor books.                *)
LEMMA Quiet ==
  ASSUME IInv, UNCHANGED <<graph, residual_graph, max_flow>>,
         Initialised, Initialised', pc' # "augment",
         pc = "augment" => v = source
  PROVE  Balance'
<1>1. \A x \in V \ {sink} : NetOut(x)' = NetOut(x) /\ Owed(x)' = Owed(x)
  BY NetOuts DEF Owed
<1> QED
  BY <1>1 DEF IInv, Balance

(* The types of the pieces of state the steps below combine. *)
LEMMA Types ==
  ASSUME TypeOK, graph \in Networks
  PROVE  /\ \A a, b \in V : graph[a][b] \in Nat /\ residual_graph[a][b] \in Int
         /\ \A x \in V : parent[x] \in Int
         /\ source \in V /\ sink \in V /\ V \subseteq Int
         /\ Unvisited \notin V /\ Root \notin V /\ Root # Unvisited
<1>1. source \in V /\ sink \in V /\ V \subseteq Int
  BY NetworkAssumption DEF NetworkAssumption, V
<1>2. \A a, b \in V : graph[a][b] \in Nat /\ residual_graph[a][b] \in Int
  BY DEF TypeOK, GraphsOn, V
<1>3. Unvisited \notin V /\ Root \notin V /\ Root # Unvisited
  BY NetworkAssumption DEF NetworkAssumption, V, Unvisited, Root
<1>4. \A x \in V : parent[x] \in Int
  <2>1. V \cup {Unvisited, Root, 0} \subseteq Int
    BY <1>1 DEF Unvisited, Root
  <2> QED
    BY <2>1 DEF TypeOK
<1> QED
  BY <1>1, <1>2, <1>3, <1>4

LEMMA NetworkCapacities == graph \in Networks => \A a, b \in V : graph[a][b] \in Nat
BY NetworkAssumption DEF NetworkAssumption, GraphsOn, V

LEMMA FiniteV == IsFiniteSet(V)
BY FS_Interval, NetworkAssumption DEF NetworkAssumption, V

(* The initial state satisfies the inductive invariant.                    *)
LEMMA InitInv == Init => IInv
<1> SUFFICES ASSUME Init PROVE IInv
  OBVIOUS
<1>1. TypeOK /\ graph \in Networks
  BY NetworkAssumption DEF NetworkAssumption, Init, TypeOK, GraphsOn, V, PCs
<1>2. Balance
  BY DEF Init, Balance, Initialised
<1> QED
  BY <1>1, <1>2 DEF Init, IInv, ResidualCapacities, Initialised, QueueReachable, CurrentReachable,
                    WalkReachable, SearchComplete, Searching, ReportedArcs, Reported

(* Steps that leave the search alone keep its invariants, as long as the    *)
(* program does not enter it.                                               *)
LEMMA StartInv == IInv /\ Start => IInv'
<1> SUFFICES ASSUME IInv, Start PROVE IInv'
  OBVIOUS
<1> USE DEF IInv, Start
<1>1. TypeOK' /\ (graph \in Networks)'
  <2>1. GraphsOn(size, Nat) \subseteq GraphsOn(size, Int)
    BY DEF GraphsOn
  <2> QED
    BY <2>1 DEF TypeOK, PCs
<1>2. ResidualCapacities'
  <2>1. CASE pc' = "error"
    BY <2>1 DEF ResidualCapacities, Initialised
  <2>2. CASE residual_graph' = graph
    BY <2>2, Types DEF ResidualCapacities
  <2> QED
    BY <2>1, <2>2
<1>3. Balance'
  <2>1. CASE pc' = "error"
    BY <2>1 DEF Balance, Initialised
  <2>2. CASE CheckDirected(graph) /\ residual_graph' = graph /\ pc' = "bfs"
    <3>1. ASSUME NEW x \in V PROVE Out(graph', residual_graph', x) = 0
      <4> DEFINE h == [y \in V |-> graph'[x][y] - residual_graph'[x][y]]
      <4>1. \A y \in V : h[y] = 0
        BY <2>2, Types
      <4> HIDE DEF h
      <4>2. SumFunctionOnSet(h, V) = 0
        BY <4>1, FiniteV, SumZero
      <4> QED
        BY <4>2, Zenon DEF Out, h
    <3>2. max_flow' = 0
      BY DEF Balance, Initialised
    <3>3. \A x \in V \ {sink} : NetOut(x)' = 0 /\ Owed(x)' = 0
      BY <2>2, <3>1, <3>2, NetOuts DEF Owed
    <3> QED
      BY <2>2, <3>2, <3>3 DEF Balance
  <2> QED
    BY <2>1, <2>2
<1> QED
  BY <1>1, <1>2, <1>3 DEF QueueReachable, CurrentReachable, WalkReachable, SearchComplete,
                          Searching, ReportedArcs, Reported, weight

(* A call of bfs begins with the source alone labelled and queued.         *)
LEMMA BfsCallInv == IInv /\ BfsCall => IInv'
<1> SUFFICES ASSUME IInv, BfsCall PROVE IInv'
  OBVIOUS
<1> USE DEF IInv, BfsCall
<1>1. TypeOK' /\ (graph \in Networks)'
  <2>1. parent' \in [V -> V \cup {Unvisited, Root, 0}]
    OBVIOUS
  <2>2. q' \in Seq(V \X Nat)
    BY Types, IntMaxAssumption DEF IntMaxAssumption
  <2> QED
    BY <2>1, <2>2 DEF TypeOK, PCs
<1>2. ResidualCapacities'
  BY DEF ResidualCapacities, Initialised
<1>3. QueueReachable'
  <2> DEFINE p == <<source>>
  <2>1. p \in Seq(V) /\ p # <<>> /\ Len(p) = 1 /\ p[1] = source
    BY Types
  <2> IntMax > 0
    BY IntMaxAssumption DEF IntMaxAssumption
  <2> HIDE DEF p
  <2>2. PathTo(parent', residual_graph', p, source, IntMax) /\ Tight(residual_graph', p, IntMax)
    BY <2>1 DEF PathTo, Tight
  <2>3. BottleneckTo(parent', residual_graph', source, IntMax)
    BY <2>1, <2>2 DEF BottleneckTo
  <2> QED
    BY <2>3 DEF QueueReachable
<1>4. SearchComplete'
  <2>1. Queued(source)'
    BY DEF Queued
  <2>2. \A x \in V : Labelled(x)' => x = source
    BY DEF Labelled, TypeOK
  <2>3. Labelled(source)'
    BY Types DEF Labelled, TypeOK
  <2> QED
    BY <2>1, <2>2, <2>3, Types DEF SearchComplete, Labelled
<1>5. Balance'
  BY Quiet DEF Initialised
<1> QED
  BY <1>1, <1>2, <1>3, <1>4, <1>5 DEF CurrentReachable, WalkReachable, ReportedArcs, Reported, weight

(* Taking an entry off the queue makes it the one being expanded.          *)
LEMMA PopInv == IInv /\ Pop => IInv'
<1> SUFFICES ASSUME IInv, Pop PROVE IInv'
  OBVIOUS
<1> USE DEF IInv, Pop
<1>1. /\ q[1] \in V \X Nat /\ u' = q[1][1] /\ flow' = q[1][2]
      /\ q' \in Seq(V \X Nat) /\ Len(q) > 0 /\ Len(q') = Len(q) - 1
      /\ \A i \in 1..Len(q') : q'[i] = q[i + 1]
  BY DEF TypeOK
<1>2. TypeOK' /\ (graph \in Networks)'
  <2>1. v' \in 1..(size + 1)
    BY NetworkAssumption DEF NetworkAssumption
  <2>2. u' \in V /\ flow' \in Nat
    BY <1>1
  <2> QED
    BY <1>1, <2>1, <2>2 DEF TypeOK, PCs
<1>3. ResidualCapacities'
  BY DEF ResidualCapacities, Initialised
<1>4. QueueReachable'
  <2> SUFFICES ASSUME NEW i \in 1..Len(q')
               PROVE  q'[i][2] > 0 /\ BottleneckTo(parent, residual_graph, q'[i][1], q'[i][2])
    BY DEF QueueReachable
  <2>1. i + 1 \in 1..Len(q) /\ q'[i] = q[i + 1]
    BY <1>1 DEF TypeOK
  <2> QED
    BY <2>1 DEF QueueReachable, Searching
<1>5. CurrentReachable'
  <2>1. q[1][2] > 0 /\ BottleneckTo(parent, residual_graph, q[1][1], q[1][2])
    BY <1>1 DEF QueueReachable, Searching, TypeOK
  <2> QED
    BY <1>1, <2>1 DEF CurrentReachable
<1>6. SearchComplete'
  <2> SUFFICES ASSUME NEW x \in V, Labelled(x)
               PROVE  Queued(x)' \/ (x = u' /\ ScannedUpTo(x, v)') \/ ScannedUpTo(x, size + 1)'
    BY DEF SearchComplete, Labelled
  <2>1. CASE Queued(x)
    <3>1. PICK i \in 1..Len(q) : q[i][1] = x
      BY <2>1 DEF Queued
    <3>2. CASE i = 1
      BY <1>1, <3>1, <3>2 DEF ScannedUpTo, V
    <3>3. CASE i # 1
      <4>1. i - 1 \in 1..Len(q') /\ q'[i - 1] = q[i]
        BY <1>1, <3>3 DEF TypeOK
      <4> QED
        BY <3>1, <4>1 DEF Queued
    <3> QED
      BY <3>2, <3>3
  <2>2. CASE ScannedUpTo(x, size + 1)
    BY <2>2 DEF ScannedUpTo, Labelled
  <2> QED
    BY <2>1, <2>2 DEF SearchComplete
<1>7. Balance'
  BY Quiet DEF Initialised
<1> QED
  BY <1>2, <1>3, <1>4, <1>5, <1>6, <1>7 DEF WalkReachable, ReportedArcs, Reported, weight

(* A queue that ran dry leaves every labelled vertex scanned.              *)
LEMMA BfsFailsInv == IInv /\ BfsFails => IInv'
<1> SUFFICES ASSUME IInv, BfsFails PROVE IInv'
  OBVIOUS
<1> USE DEF IInv, BfsFails
<1>1. TypeOK' /\ (graph \in Networks)'
  BY DEF TypeOK, PCs
<1>2. ResidualCapacities'
  BY DEF ResidualCapacities, Initialised
<1>3. SearchComplete'
  <2>1. \A x \in V : ~Queued(x)
    BY DEF Queued
  <2> QED
    BY <2>1 DEF SearchComplete, Labelled, ScannedUpTo
<1>4. Balance'
  BY Quiet DEF Initialised
<1> QED
  BY <1>1, <1>2, <1>3, <1>4 DEF QueueReachable, CurrentReachable, Searching, WalkReachable,
                                ReportedArcs, Reported, weight

(* Passing over a column adds it to the scanned ones.                      *)
LEMMA ScanSkipInv == IInv /\ ScanSkip => IInv'
<1> SUFFICES ASSUME IInv, ScanSkip PROVE IInv'
  OBVIOUS
<1> USE DEF IInv, ScanSkip
<1>1. v \in V /\ u \in V /\ v' \in 1..(size + 1)
  BY NetworkAssumption DEF NetworkAssumption, TypeOK, V
<1>2. TypeOK' /\ (graph \in Networks)'
  BY <1>1 DEF TypeOK, PCs
<1>3. ResidualCapacities'
  BY DEF ResidualCapacities, Initialised
<1>4. ~Labelled(v) => residual_graph[u][v] = 0
  BY <1>1, Types DEF Discoverable, Labelled, ResidualCapacities, Initialised
<1>5. SearchComplete'
  <2> SUFFICES ASSUME NEW x \in V, Labelled(x)
               PROVE  \/ Queued(x)
                      \/ x = u /\ ScannedUpTo(x, v)'
                      \/ ScannedUpTo(x, size + 1)
    BY DEF SearchComplete, Labelled, Queued, ScannedUpTo
  <2>1. CASE x = u /\ ScannedUpTo(x, v)
    <3>1. \A y \in V : y < v' => y < v \/ y = v
      BY <1>1, Types
    <3> QED
      BY <2>1, <3>1, <1>4 DEF ScannedUpTo, Labelled
  <2> QED
    BY <2>1 DEF SearchComplete
<1>6. Balance'
  BY Quiet DEF Initialised
<1> QED
  BY <1>2, <1>3, <1>5, <1>6 DEF QueueReachable, CurrentReachable, Searching, WalkReachable,
                                ReportedArcs, Reported, weight

(* When the last column is scanned, the vertex is scanned to its end.      *)
LEMMA ScanEndInv == IInv /\ ScanEnd => IInv'
<1> SUFFICES ASSUME IInv, ScanEnd PROVE IInv'
  OBVIOUS
<1> USE DEF IInv, ScanEnd
<1>1. TypeOK' /\ (graph \in Networks)'
  BY DEF TypeOK, PCs
<1>2. ResidualCapacities'
  BY DEF ResidualCapacities, Initialised
<1>3. v = size + 1
  BY NetworkAssumption DEF NetworkAssumption, TypeOK
<1>4. SearchComplete'
  BY <1>3 DEF SearchComplete, Labelled, Queued, ScannedUpTo
<1>5. Balance'
  BY Quiet DEF Initialised
<1> QED
  BY <1>1, <1>2, <1>4, <1>5 DEF QueueReachable, CurrentReachable, Searching, WalkReachable,
                                ReportedArcs, Reported, weight

(* The positions of a path. *)
Shape(par, res, p, x, f) ==
  /\ Len(p) \in Nat /\ Len(p) >= 1 /\ p[1] = source /\ p[Len(p)] = x
  /\ \A i \in 1..Len(p) : p[i] \in V
  /\ \A i \in 1..(Len(p) - 1) : /\ i \in 1..Len(p) /\ i + 1 \in 1..Len(p)
                                /\ par[p[i + 1]] = p[i] /\ f <= res[p[i]][p[i + 1]]
  /\ \A i \in 2..Len(p) : i - 1 \in 1..(Len(p) - 1) /\ par[p[i]] = p[i - 1]
  /\ \A i, j \in 1..Len(p) : p[i] = p[j] => i = j

LEMMA PathShape ==
  ASSUME NEW par, NEW res, NEW p, NEW x, NEW f, PathTo(par, res, p, x, f)
  PROVE  Shape(par, res, p, x, f)
<1> DEFINE n == Len(p)
<1>0. p \in Seq(V) /\ p # <<>>
  BY Zenon DEF PathTo
<1>1. n \in Nat /\ n >= 1
  BY <1>0
<1>2. \A i \in 1..n : p[i] \in V
  BY <1>0, ElementOfSeq
<1> HIDE DEF n
<1>3. /\ \A i \in 1..(n - 1) : i \in 1..n /\ i + 1 \in 1..n
      /\ \A i \in 2..n : i - 1 \in 1..(n - 1) /\ (i - 1) + 1 = i
  BY <1>1
<1>4. \A i \in 1..(n - 1) : par[p[i + 1]] = p[i] /\ f <= res[p[i]][p[i + 1]]
  BY Zenon DEF PathTo, n
<1>5. \A i \in 2..n : par[p[i]] = p[i - 1]
  <2> SUFFICES ASSUME NEW i \in 2..n PROVE par[p[i]] = p[i - 1]
    OBVIOUS
  <2>1. par[p[(i - 1) + 1]] = p[i - 1]
    BY <1>3, <1>4
  <2> QED
    BY <1>3, <2>1
<1>6. p[1] = source /\ p[n] = x /\ \A i, j \in 1..n : p[i] = p[j] => i = j
  BY Zenon DEF PathTo, n
<1> QED
  BY <1>1, <1>2, <1>3, <1>4, <1>5, <1>6 DEF n, Shape

LEMMA AppendPath ==
  ASSUME NEW S, NEW s \in Seq(S), NEW e \in S
  PROVE  /\ Append(s, e) \in Seq(S) /\ Len(Append(s, e)) = Len(s) + 1
         /\ Append(s, e) # <<>> /\ Append(s, e)[Len(s) + 1] = e
         /\ \A i \in 1..Len(s) : Append(s, e)[i] = s[i]
BY AppendProperties

(* Labelling y from x turns a path to x into a path to y ...                *)
LEMMA PathExtended ==
  ASSUME NEW par \in [V -> V \cup {Unvisited, Root, 0}],
         NEW res \in [V -> [V -> Int]],
         Unvisited \notin V, source \in V, par[source] # Unvisited,
         NEW x \in V, NEW f \in Int, BottleneckTo(par, res, x, f),
         NEW y \in V, par[y] = Unvisited, res[x][y] <= IntMax,
         NEW g \in Int, g = IF res[x][y] < f THEN res[x][y] ELSE f
  PROVE  BottleneckTo([par EXCEPT ![y] = x], res, y, g)
<1> DEFINE new == [par EXCEPT ![y] = x]
<1>1. PICK p : PathTo(par, res, p, x, f) /\ Tight(res, p, f)
  BY DEF BottleneckTo
<1> DEFINE n == Len(p)  r == Append(p, y)
<1>2. /\ n \in Nat /\ n >= 1 /\ p[1] = source /\ p[n] = x
      /\ \A i \in 1..n : p[i] \in V
      /\ \A i \in 1..(n - 1) : /\ i \in 1..n /\ i + 1 \in 1..n
                               /\ par[p[i + 1]] = p[i] /\ f <= res[p[i]][p[i + 1]]
      /\ \A i \in 2..n : i - 1 \in 1..(n - 1) /\ par[p[i]] = p[i - 1]
      /\ \A i, j \in 1..n : p[i] = p[j] => i = j
  <2>1. Shape(par, res, p, x, f)
    BY <1>1, PathShape, Zenon
  <2> QED
    BY <2>1 DEF Shape
<1>0. n = Len(p)
  OBVIOUS
<1> HIDE DEF n
<1>3. \A i \in 1..n : p[i] # y
  <2> SUFFICES ASSUME NEW i \in 1..n, i # 1 PROVE p[i] # y
    BY <1>2
  <2>1. i \in 2..n /\ i - 1 \in 1..n
    BY <1>2
  <2>2. par[p[i]] \in V
    BY <1>2, <2>1
  <2> QED
    BY <2>2
<1>4. /\ r \in Seq(V) /\ Len(r) = n + 1 /\ r # <<>> /\ r[n + 1] = y
      /\ \A i \in 1..n : r[i] = p[i]
  <2>1. p \in Seq(V)
    BY <1>1 DEF PathTo
  <2>2. r \in Seq(V)
    BY <2>1, AppendPath
  <2>3. Len(r) = Len(p) + 1
    BY <2>1, AppendPath
  <2>5. r # <<>>
    <3>1. Len(p) \in Nat /\ Len(<<>>) = 0
      BY <2>1
    <3> HIDE DEF r
    <3> QED
      BY <2>3, <3>1
  <2>6. r[Len(p) + 1] = y
    BY <2>1, AppendPath
  <2>4. \A i \in 1..Len(p) : r[i] = p[i]
    BY <2>1, AppendPath
  <2> QED
    BY <1>0, <2>2, <2>3, <2>4, <2>5, <2>6, Zenon
<1>5. /\ new[y] = x
      /\ \A i \in 1..n : new[p[i]] = par[p[i]]
  BY <1>2, <1>3
<1>6. g <= f /\ g <= res[x][y] /\ res[x][y] \in Int
  OBVIOUS
<1> HIDE DEF new, r
<1>7. ASSUME NEW i \in 1..n
      PROVE  new[r[i + 1]] = r[i] /\ g <= res[r[i]][r[i + 1]]
  <2>1. CASE i = n
    BY <1>2, <1>4, <1>5, <1>6, <2>1
  <2>2. CASE i # n
    <3>1. i \in 1..(n - 1) /\ i + 1 \in 1..n
      BY <1>2, <2>2
    <3>2. /\ r[i] = p[i] /\ r[i + 1] = p[i + 1] /\ new[p[i + 1]] = p[i]
          /\ f <= res[p[i]][p[i + 1]] /\ p[i] \in V /\ p[i + 1] \in V
      BY <1>2, <1>4, <1>5, <3>1
    <3>3. res[p[i]][p[i + 1]] \in Int
      BY <3>2
    <3> QED
      BY <1>6, <3>2, <3>3
  <2> QED
    BY <2>1, <2>2
<1>8. ASSUME NEW i \in 1..(n + 1), NEW j \in 1..(n + 1), r[i] = r[j]
      PROVE  i = j
  <2>0. i \in 1..n \/ i = n + 1
    BY <1>2
  <2>3. j \in 1..n \/ j = n + 1
    BY <1>2
  <2>1. CASE i \in 1..n /\ j \in 1..n
    BY <1>2, <1>4, <1>8, <2>1
  <2>2. \A k \in 1..n : r[k] # r[n + 1]
    BY <1>3, <1>4
  <2> QED
    BY <1>8, <2>0, <2>1, <2>2, <2>3
<1>9. PathTo(new, res, r, y, g)
  <2>1. (n + 1) - 1 = n /\ 1 \in 1..n
    BY <1>2
  <2> QED
    BY <1>2, <1>4, <1>7, <1>8, <2>1 DEF PathTo
<1>10. Tight(res, r, g)
  <2>1. CASE g = res[x][y]
    <3>1. n \in 1..(Len(r) - 1) /\ n \in 1..n
      BY <1>2, <1>4
    <3> QED
      BY <1>2, <1>4, <2>1, <3>1 DEF Tight
  <2>2. CASE g # res[x][y]
    <3>0. IntMax \in Int /\ res[x][y] \in Int
      BY IntMaxAssumption, <1>6 DEF IntMaxAssumption
    <3>1. g = f /\ f < res[x][y] /\ f # IntMax
      <4>1. g = f /\ ~(res[x][y] < f)
        BY <2>2, Zenon
      <4>2. ASSUME NEW e \in Int, e = res[x][y] PROVE f < e /\ f # IntMax
        BY <2>2, <3>0, <4>1, <4>2
      <4> QED
        BY <3>0, <4>1, <4>2
    <3>2. PICK i \in 1..(n - 1) : f = res[p[i]][p[i + 1]]
      BY <1>0, <1>1, <3>1 DEF Tight
    <3>3. i \in 1..n /\ i + 1 \in 1..n /\ i \in 1..(Len(r) - 1)
      BY <1>2, <1>4
    <3>4. g = res[r[i]][r[i + 1]]
      BY <1>4, <3>1, <3>2, <3>3
    <3> QED
      BY <3>3, <3>4 DEF Tight
  <2> QED
    BY <2>1, <2>2
<1> QED
  BY <1>4, <1>9, <1>10 DEF BottleneckTo, new

(* ... and leaves every other path as it was.                               *)
LEMMA PathKept ==
  ASSUME NEW par \in [V -> V \cup {Unvisited, Root, 0}], NEW res,
         Unvisited \notin V, source \in V, par[source] # Unvisited,
         NEW x, NEW f, BottleneckTo(par, res, x, f),
         NEW y \in V, par[y] = Unvisited, NEW z
  PROVE  BottleneckTo([par EXCEPT ![y] = z], res, x, f)
<1> DEFINE new == [par EXCEPT ![y] = z]
<1>1. PICK p : PathTo(par, res, p, x, f) /\ Tight(res, p, f)
  BY DEF BottleneckTo
<1>2. ASSUME NEW i \in 1..(Len(p) - 1)
      PROVE  new[p[i + 1]] = par[p[i + 1]]
  <2>1. Shape(par, res, p, x, f)
    BY <1>1, PathShape, Zenon
  <2> QED
    BY <2>1 DEF Shape
<1>3. PathTo(new, res, p, x, f)
  BY <1>1, <1>2 DEF PathTo
<1> QED
  BY <1>1, <1>3 DEF BottleneckTo

(* No residual capacity exceeds what an arc and its reverse have together. *)
LEMMA Bounded ==
  ASSUME IInv, Initialised, NEW a \in V, NEW b \in V
  PROVE  residual_graph[a][b] \in 0..IntMax
<1>1. graph[a][b] + graph[b][a] <= IntMax
  BY IntMaxAssumption DEF IntMaxAssumption, IInv, V
<1>2. /\ residual_graph[a][b] >= 0 /\ residual_graph[b][a] >= 0
      /\ residual_graph[a][b] + residual_graph[b][a] = graph[a][b] + graph[b][a]
      /\ residual_graph[a][b] \in Int /\ residual_graph[b][a] \in Int
      /\ graph[a][b] \in Nat /\ graph[b][a] \in Nat
  BY Types DEF IInv, ResidualCapacities
<1> QED
  BY <1>1, <1>2, IntMaxAssumption DEF IntMaxAssumption

(* The situation of both discoveries: the sink and any other vertex.        *)
LEMMA Discovery ==
  ASSUME IInv, pc = "scan", v <= size, Discoverable
  PROVE  /\ v \in V /\ u \in V /\ parent[v] = Unvisited /\ parent[source] # Unvisited
         /\ Narrowed \in Nat /\ Narrowed > 0
         /\ BottleneckTo([parent EXCEPT ![v] = u], residual_graph, v, Narrowed)
<1> USE DEF IInv
<1>1. v \in V /\ u \in V /\ parent[v] = Unvisited /\ residual_graph[u][v] > 0
  BY NetworkAssumption DEF NetworkAssumption, TypeOK, V, Discoverable
<1>2. parent[source] # Unvisited
  BY DEF SearchComplete, Labelled
<1>3. flow \in Nat /\ flow > 0 /\ BottleneckTo(parent, residual_graph, u, flow)
  BY DEF CurrentReachable, TypeOK
<1>4. residual_graph[u][v] \in Int /\ residual_graph[u][v] <= IntMax
  BY <1>1, Bounded DEF Initialised
<1>5. /\ Narrowed \in Nat /\ Narrowed > 0
      /\ Narrowed = IF residual_graph[u][v] < flow THEN residual_graph[u][v] ELSE flow
  BY <1>1, <1>3, <1>4 DEF Narrowed
<1>6. /\ parent \in [V -> V \cup {Unvisited, Root, 0}]
      /\ residual_graph \in [V -> [V -> Int]]
  BY DEF TypeOK, GraphsOn, V
<1>7. flow \in Int /\ Narrowed \in Int
  BY <1>3, <1>5
<1>8. BottleneckTo([parent EXCEPT ![v] = u], residual_graph, v, Narrowed)
  BY <1>1, <1>2, <1>3, <1>4, <1>5, <1>6, <1>7, Types, PathExtended
<1> QED
  BY <1>1, <1>2, <1>5, <1>8

(* Labelling a vertex that is not the sink gives it and its queue entry a path. *)
LEMMA ScanDiscoverInv == IInv /\ ScanDiscover => IInv'
<1> SUFFICES ASSUME IInv, ScanDiscover PROVE IInv'
  OBVIOUS
<1> USE DEF IInv, ScanDiscover
<1>1. /\ v \in V /\ u \in V /\ parent[v] = Unvisited /\ parent[source] # Unvisited
      /\ Narrowed \in Nat /\ Narrowed > 0
      /\ BottleneckTo(parent', residual_graph', v, Narrowed)
  BY Discovery
<1>2. /\ q' \in Seq(V \X Nat) /\ Len(q') = Len(q) + 1
      /\ q'[Len(q) + 1] = <<v, Narrowed>>
      /\ \A i \in 1..Len(q) : q'[i] = q[i]
      /\ Len(q) \in Nat
  BY <1>1 DEF TypeOK
<1>3. TypeOK' /\ (graph \in Networks)'
  <2>1. v' \in 1..(size + 1)
    BY NetworkAssumption DEF NetworkAssumption, TypeOK
  <2>2. parent' \in [V -> V \cup {Unvisited, Root, 0}]
    BY <1>1 DEF TypeOK
  <2> QED
    BY <1>2, <2>1, <2>2 DEF TypeOK, PCs
<1>4. ResidualCapacities'
  BY DEF ResidualCapacities, Initialised
<1>5. \A x, f : BottleneckTo(parent, residual_graph, x, f)
                  => BottleneckTo(parent', residual_graph', x, f)
  BY <1>1, PathKept, Types DEF TypeOK
<1>6. QueueReachable'
  <2> SUFFICES ASSUME NEW i \in 1..Len(q')
               PROVE  /\ q'[i][2] > 0
                      /\ BottleneckTo(parent', residual_graph', q'[i][1], q'[i][2])
    BY DEF QueueReachable
  <2>1. CASE i = Len(q) + 1
    BY <1>1, <1>2, <2>1
  <2>2. CASE i # Len(q) + 1
    <3>1. i \in 1..Len(q)
      BY <1>2, <2>2
    <3> QED
      BY <1>2, <1>5, <3>1 DEF QueueReachable, Searching
  <2> QED
    BY <2>1, <2>2
<1>7. CurrentReachable'
  BY <1>5 DEF CurrentReachable
<1>8. SearchComplete'
  <2>1. \A x \in V : Labelled(x)' <=> Labelled(x) \/ x = v
    BY <1>1, Types DEF Labelled, TypeOK
  <2>2. \A x \in V : Queued(x) => Queued(x)'
    BY <1>2 DEF Queued
  <2>3. \A x \in V : x = v => Queued(x)'
    BY <1>2 DEF Queued
  <2>4. \A x \in V : ScannedUpTo(x, size + 1) => ScannedUpTo(x, size + 1)'
    BY <2>1 DEF ScannedUpTo
  <2>5. ScannedUpTo(u, v) => ScannedUpTo(u, v)'
    <3>1. \A y \in V : y < v + 1 => y < v \/ y = v
      BY <1>1, Types
    <3> QED
      BY <2>1, <3>1 DEF ScannedUpTo
  <2>6. Labelled(source)' /\ (source # sink => ~Labelled(sink)')
    BY <2>1, Types DEF SearchComplete
  <2>7. ASSUME NEW x \in V, Labelled(x)'
        PROVE  \/ Queued(x)'
               \/ x = u /\ ScannedUpTo(x, v)'
               \/ ScannedUpTo(x, size + 1)'
    BY <2>1, <2>2, <2>3, <2>4, <2>5, <2>7 DEF SearchComplete
  <2> QED
    BY <2>6, <2>7 DEF SearchComplete
<1>9. Balance'
  BY Quiet DEF Initialised
<1> QED
  BY <1>3, <1>4, <1>6, <1>7, <1>8, <1>9 DEF WalkReachable, ReportedArcs, Reported, weight

(* Meeting the sink gives the walk a path with room for new_flow.          *)
LEMMA ScanReachSinkInv == IInv /\ ScanReachSink => IInv'
<1> SUFFICES ASSUME IInv, ScanReachSink PROVE IInv'
  OBVIOUS
<1> USE DEF IInv, ScanReachSink
<1>1. /\ v \in V /\ u \in V
      /\ Narrowed \in Nat /\ Narrowed > 0
      /\ BottleneckTo(parent', residual_graph', v, Narrowed)
  BY Discovery
<1>2. pc' = "augment"
  BY <1>1
<1>3. TypeOK' /\ (graph \in Networks)'
  <2>1. parent' \in [V -> V \cup {Unvisited, Root, 0}]
    BY <1>1 DEF TypeOK
  <2>2. q' \in Seq(V \X Nat)
    OBVIOUS
  <2>3. new_flow' \in Nat /\ max_flow' \in Nat
    BY <1>1 DEF TypeOK
  <2> QED
    BY <1>2, <2>1, <2>2, <2>3 DEF TypeOK, PCs
<1>4. ResidualCapacities'
  BY DEF ResidualCapacities, Initialised
<1>5. WalkReachable'
  BY <1>1 DEF WalkReachable, BottleneckTo, Reachable
<1>6. v # source /\ v = sink /\ Initialised /\ pc # "augment"
  BY Types DEF Discoverable, SearchComplete, Labelled, Initialised
<1>7. Balance'
  <2>1. ASSUME NEW x \in V \ {sink} PROVE NetOut(x)' = NetOut(x) /\ Owed(x)' = Owed(x)
    <3>1. NetOut(x)' = NetOut(x)
      BY NetOuts
    <3>2. CASE x = source
      <4>1. max_flow' = max_flow + new_flow' /\ max_flow \in Int /\ new_flow' \in Int
        BY <1>1 DEF TypeOK
      <4> QED
        BY <1>2, <1>6, <3>1, <3>2, <4>1 DEF Owed
    <3>3. CASE x # source
      BY <1>2, <1>6, <3>1, <3>3 DEF Owed
    <3> QED
      BY <3>2, <3>3
  <2> QED
    BY <1>2, <1>6, <2>1 DEF Balance, Initialised
<1> QED
  BY <1>1, <1>2, <1>3, <1>4, <1>5, <1>7 DEF QueueReachable, CurrentReachable, Searching,
                                SearchComplete, ReportedArcs, Reported, weight

(* The last arc of the path has room for the flow ...                       *)
LEMMA PathHead ==
  ASSUME NEW par, NEW x \in V \ {source}, NEW f, NEW res, NEW p,
         PathTo(par, res, p, x, f)
  PROVE  /\ Len(p) \in Nat /\ Len(p) > 1 /\ par[x] = p[Len(p) - 1]
         /\ par[x] \in V /\ par[x] # x /\ f <= res[par[x]][x]
<1> DEFINE n == Len(p)
<1>1. /\ n \in Nat /\ n >= 1 /\ p[1] = source /\ p[n] = x
      /\ \A i \in 1..n : p[i] \in V
      /\ \A i \in 1..(n - 1) : f <= res[p[i]][p[i + 1]]
      /\ \A i \in 2..n : par[p[i]] = p[i - 1]
      /\ \A i, j \in 1..n : p[i] = p[j] => i = j
  <2>1. Shape(par, res, p, x, f)
    BY PathShape, Zenon
  <2> QED
    BY <2>1 DEF Shape
<1> HIDE DEF n
<1>2. n > 1
  BY <1>1
<1>3. n \in 2..n /\ n - 1 \in 1..(n - 1) /\ n - 1 \in 1..n /\ n \in 1..n /\ (n - 1) + 1 = n /\ n - 1 # n
  BY <1>1, <1>2
<1>4. par[x] = p[n - 1] /\ p[n - 1] \in V /\ p[n - 1] # x
  BY <1>1, <1>3
<1>5. f <= res[p[n - 1]][p[(n - 1) + 1]]
  BY <1>1, <1>3
<1> QED
  BY <1>1, <1>2, <1>3, <1>4, <1>5 DEF n

(* ... and the walk takes the vertex behind it off the path: the path is    *)
(* simple, so that none of its other arcs is the one that is used up.      *)
LEMMA PathShortened ==
  ASSUME NEW par, NEW x \in V \ {source}, NEW f \in Int,
         NEW res \in [V -> [V -> Int]], NEW new \in [V -> [V -> Int]],
         NEW p, PathTo(par, res, p, x, f),
         \A a, b \in V : (a # par[x] \/ b # x) => res[a][b] <= new[a][b]
  PROVE  PathTo(par, new, SubSeq(p, 1, Len(p) - 1), par[x], f)
<1> DEFINE n == Len(p) - 1  r == SubSeq(p, 1, n)
<1>1. /\ Len(p) \in Nat /\ Len(p) > 1 /\ p[1] = source
      /\ \A i \in 1..Len(p) : p[i] \in V
      /\ \A i \in 1..(Len(p) - 1) : par[p[i + 1]] = p[i] /\ f <= res[p[i]][p[i + 1]]
      /\ \A i, j \in 1..Len(p) : p[i] = p[j] => i = j
      /\ p[Len(p)] = x
  <2>1. Shape(par, res, p, x, f)
    BY PathShape, Zenon
  <2> QED
    BY <2>1, PathHead DEF Shape
<1>2. /\ par[x] = p[n] /\ n \in Nat /\ n >= 1 /\ Len(p) = n + 1
      /\ \A i \in 1..n : i \in 1..Len(p)
  BY <1>1, PathHead
<1>3. r \in Seq(V) /\ Len(r) = n /\ \A i \in 1..n : r[i] = p[i]
  <2>1. /\ n - 1 + 1 = n /\ \A i \in 1..n : 1 + i - 1 = i
    BY <1>2
  <2> HIDE DEF n
  <2> QED
    BY <1>1, <1>2, <2>1, SubSeqProperties
<1> HIDE DEF n, r
<1>4. r # <<>> /\ r[1] = source /\ r[n] = par[x]
  BY <1>1, <1>2, <1>3
<1>5. ASSUME NEW i \in 1..(n - 1)
      PROVE  par[r[i + 1]] = r[i] /\ f <= new[r[i]][r[i + 1]]
  <2>1. i \in 1..n /\ i + 1 \in 1..n /\ i \in 1..(Len(p) - 1) /\ i + 1 # n + 1
        /\ i \in 1..Len(p) /\ i + 1 \in 1..Len(p) /\ n + 1 \in 1..Len(p)
    BY <1>2
  <2>2. /\ par[p[i + 1]] = p[i] /\ f <= res[p[i]][p[i + 1]] /\ p[i + 1] # x
        /\ p[i] \in V /\ p[i + 1] \in V
    BY <1>1, <1>2, <2>1
  <2>3. res[p[i]][p[i + 1]] \in Int /\ new[p[i]][p[i + 1]] \in Int
    BY <2>2
  <2>4. res[p[i]][p[i + 1]] <= new[p[i]][p[i + 1]]
    BY <2>2
  <2>5. f <= new[p[i]][p[i + 1]]
    BY <2>2, <2>3, <2>4
  <2> QED
    BY <1>3, <2>1, <2>2, <2>5
<1>6. \A i, j \in 1..n : r[i] = r[j] => i = j
  BY <1>1, <1>2, <1>3
<1>7. PathTo(par, new, r, par[x], f)
  BY <1>3, <1>4, <1>5, <1>6 DEF PathTo
<1> QED
  BY <1>7 DEF n, r

(* A push leaves a matrix of integers. *)
LEMMA PushedMatrix ==
  ASSUME NEW r \in [V -> [V -> Int]], NEW a \in V, NEW b \in V, a # b, NEW f \in Int,
         NEW n, n = [r EXCEPT ![a][b] = @ - f, ![b][a] = @ + f]
  PROVE  n \in [V -> [V -> Int]]
<1> DEFINE m == [r EXCEPT ![a][b] = @ - f]
<1>1. n = [m EXCEPT ![b][a] = @ + f]
  OBVIOUS
<1>2. m \in [V -> [V -> Int]]
  OBVIOUS
<1> HIDE DEF m
<1>3. [m[b] EXCEPT ![a] = @ + f] \in [V -> Int]
  <2>1. m[b] \in [V -> Int]
    BY <1>2
  <2>2. m[b][a] + f \in Int
    BY <2>1
  <2> QED
    BY <2>1, <2>2
<1>4. n = [m EXCEPT ![b] = [m[b] EXCEPT ![a] = @ + f]]
  BY <1>1
<1> QED
  BY <1>2, <1>3, <1>4

(* One push of the walk takes one arc off the path that is still to be pushed. *)
LEMMA PushInv == IInv /\ Push => IInv'
<1> SUFFICES ASSUME IInv, Push PROVE IInv'
  OBVIOUS
<1> DEFINE p == parent[v]
<1>0. PICK path : PathTo(parent, residual_graph, path, v, new_flow)
  BY DEF IInv, Push, WalkReachable, Reachable
<1>1. /\ v \in V \ {source}
      /\ new_flow \in Int /\ new_flow >= 0
  BY DEF IInv, Push, WalkReachable, TypeOK
<1>2. residual_graph \in [V -> [V -> Int]]
  BY DEF IInv, TypeOK, GraphsOn, V
<1>3. p \in V /\ p # v /\ new_flow <= residual_graph[p][v]
  BY <1>0, <1>1, PathHead
<1> HIDE DEF p
<1>4. residual_graph' = [residual_graph EXCEPT ![p][v] = @ - new_flow,
                                               ![v][p] = @ + new_flow]
  BY DEF Push, p
<1>5. /\ residual_graph' \in [V -> [V -> Int]]
      /\ residual_graph'[p][v] = residual_graph[p][v] - new_flow
      /\ residual_graph'[v][p] = residual_graph[v][p] + new_flow
      /\ \A a, b \in V : (a # p \/ b # v) /\ (a # v \/ b # p)
                         => residual_graph'[a][b] = residual_graph[a][b]
  <2>1. residual_graph' \in [V -> [V -> Int]]
    BY <1>1, <1>2, <1>3, <1>4, PushedMatrix
  <2>2. /\ residual_graph'[p][v] = residual_graph[p][v] - new_flow
        /\ residual_graph'[v][p] = residual_graph[v][p] + new_flow
    BY <1>1, <1>2, <1>3, <1>4
  <2>3. \A a, b \in V : (a # p \/ b # v) /\ (a # v \/ b # p)
                        => residual_graph'[a][b] = residual_graph[a][b]
    BY <1>1, <1>2, <1>3, <1>4
  <2> QED
    BY <2>1, <2>2, <2>3
<1>6. TypeOK' /\ (graph \in Networks)'
  <2>1. v' \in 1..(size + 1)
    BY <1>3, NetworkAssumption DEF NetworkAssumption, V, Push, p
  <2>2. residual_graph' \in GraphsOn(size, Int)
    BY <1>5 DEF GraphsOn, V
  <2> QED
    BY <2>1, <2>2 DEF IInv, Push, TypeOK, PCs
<1>7. ResidualCapacities'
  <2> SUFFICES ASSUME NEW a \in V, NEW b \in V
               PROVE  /\ residual_graph'[a][b] >= 0
                      /\ residual_graph'[a][b] + residual_graph'[b][a]
                           = graph[a][b] + graph[b][a]
    BY DEF ResidualCapacities, Initialised, IInv, Push
  <2>1. /\ residual_graph[a][b] >= 0 /\ residual_graph[b][a] >= 0
        /\ residual_graph[a][b] + residual_graph[b][a] = graph[a][b] + graph[b][a]
        /\ residual_graph[a][b] \in Int /\ residual_graph[b][a] \in Int
    BY <1>2 DEF IInv, Push, ResidualCapacities, Initialised
  <2>2. CASE a = p /\ b = v
    BY <1>1, <1>3, <1>5, <2>1, <2>2
  <2>3. CASE a = v /\ b = p
    BY <1>1, <1>3, <1>5, <2>1, <2>3
  <2>4. CASE (a # p \/ b # v) /\ (a # v \/ b # p)
    BY <1>5, <2>1, <2>4
  <2> QED
    BY <2>2, <2>3, <2>4
<1>8. WalkReachable'
  <2>1. \A a, b \in V : (a # p \/ b # v) => residual_graph[a][b] <= residual_graph'[a][b]
    <3> SUFFICES ASSUME NEW a \in V, NEW b \in V, a # p \/ b # v
                 PROVE  residual_graph[a][b] <= residual_graph'[a][b]
      OBVIOUS
    <3>1. residual_graph[a][b] \in Int
      BY <1>2
    <3> QED
      BY <1>1, <1>5, <3>1
  <2> DEFINE r == SubSeq(path, 1, Len(path) - 1)
  <2>2. PathTo(parent, residual_graph', r, p, new_flow)
    BY <1>0, <1>1, <1>2, <1>5, <2>1, PathShortened DEF p
  <2> QED
    BY <1>3, <2>2 DEF WalkReachable, Reachable, PathTo, Push, p
<1>9. Balance'
  <2>1. ASSUME NEW x \in V
        PROVE  NetOut(x)' = NetOut(x) + (IF x = p THEN new_flow ELSE 0)
                                      - (IF x = v THEN new_flow ELSE 0)
    <3> DEFINE h == [y \in V |-> graph[x][y] - residual_graph[x][y]]
               k == [y \in V |-> graph[x][y] - residual_graph'[x][y]]
    <3>1. graph' = graph
      BY DEF Push
    <3>2. NetOut(x) = SumFunctionOnSet(h, V) /\ NetOut(x)' = SumFunctionOnSet(k, V)
      BY <3>1, NetOuts DEF Out
    <3>3. /\ \A y \in V : h[y] \in Int /\ k[y] \in Int
          /\ x = p => k[v] = h[v] + new_flow /\ \A y \in V \ {v} : k[y] = h[y]
          /\ x = v => k[p] = h[p] - new_flow /\ \A y \in V \ {p} : k[y] = h[y]
          /\ x \notin {p, v} => \A y \in V : k[y] = h[y]
      <4>1. \A y \in V : graph[x][y] \in Int /\ residual_graph[x][y] \in Int
                          /\ residual_graph'[x][y] \in Int
        BY <1>2, <1>5, Types DEF IInv
      <4> QED
        BY <1>1, <1>3, <1>5, <4>1
    <3> HIDE DEF h, k
    <3>4. SumFunctionOnSet(h, V) \in Int
      BY <3>3, FiniteV, SumInt
    <3>5. CASE x = p
      <4>1. SumFunctionOnSet(k, V) = SumFunctionOnSet(h, V) + (k[v] - h[v])
        BY <1>1, <3>3, <3>5, FiniteV, SumChanged
      <4> QED
        BY <1>1, <1>3, <3>2, <3>3, <3>4, <3>5, <4>1
    <3>6. CASE x = v
      <4>1. SumFunctionOnSet(k, V) = SumFunctionOnSet(h, V) + (k[p] - h[p])
        BY <1>3, <3>3, <3>6, FiniteV, SumChanged
      <4> QED
        BY <1>1, <1>3, <3>2, <3>3, <3>4, <3>6, <4>1
    <3>7. CASE x \notin {p, v}
      <4>1. SumFunctionOnSet(k, V) = SumFunctionOnSet(h, V)
        BY <3>3, <3>7, FiniteV, SumAgree
      <4> QED
        BY <3>2, <3>4, <3>7, <4>1
    <3> QED
      BY <3>5, <3>6, <3>7
  <2>2. pc = "augment" /\ pc' = pc /\ v' = p /\ max_flow' = max_flow /\ new_flow' = new_flow
        /\ graph' = graph /\ Initialised /\ Initialised' /\ max_flow \in Int
    BY DEF Push, Initialised, IInv, TypeOK, p
  <2>3. ASSUME NEW x \in V \ {sink} PROVE NetOut(x)' = Owed(x)'
    <3>1. NetOut(x) = Owed(x)
      BY <2>2 DEF IInv, Balance
    <3>2. Owed(x)' = Owed(x) + (IF x = p THEN new_flow ELSE 0) - (IF x = v THEN new_flow ELSE 0)
      BY <1>1, <1>3, <2>2 DEF Owed
    <3> QED
      BY <2>1, <3>1, <3>2
  <2> QED
    BY <2>2, <2>3 DEF Balance, IInv
<1> QED
  BY <1>6, <1>7, <1>8, <1>9 DEF Reported, IInv, Push, QueueReachable, CurrentReachable, Searching, SearchComplete,
                          ReportedArcs, weight

(* The walk ends at the source, and the next search starts afresh.         *)
LEMMA WalkEndInv == IInv /\ WalkEnd => IInv'
<1> SUFFICES ASSUME IInv, WalkEnd PROVE IInv'
  OBVIOUS
<1> USE DEF IInv, WalkEnd
<1>1. TypeOK' /\ (graph \in Networks)'
  BY DEF TypeOK, PCs
<1>2. ResidualCapacities'
  BY DEF ResidualCapacities, Initialised
<1>3. Balance'
  BY Quiet DEF Initialised
<1> QED
  BY <1>1, <1>2, <1>3 DEF QueueReachable, CurrentReachable, Searching, WalkReachable,
                          SearchComplete, ReportedArcs, Reported, weight

(* Collecting the flow keeps the cut, and reports what residual capacities lost. *)
LEMMA CollectInv == IInv /\ Collect => IInv'
<1> SUFFICES ASSUME IInv, Collect PROVE IInv'
  OBVIOUS
<1> USE DEF IInv, Collect
<1>1. \A a, b \in V : weight(graph, a, b) \in Nat /\ NetFlow(a, b) \in Int
                      /\ NetFlow(a, b) <= weight(graph, a, b)
  BY Types DEF weight, NetFlow, ResidualCapacities, Initialised
<1>2. \A e \in flow_edges' :
        /\ e \in V \X V \X Nat
        /\ e[3] \in 1..weight(graph, e[1], e[2])
  <2> SUFFICES ASSUME NEW a \in V, NEW b \in V, NetFlow(a, b) > 0
               PROVE  NetFlow(a, b) \in Nat /\ NetFlow(a, b) \in 1..weight(graph, a, b)
    OBVIOUS
  <2> QED
    BY <1>1
<1>3. TypeOK' /\ (graph \in Networks)'
  BY <1>2 DEF TypeOK, PCs
<1>4. ResidualCapacities'
  BY DEF ResidualCapacities, Initialised
<1>5. ReportedArcs'
  BY <1>2 DEF ReportedArcs, weight
<1>6. SearchComplete'
  BY DEF SearchComplete, Labelled, Queued, ScannedUpTo
<1>7. Balance'
  BY Quiet DEF Initialised
<1>8. Reported'
  BY Zenon DEF Reported, Lines, NetFlow, weight
<1> QED
  BY <1>3, <1>4, <1>5, <1>6, <1>7, <1>8
     DEF QueueReachable, CurrentReachable, Searching, WalkReachable

(* A step that changes nothing keeps the invariant.                        *)
LEMMA StutterInv == IInv /\ UNCHANGED vars => IInv'
<1> SUFFICES ASSUME IInv, UNCHANGED vars PROVE IInv'
  OBVIOUS
<1>1. Balance'
  <2>1. \A x : NetOut(x)' = NetOut(x) /\ Owed(x)' = Owed(x)
    BY NetOuts DEF Owed, vars
  <2> QED
    BY <2>1 DEF IInv, Balance, Initialised, vars
<1> QED
  BY <1>1 DEF IInv, vars, TypeOK, ResidualCapacities, Initialised, QueueReachable,
       CurrentReachable, Searching, WalkReachable, SearchComplete, Labelled, Queued,
       ScannedUpTo, ReportedArcs, Reported, weight

-----------------------------------------------------------------------------
(* The conservation of flow. *)

LEMMA Capacities ==
  ASSUME graph \in Networks, NEW S \in SUBSET V
  PROVE  /\ Capacity(S) = SumFunctionOnSet(RowSums(graph, S, V \ S), S)
         /\ \A x \in S : RowSums(graph, S, V \ S)[x] \in Int
<1>1. IsFiniteSet(V) /\ IsFiniteSet(S) /\ IsFiniteSet(V \ S)
  BY FiniteV, FS_Subset
<1> DEFINE row(x) == [y \in V \ S |-> weight(graph, x, y)]
           cap == [x \in S |-> SumFunction(row(x))]
           rows == RowSums(graph, S, V \ S)
<1>2. ASSUME NEW x \in S
      PROVE  /\ SumFunction(row(x)) = SumFunctionOnSet(graph[x], V \ S)
             /\ SumFunctionOnSet(graph[x], V \ S) \in Int
  <2> DEFINE r == row(x)  g == graph[x]
  <2>1. DOMAIN r = V \ S /\ \A y \in V \ S : g[y] \in Int /\ r[y] = g[y]
    BY NetworkCapacities DEF weight
  <2> HIDE DEF r, g
  <2>2. SumFunctionOnSet(r, V \ S) = SumFunctionOnSet(g, V \ S)
    BY <1>1, <2>1, SumAgree
  <2>3. SumFunctionOnSet(g, V \ S) \in Int
    BY <1>1, <2>1, SumInt
  <2>4. SumFunction(r) = SumFunctionOnSet(r, V \ S)
    BY <2>1, Zenon DEF SumFunction
  <2> QED
    BY <2>2, <2>3, <2>4 DEF r, g
<1> HIDE DEF row
<1>3. \A x \in S : rows[x] = SumFunctionOnSet(graph[x], V \ S) /\ rows[x] \in Int
  BY <1>2 DEF RowSums
<1>4. DOMAIN cap = S /\ \A x \in S : cap[x] = rows[x]
  BY <1>2, <1>3
<1>5. Capacity(S) = SumFunction(cap)
  BY Zenon DEF Capacity, row
<1> HIDE DEF cap, rows
<1>6. SumFunction(cap) = SumFunctionOnSet(cap, S)
  BY <1>4, Zenon DEF SumFunction
<1>7. SumFunctionOnSet(cap, S) = SumFunctionOnSet(rows, S)
  BY <1>1, <1>3, <1>4, SumAgree
<1> QED
  BY <1>3, <1>5, <1>6, <1>7 DEF rows

(* A flow within the capacities of g: what goes from a to b is what comes  *)
(* from b to a, taken negative, and nothing is lost but at source and sink. *)
IsFlow(g, f) ==
  /\ f \in [V -> [V -> Int]]
  /\ \A a, b \in V : f[b][a] = -f[a][b] /\ f[a][b] <= g[a][b]
  /\ \A x \in V \ {source, sink} : SumFunctionOnSet(f[x], V) = 0

ValueOf(f) == SumFunctionOnSet(f[source], V)

(* What a flow sends out of the source crosses every cut.                  *)
LEMMA FlowAcross ==
  ASSUME NEW g, NEW f, IsFlow(g, f), NEW A \in Cuts
  PROVE  /\ ValueOf(f) = SumFunctionOnSet(RowSums(f, A, V \ A), A)
         /\ \A x \in A : RowSums(f, A, V \ A)[x] \in Int
<1> DEFINE all == RowSums(f, V, V)
           inner == RowSums(f, A, A)
           outer == RowSums(f, A, V \ A)
           rest == A \ {source}
<1>1. /\ IsFiniteSet(V) /\ IsFiniteSet(A) /\ IsFiniteSet(V \ A) /\ IsFiniteSet(rest)
      /\ A \subseteq V /\ source \in A /\ sink \notin A
  BY FiniteV, FS_Subset DEF Cuts
<1>2. \A x, y \in V : f[x][y] \in Int /\ f[y][x] = -f[x][y]
  BY DEF IsFlow
<1>3. ASSUME NEW x \in A
      PROVE  /\ all[x] = SumFunctionOnSet(f[x], V) /\ all[x] \in Int
             /\ inner[x] \in Int /\ outer[x] \in Int
             /\ all[x] = inner[x] + outer[x]
  <2> DEFINE h == f[x]
  <2>1. x \in V /\ \A y \in V : h[y] \in Int
    BY <1>1, <1>2
  <2>2. /\ all[x] = SumFunctionOnSet(h, V)
        /\ inner[x] = SumFunctionOnSet(h, A)
        /\ outer[x] = SumFunctionOnSet(h, V \ A)
    BY <2>1 DEF RowSums
  <2> HIDE DEF h, all, inner, outer
  <2>3. SumFunctionOnSet(h, A) \in Int /\ SumFunctionOnSet(h, V \ A) \in Int
    BY <1>1, <2>1, SumInt
  <2>4. SumFunctionOnSet(h, V) = SumFunctionOnSet(h, A) + SumFunctionOnSet(h, V \ A)
    BY <1>1, <2>1, SumSplit
  <2> QED
    BY <2>2, <2>3, <2>4 DEF h
<1> HIDE DEF all, outer
<1>4. SumFunctionOnSet(inner, A) = 0
  BY <1>1, <1>2, SumAntisymmetric
<1> HIDE DEF inner
<1>5. SumFunctionOnSet(all, A) = SumFunctionOnSet(inner, A) + SumFunctionOnSet(outer, A)
  BY <1>1, <1>3, SumPlus
<1>6. SumFunctionOnSet(outer, A) \in Int
  BY <1>1, <1>3, SumInt
<1>7. SumFunctionOnSet(all, A) = all[source] + SumFunctionOnSet(all, rest)
  BY <1>1, <1>3, SumPick
<1>8. \A x \in rest : all[x] = 0
  BY <1>1, <1>3 DEF IsFlow
<1>9. SumFunctionOnSet(all, rest) = 0
  <2> HIDE DEF rest
  <2> QED
    BY <1>1, <1>8, SumZero
<1>10. all[source] = ValueOf(f) /\ all[source] \in Int
  BY <1>1, <1>3 DEF ValueOf
<1>11. ValueOf(f) = SumFunctionOnSet(outer, A)
  BY <1>4, <1>5, <1>6, <1>7, <1>9, <1>10
<1> QED
  BY <1>3, <1>11, Zenon DEF outer

(* No flow exceeds a cut, and one that fills a cut is as large as the cut. *)
LEMMA FlowWithinCut ==
  ASSUME graph \in Networks, NEW f, IsFlow(graph, f), NEW A \in Cuts
  PROVE  /\ ValueOf(f) <= Capacity(A)
         /\ (\A x \in A, y \in V \ A : f[x][y] = graph[x][y]) => ValueOf(f) = Capacity(A)
<1> DEFINE flows == RowSums(f, A, V \ A)
           caps == RowSums(graph, A, V \ A)
<1>1. /\ IsFiniteSet(V) /\ IsFiniteSet(A) /\ IsFiniteSet(V \ A) /\ A \in SUBSET V
  BY FiniteV, FS_Subset DEF Cuts
<1>2. ValueOf(f) = SumFunctionOnSet(flows, A) /\ \A x \in A : flows[x] \in Int
  BY FlowAcross
<1>3. Capacity(A) = SumFunctionOnSet(caps, A) /\ \A x \in A : caps[x] \in Int
  BY <1>1, Capacities
<1>4. \A x, y \in V : f[x][y] \in Int /\ graph[x][y] \in Int /\ f[x][y] <= graph[x][y]
  BY NetworkCapacities DEF IsFlow
<1>5. ASSUME NEW x \in A
      PROVE  /\ flows[x] <= caps[x]
             /\ (\A y \in V \ A : f[x][y] = graph[x][y]) => flows[x] = caps[x]
  <2> DEFINE h == f[x]  k == graph[x]
  <2>1. \A y \in V \ A : h[y] \in Int /\ k[y] \in Int /\ h[y] <= k[y]
    BY <1>1, <1>4
  <2>2. flows[x] = SumFunctionOnSet(h, V \ A) /\ caps[x] = SumFunctionOnSet(k, V \ A)
    BY DEF RowSums
  <2> HIDE DEF h, k, flows, caps
  <2>3. SumFunctionOnSet(h, V \ A) <= SumFunctionOnSet(k, V \ A)
    BY <1>1, <2>1, SumAtMost
  <2>4. (\A y \in V \ A : h[y] = k[y]) => SumFunctionOnSet(h, V \ A) = SumFunctionOnSet(k, V \ A)
    BY <1>1, <2>1, SumAgree
  <2> QED
    BY <2>2, <2>3, <2>4 DEF h, k
<1> HIDE DEF flows, caps
<1>6. SumFunctionOnSet(flows, A) <= SumFunctionOnSet(caps, A)
  BY <1>1, <1>2, <1>3, <1>5, SumAtMost
<1>7. ASSUME \A x \in A, y \in V \ A : f[x][y] = graph[x][y]
      PROVE  ValueOf(f) = Capacity(A)
  <2>1. \A x \in A : flows[x] = caps[x]
    BY <1>5, <1>7
  <2>2. SumFunctionOnSet(flows, A) = SumFunctionOnSet(caps, A)
    BY <1>1, <1>3, <2>1, SumAgree
  <2> QED
    BY <1>2, <1>3, <2>2
<1> QED
  BY <1>2, <1>3, <1>6, <1>7

(* The flow that the residual network stands for. *)
NetFlows == [x \in V |-> [y \in V |-> graph[x][y] - residual_graph[x][y]]]

LEMMA NetFlowShape ==
  ASSUME IInv, Initialised
  PROVE  /\ NetFlows \in [V -> [V -> Int]]
         /\ \A a, b \in V : /\ NetFlows[b][a] = -NetFlows[a][b]
                            /\ NetFlows[a][b] = graph[a][b] - residual_graph[a][b]
                            /\ NetFlows[a][b] <= graph[a][b]
         /\ \A x \in V : NetOut(x) = SumFunctionOnSet(NetFlows[x], V)
<1>1. \A a, b \in V : graph[a][b] \in Int /\ residual_graph[a][b] \in Int
  BY Types DEF IInv
<1>2. NetFlows \in [V -> [V -> Int]]
  BY <1>1 DEF NetFlows
<1>3. ASSUME NEW a \in V, NEW b \in V
      PROVE  /\ NetFlows[b][a] = -NetFlows[a][b]
             /\ NetFlows[a][b] = graph[a][b] - residual_graph[a][b]
             /\ NetFlows[a][b] <= graph[a][b]
  <2>1. /\ NetFlows[a][b] = graph[a][b] - residual_graph[a][b]
        /\ NetFlows[b][a] = graph[b][a] - residual_graph[b][a]
    BY DEF NetFlows
  <2>2. /\ residual_graph[a][b] >= 0
        /\ residual_graph[a][b] + residual_graph[b][a] = graph[a][b] + graph[b][a]
    BY DEF IInv, ResidualCapacities
  <2>3. /\ graph[a][b] \in Int /\ residual_graph[a][b] \in Int
        /\ graph[b][a] \in Int /\ residual_graph[b][a] \in Int
    BY <1>1
  <2> QED
    BY <2>1, <2>2, <2>3
<1>4. ASSUME NEW x \in V
      PROVE  NetOut(x) = SumFunctionOnSet(NetFlows[x], V)
  BY NetOuts DEF NetFlows, Out
<1> QED
  BY <1>2, <1>3, <1>4

(* Between the walks it is a flow, of the value that is booked.            *)
LEMMA NetFlowIsFlow ==
  ASSUME IInv, Initialised, pc # "augment"
  PROVE  /\ IsFlow(graph, NetFlows)
         /\ source # sink => ValueOf(NetFlows) = max_flow
<1>1. \A x \in V \ {sink} : NetOut(x) = IF x = source THEN max_flow ELSE 0
  BY DEF IInv, TypeOK, Balance, Owed
<1> QED
  BY <1>1, NetFlowShape, Types DEF IsFlow, ValueOf, IInv

(* What is booked never exceeds what the source's arcs can carry: during   *)
(* the walk the first arc of its path still has room for new_flow.         *)
LEMMA SourceBound ==
  ASSUME IInv
  PROVE  max_flow <= Capacity({source})
<1> DEFINE A == {source}  W == V \ {source}  g == graph[source]
<1>1. /\ source \in V /\ A \in SUBSET V /\ IsFiniteSet(V) /\ IsFiniteSet(A)
      /\ W = V \ A /\ IsFiniteSet(W)
  BY FiniteV, FS_Subset, Types DEF IInv
<1>2. \A y \in V : g[y] \in Nat
  BY <1>1, Types DEF IInv
<1>3. Capacity(A) = SumFunctionOnSet(g, W) /\ SumFunctionOnSet(g, W) \in Int
  <2> DEFINE r == RowSums(graph, A, V \ A)
  <2>1. Capacity(A) = SumFunctionOnSet(r, A) /\ \A x \in A : r[x] \in Int
    BY <1>1, Capacities DEF IInv
  <2>2. source \in A /\ A \ {source} = {} /\ r[source] = SumFunctionOnSet(g, W)
    BY DEF RowSums
  <2> HIDE DEF r, g, A, W
  <2>3. SumFunctionOnSet(r, A) = r[source] + SumFunctionOnSet(r, A \ {source})
    BY <1>1, <2>1, <2>2, SumPick
  <2>4. SumFunctionOnSet(r, {}) = 0
    BY SumEmpty
  <2>5. r[source] \in Int
    BY <2>1, <2>2
  <2> QED
    BY <2>1, <2>2, <2>3, <2>4, <2>5
<1>4. SumFunctionOnSet(g, W) >= 0
  <2> DEFINE z == [y \in W |-> 0]
  <2>1. \A y \in W : z[y] = 0
    OBVIOUS
  <2>2. \A y \in W : z[y] \in Int /\ g[y] \in Int /\ z[y] <= g[y]
    BY <1>2
  <2> HIDE DEF z, g, W
  <2>3. SumFunctionOnSet(z, W) = 0 /\ SumFunctionOnSet(z, W) <= SumFunctionOnSet(g, W)
    BY <1>1, <2>1, <2>2, SumZero, SumAtMost
  <2> QED
    BY <1>3, <2>3
<1>5. max_flow \in Int /\ new_flow \in Int
  BY DEF IInv, TypeOK
<1>6. CASE ~Initialised \/ source = sink
  BY <1>3, <1>4, <1>6 DEF IInv, Balance
<1>7. CASE Initialised /\ source # sink
  <2> DEFINE h == NetFlows[source]
  <2>1. /\ NetOut(source) = SumFunctionOnSet(h, V) /\ NetOut(source) = Owed(source)
        /\ \A y \in V : h[y] \in Int /\ h[y] <= g[y] /\ h[y] = g[y] - residual_graph[source][y]
        /\ h[source] = -h[source]
    BY <1>1, <1>7, NetFlowShape DEF IInv, Balance
  <2> HIDE DEF h, g, W
  <2>2. SumFunctionOnSet(h, V) = h[source] + SumFunctionOnSet(h, W)
    BY <1>1, <2>1, SumPick DEF W
  <2>3. SumFunctionOnSet(h, W) = Owed(source) /\ SumFunctionOnSet(h, W) \in Int
    <3>1. W \subseteq V
      BY DEF W
    <3>2. SumFunctionOnSet(h, W) \in Int
      BY <1>1, <2>1, <3>1, SumInt
    <3>3. h[source] = 0
      BY <1>1, <2>1
    <3> QED
      BY <2>1, <2>2, <3>2, <3>3
  <2>4. CASE pc # "augment" \/ v = source
    <3>1. Owed(source) = max_flow
      BY <1>5, <2>4 DEF Owed
    <3>2. \A y \in W : h[y] \in Int /\ g[y] \in Int /\ h[y] <= g[y]
      BY <1>2, <2>1 DEF W
    <3>3. SumFunctionOnSet(h, W) <= SumFunctionOnSet(g, W)
      BY <1>1, <3>2, SumAtMost
    <3> QED
      BY <1>3, <2>3, <3>1, <3>3
  <2>5. CASE pc = "augment" /\ v # source
    <3>1. Owed(source) = max_flow - new_flow
      BY <1>5, <2>5 DEF Owed
    <3>2. PICK p : PathTo(parent, residual_graph, p, v, new_flow)
      BY <2>5 DEF IInv, WalkReachable, Reachable
    <3>3. Shape(parent, residual_graph, p, v, new_flow)
      BY <3>2, PathShape, Zenon
    <3>4. Len(p) \in Nat /\ Len(p) > 1
      BY <2>5, <3>3 DEF Shape
    <3>5. 1 \in 1..(Len(p) - 1) /\ 1 + 1 = 2 /\ 1 \in 1..Len(p) /\ 2 \in 1..Len(p)
      BY <3>4
    <3> DEFINE y == p[2]
    <3>6. y \in W /\ new_flow <= residual_graph[source][y]
      BY <3>3, <3>5 DEF Shape, W
    <3> HIDE DEF y
    <3> DEFINE k == [h EXCEPT ![y] = @ + new_flow]
    <3>7. h \in [V -> Int] /\ W \subseteq V
      BY <1>1, <1>7, NetFlowShape DEF W, h
    <3>8. k[y] = h[y] + new_flow /\ \A x \in W \ {y} : k[x] = h[x]
      BY <3>6, <3>7
    <3> HIDE DEF k
    <3>9. /\ h[y] \in Int /\ k[y] \in Int /\ k[y] <= g[y]
          /\ \A x \in W : k[x] \in Int /\ h[x] \in Int /\ g[x] \in Int /\ k[x] <= g[x]
      <4>1. \A x \in W : h[x] \in Int /\ g[x] \in Int /\ h[x] <= g[x]
        BY <1>2, <2>1, <3>7
      <4>2. h[y] = g[y] - residual_graph[source][y] /\ residual_graph[source][y] \in Int
        BY <1>1, <2>1, <3>6, <3>7, Types DEF IInv
      <4>3. k[y] \in Int /\ k[y] <= g[y]
        BY <1>5, <3>6, <3>8, <4>1, <4>2
      <4> QED
        BY <3>6, <3>8, <4>1, <4>3
    <3>10. SumFunctionOnSet(k, W) = SumFunctionOnSet(h, W) + (k[y] - h[y])
      BY <1>1, <3>6, <3>8, <3>9, SumChanged, SMTT(40)
    <3>11. SumFunctionOnSet(k, W) <= SumFunctionOnSet(g, W)
      BY <1>1, <3>9, SumAtMost
    <3>12. k[y] - h[y] = new_flow
      BY <1>5, <3>8, <3>9
    <3> QED
      BY <1>3, <1>5, <2>3, <3>1, <3>10, <3>11, <3>12
  <2> QED
    BY <2>4, <2>5
<1> QED
  BY <1>6, <1>7

(* What the printed lines say about a pair is its net flow, if positive.   *)
LEMMA ShippedIsNetFlow ==
  ASSUME IInv, pc = "done", NEW a \in V, NEW b \in V
  PROVE  Shipped(a, b) = IF NetFlows[a][b] > 0 THEN NetFlows[a][b] ELSE 0
<1> DEFINE E == { e \in flow_edges : e[1] = a /\ e[2] = b }
           h == [e \in E |-> e[3]]
           n == NetFlows[a][b]
<1>1. n \in Int /\ n = graph[a][b] - residual_graph[a][b] /\ n <= graph[a][b]
      /\ graph[a][b] \in Int
  BY NetFlowShape, Types DEF Initialised, IInv
<1>2. flow_edges = Lines(graph, residual_graph)
  BY DEF IInv, Reported
<1>3. E = IF n > 0 THEN {<<a, b, n>>} ELSE {}
  <2>1. ASSUME NEW e \in E PROVE e = <<a, b, n>> /\ n > 0
    BY <1>1, <1>2 DEF Lines
  <2>2. n > 0 => <<a, b, n>> \in E
    <3> SUFFICES ASSUME n > 0 PROVE <<a, b, n>> \in Lines(graph, residual_graph)
      BY <1>2
    <3>1. /\ <<a, b>> \in V \X V
          /\ graph[<<a, b>>[1]][<<a, b>>[2]] > 0
          /\ graph[<<a, b>>[1]][<<a, b>>[2]] - residual_graph[<<a, b>>[1]][<<a, b>>[2]] > 0
      BY <1>1
    <3> QED
      BY <1>1, <3>1 DEF Lines
  <2> QED
    BY <2>1, <2>2
<1>4. Shipped(a, b) = SumFunction(h)
  BY Zenon DEF Shipped
<1>5. DOMAIN h = E /\ \A e \in E : h[e] = e[3]
  OBVIOUS
<1> HIDE DEF h, E, n
<1>6. SumFunction(h) = SumFunctionOnSet(h, E)
  BY <1>5, Zenon DEF SumFunction
<1>7. CASE n > 0
  <2> DEFINE e == <<a, b, n>>
  <2>1. E = {e} /\ h[e] = n /\ e \in E /\ E \ {e} = {}
    BY <1>3, <1>5, <1>7
  <2> HIDE DEF e
  <2>2. IsFiniteSet(E)
    BY <2>1, FS_Singleton
  <2>3. SumFunctionOnSet(h, E) = h[e] + SumFunctionOnSet(h, E \ {e})
    BY <1>1, <2>1, <2>2, SumPick
  <2>4. SumFunctionOnSet(h, {}) = 0
    BY SumEmpty
  <2> QED
    BY <1>1, <1>4, <1>6, <1>7, <2>1, <2>3, <2>4 DEF n
<1>8. CASE ~(n > 0)
  BY <1>3, <1>4, <1>6, <1>8, SumEmpty DEF n
<1> QED
  BY <1>7, <1>8

LEMMA ShippedOutIsNetOut ==
  ASSUME IInv, pc = "done", NEW x \in V
  PROVE  ShippedOut(x) = NetOut(x)
<1> DEFINE h == [y \in V |-> Shipped(x, y) - Shipped(y, x)]  f == NetFlows[x]
<1>1. ASSUME NEW y \in V
      PROVE  h[y] = f[y] /\ f[y] \in Int
  <2>1. /\ Shipped(x, y) = IF NetFlows[x][y] > 0 THEN NetFlows[x][y] ELSE 0
        /\ Shipped(y, x) = IF NetFlows[y][x] > 0 THEN NetFlows[y][x] ELSE 0
    BY ShippedIsNetFlow
  <2>2. NetFlows[y][x] = -NetFlows[x][y] /\ NetFlows[x][y] \in Int
    BY NetFlowShape DEF Initialised
  <2> QED
    BY <2>1, <2>2
<1>2. DOMAIN h = V /\ ShippedOut(x) = SumFunction(h)
  BY Zenon DEF ShippedOut
<1>3. NetOut(x) = SumFunctionOnSet(f, V)
  BY NetFlowShape DEF Initialised
<1> HIDE DEF h, f
<1>4. SumFunction(h) = SumFunctionOnSet(h, V)
  BY <1>2, Zenon DEF SumFunction
<1>5. SumFunctionOnSet(h, V) = SumFunctionOnSet(f, V)
  BY <1>1, FiniteV, SumAgree
<1> QED
  BY <1>2, <1>3, <1>4, <1>5

(* When bfs has failed, what it labelled is a saturated cut. *)
LEMMA SaturatedLabels == IInv => SaturatedCut
<1> SUFFICES ASSUME IInv, pc \in {"collect", "done"}, source # sink
             PROVE  /\ Labelled(source) /\ ~Labelled(sink)
                    /\ \A a, b \in V : Labelled(a) /\ ~Labelled(b)
                                       => residual_graph[a][b] = 0
  BY DEF SaturatedCut, Labelled
<1>1. \A a \in V : Labelled(a) => ScannedUpTo(a, size + 1)
  BY DEF IInv, SearchComplete, Queued
<1>2. \A b \in V : b < size + 1
  BY NetworkAssumption DEF NetworkAssumption, V
<1> QED
  BY <1>1, <1>2 DEF IInv, SearchComplete, ScannedUpTo

-----------------------------------------------------------------------------
(* In every reachable state of the program the inductive invariant holds.  *)
THEOREM Invariance == Spec => []IInv
<1>1. IInv /\ [Next]_vars => IInv'
  <2> SUFFICES ASSUME IInv, [Next]_vars PROVE IInv'
    OBVIOUS
  <2>1. CASE Start
    BY <2>1, StartInv
  <2>2. CASE BfsCall
    BY <2>2, BfsCallInv
  <2>3. CASE Pop
    BY <2>3, PopInv
  <2>4. CASE BfsFails
    BY <2>4, BfsFailsInv
  <2>5. CASE ScanSkip
    BY <2>5, ScanSkipInv
  <2>6. CASE ScanDiscover
    BY <2>6, ScanDiscoverInv
  <2>7. CASE ScanReachSink
    BY <2>7, ScanReachSinkInv
  <2>8. CASE ScanEnd
    BY <2>8, ScanEndInv
  <2>9. CASE Push
    BY <2>9, PushInv
  <2>10. CASE WalkEnd
    BY <2>10, WalkEndInv
  <2>11. CASE Collect
    BY <2>11, CollectInv
  <2>12. CASE UNCHANGED vars
    BY <2>12, StutterInv
  <2> QED
    BY <2>1, <2>2, <2>3, <2>4, <2>5, <2>6, <2>7, <2>8, <2>9, <2>10, <2>11, <2>12
       DEF Next, Terminated
<1> QED
  BY InitInv, <1>1, PTL DEF Spec

(* The types; in particular no iteration of the walk takes parent of a     *)
(* vertex that bfs has not labelled.                                       *)
THEOREM TypeCorrect == Spec => []TypeOK
<1>1. IInv => TypeOK
  BY DEF IInv
<1> QED
  BY Invariance, <1>1, PTL

(* The walk never spends residual capacity that is not there, and what an  *)
(* arc and its reverse have together is never changed.                     *)
THEOREM ResidualSound == Spec => []ResidualCapacities
<1>1. IInv => ResidualCapacities
  BY DEF IInv
<1> QED
  BY Invariance, <1>1, PTL

(* The result carries a proof of its optimality: when the flow is          *)
(* collected, the labels of the last search are a saturated cut.           *)
THEOREM CutCertificate == Spec => []SaturatedCut
<1> QED
  BY Invariance, SaturatedLabels, PTL

(* Every line of the printed flow is positive and within its capacity.     *)
THEOREM ReportedFlowsFit == Spec => []ReportedArcs
<1>1. IInv => ReportedArcs
  BY DEF IInv
<1> QED
  BY Invariance, <1>1, PTL

(* As long as an arc and its reverse fit an int together, none of the       *)
(* additions of the walk overflows.                                         *)
THEOREM PushesNeverOverflow == Spec => []ResidualsFit
<1>1. IInv => ResidualsFit
  BY Bounded DEF ResidualsFit
<1> QED
  BY Invariance, <1>1, PTL

(* At every stage the residual network holds a flow of the booked value,   *)
(* which never exceeds what the arcs of the source can carry, its          *)
(* capacities are ints, and the printed lines are a legal flow of the      *)
(* printed value.                                                          *)
THEOREM FlowLegal == Spec => []FlowIsLegal
<1>1. IInv => FlowIsLegal
  <2> SUFFICES ASSUME IInv PROVE FlowIsLegal
    OBVIOUS
  <2>1. max_flow <= Capacity({source})
    BY SourceBound
  <2>2. Initialised /\ pc # "augment" =>
          \A x \in V \ {sink} : NetOut(x) = IF x = source THEN max_flow ELSE 0
    BY DEF IInv, TypeOK, Balance, Owed
  <2>3. pc \in {"bfs", "pop", "scan", "collect", "done"} => Initialised /\ pc # "augment"
    BY DEF Initialised
  <2>4. source \in V
    BY Types DEF IInv
  <2>5. FlowConserved
    BY <2>1, <2>2, <2>3, <2>4 DEF FlowConserved
  <2>6. ReportedFlowIsLegal
    BY <2>2, <2>3, <2>4, ShippedOutIsNetOut DEF ReportedFlowIsLegal, IInv
  <2>7. ResidualsFit
    BY Bounded DEF ResidualsFit
  <2> QED
    BY <2>5, <2>6, <2>7 DEF FlowIsLegal
<1> QED
  BY Invariance, <1>1, PTL

(* The value is that of a minimum cut ...                                   *)
THEOREM MaxFlowIsMinCut == Spec => []MinimumCut
<1>1. IInv => MinimumCut
  <2> SUFFICES ASSUME IInv, pc \in {"collect", "done"}, source # sink
               PROVE  /\ \E S \in Cuts : /\ S = { x \in V : parent[x] # Unvisited }
                                         /\ Capacity(S) = max_flow
                      /\ \A S \in Cuts : max_flow <= Capacity(S)
    BY DEF MinimumCut
  <2>1. IsFlow(graph, NetFlows) /\ ValueOf(NetFlows) = max_flow
    BY NetFlowIsFlow DEF Initialised
  <2> DEFINE A == { x \in V : parent[x] # Unvisited }
  <2>2. A \in Cuts /\ \A x \in A, y \in V \ A : residual_graph[x][y] = 0
    BY SaturatedLabels, Types DEF SaturatedCut, Cuts, IInv
  <2>3. \A x \in A, y \in V \ A : NetFlows[x][y] = graph[x][y]
    BY <2>2, Types DEF NetFlows, IInv
  <2>4. Capacity(A) = max_flow
    <3> HIDE DEF A
    <3> QED
      BY <2>1, <2>2, <2>3, FlowWithinCut DEF IInv
  <2> QED
    BY <2>1, <2>2, <2>4, FlowWithinCut DEF IInv
<1> QED
  BY Invariance, <1>1, PTL

(* ... and no flow that respects the capacities has a larger one.           *)
THEOREM FlowIsMaximal ==
  Spec => [](pc \in {"collect", "done"} /\ source # sink =>
               /\ IsFlow(graph, NetFlows) /\ ValueOf(NetFlows) = max_flow
               /\ \A f : IsFlow(graph, f) => ValueOf(f) <= max_flow)
<1>1. IInv /\ MinimumCut =>
        (pc \in {"collect", "done"} /\ source # sink =>
               /\ IsFlow(graph, NetFlows) /\ ValueOf(NetFlows) = max_flow
               /\ \A f : IsFlow(graph, f) => ValueOf(f) <= max_flow)
  <2> SUFFICES ASSUME IInv, MinimumCut, pc \in {"collect", "done"}, source # sink
               PROVE  /\ IsFlow(graph, NetFlows) /\ ValueOf(NetFlows) = max_flow
                      /\ \A f : IsFlow(graph, f) => ValueOf(f) <= max_flow
    OBVIOUS
  <2>1. IsFlow(graph, NetFlows) /\ ValueOf(NetFlows) = max_flow
    BY NetFlowIsFlow DEF Initialised
  <2>2. PICK S \in Cuts : Capacity(S) = max_flow
    BY DEF MinimumCut
  <2>3. \A f : IsFlow(graph, f) => ValueOf(f) <= max_flow
    BY <2>2, FlowWithinCut DEF IInv
  <2> QED
    BY <2>1, <2>3
<1> QED
  BY Invariance, MaxFlowIsMinCut, <1>1, PTL

-----------------------------------------------------------------------------
(* The program implements the method: the paths of the method, which it     *)
(* builds by recursion on their length, in closed form ...                  *)
Simple(m, k) ==
  { p \in [1..(k + 1) -> V] :
      /\ p[1] = source
      /\ \A i \in 1..k : m[p[i]][p[i + 1]] > 0
      /\ \A i, j \in 1..(k + 1) : p[i] = p[j] => i = j }

Grown(P, m, k) ==
  { Append(px[1], px[2]) : px \in
      { px \in P \X Method!Vertices(m) :
          /\ <<px[1][k], px[2]>> \in Method!Arcs(m)
          /\ \A i \in 1..k : px[1][i] # px[2] } }

LEMMA PathsUnfolded ==
  ASSUME NEW m
  PROVE  Method!PathsFrom(m) =
           CHOOSE P : P = [k \in 0..size |-> IF k = 0 THEN {<<source>>}
                                             ELSE Grown(P[k - 1], m, k)]
BY Zenon DEF Method!PathsFrom, Grown

LEMMA Appended ==
  ASSUME NEW k \in Nat, NEW p \in [1..k -> V], NEW x \in V
  PROVE  /\ Append(p, x) \in [1..(k + 1) -> V]
         /\ Append(p, x)[k + 1] = x
         /\ \A i \in 1..k : Append(p, x)[i] = p[i]
<1>1. p \in Seq(V)
  BY SeqDef
<1>2. Len(p) = k
  BY <1>1, LenProperties
<1> DEFINE r == Append(p, x)
<1>3. r \in Seq(V) /\ Len(r) = Len(p) + 1 /\ r[Len(p) + 1] = x
      /\ \A i \in 1..Len(p) : r[i] = p[i]
  BY <1>1, AppendPath
<1> HIDE DEF r
<1>4. r \in [1..Len(r) -> V]
  BY <1>3, LenProperties
<1> QED
  BY <1>2, <1>3, <1>4 DEF r

LEMMA SimpleGrows ==
  ASSUME NEW m \in [V -> [V -> Int]], NEW k \in Nat \ {0}
  PROVE  Grown(Simple(m, k - 1), m, k) = Simple(m, k)
<1>1. (k - 1) + 1 = k /\ k \in 1..k /\ k + 1 \in 1..(k + 1) /\ k - 1 \in Nat
  OBVIOUS
<1>2. Method!Vertices(m) = V
  BY DEF Method!Vertices
<1>3. \A a, b \in V : <<a, b>> \in Method!Arcs(m) <=> m[a][b] > 0
  BY <1>2 DEF Method!Arcs, Method!weight
<1>4. ASSUME NEW r \in Grown(Simple(m, k - 1), m, k)
      PROVE  r \in Simple(m, k)
  <2>1. PICK p \in Simple(m, k - 1), x \in V :
               /\ r = Append(p, x)
               /\ <<p[k], x>> \in Method!Arcs(m)
               /\ \A i \in 1..k : p[i] # x
    BY <1>2, <1>4 DEF Grown
  <2>2. /\ p \in [1..k -> V] /\ p[1] = source
        /\ \A i \in 1..(k - 1) : m[p[i]][p[i + 1]] > 0
        /\ \A i, j \in 1..k : p[i] = p[j] => i = j
    BY <1>1 DEF Simple
  <2>3. r \in [1..(k + 1) -> V] /\ r[k + 1] = x /\ \A i \in 1..k : r[i] = p[i]
    <3> DEFINE a == Append(p, x)
    <3>1. a \in [1..(k + 1) -> V] /\ a[k + 1] = x /\ \A i \in 1..k : a[i] = p[i]
      <4>1. k \in Nat /\ p \in [1..k -> V]
        BY <2>2
      <4> QED
        BY <4>1, Appended, ZenonT(40)
    <3>2. a = r
      BY <2>1
    <3> HIDE DEF a
    <3> QED
      BY <3>1, <3>2, Zenon
  <2>4. r[1] = source
    BY <2>2, <2>3
  <2>5. ASSUME NEW i \in 1..k PROVE m[r[i]][r[i + 1]] > 0
    <3>1. CASE i = k
      BY <1>1, <1>3, <2>1, <2>2, <2>3, <3>1
    <3>2. CASE i # k
      <4>1. i \in 1..(k - 1) /\ i + 1 \in 1..k
        BY <3>2
      <4> QED
        BY <2>2, <2>3, <4>1
    <3> QED
      BY <3>1, <3>2
  <2>6. ASSUME NEW i \in 1..(k + 1), NEW j \in 1..(k + 1), r[i] = r[j] PROVE i = j
    <3>1. (i \in 1..k \/ i = k + 1) /\ (j \in 1..k \/ j = k + 1)
      OBVIOUS
    <3>2. \A h \in 1..k : r[h] # r[k + 1]
      BY <2>1, <2>3
    <3>3. i \in 1..k /\ j \in 1..k => i = j
      BY <2>2, <2>3, <2>6
    <3> QED
      BY <2>6, <3>1, <3>2, <3>3
  <2> QED
    BY <2>3, <2>4, <2>5, <2>6 DEF Simple
<1>5. ASSUME NEW r \in Simple(m, k)
      PROVE  r \in Grown(Simple(m, k - 1), m, k)
  <2> DEFINE p == [i \in 1..k |-> r[i]]  x == r[k + 1]
  <2>1. /\ r \in [1..(k + 1) -> V] /\ r[1] = source
        /\ \A i \in 1..k : m[r[i]][r[i + 1]] > 0
        /\ \A i, j \in 1..(k + 1) : r[i] = r[j] => i = j
    BY DEF Simple
  <2>2. \A i \in 1..k : i \in 1..(k + 1) /\ i # k + 1
    OBVIOUS
  <2>3. p \in [1..k -> V] /\ x \in V /\ \A i \in 1..k : p[i] = r[i]
    BY <1>1, <2>1, <2>2
  <2> HIDE DEF p, x
  <2>4. p[1] = source
    BY <2>1, <2>3
  <2>5. \A i \in 1..(k - 1) : m[p[i]][p[i + 1]] > 0
    <3>1. \A i \in 1..(k - 1) : i \in 1..k /\ i + 1 \in 1..k
      OBVIOUS
    <3> QED
      BY <2>1, <2>3, <3>1
  <2>6. \A i, j \in 1..k : p[i] = p[j] => i = j
    BY <2>1, <2>2, <2>3
  <2>7. p \in Simple(m, k - 1)
    BY <1>1, <2>3, <2>4, <2>5, <2>6 DEF Simple
  <2>8. <<p[k], x>> \in Method!Arcs(m)
    BY <1>1, <1>3, <2>1, <2>3 DEF x
  <2>9. \A i \in 1..k : p[i] # x
    BY <1>1, <2>1, <2>2, <2>3 DEF x
  <2>10. r = Append(p, x)
    <3> DEFINE a == Append(p, x)
    <3>1. a \in [1..(k + 1) -> V] /\ a[k + 1] = x /\ \A i \in 1..k : a[i] = p[i]
      BY <2>3, Appended, ZenonT(40)
    <3> HIDE DEF a
    <3>2. ASSUME NEW i \in 1..(k + 1) PROVE a[i] = r[i]
      <4>1. i \in 1..k \/ i = k + 1
        OBVIOUS
      <4> QED
        BY <2>3, <3>1, <4>1 DEF x
    <3>3. a = r
      BY <2>1, <3>1, <3>2
    <3> QED
      BY <3>3 DEF a
  <2>11. <<p, x>> \in Simple(m, k - 1) \X Method!Vertices(m)
    BY <1>2, <2>3, <2>7
  <2>12. /\ <<<<p, x>>[1][k], <<p, x>>[2]>> \in Method!Arcs(m)
         /\ \A i \in 1..k : <<p, x>>[1][i] # <<p, x>>[2]
         /\ r = Append(<<p, x>>[1], <<p, x>>[2])
    BY <2>8, <2>9, <2>10
  <2> QED
    BY <2>11, <2>12, Zenon DEF Grown
<1> QED
  BY <1>4, <1>5

LEMMA PathsAreSimple ==
  ASSUME NEW m \in [V -> [V -> Int]], NEW k \in 0..size
  PROVE  Method!PathsFrom(m)[k] = Simple(m, k)
<1> DEFINE F(P) == [n \in 0..size |-> IF n = 0 THEN {<<source>>} ELSE Grown(P[n - 1], m, n)]
           G == [n \in 0..size |-> Simple(m, n)]
           C == CHOOSE P : P = F(P)
           T == { n \in Nat : n <= size /\ C[n] # Simple(m, n) }
<1>1. Simple(m, 0) = {<<source>>}
  <2>1. source \in V
    BY NetworkAssumption DEF NetworkAssumption, V
  <2>2. <<source>> \in Simple(m, 0)
    BY <2>1 DEF Simple
  <2>3. ASSUME NEW p \in Simple(m, 0) PROVE p = <<source>>
    <3>1. p \in [1..1 -> V] /\ p[1] = source
      BY DEF Simple
    <3>2. <<source>> \in [1..1 -> V] /\ <<source>>[1] = source
      BY <2>1
    <3> HIDE DEF F, G, C, T
    <3> QED
      BY <3>1, <3>2
  <2> QED
    BY <2>2, <2>3
<1>2. size \in Nat
  BY NetworkAssumption DEF NetworkAssumption
<1>3. G = F(G)
  <2>1. ASSUME NEW n \in 0..size
        PROVE  Simple(m, n) = IF n = 0 THEN {<<source>>} ELSE Grown(G[n - 1], m, n)
    <3>1. CASE n = 0
      BY <1>1, <3>1
    <3>2. CASE n # 0
      <4>1. n \in Nat \ {0} /\ n - 1 \in 0..size
        BY <1>2, <3>2
      <4>2. G[n - 1] = Simple(m, n - 1)
        BY <4>1
      <4> QED
        BY <3>2, <4>1, <4>2, SimpleGrows
    <3> QED
      BY <3>1, <3>2
  <2> QED
    BY <2>1
<1>4. C = F(C)
  <2> HIDE DEF F, G
  <2> QED
    BY <1>3
<1>5. \A n \in 0..size : C[n] = IF n = 0 THEN {<<source>>} ELSE Grown(C[n - 1], m, n)
  <2> HIDE DEF C
  <2> QED
    BY <1>4
<1> HIDE DEF C, F, G
<1>6. T = {}
  <2> SUFFICES ASSUME T # {} PROVE FALSE
    OBVIOUS
  <2>1. PICK n \in T : \A h \in T : n <= h
    <3>1. T \in SUBSET Nat
      OBVIOUS
    <3> HIDE DEF T
    <3> QED
      BY <3>1, LeastNatural
  <2>2. n \in 0..size /\ n # 0
    <3>1. n \in 0..size /\ C[n] # Simple(m, n)
      BY <1>2
    <3>2. C[0] = {<<source>>}
      BY <1>2, <1>5
    <3> QED
      BY <1>1, <3>1, <3>2
  <2>3. n - 1 \in Nat /\ n - 1 <= size /\ ~(n <= n - 1) /\ n \in Nat \ {0}
    BY <1>2, <2>2
  <2>4. C[n - 1] = Simple(m, n - 1)
    BY <2>1, <2>3
  <2>5. C[n] = Simple(m, n)
    BY <1>5, <2>2, <2>3, <2>4, SimpleGrows
  <2> QED
    BY <2>1, <2>5
<1>7. C[k] = Simple(m, k)
  BY <1>2, <1>6
<1> QED
  BY <1>7, PathsUnfolded, Zenon DEF C, F

(* ... and the view of the state that the refinement takes, as operators of *)
(* the variables it reads.                                                  *)
Anc(par, x) ==
  { y \in V : \A S \in SUBSET V :
                 (x \in S /\ \A z \in S \ {source} : par[z] \in S) => y \in S }

Pending(walking, par, x) ==
  IF walking THEN { <<par[y], y>> : y \in Anc(par, x) \ {source} } ELSE {}

Settled(started, g, r, A, f) ==
  [a \in V |-> [b \in V |->
     IF started
     THEN r[a][b] - (IF <<a, b>> \in A THEN f ELSE 0) + (IF <<b, a>> \in A THEN f ELSE 0)
     ELSE g[a][b]]]

View ==
  Settled(Initialised, graph, residual_graph, Pending(pc = "augment", parent, v), new_flow)

LEMMA Views == SettledResidual = View /\ SettledResidual' = View'
<1>1. PendingArcs = Pending(pc = "augment", parent, v)
  BY Zenon DEF PendingArcs, Pending, Ancestors, Anc
<1>2. PendingArcs' = Pending(pc' = "augment", parent', v')
  BY Zenon DEF PendingArcs, Pending, Ancestors, Anc
<1>3. SettledResidual = Settled(Initialised, graph, residual_graph, PendingArcs, new_flow)
  BY Zenon DEF SettledResidual, Settled
<1>4. SettledResidual' = Settled(Initialised', graph', residual_graph', PendingArcs', new_flow')
  BY Zenon DEF SettledResidual, Settled
<1>5. View' = Settled(Initialised', graph', residual_graph',
                      Pending(pc' = "augment", parent', v'), new_flow')
  BY Zenon DEF View, Settled, Pending, Anc
<1> QED
  BY <1>1, <1>2, <1>3, <1>4, <1>5, Zenon DEF View

LEMMA SettledBefore ==
  ASSUME NEW g \in [V -> [V -> Int]], NEW r, NEW A, NEW f
  PROVE  Settled(FALSE, g, r, A, f) = g
BY DEF Settled

LEMMA SettledAtRest ==
  ASSUME NEW g, NEW r \in [V -> [V -> Int]], NEW f
  PROVE  Settled(TRUE, g, r, {}, f) = r
<1>1. \A a, b \in V : r[a][b] - 0 + 0 = r[a][b]
  OBVIOUS
<1> QED
  BY <1>1 DEF Settled

LEMMA SettledInWalk ==
  ASSUME NEW g, NEW r \in [V -> [V -> Int]], NEW A, NEW f
  PROVE  Settled(TRUE, g, r, A, f) = Method!Pushed(r, A, f)
<1>1. Method!Vertices(r) = V
  BY DEF Method!Vertices
<1> QED
  BY <1>1 DEF Settled, Method!Pushed, Method!weight

(* The vertices a path still holds are the ancestors of its end.           *)
LEMMA PathAncestors ==
  ASSUME NEW par, NEW res, NEW p, NEW x \in V, NEW f, PathTo(par, res, p, x, f)
  PROVE  Anc(par, x) = { p[i] : i \in 1..Len(p) }
<1> DEFINE n == Len(p)  R == { p[i] : i \in 1..n }
<1>1. /\ n \in Nat /\ n >= 1 /\ p[1] = source /\ p[n] = x
      /\ \A i \in 1..n : p[i] \in V
      /\ \A i \in 1..(n - 1) : i \in 1..n /\ i + 1 \in 1..n /\ par[p[i + 1]] = p[i]
      /\ \A i \in 2..n : i - 1 \in 1..(n - 1) /\ par[p[i]] = p[i - 1]
      /\ \A i, j \in 1..n : p[i] = p[j] => i = j
  <2>1. Shape(par, res, p, x, f)
    BY PathShape, Zenon
  <2> QED
    BY <2>1 DEF Shape
<1> HIDE DEF n
<1>2. R \in SUBSET V /\ x \in R
  <2>1. n \in 1..n
    BY <1>1
  <2> QED
    BY <1>1, <2>1
<1>3. ASSUME NEW z \in R \ {source} PROVE par[z] \in R
  <2>1. PICK i \in 1..n : z = p[i]
    OBVIOUS
  <2>2. i \in 2..n
    BY <1>1, <2>1
  <2> QED
    BY <1>1, <2>1, <2>2
<1>4. Anc(par, x) \subseteq R
  <2> HIDE DEF R
  <2> QED
    BY <1>2, <1>3 DEF Anc
<1>5. ASSUME NEW k \in 1..n PROVE p[k] \in Anc(par, x)
  <2> SUFFICES ASSUME NEW S \in SUBSET V, x \in S, \A z \in S \ {source} : par[z] \in S
               PROVE  p[k] \in S
    BY <1>1 DEF Anc
  <2> DEFINE T == { d \in Nat : d < n /\ p[n - d] \notin S }
  <2>1. T = {}
    <3> SUFFICES ASSUME T # {} PROVE FALSE
      OBVIOUS
    <3>1. PICK d \in T : \A e \in T : d <= e
      <4>1. T \in SUBSET Nat
        OBVIOUS
      <4> HIDE DEF T
      <4> QED
        BY <4>1, LeastNatural
    <3>2. d # 0
      BY <1>1
    <3> DEFINE i == n - d
    <3>3. d - 1 \in Nat /\ d - 1 < n /\ n - (d - 1) = i + 1 /\ ~(d <= d - 1)
          /\ i \in 1..(n - 1) /\ i + 1 \in 1..n /\ i + 1 # 1 /\ 1 \in 1..n
      BY <1>1, <3>2
    <3>4. p[i + 1] \in S
      BY <3>1, <3>3
    <3>5. p[i + 1] # source
      BY <1>1, <3>3
    <3>6. par[p[i + 1]] = p[i]
      BY <1>1, <3>3
    <3>7. p[i] \in S
      BY <3>4, <3>5, <3>6
    <3> QED
      BY <3>1, <3>7
  <2>2. n - k \in Nat /\ n - k < n /\ n - (n - k) = k
    BY <1>1
  <2> QED
    BY <2>1, <2>2
<1> QED
  BY <1>4, <1>5 DEF n

(* So the pushes that are pending are the arcs of the path.                *)
LEMMA PendingIsPath ==
  ASSUME NEW par, NEW res, NEW p, NEW x \in V, NEW f, PathTo(par, res, p, x, f)
  PROVE  Pending(TRUE, par, x) = Method!PathArcs(p)
<1> DEFINE n == Len(p)
<1>1. /\ n \in Nat /\ n >= 1 /\ p[1] = source
      /\ \A i \in 1..(n - 1) : i \in 1..n /\ i + 1 \in 1..n /\ par[p[i + 1]] = p[i]
      /\ \A i \in 2..n : i - 1 \in 1..(n - 1) /\ par[p[i]] = p[i - 1]
      /\ \A i, j \in 1..n : p[i] = p[j] => i = j
  <2>1. Shape(par, res, p, x, f)
    BY PathShape, Zenon
  <2> QED
    BY <2>1 DEF Shape
<1>2. Anc(par, x) = { p[i] : i \in 1..n }
  BY PathAncestors
<1>0. Method!PathArcs(p) = { <<p[i], p[i + 1]>> : i \in 1..(n - 1) }
  BY DEF Method!PathArcs
<1> HIDE DEF n
<1>3. ASSUME NEW i \in 2..n
      PROVE  <<par[p[i]], p[i]>> \in Method!PathArcs(p)
  <2>1. i - 1 \in 1..(n - 1) /\ par[p[i]] = p[i - 1] /\ (i - 1) + 1 = i
    BY <1>1
  <2> QED
    BY <1>0, <2>1
<1>4. ASSUME NEW y \in Anc(par, x) \ {source}
      PROVE  <<par[y], y>> \in Method!PathArcs(p)
  <2>1. PICK i \in 1..n : y = p[i]
    BY <1>2
  <2>2. i \in 2..n
    BY <1>1, <2>1
  <2> QED
    BY <1>3, <2>1, <2>2
<1>5. ASSUME NEW i \in 1..(n - 1)
      PROVE  <<p[i], p[i + 1]>> \in { <<par[y], y>> : y \in Anc(par, x) \ {source} }
  <2>1. i + 1 \in 1..n /\ 1 \in 1..n /\ i + 1 # 1
    BY <1>1
  <2>2. p[i + 1] \in Anc(par, x) /\ p[i + 1] # source
    BY <1>1, <1>2, <2>1
  <2>3. par[p[i + 1]] = p[i]
    BY <1>1
  <2> QED
    BY <2>2, <2>3
<1> QED
  BY <1>0, <1>4, <1>5 DEF Pending

(* What the method sees: outside the walk the residual network itself,     *)
(* during the walk the residual network with the path pushed.              *)
LEMMA MethodSees ==
  /\ IInv /\ ~Initialised => SettledResidual = graph
  /\ IInv /\ Initialised /\ pc # "augment" => SettledResidual = residual_graph
  /\ IInv' /\ Initialised' /\ pc' # "augment" => SettledResidual' = residual_graph'
  /\ IInv' /\ ~Initialised' => SettledResidual' = graph'
<1>1. /\ IInv => graph \in [V -> [V -> Int]] /\ residual_graph \in [V -> [V -> Int]]
      /\ IInv' => graph' \in [V -> [V -> Int]] /\ residual_graph' \in [V -> [V -> Int]]
  <2>1. [V -> [V -> Nat]] \subseteq [V -> [V -> Int]]
    OBVIOUS
  <2> QED
    BY <2>1 DEF IInv, TypeOK, GraphsOn, V
<1>2. ASSUME IInv, ~Initialised PROVE SettledResidual = graph
  <2> DEFINE A == Pending(pc = "augment", parent, v)
  <2>1. View = Settled(FALSE, graph, residual_graph, A, new_flow)
    BY <1>2, Zenon DEF View, Settled
  <2> HIDE DEF A
  <2>2. View = graph
    <3>1. graph \in [V -> [V -> Int]]
      BY <1>1, <1>2
    <3> QED
      BY <2>1, <3>1, SettledBefore
  <2> QED
    BY <2>2, Views, Zenon
<1>3. ASSUME IInv, Initialised, pc # "augment" PROVE SettledResidual = residual_graph
  <2>1. Pending(pc = "augment", parent, v) = {}
    BY <1>3 DEF Pending
  <2>2. View = Settled(TRUE, graph, residual_graph, {}, new_flow)
    BY <1>3, <2>1, Zenon DEF View, Settled
  <2>3. View = residual_graph
    BY <1>1, <1>3, <2>2, SettledAtRest
  <2> QED
    BY <2>3, Views, Zenon
<1>4. ASSUME IInv', Initialised', pc' # "augment" PROVE SettledResidual' = residual_graph'
  <2>1. Pending(pc = "augment", parent, v)' = {}
    BY <1>4 DEF Pending
  <2>2. View' = Settled(TRUE, graph', residual_graph', {}, new_flow')
    BY <1>4, <2>1, Zenon DEF View, Settled
  <2>3. View' = residual_graph'
    BY <1>1, <1>4, <2>2, SettledAtRest
  <2> QED
    BY <2>3, Views, Zenon
<1>5. ASSUME IInv', ~Initialised' PROVE SettledResidual' = graph'
  <2> DEFINE A == Pending(pc = "augment", parent, v)
  <2>1. View' = Settled(FALSE, graph', residual_graph', A', new_flow')
    BY <1>5, Zenon DEF View, Settled
  <2> HIDE DEF A
  <2>2. View' = graph'
    <3>1. graph' \in [V -> [V -> Int]]
      BY <1>1, <1>5
    <3> QED
      BY <2>1, <3>1, SettledBefore
  <2> QED
    BY <2>2, Views, Zenon
<1> QED
  BY <1>2, <1>3, <1>4, <1>5

Pushes(g, r, par, x, f, p) ==
  Settled(TRUE, g, r, Pending(TRUE, par, x), f) = Method!Pushed(r, Method!PathArcs(p), f)

LEMMA MethodSeesWalk ==
  ASSUME NEW p, NEW g, NEW r \in [V -> [V -> Int]], NEW par, NEW x \in V, NEW f,
         PathTo(par, r, p, x, f)
  PROVE  Pushes(g, r, par, x, f, p)
<1> DEFINE A == Method!PathArcs(p)
<1>1. Pending(TRUE, par, x) = A
  BY PendingIsPath, Zenon
<1> HIDE DEF A
<1>2. Settled(TRUE, g, r, A, f) = Method!Pushed(r, A, f)
  BY SettledInWalk, Zenon
<1> QED
  BY <1>1, <1>2, Zenon DEF A, Pushes

(* An iteration of the walk does what was pending, and no more.            *)
MovedAlong(r, n, y, x, f) ==
  /\ n[y][x] = r[y][x] - f
  /\ n[x][y] = r[x][y] + f
  /\ \A a, b \in V : (a # y \/ b # x) /\ (a # x \/ b # y) => n[a][b] = r[a][b]

Invisible(r, n, p, f) ==
  Method!Pushed(n, Method!PathArcs(SubSeq(p, 1, Len(p) - 1)), f)
    = Method!Pushed(r, Method!PathArcs(p), f)

LEMMA PushIsInvisible ==
  ASSUME NEW par, NEW x \in V \ {source}, NEW f \in Int,
         NEW r \in [V -> [V -> Int]], NEW n \in [V -> [V -> Int]],
         NEW p, PathTo(par, r, p, x, f), MovedAlong(r, n, par[x], x, f)
  PROVE  Invisible(r, n, p, f)
<1> DEFINE k == Len(p) - 1  h == SubSeq(p, 1, k)
           A == Method!PathArcs(p)  B == Method!PathArcs(h)  z == par[x]
<1>0. /\ n[z][x] = r[z][x] - f /\ n[x][z] = r[x][z] + f
      /\ \A a, b \in V : (a # z \/ b # x) /\ (a # x \/ b # z) => n[a][b] = r[a][b]
  BY DEF MovedAlong
<1>1. /\ Len(p) \in Nat /\ Len(p) > 1 /\ p[1] = source /\ p[Len(p)] = x
      /\ \A i \in 1..Len(p) : p[i] \in V
      /\ \A i, j \in 1..Len(p) : p[i] = p[j] => i = j
      /\ z = p[k] /\ z \in V /\ z # x
  <2>1. Shape(par, r, p, x, f)
    BY PathShape, Zenon
  <2> QED
    BY <2>1, PathHead DEF Shape
<1>2. k \in Nat /\ k >= 1 /\ Len(p) = k + 1 /\ \A i \in 1..k : i \in 1..Len(p)
  BY <1>1
<1>3. Len(h) = k /\ \A i \in 1..k : h[i] = p[i]
  <2>1. k - 1 + 1 = k /\ \A i \in 1..k : 1 + i - 1 = i
    BY <1>2
  <2> HIDE DEF k
  <2> QED
    BY <1>1, <1>2, <2>1, SubSeqProperties
<1>4. /\ A = { <<p[i], p[i + 1]>> : i \in 1..k }
      /\ B = { <<p[i], p[i + 1]>> : i \in 1..(k - 1) }
  <2>1. A = { <<p[i], p[i + 1]>> : i \in 1..(Len(p) - 1) }
    BY Zenon DEF Method!PathArcs
  <2>2. B = { <<h[i], h[i + 1]>> : i \in 1..(Len(h) - 1) }
    BY Zenon DEF Method!PathArcs
  <2>3. \A i \in 1..(k - 1) : h[i] = p[i] /\ h[i + 1] = p[i + 1]
    <3> HIDE DEF h, k
    <3> QED
      BY <1>2, <1>3
  <2> HIDE DEF h, A, B
  <2>4. B = { <<p[i], p[i + 1]>> : i \in 1..(k - 1) }
    BY <1>3, <2>2, <2>3
  <2> QED
    BY <2>1, <2>4
<1>6. n \in [V -> [V -> Int]] /\ r \in [V -> [V -> Int]]
  OBVIOUS
<1> HIDE DEF k, h, A, B
<1>5. /\ <<z, x>> \in A /\ <<z, x>> \notin B
      /\ <<x, z>> \notin A /\ <<x, z>> \notin B
      /\ \A a, b \in V : (a # z \/ b # x) => (<<a, b>> \in A <=> <<a, b>> \in B)
  <2>1. k \in 1..k /\ k + 1 \in 1..Len(p) /\ k \in 1..Len(p) /\ p[k + 1] = x
    BY <1>1, <1>2
  <2>2. <<z, x>> \in A
    BY <1>1, <1>4, <2>1
  <2>3. \A i \in 1..k : p[i] # x
    <3>1. \A i \in 1..k : i # k + 1
      BY <1>2
    <3> QED
      BY <1>1, <1>2, <2>1, <3>1
  <2>4. \A b : <<x, b>> \notin A /\ <<x, b>> \notin B
    <3>1. \A i \in 1..(k - 1) : i \in 1..k
      BY <1>2
    <3> QED
      BY <1>4, <2>3, <3>1
  <2>5. <<z, x>> \notin B
    <3>1. \A i \in 1..(k - 1) : i + 1 \in 1..k
      BY <1>2
    <3> QED
      BY <1>4, <2>3, <3>1
  <2>6. ASSUME NEW a \in V, NEW b \in V, a # z \/ b # x
        PROVE  <<a, b>> \in A <=> <<a, b>> \in B
    <3>1. ASSUME NEW i \in 1..k, <<a, b>> = <<p[i], p[i + 1]>> PROVE i \in 1..(k - 1)
      <4>1. i # k
        BY <1>1, <2>1, <2>6, <3>1
      <4> QED
        BY <1>2, <4>1
    <3>2. \A i \in 1..(k - 1) : i \in 1..k
      BY <1>2
    <3> QED
      BY <1>4, <3>1, <3>2
  <2> QED
    BY <2>2, <2>4, <2>5, <2>6
<1>7. ASSUME NEW a \in V, NEW b \in V
      PROVE  n[a][b] - (IF <<a, b>> \in B THEN f ELSE 0) + (IF <<b, a>> \in B THEN f ELSE 0)
               = r[a][b] - (IF <<a, b>> \in A THEN f ELSE 0) + (IF <<b, a>> \in A THEN f ELSE 0)
  <2>1. n[a][b] \in Int /\ r[a][b] \in Int /\ f \in Int
    BY <1>6
  <2>2. CASE a = z /\ b = x
    BY <1>0, <1>1, <1>5, <2>1, <2>2
  <2>3. CASE a = x /\ b = z
    BY <1>0, <1>1, <1>5, <2>1, <2>3
  <2>4. CASE (a # z \/ b # x) /\ (a # x \/ b # z)
    <3>1. /\ n[a][b] = r[a][b]
          /\ <<a, b>> \in A <=> <<a, b>> \in B
          /\ <<b, a>> \in A <=> <<b, a>> \in B
      BY <1>0, <1>5, <2>4
    <3> QED
      BY <3>1
  <2> QED
    BY <2>2, <2>3, <2>4
<1>8. /\ Method!Pushed(n, B, f) =
           [a \in V |-> [b \in V |->
              n[a][b] - (IF <<a, b>> \in B THEN f ELSE 0) + (IF <<b, a>> \in B THEN f ELSE 0)]]
      /\ Method!Pushed(r, A, f) =
           [a \in V |-> [b \in V |->
              r[a][b] - (IF <<a, b>> \in A THEN f ELSE 0) + (IF <<b, a>> \in A THEN f ELSE 0)]]
  <2>1. Method!Vertices(n) = V /\ Method!Vertices(r) = V
    BY <1>6 DEF Method!Vertices
  <2> QED
    BY <2>1, Zenon DEF Method!Pushed, Method!weight
<1>9. Method!Pushed(n, B, f) = Method!Pushed(r, A, f)
  BY <1>7, <1>8
<1> QED
  BY <1>9, Zenon DEF Invisible, A, B, h, k

(* A path of the queue that reaches the sink is an augmenting path, and its *)
(* flow is its bottleneck.                                                  *)
LEMMA PathAugments ==
  ASSUME source # sink, NEW par, NEW r \in [V -> [V -> Int]], NEW p, NEW f \in Int, f > 0,
         PathTo(par, r, p, sink, f), Tight(r, p, f)
  PROVE  p \in Method!AugmentingPaths(r) /\ Method!Bottleneck(r, p) = f
<1> DEFINE n == Len(p)  k == n - 1
<1>1. /\ n \in Nat /\ n >= 1 /\ p[1] = source /\ p[n] = sink
      /\ \A i \in 1..n : p[i] \in V
      /\ \A i \in 1..(n - 1) : i \in 1..n /\ i + 1 \in 1..n /\ f <= r[p[i]][p[i + 1]]
      /\ \A i, j \in 1..n : p[i] = p[j] => i = j
  <2>1. Shape(par, r, p, sink, f)
    BY PathShape, Zenon
  <2> QED
    BY <2>1 DEF Shape
<1>2. p \in [1..n -> V]
  <2>1. p \in Seq(V)
    BY DEF PathTo
  <2> QED
    BY <2>1, LenProperties
<1>3. PICK i0 \in 1..(n - 1) : f = r[p[i0]][p[i0 + 1]]
  <2>1. n # 1
    BY <1>1
  <2> QED
    BY <2>1 DEF Tight
<1>a. Method!PathArcs(p) = { <<p[i], p[i + 1]>> : i \in 1..(n - 1) }
  BY Zenon DEF Method!PathArcs
<1> HIDE DEF n
<1>4. k \in Nat /\ k + 1 = n /\ k >= 1
  BY <1>1, <1>3
<1>5. n <= size
  <2> SUFFICES ASSUME n > size PROVE FALSE
    BY <1>1, NetworkAssumption DEF NetworkAssumption
  <2>1. /\ IsFiniteSet(1..n) /\ Cardinality(1..n) = n
        /\ IsFiniteSet(V) /\ Cardinality(V) = size /\ size \in Nat
    BY <1>1, FS_Interval, NetworkAssumption, SMTT(40) DEF NetworkAssumption, V
  <2>2. Cardinality(V) < Cardinality(1..n)
    BY <1>1, <2>1
  <2>3. \E i, j \in 1..n : i # j /\ p[i] = p[j]
    BY <1>2, <2>1, <2>2, FS_PigeonHole
  <2> QED
    BY <1>1, <2>3
<1>6. k \in 0..size /\ k \in 1..(size - 1)
  BY <1>4, <1>5, NetworkAssumption DEF NetworkAssumption
<1>7. ASSUME NEW i \in 1..k PROVE r[p[i]][p[i + 1]] > 0 /\ r[p[i]][p[i + 1]] \in Int
  <2>1. i \in 1..(n - 1)
    BY <1>4
  <2>2. p[i] \in V /\ p[i + 1] \in V /\ f <= r[p[i]][p[i + 1]]
    BY <1>1, <2>1
  <2>3. r[p[i]][p[i + 1]] \in Int
    BY <2>2
  <2> QED
    BY <2>2, <2>3
<1>8. p \in Simple(r, k)
  BY <1>1, <1>2, <1>4, <1>7 DEF Simple
<1>9. p \in Method!PathsFrom(r)[k]
  BY <1>6, <1>8, PathsAreSimple
<1>10. p \in Method!AugmentingPaths(r)
  BY <1>1, <1>6, <1>9 DEF Method!AugmentingPaths, n
<1>11. Method!Bottleneck(r, p) = f
  <2> DEFINE S == { r[p[i]][p[i + 1]] : i \in 1..(n - 1) }
  <2>1. f \in S /\ \A y \in S : f <= y /\ y \in Int
    <3>1. \A i \in 1..(n - 1) : i \in 1..k
      BY <1>4
    <3> QED
      BY <1>1, <1>3, <1>7, <3>1
  <2>2. { Method!weight(r, a[1], a[2]) : a \in Method!PathArcs(p) } = S
    <3>1. ASSUME NEW a \in Method!PathArcs(p) PROVE Method!weight(r, a[1], a[2]) \in S
      BY <1>a DEF Method!weight
    <3>2. ASSUME NEW i \in 1..(n - 1)
          PROVE  r[p[i]][p[i + 1]] \in
                   { Method!weight(r, a[1], a[2]) : a \in Method!PathArcs(p) }
      <4>1. <<p[i], p[i + 1]>> \in Method!PathArcs(p)
        BY <1>a
      <4> QED
        BY <4>1 DEF Method!weight
    <3> QED
      BY <3>1, <3>2
  <2>3. Method!Bottleneck(r, p) = Min(S)
    BY <2>2, Zenon DEF Method!Bottleneck, Method!Min, Min
  <2> HIDE DEF S
  <2>4. Min(S) \in S /\ \A y \in S : Min(S) <= y
    BY <2>1 DEF Min
  <2>5. Min(S) <= f /\ f <= Min(S) /\ Min(S) \in Int
    BY <2>1, <2>4
  <2> QED
    BY <2>3, <2>5
<1> QED
  BY <1>10, <1>11

(* When bfs has failed there is none.                                      *)
LEMMA NoPathAugments ==
  ASSUME IInv, pc \in {"collect", "done"}
  PROVE  Method!AugmentingPaths(residual_graph) = {}
<1>1. residual_graph \in [V -> [V -> Int]]
  BY DEF IInv, TypeOK, GraphsOn, V
<1> SUFFICES ASSUME NEW k \in 1..(size - 1), NEW p \in Method!PathsFrom(residual_graph)[k],
                    p[Len(p)] = sink
             PROVE  FALSE
  BY DEF Method!AugmentingPaths
<1>2. k \in 0..size /\ k \in Nat /\ k >= 1
  BY NetworkAssumption DEF NetworkAssumption
<1>3. p \in Simple(residual_graph, k)
  BY <1>1, <1>2, PathsAreSimple
<1>4. /\ p \in [1..(k + 1) -> V] /\ p[1] = source
      /\ \A i \in 1..k : residual_graph[p[i]][p[i + 1]] > 0
      /\ \A i, j \in 1..(k + 1) : p[i] = p[j] => i = j
  BY <1>3 DEF Simple
<1>5. p[k + 1] = sink
  <2>1. p \in Seq(V)
    BY <1>2, <1>4, SeqDef
  <2>2. Len(p) = k + 1
    BY <1>2, <1>4, <2>1, LenProperties
  <2> QED
    BY <2>2
<1>6. source # sink
  BY <1>2, <1>4, <1>5
<1>7. /\ parent[source] # Unvisited /\ parent[sink] = Unvisited
      /\ \A a, b \in V : parent[a] # Unvisited /\ parent[b] = Unvisited
                            => residual_graph[a][b] = 0
  BY <1>6, SaturatedLabels DEF SaturatedCut
<1> DEFINE T == { i \in 1..(k + 1) : parent[p[i]] = Unvisited }
<1>8. T \in SUBSET Nat /\ T # {}
  BY <1>2, <1>5, <1>7
<1>9. PICK m \in T : \A i \in T : m <= i
  <2> HIDE DEF T
  <2> QED
    BY <1>8, LeastNatural
<1>10. m # 1
  BY <1>4, <1>7
<1>11. /\ m - 1 \in 1..k /\ m - 1 \in 1..(k + 1) /\ (m - 1) + 1 = m /\ ~(m <= m - 1)
       /\ m \in 1..(k + 1)
  BY <1>2, <1>10
<1>12. parent[p[m - 1]] # Unvisited /\ parent[p[m]] = Unvisited
  BY <1>9, <1>11
<1>13. residual_graph[p[m - 1]][p[m]] > 0
  BY <1>4, <1>11
<1>14. residual_graph[p[m - 1]][p[m]] = 0
  BY <1>4, <1>7, <1>11, <1>12
<1> QED
  BY <1>13, <1>14

(* The status of the method, of the loop that runs next.                   *)
StatusOf(p) ==
  CASE p = "error" -> "refused"
    [] p \in {"collect", "done"} -> "finished"
    [] OTHER -> "running"

Unmoved ==
  /\ graph' = graph /\ SettledResidual' = SettledResidual /\ max_flow' = max_flow
  /\ StatusOf(pc') = StatusOf(pc)

LEMMA UnmovedStutters == Unmoved => UNCHANGED Method!FFVars
BY Zenon DEF Unmoved, Method!FFVars, StatusOf

LEMMA StartRefines == IInv /\ IInv' /\ Start => Method!FFNext \/ Unmoved
<1> SUFFICES ASSUME IInv, IInv', Start PROVE Method!FFNext \/ Unmoved
  OBVIOUS
<1>1. graph' = graph /\ max_flow' = max_flow /\ pc = "start" /\ ~Initialised
  BY DEF Start, Initialised
<1>2. SettledResidual = graph
  BY <1>1, MethodSees
<1>3. CASE CheckDirected(graph)
  <2>1. residual_graph' = graph /\ pc' = "bfs" /\ Initialised'
    BY <1>3 DEF Start, Initialised
  <2>2. SettledResidual' = graph
    BY <2>1, MethodSees
  <2> QED
    BY <1>1, <1>2, <2>1, <2>2 DEF Unmoved, StatusOf
<1>4. CASE ~CheckDirected(graph)
  <2>1. pc' = "error" /\ ~Initialised'
    BY <1>4 DEF Start, Initialised
  <2>2. SettledResidual' = graph
    BY <1>1, <2>1, MethodSees
  <2>3. ~Method!CheckDirected(graph)
    BY <1>4 DEF CheckDirected, Method!CheckDirected, Vertices, Method!Vertices,
                weight, Method!weight
  <2>4. Method!Refuse
    BY <1>1, <1>2, <2>1, <2>2, <2>3 DEF Method!Refuse
  <2> QED
    BY <2>4 DEF Method!FFNext
<1> QED
  BY <1>3, <1>4

(* The search is invisible. *)
LEMMA SearchStutters ==
  ASSUME IInv, IInv', UNCHANGED <<graph, residual_graph, max_flow>>,
         pc \in {"bfs", "pop", "scan"}, pc' \in {"bfs", "pop", "scan"}
  PROVE  Unmoved
<1>1. Initialised /\ pc # "augment" /\ Initialised' /\ pc' # "augment"
  BY DEF Initialised
<1>2. SettledResidual = residual_graph /\ SettledResidual' = residual_graph'
  BY <1>1, MethodSees
<1> QED
  BY <1>2 DEF Unmoved, StatusOf

LEMMA Directed == IInv /\ Initialised => Method!CheckDirected(graph)
BY DEF IInv, Balance, CheckDirected, Method!CheckDirected, Vertices, Method!Vertices,
       weight, Method!weight

LEMMA BfsFailsRefines == IInv /\ IInv' /\ BfsFails => Method!FFNext
<1> SUFFICES ASSUME IInv, IInv', BfsFails PROVE Method!FFNext
  OBVIOUS
<1>1. /\ graph' = graph /\ max_flow' = max_flow /\ residual_graph' = residual_graph
      /\ pc = "pop" /\ pc' = "collect"
      /\ Initialised /\ pc # "augment" /\ Initialised' /\ pc' # "augment"
  BY DEF BfsFails, Initialised
<1>2. SettledResidual = residual_graph /\ SettledResidual' = residual_graph
  BY <1>1, MethodSees
<1>3. Method!AugmentingPaths(residual_graph) = {}
  <2>1. (IInv /\ pc \in {"collect", "done"} => Method!AugmentingPaths(residual_graph) = {})'
    BY NoPathAugments, PTL
  <2> QED
    BY <1>1, <2>1
<1>4. Method!Finish
  BY <1>1, <1>2, <1>3, Directed DEF Method!Finish
<1> QED
  BY <1>4 DEF Method!FFNext

(* Meeting the sink is the augmentation: the path found is pushed at once.  *)
LEMMA ScanReachSinkRefines == IInv /\ IInv' /\ ScanReachSink => Method!FFNext
<1> SUFFICES ASSUME IInv, IInv', ScanReachSink PROVE Method!FFNext
  OBVIOUS
<1>1. /\ v \in V /\ v = sink /\ u \in V /\ parent[source] # Unvisited /\ parent[v] = Unvisited
      /\ Narrowed \in Nat /\ Narrowed > 0
      /\ BottleneckTo(parent', residual_graph, v, Narrowed)
  BY Discovery DEF ScanReachSink
<1>2. /\ graph' = graph /\ residual_graph' = residual_graph /\ v' = v
      /\ new_flow' = Narrowed /\ max_flow' = max_flow + Narrowed
      /\ pc = "scan" /\ pc' = "augment"
      /\ Initialised /\ pc # "augment" /\ Initialised' = TRUE
  BY <1>1 DEF ScanReachSink, Initialised
<1>3. source # sink /\ residual_graph \in [V -> [V -> Int]] /\ Narrowed \in Int
  BY <1>1 DEF IInv, TypeOK, GraphsOn, V
<1>4. PICK p : PathTo(parent', residual_graph, p, v, Narrowed) /\ Tight(residual_graph, p, Narrowed)
  BY <1>1 DEF BottleneckTo
<1> DEFINE r == residual_graph  f == Narrowed  par == parent'
<1>5. p \in Method!AugmentingPaths(r) /\ Method!Bottleneck(r, p) = f
  <2>1. /\ PathTo(par, r, p, sink, f) /\ Tight(r, p, f) /\ r \in [V -> [V -> Int]]
        /\ f \in Int /\ f > 0
    BY <1>1, <1>3, <1>4
  <2> HIDE DEF r, f, par
  <2> QED
    BY <1>3, <2>1, PathAugments
<1>6. SettledResidual = r
  BY <1>2, MethodSees
<1>7. SettledResidual' = Method!Pushed(r, Method!PathArcs(p), f)
  <2>1. PathTo(par, r, p, v, f) /\ r \in [V -> [V -> Int]]
    BY <1>3, <1>4
  <2>2. View' = Settled(TRUE, graph', r, Pending(TRUE, par, v), f)
    <3>1. (pc' = "augment") = TRUE
      BY <1>2
    <3> QED
      BY <1>2, <3>1, Zenon DEF View, Settled, Pending, Anc
  <2> HIDE DEF r, f, par
  <2>3. Settled(TRUE, graph', r, Pending(TRUE, par, v), f)
          = Method!Pushed(r, Method!PathArcs(p), f)
    <3>1. v \in V
      BY <1>1
    <3>2. Pushes(graph', r, par, v, f, p)
      BY <2>1, <3>1, MethodSeesWalk, Zenon
    <3> QED
      BY <3>2, Zenon DEF Pushes
  <2> QED
    BY <2>2, <2>3, Views, Zenon
<1>8. Method!CheckDirected(graph)
  BY <1>2, Directed
<1>9. Method!Augment
  <2>1. StatusOf(pc) = "running" /\ StatusOf(pc') = "running"
    BY <1>2 DEF StatusOf
  <2>2. max_flow' = max_flow + Method!Bottleneck(SettledResidual, p)
    BY <1>2, <1>5, <1>6
  <2>3. SettledResidual' = Method!Pushed(SettledResidual, Method!PathArcs(p),
                                         Method!Bottleneck(SettledResidual, p))
    BY <1>5, <1>6, <1>7
  <2>4. p \in Method!AugmentingPaths(SettledResidual)
    BY <1>5, <1>6
  <2> QED
    BY <1>2, <1>8, <2>1, <2>2, <2>3, <2>4, Zenon DEF Method!Augment, StatusOf
<1> QED
  BY <1>9 DEF Method!FFNext

(* The walk is invisible. *)
LEMMA PushStutters == IInv /\ IInv' /\ Push => Unmoved
<1> SUFFICES ASSUME IInv, IInv', Push PROVE Unmoved
  OBVIOUS
<1> DEFINE r == residual_graph  n == residual_graph'  f == new_flow  x == parent[v]
<1>1. /\ graph' = graph /\ max_flow' = max_flow /\ parent' = parent /\ new_flow' = new_flow
      /\ pc = "augment" /\ pc' = "augment" /\ v' = x /\ v # source /\ v \in V
      /\ Initialised = TRUE /\ Initialised' = TRUE /\ f \in Int
  BY DEF Push, Initialised, IInv, WalkReachable, TypeOK
<1>2. r \in [V -> [V -> Int]] /\ n \in [V -> [V -> Int]]
  BY DEF IInv, TypeOK, GraphsOn, V
<1>3. PICK p : PathTo(parent, r, p, v, f)
  BY <1>1 DEF IInv, WalkReachable, Reachable
<1>4. x \in V /\ x # v
  <2> HIDE DEF r, f
  <2> QED
    BY <1>1, <1>3, PathHead
<1>5. /\ n[x][v] = r[x][v] - f /\ n[v][x] = r[v][x] + f
      /\ \A a, b \in V : (a # x \/ b # v) /\ (a # v \/ b # x) => n[a][b] = r[a][b]
  <2>1. n = [r EXCEPT ![x][v] = @ - f, ![v][x] = @ + f]
    BY DEF Push
  <2> HIDE DEF n, x, f, r
  <2> QED
    BY <1>1, <1>2, <1>4, <2>1
<1> DEFINE h == SubSeq(p, 1, Len(p) - 1)
<1>6. PathTo(parent, n, h, x, f)
  <2>1. \A a, b \in V : (a # x \/ b # v) => r[a][b] <= n[a][b]
    <3> SUFFICES ASSUME NEW a \in V, NEW b \in V, a # x \/ b # v PROVE r[a][b] <= n[a][b]
      OBVIOUS
    <3> HIDE DEF n, r, x
    <3>1. r[a][b] \in Int
      BY <1>2
    <3>2. f >= 0
      BY DEF IInv, TypeOK
    <3> QED
      BY <1>1, <1>5, <3>1, <3>2
  <2> HIDE DEF n, r, f
  <2> QED
    BY <1>1, <1>2, <1>3, <2>1, PathShortened
<1>7. SettledResidual = Method!Pushed(r, Method!PathArcs(p), f)
  <2>1. View = Settled(TRUE, graph, r, Pending(TRUE, parent, v), f)
    <3>1. (pc = "augment") = TRUE
      BY <1>1
    <3> QED
      BY <1>1, <3>1, Zenon DEF View, Settled, Pending, Anc
  <2> HIDE DEF r, f
  <2>2. Settled(TRUE, graph, r, Pending(TRUE, parent, v), f)
          = Method!Pushed(r, Method!PathArcs(p), f)
    <3>1. v \in V /\ r \in [V -> [V -> Int]]
      BY <1>1, <1>2
    <3>2. PathTo(parent, r, p, v, f)
      BY <1>3
    <3>3. Pushes(graph, r, parent, v, f, p)
      BY <3>1, <3>2, MethodSeesWalk, Zenon
    <3> QED
      BY <3>3, Zenon DEF Pushes
  <2> QED
    BY <2>1, <2>2, Views, Zenon
<1>8. SettledResidual' = Method!Pushed(n, Method!PathArcs(h), f)
  <2>1. View' = Settled(TRUE, graph, n, Pending(TRUE, parent, x), f)
    <3>1. (pc' = "augment") = TRUE /\ v' = x /\ parent' = parent /\ graph' = graph
          /\ new_flow' = f /\ Initialised' = TRUE
      BY <1>1
    <3>2. View' = Settled(Initialised', graph', n, Pending(pc' = "augment", parent', v'), new_flow')
      BY Zenon DEF View, Settled, Pending, Anc
    <3> HIDE DEF n, f, x
    <3> QED
      BY <3>1, <3>2, Zenon
  <2> HIDE DEF n, f, x, h
  <2>2. Settled(TRUE, graph, n, Pending(TRUE, parent, x), f)
          = Method!Pushed(n, Method!PathArcs(h), f)
    <3>1. x \in V /\ n \in [V -> [V -> Int]]
      BY <1>2, <1>4
    <3>2. Pushes(graph, n, parent, x, f, h)
      BY <1>6, <3>1, MethodSeesWalk, Zenon
    <3> QED
      BY <3>2, Zenon DEF Pushes
  <2> QED
    BY <2>1, <2>2, Views, Zenon
<1>9. Method!Pushed(n, Method!PathArcs(h), f) = Method!Pushed(r, Method!PathArcs(p), f)
  <2> HIDE DEF n, r, f
  <2>1. MovedAlong(r, n, parent[v], v, f)
    BY <1>5, Zenon DEF MovedAlong
  <2>2. f \in Int /\ v \in V \ {source}
    BY <1>1
  <2>3. r \in [V -> [V -> Int]] /\ n \in [V -> [V -> Int]]
    BY <1>2
  <2>4. PathTo(parent, r, p, v, f)
    BY <1>3
  <2>5. Invisible(r, n, p, f)
    BY <2>1, <2>2, <2>3, <2>4, PushIsInvisible, Zenon
  <2> QED
    BY <2>5, Zenon DEF Invisible
<1> QED
  BY <1>1, <1>7, <1>8, <1>9 DEF Unmoved

(* When the walk has reached the source nothing is pending.                *)
LEMMA WalkEndStutters == IInv /\ IInv' /\ WalkEnd => Unmoved
<1> SUFFICES ASSUME IInv, IInv', WalkEnd PROVE Unmoved
  OBVIOUS
<1> DEFINE r == residual_graph  f == new_flow
<1>1. /\ graph' = graph /\ max_flow' = max_flow /\ residual_graph' = r
      /\ pc = "augment" /\ pc' = "bfs" /\ v = source /\ v \in V
      /\ Initialised = TRUE /\ Initialised' /\ pc' # "augment"
  BY DEF WalkEnd, Initialised, IInv, WalkReachable
<1>2. SettledResidual' = r
  BY <1>1, MethodSees
<1>3. PICK p : PathTo(parent, r, p, v, f)
  BY <1>1 DEF IInv, WalkReachable, Reachable
<1>4. Method!PathArcs(p) = {}
  <2>1. /\ Len(p) \in Nat /\ Len(p) >= 1 /\ p[1] = source /\ p[Len(p)] = source
        /\ \A i, j \in 1..Len(p) : p[i] = p[j] => i = j
    <3>1. Shape(parent, r, p, v, f)
      BY <1>3, PathShape, Zenon
    <3> QED
      BY <1>1, <3>1 DEF Shape
  <2>2. Len(p) = 1
    <3>1. 1 \in 1..Len(p) /\ Len(p) \in 1..Len(p)
      BY <2>1
    <3> QED
      BY <2>1, <3>1
  <2>3. 1..(Len(p) - 1) = {}
    BY <2>2
  <2> QED
    BY <2>3 DEF Method!PathArcs
<1>5. Pending(TRUE, parent, v) = {}
  <2> HIDE DEF r, f
  <2> QED
    BY <1>1, <1>3, <1>4, PendingIsPath
<1>6. View = Settled(TRUE, graph, r, {}, f)
  <2>1. (pc = "augment") = TRUE
    BY <1>1
  <2>2. View = Settled(TRUE, graph, r, Pending(TRUE, parent, v), f)
    BY <1>1, <2>1, Zenon DEF View, Settled, Pending, Anc
  <2> QED
    BY <1>5, <2>2, Zenon
<1>7. SettledResidual = r
  <2>1. r \in [V -> [V -> Int]]
    BY DEF IInv, TypeOK, GraphsOn, V
  <2> HIDE DEF r, f
  <2>2. Settled(TRUE, graph, r, {}, f) = r
    BY <2>1, SettledAtRest
  <2> QED
    BY <1>6, <2>2, Views, Zenon
<1> QED
  BY <1>1, <1>2, <1>7 DEF Unmoved, StatusOf

LEMMA CollectStutters == IInv /\ IInv' /\ Collect => Unmoved
<1> SUFFICES ASSUME IInv, IInv', Collect PROVE Unmoved
  OBVIOUS
<1>1. /\ graph' = graph /\ max_flow' = max_flow /\ residual_graph' = residual_graph
      /\ pc = "collect" /\ pc' = "done"
      /\ Initialised /\ pc # "augment" /\ Initialised' /\ pc' # "augment"
  BY DEF Collect, Initialised
<1>2. SettledResidual = residual_graph /\ SettledResidual' = residual_graph'
  BY <1>1, MethodSees
<1> QED
  BY <1>1, <1>2 DEF Unmoved, StatusOf

LEMMA IdleStutters == UNCHANGED vars => Unmoved
<1> SUFFICES ASSUME UNCHANGED vars PROVE Unmoved
  OBVIOUS
<1>1. View' = View
  BY DEF vars, View, Settled, Initialised, Pending, Anc
<1>2. graph' = graph /\ max_flow' = max_flow /\ pc' = pc
  BY DEF vars
<1>3. SettledResidual' = SettledResidual
  BY <1>1, Views, Zenon
<1> QED
  BY <1>2, <1>3, Zenon DEF Unmoved

(* The loops of ford_fulkerson and bfs implement the Ford-Fulkerson method: *)
(* each augmentation of the method happens when a search meets the sink,   *)
(* along a path of the residual network and by its bottleneck, and the     *)
(* program ends when no such path is left.                                 *)
THEOREM Implementation == Spec => ImplementsMethod
<1>1. Init => Method!FFInit
  <2> SUFFICES ASSUME Init PROVE Method!FFInit
    OBVIOUS
  <2>1. graph \in Networks /\ max_flow = 0 /\ pc = "start" /\ ~Initialised
    BY DEF Init, Initialised
  <2>2. SettledResidual = graph
    BY <2>1, InitInv, MethodSees
  <2> QED
    BY <2>1, <2>2 DEF Method!FFInit
<1>2. IInv /\ IInv' /\ [Next]_vars => [Method!FFNext]_(Method!FFVars)
  <2> SUFFICES ASSUME IInv, IInv', [Next]_vars PROVE Method!FFNext \/ Unmoved
    BY UnmovedStutters
  <2>1. CASE Start
    BY <2>1, StartRefines
  <2>2. CASE BfsCall
    BY <2>2, SearchStutters DEF BfsCall
  <2>3. CASE Pop
    BY <2>3, SearchStutters DEF Pop
  <2>4. CASE BfsFails
    BY <2>4, BfsFailsRefines
  <2>5. CASE ScanSkip
    BY <2>5, SearchStutters DEF ScanSkip
  <2>6. CASE ScanDiscover
    BY <2>6, SearchStutters DEF ScanDiscover
  <2>7. CASE ScanReachSink
    BY <2>7, ScanReachSinkRefines
  <2>8. CASE ScanEnd
    BY <2>8, SearchStutters DEF ScanEnd
  <2>9. CASE Push
    BY <2>9, PushStutters
  <2>10. CASE WalkEnd
    BY <2>10, WalkEndStutters
  <2>11. CASE Collect
    BY <2>11, CollectStutters
  <2>12. CASE UNCHANGED vars
    BY <2>12, IdleStutters
  <2> QED
    BY <2>1, <2>2, <2>3, <2>4, <2>5, <2>6, <2>7, <2>8, <2>9, <2>10, <2>11, <2>12
       DEF Next, Terminated
<1> QED
  BY Invariance, <1>1, <1>2, PTL DEF Spec, ImplementsMethod, Method!FFSpec

-----------------------------------------------------------------------------
(* Shortest paths.  Ball is a recursive function; what the proofs use of   *)
(* it is BallLaw.  Ring(k) are the vertices k arcs away from the source.   *)

Wider(B) == B \cup { y \in V : \E x \in B : residual_graph[x][y] > 0 }

LEMMA BallUnfolded ==
  Ball = CHOOSE B : B = [k \in 0..size |-> IF k = 0 THEN {source} ELSE Wider(B[k - 1])]
BY Zenon DEF Ball, Wider

LEMMA BallLaw ==
  /\ Ball[0] = {source}
  /\ \A k \in 1..size : Ball[k] = Wider(Ball[k - 1])
  /\ \A k \in 0..size : Ball[k] \in SUBSET V
<1> DEFINE T == SUBSET V
           F(B) == [k \in 0..size |-> IF k = 0 THEN {source} ELSE Wider(B[k - 1])]
           P == [k \in 0..size |-> IF k = 0 THEN {{source}} ELSE T]
           R == [k \in 1..size |-> { p \in T \X T : p[2] = Wider(p[1]) }]
<1>1. size \in Nat /\ {source} \in T
  BY NetworkAssumption DEF NetworkAssumption, V
<1>2. \A B \in T : Wider(B) \in T
  BY DEF Wider
<1>3. P[0] # {} /\ \A k \in 0..size : P[k] \subseteq T
  <2>1. 0 \in 0..size
    BY <1>1
  <2>2. P[0] = {{source}}
    BY <2>1
  <2>3. ASSUME NEW k \in 0..size PROVE P[k] \subseteq T
    BY <1>1
  <2> QED
    BY <2>2, <2>3
<1>4. ASSUME NEW k \in 1..size, NEW a \in P[k - 1] PROVE \E b \in P[k] : <<a, b>> \in R[k]
  <2>1. k \in 0..size /\ k - 1 \in 0..size /\ k # 0
    BY <1>1
  <2>2. a \in T
    BY <1>3, <2>1
  <2>3. Wider(a) \in P[k] /\ <<a, Wider(a)>> \in R[k]
    BY <1>2, <2>1, <2>2
  <2> QED
    BY <2>3
<1>5. PICK f \in [0..size -> T] : /\ \A k \in 0..size : f[k] \in P[k]
                                  /\ \A k \in 1..size : <<f[k - 1], f[k]>> \in R[k]
  <2> HIDE DEF T, P, R
  <2> QED
    BY <1>1, <1>3, <1>4, Stepwise
<1>6. f = F(f)
  <2>1. f[0] = {source}
    BY <1>1, <1>5
  <2>2. \A k \in 0..size : k # 0 => k \in 1..size
    BY <1>1
  <2>3. \A k \in 1..size : f[k] = Wider(f[k - 1])
    BY <1>5
  <2>4. \A k \in 0..size : f[k] = F(f)[k]
    BY <2>1, <2>2, <2>3
  <2> QED
    BY <2>4
<1>7. Ball = F(Ball)
  BY <1>6, BallUnfolded, Zenon
<1>8. \A k \in 0..size : Ball[k] = IF k = 0 THEN {source} ELSE Wider(Ball[k - 1])
  BY <1>7
<1>9. Ball[0] = {source} /\ \A k \in 1..size : Ball[k] = Wider(Ball[k - 1])
  BY <1>1, <1>8
<1>10. \A k \in 0..size : Ball[k] \in T
  <2> DEFINE U == { k \in 0..size : Ball[k] \notin T }
  <2> SUFFICES ASSUME U # {} PROVE FALSE
    BY Zenon
  <2>1. PICK m \in U : \A j \in U : m <= j
    <3>1. U \in SUBSET Nat
      OBVIOUS
    <3> HIDE DEF U
    <3> QED
      BY <3>1, LeastNatural
  <2>2. m # 0
    BY <1>1, <1>9
  <2>3. m \in 1..size /\ m - 1 \in 0..size /\ ~(m <= m - 1)
    BY <1>1, <2>2
  <2>4. Ball[m - 1] \in T
    BY <2>1, <2>3
  <2>5. Ball[m] \in T
    BY <1>2, <1>9, <2>3, <2>4
  <2> QED
    BY <2>5
<1> QED
  BY <1>9, <1>10

Ring(k) == IF k = 0 THEN {source} ELSE Ball[k] \ Ball[k - 1]

(* Balls grow, and rings do not meet.                                      *)
LEMMA BallGrows ==
  ASSUME NEW k \in 0..size, NEW l \in k..size
  PROVE  Ball[k] \subseteq Ball[l]
<1> DEFINE U == { j \in 0..size : k <= j /\ ~(Ball[k] \subseteq Ball[j]) }
<1> SUFFICES ASSUME U # {} PROVE FALSE
  <2>1. l \in 0..size /\ k <= l
    BY NetworkAssumption DEF NetworkAssumption
  <2> QED
    BY <2>1
<1>1. PICK m \in U : \A j \in U : m <= j
  <2>1. U \in SUBSET Nat
    OBVIOUS
  <2> HIDE DEF U
  <2> QED
    BY <2>1, LeastNatural
<1>2. size \in Nat /\ m \in 0..size /\ k <= m /\ m # k
  BY NetworkAssumption DEF NetworkAssumption
<1>3. m \in 1..size /\ m - 1 \in 0..size /\ k <= m - 1 /\ ~(m <= m - 1)
  BY <1>2
<1>4. Ball[k] \subseteq Ball[m - 1]
  BY <1>1, <1>3
<1>5. Ball[m - 1] \subseteq Ball[m]
  BY <1>3, BallLaw DEF Wider
<1> QED
  BY <1>4, <1>5

LEMMA Rings ==
  /\ \A k \in 0..size : Ring(k) \subseteq Ball[k] /\ Ring(k) \subseteq V
  /\ \A k, l \in 0..size : \A x \in Ring(k) : x \in Ball[l] => k <= l
  /\ \A k, l \in 0..size : \A x \in Ring(k) : x \in Ring(l) => k = l
<1>1. size \in Nat
  BY NetworkAssumption DEF NetworkAssumption
<1>2. \A k \in 0..size : Ring(k) \subseteq Ball[k] /\ Ring(k) \subseteq V
  BY BallLaw DEF Ring
<1>3. ASSUME NEW k \in 0..size, NEW l \in 0..size, NEW x \in Ring(k), x \in Ball[l]
      PROVE  k <= l
  <2> SUFFICES ASSUME ~(k <= l) PROVE FALSE
    OBVIOUS
  <2>1. k # 0 /\ k - 1 \in 0..size /\ k - 1 \in l..size
    BY <1>1
  <2>2. Ball[l] \subseteq Ball[k - 1]
    BY <2>1, BallGrows
  <2> QED
    BY <1>3, <2>1, <2>2 DEF Ring
<1>4. ASSUME NEW k \in 0..size, NEW l \in 0..size, NEW x \in Ring(k), x \in Ring(l)
      PROVE  k = l
  <2>1. k <= l /\ l <= k
    BY <1>2, <1>3, <1>4
  <2> QED
    BY <2>1
<1> QED
  BY <1>2, <1>3, <1>4

(* A ring has another one inside, so that there are fewer than vertices.   *)
LEMMA RingsAreFew ==
  ASSUME NEW k \in 0..size, NEW x \in Ring(k)
  PROVE  k < size
<1>1. size \in Nat /\ size >= 1
  BY NetworkAssumption DEF NetworkAssumption
<1> SUFFICES ASSUME k = size PROVE FALSE
  BY <1>1
<1> DEFINE P == [j \in 0..size |-> Ring(size - j)]
           R == [j \in 1..size |-> V \X V]
<1>2. \A j \in 0..size : size - j \in 0..size /\ P[j] \subseteq V
  BY <1>1, Rings
<1>3. P[0] # {}
  BY <1>1
<1>4. ASSUME NEW j \in 1..size, NEW a \in P[j - 1] PROVE \E b \in P[j] : <<a, b>> \in R[j]
  <2> DEFINE l == size - (j - 1)
  <2>1. /\ l \in 1..size /\ l \in 0..size /\ l - 1 = size - j /\ l - 1 \in 0..size
        /\ j - 1 \in 0..size /\ j \in 0..size
    BY <1>1
  <2>2. a \in Ring(l)
    BY <2>1
  <2> HIDE DEF l
  <2>3. a \in Ball[l] /\ a \notin Ball[l - 1] /\ a \in V
    BY <2>1, <2>2, Rings DEF Ring
  <2>4. PICK b \in Ball[l - 1] : residual_graph[b][a] > 0
    BY <2>1, <2>3, BallLaw DEF Wider
  <2>5. b \in Ring(l - 1)
    <3> SUFFICES ASSUME l - 1 # 0, b \in Ball[(l - 1) - 1] PROVE FALSE
      <4>1. l - 1 = 0 => Ball[l - 1] = {source}
        BY BallLaw
      <4> QED
        BY <2>4, <4>1 DEF Ring
    <3>1. l - 1 \in 1..size
      BY <2>1
    <3>2. a \in Ball[l - 1]
      BY <2>3, <2>4, <3>1, BallLaw DEF Wider
    <3> QED
      BY <2>3, <3>2
  <2>6. b \in P[j] /\ b \in V
    BY <1>2, <2>1, <2>5
  <2> QED
    BY <2>3, <2>6
<1>5. PICK f \in [0..size -> V] : \A j \in 0..size : f[j] \in P[j]
  <2> HIDE DEF P, R
  <2> QED
    BY <1>1, <1>2, <1>3, <1>4, Stepwise
<1>6. PICK i \in 0..size, j \in 0..size : i # j /\ f[i] = f[j]
  <2>1. /\ IsFiniteSet(0..size) /\ Cardinality(0..size) = size + 1
        /\ IsFiniteSet(V) /\ Cardinality(V) = size
    BY <1>1, FS_Interval DEF V
  <2> QED
    BY <1>1, <2>1, FS_PigeonHole
<1>7. f[i] \in Ring(size - i) /\ f[i] \in Ring(size - j)
  BY <1>5, <1>6
<1>8. size - i = size - j
  BY <1>2, <1>7, Rings
<1> QED
  BY <1>1, <1>6, <1>8

LEMMA SameBall ==
  ASSUME UNCHANGED residual_graph
  PROVE  Ball' = Ball /\ \A k : Ring(k)' = Ring(k)
<1>1. Ball' = Ball
  BY DEF Ball
<1> QED
  BY <1>1 DEF Ring

(* The search goes through the rings from the inside out: of the queue,    *)
(* the vertices of ring c come first.                                      *)
Level(c) ==
  /\ \A x \in Ball[c] : Labelled(x)
  /\ \A x \in V : Labelled(x) => x \in Ball[c + 1]
  /\ \A i \in 1..Len(q) : q[i][1] \in Ring(c) \/ q[i][1] \in Ring(c + 1)
  /\ \A i, j \in 1..Len(q) : (i < j /\ q[j][1] \in Ring(c)) => q[i][1] \in Ring(c)
  /\ pc = "scan" => u \in Ring(c)

Leveled == Searching => \E c \in 0..(size - 1) : Level(c)

AtSink == pc = "augment" /\ v = sink

(* A label comes from one ring further inside.                             *)
Inward(x, p) == \E k \in 1..size : x \in Ring(k) /\ p \in Ring(k - 1)

ParentsInward ==
  (Searching \/ AtSink) => \A x \in V \ {source} : Labelled(x) => Inward(x, parent[x])

(* Nobody is discovered from the sink, so the walk leaves it for good.     *)
SinkLast ==
  source # sink =>
    /\ Searching => \A i \in 1..Len(q) : q[i][1] # sink
    /\ pc = "scan" => u # sink
    /\ (Searching \/ pc = "augment") => \A x \in V : parent[x] # sink

BInv == IInv /\ Leveled /\ ParentsInward /\ SinkLast

LEMMA BfsCallLevels == BInv /\ BfsCall /\ IInv' => BInv'
<1> SUFFICES ASSUME BInv, BfsCall, IInv' PROVE BInv'
  OBVIOUS
<1>1. /\ parent' = [[a \in V |-> Unvisited] EXCEPT ![source] = Root]
      /\ q' = << <<source, IntMax>> >> /\ pc' = "pop"
      /\ UNCHANGED <<graph, residual_graph>>
  BY DEF BfsCall
<1>2. /\ source \in V /\ sink \in V /\ Unvisited \notin V /\ Root \notin V /\ Root # Unvisited
      /\ size \in Nat /\ size >= 1
  BY Types, NetworkAssumption DEF BInv, IInv, NetworkAssumption
<1>3. parent'[source] = Root /\ \A x \in V : x # source => parent'[x] = Unvisited
  BY <1>1, <1>2
<1>4. Ball' = Ball /\ \A k : Ring(k)' = Ring(k)
  BY <1>1, SameBall
<1>5. Level(0)'
  <2>1. Ball[0] = {source} /\ Ring(0) = {source}
    BY BallLaw DEF Ring
  <2>2. source \in Ball[0 + 1]
    <3>1. 0 \in 0..size /\ 0 + 1 \in 0..size
      BY <1>2
    <3> QED
      BY <2>1, <3>1, BallGrows
  <2>3. Len(q') = 1 /\ q'[1][1] = source
    BY <1>1
  <2>4. \A i \in 1..Len(q') : i = 1
    BY <2>3
  <2> QED
    BY <1>1, <1>2, <1>3, <1>4, <2>1, <2>2, <2>3, <2>4 DEF Level, Labelled
<1>6. Leveled'
  <2>1. 0 \in 0..(size - 1)
    BY <1>2
  <2> QED
    BY <1>1, <1>5, <2>1 DEF Leveled
<1>7. ParentsInward'
  BY <1>3 DEF ParentsInward, Labelled
<1>8. SinkLast'
  <2>1. \A i \in 1..Len(q') : q'[i][1] = source
    BY <1>1
  <2> QED
    BY <1>1, <1>2, <1>3, <2>1 DEF SinkLast
<1> QED
  BY <1>6, <1>7, <1>8 DEF BInv

(* When the vertices of ring c are all scanned, all of ring c + 1 has been *)
(* labelled.                                                               *)
LEMMA PopLevels == BInv /\ Pop /\ IInv' => BInv'
<1> SUFFICES ASSUME BInv, Pop, IInv' PROVE BInv'
  OBVIOUS
<1>1. /\ pc = "pop" /\ pc' = "scan" /\ q # <<>> /\ u' = Head(q)[1] /\ q' = Tail(q)
      /\ UNCHANGED <<graph, residual_graph, parent>>
  BY DEF Pop
<1>2. size \in Nat /\ q \in Seq(V \X Nat) /\ Len(q) \in Nat /\ Len(q) >= 1
  <2>1. size \in Nat /\ q \in Seq(V \X Nat)
    BY NetworkAssumption DEF NetworkAssumption, BInv, IInv, TypeOK
  <2>2. Len(q) \in Nat /\ (Len(q) = 0 => q = <<>>)
    BY <2>1, EmptySeq, LenProperties
  <2> QED
    BY <1>1, <2>1, <2>2
<1>3. /\ u' = q[1][1] /\ Len(q') = Len(q) - 1
      /\ \A i \in 1..Len(q') : q'[i] = q[i + 1] /\ i + 1 \in 1..Len(q)
      /\ 1 \in 1..Len(q)
  <2>1. Len(q') = Len(q) - 1 /\ \A i \in 1..Len(q') : q'[i] = q[i + 1]
    BY <1>1, <1>2, HeadTailProperties, Zenon
  <2>2. u' = q[1][1]
    BY <1>1, <1>2
  <2> QED
    BY <1>2, <2>1, <2>2
<1>4. Ball' = Ball /\ \A k : Ring(k)' = Ring(k)
  BY <1>1, SameBall
<1>5. PICK c \in 0..(size - 1) : Level(c)
  BY <1>1 DEF BInv, Leveled, Searching
<1>6. c \in 0..size /\ c + 1 \in 0..size /\ c + 1 \in 1..size /\ (c + 1) - 1 = c /\ c # c + 1
  BY <1>2
<1>7. ParentsInward' /\ SinkLast'
  <2>1. ParentsInward'
    BY <1>1, <1>4 DEF BInv, ParentsInward, Searching, AtSink, Labelled, Inward
  <2>2. SinkLast'
    BY <1>1, <1>3 DEF BInv, SinkLast, Searching
  <2> QED
    BY <2>1, <2>2
<1>8. CASE q[1][1] \in Ring(c)
  <2>1. Level(c)'
    <3>1. \A i, j \in 1..Len(q') : i < j => i + 1 < j + 1
      BY <1>3
    <3> QED
      BY <1>1, <1>3, <1>4, <1>5, <1>8, <3>1 DEF Level, Labelled
  <2> QED
    BY <1>7, <2>1 DEF BInv, Leveled
<1>9. CASE q[1][1] \notin Ring(c)
  <2>1. \A i \in 1..Len(q) : q[i][1] \in Ring(c + 1)
    <3> SUFFICES ASSUME NEW i \in 1..Len(q), q[i][1] \in Ring(c) PROVE FALSE
      BY <1>5 DEF Level
    <3>1. i # 1
      BY <1>9
    <3>2. 1 < i
      BY <3>1
    <3> QED
      BY <1>3, <1>5, <1>9, <3>2 DEF Level
  <2>2. c + 1 < size
    BY <1>3, <1>6, <2>1, RingsAreFew
  <2>3. c + 1 \in 0..(size - 1) /\ (c + 1) + 1 \in 0..size /\ (c + 1) + 1 \in (c + 1)..size
    BY <1>2, <1>6, <2>2
  <2>4. ASSUME NEW x \in Ball[c] PROVE ScannedUpTo(x, size + 1)
    <3>1. x \in V /\ Labelled(x)
      BY <1>5, <1>6, BallLaw DEF Level
    <3>2. ~Queued(x)
      <4> SUFFICES ASSUME NEW i \in 1..Len(q), q[i][1] = x PROVE FALSE
        BY DEF Queued
      <4>1. x \in Ring(c + 1)
        BY <2>1
      <4> QED
        BY <1>6, <4>1 DEF Ring
    <3> QED
      BY <1>1, <3>1, <3>2 DEF BInv, IInv, SearchComplete
  <2>5. ASSUME NEW y \in Ball[c + 1] PROVE Labelled(y)
    <3>1. y \in V
      BY <1>6, BallLaw
    <3>2. CASE y \in Ball[c]
      BY <1>5, <3>2 DEF Level
    <3>3. CASE y \notin Ball[c]
      <4>1. PICK x \in Ball[c] : residual_graph[x][y] > 0
        BY <1>6, <3>3, BallLaw DEF Wider
      <4>2. y < size + 1
        BY <1>2, <3>1 DEF V
      <4>3. residual_graph[x][y] # 0
        BY <4>1
      <4> QED
        BY <2>4, <3>1, <4>2, <4>3 DEF ScannedUpTo
    <3> QED
      BY <3>2, <3>3
  <2>6. Ball[c + 1] \subseteq Ball[(c + 1) + 1]
    BY <1>6, <2>3, BallGrows
  <2>7. \A i \in 1..Len(q') : q'[i][1] \in Ring(c + 1)
    BY <1>3, <2>1
  <2>8. \A x \in V : Labelled(x) => x \in Ball[(c + 1) + 1]
    BY <1>5, <2>6 DEF Level
  <2>9. u' \in Ring(c + 1)
    BY <1>3, <2>1
  <2>10. Level(c + 1)'
    BY <1>1, <1>4, <2>5, <2>7, <2>8, <2>9 DEF Level, Labelled
  <2> QED
    BY <1>7, <2>3, <2>10 DEF BInv, Leveled
<1> QED
  BY <1>8, <1>9

(* What is discovered from ring c is in ring c + 1: nearer vertices have   *)
(* been labelled.                                                          *)
LEMMA DiscoverLevel ==
  ASSUME BInv, pc = "scan", v <= size, Discoverable, NEW c \in 0..(size - 1), Level(c)
  PROVE  /\ v \in V /\ u \in V /\ source # v /\ parent \in [V -> V \cup {Unvisited, Root, 0}]
         /\ c + 1 \in 1..size /\ (c + 1) - 1 = c
         /\ v \in Ring(c + 1) /\ u \in Ring(c)
<1>1. size \in Nat /\ c \in 0..size /\ c + 1 \in 1..size /\ (c + 1) - 1 = c /\ c + 1 # 0
  BY NetworkAssumption DEF NetworkAssumption
<1>2. /\ v \in V /\ u \in Ring(c) /\ u \in V
      /\ parent[v] = Unvisited /\ residual_graph[u][v] > 0
      /\ parent \in [V -> V \cup {Unvisited, Root, 0}]
  <2>1. v \in V
    <3>1. v \in 1..(size + 1)
      BY DEF BInv, IInv, TypeOK
    <3> QED
      BY <1>1, <3>1 DEF V
  <2>2. u \in Ring(c) /\ u \in V
    BY <1>1, Rings DEF Level
  <2> QED
    BY <2>1, <2>2 DEF BInv, IInv, TypeOK, Discoverable
<1>3. v \notin Ball[c]
  BY <1>2 DEF Level, Labelled
<1>4. u \in Ball[c]
  BY <1>1, <1>2, Rings
<1>5. v \in Ball[c + 1]
  BY <1>1, <1>2, <1>4, BallLaw DEF Wider
<1>6. source # v
  BY <1>2 DEF BInv, IInv, SearchComplete, Labelled
<1> QED
  BY <1>1, <1>2, <1>3, <1>5, <1>6 DEF Ring

LEMMA ScanDiscoverLevels == BInv /\ ScanDiscover /\ IInv' => BInv'
<1> SUFFICES ASSUME BInv, ScanDiscover, IInv' PROVE BInv'
  OBVIOUS
<1>1. /\ pc = "scan" /\ pc' = "scan" /\ v <= size /\ Discoverable /\ v # sink
      /\ parent' = [parent EXCEPT ![v] = u] /\ q' = Append(q, <<v, Narrowed>>)
      /\ UNCHANGED <<graph, residual_graph, u>>
  BY DEF ScanDiscover
<1>2. PICK c \in 0..(size - 1) : Level(c)
  BY <1>1 DEF BInv, Leveled, Searching
<1>3. /\ v \in V /\ u \in V /\ source # v /\ parent \in [V -> V \cup {Unvisited, Root, 0}]
      /\ c + 1 \in 1..size /\ (c + 1) - 1 = c
      /\ v \in Ring(c + 1) /\ u \in Ring(c)
  BY <1>1, <1>2, DiscoverLevel
<1>4. parent'[v] = u /\ \A x \in V : x # v => parent'[x] = parent[x]
  BY <1>1, <1>3
<1>5. /\ Len(q) \in Nat /\ Len(q') = Len(q) + 1 /\ q'[Len(q) + 1][1] = v
      /\ \A i \in 1..Len(q) : q'[i] = q[i]
      /\ \A i \in 1..Len(q') : i \in 1..Len(q) \/ i = Len(q) + 1
  BY <1>1 DEF BInv, IInv, TypeOK
<1>6. Ball' = Ball /\ \A k : Ring(k)' = Ring(k)
  BY <1>1, SameBall
<1>7. \A x \in V : Labelled(x)' <=> Labelled(x) \/ x = v
  <2>1. u # Unvisited
    BY <1>3, Types DEF BInv, IInv
  <2> QED
    BY <1>3, <1>4, <2>1 DEF Labelled
<1>8. size \in Nat /\ c \in 0..size /\ c + 1 \in 0..size /\ c # c + 1 /\ Ball[c] \subseteq V
      /\ v \in Ball[c + 1] /\ v \notin Ring(c)
  <2>1. size \in Nat
    BY NetworkAssumption DEF NetworkAssumption
  <2>2. c \in 0..size /\ c + 1 \in 0..size /\ c # c + 1
    BY <2>1
  <2> QED
    BY <1>3, <2>1, <2>2, BallLaw, Rings
<1>9. Level(c)'
  <2>1. \A x \in Ball[c] : Labelled(x)'
    BY <1>2, <1>7, <1>8 DEF Level
  <2>2. \A x \in V : Labelled(x)' => x \in Ball[c + 1]
    BY <1>2, <1>7, <1>8 DEF Level
  <2>3. \A i \in 1..Len(q') : q'[i][1] \in Ring(c) \/ q'[i][1] \in Ring(c + 1)
    BY <1>2, <1>3, <1>5 DEF Level
  <2>4. ASSUME NEW i \in 1..Len(q'), NEW j \in 1..Len(q'), i < j, q'[j][1] \in Ring(c)
        PROVE  q'[i][1] \in Ring(c)
    <3>1. j # Len(q) + 1
      BY <1>5, <1>8, <2>4
    <3>2. j \in 1..Len(q) /\ i \in 1..Len(q)
      BY <1>5, <2>4, <3>1
    <3> QED
      BY <1>2, <1>5, <2>4, <3>2 DEF Level
  <2> QED
    BY <1>1, <1>3, <1>6, <2>1, <2>2, <2>3, <2>4 DEF Level
<1>10. Leveled'
  BY <1>9 DEF Leveled
<1>11. ParentsInward'
  <2> SUFFICES ASSUME NEW x \in V \ {source}, Labelled(x)'
               PROVE  \E k \in 1..size : x \in Ring(k) /\ parent'[x] \in Ring(k - 1)
    BY <1>6 DEF ParentsInward, Inward
  <2>1. CASE x = v
    BY <1>3, <1>4, <2>1
  <2>2. CASE x # v
    BY <1>1, <1>4, <1>7, <2>2 DEF BInv, ParentsInward, Searching, Inward
  <2> QED
    BY <2>1, <2>2
<1>12. SinkLast'
  <2> SUFFICES ASSUME source # sink
               PROVE  /\ \A i \in 1..Len(q') : q'[i][1] # sink
                      /\ u # sink /\ \A x \in V : parent'[x] # sink
    BY <1>1 DEF SinkLast
  <2>1. \A i \in 1..Len(q') : q'[i][1] # sink
    BY <1>1, <1>5 DEF BInv, SinkLast, Searching
  <2>2. u # sink /\ \A x \in V : parent[x] # sink
    BY <1>1 DEF BInv, SinkLast, Searching
  <2> QED
    BY <1>4, <2>1, <2>2
<1> QED
  BY <1>10, <1>11, <1>12 DEF BInv

LEMMA ScanReachSinkLevels == BInv /\ ScanReachSink /\ IInv' => BInv'
<1> SUFFICES ASSUME BInv, ScanReachSink, IInv' PROVE BInv'
  OBVIOUS
<1>1. /\ pc = "scan" /\ pc' \in {"collect", "augment"} /\ v <= size /\ Discoverable /\ v = sink
      /\ parent' = [parent EXCEPT ![v] = u]
      /\ UNCHANGED <<graph, residual_graph, u, v>>
  BY DEF ScanReachSink
<1>2. PICK c \in 0..(size - 1) : Level(c)
  BY <1>1 DEF BInv, Leveled, Searching
<1>3. /\ v \in V /\ u \in V /\ source # v /\ parent \in [V -> V \cup {Unvisited, Root, 0}]
      /\ c + 1 \in 1..size /\ (c + 1) - 1 = c
      /\ v \in Ring(c + 1) /\ u \in Ring(c)
  BY <1>1, <1>2, DiscoverLevel
<1>4. parent'[v] = u /\ \A x \in V : x # v => parent'[x] = parent[x]
  BY <1>1, <1>3
<1>5. Ball' = Ball /\ \A k : Ring(k)' = Ring(k)
  BY <1>1, SameBall
<1>6. ParentsInward'
  <2> SUFFICES ASSUME NEW x \in V \ {source}, Labelled(x)'
               PROVE  \E k \in 1..size : x \in Ring(k) /\ parent'[x] \in Ring(k - 1)
    BY <1>5 DEF ParentsInward, Inward
  <2>1. CASE x = v
    BY <1>3, <1>4, <2>1
  <2>2. CASE x # v
    BY <1>1, <1>4, <2>2 DEF BInv, ParentsInward, Searching, Inward, Labelled
  <2> QED
    BY <2>1, <2>2
<1>7. SinkLast'
  <2> SUFFICES ASSUME source # sink PROVE \A x \in V : parent'[x] # sink
    BY <1>1 DEF SinkLast, Searching
  <2>1. u # sink /\ \A x \in V : parent[x] # sink
    BY <1>1 DEF BInv, SinkLast, Searching
  <2> QED
    BY <1>4, <2>1
<1> QED
  BY <1>1, <1>6, <1>7 DEF BInv, Leveled, Searching

(* The walk does not come back to the sink.                                *)
LEMMA PushLevels == BInv /\ Push /\ IInv' => BInv'
<1> SUFFICES ASSUME BInv, Push, IInv' PROVE BInv'
  OBVIOUS
<1>1. /\ pc = "augment" /\ pc' = "augment" /\ v' = parent[v] /\ v \in V
      /\ UNCHANGED <<parent, q, u>> /\ source # sink
  BY DEF Push, BInv, IInv, WalkReachable, Balance
<1>2. v' # sink
  BY <1>1 DEF BInv, SinkLast
<1> QED
  BY <1>1, <1>2 DEF BInv, Leveled, ParentsInward, SinkLast, Searching, AtSink

(* The other steps look at the queue and the labels only.                  *)
LEMMA OtherLevels ==
  BInv /\ (Start \/ BfsFails \/ ScanSkip \/ ScanEnd \/ WalkEnd \/ Collect \/ UNCHANGED vars)
       /\ IInv' => BInv'
<1>1. ASSUME BInv, IInv', Start \/ BfsFails \/ WalkEnd \/ Collect PROVE BInv'
  <2>1. pc' \notin {"pop", "scan", "augment"}
    BY <1>1 DEF Start, BfsFails, WalkEnd, Collect
  <2> QED
    BY <1>1, <2>1 DEF BInv, Leveled, ParentsInward, SinkLast, Searching, AtSink
<1>2. ASSUME BInv, IInv', ScanSkip \/ ScanEnd \/ UNCHANGED vars PROVE BInv'
  <2>1. /\ UNCHANGED <<residual_graph, parent, q, u>>
        /\ Searching' <=> Searching
        /\ pc' = "scan" => pc = "scan"
        /\ AtSink' <=> AtSink
        /\ pc' = "augment" => pc = "augment"
    BY <1>2 DEF ScanSkip, ScanEnd, vars, Searching, AtSink
  <2>2. Ball' = Ball /\ \A k : Ring(k)' = Ring(k)
    BY <2>1, SameBall
  <2>3. \A c : Level(c) => Level(c)'
    BY <2>1, <2>2 DEF Level, Labelled
  <2>4. Leveled'
    BY <1>2, <2>1, <2>3 DEF BInv, Leveled
  <2>5. ParentsInward' /\ SinkLast'
    BY <1>2, <2>1, <2>2 DEF BInv, ParentsInward, SinkLast, Labelled, Inward
  <2> QED
    BY <1>2, <2>4, <2>5 DEF BInv
<1> QED
  BY <1>1, <1>2

LEMMA BInvariance == Spec => []BInv
<1>1. Init => BInv
  BY InitInv DEF Init, BInv, Leveled, ParentsInward, SinkLast, Searching, AtSink
<1>2. BInv /\ [Next]_vars /\ IInv' => BInv'
  BY BfsCallLevels, PopLevels, ScanDiscoverLevels, ScanReachSinkLevels, PushLevels, OtherLevels,
     Zenon DEF Next, Terminated
<1> QED
  BY <1>1, <1>2, Invariance, PTL DEF Spec

(* The path that bfs returns is a shortest one: its vertices are in the    *)
(* rings 0, 1, 2, ..., and the sink is in no smaller ball than the last.   *)
THEOREM PathsAreShortest == Spec => []ShortestAugmentingPath
<1>1. BInv => ShortestAugmentingPath
  <2> SUFFICES ASSUME BInv, pc = "augment", v = sink PROVE PathLength = Distance
    BY DEF ShortestAugmentingPath
  <2>1. PICK p : PathTo(parent, residual_graph, p, sink, new_flow)
    BY DEF BInv, IInv, WalkReachable, Reachable
  <2>2. /\ sink \in V /\ source \in V /\ Unvisited \notin V /\ size \in Nat /\ 0 \in 0..size
        /\ source # sink
    BY Types, NetworkAssumption DEF NetworkAssumption, BInv, IInv, Balance
  <2> DEFINE n == Len(p)
  <2>3. /\ n \in Nat /\ n >= 1 /\ p[1] = source /\ p[n] = sink
        /\ \A i \in 1..n : p[i] \in V
        /\ \A i \in 2..n : i - 1 \in 1..n /\ parent[p[i]] = p[i - 1]
        /\ \A i, j \in 1..n : p[i] = p[j] => i = j
    <3>1. Shape(parent, residual_graph, p, sink, new_flow)
      BY <2>1, <2>2, PathShape, Zenon
    <3> QED
      BY <3>1 DEF Shape
  <2> HIDE DEF n
  <2>4. ASSUME NEW i \in 1..n PROVE i - 1 \in 0..size /\ p[i] \in Ring(i - 1)
    <3> DEFINE U == { j \in 1..n : ~(j - 1 \in 0..size /\ p[j] \in Ring(j - 1)) }
    <3> SUFFICES ASSUME U # {} PROVE FALSE
      OBVIOUS
    <3>1. PICK m \in U : \A j \in U : m <= j
      <4>1. U \in SUBSET Nat
        OBVIOUS
      <4> HIDE DEF U
      <4> QED
        BY <4>1, LeastNatural
    <3>2. m # 1
      BY <2>2, <2>3 DEF Ring
    <3>3. m \in 2..n /\ m \in 1..n /\ m - 1 \in 1..n /\ ~(m <= m - 1)
      BY <2>3, <3>2
    <3>4. (m - 1) - 1 \in 0..size /\ p[m - 1] \in Ring((m - 1) - 1)
      BY <3>1, <3>3
    <3>5. p[m] \in V \ {source} /\ Labelled(p[m]) /\ parent[p[m]] = p[m - 1]
      <4>1. 1 \in 1..n /\ p[m] # source
        BY <2>3, <3>3
      <4> QED
        BY <2>2, <2>3, <3>3, <4>1 DEF Labelled
    <3>6. PICK k \in 1..size : p[m] \in Ring(k) /\ p[m - 1] \in Ring(k - 1)
      BY <3>5 DEF BInv, ParentsInward, AtSink, Inward
    <3>7. k - 1 = (m - 1) - 1
      <4>1. k - 1 \in 0..size
        BY <2>2
      <4> QED
        BY <3>4, <3>6, <4>1, Rings
    <3>8. k = m - 1 /\ m - 1 \in 0..size
      BY <2>2, <3>3, <3>7
    <3> QED
      BY <3>6, <3>8
  <2>5. /\ n - 1 \in 0..size /\ sink \in Ring(n - 1) /\ sink \in Ball[n - 1]
        /\ \A k \in 0..size : sink \in Ball[k] => n - 1 <= k
    <3>1. n \in 1..n
      BY <2>3
    <3>2. n - 1 \in 0..size /\ sink \in Ring(n - 1)
      BY <2>3, <2>4, <3>1
    <3> QED
      BY <3>2, Rings
  <2>6. Distance = n - 1
    <3> DEFINE D == { k \in 0..size : k = size \/ sink \in Ball[k] }
    <3>1. n - 1 \in D
      BY <2>5
    <3>2. \A k \in D : n - 1 <= k
      BY <2>5
    <3>3. Distance = CHOOSE m \in D : \A k \in D : m <= k
      BY Zenon DEF Distance, Min
    <3>4. Distance \in D /\ \A k \in D : Distance <= k
      <4> HIDE DEF D
      <4> QED
        BY <3>1, <3>2, <3>3, Zenon
    <3>5. Distance <= n - 1 /\ n - 1 <= Distance
      BY <3>1, <3>2, <3>4
    <3>6. Distance \in Int
      BY <3>4
    <3> HIDE DEF D
    <3> QED
      BY <2>3, <3>5, <3>6
  <2>7. PathLength = n - 1
    <3>1. Ancestors(sink) = { p[i] : i \in 1..n }
      <4>1. Anc(parent, sink) = { p[i] : i \in 1..n }
        BY <2>1, <2>2, PathAncestors DEF n
      <4> QED
        BY <4>1, Zenon DEF Ancestors, Anc
    <3> DEFINE f == [i \in 1..n |-> p[i]]
               S == { p[i] : i \in 1..n }
    <3>2. f \in Bijection(1..n, S)
      <4>1. f \in [1..n -> S] /\ \A i \in 1..n : f[i] = p[i]
        OBVIOUS
      <4>2. \A y \in S : \E i \in 1..n : f[i] = y
        OBVIOUS
      <4> HIDE DEF f, S
      <4>3. \A i, j \in 1..n : f[i] = f[j] => i = j
        BY <2>3, <4>1
      <4> QED
        BY <4>1, <4>2, <4>3 DEF Bijection, Injection, Surjection, IsInjective
    <3>3. IsFiniteSet(1..n) /\ Cardinality(1..n) = n
      BY <2>3, FS_Interval
    <3>4. Cardinality(S) = n
      <4> HIDE DEF f, S
      <4> QED
        BY <3>2, <3>3, FS_Bijection DEF ExistsBijection
    <3> QED
      BY <3>1, <3>4 DEF PathLength
  <2> QED
    BY <2>6, <2>7
<1> QED
  BY BInvariance, <1>1, PTL

-----------------------------------------------------------------------------
(***************************************************************************)
(* The method by itself, with a state of its own on the same networks:     *)
(* whatever path it takes, the residual network describes a flow, and when *)
(* none is left the vertices that can be reached are a saturated cut.      *)
(***************************************************************************)
(* The residual network is sound and describes a flow of the value; the    *)
(* method ends only when no path is left.                                  *)
MethodInv ==
  /\ graph \in Networks
  /\ residual \in [V -> [V -> Int]]
  /\ value \in Int
  /\ \A a, b \in V : /\ residual[a][b] >= 0
                     /\ residual[a][b] + residual[b][a] = graph[a][b] + graph[b][a]
  /\ \A x \in V \ {sink} : Out(graph, residual, x) = IF x = source THEN value ELSE 0
  /\ source = sink => value = 0
  /\ status = "finished" => AugmentingPaths(residual) = {}

(* The lemmas about the paths of the instance hold of those of the method. *)
LEMMA SamePaths ==
  ASSUME NEW m
  PROVE  PathsFrom(m) = Method!PathsFrom(m)
BY Zenon DEF PathsFrom, Method!PathsFrom, Arcs, Method!Arcs, Vertices,
             Method!Vertices, weight, Method!weight

(* The augmenting paths are the simple ones to the sink.                   *)
LEMMA AugmentingAreSimple ==
  ASSUME NEW m \in [V -> [V -> Int]]
  PROVE  /\ \A p \in AugmentingPaths(m) :
              \E k \in 1..(size - 1) : p \in Simple(m, k) /\ Len(p) = k + 1 /\ p[k + 1] = sink
         /\ \A k \in 1..(size - 1) : \A p \in Simple(m, k) :
              p[k + 1] = sink => p \in AugmentingPaths(m)
<1>1. \A k \in 1..(size - 1) : k \in 0..size /\ k \in Nat
  BY NetworkAssumption DEF NetworkAssumption
<1>2. ASSUME NEW k \in 1..(size - 1)
      PROVE  PathsFrom(m)[k] = Simple(m, k)
  <2>1. PathsFrom(m) = Method!PathsFrom(m)
    BY SamePaths, Zenon
  <2> QED
    BY <1>1, <2>1, PathsAreSimple
<1>3. ASSUME NEW k \in 1..(size - 1), NEW p \in Simple(m, k)
      PROVE  Len(p) = k + 1
  <2>1. p \in [1..(k + 1) -> V] /\ k + 1 \in Nat
    BY <1>1 DEF Simple
  <2>2. p \in Seq(V)
    BY <2>1, SeqDef
  <2> QED
    BY <2>1, <2>2, LenProperties
<1>4. AugmentingPaths(m) =
        { p \in UNION { PathsFrom(m)[k] : k \in 1..(size - 1) } : p[Len(p)] = sink }
  BY Zenon DEF AugmentingPaths
<1>5. ASSUME NEW p \in AugmentingPaths(m)
      PROVE  \E k \in 1..(size - 1) :
               p \in Simple(m, k) /\ Len(p) = k + 1 /\ p[k + 1] = sink
  <2>1. PICK k \in 1..(size - 1) : p \in PathsFrom(m)[k] /\ p[Len(p)] = sink
    BY <1>4
  <2> QED
    BY <1>2, <1>3, <2>1
<1>6. ASSUME NEW k \in 1..(size - 1), NEW p \in Simple(m, k), p[k + 1] = sink
      PROVE  p \in AugmentingPaths(m)
  <2>1. p \in PathsFrom(m)[k] /\ p[Len(p)] = sink
    BY <1>2, <1>3, <1>6
  <2> QED
    BY <1>4, <2>1
<1> QED
  BY <1>5, <1>6

(* Of a simple path no arc is taken in both directions, and every vertex   *)
(* but its ends is entered once and left once.                             *)
FirstArcs(p, k) == { <<p[i], p[i + 1]>> : i \in 1..k }

LEMMA ArcsOfPath ==
  ASSUME NEW m \in [V -> [V -> Int]], NEW k \in Nat \ {0}, NEW p \in Simple(m, k)
  PROVE  /\ \A a, b \in V : <<a, b>> \in FirstArcs(p, k) => <<b, a>> \notin FirstArcs(p, k)
         /\ \A i \in 1..k : \A y \in V : <<p[i], y>> \in FirstArcs(p, k) <=> y = p[i + 1]
         /\ \A i \in 2..(k + 1) : \A y \in V : <<y, p[i]>> \in FirstArcs(p, k) <=> y = p[i - 1]
         /\ \A y \in V : <<y, source>> \notin FirstArcs(p, k)
         /\ \A x \in V : (\A i \in 1..(k + 1) : p[i] # x) =>
              \A y \in V : <<x, y>> \notin FirstArcs(p, k) /\ <<y, x>> \notin FirstArcs(p, k)
<1>1. /\ p \in [1..(k + 1) -> V] /\ p[1] = source
      /\ \A i, j \in 1..(k + 1) : p[i] = p[j] => i = j
  BY DEF Simple
<1>2. /\ \A i \in 1..k : i \in 1..(k + 1) /\ i + 1 \in 1..(k + 1) /\ i + 1 # 1
      /\ \A i, j \in 1..k : ~(j = i + 1 /\ j + 1 = i)
      /\ \A i \in 2..(k + 1) : i \in 1..(k + 1) /\ i - 1 \in 1..k /\ (i - 1) + 1 = i
      /\ 1 \in 1..(k + 1)
      /\ \A i, j \in 1..k : i + 1 = j + 1 => i = j
  OBVIOUS
<1>3. \A a, b : <<a, b>> \in FirstArcs(p, k) <=> \E i \in 1..k : a = p[i] /\ b = p[i + 1]
  BY DEF FirstArcs
<1>4. ASSUME NEW a \in V, NEW b \in V, <<a, b>> \in FirstArcs(p, k), <<b, a>> \in FirstArcs(p, k)
      PROVE  FALSE
  <2>1. PICK i \in 1..k : a = p[i] /\ b = p[i + 1]
    BY <1>3, <1>4
  <2>2. PICK j \in 1..k : b = p[j] /\ a = p[j + 1]
    BY <1>3, <1>4
  <2>3. j = i + 1 /\ j + 1 = i
    BY <1>1, <1>2, <2>1, <2>2
  <2> QED
    BY <1>2, <2>3
<1>5. ASSUME NEW i \in 1..k, NEW y \in V
      PROVE  <<p[i], y>> \in FirstArcs(p, k) <=> y = p[i + 1]
  <2>1. ASSUME NEW j \in 1..k, p[i] = p[j] PROVE i = j
    BY <1>1, <1>2, <2>1
  <2> QED
    BY <1>3, <2>1
<1>6. ASSUME NEW i \in 2..(k + 1), NEW y \in V
      PROVE  <<y, p[i]>> \in FirstArcs(p, k) <=> y = p[i - 1]
  <2>1. ASSUME NEW j \in 1..k, p[i] = p[j + 1] PROVE j = i - 1
    <3>1. i = j + 1
      BY <1>1, <1>2, <2>1
    <3> QED
      BY <3>1
  <2>2. ASSUME y = p[i - 1] PROVE <<y, p[i]>> \in FirstArcs(p, k)
    <3>1. i - 1 \in 1..k /\ p[i] = p[(i - 1) + 1]
      BY <1>2
    <3> QED
      BY <1>3, <2>2, <3>1
  <2>3. ASSUME <<y, p[i]>> \in FirstArcs(p, k) PROVE y = p[i - 1]
    <3>1. PICK j \in 1..k : y = p[j] /\ p[i] = p[j + 1]
      BY <1>3, <2>3
    <3> QED
      BY <2>1, <3>1
  <2> QED
    BY <2>2, <2>3
<1>7. ASSUME NEW y \in V, <<y, source>> \in FirstArcs(p, k) PROVE FALSE
  <2>1. PICK i \in 1..k : source = p[i + 1]
    BY <1>3, <1>7
  <2>2. i + 1 = 1
    BY <1>1, <1>2, <2>1
  <2> QED
    BY <1>2, <2>2
<1>8. ASSUME NEW x \in V, \A i \in 1..(k + 1) : p[i] # x, NEW y \in V
      PROVE  <<x, y>> \notin FirstArcs(p, k) /\ <<y, x>> \notin FirstArcs(p, k)
  BY <1>2, <1>3, <1>8
<1> QED
  BY <1>4, <1>5, <1>6, <1>7, <1>8


(* m with a flow f pushed along the arcs of A.                             *)
Along(m, A, f) ==
  [a \in V |-> [b \in V |-> m[a][b] - (IF <<a, b>> \in A THEN f ELSE 0)
                                     + (IF <<b, a>> \in A THEN f ELSE 0)]]

Matrices == [V -> [V -> Int]]

(* p is a simple path of m to the sink with room for flow f. *)
Route(m, k, p, f) ==
  /\ m \in Matrices /\ \A a, b \in V : m[a][b] >= 0
  /\ k \in Nat \ {0} /\ p \in Simple(m, k) /\ p[k + 1] = sink
  /\ f \in Nat \ {0} /\ \A i \in 1..k : f <= m[p[i]][p[i + 1]]

(* From m to n the source alone sends out more than before, by f.          *)
Forwards(g, m, n, f) ==
  \A x \in V \ {sink} : Out(g, n, x) = Out(g, m, x) + (IF x = source THEN f ELSE 0)

(* n shares out anew what the arcs of m and their reverses have together.  *)
Sound(m, n) ==
  /\ n \in Matrices
  /\ \A a, b \in V : n[a][b] >= 0 /\ n[a][b] + n[b][a] = m[a][b] + m[b][a]

(* A flow pushed along it leaves the source and arrives at the sink, and    *)
(* passes through every other vertex.                                      *)
LEMMA PassesThrough ==
  ASSUME NEW g \in Matrices, NEW m, NEW k, NEW p, NEW f, Route(m, k, p, f)
  PROVE  Forwards(g, m, Along(m, FirstArcs(p, k), f), f)
<1> SUFFICES ASSUME NEW x \in V \ {sink}
             PROVE  Out(g, Along(m, FirstArcs(p, k), f), x)
                      = Out(g, m, x) + (IF x = source THEN f ELSE 0)
  BY DEF Forwards
<1>0. /\ g \in [V -> [V -> Int]] /\ m \in [V -> [V -> Int]] /\ f \in Int
      /\ k \in Nat \ {0} /\ p \in Simple(m, k) /\ p[k + 1] = sink
  BY DEF Route, Matrices
<1> DEFINE A == FirstArcs(p, k)  n == Along(m, A, f)
           before == [y \in V |-> g[x][y] - m[x][y]]
           after == [y \in V |-> g[x][y] - n[x][y]]
           out == [y \in V |-> IF <<x, y>> \in A THEN f ELSE 0]
           in == [y \in V |-> IF <<y, x>> \in A THEN -f ELSE 0]
           more == [y \in V |-> out[y] + in[y]]
           Sum(h) == SumFunctionOnSet(h, V)
<1>1. \A y \in V : /\ out[y] = (IF <<x, y>> \in A THEN f ELSE 0)
                   /\ in[y] = (IF <<y, x>> \in A THEN -f ELSE 0)
                   /\ out[y] \in Int /\ in[y] \in Int /\ more[y] \in Int
                   /\ more[y] = out[y] + in[y]
                   /\ before[y] \in Int /\ after[y] = before[y] + more[y]
  <2>1. \A y \in V : g[x][y] \in Int /\ m[x][y] \in Int
    BY <1>0
  <2>2. \A y \in V : n[x][y] = m[x][y] - (IF <<x, y>> \in A THEN f ELSE 0)
                                       + (IF <<y, x>> \in A THEN f ELSE 0)
    BY DEF Along
  <2>3. \A y \in V : /\ before[y] = g[x][y] - m[x][y] /\ after[y] = g[x][y] - n[x][y]
                     /\ out[y] = (IF <<x, y>> \in A THEN f ELSE 0)
                     /\ in[y] = (IF <<y, x>> \in A THEN -f ELSE 0)
                     /\ more[y] = out[y] + in[y]
    OBVIOUS
  <2> HIDE DEF A, n, before, after, out, in, more
  <2>4. ASSUME NEW y \in V
        PROVE  /\ out[y] \in Int /\ in[y] \in Int /\ more[y] \in Int
               /\ before[y] \in Int /\ after[y] = before[y] + more[y]
    <3>1. /\ g[x][y] \in Int /\ m[x][y] \in Int
          /\ n[x][y] = m[x][y] - (IF <<x, y>> \in A THEN f ELSE 0)
                              + (IF <<y, x>> \in A THEN f ELSE 0)
      BY <2>1, <2>2
    <3>2. out[y] = (IF <<x, y>> \in A THEN f ELSE 0) /\ in[y] = (IF <<y, x>> \in A THEN -f ELSE 0)
      BY <2>3
    <3>3. more[y] = out[y] + in[y] /\ before[y] = g[x][y] - m[x][y] /\ after[y] = g[x][y] - n[x][y]
      BY <2>3
    <3>4. out[y] \in Int /\ in[y] \in Int
      BY <1>0, <3>2
    <3>5. n[x][y] = m[x][y] - (out[y] + in[y])
      <4>1. CASE <<y, x>> \in A
        <5>1. n[x][y] = m[x][y] - out[y] + f /\ in[y] = -f
          BY <3>1, <3>2, <4>1
        <5>2. f \in Int /\ m[x][y] \in Int /\ out[y] \in Int
          BY <1>0, <3>1, <3>4
        <5> HIDE DEF out, in, n
        <5> QED
          BY <5>1, <5>2
      <4>2. CASE <<y, x>> \notin A
        BY <1>0, <3>1, <3>2, <4>2
      <4> QED
        BY <4>1, <4>2
    <3> QED
      BY <1>0, <3>1, <3>3, <3>4, <3>5
  <2> QED
    BY <2>3, <2>4
<1>2. /\ \A i \in 1..k : \A y \in V : <<p[i], y>> \in A <=> y = p[i + 1]
      /\ \A i \in 2..(k + 1) : \A y \in V : <<y, p[i]>> \in A <=> y = p[i - 1]
      /\ \A y \in V : <<y, source>> \notin A
      /\ (\A i \in 1..(k + 1) : p[i] # x) =>
           \A y \in V : <<x, y>> \notin A /\ <<y, x>> \notin A
  BY <1>0, ArcsOfPath
<1>3. /\ p \in [1..(k + 1) -> V] /\ p[1] = source
      /\ \A i \in 1..k : i + 1 \in 1..(k + 1)
      /\ \A i \in 1..k : i # 1 => i \in 2..(k + 1) /\ i - 1 \in 1..(k + 1)
  <2>1. /\ \A i \in 1..k : i + 1 \in 1..(k + 1)
        /\ \A i \in 1..k : i # 1 => i \in 2..(k + 1) /\ i - 1 \in 1..(k + 1)
    BY <1>0
  <2> QED
    BY <1>0, <2>1 DEF Simple
<1>4. Out(g, n, x) = Sum(after) /\ Out(g, m, x) = Sum(before)
  BY Zenon DEF Out
<1> HIDE DEF A, n, before, after, out, in, more
<1>a. f \in Int /\ k \in Nat \ {0} /\ p[k + 1] = sink
  BY <1>0
<1>5. Sum(after) = Sum(before) + Sum(more) /\ Sum(more) = Sum(out) + Sum(in)
      /\ Sum(before) \in Int
  <2>1. Sum(after) = Sum(before) + Sum(more)
    <3>1. \A y \in V : before[y] \in Int /\ more[y] \in Int /\ after[y] = before[y] + more[y]
      BY <1>1
    <3> QED
      BY <3>1, FiniteV, SumPlus
  <2>2. Sum(more) = Sum(out) + Sum(in)
    <3>1. \A y \in V : out[y] \in Int /\ in[y] \in Int /\ more[y] = out[y] + in[y]
      BY <1>1
    <3> QED
      BY <3>1, FiniteV, SumPlus
  <2>3. Sum(before) \in Int
    BY <1>1, FiniteV, SumInt
  <2> QED
    BY <2>1, <2>2, <2>3
<1>6. CASE \A i \in 1..(k + 1) : p[i] # x
  <2>1. \A y \in V : out[y] = 0 /\ in[y] = 0
    BY <1>1, <1>2, <1>6
  <2>2. Sum(out) = 0 /\ Sum(in) = 0
    BY <2>1, FiniteV, SumZero
  <2>3. x # source
    <3>1. 1 \in 1..(k + 1)
      BY <1>a
    <3> QED
      BY <1>3, <1>6, <3>1
  <2> QED
    BY <1>4, <1>5, <2>2, <2>3 DEF n, A
<1>7. CASE \E i \in 1..(k + 1) : p[i] = x
  <2>1. PICK i \in 1..k : p[i] = x
    BY <1>7, <1>a
  <2>2. Sum(out) = f
    <3> DEFINE y == p[i + 1]
    <3>1. y \in V /\ out[y] = f /\ out[y] \in Int /\ \A z \in V \ {y} : out[z] = 0
      BY <1>1, <1>2, <1>3, <1>a, <2>1
    <3> HIDE DEF y
    <3>2. Sum(out) = out[y]
      BY <3>1, FiniteV, SumOne
    <3> QED
      BY <3>1, <3>2
  <2>3. CASE x = source
    <3>1. \A y \in V : in[y] = 0
      BY <1>1, <1>2, <2>3
    <3>2. Sum(in) = 0
      BY <3>1, FiniteV, SumZero
    <3> QED
      BY <1>4, <1>5, <1>a, <2>2, <2>3, <3>2 DEF n, A
  <2>4. CASE x # source
    <3> DEFINE y == p[i - 1]
    <3>1. i # 1
      BY <1>3, <2>1, <2>4
    <3>2. i \in 2..(k + 1) /\ i - 1 \in 1..(k + 1)
      BY <1>3, <3>1
    <3>3. \A z \in V : <<z, x>> \in A <=> z = y
      BY <1>2, <2>1, <3>2
    <3>4. y \in V /\ in[y] = -f /\ in[y] \in Int /\ \A z \in V \ {y} : in[z] = 0
      BY <1>1, <1>3, <3>2, <3>3
    <3> HIDE DEF y
    <3>5. Sum(in) = in[y]
      BY <3>4, FiniteV, SumOne
    <3> QED
      BY <1>4, <1>5, <1>a, <2>2, <2>4, <3>4, <3>5 DEF n, A
  <2> QED
    BY <2>3, <2>4
<1> QED
  BY <1>6, <1>7

(* No residual capacity is overspent, and those of an arc and its reverse  *)
(* keep their sum.                                                         *)
LEMMA SpendsWhatIsThere ==
  ASSUME NEW m, NEW k, NEW p, NEW f, Route(m, k, p, f)
  PROVE  Sound(m, Along(m, FirstArcs(p, k), f))
<1> DEFINE A == FirstArcs(p, k)  n == Along(m, A, f)
<1>0. /\ m \in [V -> [V -> Int]] /\ \A a, b \in V : m[a][b] >= 0
      /\ k \in Nat \ {0} /\ p \in Simple(m, k) /\ f \in Nat
      /\ \A i \in 1..k : f <= m[p[i]][p[i + 1]]
  BY DEF Route, Matrices
<1>1. \A a, b \in V : <<a, b>> \in A => <<b, a>> \notin A
  BY <1>0, ArcsOfPath
<1>2. \A a, b \in V : <<a, b>> \in A => f <= m[a][b]
  BY <1>0 DEF FirstArcs
<1>3. \A a, b \in V : n[a][b] = m[a][b] - (IF <<a, b>> \in A THEN f ELSE 0)
                                        + (IF <<b, a>> \in A THEN f ELSE 0)
  BY DEF Along
<1>4. \A a, b \in V : m[a][b] \in Int
  BY <1>0
<1> HIDE DEF A, n
<1>5. ASSUME NEW a \in V, NEW b \in V
      PROVE  n[a][b] >= 0 /\ n[a][b] + n[b][a] = m[a][b] + m[b][a]
  <2>1. /\ m[a][b] \in Int /\ m[b][a] \in Int /\ m[a][b] >= 0
        /\ <<a, b>> \in A => f <= m[a][b] /\ <<b, a>> \notin A
    BY <1>0, <1>1, <1>2, <1>4
  <2>2. /\ n[a][b] = m[a][b] - (IF <<a, b>> \in A THEN f ELSE 0)
                            + (IF <<b, a>> \in A THEN f ELSE 0)
        /\ n[b][a] = m[b][a] - (IF <<b, a>> \in A THEN f ELSE 0)
                            + (IF <<a, b>> \in A THEN f ELSE 0)
    BY <1>3
  <2> QED
    BY <1>0, <2>1, <2>2
<1>6. n \in [V -> [V -> Int]]
  <2>1. \A a, b \in V : m[a][b] - (IF <<a, b>> \in A THEN f ELSE 0)
                                + (IF <<b, a>> \in A THEN f ELSE 0) \in Int
    BY <1>0, <1>4
  <2> QED
    BY <2>1 DEF Along, n
<1> QED
  BY <1>5, <1>6 DEF Sound, Matrices, n, A

(* The bottleneck of a path fits every arc of it.                          *)
LEMMA BottleneckIsLeast ==
  ASSUME NEW m \in [V -> [V -> Int]], NEW k \in Nat \ {0}, NEW p \in Simple(m, k), Len(p) = k + 1
  PROVE  /\ PathArcs(p) = FirstArcs(p, k)
         /\ Bottleneck(m, p) \in Nat \ {0}
         /\ \A i \in 1..k : Bottleneck(m, p) <= m[p[i]][p[i + 1]]
<1> DEFINE S == { m[p[i]][p[i + 1]] : i \in 1..k }
<1>1. /\ \A i \in 1..k : i + 1 \in 1..(k + 1) /\ i \in 1..(k + 1)
      /\ (k + 1) - 1 = k /\ 1 \in 1..k
  OBVIOUS
<1>2. PathArcs(p) = FirstArcs(p, k)
  <2>1. PathArcs(p) = { <<p[i], p[i + 1]>> : i \in 1..(Len(p) - 1) }
    BY Zenon DEF PathArcs
  <2> QED
    BY <1>1, <2>1 DEF FirstArcs
<1>3. { weight(m, a[1], a[2]) : a \in PathArcs(p) } = S
  <2>1. ASSUME NEW a \in FirstArcs(p, k) PROVE weight(m, a[1], a[2]) \in S
    BY DEF weight, FirstArcs
  <2>2. ASSUME NEW i \in 1..k
        PROVE  m[p[i]][p[i + 1]] \in { weight(m, a[1], a[2]) : a \in FirstArcs(p, k) }
    <3>1. <<p[i], p[i + 1]>> \in FirstArcs(p, k)
      BY DEF FirstArcs
    <3> QED
      BY <3>1 DEF weight
  <2> QED
    BY <1>2, <2>1, <2>2
<1>4. Bottleneck(m, p) = Min(S)
  BY <1>3, Zenon DEF Bottleneck, Min
<1>5. S \in SUBSET Int /\ S # {} /\ \A y \in S : y > 0
  BY <1>1 DEF Simple
<1>6. \A i \in 1..k : m[p[i]][p[i + 1]] \in S
  OBVIOUS
<1> HIDE DEF S
<1>7. Min(S) \in S /\ \A y \in S : Min(S) <= y
  <2>1. S \in SUBSET Nat
    BY <1>5
  <2>2. \E y \in S : \A z \in S : y <= z
    BY <1>5, <2>1, LeastNatural
  <2> QED
    BY <2>2 DEF Min
<1>8. Bottleneck(m, p) \in Nat \ {0}
  <2>1. \A y \in S : y \in Nat \ {0}
    BY <1>5
  <2> QED
    BY <1>4, <1>7, <2>1
<1>9. \A i \in 1..k : Bottleneck(m, p) <= m[p[i]][p[i + 1]]
  BY <1>4, <1>6, <1>7
<1> QED
  BY <1>2, <1>8, <1>9

-----------------------------------------------------------------------------
(* At first nothing flows ...                                              *)
LEMMA MethodStarts == FFInit => MethodInv
<1> SUFFICES ASSUME FFInit PROVE MethodInv
  OBVIOUS
<1>1. graph \in Networks /\ residual = graph /\ value = 0 /\ status = "running"
  BY DEF FFInit
<1>2. /\ \A a, b \in V : graph[a][b] \in Nat
      /\ residual \in [V -> [V -> Int]]
  <2>1. graph \in [V -> [V -> Nat]]
    BY <1>1, NetworkAssumption DEF NetworkAssumption, GraphsOn, V
  <2>2. [V -> [V -> Nat]] \subseteq [V -> [V -> Int]]
    OBVIOUS
  <2> QED
    BY <1>1, <2>1, <2>2
<1>3. ASSUME NEW x \in V PROVE Out(graph, residual, x) = 0
  <2> DEFINE h == [y \in V |-> graph[x][y] - residual[x][y]]
  <2>1. \A y \in V : h[y] = 0
    BY <1>1, <1>2
  <2> HIDE DEF h
  <2>2. SumFunctionOnSet(h, V) = 0
    BY <2>1, FiniteV, SumZero
  <2> QED
    BY <2>2, Zenon DEF Out, h
<1>4. \A a, b \in V : /\ residual[a][b] >= 0
                      /\ residual[a][b] + residual[b][a] = graph[a][b] + graph[b][a]
  BY <1>1, <1>2
<1> QED
  BY <1>1, <1>2, <1>3, <1>4 DEF MethodInv

(* ... and every augmentation leaves a flow of the new value.              *)
LEMMA AugmentKeeps == MethodInv /\ Augment => MethodInv'
<1> SUFFICES ASSUME MethodInv, Augment PROVE MethodInv'
  OBVIOUS
<1>1. /\ residual \in [V -> [V -> Int]] /\ value \in Int /\ graph \in Networks
      /\ \A a, b \in V : /\ residual[a][b] >= 0
                         /\ residual[a][b] + residual[b][a] = graph[a][b] + graph[b][a]
      /\ \A x \in V \ {sink} : Out(graph, residual, x) = IF x = source THEN value ELSE 0
  BY DEF MethodInv
<1>2. PICK p \in AugmentingPaths(residual) :
             /\ value' = value + Bottleneck(residual, p)
             /\ residual' = Pushed(residual, PathArcs(p), Bottleneck(residual, p))
  BY Zenon DEF Augment
<1>3. graph' = graph /\ status' = "running"
  BY DEF Augment
<1>4. PICK k \in 1..(size - 1) : p \in Simple(residual, k) /\ Len(p) = k + 1 /\ p[k + 1] = sink
  BY <1>1, AugmentingAreSimple
<1>5. k \in Nat \ {0}
  BY NetworkAssumption DEF NetworkAssumption
<1> DEFINE f == Bottleneck(residual, p)
<1>6. /\ PathArcs(p) = FirstArcs(p, k) /\ f \in Nat \ {0}
      /\ \A i \in 1..k : f <= residual[p[i]][p[i + 1]]
  BY <1>1, <1>4, <1>5, BottleneckIsLeast
<1> HIDE DEF f
<1>7. residual' = Along(residual, FirstArcs(p, k), f)
  <2>1. residual' = Pushed(residual, FirstArcs(p, k), f)
    BY <1>2, <1>6, Zenon DEF f
  <2>2. Vertices(residual) = V
    BY <1>1 DEF Vertices
  <2> QED
    BY <2>1, <2>2, Zenon DEF Pushed, weight, Along
<1>8. Forwards(graph, residual, residual', f) /\ Sound(residual, residual')
  <2>1. Route(residual, k, p, f)
    BY <1>1, <1>4, <1>5, <1>6 DEF Route, Matrices
  <2>2. graph \in Matrices
    <3>1. graph \in [V -> [V -> Nat]]
      BY <1>1, NetworkAssumption DEF NetworkAssumption, GraphsOn, V
    <3>2. [V -> [V -> Nat]] \subseteq [V -> [V -> Int]]
      OBVIOUS
    <3> QED
      BY <3>1, <3>2 DEF Matrices
  <2> QED
    BY <1>7, <2>1, <2>2, PassesThrough, SpendsWhatIsThere
<1>9. source # sink
  BY <1>4, <1>5 DEF Simple
<1>10. ASSUME NEW x \in V \ {sink}
       PROVE  Out(graph, residual', x) = IF x = source THEN value' ELSE 0
  <2>1. Out(graph, residual', x) = Out(graph, residual, x) + (IF x = source THEN f ELSE 0)
    BY <1>8 DEF Forwards
  <2>2. value' = value + f
    BY <1>2 DEF f
  <2> QED
    BY <1>1, <1>6, <2>1, <2>2
<1>11. value' \in Int
  BY <1>1, <1>2, <1>6 DEF f
<1>12. \A a, b \in V : /\ residual'[a][b] >= 0
                       /\ residual'[a][b] + residual'[b][a] = graph'[a][b] + graph'[b][a]
  BY <1>1, <1>3, <1>8 DEF Sound
<1> QED
  BY <1>1, <1>3, <1>8, <1>9, <1>10, <1>11, <1>12 DEF MethodInv, Sound, Matrices

(* In every state the method can reach the invariant holds.                *)
LEMMA MethodInvariance == FFSpec => []MethodInv
<1>1. MethodInv /\ [FFNext]_FFVars => MethodInv'
  <2> SUFFICES ASSUME MethodInv, [FFNext]_FFVars PROVE MethodInv'
    OBVIOUS
  <2>1. CASE Refuse
    BY <2>1 DEF Refuse, MethodInv
  <2>2. CASE Augment
    BY <2>2, AugmentKeeps
  <2>3. CASE Finish
    BY <2>3 DEF Finish, MethodInv
  <2>4. CASE UNCHANGED FFVars
    <3>1. graph' = graph /\ residual' = residual /\ value' = value /\ status' = status
      BY <2>4 DEF FFVars
    <3> QED
      BY <3>1 DEF MethodInv
  <2> QED
    BY <2>1, <2>2, <2>3, <2>4 DEF FFNext
<1> QED
  BY MethodStarts, <1>1, PTL DEF FFSpec

-----------------------------------------------------------------------------
(* Capacities, which the method adds up arc by arc ...                     *)
Within(S) == { a \in Arcs(graph) : a[1] \in S /\ a[2] \notin S }

CapacityOf(a) == graph[a[1]][a[2]]

LEMMA ArcSum ==
  ASSUME NEW T, IsFiniteSet(T), NEW f, \A a \in T : f[a] \in Int /\ f[a] = CapacityOf(a)
  PROVE  MapThenSumSet(CapacityOf, T) = SumFunctionOnSet(f, T)
<1> DEFINE G(g) == [s \in SUBSET T |-> IF s = {} THEN 0
                                       ELSE CapacityOf(Any(s)) + g[s \ {Any(s)}]]
           c == CHOOSE g : g = G(g)
<1>1. MapThenSumSet(CapacityOf, T) = c[T]
  BY Zenon DEF MapThenSumSet, MapThenFoldSet, Any
<1>2. PICK h \in [SUBSET T -> Int] : AddsUp(h, f, T) /\ SumFunctionOnSet(f, T) = h[T]
  BY SumAddsUp
<1>3. h = G(h)
  <2>1. \A s \in SUBSET T : h[s] = IF s = {} THEN 0 ELSE CapacityOf(Any(s)) + h[s \ {Any(s)}]
    BY <1>2, AnyIsMember DEF AddsUp
  <2> QED
    BY <2>1
<1>4. c = G(c)
  BY <1>3, Zenon
<1>5. \A s \in SUBSET T : c[s] = IF s = {} THEN 0 ELSE f[Any(s)] + c[s \ {Any(s)}]
  <2>1. \A s \in SUBSET T : c[s] = IF s = {} THEN 0 ELSE CapacityOf(Any(s)) + c[s \ {Any(s)}]
    <3> HIDE DEF c
    <3> QED
      BY <1>4
  <2> HIDE DEF c
  <2> QED
    BY <2>1, AnyIsMember
<1> HIDE DEF c
<1>6. AddsUp(c, f, T)
  BY <1>5, Zenon DEF AddsUp
<1>7. c[T] = h[T]
  BY <1>2, <1>6, SumUnique
<1> QED
  BY <1>1, <1>2, <1>7

LEMMA CapacityByArcs ==
  ASSUME NEW S
  PROVE  CutCapacity(S) = MapThenSumSet(CapacityOf, Within(S))
BY Zenon DEF CutCapacity, Within, MapThenSumSet, MapThenFoldSet, MapThenSumSet, MapThenFoldSet,
             CapacityOf, weight

(* ... are those of MaxFlowProperties, which adds them up row by row.      *)
LEMMA MethodCapacity ==
  ASSUME graph \in Networks, NEW S \in SUBSET V
  PROVE  CutCapacity(S) = Capacity(S)
<1> DEFINE T == S \X (V \ S)  W == Within(S)
           f == [a \in T |-> graph[a[1]][a[2]]]
           rows == RowSums(graph, S, V \ S)
<1>1. IsFiniteSet(V) /\ IsFiniteSet(S) /\ IsFiniteSet(V \ S) /\ IsFiniteSet(T)
  BY FiniteV, FS_Subset, FS_Product
<1>2. \A a, b \in V : graph[a][b] \in Nat
  BY NetworkCapacities
<1>3. \A a \in T : f[a] \in Int /\ f[a] = CapacityOf(a) /\ f[a] >= 0
  BY <1>2 DEF CapacityOf
<1>4. W = { a \in T : f[a] > 0 } /\ W \in SUBSET T
  <2>1. Vertices(graph) = V
    <3>1. graph \in [V -> [V -> Nat]]
      BY NetworkAssumption DEF NetworkAssumption, GraphsOn, V
    <3> QED
      BY <3>1 DEF Vertices
  <2>2. W = { a \in V \X V : graph[a[1]][a[2]] > 0 /\ a[1] \in S /\ a[2] \notin S }
    BY <2>1 DEF Within, Arcs, weight
  <2> QED
    BY <2>2
<1> HIDE DEF f, W
<1>5. IsFiniteSet(W) /\ IsFiniteSet(T \ W)
  BY <1>1, <1>4, FS_Subset
<1>6. CutCapacity(S) = SumFunctionOnSet(f, W)
  <2>1. \A a \in W : f[a] \in Int /\ f[a] = CapacityOf(a)
    BY <1>3, <1>4
  <2>2. MapThenSumSet(CapacityOf, W) = SumFunctionOnSet(f, W)
    BY <1>5, <2>1, ArcSum
  <2> QED
    BY <2>2, CapacityByArcs, Zenon DEF W
<1>7. SumFunctionOnSet(f, T) = SumFunctionOnSet(f, W)
  <2>1. \A a \in T \ W : f[a] = 0
    BY <1>3, <1>4
  <2>2. SumFunctionOnSet(f, T \ W) = 0
    BY <1>5, <2>1, SumZero
  <2>3. SumFunctionOnSet(f, T) = SumFunctionOnSet(f, W) + SumFunctionOnSet(f, T \ W)
    BY <1>1, <1>3, <1>4, SumSplit
  <2>4. SumFunctionOnSet(f, W) \in Int
    BY <1>3, <1>4, <1>5, SumInt
  <2> QED
    BY <2>2, <2>3, <2>4
<1>8. SumFunctionOnSet(f, T) = SumFunctionOnSet(rows, S)
  <2>1. \A x \in S, y \in V \ S : f[<<x, y>>] = graph[x][y] /\ graph[x][y] \in Int
    BY <1>2 DEF f
  <2> QED
    BY <1>1, <2>1, SumOfPairs
<1>9. Capacity(S) = SumFunctionOnSet(rows, S)
  BY Capacities
<1> QED
  BY <1>6, <1>7, <1>8, <1>9

-----------------------------------------------------------------------------
(* What simple paths of positive residual capacity lead to.                *)
ReachedIn(m) == { x \in V : \E k \in Nat : \E p \in Simple(m, k) : p[k + 1] = x }

(* A path leads on over every arc that has capacity: to a vertex of its     *)
(* own, or to a new one.                                                   *)
LEMMA ReachGoesOn ==
  ASSUME NEW m \in Matrices, NEW x \in ReachedIn(m), NEW y \in V, m[x][y] > 0
  PROVE  y \in ReachedIn(m)
<1>0. m \in [V -> [V -> Int]]
  BY DEF Matrices
<1>a. PICK k \in Nat : \E p \in Simple(m, k) : p[k + 1] = x
  BY DEF ReachedIn
<1>1. PICK p \in Simple(m, k) : p[k + 1] = x
  BY <1>a
<1>2. /\ p \in [1..(k + 1) -> V] /\ p[1] = source
      /\ \A i \in 1..k : m[p[i]][p[i + 1]] > 0
      /\ \A i, j \in 1..(k + 1) : p[i] = p[j] => i = j
  BY DEF Simple
<1>3. CASE \E j \in 1..(k + 1) : p[j] = y
  <2>1. PICK j \in 1..(k + 1) : p[j] = y
    BY <1>3
  <2> DEFINE h == j - 1  r == [i \in 1..(h + 1) |-> p[i]]
  <2>2. /\ h \in Nat /\ h + 1 = j /\ \A i \in 1..(h + 1) : i \in 1..(k + 1)
        /\ \A i \in 1..h : i \in 1..k /\ i \in 1..(h + 1) /\ i + 1 \in 1..(h + 1)
        /\ 1 \in 1..(h + 1) /\ h + 1 \in 1..(h + 1)
    OBVIOUS
  <2>3. r \in [1..(h + 1) -> V] /\ \A i \in 1..(h + 1) : r[i] = p[i]
    BY <1>2, <2>2
  <2> HIDE DEF h, r
  <2>4. r[1] = source /\ r[h + 1] = y
    BY <1>2, <2>1, <2>2, <2>3
  <2>5. \A i \in 1..h : m[r[i]][r[i + 1]] > 0
    BY <1>2, <2>2, <2>3
  <2>6. \A i, l \in 1..(h + 1) : r[i] = r[l] => i = l
    BY <1>2, <2>2, <2>3
  <2>7. r \in Simple(m, h)
    BY <2>3, <2>4, <2>5, <2>6 DEF Simple
  <2> QED
    BY <2>2, <2>4, <2>7 DEF ReachedIn
<1>4. CASE \A j \in 1..(k + 1) : p[j] # y
  <2> DEFINE h == k + 1
  <2>1. h \in Nat \ {0} /\ h - 1 = k /\ h \in Nat /\ (h - 1) + 1 = h
    OBVIOUS
  <2> HIDE DEF h
  <2>2. p \in Simple(m, h - 1) /\ p \in [1..h -> V] /\ p[h] = x /\ \A i \in 1..h : p[i] # y
    BY <1>1, <1>2, <1>4, <2>1 DEF h
  <2>3. <<p, y>> \in Simple(m, h - 1) \X Method!Vertices(m)
    BY <1>0, <2>2 DEF Method!Vertices
  <2>4. <<p[h], y>> \in Method!Arcs(m)
    BY <1>0, <2>2 DEF Method!Arcs, Method!Vertices, Method!weight, ReachedIn
  <2>5. Append(p, y) \in Grown(Simple(m, h - 1), m, h)
    <3>1. /\ <<<<p, y>>[1][h], <<p, y>>[2]>> \in Method!Arcs(m)
          /\ \A i \in 1..h : <<p, y>>[1][i] # <<p, y>>[2]
          /\ Append(p, y) = Append(<<p, y>>[1], <<p, y>>[2])
      BY <2>2, <2>4
    <3> QED
      BY <2>3, <3>1, Zenon DEF Grown
  <2>6. Append(p, y) \in Simple(m, h)
    BY <1>0, <2>1, <2>5, SimpleGrows
  <2>7. Append(p, y)[h + 1] = y
    BY <2>1, <2>2, Appended
  <2> QED
    BY <2>1, <2>6, <2>7 DEF ReachedIn
<1> QED
  BY <1>3, <1>4

(* When no path is left, the sink is not among them: a simple path has no   *)
(* more vertices than the network.                                         *)
LEMMA SinkUnreached ==
  ASSUME NEW m \in Matrices, AugmentingPaths(m) = {}, source # sink
  PROVE  source \in ReachedIn(m) /\ sink \notin ReachedIn(m)
<1>0. m \in [V -> [V -> Int]] /\ source \in V /\ sink \in V
  BY NetworkAssumption DEF Matrices, NetworkAssumption, V
<1>1. source \in ReachedIn(m)
  <2> DEFINE p == [i \in 1..1 |-> source]
  <2>1. p \in [1..(0 + 1) -> V] /\ p[1] = source /\ p[0 + 1] = source
    BY <1>0
  <2> HIDE DEF p
  <2>2. p \in Simple(m, 0)
    BY <2>1 DEF Simple
  <2> QED
    BY <1>0, <2>1, <2>2 DEF ReachedIn
<1>2. ASSUME NEW k \in Nat, NEW p \in Simple(m, k), p[k + 1] = sink PROVE FALSE
  <2>1. /\ p \in [1..(k + 1) -> V] /\ p[1] = source
        /\ \A i, j \in 1..(k + 1) : p[i] = p[j] => i = j
    BY DEF Simple
  <2>2. k # 0
    BY <1>2, <2>1
  <2>3. k + 1 <= size
    <3> DEFINE n == k + 1
    <3> SUFFICES ASSUME n > size PROVE FALSE
      BY NetworkAssumption DEF NetworkAssumption
    <3>1. n \in Nat /\ p \in [1..n -> V] /\ \A i, j \in 1..n : p[i] = p[j] => i = j
      BY <2>1
    <3> HIDE DEF n
    <3>2. /\ IsFiniteSet(1..n) /\ Cardinality(1..n) = n
          /\ IsFiniteSet(V) /\ Cardinality(V) = size /\ size \in Nat
      BY <3>1, FS_Interval, NetworkAssumption, SMTT(40) DEF NetworkAssumption, V
    <3>3. Cardinality(V) < Cardinality(1..n)
      BY <3>1, <3>2
    <3>4. \E i, j \in 1..n : i # j /\ p[i] = p[j]
      BY <3>1, <3>2, <3>3, FS_PigeonHole
    <3> QED
      BY <3>1, <3>4
  <2>4. k \in 1..(size - 1)
    BY <2>2, <2>3, NetworkAssumption DEF NetworkAssumption
  <2>5. p \in AugmentingPaths(m)
    BY <1>0, <1>2, <2>4, AugmentingAreSimple
  <2> QED
    BY <2>5
<1> QED
  BY <1>1, <1>2 DEF ReachedIn

(* Whichever augmenting paths ford_fulkerson takes, and in whichever       *)
(* order, it ends with the value of a minimum cut, 0 when the source is    *)
(* the sink: the result does not depend on how its search proceeds.        *)
THEOREM MethodIsMaximal == FFSpec => []MaxFlowMinCut
<1>1. MethodInv => MaxFlowMinCut
  <2> SUFFICES ASSUME MethodInv, status = "finished"
               PROVE  value = IF source = sink THEN 0 ELSE LeastCut
    BY Zenon DEF MaxFlowMinCut
  <2>1. CASE source = sink
    BY <2>1 DEF MethodInv
  <2>2. CASE source # sink
    <3> DEFINE A == ReachedIn(residual)
               f == [x \in V |-> [y \in V |-> graph[x][y] - residual[x][y]]]
    <3>1. /\ graph \in Networks /\ residual \in Matrices /\ AugmentingPaths(residual) = {}
          /\ \A a, b \in V : /\ residual[a][b] >= 0 /\ residual[a][b] \in Int
                             /\ residual[a][b] + residual[b][a] = graph[a][b] + graph[b][a]
          /\ value \in Int
          /\ \A x \in V \ {sink} : Out(graph, residual, x) = IF x = source THEN value ELSE 0
      BY DEF MethodInv, Matrices
    <3>2. source \in V /\ sink \in V /\ \A a, b \in V : graph[a][b] \in Nat
      BY <3>1, NetworkCapacities, NetworkAssumption DEF NetworkAssumption, V
    <3>3. A \in Cuts /\ \A x \in A, y \in V \ A : residual[x][y] = 0
      <4>1. source \in A /\ sink \notin A /\ A \subseteq V
        BY <2>2, <3>1, SinkUnreached DEF ReachedIn
      <4>2. ASSUME NEW x \in A, NEW y \in V \ A PROVE residual[x][y] = 0
        <5>1. ~(residual[x][y] > 0)
          BY <3>1, ReachGoesOn
        <5> QED
          BY <3>1, <4>1, <5>1
      <4> QED
        BY <4>1, <4>2 DEF Cuts
    <3>4. ASSUME NEW x \in V PROVE SumFunctionOnSet(f[x], V) = Out(graph, residual, x)
      BY Zenon DEF Out
    <3>5. IsFlow(graph, f) /\ ValueOf(f) = value
      <4>1. \A a, b \in V : /\ f[a][b] = graph[a][b] - residual[a][b]
                            /\ f[b][a] = -f[a][b] /\ f[a][b] <= graph[a][b]
        BY <3>1, <3>2
      <4>2. f \in [V -> [V -> Int]]
        BY <3>1, <3>2
      <4> HIDE DEF f
      <4> QED
        BY <2>2, <3>1, <3>2, <3>4, <4>1, <4>2 DEF IsFlow, ValueOf
    <3>6. \A x \in A, y \in V \ A : f[x][y] = graph[x][y]
      BY <3>1, <3>2, <3>3 DEF Cuts
    <3> HIDE DEF A, f
    <3>7. value = Capacity(A) /\ \A S \in Cuts : value <= Capacity(S)
      BY <3>1, <3>3, <3>5, <3>6, FlowWithinCut
    <3> DEFINE W == { CutCapacity(S) : S \in { S \in SUBSET Vertices(graph) :
                                                 source \in S /\ sink \notin S } }
    <3>8. W = { Capacity(S) : S \in Cuts }
      <4>1. Vertices(graph) = V
        <5>1. graph \in [V -> [V -> Nat]]
          BY <3>1, NetworkAssumption DEF NetworkAssumption, GraphsOn, V
        <5> QED
          BY <5>1 DEF Vertices
      <4>2. { S \in SUBSET Vertices(graph) : source \in S /\ sink \notin S } = Cuts
        BY <4>1 DEF Cuts
      <4>3. \A S \in Cuts : CutCapacity(S) = Capacity(S)
        BY <3>1, MethodCapacity DEF Cuts
      <4> QED
        BY <4>2, <4>3
    <3>9. LeastCut = Min(W)
      BY Zenon DEF LeastCut, Min, Min
    <3>10. value \in W /\ \A c \in W : value <= c
      BY <3>3, <3>7, <3>8
    <3> HIDE DEF W
    <3>11. Min(W) \in W /\ \A c \in W : Min(W) <= c
      BY <3>10 DEF Min
    <3>12. Min(W) \in Int
      <4>1. ASSUME NEW S \in Cuts PROVE Capacity(S) \in Int
        <5>1. /\ S \in SUBSET V /\ IsFiniteSet(S)
          BY FiniteV, FS_Subset DEF Cuts
        <5>2. /\ Capacity(S) = SumFunctionOnSet(RowSums(graph, S, V \ S), S)
              /\ \A x \in S : RowSums(graph, S, V \ S)[x] \in Int
          BY <3>1, <5>1, Capacities
        <5> QED
          BY <5>1, <5>2, SumInt
      <4> QED
        BY <3>8, <3>11, <4>1
    <3>13. value = Min(W)
      BY <3>1, <3>10, <3>11, <3>12
    <3> QED
      BY <2>2, <3>9, <3>13
  <2> QED
    BY <2>1, <2>2
<1> QED
  BY MethodInvariance, <1>1, PTL

=============================================================================
