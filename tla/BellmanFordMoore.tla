-------------------------- MODULE BellmanFordMoore --------------------------
(***************************************************************************)
(* Class BellmanFordMoore of graphs/eleventh.cpp: the lengths of the       *)
(* shortest paths from one vertex of a graph whose weights may be          *)
(* negative.  Instead of relaxing all edges n - 1 times it keeps a queue   *)
(* of vertices whose distance has changed, and takes the queue in phases,  *)
(* at most n - 1 of them; one last pass over all edges then decides        *)
(* whether there is a negative cycle.                                      *)
(*                                                                         *)
(* One action per iteration of a loop.  left counts what remains of a      *)
(* phase (size - j in the code), v is the cursor in adjacency_list(u).     *)
(* INT_MAX is both the greatest int and "out of reach", as in the code; a  *)
(* sum that is no int leaves everything after it undefined.                *)
(***************************************************************************)
EXTENDS Graph, Sequences, FiniteSets

CONSTANTS
  size, Graphs,
  Starts,        \* the values start is given
  INT_MAX,
  Potentials     \* the lower bounds that property DistancesShortest tries

ASSUME PathsAssumption ==
  /\ size \in Nat
  /\ Graphs \subseteq GraphsOn(size, Int)
  /\ Starts \subseteq Int
  /\ INT_MAX \in Nat
  /\ Potentials \subseteq [1..size -> Int]

V == 1..size

None == -1

VARIABLES
  graph, start,  \* never assigned
  distance, predecessor,
  queue, in_queue,
  i,             \* the phase
  left, u, v,
  has_negative_cycle,
  pc

vars == <<graph, start, distance, predecessor, queue, in_queue, i, left, u, v,
          has_negative_cycle, pc>>

Init ==
  /\ graph \in Graphs /\ start \in Starts
  /\ distance = [x \in V |-> INT_MAX] /\ predecessor = [x \in V |-> None]
  /\ queue = <<>> /\ in_queue = [x \in V |-> FALSE]
  /\ i = 0 /\ left = 0 /\ u = 1 /\ v = 1
  /\ has_negative_cycle = FALSE
  /\ pc = "start"

(* The constructor throws std::invalid_argument.                           *)
Refuse ==
  /\ pc = "start" /\ start \notin V
  /\ pc' = "error"
  /\ UNCHANGED <<graph, start, distance, predecessor, queue, in_queue, i, left, u, v,
                 has_negative_cycle>>

Begin ==
  /\ pc = "start" /\ start \in V
  /\ distance' = [distance EXCEPT ![start] = 0]
  /\ queue' = <<start>>
  /\ in_queue' = [in_queue EXCEPT ![start] = TRUE]
  /\ pc' = "phase"
  /\ UNCHANGED <<graph, start, predecessor, i, left, u, v, has_negative_cycle>>

-----------------------------------------------------------------------------
(* relaxEdges: the phases *)

PhaseStart ==
  /\ pc = "phase" /\ i < size - 1 /\ queue # <<>>
  /\ left' = Len(queue)
  /\ pc' = "pop"
  /\ UNCHANGED <<graph, start, distance, predecessor, queue, in_queue, i, u, v,
                 has_negative_cycle>>

(* Variant of Pop: in_queue is not reset, so no vertex is queued twice.    *)
PopForGood ==
  /\ pc = "pop" /\ left > 0
  /\ u' = Head(queue) /\ queue' = Tail(queue)
  /\ left' = left - 1
  /\ v' = 1
  /\ pc' = "scan"
  /\ UNCHANGED <<graph, start, distance, predecessor, in_queue, i, has_negative_cycle>>

Pop ==
  /\ pc = "pop" /\ left > 0
  /\ u' = Head(queue) /\ queue' = Tail(queue)
  /\ in_queue' = [in_queue EXCEPT ![Head(queue)] = FALSE]
  /\ left' = left - 1
  /\ v' = 1
  /\ pc' = "scan"
  /\ UNCHANGED <<graph, start, distance, predecessor, i, has_negative_cycle>>

Ints == (-INT_MAX - 1)..INT_MAX

(* The way to x and on to its neighbour y has a length that is no int.     *)
Overflows(x, y) ==
  /\ y \in adjacency_list(graph, x)
  /\ distance[x] # INT_MAX /\ distance[x] + weight(graph, x, y) \notin Ints

(* Going from x to its neighbour y would be shorter.                       *)
Improves(x, y) ==
  /\ y \in adjacency_list(graph, x)
  /\ distance[x] # INT_MAX /\ distance[y] > distance[x] + weight(graph, x, y)

(* Variant of Relax: the edge is taken against its direction.              *)
RelaxBackwards ==
  /\ pc = "scan" /\ v <= size
  /\ Improves(u, v) /\ ~Overflows(u, v)
  /\ distance' = [distance EXCEPT ![v] = distance[u] + weight(graph, v, u)]
  /\ predecessor' = [predecessor EXCEPT ![v] = u]
  /\ queue' = IF in_queue[v] THEN queue ELSE Append(queue, v)
  /\ in_queue' = [in_queue EXCEPT ![v] = TRUE]
  /\ v' = v + 1
  /\ UNCHANGED <<graph, start, i, left, u, has_negative_cycle, pc>>

Relax ==
  /\ pc = "scan" /\ v <= size
  /\ Improves(u, v) /\ ~Overflows(u, v)
  /\ distance' = [distance EXCEPT ![v] = distance[u] + weight(graph, u, v)]
  /\ predecessor' = [predecessor EXCEPT ![v] = u]
  /\ queue' = IF in_queue[v] THEN queue ELSE Append(queue, v)
  /\ in_queue' = [in_queue EXCEPT ![v] = TRUE]
  /\ v' = v + 1
  /\ UNCHANGED <<graph, start, i, left, u, has_negative_cycle, pc>>

Overflow ==
  /\ pc = "scan" /\ v <= size
  /\ Overflows(u, v)
  /\ pc' = "undefined"
  /\ UNCHANGED <<graph, start, distance, predecessor, queue, in_queue, i, left, u, v,
                 has_negative_cycle>>

ScanSkip ==
  /\ pc = "scan" /\ v <= size
  /\ ~Improves(u, v) /\ ~Overflows(u, v)
  /\ v' = v + 1
  /\ UNCHANGED <<graph, start, distance, predecessor, queue, in_queue, i, left, u,
                 has_negative_cycle, pc>>

ScanEnd ==
  /\ pc = "scan" /\ v > size
  /\ pc' = "pop"
  /\ UNCHANGED <<graph, start, distance, predecessor, queue, in_queue, i, left, u, v,
                 has_negative_cycle>>

PhaseEnd ==
  /\ pc = "pop" /\ left = 0
  /\ i' = i + 1
  /\ pc' = "phase"
  /\ UNCHANGED <<graph, start, distance, predecessor, queue, in_queue, left, u, v,
                 has_negative_cycle>>

PhasesEnd ==
  /\ pc = "phase"
  /\ i >= size - 1 \/ queue = <<>>
  /\ has_negative_cycle' = FALSE
  /\ u' = 1
  /\ pc' = "check"
  /\ UNCHANGED <<graph, start, distance, predecessor, queue, in_queue, i, left, v>>

-----------------------------------------------------------------------------
(* relaxEdges: the last pass *)

CheckVertex ==
  /\ pc = "check" /\ u <= size
  /\ \A y \in V : ~Improves(u, y) /\ ~Overflows(u, y)
  /\ u' = u + 1
  /\ UNCHANGED <<graph, start, distance, predecessor, queue, in_queue, i, left, v,
                 has_negative_cycle, pc>>

FindCycle ==
  /\ pc = "check" /\ u <= size
  /\ \E y \in V : Improves(u, y) /\ \A z \in 1..y : ~Overflows(u, z)
  /\ has_negative_cycle' = TRUE
  /\ pc' = "done"
  /\ UNCHANGED <<graph, start, distance, predecessor, queue, in_queue, i, left, u, v>>

CheckOverflow ==
  /\ pc = "check" /\ u <= size
  /\ \E y \in V : Overflows(u, y) /\ \A z \in 1..(y - 1) : ~Improves(u, z)
  /\ pc' = "undefined"
  /\ UNCHANGED <<graph, start, distance, predecessor, queue, in_queue, i, left, u, v,
                 has_negative_cycle>>

(* Variant of CheckEnd: the last vertex is left out.                       *)
CheckEndTooEarly ==
  /\ pc = "check" /\ u >= size
  /\ pc' = "done"
  /\ UNCHANGED <<graph, start, distance, predecessor, queue, in_queue, i, left, u, v,
                 has_negative_cycle>>

CheckEnd ==
  /\ pc = "check" /\ u > size
  /\ pc' = "done"
  /\ UNCHANGED <<graph, start, distance, predecessor, queue, in_queue, i, left, u, v,
                 has_negative_cycle>>

Terminated == pc \in {"done", "error", "undefined"} /\ UNCHANGED vars

Next ==
  \/ Refuse \/ Begin
  \/ PhaseStart \/ Pop \/ Relax \/ Overflow \/ ScanSkip \/ ScanEnd \/ PhaseEnd \/ PhasesEnd
  \/ CheckVertex \/ FindCycle \/ CheckOverflow \/ CheckEnd
  \/ Terminated

Spec == Init /\ [][Next]_vars /\ WF_vars(Next)

-----------------------------------------------------------------------------

TypeOK ==
  /\ graph \in GraphsOn(size, Int) /\ start \in Int
  /\ distance \in [V -> Ints] /\ predecessor \in [V -> V \cup {None}]
  /\ queue \in Seq(V) /\ in_queue \in [V -> BOOLEAN]
  /\ i \in 0..size /\ left \in 0..Len(queue)
  /\ u \in 1..(size + 1) /\ v \in 1..(size + 1)
  /\ has_negative_cycle \in BOOLEAN
  /\ pc \in {"start", "phase", "pop", "scan", "check", "done", "error", "undefined"}
  /\ pc \notin {"start", "error"} => start \in V
  /\ start \in V => i < size
  /\ pc = "scan" => u \in V

(* The queue holds the vertices in_queue marks, each once: no phase is     *)
(* longer than the graph.                                                  *)
InQueueIsQueue ==
  /\ \A x \in V : in_queue[x] <=> \E k \in 1..Len(queue) : queue[k] = x
  /\ \A k, l \in 1..Len(queue) : queue[k] = queue[l] => k = l

(* The weight of the lightest walk of k edges at most from start to x, all *)
(* of whose beginnings are lighter than INT_MAX; INT_MAX if there is none. *)
Lightest ==
  LET Via(L, x) == { L[y] + weight(graph, y, x) :
                       y \in { y \in V : is_edge(graph, y, x) /\ L[y] # INT_MAX } }
      Best(L, x) == CHOOSE d \in Via(L, x) \cup {L[x]} : \A e \in Via(L, x) \cup {L[x]} : d <= e
      L[k \in 0..size] == IF k = 0
                      THEN [x \in V |-> IF x = start THEN 0 ELSE INT_MAX]
                      ELSE [x \in V |-> Best(L[k - 1], x)]
  IN  L

(* After i phases no distance exceeds the weight of a walk of i edges, and *)
(* whoever is not in the queue has had its edges relaxed.                  *)
PhaseBound ==
  pc = "phase" => /\ \A x \in V : distance[x] <= Lightest[i][x]
                  /\ \A x, y \in V : Improves(x, y) => in_queue[x]

(* A cycle is a sequence of distinct vertices, each the neighbour of the   *)
(* one before, the first that of the last.  This one is negative, and all  *)
(* of it is within reach.                                                  *)
NegativeCycle ==
  \E k \in V : \E c \in [1..k -> V] :
    LET After(j) == IF j = k THEN 1 ELSE j + 1
        W[j \in 0..k] == IF j = 0 THEN 0 ELSE W[j - 1] + weight(graph, c[j], c[After(j)])
    IN  /\ \A j, l \in 1..k : c[j] = c[l] => j = l
        /\ \A j \in 1..k : is_edge(graph, c[j], c[After(j)])
        /\ \A j \in 1..k : Lightest[size][c[j]] # INT_MAX
        /\ W[k] < 0

(* The flag is set exactly if a negative cycle can be reached from start:  *)
(* n - 1 phases are enough, and a cycle out of reach does not matter.      *)
(* (Out of reach, as the code has it, is also what is INT_MAX away.)       *)
FlagIffNegativeCycle == pc = "done" => (has_negative_cycle <=> NegativeCycle)

(* A potential is a bound that start and the edges impose.                 *)
Feasible(p) ==
  /\ p[start] <= 0
  /\ \A x, y \in V : is_edge(graph, x, y) => p[y] <= p[x] + weight(graph, x, y)

(* No distance is ever below a potential, and in the end, unless the flag  *)
(* is set, no edge leads to a shorter one: the distances that are printed  *)
(* are the greatest potential, which are the lengths of shortest paths.    *)
NeverTooShort ==
  \A p \in Potentials :
    (start \in V /\ Feasible(p)) => \A x \in V : distance[x] # INT_MAX => p[x] <= distance[x]

NothingImproves ==
  (pc = "done" /\ ~has_negative_cycle) =>
    distance[start] <= 0 /\ \A x, y \in V : ~Improves(x, y)

DistancesShortest == NeverTooShort /\ NothingImproves

=============================================================================
