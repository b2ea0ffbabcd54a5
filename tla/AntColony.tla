----------------------------- MODULE AntColony -----------------------------
(***************************************************************************)
(* class AntColony of graphs/forteentth.cpp: in every iteration each ant   *)
(* wanders over unvisited neighbours until it has seen every vertex or is  *)
(* stuck, the best complete route is remembered, and the ants' routes are  *)
(* marked with pheromone.                                                  *)
(*                                                                         *)
(* The random choices are nondeterministic: every candidate has a positive *)
(* probability, because pheromone starts positive and evaporates by a      *)
(* factor.  The pheromone on an arc is abstracted to the set of deposits   *)
(* made on it, each named by its iteration and ant; its value is the       *)
(* initial level and these deposits, all shrunk once per iteration since.  *)
(*                                                                         *)
(* pc "undefined" is a read past the end of paths, after which anything    *)
(* may happen and nothing is modelled.                                     *)
(***************************************************************************)
EXTENDS Graph, Sequences, FiniteSetsExt

CONSTANTS size, num_ants, max_iterations,
          MaxDouble,      \* numeric_limits<double>::max()
          Graphs          \* the graphs a run may be given

ASSUME ColonyAssumption ==
  /\ {size, num_ants, max_iterations} \subseteq Nat \ {0}
  /\ MaxDouble \in Nat
  /\ Graphs \subseteq GraphsOn(size, Nat)

V == 1..size

VARIABLES
  graph,               \* never assigned
  pheromones_,
  best_path_, best_path_length_,
  iter,
  k,                   \* the ant at work, from 0
  path,                \* of the ant at work
  paths, path_lengths, \* of the ants that got through, this iteration
  pc

vars == <<graph, pheromones_, best_path_, best_path_length_, iter, k, path, paths,
          path_lengths, pc>>

Init ==
  /\ graph \in Graphs
  /\ pheromones_ = [a \in V \X V |-> {}]
  /\ best_path_ = <<>> /\ best_path_length_ = MaxDouble
  /\ iter = 0 /\ k = 0
  /\ path = <<>> /\ paths = <<>> /\ path_lengths = <<>>
  /\ pc = "ants"

(* ConstructPath begins at a random vertex ...                             *)
PlaceAnt ==
  /\ pc = "ants" /\ k < num_ants
  /\ \E start \in V : path' = <<start>>
  /\ pc' = "wander"
  /\ UNCHANGED <<graph, pheromones_, best_path_, best_path_length_, iter, k, paths,
                 path_lengths>>

Visited == { path[i] : i \in DOMAIN path }

(* Variant of Candidates: v < size.                                        *)
CandidatesButLast ==
  { x \in 1..(size - 1) : x \notin Visited /\ is_edge(graph, path[Len(path)], x) }

Candidates == { x \in V \ Visited : is_edge(graph, path[Len(path)], x) }

(* ... and goes on to a random candidate ...                               *)
Wander ==
  /\ pc = "wander" /\ Len(path) < size
  /\ \E next \in Candidates : path' = Append(path, next)
  /\ UNCHANGED <<graph, pheromones_, best_path_, best_path_length_, iter, k, paths,
                 path_lengths, pc>>

(* CalculatePathLength *)
Length(p) ==
  LET sum[i \in 1..Len(p)] ==
        IF i = 1 THEN 0 ELSE sum[i - 1] + weight(graph, p[i - 1], p[i])
  IN  sum[Len(p)]

(* Variant of Shorter: than the routes of this iteration.                  *)
ShorterThisTime == \A i \in DOMAIN path_lengths : Length(path) < path_lengths[i]

Shorter == Length(path) < best_path_length_

(* ... until it has seen them all.  Run keeps the route, and remembers it  *)
(* if it is shorter than the best.                                         *)
ArriveComplete ==
  /\ pc = "wander" /\ Len(path) = size
  /\ paths' = Append(paths, path)
  /\ path_lengths' = Append(path_lengths, Length(path))
  /\ IF Shorter
     THEN best_path_' = path /\ best_path_length_' = Length(path)
     ELSE UNCHANGED <<best_path_, best_path_length_>>
  /\ k' = k + 1
  /\ pc' = "ants"
  /\ UNCHANGED <<graph, pheromones_, iter, path>>

(* An ant that is stuck leaves nothing behind.                             *)
ArriveStuck ==
  /\ pc = "wander" /\ Len(path) < size /\ Candidates = {}
  /\ k' = k + 1
  /\ pc' = "ants"
  /\ UNCHANGED <<graph, pheromones_, best_path_, best_path_length_, iter, path, paths,
                 path_lengths>>

(* UpdatePheromones: evaporation, see above; then ant by ant ...           *)
AllArrived ==
  /\ pc = "ants" /\ k = num_ants
  /\ k' = 0
  /\ pc' = "deposit"
  /\ UNCHANGED <<graph, pheromones_, best_path_, best_path_length_, iter, path, paths,
                 path_lengths>>

Steps(p) == { <<p[i], p[i + 1]>> : i \in 1..(Len(p) - 1) }

(* Variant of Marked: on an undirected graph, too, only one way is marked. *)
MarkedOneWay(p) == Steps(p)

Marked(p) ==
  Steps(p) \cup IF CheckDirected(graph) THEN {} ELSE { <<a[2], a[1]>> : a \in Steps(p) }

(* ... the steps of paths[k] are marked, if there is a paths[k]: paths has *)
(* one entry for every ant that got through, the loop one round for every  *)
(* ant.                                                                    *)
Deposit ==
  /\ pc = "deposit" /\ k < num_ants
  /\ IF k < Len(paths)
     THEN /\ pheromones_' =
               IF Len(paths[k + 1]) = size
               THEN [a \in V \X V |-> pheromones_[a] \cup
                       IF a \in Marked(paths[k + 1]) THEN {<<iter, k>>} ELSE {}]
               ELSE pheromones_
          /\ k' = k + 1
          /\ UNCHANGED pc
     ELSE pc' = "undefined" /\ UNCHANGED <<pheromones_, k>>
  /\ UNCHANGED <<graph, best_path_, best_path_length_, iter, path, paths, path_lengths>>

(* Variant of NextIteration: iter <= max_iterations.                       *)
NextIterationOneMore ==
  /\ pc = "deposit" /\ k = num_ants
  /\ iter' = iter + 1
  /\ k' = 0
  /\ paths' = <<>> /\ path_lengths' = <<>>
  /\ pc' = IF iter + 1 <= max_iterations THEN "ants" ELSE "done"
  /\ UNCHANGED <<graph, pheromones_, best_path_, best_path_length_, path>>

NextIteration ==
  /\ pc = "deposit" /\ k = num_ants
  /\ iter' = iter + 1
  /\ k' = 0
  /\ paths' = <<>> /\ path_lengths' = <<>>
  /\ pc' = IF iter + 1 < max_iterations THEN "ants" ELSE "done"
  /\ UNCHANGED <<graph, pheromones_, best_path_, best_path_length_, path>>

Terminated == pc \in {"done", "undefined"} /\ UNCHANGED vars

Next ==
  \/ PlaceAnt \/ Wander \/ ArriveComplete \/ ArriveStuck
  \/ AllArrived \/ Deposit \/ NextIteration \/ Terminated

Spec == Init /\ [][Next]_vars /\ WF_vars(Next)

-----------------------------------------------------------------------------

TypeOK ==
  /\ pheromones_ \in [V \X V -> SUBSET ((0..(max_iterations - 1)) \X (0..(num_ants - 1)))]
  /\ best_path_ \in Seq(V) /\ best_path_length_ \in Nat
  /\ iter \in 0..max_iterations /\ k \in 0..num_ants
  /\ path \in Seq(V) /\ paths \in Seq(Seq(V)) /\ path_lengths \in Seq(Nat)
  /\ pc \in {"ants", "wander", "deposit", "done", "undefined"}

Routes ==
  { p \in [V -> V] : /\ \A i, j \in V : p[i] = p[j] => i = j
                     /\ Steps(p) \subseteq { a \in V \X V : is_edge(graph, a[1], a[2]) } }

(* What lies on a graph g after an ant has gone the route p: its steps, on *)
(* an undirected graph in both directions.                                 *)
Trail(g, p) ==
  Steps(p) \cup IF \A x, y \in V : g[x][y] = g[y][x]
               THEN { <<a[2], a[1]>> : a \in Steps(p) } ELSE {}

Laid(ph, d) == { a \in V \X V : d \in ph[a] }

Deposits == UNION { pheromones_[a] : a \in V \X V }

BestSoFar ==
  /\ best_path_ # <<>> => best_path_ \in Routes /\ best_path_length_ = Length(best_path_)
  /\ \A i \in DOMAIN path_lengths : best_path_length_ <= path_lengths[i]

(* Run forgets the routes of an iteration with the iteration; what it has  *)
(* marked remains and tells which they were.                               *)
Unbeaten ==
  \A d \in Deposits :
    \E p \in Routes : /\ Laid(pheromones_, d) = Trail(graph, p)
                      /\ best_path_length_ <= Length(p)

(* What GetBestPath returns is a route along the edges that visits every   *)
(* vertex once, its length is GetBestPathLength, and no ant has done       *)
(* better: neither one of the iteration at work, nor any earlier one whose *)
(* route is marked with pheromone.                                         *)
BestPathIsBestRoute == BestSoFar /\ Unbeaten

(* The pheromone of every ant lies along one route, and on an undirected   *)
(* graph in both directions, so that the next ants see the same trail from *)
(* either side.                                                            *)
TrailsAreRoutes ==
  \A d \in Deposits : \E p \in Routes : Laid(pheromones_, d) = Trail(graph, p)

(* On a graph in which no ant can get stuck, Run never reads past the end  *)
(* of paths and comes to its end, with a route.                            *)
Complete == \A x, y \in V : x # y => is_edge(graph, x, y)

CompleteGraphsAreSolved == Complete => <>(pc = "done" /\ best_path_ # <<>>)

(* When no route is found, main says so: Run gets to its end.              *)
RunReachesItsEnd == pc # "undefined"

(* The length of a shortest closed tour, which the expected answer of the  *)
(* travelling salesman task gives.                                         *)
ShortestTour ==
  Min({ Length(p) + weight(graph, p[size], p[1]) : p \in Routes })

(* The length that is printed is at least that of a shortest closed tour.  *)
BestIsNoShorterThanATour == best_path_ # <<>> => best_path_length_ >= ShortestTour

=============================================================================
