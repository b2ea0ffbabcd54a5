------------------------------ MODULE Searches ------------------------------
(***************************************************************************)
(* The programs first, second, third, fifth, seventh and nineth.cpp, each  *)
(* with graphs of its own.  They share nothing but class Graph; one of     *)
(* them runs, and the variables of the others keep their initial values.   *)
(***************************************************************************)
EXTENDS GraphProgram

CONSTANTS
  INT_MAX,
  Inputs         \* the graphs that each program may be run on

Programs == {"first", "second", "third", "fifth", "seventh", "nineth"}

(* Weights are ints; prim is the only one to compute with them.            *)
ASSUME InputsAssumption ==
  /\ INT_MAX \in Nat \ {0}
  /\ DOMAIN Inputs = Programs
  /\ \A p \in Programs : Inputs[p] \subseteq Graphs
  /\ \A g \in Inputs["nineth"] : g \in GraphsOn(Len(g), (-INT_MAX - 1)..INT_MAX)

VARIABLES
  program,
  method, visited, components, frontier,
  algorithm, start_vertex, found, tree_edges, waiting,
  colors, partA, partB, is_bipartite, queue,
  seen, order, calls, classes,
  entered, entry_time, low, timer, bridges, articulation_points, root, stack,
  included, parent, min_weight, mst_edges, total_weight

First == INSTANCE ConnectivityFinder
Second == INSTANCE BridgeArticulationFinder WITH visited <- entered
Third == INSTANCE SpanningTree WITH visited <- found, frontier <- waiting
Fifth == INSTANCE BipartiteChecker
Seventh == INSTANCE StronglyConnectedComponents WITH visited <- seen, components <- classes
Nineth == INSTANCE MSTFinder

-----------------------------------------------------------------------------

Init ==
  /\ program \in Programs
  /\ graph \in Inputs[program] /\ pc = "start"
  /\ First!New /\ Second!New /\ Third!New /\ Fifth!New /\ Seventh!New /\ Nineth!New
  /\ program # "third" => algorithm = "bfs" /\ start_vertex = 1

vars1 == <<method, visited, components, frontier>>
vars2 == <<entered, entry_time, low, timer, bridges, articulation_points, root, stack>>
vars3 == <<algorithm, start_vertex, found, tree_edges, waiting>>
vars5 == <<colors, partA, partB, is_bipartite, queue>>
vars7 == <<seen, order, calls, classes>>
vars9 == <<included, parent, min_weight, mst_edges, total_weight>>

vars == <<graph, pc, program, vars1, vars2, vars3, vars5, vars7, vars9>>

Next ==
  /\ UNCHANGED program
  /\ \/ /\ program = "first" /\ First!Next
        /\ UNCHANGED <<vars2, vars3, vars5, vars7, vars9>>
     \/ /\ program = "second" /\ Second!Next
        /\ UNCHANGED <<vars1, vars3, vars5, vars7, vars9>>
     \/ /\ program = "third" /\ Third!Next
        /\ UNCHANGED <<vars1, vars2, vars5, vars7, vars9>>
     \/ /\ program = "fifth" /\ Fifth!Next
        /\ UNCHANGED <<vars1, vars2, vars3, vars7, vars9>>
     \/ /\ program = "seventh" /\ Seventh!Next
        /\ UNCHANGED <<vars1, vars2, vars3, vars5, vars9>>
     \/ /\ program = "nineth" /\ Nineth!Next
        /\ UNCHANGED <<vars1, vars2, vars3, vars5, vars7>>

Terminated == pc \in {"done", "error", "undefined"} /\ UNCHANGED vars

Spec == Init /\ [][Next \/ Terminated]_vars

-----------------------------------------------------------------------------

(* The types of the program that runs.                                     *)
TypeOK ==
  /\ program = "first" => First!TypeOK
  /\ program = "second" => Second!TypeOK
  /\ program = "third" => Third!TypeOK
  /\ program = "fifth" => Fifth!TypeOK
  /\ program = "seventh" => Seventh!TypeOK
  /\ program = "nineth" => Nineth!TypeOK

(* The properties of the modules, each of its own program.                 *)
ComponentsAreClasses == program = "first" => First!ComponentsAreClasses
LowWhenRead == program = "second" => Second!LowWhenRead
BridgesAndCutVertices == program = "second" => Second!BridgesAndCutVertices
SearchTree == program = "third" => Third!SearchTree
TwoColored == program = "fifth" => Fifth!TwoColored
StrongComponents == program = "seventh" => Seventh!StrongComponents
LeastTree == program = "nineth" => Nineth!LeastTree

(* The graph that is spanned: prim does not see an edge of weight INT_MAX; *)
(* its check for directed edges does.                                      *)
Spanned == IF program = "nineth" /\ ~CheckDirected(graph) THEN Nineth!Seen ELSE graph

Growth ==
  INSTANCE TreeGrowth WITH
    graph <- Spanned,
    root <- start_vertex,
    reached <- CASE program = "third" -> found [] program = "nineth" -> included [] OTHER -> {},
    tree <- CASE program = "third" -> tree_edges [] program = "nineth" -> Nineth!Tree
            [] OTHER -> {},
    status <- IF program \notin {"third", "nineth"} THEN "growing"
              ELSE CASE pc = "done" -> "spanned" [] pc = "error" -> "refused"
                   [] OTHER -> "growing"

(* Both programs that span a graph grow a tree as TreeGrowth says, and     *)
(* refuse exactly what it refuses; the others stand still in it.           *)
GrowsATree == Growth!Spec

=============================================================================
