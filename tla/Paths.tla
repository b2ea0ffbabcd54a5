-------------------------------- MODULE Paths --------------------------------
(***************************************************************************)
(* The programs fourth, tenth and sixth.cpp, one at a time: two that fill  *)
(* a matrix of distances, which EXTENDS AllPairs shares between them, and  *)
(* the maze.  The variables of the others keep their initial values.       *)
(***************************************************************************)
EXTENDS AllPairs, Maze

CONSTANTS
  Memory,
  Inputs         \* the graphs that the programs fourth and tenth may be run on

NoFile == [empty |-> TRUE, header |-> <<>>, lines |-> <<>>]

(* Weights are ints, and a path of all vertices fits into memory: the      *)
(* matrices did.  The last line lets the maze stand still.                 *)
ASSUME InputsAssumption ==
  /\ DOMAIN Inputs = {"fourth", "tenth"}
  /\ \A p \in DOMAIN Inputs : /\ Inputs[p] \subseteq Graphs
                              /\ \A g \in Inputs[p] : g \in GraphsOn(Len(g), Ints)
  /\ Memory \in Nat /\ \A g \in Inputs["tenth"] : Len(g) <= Memory
  /\ NoFile \in Files /\ <<0, 0>> \in Cells /\ 0 \in AnyInt

VARIABLES
  program,
  degrees, eccentricities, diameter, radius, peripheral, central,
  next, u, v, walked, at, components, printed

Fourth == INSTANCE GraphAnalyzer
Tenth == INSTANCE FloydWarshallAnalyzer WITH path <- walked

-----------------------------------------------------------------------------

vars4 == <<degrees, eccentricities, diameter, radius, peripheral, central>>
vars10 == <<next, u, v, walked, at, components, printed>>

PathsVars == <<graph, pc, loops, program, vars4, vars10, vars>>

(* Only the maze program loads a map, and what its ints hold before does   *)
(* not matter where the file gives both.                                   *)
PathsInit ==
  /\ pc = "start"
  /\ Fourth!New /\ Tenth!New
  /\ \/ /\ program \in DOMAIN Inputs /\ graph \in Inputs[program]
        /\ file = NoFile /\ start = <<0, 0>> /\ end = <<0, 0>> /\ rows = 0 /\ cols = 0
     \/ /\ program = "sixth" /\ graph = <<>>
        /\ file \in Files
        /\ Len(file.header) = 2 => rows = 0 /\ cols = 0
  /\ Init

PathsNext ==
  /\ UNCHANGED program
  /\ \/ program = "fourth" /\ Fourth!Next /\ UNCHANGED <<vars10, vars>>
     \/ program = "tenth" /\ Tenth!Next /\ UNCHANGED <<vars4, vars>>
     \/ program = "sixth" /\ Next /\ UNCHANGED <<graph, pc, loops, vars4, vars10>>

Terminated ==
  /\ {pc, phase} \cap {"done", "error", "undefined"} # {}
  /\ UNCHANGED PathsVars

PathsSpec == PathsInit /\ [][PathsNext \/ Terminated]_PathsVars

-----------------------------------------------------------------------------

(* The types of the program that runs.                                     *)
PathsTypeOK ==
  /\ program = "fourth" => Fourth!TypeOK
  /\ program = "tenth" => Tenth!TypeOK
  /\ program = "sixth" => TypeOK

(* The properties of the modules, each of its own programs.                *)
ShortestInEachPass == program # "sixth" => ShortestSoFar /\ OverflowNeedsHeavyWalks
WalkKeepsLength == program = "tenth" => Tenth!WalkKeepsLength
ComponentsBetween == program = "tenth" => Tenth!ComponentsBetween
Characteristics == program = "fourth" => Fourth!Characteristics
MazePathIsShortest == program = "sixth" => PathIsShortest

=============================================================================
