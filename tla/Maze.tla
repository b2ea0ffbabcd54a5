-------------------------------- MODULE Maze --------------------------------
(***************************************************************************)
(* The maze program: class Map of graphs/map.h, which loads a matrix of    *)
(* numbers (0 is a wall), and find_path of graphs/sixth.cpp, a breadth-    *)
(* first search on its cells <<row, column>>, counted from 0.              *)
(*                                                                         *)
(* A file is a record: header holds what the first line says (a word that  *)
(* is no number reads as 0), unless the file has no line at all; lines     *)
(* holds, for each line after it, the numbers that line begins with.  An   *)
(* int no extraction has reached is unset, and may be any of AnyInt.       *)
(***************************************************************************)
EXTENDS Integers, Sequences

CONSTANTS Files, Cells, AnyInt

ASSUME MazeAssumption ==
  /\ \A f \in Files : f.empty \in BOOLEAN /\ f.header \in Seq(Int) /\ f.lines \in Seq(Seq(Int))
  /\ Cells \subseteq Nat \X Nat /\ AnyInt \subseteq Int

VARIABLES
  file, phase,
  rows, cols, data,
  start, end,
  queue, parent,
  path, current      \* current is the cell the way back has reached

map == <<rows, cols, data>>
search == <<queue, parent, path, current>>
vars == <<file, phase, map, start, end, search>>

NoCell == <<-1, -1>>

Init ==
  /\ phase = "start"
  /\ file \in Files
  /\ rows \in AnyInt /\ cols \in AnyInt /\ data = <<>>
  /\ start \in Cells /\ end \in Cells
  /\ queue = <<>> /\ parent = <<>> /\ path = <<>> /\ current = NoCell

Throw == phase' = "error"

ReadHeader ==
  /\ phase = "start"
  /\ rows' = IF Len(file.header) > 0 THEN file.header[1] ELSE rows
  /\ cols' = IF Len(file.header) > 1 THEN file.header[2] ELSE cols
  /\ IF file.empty \/ rows' <= 0 \/ cols' <= 0 THEN Throw ELSE phase' = "lines"
  /\ UNCHANGED <<file, data, start, end, search>>

(* Variant of Fits: a longer line is no error.                             *)
FitsLoosely(line) == Len(line) >= cols

Fits(line) == Len(line) = cols

ReadLine ==
  /\ phase = "lines" /\ Len(data) < Len(file.lines)
  /\ LET line == file.lines[Len(data) + 1]
     IN  IF Fits(line) THEN data' = Append(data, line) /\ UNCHANGED phase
                       ELSE Throw /\ UNCHANGED data
  /\ UNCHANGED <<file, rows, cols, start, end, search>>

(* find_path begins by queueing the start, whatever it is. *)
MapLoaded ==
  /\ phase = "lines" /\ Len(data) = Len(file.lines)
  /\ IF Len(data) = rows
     THEN /\ phase' = "search"
          /\ queue' = <<start>>
          /\ parent' = [c \in {start} |-> NoCell]
     ELSE Throw /\ UNCHANGED <<queue, parent>>
  /\ UNCHANGED <<file, map, start, end, path, current>>

-----------------------------------------------------------------------------

Inside(c) == c[1] \in 0..(rows - 1) /\ c[2] \in 0..(cols - 1)

Open(c) == Inside(c) /\ data[c[1] + 1][c[2] + 1] # 0

(* In the order of directions. *)
Around(c) ==
  <<<<c[1] - 1, c[2]>>, <<c[1] + 1, c[2]>>, <<c[1], c[2] - 1>>, <<c[1], c[2] + 1>>>>

(* The directions in which there is an open neighbour.                     *)
neighbors(c) == IF Inside(c) THEN { d \in 1..4 : Open(Around(c)[d]) } ELSE {}

Found ==
  /\ phase = "search" /\ queue # <<>> /\ Head(queue) = end
  /\ current' = end
  /\ phase' = "back"
  /\ queue' = Tail(queue)
  /\ UNCHANGED <<file, map, start, end, parent, path>>

(* Variant of Queued: the newest cell goes first.                          *)
QueuedFirst(new) == new \o Tail(queue)

Queued(new) == Tail(queue) \o new

Expand ==
  /\ phase = "search" /\ queue # <<>> /\ Head(queue) # end
  /\ LET to == Around(Head(queue))
         new == { d \in neighbors(Head(queue)) : to[d] \notin DOMAIN parent }
         cell(d) == IF d \in new THEN <<to[d]>> ELSE <<>>
         cells == { to[d] : d \in new }
     IN  /\ queue' = Queued(cell(1) \o cell(2) \o cell(3) \o cell(4))
         /\ parent' = [c \in DOMAIN parent \cup cells |->
                         IF c \in cells THEN Head(queue) ELSE parent[c]]
  /\ UNCHANGED <<file, phase, map, start, end, path, current>>

NoPath ==
  /\ phase = "search" /\ queue = <<>>
  /\ phase' = "done"
  /\ UNCHANGED <<file, map, start, end, search>>

(* The path is built from its end and reversed at last. *)
Back ==
  /\ phase = "back" /\ current[1] # -1
  /\ path' = <<current>> \o path
  /\ current' = parent[current]
  /\ UNCHANGED <<file, phase, map, start, end, queue, parent>>

Return ==
  /\ phase = "back" /\ current[1] = -1
  /\ phase' = "done"
  /\ UNCHANGED <<file, map, start, end, search>>

Next == ReadHeader \/ ReadLine \/ MapLoaded \/ Found \/ Expand \/ NoPath \/ Back \/ Return

Spec == Init /\ [][Next]_vars

-----------------------------------------------------------------------------

(* In particular a map that is searched is a matrix of rows times cols,    *)
(* also if these were never read: no index leaves it.                      *)
TypeOK ==
  /\ phase \in {"start", "lines", "search", "back", "done", "error"}
  /\ rows \in Int /\ cols \in Int
  /\ phase \in {"search", "back", "done"} =>
       /\ rows > 0 /\ cols > 0
       /\ data \in [1..rows -> [1..cols -> Int]]
  /\ DOMAIN parent \subseteq { c \in Int \X Int : c = start \/ Open(c) }

Steps(b) == IF Inside(b) THEN { Around(b)[d] : d \in 1..4 } ELSE {}

(* The cells within k steps of the start, each step to an open one.        *)
Ball[k \in Nat] ==
  IF k = 0 THEN {start}
  ELSE LET near == Ball[k - 1]
       IN  near \cup { c \in UNION { Steps(b) : b \in near } : Open(c) }

(* The path returned leads from start to end by steps to open neighbours,  *)
(* and there is no shorter one; none is returned only if there is none.    *)
(* Nothing is asked of the start itself: it may be a wall.  The number     *)
(* announced as steps is the length of the path, one more than its steps.  *)
PathIsShortest ==
  phase = "done" =>
    IF path = <<>> THEN end \notin Ball[rows * cols]
    ELSE /\ path[1] = start /\ path[Len(path)] = end
         /\ \A m \in 2..Len(path) : Open(path[m]) /\ path[m] \in Steps(path[m - 1])
         /\ Len(path) > 1 => end \notin Ball[Len(path) - 2]

=============================================================================
