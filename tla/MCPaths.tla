------------------------------- MODULE MCPaths -------------------------------
(***************************************************************************)
(* Small graphs with negative arcs, loops and weights and paths as long as *)
(* INT_MAX, every maze of nine cells, and malformed files.                 *)
(***************************************************************************)
EXTENDS Paths

Tiny == { <<>> } \cup { <<<<a>>>> : a \in {-1, 0, 1, INT_MAX} }

Two(W) == { <<<<a, b>>, <<c, d>>>> : a, b, c, d \in W }

(* Three vertices: any arcs, or any lines and a loop on the second.        *)
Arcs(W) == { <<<<0, a, b>>, <<c, 0, d>>, <<e, f, 0>>>> : a, b, c, d, e, f \in W }
Lines(W) == { <<<<0, a, b>>, <<a, d, c>>, <<b, c, 0>>>> : a, b, c, d \in W }

(* Four: a cycle of arcs against the numbering, and any lines.             *)
Cycle(W) ==
  { <<<<0, 0, a, 0>>, <<0, e, 0, b>>, <<0, c, 0, 0>>, <<d, 0, 0, 0>>>> : a, b, c, d, e \in W }
AllLines(W) ==
  { <<<<0, a, b, c>>, <<a, 0, d, e>>, <<b, d, 0, f>>, <<c, e, f, 0>>>> : a, b, c, d, e, f \in W }

(* A path as long as INT_MAX, which another would be part of; the same     *)
(* beside a longer way; a loop that counts as none.                        *)
AtTheEnd ==
  { <<<<0, a, 0, 0>>, <<0, 0, 0, -1>>, <<5, 0, 0, 0>>, <<0, 0, 0, 0>>>> : a \in {3, 4} } \cup
  { <<<<0, a, 0, 3>>, <<0, 0, 0, -2>>, <<5, 0, 0, 0>>, <<0, 0, 0, 0>>>> : a \in {3, 4} } \cup
  { <<<<a, 1>>, <<0, 0>>>> : a \in {2, INT_MAX} }

MCInputs ==
  [fourth |-> Tiny \cup Two({0, -1, INT_MAX}) \cup Lines({0, 1, 4}) \cup AllLines({0, 1, 3}),
   tenth |-> Tiny \cup Lines({0, 1, INT_MAX}) \cup Arcs({0, -1, 2}) \cup Cycle({0, 2}) \cup AtTheEnd]

MCGraphs == UNION { MCInputs[p] : p \in DOMAIN MCInputs }

(* Mazes of three times three cells with any walls, and files with headers *)
(* and lines that do not match.                                            *)
MCFile(h, ls) == [empty |-> FALSE, header |-> h, lines |-> ls]

Mazes ==
  { MCFile(<<3, 3>>, <<<<a, b, c>>, <<d, e, f>>, <<g, h, l>>>>) :
      a, b, c, d, e, f, g, h, l \in {0, 1} }

Malformed ==
  { NoFile } \cup
  { MCFile(h, ls) : h \in {<<>>, <<1>>, <<1, 2>>, <<2, 1>>, <<0, 1>>, <<-1>>, <<2, 2>>},
                    ls \in {<<>>, <<<<>>>>, <<<<1>>>>, <<<<1>>, <<1>>>>, <<<<1, 0>>>>,
                            <<<<1, 1>>, <<0, 1>>>>, <<<<1, 1>>, <<1>>>>} }

MCFiles == Mazes \cup Malformed

MCCells == { <<0, 0>>, <<2, 1>>, <<0, 2>>, <<3, 0>> }

=============================================================================
