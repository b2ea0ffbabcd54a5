---------------------------- MODULE MCAntColony ----------------------------
(***************************************************************************)
(* Graphs on three vertices: a triangle with three different weights, a    *)
(* path (on which an ant that starts in the middle gets stuck), a directed *)
(* cycle, a complete digraph with different weights both ways, and one     *)
(* without any route.                                                      *)
(***************************************************************************)
EXTENDS AntColony

Path == << <<0, 1, 0>>, <<1, 0, 2>>, <<0, 2, 0>> >>

PathOnly == {Path}

MCGraphs ==
  { << <<0, 1, 2>>, <<1, 0, 3>>, <<2, 3, 0>> >>,
    Path,
    << <<0, 1, 0>>, <<0, 0, 1>>, <<2, 0, 0>> >>,
    << <<0, 1, 3>>, <<2, 0, 1>>, <<1, 2, 0>> >>,
    << <<0, 1, 0>>, <<1, 0, 0>>, <<0, 0, 0>> >> }

=============================================================================
