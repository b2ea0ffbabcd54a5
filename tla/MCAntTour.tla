----------------------------- MODULE MCAntTour -----------------------------
(* The graph of graphs/matrix_t15_001.txt, one ant, one iteration. *)
EXTENDS AntColony

MCMatrixT15 ==
  { << <<0, 27, 25, 24, 5>>, <<27, 0, 8, 16, 6>>, <<25, 8, 0, 14, 17>>,
       <<24, 16, 14, 0, 25>>, <<5, 6, 17, 25, 0>> >> }

=============================================================================
