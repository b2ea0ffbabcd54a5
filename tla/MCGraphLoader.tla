--------------------------- MODULE MCGraphLoader ---------------------------
(***************************************************************************)
(* Small files of the three formats: sizes 0..3, at most two lines, lines  *)
(* that are blank, cut short or repeat an arc, a vertex 3 that is out of   *)
(* range below size 3, a negative one, the invisible vertex 0, weight 0, a *)
(* token that is no number, with and without a final newline.              *)
(***************************************************************************)
EXTENDS GraphLoader

UpTo(S, k) == UNION { [1..n -> S] : n \in 0..k }

MCFile(type, sizes, lines) ==
  { [type |-> type, opens |-> TRUE, size |-> n, lines |-> l, newline |-> nl] :
      n \in sizes, l \in lines, nl \in BOOLEAN }

MCEdgeLines ==
  { <<>>, <<1>>, <<1, 2>>, <<2, 1>>, <<3, 1>>, <<0, 1>>, <<1, 2, 0>>, <<1, 2, 5>>,
    <<2, 1, 5>>, <<1, 1, 5>>, <<1, 3, 5>>, <<1, -1>> }

MCTokens == { <<>>, <<-1>>, <<0>>, <<1>>, <<2>>, <<3>>, <<2, 5>>, <<1, 0>> }

MCFiles ==
  MCFile("MATRIX", 0..2, UpTo({0, 5}, 4))
    \cup MCFile("EDGES_LIST", 0..3, UpTo(MCEdgeLines, 2))
    \cup MCFile("ADJACENCY_LIST", 0..3, UpTo({ <<>> } \cup { <<t>> : t \in MCTokens }, 2))
    \cup MCFile("ADJACENCY_LIST", 1..3, UpTo(UpTo({ <<1>>, <<2>>, <<2, 5>> }, 2), 2))
    \cup { [type |-> "MATRIX", opens |-> FALSE, size |-> 0, lines |-> <<>>,
            newline |-> FALSE] }

=============================================================================
