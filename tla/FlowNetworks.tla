---------------------------- MODULE FlowNetworks ----------------------------
(***************************************************************************)
(* The flow networks TLC is given: source 1, sink 6, and every choice of   *)
(* capacities for nine candidate arcs.  Breadth-first search takes 1-2-3-6 *)
(* before 1-2-5-6, so that a flow through 4 has to take back flow of the   *)
(* arc 2-3; 3-4 and 4-3 are antiparallel; 2-6 is a short cut.  The network *)
(* without arcs is symmetric, hence refused.                               *)
(***************************************************************************)
EXTENDS Integers

Trunk == {<<1, 2>>, <<2, 3>>, <<3, 6>>}
Branches == {<<1, 4>>, <<4, 3>>, <<3, 4>>, <<2, 5>>, <<5, 6>>, <<2, 6>>}

NetworkOf(t, b) ==
  [x \in 1..6 |-> [y \in 1..6 |->
     IF <<x, y>> \in Trunk THEN t[<<x, y>>]
     ELSE IF <<x, y>> \in Branches THEN b[<<x, y>>] ELSE 0]]

SampleNetworks ==
  { NetworkOf(t, b) : t \in [Trunk -> 1..2], b \in [Branches -> 0..1] }
    \cup { [x \in 1..6 |-> [y \in 1..6 |-> 0]] }

=============================================================================
