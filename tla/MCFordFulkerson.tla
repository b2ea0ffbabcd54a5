-------------------------- MODULE MCFordFulkerson --------------------------
(* The Ford-Fulkerson method on the sample networks. *)
EXTENDS FordFulkerson, FlowNetworks
=============================================================================
