----------------------------- MODULE MCMaxFlow -----------------------------
(* The maximum flow program on the sample networks. *)
EXTENDS MaxFlowProperties, FlowNetworks
=============================================================================
