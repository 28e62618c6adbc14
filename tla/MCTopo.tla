-------------------------------- MODULE MCTopo --------------------------------
(* Topo for TLC: every client that keeps the documented discipline, on a   *)
(* few nodes.                                                              *)
EXTENDS Topo
=============================================================================
