----------------------- MODULE MCPlacementControllers -----------------------
(***************************************************************************)
(* PlacementControllers for TLC.  Nodes are interchangeable: every failure *)
(* domain is a single node, and no CHOOSE breaks a tie between nodes.      *)
(***************************************************************************)
EXTENDS PlacementControllers, TLC

Symmetry == Permutations(Node)

=============================================================================
