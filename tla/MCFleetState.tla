---------------------------- MODULE MCFleetState ----------------------------
(* Instances of FleetState for TLC.                                        *)
EXTENDS FleetState, TLC

Symmetry == Permutations(Node) \cup Permutations(Tenant)
=============================================================================
