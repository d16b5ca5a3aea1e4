---------------------------- MODULE MCRaftApply ----------------------------
(* RaftApply for TLC; replicas are interchangeable.                        *)
EXTENDS RaftApply, TLC

Symmetry == Permutations(Replica)

=============================================================================
