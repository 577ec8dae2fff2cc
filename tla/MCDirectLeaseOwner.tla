------------------------ MODULE MCDirectLeaseOwner ------------------------
(* Instances of DirectLeaseOwner for TLC. *)
EXTENDS OwnerInvariant, TLC

Symmetry == Permutations(Tasks)
=============================================================================
