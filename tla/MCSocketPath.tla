---------------------------- MODULE MCSocketPath ----------------------------
(* Instances of SocketPath for model checking. *)
EXTENDS SocketPath, TLC

Symmetry == Permutations(Daemons) \cup Permutations(Inodes)

=============================================================================
