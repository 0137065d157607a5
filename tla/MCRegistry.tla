----------------------------- MODULE MCRegistry -----------------------------
(* Instances of Registry for model checking. *)
EXTENDS Registry, TLC

\* Names, processes and requests are interchangeable.
Symmetry ==
    Permutations(Names) \cup Permutations(Processes) \cup Permutations(Requests)

=============================================================================
