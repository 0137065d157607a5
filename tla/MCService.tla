----------------------------- MODULE MCService -----------------------------
(* Instances of Service for model checking. *)
EXTENDS Service, TLC

\* Handlers, attempts and targets are interchangeable; Server and Sweeper are
\* not.
Symmetry ==
    Permutations(Handlers) \cup Permutations(Attempts) \cup Permutations(Targets)

=============================================================================
