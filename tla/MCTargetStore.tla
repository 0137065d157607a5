--------------------------- MODULE MCTargetStore ---------------------------
(***************************************************************************)
(* TargetStore for model checking.  The run checks liveness, so it uses no *)
(* symmetry set.                                                           *)
(***************************************************************************)
EXTENDS TargetStore, TLC

=============================================================================
