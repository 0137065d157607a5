--------------------------- MODULE MCWSConnection ---------------------------
(***************************************************************************)
(* WSConnection for model checking.  The run checks liveness, so it uses   *)
(* no symmetry set.                                                        *)
(***************************************************************************)
EXTENDS WSConnection, TLC

=============================================================================
