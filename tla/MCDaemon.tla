------------------------------ MODULE MCDaemon ------------------------------
(***************************************************************************)
(* Daemon for model checking.  The run checks liveness, so it uses no      *)
(* symmetry set.                                                           *)
(***************************************************************************)
EXTENDS Daemon, TLC

=============================================================================
