--------------------------- MODULE MCRemoteServer ---------------------------
(***************************************************************************)
(* RemoteServer for model checking.  The run checks liveness, so it uses   *)
(* no symmetry set.                                                        *)
(***************************************************************************)
EXTENDS RemoteServer, TLC

=============================================================================
