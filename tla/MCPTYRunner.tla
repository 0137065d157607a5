---------------------------- MODULE MCPTYRunner ----------------------------
(***************************************************************************)
(* PTYRunner for model checking: one use of a kind, so there is nothing    *)
(* for a symmetry set to permute.                                          *)
(***************************************************************************)
EXTENDS PTYRunner, TLC

=============================================================================
