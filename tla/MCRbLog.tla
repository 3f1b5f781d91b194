------------------------------- MODULE MCRbLog -------------------------------
(* RbLog with a ring of a few lines, for TLC. *)
EXTENDS RbLog
=============================================================================
