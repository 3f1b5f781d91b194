----------------------------- MODULE MCScheduler -----------------------------
(***************************************************************************)
(* Model checking of Scheduler: sessions, of which the last finds the      *)
(* array full, and deadlines that are always due, due after a tick and     *)
(* never due.                                                              *)
(***************************************************************************)
EXTENDS Scheduler
==============================================================================
