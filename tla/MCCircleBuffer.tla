--------------------------- MODULE MCCircleBuffer ---------------------------
(***************************************************************************)
(* Model checking of CircleBuffer: a ring of three usable slots under a    *)
(* batch of four entries, so that one pass goes round the ring, and six    *)
(* entries, two more than the batch takes.                                 *)
(***************************************************************************)
EXTENDS CircleBuffer
=============================================================================
