------------------------------ MODULE LogQueue ------------------------------
(***************************************************************************)
(* What rb_log.c gives its callers: a queue of lines.  A line pushed into  *)
(* a queue that already holds Capacity lines is lost together with all of  *)
(* them.  Lines leave the queue at its head, a batch at a time; a batch is *)
(* written or it is lost.  Starting the log empties the queue.             *)
(***************************************************************************)
EXTENDS Naturals, Sequences

CONSTANTS
  Capacity,  \* lines the queue can hold
  Batch      \* lines written at a time, at most

VARIABLES
  backlog,   \* the lines waiting, oldest first
  pushed,    \* how many lines were pushed; a line is its number
  written    \* the lines written, in the order they were

Init == backlog = << >> /\ pushed = 0 /\ written = << >>

Push ==
  /\ pushed' = pushed + 1
  /\ backlog' = IF Len(backlog) = Capacity THEN << >> ELSE Append(backlog, pushed + 1)
  /\ UNCHANGED written

Take ==
  /\ \E k \in 1 .. Len(backlog) :
        /\ k <= Batch
        /\ backlog' = SubSeq(backlog, k + 1, Len(backlog))
        /\ \/ written' = written \o SubSeq(backlog, 1, k)
           \/ UNCHANGED written
  /\ UNCHANGED pushed

Discard == backlog' = << >> /\ UNCHANGED <<pushed, written>>

Spec == Init /\ [][Push \/ Take \/ Discard]_<<backlog, pushed, written>>

=============================================================================
