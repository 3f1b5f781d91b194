----------------------------- MODULE RingWriter -----------------------------
(***************************************************************************)
(* What the sessions see of the circular buffer: a ring of N slots in use, *)
(* 0 .. N - 1, in front of the LAST node N, and a cursor that one writer   *)
(* moves round it, a copy and two stores at a time.  CircleBuffer          *)
(* implements it; Session reads it.                                        *)
(***************************************************************************)
EXTENDS Integers

CONSTANTS
  N,        \* slots in use
  Values    \* what a slot may hold

VARIABLES
  ring,     \* the nodes of this->head
  cursor,   \* this->cursor
  step      \* the writer's next step

ringVars == <<ring, cursor, step>>

\* A value goes to the slot under the cursor.
Copy(v) ==
  /\ step = "copy"
  /\ ring' = [ring EXCEPT ![cursor] = v]
  /\ step' = "advance"
  /\ UNCHANGED cursor

\* foward_current_node stores the next node ...
Advance ==
  /\ step = "advance"
  /\ cursor' = cursor + 1
  /\ step' = IF cursor' = N THEN "wrap" ELSE "copy"
  /\ UNCHANGED ring

\* ... and then, if that is the LAST, the FIRST.
Wrap ==
  /\ step = "wrap"
  /\ cursor' = 0
  /\ step' = "copy"
  /\ UNCHANGED ring

WriterInit ==
  /\ ring \in [0 .. N -> Values]
  /\ cursor = 0
  /\ step = "copy"

WriterNext == (\E v \in Values : Copy(v)) \/ Advance \/ Wrap

WriterSpec == WriterInit /\ [][WriterNext]_ringVars

=============================================================================
