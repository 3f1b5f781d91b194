------------------------------ MODULE SlotQueue ------------------------------
(***************************************************************************)
(* What a receive manager promises its socket: the slots of the ring are   *)
(* lent one after the other, round the ring, at most N at a time, and are  *)
(* taken back in the order they were lent.  A slot is therefore not lent   *)
(* again before N - 1 others were lent after it.                           *)
(***************************************************************************)
EXTENDS Ring

VARIABLES
  oldest,   \* the slot that will be taken back next
  lent      \* how many slots, from `oldest' on, are lent

Init == oldest = 0 /\ lent = 0

Lend == lent < N /\ lent' = lent + 1 /\ UNCHANGED oldest

Return == lent > 0 /\ lent' = lent - 1 /\ oldest' = Succ(oldest)

Spec == Init /\ [][Lend \/ Return]_<<oldest, lent>>

=============================================================================
