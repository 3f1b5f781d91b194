------------------------------ MODULE SlotPool ------------------------------
(***************************************************************************)
(* How the pools of the socket layer hand out a place: get_node,           *)
(* get_tcp_node, get_union_protocol_base_cb and get_struct_node_buffer are *)
(* the same code.  The first free place is searched; only when there is    *)
(* none the pool's counter is used, and advanced, and only when that has   *)
(* reached the size the pool grows.  The counter starts at 0 and does not  *)
(* count the places the search found, so that the first places handed out  *)
(* from a full pool are in use.                                            *)
(*                                                                         *)
(* `busy' tells which places are in use, in order.                         *)
(***************************************************************************)
EXTENDS Integers, Sequences

FreePlaces(busy) == {i \in DOMAIN busy : ~ busy[i]}

Full(busy) == FreePlaces(busy) = {}

\* Mutant of Grows: one place too late.
GrowsLate(busy, count) == Full(busy) /\ count > Len(busy)

\* The pool is made twice as large.
Grows(busy, count) == Full(busy) /\ count >= Len(busy)

\* Mutant of Place: the counter's place, whatever is free.
PlaceOfCount(busy, count) == IF count < Len(busy) THEN count + 1 ELSE 1

\* The place handed out.
Place(busy, count) ==
  IF Full(busy) THEN count + 1
  ELSE CHOOSE i \in FreePlaces(busy) : \A j \in FreePlaces(busy) : i <= j

CountAfter(busy, count) == IF Full(busy) THEN count + 1 ELSE count

\* The place handed out has an owner already.
Shares(busy, count) == Full(busy) /\ count < Len(busy)

\* The pool's memory as the caller finds it; what realloc adds is junk.
Room(pool, busy, count, junk) ==
  IF Grows(busy, count) THEN pool \o [i \in 1 .. Len(pool) |-> junk] ELSE pool

=============================================================================
