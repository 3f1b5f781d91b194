--------------------------- MODULE NodeRecvManager ---------------------------
(***************************************************************************)
(* The receive manager of a socket (node_recv_manager.c): a ring of nodes  *)
(* with a free/busy mark each and two scan positions.  get_free_node lends *)
(* a slot to the receiver thread, get_buzy_node takes a lent slot back.    *)
(* Each operation runs under the manager's own mutex, so it is one step.   *)
(***************************************************************************)
EXTENDS Ring

VARIABLES
  status,           \* node_buffer_status of each slot: 0 free, 1 busy
  next_free_index,  \* where get_free_node starts its scan
  next_busy_index   \* where get_buzy_node starts its scan

nrm == <<status, next_free_index, next_busy_index>>

Free == {i \in Index : status[i] = 0}
Busy == {i \in Index : status[i] = 1}

init_node_recv_manager ==
  /\ status = [i \in Index |-> 0]
  /\ next_free_index = 0
  /\ next_busy_index = 0

\* Mutant of get_free_node: next_free_index is not advanced.
get_free_node_stays(p) ==
  /\ Free # {}
  /\ p = Scan(next_free_index, Free)
  /\ status' = [status EXCEPT ![p] = 1]
  /\ UNCHANGED <<next_free_index, next_busy_index>>

\* get_free_node returns slot p ...
get_free_node(p) ==
  /\ Free # {}
  /\ p = Scan(next_free_index, Free)
  /\ status' = [status EXCEPT ![p] = 1]
  /\ next_free_index' = Succ(p)
  /\ UNCHANGED next_busy_index

\* ... or NULL when every slot is lent.
get_free_node_null ==
  /\ Free = {}
  /\ UNCHANGED nrm

\* Mutant of get_buzy_node: the scan starts at slot 0.
get_buzy_node_from_zero(p) ==
  /\ Busy # {}
  /\ p = Scan(0, Busy)
  /\ status' = [status EXCEPT ![p] = 0]
  /\ next_busy_index' = Succ(p)
  /\ UNCHANGED next_free_index

\* Mutant of get_buzy_node: the slot is not marked free.
get_buzy_node_keeps(p) ==
  /\ Busy # {}
  /\ p = Scan(next_busy_index, Busy)
  /\ next_busy_index' = Succ(p)
  /\ UNCHANGED <<status, next_free_index>>

\* get_buzy_node returns slot p ...
get_buzy_node(p) ==
  /\ Busy # {}
  /\ p = Scan(next_busy_index, Busy)
  /\ status' = [status EXCEPT ![p] = 0]
  /\ next_busy_index' = Succ(p)
  /\ UNCHANGED next_free_index

\* ... or NULL when no slot is lent.
get_buzy_node_null ==
  /\ Busy = {}
  /\ UNCHANGED nrm

=============================================================================
