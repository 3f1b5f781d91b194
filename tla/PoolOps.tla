------------------------------ MODULE PoolOps ------------------------------
(***************************************************************************)
(* What a session does to its pool as a whole (session_connection.c): add  *)
(* up its bytes, count the nodes of one send, and sort what is left by     *)
(* arrival.  A pool is a sequence of records with fields id (the order of  *)
(* arrival) and bytes.                                                     *)
(***************************************************************************)
EXTENDS Integers, Sequences

\* The bytes of the first k nodes.
Bytes(p, k) ==
  LET sum[i \in 0 .. k] == IF i = 0 THEN 0 ELSE sum[i - 1] + p[i].bytes
  IN  sum[k]

\* get_session_size adds in 16 bits (2^16 is `wide') and stops at max.
get_session_size(p, count, max, wide) ==
  LET total[i \in 0 .. count] ==
        IF i = 0 THEN 0
        ELSE IF total[i - 1] >= max THEN total[i - 1]
             ELSE (total[i - 1] + p[i].bytes) % wide
  IN  total[count]

\* The nodes process_session_node sends: up to the first that takes the sum
\* over the limit, and one at least.
SendCount(p, count, limit) ==
  LET over == {k \in 1 .. count : Bytes(p, k) > limit}
  IN  IF count = 0 THEN 1
      ELSE IF over = {} THEN count
           ELSE CHOOSE k \in over : \A j \in over : k <= j

\* Mutant of ShiftedIn: a node that arrived at the same time is passed too.
ShiftedInUnstably(p, i) ==
  LET place[j \in 1 .. i] ==
        IF j > 1 /\ p[j - 1].id >= p[i].id THEN place[j - 1] ELSE j
      at == place[i]
  IN  [k \in 1 .. Len(p) |->
         CASE k = at            -> p[i]
           [] at < k /\ k <= i  -> p[k - 1]
           [] OTHER             -> p[k]]

\* The key, node i, goes in front of the nodes before it that arrived later,
\* which move up.
ShiftedIn(p, i) ==
  LET place[j \in 1 .. i] ==
        IF j > 1 /\ p[j - 1].id > p[i].id THEN place[j - 1] ELSE j
      at == place[i]
  IN  [k \in 1 .. Len(p) |->
         CASE k = at            -> p[i]
           [] at < k /\ k <= i  -> p[k - 1]
           [] OTHER             -> p[k]]

\* sort_pool_by_arrival_inline
SortedByArrival(p) ==
  LET sorted[i \in 0 .. Len(p)] == IF i <= 1 THEN p ELSE ShiftedIn(sorted[i - 1], i)
  IN  sorted[Len(p)]

\* What the sort is for: r holds the nodes of s, each once, by arrival; those
\* that arrived together keep their order.
StableByArrival(r, s) ==
  /\ \A i, j \in 1 .. Len(r) : i < j => r[i].id <= r[j].id
  /\ Len(r) = Len(s)
  /\ \E p \in [1 .. Len(s) -> 1 .. Len(s)] :
       /\ \A i, j \in 1 .. Len(s) : p[i] = p[j] => i = j
       /\ \A i \in 1 .. Len(s) : r[i] = s[p[i]]
       /\ \A i, j \in 1 .. Len(s) : i < j /\ r[i].id = r[j].id => p[i] < p[j]

\* The first `count' places of a pool after n nodes were sent: __bcpy moves
\* the others down and leaves the places behind them as they were.
AfterSend(p, count, n) ==
  LET left == SortedByArrival(SubSeq(p, n + 1, count))
  IN  [i \in DOMAIN p |-> IF i <= Len(left) THEN left[i] ELSE p[i]]

------------------------------------------------------------------------------
(* What of a send reaches the network: `iov' nodes at most, and nothing over *)
(* a connection without a protocol.                                        *)

FirstOf(p, n) == SubSeq(p, 1, IF Len(p) < n THEN Len(p) ELSE n)

tcp_send_to_client(p, iov) == FirstOf(p, iov)

udp_send_to_client(p, iov) == FirstOf(p, iov)

dispatcher(proto, p, iov) ==
  CASE proto = "udp" -> udp_send_to_client(p, iov)
    [] proto = "tcp" -> tcp_send_to_client(p, iov)
    [] OTHER         -> << >>

=============================================================================
