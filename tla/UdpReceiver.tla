----------------------------- MODULE UdpReceiver -----------------------------
(***************************************************************************)
(* One UDP socket's receiver thread (socket_udp.c, receiver_thread), the   *)
(* callback it runs for every datagram (dmmr_socket.c,                     *)
(* on_receive_connection_cb), the receive manager they share and the fifo  *)
(* of the circle buffer they fill.  The thread lends itself a slot, blocks *)
(* in recvmsg on it and runs the callback, which takes every lent slot     *)
(* back and appends an entry that POINTS to the slot's node to the fifo;   *)
(* from then on the slot may be lent again while the entry is queued.      *)
(*                                                                         *)
(* Two outcomes of the code are constants, because they decide whether     *)
(* anything after them runs at all:                                        *)
(*   EntryPool  what get_struct_node_buffer does.  "as_built": its scan    *)
(*              reads p->n->fd of an entry that calloc left with n = NULL, *)
(*              and the process dies.  "fresh": it returns an unused       *)
(*              entry, the contract the callback relies on, or NULL when   *)
(*              the entries cannot grow.                                   *)
(*   Relock     what pthread_mutex_lock does for get_buzy_node when the    *)
(*              callback already holds nrm->mutex, a default mutex.        *)
(*              "block": it never returns (Linux).  "error": it returns    *)
(*              EDEADLK, ignored by the caller (FreeBSD).                  *)
(***************************************************************************)
EXTENDS NodeRecvManager, Sequences, FiniteSets

CONSTANTS
  EntryPool,
  Relock,
  MaxDatagrams   \* bound on the datagrams the network delivers

ASSUME ConfigAssumption ==
  /\ EntryPool \in {"as_built", "fresh"}
  /\ Relock \in {"block", "error"}

VARIABLES
  pc,          \* where the receiver thread is
  pos,         \* the slot lent to the pending recvmsg
  node,        \* the payload in each slot: the number of the datagram
               \* received into it, Blank before the first
  short,       \* the entries could not grow: nbuff is NULL
  fifo,        \* the entries queued: the slot an entry points to and the
               \* payload that slot held when the entry was queued
  received,    \* history: outcome of every recvmsg that returned >= 0, the
               \* datagram's number or Empty
  delivered    \* history: payload of every entry ever queued

vars == <<nrm, pc, pos, node, fifo, short, received, delivered>>

Blank == 0
Empty == 0

\* fifo_lock is held by the callback from its lock to its unlock.
fifo_locked == pc \in {"entry", "busy", "stuck", "crashed"}

Init ==
  /\ init_node_recv_manager
  /\ pc = "loop"
  /\ pos = 0
  /\ node = [i \in Index |-> Blank]
  /\ fifo = << >>
  /\ short = FALSE
  /\ received = << >>
  /\ delivered = << >>

------------------------------------------------------------------------------
(* receiver_thread *)

\* Top of the loop: lend a slot to the coming recvmsg ...
LendSlot ==
  /\ pc = "loop"
  /\ \E p \in Index : get_free_node(p) /\ pos' = p
  /\ pc' = "recv"
  /\ UNCHANGED <<node, fifo, received, delivered, short>>

\* ... or go round again: `run' is never cleared, so the thread spins.
NoSlot ==
  /\ pc = "loop"
  /\ get_free_node_null
  /\ UNCHANGED <<pc, pos, node, fifo, received, delivered, short>>

\* Mutant of ReceiveData: the callback is not run.
ReceiveDataSilently ==
  /\ pc = "recv"
  /\ Len(received) < MaxDatagrams
  /\ received' = Append(received, Len(received) + 1)
  /\ node' = [node EXCEPT ![pos] = Len(received) + 1]
  /\ pc' = "loop"
  /\ UNCHANGED <<nrm, pos, fifo, delivered, short>>

\* recvmsg returns a datagram: the node of the slot is filled.
ReceiveData ==
  /\ pc = "recv"
  /\ Len(received) < MaxDatagrams
  /\ received' = Append(received, Len(received) + 1)
  /\ node' = [node EXCEPT ![pos] = Len(received) + 1]
  /\ pc' = "callback"
  /\ UNCHANGED <<nrm, pos, fifo, delivered, short>>

\* recvmsg returns 0, an empty datagram: `continue', the slot stays lent.
ReceiveEmpty ==
  /\ pc = "recv"
  /\ Len(received) < MaxDatagrams
  /\ received' = Append(received, Empty)
  /\ pc' = "loop"
  /\ UNCHANGED <<nrm, pos, node, fifo, delivered, short>>

\* recvmsg fails: the thread leaves the loop and calls on_close_cb, where
\* get_session_cfg reads the port of a node pointer that is NULL, and the
\* process dies.
ReceiveError ==
  /\ pc = "recv"
  /\ pc' = "closed"
  /\ UNCHANGED <<nrm, pos, node, fifo, received, delivered, short>>

------------------------------------------------------------------------------
(* on_receive_connection_cb *)

\* Lock nrm->mutex, which only this thread uses, and fifo_lock.
EnterCallback ==
  /\ pc = "callback"
  /\ ~ fifo_locked
  /\ pc' = "entry"
  /\ UNCHANGED <<nrm, pos, node, fifo, received, delivered, short>>

\* get_struct_node_buffer, whose scan finds no array after it could not grow
\* once, then the lock get_buzy_node takes on the mutex its caller holds.
TakeEntryAndRelock ==
  /\ pc = "entry"
  /\ pc' = CASE EntryPool = "as_built" \/ short -> "crashed"
             [] EntryPool = "fresh" /\ ~ short /\ Relock = "block" -> "stuck"
             [] EntryPool = "fresh" /\ ~ short /\ Relock = "error" -> "busy"
  /\ UNCHANGED <<nrm, pos, node, fifo, received, delivered, short>>

\* get_struct_node_buffer returns NULL: unlock and return to the loop, the
\* slots still lent.
NoEntry ==
  /\ pc = "entry" /\ EntryPool = "fresh" /\ ~ short
  /\ short' = TRUE
  /\ pc' = "loop"
  /\ UNCHANGED <<nrm, pos, node, fifo, received, delivered>>

\* Mutant of QueueEntry: one entry per callback, without the loop.
QueueOneEntry ==
  /\ pc = "busy"
  /\ \E p \in Index :
        /\ get_buzy_node(p)
        /\ fifo' = Append(fifo, [slot |-> p, payload |-> node[p]])
        /\ delivered' = Append(delivered, node[p])
  /\ pc' = "loop"
  /\ UNCHANGED <<pos, node, received, short>>

\* get_buzy_node returns a slot; the entry is linked to it and queued.
QueueEntry ==
  /\ pc = "busy"
  /\ \E p \in Index :
        /\ get_buzy_node(p)
        /\ fifo' = Append(fifo, [slot |-> p, payload |-> node[p]])
        /\ delivered' = Append(delivered, node[p])
  /\ pc' = "entry"
  /\ UNCHANGED <<pos, node, received, short>>

\* get_buzy_node returns NULL: unlock and return to the loop.
LeaveCallback ==
  /\ pc = "busy"
  /\ get_buzy_node_null
  /\ pc' = "loop"
  /\ UNCHANGED <<pos, node, fifo, received, delivered, short>>

------------------------------------------------------------------------------
(* The other side of the fifo: fifo_worker removes entries under fifo_lock. *)
WorkerTakes ==
  /\ ~ fifo_locked /\ pc # "closed"
  /\ \E m \in 1 .. Len(fifo) : fifo' = SubSeq(fifo, m + 1, Len(fifo))
  /\ UNCHANGED <<nrm, pc, pos, node, received, delivered, short>>

------------------------------------------------------------------------------
\* What the receiver thread does by itself, recvmsg's return excepted.
Receiver ==
  \/ LendSlot \/ NoSlot
  \/ EnterCallback \/ TakeEntryAndRelock \/ NoEntry \/ QueueEntry \/ LeaveCallback

Network == ReceiveData \/ ReceiveEmpty \/ ReceiveError

Next == Receiver \/ Network \/ WorkerTakes

Spec == Init /\ [][Next]_vars

\* The thread is an ordinary runnable thread: it keeps taking its own steps.
\* Nothing is assumed of the network or of the worker.
FairSpec == Spec /\ WF_vars(Receiver)

------------------------------------------------------------------------------
(* Properties *)

\* How many slots are lent, counted from the history: one per recvmsg that
\* returned, one for the recvmsg that is pending or has failed, less one per
\* entry queued.
Lent ==
  Len(received) + (IF pc \in {"recv", "closed"} THEN 1 ELSE 0) - Len(delivered)

Payload == 0 .. Len(received)

\* Every variable has its type: the positions of the two scans stay in the
\* ring, and no slot shows a datagram that was not received.
TypeOK ==
  /\ status \in [Index -> {0, 1}]
  /\ next_free_index \in Index
  /\ next_busy_index \in Index
  /\ pc \in {"loop", "recv", "callback", "entry", "busy", "stuck", "crashed", "closed"}
  /\ pos \in Index
  /\ node \in [Index -> Payload]
  /\ fifo \in Seq([slot : Index, payload : Payload])
  /\ short \in BOOLEAN
  /\ received \in Seq(Payload)
  /\ delivered \in Seq(Payload)

(***************************************************************************)
(* The k-th entry the callback queues is for the k-th recvmsg that         *)
(* returned: datagrams enter the fifo in arrival order, none twice, none   *)
(* skipped.  An empty datagram also produces an entry, because its slot is *)
(* left lent: what that entry shows is whatever the slot held one round of *)
(* the ring earlier, so the payload queued N entries before is queued      *)
(* again (receiver_thread's `continue' and the callback's do loop).        *)
(***************************************************************************)
DeliveredAsReceived ==
  /\ Len(delivered) <= Len(received)
  /\ \A k \in 1 .. Len(delivered) :
        delivered[k] = IF received[k] # Empty THEN received[k]
                       ELSE IF k > N THEN delivered[k - N]
                       ELSE Blank

(***************************************************************************)
(* An entry points into the ring, and its slot is free again as soon as it *)
(* is queued.  It still shows its own datagram as long as fewer than N     *)
(* slots were lent after its own: the entries queued behind it and the     *)
(* slots lent now.  The ring has no other protection of queued entries.    *)
(***************************************************************************)
QueuedIntact ==
  \A i \in 1 .. Len(fifo) :
     Len(fifo) - i + Lent < N => node[fifo[i].slot] = fifo[i].payload

(***************************************************************************)
(* get_free_node can fail only after N empty datagrams in a row; then the  *)
(* thread spins in its loop.  Any other backlog is drained by the callback *)
(* before the thread asks for a slot, unless it found no entry.            *)
(***************************************************************************)
SpinsOnlyAfterEmpties ==
  pc = "loop" /\ Free = {} /\ ~ short =>
    /\ Len(received) >= N
    /\ \A k \in Len(received) - N + 1 .. Len(received) : received[k] = Empty

(***************************************************************************)
(* The inductive invariant behind these.  Slot i, at distance k from       *)
(* next_busy_index, belongs to the lend number Len(delivered) + k + 1; it  *)
(* is busy when k < Lent, and it shows the datagram of that lend if it has *)
(* one and otherwise what it showed one round of the ring earlier.         *)
(***************************************************************************)
Before(e) == IF e > N THEN delivered[e - N] ELSE Blank

LendOf(i) == Len(delivered) + Dist(next_busy_index, i) + 1

RingIsQueue ==
  /\ Lent \in 0 .. N
  /\ Len(delivered) <= Len(received)
  /\ next_free_index = Plus(next_busy_index, Lent)
  /\ \A i \in Index : status[i] = 1 <=> Dist(next_busy_index, i) < Lent
  /\ pc \in {"recv", "closed"} => Dist(next_busy_index, pos) = Lent - 1

NodesShowLends ==
  \A i \in Index :
     node[i] = IF LendOf(i) <= Len(received) /\ received[LendOf(i)] # Empty
               THEN received[LendOf(i)]
               ELSE Before(LendOf(i))

FifoIsLatest ==
  /\ Len(fifo) <= Len(delivered)
  /\ \A i \in 1 .. Len(fifo) :
        /\ fifo[i].payload = delivered[Len(delivered) - Len(fifo) + i]
        /\ Len(fifo) - i < N =>
             Dist(next_busy_index, fifo[i].slot) = N - (Len(fifo) - i + 1)

BacklogIsEmpties ==
  pc \in {"loop", "recv", "closed"} /\ ~ short =>
    \A k \in Len(delivered) + 1 .. Len(received) : received[k] = Empty

IInv ==
  /\ TypeOK
  /\ RingIsQueue
  /\ NodesShowLends
  /\ FifoIsLatest
  /\ BacklogIsEmpties
  /\ DeliveredAsReceived

(***************************************************************************)
(* The two scans of the receive manager never have to search: what they    *)
(* implement is a queue of slots lent round the ring and taken back oldest *)
(* first.                                                                  *)
(***************************************************************************)
SQ == INSTANCE SlotQueue WITH oldest <- next_busy_index, lent <- Cardinality(Busy)

\* Every step of the receiver and of the callback lends one slot, takes one
\* back or leaves the ring alone, as SlotQueue allows.
ImplementsSlotQueue == SQ!Spec

(***************************************************************************)
(* Every datagram the socket receives is queued for the circle buffer,     *)
(* unless there is no memory for entries.                                  *)
(***************************************************************************)
ReceivedIsQueued ==
  \A k \in 1 .. MaxDatagrams :
     (Len(received) >= k /\ received[k] # Empty) ~> (Len(delivered) >= k \/ short)

=============================================================================
