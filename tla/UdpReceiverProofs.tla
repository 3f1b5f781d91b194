-------------------------- MODULE UdpReceiverProofs --------------------------
(***************************************************************************)
(* IInv is an inductive invariant of UdpReceiver, for every ring size,     *)
(* every number of datagrams and both outcomes of EntryPool and Relock.    *)
(* The safety properties and the refinement of SlotQueue follow from it.   *)
(***************************************************************************)
EXTENDS UdpReceiver, FiniteSetTheorems, SequenceTheorems, TLAPS

------------------------------------------------------------------------------
(* The ring *)

\* Ring arithmetic stays within the ring.
LEMMA RingTypes ==
  ASSUME NEW i \in Index
  PROVE  /\ Succ(i) \in Index
         /\ \A k \in 0 .. N : Plus(i, k) \in Index
         /\ \A j \in Index : Dist(i, j) \in 0 .. N - 1
  BY NAssumption DEF Index, Succ, Plus, Dist

\* Moving the origin one place on brings every other slot one place nearer.
LEMMA DistSucc ==
  ASSUME NEW i \in Index, NEW j \in Index
  PROVE  Dist(Succ(i), j) = IF j = i THEN N - 1 ELSE Dist(i, j) - 1
  BY NAssumption DEF Index, Succ, Dist

\* Dist undoes Plus, and a full round leads back.
LEMMA DistPlus ==
  ASSUME NEW i \in Index
  PROVE  /\ \A k \in 0 .. N - 1 : Dist(i, Plus(i, k)) = k
         /\ \A j \in Index : Dist(i, j) = 0 <=> j = i
         /\ \A j, l \in Index : Dist(i, j) = Dist(i, l) => j = l
         /\ Plus(i, 0) = i
         /\ Plus(i, N) = i
  BY NAssumption DEF Index, Plus, Dist

\* A successor at either end of a stretch of slots.
LEMMA PlusSucc ==
  ASSUME NEW i \in Index
  PROVE  /\ \A k \in 0 .. N - 1 : Succ(Plus(i, k)) = Plus(i, k + 1)
         /\ \A k \in 1 .. N : Plus(Succ(i), k - 1) = Plus(i, k)
  BY NAssumption DEF Index, Succ, Plus

\* A circular scan returns its starting slot when that one qualifies.
LEMMA ScanFirst ==
  ASSUME NEW i \in Index, NEW S, i \in S
  PROVE  Scan(i, S) = i
<1> DEFINE P(k) == /\ Plus(i, k) \in S
                   /\ \A j \in 0 .. k - 1 : Plus(i, j) \notin S
<1>1. Plus(i, 0) = i
  BY DistPlus
<1>2. 0 \in Index /\ P(0)
  BY <1>1, NAssumption DEF Index
<1>3. ASSUME NEW k \in Index, P(k)
      PROVE  k = 0
  <2>1. CASE 0 \in 0 .. k - 1
    BY <1>1, <1>3, <2>1
  <2>2. CASE 0 \notin 0 .. k - 1
    BY <2>2, NAssumption DEF Index
  <2> QED BY <2>1, <2>2
<1>4. (CHOOSE k \in Index : P(k)) = 0
  <2> HIDE DEF P
  <2> QED BY <1>2, <1>3
<1> QED
  BY <1>1, <1>4 DEF Scan

------------------------------------------------------------------------------
(* The receiver *)

\* With the ring in queue order, get_free_node finds its slot at the first
\* place it looks, and fails exactly when all N slots are lent.
LEMMA FreeScan ==
  ASSUME TypeOK, RingIsQueue
  PROVE  /\ Free = {} <=> Lent = N
         /\ Lent < N => Scan(next_free_index, Free) = next_free_index
<1>0. /\ next_busy_index \in Index /\ next_free_index \in Index
      /\ status \in [Index -> {0, 1}]
  BY DEF TypeOK
<1>1. \A i \in Index : i \in Free <=> Dist(next_busy_index, i) >= Lent
  <2> SUFFICES ASSUME NEW i \in Index
               PROVE  i \in Free <=> Dist(next_busy_index, i) >= Lent
    OBVIOUS
  <2>1. status[i] = 1 <=> Dist(next_busy_index, i) < Lent
    BY DEF RingIsQueue
  <2>2. Dist(next_busy_index, i) \in Int /\ Lent \in Int
    BY <1>0, RingTypes, NAssumption DEF RingIsQueue
  <2> QED BY <1>0, <2>1, <2>2 DEF Free
<1>2. CASE Lent < N
  <2>1. Lent \in 0 .. N - 1
    BY <1>2, NAssumption DEF RingIsQueue
  <2>2. Dist(next_busy_index, next_free_index) = Lent
    BY <1>0, <2>1, DistPlus DEF RingIsQueue
  <2>3. next_free_index \in Free
    BY <1>0, <1>1, <2>1, <2>2
  <2> QED BY <1>0, <1>2, <2>3, ScanFirst, NAssumption
<1>3. CASE Lent = N
  <2>1. \A i \in Index : Dist(next_busy_index, i) < N
    BY <1>0, RingTypes, NAssumption
  <2>2. Free = {}
    BY <1>0, <1>1, <1>3, <2>1, RingTypes, NAssumption DEF Free
  <2> QED BY <1>3, <2>2, NAssumption
<1> QED
  BY <1>2, <1>3, NAssumption DEF RingIsQueue

\* Likewise get_buzy_node takes the oldest lent slot, and fails exactly when
\* nothing is lent.
LEMMA BusyScan ==
  ASSUME TypeOK, RingIsQueue
  PROVE  /\ Busy = {} <=> Lent = 0
         /\ Lent > 0 => Scan(next_busy_index, Busy) = next_busy_index
<1>0. next_busy_index \in Index /\ Lent \in 0 .. N
  BY DEF TypeOK, RingIsQueue
<1>1. \A i \in Index : i \in Busy <=> Dist(next_busy_index, i) < Lent
  BY DEF RingIsQueue, Busy
<1>2. CASE Lent > 0
  <2>1. Dist(next_busy_index, next_busy_index) = 0
    BY <1>0, DistPlus
  <2>2. next_busy_index \in Busy
    BY <1>0, <1>1, <1>2, <2>1
  <2> QED BY <1>0, <1>2, <2>2, ScanFirst
<1>3. CASE Lent = 0
  <2>1. \A i \in Index : Dist(next_busy_index, i) \in 0 .. N - 1
    BY <1>0, RingTypes
  <2>2. Busy = {}
    BY <1>1, <1>3, <2>1, NAssumption DEF Busy
  <2> QED BY <1>3, <2>2
<1> QED BY <1>0, <1>2, <1>3

------------------------------------------------------------------------------
\* The initial state: nothing lent, nothing queued.
LEMMA InitInv == Init => IInv
<1> SUFFICES ASSUME Init PROVE IInv
  OBVIOUS
<1> USE NAssumption DEF Init, init_node_recv_manager
<1>1. 0 \in Index /\ Plus(0, 0) = 0
  BY DEF Index, Plus
<1>2. TypeOK
  BY <1>1 DEF TypeOK, Payload, Blank
<1>3. Lent = 0 /\ Len(delivered) = 0 /\ Len(received) = 0 /\ Len(fifo) = 0
  BY DEF Lent
<1>4. \A i \in Index : Dist(0, i) \in 0 .. N - 1
  BY <1>1, RingTypes
<1>5. RingIsQueue
  BY <1>1, <1>3, <1>4 DEF RingIsQueue
<1>6. NodesShowLends
  BY <1>3, <1>4 DEF NodesShowLends, LendOf, Before, Blank
<1>7. FifoIsLatest /\ BacklogIsEmpties /\ DeliveredAsReceived
  BY <1>3 DEF FifoIsLatest, BacklogIsEmpties, DeliveredAsReceived
<1> QED
  BY <1>2, <1>5, <1>6, <1>7 DEF IInv

\* A step that moves only the thread, and not across the two counters that
\* depend on pc, preserves everything.
LEMMA MoveInv ==
  ASSUME IInv,
         UNCHANGED <<nrm, pos, node, fifo, received, delivered>>,
         pc' \in {"entry", "busy", "stuck", "crashed", "loop"},
         pc \in {"callback", "entry"},
         short' \in BOOLEAN, pc' = "loop" => short'
  PROVE  IInv'
<1>1. Lent' = Lent
  BY DEF Lent
<1> USE DEF IInv, nrm
<1>2. TypeOK'
  BY DEF TypeOK, Payload
<1>3. RingIsQueue'
  BY <1>1 DEF RingIsQueue
<1>4. NodesShowLends'
  BY DEF NodesShowLends, LendOf, Before
<1>5. FifoIsLatest'
  BY DEF FifoIsLatest
<1>6. BacklogIsEmpties' /\ DeliveredAsReceived'
  BY DEF BacklogIsEmpties, DeliveredAsReceived
<1> QED
  BY <1>2, <1>3, <1>4, <1>5, <1>6

\* get_free_node lends the slot after the newest lent one.
LEMMA LendSlotInv ==
  ASSUME IInv, LendSlot
  PROVE  IInv'
<1> USE DEF IInv
<1>0. PICK p \in Index : get_free_node(p) /\ pos' = p
  BY DEF LendSlot
<1>t. /\ next_busy_index \in Index /\ next_free_index \in Index
      /\ status \in [Index -> {0, 1}]
      /\ received \in Seq(Payload) /\ delivered \in Seq(Payload)
  BY DEF TypeOK
<1>1. Lent \in 0 .. N - 1 /\ p = next_free_index
  BY <1>0, FreeScan, NAssumption DEF get_free_node, RingIsQueue
<1>2. Lent' = Lent + 1
  BY <1>t DEF LendSlot, Lent
<1>3. TypeOK'
  BY <1>0, <1>t, RingTypes DEF TypeOK, LendSlot, get_free_node, Payload
<1>4. RingIsQueue'
  <2>1. Dist(next_busy_index, p) = Lent
    BY <1>t, <1>1, DistPlus DEF RingIsQueue
  <2>2. next_free_index' = Plus(next_busy_index, Lent + 1)
    BY <1>t, <1>0, <1>1, PlusSucc DEF get_free_node, RingIsQueue
  <2>3. ASSUME NEW i \in Index
        PROVE  status'[i] = 1 <=> Dist(next_busy_index, i) < Lent + 1
    <3>1. Dist(next_busy_index, i) \in 0 .. N - 1
      BY <1>t, RingTypes
    <3>2. CASE i = p
      BY <1>0, <1>t, <1>1, <2>1, <3>2 DEF get_free_node
    <3>3. CASE i # p
      <4>1. Dist(next_busy_index, i) # Lent
        BY <1>t, <2>1, <3>3, DistPlus
      <4>2. status'[i] = status[i]
        BY <1>0, <1>t, <3>3 DEF get_free_node
      <4> QED BY <1>1, <3>1, <4>1, <4>2, NAssumption DEF RingIsQueue
    <3> QED BY <3>2, <3>3
  <2>4. next_busy_index' = next_busy_index /\ pos' = p /\ pc' = "recv"
        /\ received' = received /\ delivered' = delivered
    BY <1>0 DEF LendSlot, get_free_node
  <2> QED
    BY <1>1, <1>2, <2>1, <2>2, <2>3, <2>4, NAssumption DEF RingIsQueue
<1>5. NodesShowLends' /\ FifoIsLatest' /\ DeliveredAsReceived'
  BY <1>0 DEF NodesShowLends, LendOf, Before, FifoIsLatest, DeliveredAsReceived,
              LendSlot, get_free_node
<1>6. BacklogIsEmpties'
  BY <1>0 DEF BacklogIsEmpties, LendSlot, get_free_node
<1> QED
  BY <1>3, <1>4, <1>5, <1>6

\* A sequence over S is one over every larger set.
LEMMA SeqMono ==
  ASSUME NEW S, NEW T, S \subseteq T, NEW q \in Seq(S)
  PROVE  q \in Seq(T)
  OBVIOUS

\* Payloads only get more.
LEMMA PayloadGrows ==
  ASSUME TypeOK, Payload \subseteq Payload'
  PROVE  /\ \A f \in [Index -> Payload] : f \in [Index -> Payload']
         /\ delivered \in Seq(Payload')
         /\ fifo \in Seq([slot : Index, payload : Payload'])
<1>1. [slot : Index, payload : Payload] \subseteq [slot : Index, payload : Payload']
  OBVIOUS
<1>2. fifo \in Seq([slot : Index, payload : Payload']) /\ delivered \in Seq(Payload')
  BY <1>1, SeqMono DEF TypeOK
<1> QED
  BY <1>2

\* Every slot belongs to a lend.
LEMMA LendOfType ==
  ASSUME TypeOK, NEW i \in Index
  PROVE  /\ Dist(next_busy_index, i) \in 0 .. N - 1
         /\ LendOf(i) \in Nat /\ LendOf(i) > 0
<1>1. Dist(next_busy_index, i) \in 0 .. N - 1
  BY RingTypes DEF TypeOK
<1>2. Len(delivered) \in Nat
  BY DEF TypeOK
<1> QED
  BY <1>1, <1>2, NAssumption DEF LendOf

\* recvmsg returns: the pending lend gets its outcome v and, when it is a
\* datagram, its payload; the count of lent slots does not change.
LEMMA ReturnCounts ==
  ASSUME IInv, pc = "recv", pc' \in {"loop", "callback"}, delivered' = delivered,
         NEW v \in Nat, received' = Append(received, v)
  PROVE  /\ received \in Seq(Payload) /\ delivered \in Seq(Payload)
         /\ Len(received) \in Nat /\ Len(delivered) \in Nat
         /\ Len(received') = Len(received) + 1
         /\ received'[Len(received) + 1] = v
         /\ \A k \in 1 .. Len(received) : received'[k] = received[k]
         /\ Lent' = Lent
         /\ Len(received) + 1 - Len(delivered) = Lent
<1>1. received \in Seq(Payload) /\ delivered \in Seq(Payload)
  BY DEF IInv, TypeOK
<1>2. received \in Seq(Nat)
  BY <1>1 DEF Payload
<1>3. /\ Len(received') = Len(received) + 1
      /\ received'[Len(received) + 1] = v
      /\ \A k \in 1 .. Len(received) : received'[k] = received[k]
  BY <1>2, AppendProperties
<1> QED
  BY <1>1, <1>2, <1>3 DEF Lent

LEMMA ReceiveEmptyInv ==
  ASSUME IInv, ReceiveEmpty
  PROVE  IInv'
<1> USE DEF IInv
<1>0. /\ pc = "recv" /\ pc' = "loop" /\ received' = Append(received, Empty)
      /\ UNCHANGED <<status, next_free_index, next_busy_index, pos, node, fifo, delivered, short>>
  BY DEF ReceiveEmpty, nrm
<1>1. /\ received \in Seq(Payload) /\ delivered \in Seq(Payload)
      /\ Len(received) \in Nat /\ Len(delivered) \in Nat
      /\ Len(received') = Len(received) + 1
      /\ received'[Len(received) + 1] = Empty
      /\ \A k \in 1 .. Len(received) : received'[k] = received[k]
      /\ Lent' = Lent
      /\ Len(received) + 1 - Len(delivered) = Lent
  BY <1>0, ReturnCounts DEF Empty
<1>2. TypeOK'
  <2>1. Payload \subseteq Payload'
    BY <1>1 DEF Payload
  <2>2. received' \in Seq(Payload')
    BY <1>0, <1>1, <2>1 DEF Payload, Empty
  <2>3. node' \in [Index -> Payload'] /\ delivered' \in Seq(Payload')
        /\ fifo' \in Seq([slot : Index, payload : Payload'])
    BY <1>0, <2>1, PayloadGrows DEF TypeOK
  <2> QED BY <1>0, <2>2, <2>3 DEF TypeOK
<1>3. RingIsQueue'
  BY <1>0, <1>1 DEF RingIsQueue
<1>4. NodesShowLends'
  <2> SUFFICES ASSUME NEW i \in Index
               PROVE  node[i] = IF LendOf(i) <= Len(received') /\ received'[LendOf(i)] # Empty
                                THEN received'[LendOf(i)]
                                ELSE Before(LendOf(i))
    BY <1>0 DEF NodesShowLends, LendOf, Before
  <2>1. LendOf(i) \in Nat /\ LendOf(i) > 0
    BY LendOfType
  <2>2. CASE LendOf(i) = Len(received) + 1
    BY <1>1, <2>1, <2>2 DEF NodesShowLends, Empty
  <2>3. CASE LendOf(i) # Len(received) + 1
    BY <1>1, <2>1, <2>3 DEF NodesShowLends
  <2> QED BY <2>2, <2>3
<1>5. FifoIsLatest' /\ DeliveredAsReceived'
  BY <1>0, <1>1 DEF FifoIsLatest, DeliveredAsReceived
<1>6. BacklogIsEmpties'
  BY <1>0, <1>1 DEF BacklogIsEmpties
<1> QED
  BY <1>2, <1>3, <1>4, <1>5, <1>6

LEMMA ReceiveDataInv ==
  ASSUME IInv, ReceiveData
  PROVE  IInv'
<1> USE DEF IInv
<1> DEFINE v == Len(received) + 1
<1>0. /\ pc = "recv" /\ pc' = "callback" /\ received' = Append(received, v)
      /\ node' = [node EXCEPT ![pos] = v]
      /\ UNCHANGED <<status, next_free_index, next_busy_index, pos, fifo, delivered, short>>
  BY DEF ReceiveData, nrm
<1>v. v \in Nat /\ v > 0
  BY DEF TypeOK
<1> HIDE DEF v
<1>1. /\ received \in Seq(Payload) /\ delivered \in Seq(Payload)
      /\ Len(received) \in Nat /\ Len(delivered) \in Nat
      /\ Len(received') = Len(received) + 1
      /\ received'[Len(received) + 1] = v
      /\ \A k \in 1 .. Len(received) : received'[k] = received[k]
      /\ Lent' = Lent
      /\ Len(received) + 1 - Len(delivered) = Lent
  BY <1>0, <1>v, ReturnCounts
<1>2. TypeOK'
  <2>1. Payload \subseteq Payload' /\ v \in Payload'
    BY <1>1, <1>v DEF Payload, v
  <2>2. received' \in Seq(Payload')
    BY <1>0, <1>1, <2>1
  <2>3. node' \in [Index -> Payload'] /\ delivered' \in Seq(Payload')
        /\ fifo' \in Seq([slot : Index, payload : Payload'])
    <3>1. node \in [Index -> Payload'] /\ delivered \in Seq(Payload')
          /\ fifo \in Seq([slot : Index, payload : Payload'])
      BY <2>1, PayloadGrows DEF TypeOK
    <3> QED BY <1>0, <2>1, <3>1
  <2> QED BY <1>0, <2>2, <2>3 DEF TypeOK
<1>3. RingIsQueue'
  BY <1>0, <1>1 DEF RingIsQueue
<1>4. NodesShowLends'
  <2> SUFFICES ASSUME NEW i \in Index
               PROVE  node'[i] = IF LendOf(i) <= Len(received') /\ received'[LendOf(i)] # Empty
                                 THEN received'[LendOf(i)]
                                 ELSE Before(LendOf(i))
    BY <1>0 DEF NodesShowLends, LendOf, Before
  <2>1. LendOf(i) \in Nat /\ LendOf(i) > 0
    BY LendOfType
  <2>2. LendOf(i) = Len(received) + 1 <=> i = pos
    <3>1. pos \in Index /\ next_busy_index \in Index
      BY DEF TypeOK
    <3>2. Dist(next_busy_index, i) \in 0 .. N - 1 /\ Dist(next_busy_index, pos) = Lent - 1
      BY <1>0, LendOfType DEF RingIsQueue
    <3>3. LendOf(i) = Len(received) + 1 <=> Dist(next_busy_index, i) = Lent - 1
      BY <1>1, <3>2, NAssumption DEF LendOf, RingIsQueue
    <3> QED BY <3>1, <3>2, <3>3, DistPlus
  <2>3. CASE i = pos
    BY <1>0, <1>1, <1>v, <2>2, <2>3 DEF TypeOK, Empty
  <2>4. CASE i # pos
    <3>1. node'[i] = node[i]
      BY <1>0, <2>4 DEF TypeOK
    <3> QED BY <1>1, <2>1, <2>2, <2>4, <3>1 DEF NodesShowLends
  <2> QED BY <2>3, <2>4
<1>5. FifoIsLatest' /\ DeliveredAsReceived'
  BY <1>0, <1>1 DEF FifoIsLatest, DeliveredAsReceived
<1>6. BacklogIsEmpties'
  BY <1>0 DEF BacklogIsEmpties
<1> QED
  BY <1>2, <1>3, <1>4, <1>5, <1>6

\* Steps that end one stretch of the thread's path and start another.
LEMMA ReceiveErrorInv ==
  ASSUME IInv, ReceiveError
  PROVE  IInv'
<1> USE DEF IInv, ReceiveError, nrm
<1>1. Lent' = Lent
  BY DEF Lent
<1>2. TypeOK' /\ RingIsQueue'
  BY <1>1 DEF TypeOK, Payload, RingIsQueue
<1>3. NodesShowLends' /\ FifoIsLatest'
  BY DEF NodesShowLends, LendOf, Before, FifoIsLatest
<1>4. BacklogIsEmpties' /\ DeliveredAsReceived'
  BY DEF BacklogIsEmpties, DeliveredAsReceived
<1> QED
  BY <1>2, <1>3, <1>4

LEMMA LeaveCallbackInv ==
  ASSUME IInv, LeaveCallback
  PROVE  IInv'
<1> USE DEF IInv
<1>0. /\ pc = "busy" /\ pc' = "loop" /\ Busy = {}
      /\ UNCHANGED <<status, next_free_index, next_busy_index, pos, node, fifo, received, delivered, short>>
  BY DEF LeaveCallback, get_buzy_node_null, nrm
<1>1. Lent' = Lent /\ Lent = 0
  BY <1>0, BusyScan DEF Lent
<1>2. Len(received) = Len(delivered)
  BY <1>0, <1>1 DEF Lent, TypeOK
<1>3. TypeOK' /\ RingIsQueue'
  BY <1>0, <1>1 DEF TypeOK, Payload, RingIsQueue
<1>4. NodesShowLends' /\ FifoIsLatest' /\ DeliveredAsReceived'
  BY <1>0 DEF NodesShowLends, LendOf, Before, FifoIsLatest, DeliveredAsReceived
<1>5. BacklogIsEmpties'
  BY <1>0, <1>2 DEF BacklogIsEmpties, TypeOK
<1> QED
  BY <1>3, <1>4, <1>5

\* The callback queues the oldest lent slot: next_busy_index moves on, every
\* slot keeps its lend, and the entry shows what the history says it shows.
LEMMA QueueEntryInv ==
  ASSUME IInv, QueueEntry
  PROVE  IInv'
<1> USE DEF IInv
<1> DEFINE nb == next_busy_index
           L  == Len(delivered)
<1>0. PICK p \in Index :
        /\ get_buzy_node(p)
        /\ fifo' = Append(fifo, [slot |-> p, payload |-> node[p]])
        /\ delivered' = Append(delivered, node[p])
  BY DEF QueueEntry
<1>a. /\ pc = "busy" /\ pc' = "entry"
      /\ UNCHANGED <<pos, node, received, short>>
      /\ UNCHANGED next_free_index
      /\ status' = [status EXCEPT ![p] = 0]
      /\ next_busy_index' = Succ(p)
  BY <1>0 DEF QueueEntry, get_buzy_node
<1>t. /\ nb \in Index /\ node[p] \in Payload
      /\ status \in [Index -> {0, 1}]
      /\ received \in Seq(Payload) /\ delivered \in Seq(Payload)
      /\ fifo \in Seq([slot : Index, payload : Payload])
      /\ L \in Nat /\ Len(received) \in Nat /\ Len(fifo) \in Nat
  BY DEF TypeOK
<1>1. Lent \in 1 .. N /\ p = nb
  <2>1. Lent # 0
    BY <1>0, BusyScan DEF get_buzy_node
  <2>2. Lent \in 1 .. N
    BY <2>1, NAssumption DEF RingIsQueue
  <2> QED BY <1>0, <2>2, BusyScan DEF get_buzy_node
<1>2. /\ Len(delivered') = L + 1
      /\ delivered'[L + 1] = node[p]
      /\ \A k \in 1 .. L : delivered'[k] = delivered[k]
      /\ delivered' \in Seq(Payload)
  BY <1>0, <1>t, AppendProperties
<1>3. /\ Len(fifo') = Len(fifo) + 1
      /\ fifo'[Len(fifo) + 1] = [slot |-> p, payload |-> node[p]]
      /\ \A k \in 1 .. Len(fifo) : fifo'[k] = fifo[k]
      /\ fifo' \in Seq([slot : Index, payload : Payload])
  BY <1>0, <1>t, AppendProperties
<1>4. Lent' = Lent - 1 /\ Lent = Len(received) - L
  BY <1>a, <1>t, <1>2 DEF Lent
<1>5. \A i \in Index : Dist(Succ(nb), i) = IF i = nb THEN N - 1 ELSE Dist(nb, i) - 1
  BY <1>t, DistSucc
<1>6. TypeOK'
  BY <1>a, <1>t, <1>2, <1>3, RingTypes DEF TypeOK, Payload
<1>7. RingIsQueue'
  <2>1. next_free_index' = Plus(next_busy_index', Lent')
    BY <1>a, <1>t, <1>1, <1>4, PlusSucc DEF RingIsQueue
  <2>2. ASSUME NEW i \in Index
        PROVE  status'[i] = 1 <=> Dist(Succ(nb), i) < Lent - 1
    <3>1. Dist(nb, i) \in 0 .. N - 1
      BY LendOfType
    <3>2. CASE i = nb
      BY <1>a, <1>t, <1>1, <1>5, <3>2, NAssumption
    <3>3. CASE i # nb
      <4>1. status'[i] = status[i]
        BY <1>a, <1>t, <1>1, <3>3
      <4>2. status[i] = 1 <=> Dist(nb, i) < Lent
        BY DEF RingIsQueue
      <4> QED BY <1>1, <1>5, <3>1, <3>3, <4>1, <4>2, NAssumption
    <3> QED BY <3>2, <3>3
  <2>3. Len(delivered') <= Len(received')
    BY <1>a, <1>t, <1>1, <1>2, <1>4, NAssumption
  <2> QED
    BY <1>a, <1>1, <1>4, <2>1, <2>2, <2>3, NAssumption DEF RingIsQueue
<1>8. node[nb] = IF received[L + 1] # Empty THEN received[L + 1]
                 ELSE IF L + 1 > N THEN delivered[(L + 1) - N] ELSE Blank
  <2>1. Dist(nb, nb) = 0
    BY <1>t, DistPlus
  <2>2. LendOf(nb) = L + 1
    BY <1>t, <2>1 DEF LendOf
  <2>3. L + 1 <= Len(received)
    BY <1>t, <1>1, <1>4, NAssumption
  <2>4. node[nb] = IF LendOf(nb) <= Len(received) /\ received[LendOf(nb)] # Empty
                   THEN received[LendOf(nb)]
                   ELSE Before(LendOf(nb))
    BY <1>t DEF NodesShowLends
  <2>5. node[nb] = IF received[L + 1] # Empty THEN received[L + 1] ELSE Before(L + 1)
    BY ONLY <2>2, <2>3, <2>4
  <2>6. Before(L + 1) = IF L + 1 > N THEN delivered[(L + 1) - N] ELSE Blank
    BY DEF Before
  <2> QED BY ONLY <2>5, <2>6
<1>9. DeliveredAsReceived'
  <2>1. Len(delivered') <= Len(received')
    BY <1>7 DEF RingIsQueue
  <2>2. ASSUME NEW k \in 1 .. L
        PROVE  delivered'[k] = IF received'[k] # Empty THEN received'[k]
                               ELSE IF k > N THEN delivered'[k - N] ELSE Blank
    <3>1. k > N => k - N \in 1 .. L
      BY <1>t, NAssumption
    <3>2. delivered[k] = IF received[k] # Empty THEN received[k]
                         ELSE IF k > N THEN delivered[k - N] ELSE Blank
      BY DEF DeliveredAsReceived
    <3> QED BY <1>a, <1>2, <3>1, <3>2
  <2>3. delivered'[L + 1] = IF received'[L + 1] # Empty THEN received'[L + 1]
                            ELSE IF L + 1 > N THEN delivered'[(L + 1) - N] ELSE Blank
    <3>1. L + 1 > N => (L + 1) - N \in 1 .. L
      BY <1>t, NAssumption
    <3> QED BY <1>a, <1>1, <1>2, <1>8, <3>1
  <2>4. \A k \in 1 .. Len(delivered') : k \in 1 .. L \/ k = L + 1
    BY <1>t, <1>2
  <2>5. \A k \in 1 .. Len(delivered') :
          delivered'[k] = IF received'[k] # Empty THEN received'[k]
                          ELSE IF k > N THEN delivered'[k - N] ELSE Blank
    <3> SUFFICES ASSUME NEW k \in 1 .. Len(delivered')
                 PROVE  delivered'[k] = IF received'[k] # Empty THEN received'[k]
                                        ELSE IF k > N THEN delivered'[k - N] ELSE Blank
      OBVIOUS
    <3>1. CASE k \in 1 .. L
      BY ONLY <2>2, <3>1
    <3>2. CASE k = L + 1
      BY ONLY <2>3, <3>2
    <3> QED BY ONLY <2>4, <3>1, <3>2
  <2> QED BY <2>1, <2>5 DEF DeliveredAsReceived
<1>10. NodesShowLends'
  <2> SUFFICES ASSUME NEW i \in Index
               PROVE  node[i] = IF LendOf(i)' <= Len(received) /\ received[LendOf(i)'] # Empty
                                THEN received[LendOf(i)']
                                ELSE IF LendOf(i)' > N THEN delivered'[LendOf(i)' - N] ELSE Blank
    BY <1>a DEF NodesShowLends, Before
  <2>1. LendOf(i)' = L + 1 + Dist(Succ(nb), i) + 1
    BY <1>a, <1>1, <1>2 DEF LendOf
  <2>2. CASE i = nb
    <3>1. LendOf(i)' = L + 1 + N
      BY <1>t, <1>5, <2>1, <2>2, NAssumption
    <3>2. LendOf(i)' > Len(received)
      BY <1>t, <1>1, <1>4, <3>1, NAssumption
    <3>3. LendOf(i)' > N /\ LendOf(i)' - N = L + 1 /\ ~ (LendOf(i)' <= Len(received))
      BY <1>t, <3>1, <3>2, NAssumption
    <3> QED BY <1>1, <1>2, <2>2, <3>3
  <2>3. CASE i # nb
    <3>1. Dist(nb, i) \in 0 .. N - 1 /\ LendOf(i) \in Nat
      BY LendOfType
    <3>2. LendOf(i)' = LendOf(i)
      BY <1>t, <1>5, <2>1, <2>3, <3>1, NAssumption DEF LendOf
    <3>3. LendOf(i) > N => LendOf(i) - N \in 1 .. L
      BY <1>t, <3>1, NAssumption DEF LendOf
    <3> QED BY <1>2, <3>2, <3>3 DEF NodesShowLends, Before
  <2> QED BY <2>2, <2>3
<1>11. FifoIsLatest'
  <2>0. Len(fifo) <= L
    BY DEF FifoIsLatest
  <2>1. Len(fifo') <= Len(delivered')
    BY <1>t, <1>2, <1>3, <2>0
  <2>2. /\ fifo'[Len(fifo) + 1].payload = delivered'[L + 1]
        /\ Dist(Succ(nb), fifo'[Len(fifo) + 1].slot) = N - 1
    BY <1>1, <1>2, <1>3, <1>5
  <2>3. ASSUME NEW i \in 1 .. Len(fifo)
        PROVE  /\ fifo'[i].payload = delivered'[L - Len(fifo) + i]
               /\ Len(fifo) + 1 - i < N =>
                    Dist(Succ(nb), fifo'[i].slot) = N - (Len(fifo) + 1 - i + 1)
    <3>1. fifo'[i] = fifo[i] /\ fifo[i].slot \in Index
      <4>1. fifo[i] \in [slot : Index, payload : Payload]
        BY <1>t, ElementOfSeq
      <4> QED BY <1>3, <4>1
    <3>2. fifo'[i].payload = delivered'[L - Len(fifo) + i]
      <4>1. L - Len(fifo) + i \in 1 .. L
        BY <1>t, <2>0
      <4>2. fifo[i].payload = delivered[L - Len(fifo) + i]
        BY DEF FifoIsLatest
      <4> QED BY <1>2, <3>1, <4>1, <4>2
    <3>3. ASSUME Len(fifo) + 1 - i < N
          PROVE  Dist(Succ(nb), fifo[i].slot) = N - (Len(fifo) + 1 - i + 1)
      <4>1. Dist(nb, fifo[i].slot) = N - (Len(fifo) - i + 1)
        <5>1. Len(fifo) - i < N => Dist(nb, fifo[i].slot) = N - (Len(fifo) - i + 1)
          BY Zenon DEF FifoIsLatest
        <5>2. Len(fifo) - i < N
          BY <1>t, <3>3, NAssumption
        <5> QED BY <5>1, <5>2
      <4>2. fifo[i].slot # nb
        BY <1>t, <3>1, <3>3, <4>1, DistPlus, NAssumption
      <4> QED BY <1>t, <1>5, <3>1, <4>1, <4>2, NAssumption
    <3> QED BY <3>1, <3>2, <3>3
  <2>4. ASSUME NEW i \in 1 .. Len(fifo')
        PROVE  /\ fifo'[i].payload = delivered'[Len(delivered') - Len(fifo') + i]
               /\ Len(fifo') - i < N =>
                    Dist(next_busy_index', fifo'[i].slot) = N - (Len(fifo') - i + 1)
    <3>1. /\ Len(delivered') - Len(fifo') = L - Len(fifo)
          /\ next_busy_index' = Succ(nb)
          /\ Len(fifo') = Len(fifo) + 1
      BY <1>a, <1>t, <1>1, <1>2, <1>3
    <3>2. CASE i \in 1 .. Len(fifo)
      BY <2>3, <3>1, <3>2
    <3>3. CASE i = Len(fifo) + 1
      <4>1. L - Len(fifo) + i = L + 1 /\ N - (Len(fifo) + 1 - i + 1) = N - 1
        BY <1>t, <3>3, NAssumption
      <4> QED BY <2>2, <3>1, <3>3, <4>1
    <3> QED BY <1>t, <3>1, <3>2, <3>3
  <2> QED
    BY <2>1, <2>4 DEF FifoIsLatest
<1>12. BacklogIsEmpties'
  BY <1>a DEF BacklogIsEmpties
<1> QED
  BY <1>6, <1>7, <1>9, <1>10, <1>11, <1>12

\* fifo_worker shortens the fifo from its head.
LEMMA WorkerTakesInv ==
  ASSUME IInv, WorkerTakes
  PROVE  IInv'
<1> USE DEF IInv
<1>0. PICK m \in 1 .. Len(fifo) : fifo' = SubSeq(fifo, m + 1, Len(fifo))
  BY DEF WorkerTakes
<1>a. UNCHANGED <<status, next_free_index, next_busy_index, pc, pos, node, received, delivered, short>>
  BY DEF WorkerTakes, nrm
<1>t. fifo \in Seq([slot : Index, payload : Payload]) /\ Len(fifo) \in Nat
      /\ Len(delivered) \in Nat
  BY DEF TypeOK
<1>1. /\ fifo' \in Seq([slot : Index, payload : Payload])
      /\ Len(fifo') = Len(fifo) - m
      /\ \A i \in 1 .. Len(fifo) - m : fifo'[i] = fifo[i + m]
  <2>1. \A i \in m + 1 .. Len(fifo) : fifo[i] \in [slot : Index, payload : Payload]
    <3>1. \A i \in 1 .. Len(fifo) : fifo[i] \in [slot : Index, payload : Payload]
      BY <1>t, ElementOfSeq
    <3>2. \A i \in m + 1 .. Len(fifo) : i \in 1 .. Len(fifo)
      BY <1>t
    <3> QED BY <3>1, <3>2
  <2>2. /\ fifo' \in Seq([slot : Index, payload : Payload])
        /\ Len(fifo') = IF m + 1 <= Len(fifo) THEN Len(fifo) - (m + 1) + 1 ELSE 0
        /\ \A i \in 1 .. Len(fifo) - (m + 1) + 1 : fifo'[i] = fifo[m + 1 + i - 1]
    <3>0. PICK a \in Int, n \in Int : a = m + 1 /\ n = Len(fifo)
      <4>1. m + 1 \in Int /\ Len(fifo) \in Int
        BY <1>t
      <4> QED BY <4>1, Zenon
    <3>1. PICK E : E = [slot : Index, payload : Payload]
      OBVIOUS
    <3>2. \A i \in a .. n : fifo[i] \in E
      BY <2>1, <3>0, <3>1, Zenon
    <3>3. /\ SubSeq(fifo, a, n) \in Seq(E)
          /\ Len(SubSeq(fifo, a, n)) = IF a <= n THEN n - a + 1 ELSE 0
          /\ \A i \in 1 .. n - a + 1 : SubSeq(fifo, a, n)[i] = fifo[a + i - 1]
      BY <3>2, SubSeqProperties
    <3>4. fifo' = SubSeq(fifo, a, n)
      BY <1>0, <3>0, Zenon
    <3> QED BY <3>0, <3>1, <3>3, <3>4, Zenon
  <2> QED BY <1>0, <1>t, <2>2
<1>2. TypeOK'
  BY <1>a, <1>1 DEF TypeOK, Payload
<1>3. RingIsQueue' /\ NodesShowLends' /\ BacklogIsEmpties' /\ DeliveredAsReceived'
  BY <1>a DEF RingIsQueue, Lent, NodesShowLends, LendOf, Before, BacklogIsEmpties,
              DeliveredAsReceived
<1>4. FifoIsLatest'
  <2>1. Len(fifo') <= Len(delivered')
    BY <1>a, <1>t, <1>1 DEF FifoIsLatest
  <2>2. ASSUME NEW i \in 1 .. Len(fifo')
        PROVE  /\ fifo'[i].payload = delivered[Len(delivered) - Len(fifo') + i]
               /\ Len(fifo') - i < N =>
                    Dist(next_busy_index, fifo'[i].slot) = N - (Len(fifo') - i + 1)
    <3>1. fifo'[i] = fifo[i + m] /\ i + m \in 1 .. Len(fifo)
      BY <1>t, <1>1
    <3>2. /\ Len(fifo') - i = Len(fifo) - (i + m)
          /\ Len(delivered) - Len(fifo') + i = Len(delivered) - Len(fifo) + (i + m)
      BY <1>t, <1>1
    <3> QED BY <3>1, <3>2 DEF FifoIsLatest
  <2> QED BY <1>a, <2>1, <2>2 DEF FifoIsLatest
<1> QED
  BY <1>2, <1>3, <1>4

LEMMA NextInv == IInv /\ [Next]_vars => IInv'
<1> SUFFICES ASSUME IInv, [Next]_vars PROVE IInv'
  OBVIOUS
<1>1. CASE LendSlot
  BY <1>1, LendSlotInv
<1>2. CASE NoSlot \/ UNCHANGED vars
  <2>1. UNCHANGED <<status, next_free_index, next_busy_index, pc, pos, node, fifo,
                    received, delivered, short>>
    BY <1>2 DEF NoSlot, get_free_node_null, vars, nrm
  <2> QED
    BY <2>1 DEF IInv, TypeOK, Payload, RingIsQueue, Lent, NodesShowLends, LendOf,
                Before, FifoIsLatest, BacklogIsEmpties, DeliveredAsReceived
<1>3. CASE ReceiveData
  BY <1>3, ReceiveDataInv
<1>4. CASE ReceiveEmpty
  BY <1>4, ReceiveEmptyInv
<1>5. CASE ReceiveError
  BY <1>5, ReceiveErrorInv
<1>6. CASE EnterCallback
  BY <1>6, MoveInv DEF EnterCallback, IInv, TypeOK
<1>7. CASE TakeEntryAndRelock
  <2>1. pc' \in {"crashed", "stuck", "busy"}
    BY <1>7, ConfigAssumption DEF TakeEntryAndRelock
  <2> QED BY <1>7, <2>1, MoveInv DEF TakeEntryAndRelock, IInv, TypeOK
<1>8. CASE QueueEntry
  BY <1>8, QueueEntryInv
<1>9. CASE LeaveCallback
  BY <1>9, LeaveCallbackInv
<1>10. CASE WorkerTakes
  BY <1>10, WorkerTakesInv
<1>11. CASE NoEntry
  BY <1>11, MoveInv DEF NoEntry
<1> QED
  BY <1>1, <1>2, <1>3, <1>4, <1>5, <1>6, <1>7, <1>8, <1>9, <1>10, <1>11
     DEF Next, Receiver, Network

\* IInv holds in every reachable state of the receiver.
THEOREM Invariance == Spec => []IInv
<1>1. Init => IInv
  BY InitInv
<1>2. IInv /\ [Next]_vars => IInv'
  BY NextInv
<1> QED
  BY <1>1, <1>2, PTL DEF Spec

------------------------------------------------------------------------------
\* The state of the receiver keeps its types (uint8_t positions stay inside
\* the ring, a node shows only a datagram that was received).
THEOREM TypeCorrect == Spec => []TypeOK
<1>1. IInv => TypeOK
  BY DEF IInv
<1> QED BY <1>1, Invariance, PTL

\* on_receive_connection_cb queues one entry per returned recvmsg, in order.
THEOREM DeliveryCorrect == Spec => []DeliveredAsReceived
<1>1. IInv => DeliveredAsReceived
  BY DEF IInv
<1> QED BY <1>1, Invariance, PTL

\* A queued entry shows its datagram until its slot has been lent again.
THEOREM QueuedEntriesIntact == Spec => []QueuedIntact
<1>1. IInv => QueuedIntact
  <2> SUFFICES ASSUME IInv, NEW i \in 1 .. Len(fifo), Len(fifo) - i + Lent < N
               PROVE  node[fifo[i].slot] = fifo[i].payload
    BY DEF QueuedIntact
  <2> USE DEF IInv
  <2> DEFINE s == fifo[i].slot
             d == Len(fifo) - i + 1
             L == Len(delivered)
  <2>t. /\ L \in Nat /\ Len(fifo) \in Nat /\ Len(received) \in Nat
        /\ Len(fifo) <= L /\ Lent \in 0 .. N
    BY DEF TypeOK, FifoIsLatest, RingIsQueue
  <2>1. s \in Index
    <3>1. fifo[i] \in [slot : Index, payload : Payload]
      BY ElementOfSeq DEF TypeOK
    <3> QED BY <3>1
  <2>2. Dist(next_busy_index, s) = N - d
    BY <2>t, NAssumption DEF FifoIsLatest
  <2>3. LendOf(s) = (L - d) + 1 + N
    BY <2>t, <2>2, NAssumption DEF LendOf
  <2>4. Len(received) - L <= Lent
    BY <2>t DEF Lent
  <2>5. ~ (LendOf(s) <= Len(received)) /\ LendOf(s) > N /\ LendOf(s) - N = (L - Len(fifo)) + i
    BY <2>t, <2>3, <2>4, NAssumption
  <2>6. node[s] = IF LendOf(s) <= Len(received) /\ received[LendOf(s)] # Empty
                  THEN received[LendOf(s)]
                  ELSE Before(LendOf(s))
    BY <2>1 DEF NodesShowLends
  <2>7. node[s] = delivered[LendOf(s) - N]
    BY <2>5, <2>6 DEF Before
  <2>8. fifo[i].payload = delivered[(L - Len(fifo)) + i]
    BY <2>t DEF FifoIsLatest
  <2> QED BY <2>5, <2>7, <2>8
<1> QED BY <1>1, Invariance, PTL

\* The receiver finds no free slot only after N empty datagrams in a row.
THEOREM SpinCause == Spec => []SpinsOnlyAfterEmpties
<1>1. IInv => SpinsOnlyAfterEmpties
  <2> SUFFICES ASSUME IInv, pc = "loop", Free = {}, ~ short
               PROVE  /\ Len(received) >= N
                      /\ \A k \in Len(received) - N + 1 .. Len(received) : received[k] = Empty
    BY DEF SpinsOnlyAfterEmpties
  <2> USE DEF IInv
  <2>1. Len(received) \in Nat /\ Len(delivered) \in Nat
    BY DEF TypeOK
  <2>2. Len(received) - Len(delivered) = N
    BY <2>1, FreeScan DEF Lent
  <2>3. \A k \in Len(delivered) + 1 .. Len(received) : received[k] = Empty
    BY DEF BacklogIsEmpties
  <2>4. Len(received) - N + 1 = Len(delivered) + 1
    BY <2>1, <2>2, NAssumption
  <2> QED BY <2>1, <2>2, <2>3, <2>4, NAssumption
<1> QED BY <1>1, Invariance, PTL

------------------------------------------------------------------------------
\* Counting the busy slots of the ring.
LEMMA BusyCount ==
  ASSUME TypeOK
  PROVE  /\ IsFiniteSet(Busy) /\ Cardinality(Busy) \in Nat
         /\ Busy = {} <=> Cardinality(Busy) = 0
         /\ Cardinality(Busy) <= N
         /\ Cardinality(Busy) = N => Busy = Index
<1>1. IsFiniteSet(Index) /\ Cardinality(Index) = N
  BY NAssumption, FS_Interval DEF Index
<1>2. Busy \subseteq Index
  BY DEF Busy
<1> QED
  BY <1>1, <1>2, FS_Subset, FS_CardinalityType, FS_EmptySet

\* The receive manager, as the receiver thread and its callback use it,
\* implements the queue of slots: SlotQueue's initial state, and a Lend, a
\* Return or nothing at every step.
THEOREM Refinement == Spec => ImplementsSlotQueue
<1>1. Init => SQ!Init
  <2> SUFFICES ASSUME Init PROVE SQ!Init
    OBVIOUS
  <2>1. Busy = {}
    BY DEF Init, init_node_recv_manager, Busy
  <2> QED
    BY <2>1, FS_EmptySet DEF SQ!Init, Init, init_node_recv_manager
<1>2. IInv /\ [Next]_vars => [SQ!Lend \/ SQ!Return]_<<next_busy_index, Cardinality(Busy)>>
  <2> SUFFICES ASSUME IInv, [Next]_vars
               PROVE  \/ SQ!Lend \/ SQ!Return
                      \/ UNCHANGED <<next_busy_index, Cardinality(Busy)>>
    OBVIOUS
  <2>t. /\ status \in [Index -> {0, 1}]
        /\ IsFiniteSet(Busy) /\ Cardinality(Busy) \in Nat /\ Cardinality(Busy) <= N
    BY BusyCount DEF IInv, TypeOK
  <2>1. CASE LendSlot
    <3>1. PICK p \in Index : get_free_node(p)
      BY <2>1 DEF LendSlot
    <3>2. p \in Free
      <4>1. Lent \in 0 .. N - 1 /\ p = Plus(next_busy_index, Lent)
        BY <3>1, FreeScan, NAssumption DEF IInv, get_free_node, RingIsQueue
      <4>2. Dist(next_busy_index, p) = Lent
        BY <4>1, DistPlus DEF IInv, TypeOK
      <4>3. status[p] # 1
        BY <4>1, <4>2 DEF IInv, RingIsQueue
      <4> QED BY <2>t, <4>3 DEF Free
    <3>3. p \notin Busy /\ Busy' = Busy \cup {p}
      BY <2>t, <3>1, <3>2 DEF get_free_node, Busy, Free
    <3>4. Cardinality(Busy') = Cardinality(Busy) + 1
      BY <2>t, <3>3, FS_AddElement
    <3>5. Cardinality(Busy) # N
      BY <3>3, BusyCount DEF IInv
    <3> QED
      BY <2>t, <3>1, <3>4, <3>5, NAssumption DEF SQ!Lend, get_free_node
  <2>2. CASE QueueEntry
    <3>1. PICK p \in Index : get_buzy_node(p)
      BY <2>2 DEF QueueEntry
    <3>2. p = next_busy_index /\ Busy # {}
      BY <3>1, BusyScan, NAssumption DEF IInv, get_buzy_node, RingIsQueue
    <3>3. p \in Busy
      <4>1. Lent \in 0 .. N /\ Lent # 0
        BY <3>2, BusyScan DEF IInv, RingIsQueue
      <4>2. Dist(next_busy_index, p) = 0
        BY <3>2, DistPlus
      <4> QED BY <4>1, <4>2, NAssumption DEF IInv, RingIsQueue, Busy
    <3>4. Busy' = Busy \ {p}
      BY <2>t, <3>1 DEF get_buzy_node, Busy
    <3>5. Cardinality(Busy') = Cardinality(Busy) - 1
      BY <2>t, <3>3, <3>4, FS_RemoveElement
    <3>6. Cardinality(Busy) # 0
      BY <3>2, BusyCount DEF IInv
    <3> QED
      BY <2>t, <3>1, <3>2, <3>5, <3>6 DEF SQ!Return, SQ!Succ, Succ, get_buzy_node
  <2>3. CASE UNCHANGED nrm
    BY <2>3 DEF nrm, Busy
  <2> QED
    BY <2>1, <2>2, <2>3
       DEF Next, Receiver, Network, vars, nrm, NoSlot, get_free_node_null, ReceiveData,
           ReceiveEmpty, ReceiveError, EnterCallback, TakeEntryAndRelock, NoEntry, LeaveCallback,
           get_buzy_node_null, WorkerTakes
<1> QED
  BY <1>1, <1>2, Invariance, PTL DEF Spec, ImplementsSlotQueue, SQ!Spec

=============================================================================
