------------------------ MODULE CircleBufferProofs ------------------------
(***************************************************************************)
(* Proofs about CircleBuffer: for every size of the ring and of the batch  *)
(* the ring holds the latest entries copied, and what the sessions see is  *)
(* the writer of RingWriter.                                               *)
(***************************************************************************)
EXTENDS CircleBuffer, SequenceTheorems, TLAPS

\* The front of one sequence moves to the end of another.
LEMMA MoveFront ==
  ASSUME NEW S
  PROVE  \A s, t \in Seq(S) : \A k \in 0 .. Len(t) :
           /\ s \o SubSeq(t, 1, k) \in Seq(S)
           /\ SubSeq(t, k + 1, Len(t)) \in Seq(S)
           /\ Len(s \o SubSeq(t, 1, k)) = Len(s) + k
<1> TAKE s, t \in Seq(S)
<1> TAKE k \in 0 .. Len(t)
<1> DEFINE a == SubSeq(t, 1, k)
           b == SubSeq(t, k + 1, Len(t))
<1>1. a \in Seq(S) /\ Len(a) = k /\ b \in Seq(S)
  OBVIOUS
<1> HIDE DEF a, b
<1>2. s \o a \in Seq(S) /\ Len(s \o a) = Len(s) + k
  BY <1>1, ConcatProperties
<1> QED
  BY <1>1, <1>2, Zenon DEF a, b

\* Seen from the slot after c, the slots behind are those seen from c, one
\* place further back, and c itself is the first of them.
LEMMA SlotsBehind ==
  ASSUME NEW c \in Index
  PROVE  /\ Plus(Succ(c), N - 1) = c
         /\ \A k \in 2 .. N : /\ Plus(Succ(c), N - k) = Plus(c, N - (k - 1))
                              /\ Plus(c, N - (k - 1)) # c
         /\ \A k \in 1 .. N : Plus(Succ(c), N - k) \in Index
  BY NAssumption DEF Index, Succ, Plus

LEMMA InitIInv == Init => IInv
<1> SUFFICES ASSUME Init
             PROVE  IInv
  OBVIOUS
<1>1. TypeOK
  BY NAssumption, BatchAssumption DEF Init, TypeOK
<1>2. Copied = 0
  BY DEF Init, Copied
<1>3. RingHoldsLatest
  BY <1>2, NAssumption DEF RingHoldsLatest, Lesser
<1>4. LastSlotSkipped /\ InsideBatch /\ NotStarted
  BY NAssumption DEF Init, LastSlotSkipped, InsideBatch, NotStarted
<1> QED
  BY <1>1, <1>3, <1>4 DEF IInv

LEMMA NextIInv == IInv /\ [Next]_vars => IInv'
<1> SUFFICES ASSUME IInv, [Next]_vars
             PROVE  IInv'
  OBVIOUS
<1> USE NAssumption, BatchAssumption
<1>t. TypeOK /\ RingHoldsLatest /\ LastSlotSkipped /\ InsideBatch /\ NotStarted
  BY DEF IInv
<1>s. fifo \in Seq(Entries) /\ batch \in Seq(Entries) /\ Len(batch) \in 0 .. MaxBatch
  <2>1. fifo \in Seq(Entries) /\ batch \in Seq(Entries) /\ Len(batch) <= MaxBatch
    BY <1>t, Zenon DEF TypeOK
  <2> QED
    BY <2>1
<1>n. at \in 1 .. MaxBatch + 1 /\ cursor \in 0 .. N /\ pushed \in 0 .. MaxPush
  BY <1>t, Zenon DEF TypeOK
<1>r. ring \in [0 .. N -> Entries \cup {Blank}]
  BY <1>t, Zenon DEF TypeOK
<1>c. /\ run \in BOOLEAN
      /\ worker \in {"none", "test", "copy", "advance", "wrap", "loop", "ended"}
      /\ phase \in {"created", "no ring", "up", "stopping", "freed", "crashed"}
  BY <1>t, Zenon DEF TypeOK
<1>l. cursor = N => worker = "wrap"
  BY <1>t, Zenon DEF LastSlotSkipped
<1>i. worker \in {"copy", "advance", "wrap"} => at \in 1 .. Len(batch)
  BY <1>t, Zenon DEF InsideBatch
<1>1. CASE start \/ start_no_memory \/ stop \/ FreeBuffer \/ FindStopped \/ TestRun \/ UseFreed \/ UNCHANGED vars
  <2>1. UNCHANGED <<fifo, batch, at, ring, cursor, pushed>>
    BY <1>1 DEF start, start_no_memory, stop, FreeBuffer, FindStopped, TestRun, UseFreed, vars
  <2>2. \/ worker' = worker
        \/ worker \in {"none", "test", "loop"} /\ worker' \in {"none", "test", "ended"}
    BY <1>1, <1>t DEF start, start_no_memory, stop, FreeBuffer, FindStopped, TestRun, UseFreed, vars, NotStarted
  <2>3. Copied' = Copied /\ NextSlot' = NextSlot
    BY <2>1, <2>2 DEF Copied, NextSlot
  <2>4. TypeOK'
    BY <1>1, <1>t, <2>1 DEF start, start_no_memory, stop, FreeBuffer, FindStopped, TestRun, UseFreed, vars, TypeOK
  <2>5. RingHoldsLatest'
    BY <1>t, <2>1, <2>3 DEF RingHoldsLatest
  <2>6. LastSlotSkipped' /\ InsideBatch'
    BY <1>t, <2>1, <2>2 DEF LastSlotSkipped, InsideBatch
  <2>7. NotStarted'
    BY <1>1, <1>t DEF start, start_no_memory, stop, FreeBuffer, FindStopped, TestRun, UseFreed, vars, NotStarted
  <2> QED
    BY <2>4, <2>5, <2>6, <2>7 DEF IInv
<1>2. CASE QueueEntry
  <2>1. /\ fifo' = Append(fifo, pushed + 1)
        /\ pushed' = pushed + 1
        /\ pushed + 1 \in Entries
        /\ UNCHANGED <<batch, at, ring, cursor, run, worker, phase>>
    BY <1>2, <1>n DEF QueueEntry, Entries
  <2>2. TypeOK'
    <3>1. fifo' \in Seq(Entries)
      BY <1>s, <2>1
    <3>2. pushed' \in 0 .. MaxPush
      BY <2>1 DEF Entries
    <3> QED
      BY <1>t, <2>1, <3>1, <3>2, Zenon DEF TypeOK
  <2>5. Copied' = Copied /\ NextSlot' = NextSlot
    BY <2>1 DEF Copied, NextSlot
  <2>6. RingHoldsLatest' /\ LastSlotSkipped' /\ InsideBatch' /\ NotStarted'
    BY <1>t, <2>1, <2>5 DEF RingHoldsLatest, LastSlotSkipped, InsideBatch, NotStarted
  <2> QED
    BY <2>2, <2>6 DEF IInv
<1>3. CASE DrainFifo
  <2> DEFINE k == Lesser(Len(fifo), MaxBatch - Len(batch))
  <2>1. /\ batch' = batch \o SubSeq(fifo, 1, k)
        /\ fifo' = SubSeq(fifo, k + 1, Len(fifo))
        /\ at' = 1
        /\ worker = "test"
        /\ worker' = "copy"
        /\ UNCHANGED <<ring, cursor, run, phase, pushed>>
        /\ fifo # << >>
    BY <1>3 DEF DrainFifo
  <2>2. /\ fifo \in Seq(Entries) /\ batch \in Seq(Entries)
        /\ k \in 0 .. Len(fifo)
        /\ Len(batch) + k \in 1 .. MaxBatch
    BY <1>s, <2>1 DEF Lesser
  <2> HIDE DEF k
  <2>3. /\ batch' \in Seq(Entries)
        /\ fifo' \in Seq(Entries)
        /\ Len(batch') = Len(batch) + k
    <3>1. /\ batch \o SubSeq(fifo, 1, k) \in Seq(Entries)
          /\ SubSeq(fifo, k + 1, Len(fifo)) \in Seq(Entries)
          /\ Len(batch \o SubSeq(fifo, 1, k)) = Len(batch) + k
      <4>1. \A t \in Seq(Entries) : \A j \in 0 .. Len(t) :
              /\ batch \o SubSeq(t, 1, j) \in Seq(Entries)
              /\ SubSeq(t, j + 1, Len(t)) \in Seq(Entries)
              /\ Len(batch \o SubSeq(t, 1, j)) = Len(batch) + j
        BY <2>2, MoveFront
      <4> QED
        BY <2>2, <4>1, Zenon
    <3> QED
      BY ONLY <2>1, <3>1, Zenon
  <2>4. TypeOK'
    <3>1. Len(batch') <= MaxBatch /\ at' \in 1 .. MaxBatch + 1
      BY <2>1, <2>2, <2>3
    <3>2. worker' \in {"none", "test", "copy", "advance", "wrap", "loop", "ended"}
      BY <2>1
    <3> QED
      BY <1>t, <2>1, <2>3, <3>1, <3>2, Zenon DEF TypeOK
  <2>6. Copied' = 0
    BY <2>1 DEF Copied
  <2>7. RingHoldsLatest'
    BY <2>6 DEF RingHoldsLatest, Lesser
  <2>8. LastSlotSkipped' /\ InsideBatch' /\ NotStarted'
    BY <1>t, <2>1, <2>2, <2>3 DEF LastSlotSkipped, InsideBatch, NotStarted
  <2> QED
    BY <2>4, <2>7, <2>8 DEF IInv
<1>4. CASE CopyEntry
  <2>1. /\ ring' = [ring EXCEPT ![cursor] = batch[at]]
        /\ worker = "copy"
        /\ worker' = "advance"
        /\ UNCHANGED <<fifo, batch, at, cursor, run, phase, pushed>>
    BY <1>4 DEF CopyEntry
  <2>2. /\ cursor \in Index
        /\ at \in 1 .. Len(batch)
        /\ batch \in Seq(Entries)
        /\ ring \in [0 .. N -> Entries \cup {Blank}]
    BY <1>s, <1>n, <1>r, <1>l, <1>i, <2>1 DEF Index
  <2>3. batch[at] \in Entries
    BY <2>2, ElementOfSeq
  <2>4. TypeOK'
    <3>1. ring' \in [0 .. N -> Entries \cup {Blank}]
      BY <2>1, <2>2, <2>3
    <3>2. worker' \in {"none", "test", "copy", "advance", "wrap", "loop", "ended"}
      BY <2>1
    <3> QED
      BY <1>t, <2>1, <3>1, <3>2, Zenon DEF TypeOK
  <2>6. /\ Copied = at - 1
        /\ Copied' = at
        /\ NextSlot = cursor
        /\ NextSlot' = Succ(cursor)
    BY <2>1, <2>2 DEF Copied, NextSlot, Index
  <2>7. RingHoldsLatest'
    <3> SUFFICES ASSUME NEW k \in 1 .. Lesser(at, N)
                 PROVE  ring'[Plus(Succ(cursor), N - k)] = batch[at - k + 1]
      BY <2>1, <2>6 DEF RingHoldsLatest
    <3>1. k \in 1 .. N /\ k <= at
      BY <2>2 DEF Lesser
    <3>2. CASE k = 1
      BY <3>2, <2>1, <2>2, SlotsBehind DEF Index
    <3>3. CASE k # 1
      <4>1. k - 1 \in 1 .. Lesser(at - 1, N)
        BY <3>1, <3>3, <2>2 DEF Lesser
      <4>2. ring[Plus(cursor, N - (k - 1))] = batch[(at - 1) - (k - 1) + 1]
        BY <1>t, <2>6, <4>1 DEF RingHoldsLatest
      <4>3. /\ Plus(Succ(cursor), N - k) = Plus(cursor, N - (k - 1))
            /\ Plus(cursor, N - (k - 1)) # cursor
            /\ Plus(Succ(cursor), N - k) \in Index
        BY <3>1, <3>3, <2>2, SlotsBehind
      <4>4. (at - 1) - (k - 1) + 1 = at - k + 1
        BY <3>1, <2>2
      <4> QED
        BY <4>2, <4>3, <4>4, <2>1, <2>2 DEF Index
    <3> QED
      BY <3>2, <3>3
  <2>8. LastSlotSkipped' /\ InsideBatch' /\ NotStarted'
    BY <1>t, <2>1, <2>2 DEF LastSlotSkipped, InsideBatch, NotStarted, Index
  <2> QED
    BY <2>4, <2>7, <2>8 DEF IInv
<1>5. CASE AdvanceCursor
  <2>1. /\ worker = "advance"
        /\ worker' = "wrap"
        /\ cursor' = cursor + 1
        /\ UNCHANGED <<fifo, batch, at, ring, run, phase, pushed>>
    BY <1>5 DEF AdvanceCursor
  <2>2. cursor \in 0 .. N - 1
    BY <1>n, <1>l, <2>1
  <2>3. TypeOK'
    <3>1. cursor' \in 0 .. N
      BY <2>1, <2>2
    <3>2. worker' \in {"none", "test", "copy", "advance", "wrap", "loop", "ended"}
      BY <2>1
    <3> QED
      BY <1>t, <2>1, <3>1, <3>2, Zenon DEF TypeOK
  <2>4. Copied' = Copied /\ NextSlot' = NextSlot
    BY <2>1, <2>2 DEF Copied, NextSlot, Succ
  <2>5. RingHoldsLatest' /\ LastSlotSkipped' /\ InsideBatch' /\ NotStarted'
    BY <1>t, <2>1, <2>4 DEF RingHoldsLatest, LastSlotSkipped, InsideBatch, NotStarted
  <2> QED
    BY <2>3, <2>5 DEF IInv
<1>6. CASE WrapCursor
  <2>1. /\ worker = "wrap"
        /\ cursor' = IF cursor = N THEN 0 ELSE cursor
        /\ at' = at + 1
        /\ worker' = IF at < Len(batch) THEN "copy" ELSE "loop"
        /\ UNCHANGED <<fifo, batch, ring, run, phase, pushed>>
    BY <1>6 DEF WrapCursor
  <2>2. at \in 1 .. Len(batch) /\ Len(batch) \in Nat /\ cursor \in 0 .. N
    BY <1>s, <1>n, <1>i, <2>1
  <2>3. TypeOK'
    <3>1. cursor' \in 0 .. N /\ at' \in 1 .. MaxBatch + 1
      BY <1>s, <2>1, <2>2
    <3>2. worker' \in {"none", "test", "copy", "advance", "wrap", "loop", "ended"}
      BY <2>1
    <3> QED
      BY <1>t, <2>1, <3>1, <3>2, Zenon DEF TypeOK
  <2>4. Copied' = Copied /\ NextSlot' = NextSlot
    BY <2>1, <2>2 DEF Copied, NextSlot
  <2>5. RingHoldsLatest' /\ LastSlotSkipped' /\ InsideBatch' /\ NotStarted'
    BY <1>t, <2>1, <2>2, <2>4 DEF RingHoldsLatest, LastSlotSkipped, InsideBatch, NotStarted
  <2> QED
    BY <2>3, <2>5 DEF IInv
<1> QED
  BY <1>1, <1>2, <1>3, <1>4, <1>5, <1>6 DEF Next, fifo_worker

\* The inductive invariant holds in every state fifo_worker can reach.
THEOREM Invariance == Spec => []IInv
  BY InitIInv, NextIInv, PTL DEF Spec

\* For every ring and batch size fifo_worker stays inside its batch and its
\* ring.
THEOREM TypeCorrect == Spec => []TypeOK
  BY Invariance, PTL DEF IInv

\* For every ring size the slots behind the cursor are the latest entries of
\* the pass, in order.
THEOREM RingOrder == Spec => []RingHoldsLatest
  BY Invariance, PTL DEF IInv

\* For every ring size the LAST node, which the sessions' iterate skips, is
\* never written.
THEOREM LastUnused == Spec => []LastSlotSkipped
  BY Invariance, PTL DEF IInv

\* What a session reads, the ring and the cursor, changes as the sessions
\* assume, for every ring size: fifo_worker implements the writer of the ring.
THEOREM Refinement == Spec => ImplementsRingWriter
<1> USE NAssumption, BatchAssumption
<1>1. Init => W!WriterInit
  BY DEF Init, W!WriterInit, WriterStep, Blank
<1>2. IInv /\ [Next]_vars => [W!WriterNext]_(W!ringVars)
  <2> SUFFICES ASSUME IInv, [Next]_vars
               PROVE  [W!WriterNext]_(W!ringVars)
    OBVIOUS
  <2>t. /\ fifo \in Seq(Entries) /\ batch \in Seq(Entries)
        /\ cursor \in 0 .. N
        /\ cursor = N => worker = "wrap"
        /\ worker \in {"copy", "advance", "wrap"} => at \in 1 .. Len(batch)
        /\ phase = "created" => worker = "none"
    BY Zenon DEF IInv, TypeOK, LastSlotSkipped, InsideBatch, NotStarted
  <2>1. CASE CopyEntry
    <3>1. batch[at] \in Entries
      BY <2>1, <2>t, ElementOfSeq DEF CopyEntry
    <3>2. W!Copy(batch[at])
      BY <2>1, <2>t DEF CopyEntry, W!Copy, WriterStep
    <3> QED
      BY <3>1, <3>2, Zenon DEF W!WriterNext
  <2>2. CASE AdvanceCursor
    <3>1. W!Advance
      BY <2>2, <2>t DEF AdvanceCursor, W!Advance, WriterStep
    <3> QED
      BY <3>1, Zenon DEF W!WriterNext
  <2>3. CASE WrapCursor
    <3>1. CASE cursor = N
      <4>1. W!Wrap
        BY <2>3, <3>1, <2>t DEF WrapCursor, W!Wrap, WriterStep
      <4> QED
        BY <4>1, Zenon DEF W!WriterNext
    <3>2. CASE cursor # N
      BY <2>3, <3>2, <2>t DEF WrapCursor, W!ringVars, WriterStep
    <3> QED
      BY <3>1, <3>2
  <2>4. CASE start \/ start_no_memory \/ QueueEntry \/ stop \/ FreeBuffer \/ DrainFifo \/ FindStopped \/ TestRun \/ UseFreed
    BY <2>4, <2>t DEF start, start_no_memory, QueueEntry, stop, FreeBuffer, DrainFifo, FindStopped,
       TestRun, UseFreed, W!ringVars, WriterStep
  <2>5. CASE UNCHANGED vars
    BY <2>5 DEF vars, W!ringVars, WriterStep
  <2> QED
    BY <2>1, <2>2, <2>3, <2>4, <2>5 DEF Next, fifo_worker
<1> QED
  BY <1>1, <1>2, Invariance, PTL DEF Spec, ImplementsRingWriter, W!WriterSpec

===========================================================================
