----------------------------- MODULE RbLogProofs -----------------------------
(***************************************************************************)
(* IInv is an inductive invariant of RbLog for every ring size, batch size *)
(* and number of lines; order, wake-ups and the refinement of LogQueue     *)
(* follow from it.                                                         *)
(***************************************************************************)
EXTENDS RbLog, SequenceTheorems, TLAPS

------------------------------------------------------------------------------
(* The ring *)

\* Ring arithmetic stays within the ring.
LEMMA RingTypes ==
  ASSUME NEW i \in Index
  PROVE  /\ Succ(i) \in Index
         /\ \A k \in 0 .. N : Plus(i, k) \in Index
         /\ \A j \in Index : Dist(i, j) \in 0 .. N - 1
  BY NAssumption DEF Index, Succ, Plus, Dist

\* Dist undoes Plus, and a full round leads back.
LEMMA DistPlus ==
  ASSUME NEW i \in Index
  PROVE  /\ \A k \in 0 .. N - 1 : Dist(i, Plus(i, k)) = k
         /\ \A j \in Index : Dist(i, j) = 0 <=> j = i
         /\ \A j, l \in Index : Dist(i, j) = Dist(i, l) => j = l
         /\ Plus(i, 0) = i
         /\ Plus(i, N) = i
  BY NAssumption DEF Index, Plus, Dist

\* Moving the far end one place on.
LEMMA DistToSucc ==
  ASSUME NEW i \in Index, NEW j \in Index
  PROVE  Dist(i, Succ(j)) = IF Dist(i, j) = N - 1 THEN 0 ELSE Dist(i, j) + 1
  BY NAssumption DEF Index, Succ, Dist

\* Moving the origin k places on.
LEMMA DistFromPlus ==
  ASSUME NEW i \in Index, NEW j \in Index, NEW k \in 0 .. N - 1
  PROVE  Dist(Plus(i, k), j) = IF Dist(i, j) >= k THEN Dist(i, j) - k
                               ELSE (Dist(i, j) - k) + N
  BY NAssumption DEF Index, Plus, Dist

------------------------------------------------------------------------------
(* The log *)

\* The waiting lines as a sequence: consecutive numbers that end with the
\* last line pushed.
LEMMA WaitingSeq ==
  ASSUME TypeOK, WaitingAreLatest
  PROVE  /\ Depth \in 0 .. N - 1
         /\ Waiting \in Seq(Lines)
         /\ Len(Waiting) = Depth
         /\ \A k \in 1 .. Depth : Waiting[k] = (pushed - Depth) + k
<1>1. Depth \in 0 .. N - 1 /\ pushed \in Nat /\ Depth <= pushed
  BY RingTypes DEF TypeOK, Depth, WaitingAreLatest
<1>2. ASSUME NEW k \in 1 .. Depth
      PROVE  queue[Plus(read_pos, k - 1)] = (pushed - Depth) + k
  <2>1. k - 1 \in 0 .. N - 1 /\ k - 1 < Depth
    BY <1>1, NAssumption
  <2>2. Dist(read_pos, Plus(read_pos, k - 1)) = k - 1
    BY <2>1, DistPlus DEF TypeOK
  <2>3. Plus(read_pos, k - 1) \in Index
    <3>1. k - 1 \in 0 .. N
      BY <2>1, NAssumption
    <3> QED BY <3>1, RingTypes DEF TypeOK
  <2>4. queue[Plus(read_pos, k - 1)] = (pushed - Depth) + (k - 1) + 1
    BY <2>1, <2>2, <2>3 DEF WaitingAreLatest
  <2> QED BY <1>1, <2>4
<1>3. Waiting = [k \in 1 .. Depth |-> queue[Plus(read_pos, k - 1)]]
  BY DEF Waiting, Depth
<1>4. \A k \in 1 .. Depth : Waiting[k] = (pushed - Depth) + k
  BY <1>2, <1>3
<1>5. \A k \in 1 .. Depth : Waiting[k] \in Lines
  BY <1>1, <1>4, NAssumption DEF Lines
<1>6. Waiting \in [1 .. Depth -> Lines]
  BY <1>3, <1>5
<1>7. Waiting \in Seq(Lines) /\ Len(Waiting) = Depth
  BY <1>1, <1>6
<1> QED
  BY <1>1, <1>4, <1>7

------------------------------------------------------------------------------
LEMMA InitInv == Init => IInv
<1> SUFFICES ASSUME Init PROVE IInv
  OBVIOUS
<1> USE NAssumption DEF Init
<1>1. 0 \in Index /\ Depth = 0
  BY DEF Index, Depth, Dist
<1>2. \A i \in Index : Dist(0, i) \in 0 .. N - 1
  BY <1>1, RingTypes
<1>3. TypeOK
  BY <1>1 DEF TypeOK, Lines, NoLine
<1>4. WaitingAreLatest /\ WrittenIsOlder
  BY <1>1, <1>2 DEF WaitingAreLatest, WrittenIsOlder
<1>5. Lifecycle /\ WrittenInOrder /\ NoLostWakeup
  BY DEF Lifecycle, WrittenInOrder, NoLostWakeup
<1> QED
  BY <1>3, <1>4, <1>5 DEF IInv

\* A step of the logger or of the program that leaves the ring and the
\* histories alone has only its own control state to answer for.
LEMMA RingFrame ==
  ASSUME IInv, UNCHANGED <<queue, write_pos, read_pos, pushed, written, on_stderr>>
  PROVE  /\ WaitingAreLatest' /\ WrittenIsOlder' /\ WrittenInOrder'
         /\ queue' \in [Index -> Lines'] /\ write_pos' \in Index /\ read_pos' \in Index
         /\ pushed' \in Nat /\ written' \in Seq(Lines') /\ on_stderr' \in Seq(Lines')
<1>1. Depth' = Depth /\ Lines' = Lines
  BY DEF Depth, Lines
<1>2. WaitingAreLatest' /\ WrittenIsOlder'
  BY <1>1 DEF IInv, WaitingAreLatest, WrittenIsOlder
<1>3. WrittenInOrder'
  BY DEF IInv, WrittenInOrder
<1> QED
  BY <1>1, <1>2, <1>3 DEF IInv, TypeOK

LEMMA ControlInv ==
  ASSUME IInv,
         \/ rb_log_shutdown \/ JoinLogger \/ Connect \/ ConnectFails
         \/ TestEmpty \/ DrainDone \/ TestRun
  PROVE  IInv'
<1> USE DEF rb_log_shutdown, JoinLogger, Connect, ConnectFails, TestEmpty, DrainDone,
            TestRun, Signalled
<1>1. UNCHANGED <<queue, write_pos, read_pos, pushed, written, on_stderr>>
  OBVIOUS
<1>2. /\ run' \in BOOLEAN
      /\ phase' \in {"before", "up", "stopping", "down", "end"}
      /\ logger' \in {"none", "connect", "test", "waiting", "drain", "again", "ended"}
      /\ syslog' \in {"closed", "open"}
  BY DEF IInv, TypeOK
<1>3. TypeOK'
  BY <1>1, <1>2, RingFrame DEF TypeOK
<1>4. Lifecycle'
  BY DEF IInv, TypeOK, Lifecycle
<1>5. NoLostWakeup'
  BY <1>1 DEF IInv, TypeOK, NoLostWakeup
<1> QED
  BY <1>1, <1>3, <1>4, <1>5, RingFrame DEF IInv

\* Lines that were there stay lines when more are pushed.
LEMMA LinesGrow ==
  ASSUME TypeOK, pushed' = pushed + 1
  PROVE  /\ Lines \subseteq Lines' /\ pushed + 1 \in Lines'
         /\ written \in Seq(Lines') /\ on_stderr \in Seq(Lines')
         /\ queue \in [Index -> Lines']
<1>1. Lines \subseteq Lines' /\ pushed + 1 \in Lines'
  BY DEF Lines, TypeOK
<1>2. \A S, T : S \subseteq T => \A q \in Seq(S) : q \in Seq(T)
  OBVIOUS
<1>3. written \in Seq(Lines') /\ on_stderr \in Seq(Lines')
  BY <1>1, <1>2 DEF TypeOK
<1> QED
  BY <1>1, <1>3 DEF TypeOK

\* A push either lengthens the backlog by its line or, on the N-th waiting
\* line, empties it.
LEMMA PushDepth ==
  ASSUME TypeOK, UNCHANGED read_pos, write_pos' = Succ(write_pos)
  PROVE  Depth' = IF Depth = N - 1 THEN 0 ELSE Depth + 1
  BY DistToSucc DEF Depth, TypeOK

LEMMA PushInv ==
  ASSUME IInv, NEW level, rb_log_push(level)
  PROVE  IInv'
<1> USE DEF IInv
<1>0. /\ phase \in {"before", "up"} /\ logger # "drain"
      /\ queue' = [queue EXCEPT ![write_pos] = pushed + 1]
      /\ write_pos' = Succ(write_pos)
      /\ pushed' = pushed + 1
      /\ logger' = Signalled
      /\ UNCHANGED <<read_pos, run, phase, syslog, written, on_stderr>>
  BY DEF rb_log_push, locked
<1>t. /\ read_pos \in Index /\ write_pos \in Index /\ pushed \in Nat
      /\ queue \in [Index -> Lines] /\ written \in Seq(Lines)
  BY DEF TypeOK
<1>1. Depth \in 0 .. N - 1 /\ Depth <= pushed
  BY WaitingSeq DEF WaitingAreLatest
<1>2. Depth' = IF Depth = N - 1 THEN 0 ELSE Depth + 1
  BY <1>0, PushDepth
<1>3. TypeOK'
  <2>1. logger' \in {"none", "connect", "test", "waiting", "drain", "again", "ended"}
    BY <1>0 DEF Signalled, TypeOK
  <2>2. queue' \in [Index -> Lines']
    <3>1. queue \in [Index -> Lines'] /\ pushed + 1 \in Lines'
      BY <1>0, LinesGrow
    <3> QED BY <1>0, <3>1
  <2>3. written' \in Seq(Lines') /\ on_stderr' \in Seq(Lines')
    BY <1>0, LinesGrow
  <2>4. write_pos' \in Index /\ pushed' \in Nat
    BY <1>0, <1>t, RingTypes
  <2> QED BY <1>0, <2>1, <2>2, <2>3, <2>4 DEF TypeOK
<1>4. WaitingAreLatest'
  <2>1. Depth' <= pushed'
    BY <1>0, <1>1, <1>2, <1>t, NAssumption
  <2>2. ASSUME NEW i \in Index, Dist(read_pos, i) < Depth'
        PROVE  queue'[i] = (pushed' - Depth') + Dist(read_pos, i) + 1
    <3>0. Dist(read_pos, i) \in 0 .. N - 1
      BY <1>t, RingTypes
    <3>1. Dist(read_pos, i) \in 0 .. N - 1 /\ Depth' = Depth + 1
      BY <1>1, <1>2, <2>2, <3>0, NAssumption
    <3>2. CASE i = write_pos
      <4>1. Dist(read_pos, i) = Depth
        BY <3>2 DEF Depth
      <4>2. queue'[i] = pushed + 1
        BY <1>0, <1>t, <3>2
      <4> QED BY <1>0, <1>1, <1>t, <3>1, <4>1, <4>2, NAssumption
    <3>3. CASE i # write_pos
      <4>1. Dist(read_pos, i) # Depth
        BY <1>t, <3>3, DistPlus DEF Depth
      <4>2. Dist(read_pos, i) < Depth
        BY <1>1, <2>2, <3>1, <4>1, NAssumption
      <4>3. queue'[i] = (pushed - Depth) + Dist(read_pos, i) + 1
        BY <1>0, <1>t, <3>3, <4>2 DEF WaitingAreLatest
      <4> QED BY <1>0, <1>1, <1>t, <3>1, <4>3, NAssumption
    <3> QED BY <3>2, <3>3
  <2> QED BY <1>0, <2>1, <2>2 DEF WaitingAreLatest
<1>5. WrittenIsOlder'
  <2> SUFFICES ASSUME NEW i \in 1 .. Len(written)
               PROVE  written[i] <= pushed' - Depth'
    BY <1>0 DEF WrittenIsOlder
  <2>1. written[i] \in Lines
    BY <1>t, ElementOfSeq
  <2>2. written[i] <= pushed - Depth
    BY DEF WrittenIsOlder
  <2> QED BY <1>0, <1>1, <1>2, <1>t, <2>1, <2>2, NAssumption DEF Lines
<1>6. Lifecycle'
  BY <1>0 DEF Lifecycle, Signalled, TypeOK
<1>7. WrittenInOrder'
  BY <1>0 DEF WrittenInOrder
<1>8. NoLostWakeup'
  BY <1>0 DEF NoLostWakeup, Signalled
<1> QED
  BY <1>3, <1>4, <1>5, <1>6, <1>7, <1>8

\* A batch is a stretch of the waiting lines; what stays waiting is the rest.
LEMMA BatchFacts ==
  ASSUME IInv, NEW k \in 1 .. Depth, read_pos' = Plus(read_pos, k),
         UNCHANGED <<queue, write_pos, pushed>>
  PROVE  /\ read_pos' \in Index
         /\ Depth' = Depth - k
         /\ WaitingAreLatest'
         /\ SubSeq(Waiting, 1, k) \in Seq(Lines)
         /\ Len(SubSeq(Waiting, 1, k)) = k
         /\ \A i \in 1 .. k : SubSeq(Waiting, 1, k)[i] = (pushed - Depth) + i
<1> USE DEF IInv
<1>t. read_pos \in Index /\ write_pos \in Index /\ pushed \in Nat
  BY DEF TypeOK
<1>1. Depth \in 0 .. N - 1 /\ Depth <= pushed /\ k \in 0 .. N - 1 /\ k \in 0 .. N /\ k >= 1
      /\ k <= Depth
  BY WaitingSeq, NAssumption DEF WaitingAreLatest
<1>2. read_pos' \in Index
  BY <1>t, <1>1, RingTypes
<1>3. Depth' = Depth - k
  BY <1>t, <1>1, DistFromPlus DEF Depth
<1>4. WaitingAreLatest'
  <2>1. Depth' <= pushed'
    BY <1>t, <1>1, <1>3, NAssumption
  <2>2. ASSUME NEW i \in Index, Dist(read_pos', i) < Depth'
        PROVE  queue[i] = (pushed - Depth') + Dist(read_pos', i) + 1
    <3>1. Dist(read_pos, i) \in 0 .. N - 1
      BY <1>t, RingTypes
    <3>2. Dist(read_pos', i) = IF Dist(read_pos, i) >= k THEN Dist(read_pos, i) - k
                               ELSE (Dist(read_pos, i) - k) + N
      BY <1>t, <1>1, DistFromPlus
    <3>3. Dist(read_pos', i) = Dist(read_pos, i) - k /\ Dist(read_pos, i) < Depth
      BY <1>1, <1>3, <2>2, <3>1, <3>2, NAssumption
    <3>4. queue[i] = (pushed - Depth) + Dist(read_pos, i) + 1
      BY <3>3 DEF WaitingAreLatest
    <3> QED BY <1>t, <1>1, <1>3, <3>1, <3>3, <3>4, NAssumption
  <2> QED BY <2>1, <2>2 DEF WaitingAreLatest
<1>5. /\ SubSeq(Waiting, 1, k) \in Seq(Lines)
      /\ Len(SubSeq(Waiting, 1, k)) = IF 1 <= k THEN k - 1 + 1 ELSE 0
      /\ \A i \in 1 .. k - 1 + 1 : SubSeq(Waiting, 1, k)[i] = Waiting[1 + i - 1]
  <2>1. \A i \in 1 .. k : Waiting[i] \in Lines
    <3>1. \A i \in 1 .. k : i \in 1 .. Len(Waiting)
      BY <1>1, WaitingSeq, NAssumption
    <3>2. Waiting \in Seq(Lines)
      BY WaitingSeq
    <3> QED BY <3>1, <3>2, ElementOfSeq
  <2>2. 1 \in Int /\ k \in Int
    BY <1>1, NAssumption
  <2> QED BY <2>1, <2>2, SubSeqProperties
<1>6. \A i \in 1 .. k : SubSeq(Waiting, 1, k)[i] = (pushed - Depth) + i
  <2> SUFFICES ASSUME NEW i \in 1 .. k
               PROVE  SubSeq(Waiting, 1, k)[i] = (pushed - Depth) + i
    OBVIOUS
  <2>1. i \in 1 .. k - 1 + 1 /\ 1 + i - 1 = i /\ i \in 1 .. Depth
    BY <1>1, NAssumption
  <2> QED BY <1>5, <2>1, WaitingSeq
<1> QED
  BY <1>1, <1>2, <1>3, <1>4, <1>5, <1>6, NAssumption

\* How many lines one writev takes.
LEMMA BatchSize ==
  ASSUME IInv, read_pos # write_pos, NEW k,
         k = IF Depth < Batch THEN Depth ELSE Batch
  PROVE  k \in 1 .. Depth /\ k <= Batch
<1>1. Depth \in 0 .. N - 1
  BY WaitingSeq DEF IInv
<1>2. Depth # 0
  BY DistPlus DEF IInv, TypeOK, Depth
<1> QED
  BY <1>1, <1>2, LogAssumption, NAssumption

LEMMA WriteBatchInv ==
  ASSUME IInv, WriteBatch
  PROVE  IInv'
<1> USE DEF IInv
<1> DEFINE k == IF Depth < Batch THEN Depth ELSE Batch
           lines == SubSeq(Waiting, 1, k)
<1>0. /\ logger = "drain" /\ read_pos # write_pos
      /\ read_pos' = Plus(read_pos, k)
      /\ \/ written' = IF syslog = "open" THEN written \o lines ELSE written
         \/ UNCHANGED written
      /\ on_stderr' = IF syslog = "open" THEN on_stderr ELSE on_stderr \o lines
      /\ UNCHANGED <<queue, write_pos, run, phase, logger, syslog, pushed>>
  BY DEF WriteBatch, Depth
<1>1. k \in 1 .. Depth
  BY <1>0, BatchSize
<1> HIDE DEF k
<1>2. /\ read_pos' \in Index /\ Depth' = Depth - k /\ WaitingAreLatest'
      /\ lines \in Seq(Lines) /\ Len(lines) = k
      /\ \A i \in 1 .. k : lines[i] = (pushed - Depth) + i
  BY <1>0, <1>1, BatchFacts
<1> HIDE DEF lines
<1>t. /\ pushed \in Nat /\ written \in Seq(Lines) /\ Depth \in 0 .. N - 1
      /\ Depth <= pushed /\ Len(written) \in Nat /\ Lines' = Lines
  BY <1>0, WaitingSeq DEF TypeOK, WaitingAreLatest, Lines
<1>3. syslog = "open" /\ on_stderr' = on_stderr
  BY <1>0 DEF Lifecycle
<1>4. Lifecycle' /\ NoLostWakeup'
  BY <1>0 DEF Lifecycle, NoLostWakeup
<1>5. CASE UNCHANGED written
  <2>1. TypeOK'
    BY <1>0, <1>2, <1>3, <1>5, <1>t DEF TypeOK
  <2>2. WrittenInOrder'
    BY <1>5 DEF WrittenInOrder
  <2>3. WrittenIsOlder'
    <3> SUFFICES ASSUME NEW i \in 1 .. Len(written) PROVE written[i] <= pushed - Depth'
      BY <1>0, <1>5 DEF WrittenIsOlder
    <3>1. written[i] \in Lines /\ written[i] <= pushed - Depth
      BY <1>t, ElementOfSeq DEF WrittenIsOlder
    <3> QED BY <1>1, <1>2, <1>t, <3>1, NAssumption DEF Lines
  <2> QED BY <1>2, <1>4, <2>1, <2>2, <2>3
<1>6. CASE written' = written \o lines
  <2>1. /\ written' \in Seq(Lines)
        /\ Len(written') = Len(written) + k
        /\ \A i \in 1 .. Len(written) + k :
              written'[i] = IF i <= Len(written) THEN written[i] ELSE lines[i - Len(written)]
    BY <1>2, <1>6, <1>t, ConcatProperties
  <2>2. TypeOK'
    BY <1>0, <1>2, <1>3, <1>t, <2>1 DEF TypeOK
  <2>3. ASSUME NEW i \in 1 .. Len(written) + k
        PROVE  /\ i <= Len(written) => /\ written'[i] = written[i]
                                       /\ written[i] \in Nat
                                       /\ written[i] <= pushed - Depth
               /\ ~ (i <= Len(written)) => written'[i] = (pushed - Depth) + (i - Len(written))
    <3>1. CASE i <= Len(written)
      <4>1. i \in 1 .. Len(written)
        BY <1>t, <3>1
      <4>2. written[i] \in Lines /\ written[i] <= pushed - Depth
        BY <1>t, <4>1, ElementOfSeq DEF WrittenIsOlder
      <4> QED BY <1>t, <2>1, <3>1, <4>2 DEF Lines
    <3>2. CASE ~ (i <= Len(written))
      <4>1. i - Len(written) \in 1 .. k
        BY <1>1, <1>t, <3>2, NAssumption
      <4> QED BY <1>2, <2>1, <3>2, <4>1
    <3> QED BY <3>1, <3>2
  <2>4. WrittenInOrder'
    <3> SUFFICES ASSUME NEW i \in 1 .. Len(written) + k, NEW j \in 1 .. Len(written) + k, i < j
                 PROVE  written'[i] < written'[j]
      BY <2>1 DEF WrittenInOrder
    <3>1. CASE j <= Len(written)
      <4>1. i \in 1 .. Len(written) /\ j \in 1 .. Len(written)
        BY <1>t, <3>1
      <4>2. written[i] < written[j]
        BY <4>1 DEF WrittenInOrder
      <4> QED BY <2>3, <4>1, <4>2, <3>1
    <3>2. CASE ~ (j <= Len(written))
      <4>1. written'[j] = (pushed - Depth) + (j - Len(written))
        BY <2>3, <3>2
      <4>2. CASE i <= Len(written)
        <5>1. written'[i] = written[i] /\ written[i] \in Nat /\ written[i] <= pushed - Depth
          BY <2>3, <4>2
        <5> QED BY <1>1, <1>t, <3>2, <4>1, <5>1, NAssumption
      <4>3. CASE ~ (i <= Len(written))
        <5>1. written'[i] = (pushed - Depth) + (i - Len(written))
          BY <2>3, <4>3
        <5> QED BY <1>1, <1>t, <4>1, <5>1, NAssumption
      <4> QED BY <4>2, <4>3
    <3> QED BY <3>1, <3>2
  <2>5. WrittenIsOlder'
    <3> SUFFICES ASSUME NEW i \in 1 .. Len(written) + k
                 PROVE  written'[i] <= pushed - (Depth - k)
      BY <1>0, <1>2, <2>1 DEF WrittenIsOlder
    <3>1. CASE i <= Len(written)
      <4>1. written'[i] \in Nat /\ written'[i] <= pushed - Depth
        BY <2>3, <3>1
      <4> QED BY <1>1, <1>t, <4>1, NAssumption
    <3>2. CASE ~ (i <= Len(written))
      <4>1. written'[i] = (pushed - Depth) + (i - Len(written))
        BY <2>3, <3>2
      <4> QED BY <1>1, <1>t, <4>1, NAssumption
    <3> QED BY <3>1, <3>2
  <2> QED BY <1>2, <1>4, <2>2, <2>4, <2>5
<1> QED
  BY <1>0, <1>3, <1>5, <1>6

\* rb_log_init and rb_log_flush leave an empty ring.
LEMMA EmptiedInv ==
  ASSUME IInv, Depth' = 0, read_pos' \in Index, write_pos' \in Index,
         queue' \in [Index -> Lines],
         UNCHANGED <<pushed, written, on_stderr>>
  PROVE  /\ WaitingAreLatest' /\ WrittenIsOlder' /\ WrittenInOrder'
         /\ queue' \in [Index -> Lines'] /\ pushed' \in Nat
         /\ written' \in Seq(Lines') /\ on_stderr' \in Seq(Lines')
<1> USE DEF IInv
<1>1. Lines' = Lines /\ pushed \in Nat /\ Depth \in 0 .. N - 1
  BY WaitingSeq DEF Lines, TypeOK
<1>2. \A i \in Index : Dist(read_pos', i) \in 0 .. N - 1
  BY RingTypes
<1>3. WaitingAreLatest'
  BY <1>1, <1>2, NAssumption DEF WaitingAreLatest
<1>4. WrittenIsOlder'
  <2> SUFFICES ASSUME NEW i \in 1 .. Len(written) PROVE written[i] <= pushed
    BY <1>1 DEF WrittenIsOlder
  <2>1. written[i] \in Lines
    BY ElementOfSeq DEF TypeOK
  <2> QED BY <1>1, <2>1 DEF Lines
<1>5. WrittenInOrder'
  BY DEF WrittenInOrder
<1> QED
  BY <1>1, <1>3, <1>4, <1>5 DEF TypeOK

LEMMA RingResetInv ==
  ASSUME IInv, rb_log_init \/ rb_log_flush
  PROVE  IInv' /\ Depth' = 0 /\ UNCHANGED <<pushed, written>>
<1> USE DEF IInv
<1>1. 0 \in Index
  BY NAssumption DEF Index
<1>2. UNCHANGED <<pushed, written, on_stderr>>
  BY DEF rb_log_init, rb_log_flush, Lifecycle
<1>3. read_pos' = write_pos' /\ read_pos' \in Index /\ queue' \in [Index -> Lines]
  BY <1>1 DEF rb_log_init, rb_log_flush, TypeOK, Lines, NoLine
<1>4. Depth' = 0
  BY <1>3, DistPlus DEF Depth
<1>5. /\ run' \in BOOLEAN
      /\ phase' \in {"before", "up", "stopping", "down", "end"}
      /\ logger' \in {"none", "connect", "test", "waiting", "drain", "again", "ended"}
      /\ syslog' \in {"closed", "open"}
      /\ logger' # "waiting"
  BY DEF rb_log_init, rb_log_flush, TypeOK, Lifecycle
<1>6. Lifecycle'
  BY DEF rb_log_init, rb_log_flush, TypeOK, Lifecycle
<1>7. NoLostWakeup'
  BY <1>5 DEF NoLostWakeup
<1>8. TypeOK'
  BY <1>2, <1>3, <1>4, <1>5, EmptiedInv DEF TypeOK
<1> QED
  BY <1>2, <1>3, <1>4, <1>6, <1>7, <1>8, EmptiedInv

LEMMA NextInv == IInv /\ [Next]_vars => IInv'
<1> SUFFICES ASSUME IInv, [Next]_vars PROVE IInv'
  OBVIOUS
<1>1. CASE \E level \in Levels : rb_log_push(level)
  BY <1>1, PushInv
<1>2. CASE rb_log_init \/ rb_log_flush
  BY <1>2, RingResetInv
<1>3. CASE \/ rb_log_shutdown \/ JoinLogger \/ Connect \/ ConnectFails
           \/ TestEmpty \/ DrainDone \/ TestRun
  BY <1>3, ControlInv
<1>4. CASE WriteBatch
  BY <1>4, WriteBatchInv
<1>5. CASE UNCHANGED vars
  <2>1. /\ UNCHANGED <<queue, write_pos, read_pos, pushed, written, on_stderr>>
        /\ UNCHANGED <<run, phase, logger, syslog>>
    BY <1>5 DEF vars
  <2>2. TypeOK' /\ Lifecycle' /\ NoLostWakeup'
    BY <2>1, RingFrame DEF IInv, TypeOK, Lifecycle, NoLostWakeup
  <2> QED BY <2>1, <2>2, RingFrame DEF IInv
<1> QED
  BY <1>1, <1>2, <1>3, <1>4, <1>5 DEF Next, Logger, Program

\* IInv holds in every reachable state of the log.
THEOREM Invariance == Spec => []IInv
<1>1. Init => IInv
  BY InitInv
<1>2. IInv /\ [Next]_vars => IInv'
  BY NextInv
<1> QED
  BY <1>1, <1>2, PTL DEF Spec

\* Types of the log's state.
THEOREM TypeCorrect == Spec => []TypeOK
<1>1. IInv => TypeOK
  BY DEF IInv
<1> QED BY <1>1, Invariance, PTL

\* Lines reach /dev/log in push order and at most once.
THEOREM OrderCorrect == Spec => []WrittenInOrder
<1>1. IInv => WrittenInOrder
  BY DEF IInv
<1> QED BY <1>1, Invariance, PTL

\* The logger never sleeps on a line or on a shutdown.
THEOREM WakeupCorrect == Spec => []NoLostWakeup
<1>1. IInv => NoLostWakeup
  BY DEF IInv
<1> QED BY <1>1, Invariance, PTL

------------------------------------------------------------------------------
(* The ring implements LogQueue. *)

\* WaitingSeq as a state predicate, to be used for both ends of a step.
WaitingShape ==
  /\ Depth \in 0 .. N - 1 /\ pushed \in Nat /\ Depth <= pushed
  /\ Waiting \in Seq(Nat)
  /\ Len(Waiting) = Depth
  /\ \A k \in 1 .. Depth : Waiting[k] = (pushed - Depth) + k

LEMMA ShapeHolds == IInv => WaitingShape
<1> SUFFICES ASSUME IInv PROVE WaitingShape
  OBVIOUS
<1>1. /\ Depth \in 0 .. N - 1 /\ Waiting \in Seq(Lines) /\ Len(Waiting) = Depth
      /\ \A k \in 1 .. Depth : Waiting[k] = (pushed - Depth) + k
      /\ pushed \in Nat /\ Depth <= pushed
  BY WaitingSeq DEF IInv, TypeOK, WaitingAreLatest
<1>2. Lines \subseteq Nat
  BY <1>1 DEF Lines
<1>3. Waiting \in Seq(Nat)
  BY <1>1, <1>2
<1> QED
  BY <1>1, <1>3 DEF WaitingShape

\* A sequence without its first k elements.
LEMMA DropFacts ==
  ASSUME NEW s \in Seq(Nat), NEW k \in 0 .. Len(s)
  PROVE  /\ SubSeq(s, k + 1, Len(s)) \in Seq(Nat)
         /\ Len(SubSeq(s, k + 1, Len(s))) = Len(s) - k
         /\ \A i \in 1 .. Len(s) - k : SubSeq(s, k + 1, Len(s))[i] = s[k + i]
<1> DEFINE m == k + 1
           n == Len(s)
<1>1. n \in Nat /\ m \in Int /\ n \in Int /\ k \in 0 .. n
  OBVIOUS
<1>2. \A i \in m .. n : s[i] \in Nat
  <2>1. \A i \in m .. n : i \in 1 .. Len(s)
    OBVIOUS
  <2> QED BY <2>1, ElementOfSeq
<1>3. m = k + 1
  OBVIOUS
<1> HIDE DEF m, n
<1>4. /\ SubSeq(s, m, n) \in Seq(Nat)
      /\ Len(SubSeq(s, m, n)) = IF m <= n THEN n - m + 1 ELSE 0
      /\ \A i \in 1 .. n - m + 1 : SubSeq(s, m, n)[i] = s[m + i - 1]
  BY <1>1, <1>2, SubSeqProperties
<1>5. Len(SubSeq(s, m, n)) = n - k
  BY <1>1, <1>3, <1>4
<1>6. ASSUME NEW i \in 1 .. n - k
      PROVE  SubSeq(s, m, n)[i] = s[k + i]
  <2>1. i \in 1 .. n - m + 1 /\ m + i - 1 = k + i
    BY <1>1, <1>3
  <2> QED BY <1>4, <2>1
<1> QED BY <1>4, <1>5, <1>6 DEF m, n

\* A push is LogQueue's Push.
LEMMA PushRefines ==
  ASSUME IInv, WaitingShape, WaitingShape', NEW level, rb_log_push(level)
  PROVE  LQ!Push
<1> USE DEF WaitingShape
<1>0. pushed' = pushed + 1 /\ written' = written /\ read_pos' = read_pos
      /\ write_pos' = Succ(write_pos)
  BY DEF rb_log_push
<1>1. Depth' = IF Depth = N - 1 THEN 0 ELSE Depth + 1
  BY <1>0, PushDepth DEF IInv
<1>2. CASE Depth = N - 1
  <2>1. Waiting' = << >>
    BY <1>1, <1>2, EmptySeq
  <2> QED BY <1>0, <1>2, <2>1 DEF LQ!Push
<1>3. CASE Depth # N - 1
  <2>1. /\ Append(Waiting, pushed + 1) \in Seq(Nat)
        /\ Len(Append(Waiting, pushed + 1)) = Depth + 1
        /\ \A i \in 1 .. Depth : Append(Waiting, pushed + 1)[i] = Waiting[i]
        /\ Append(Waiting, pushed + 1)[Depth + 1] = pushed + 1
    BY AppendProperties
  <2>2. Depth' = Depth + 1
    BY <1>1, <1>3
  <2>3. ASSUME NEW i \in 1 .. Depth + 1
        PROVE  Waiting'[i] = Append(Waiting, pushed + 1)[i]
    <3>1. Waiting'[i] = (pushed + 1 - (Depth + 1)) + i
      BY <1>0, <2>2
    <3>2. CASE i = Depth + 1
      BY <2>1, <3>1, <3>2, NAssumption
    <3>3. CASE i # Depth + 1
      <4>1. i \in 1 .. Depth
        BY <3>3, NAssumption
      <4> QED BY <2>1, <3>1, <4>1, NAssumption
    <3> QED BY <3>2, <3>3
  <2>4. Waiting' = Append(Waiting, pushed + 1)
    <3> DEFINE t == Append(Waiting, pushed + 1)
    <3>1. t \in Seq(Nat) /\ Len(t) = Depth + 1
      BY <2>1
    <3>2. Waiting' \in Seq(Nat) /\ Len(Waiting') = Depth + 1
      BY <2>2
    <3>3. \A i \in 1 .. Len(Waiting') : Waiting'[i] = t[i]
      BY <2>3, <3>2
    <3> HIDE DEF t
    <3>4. Waiting' = t
      BY ONLY <3>1, <3>2, <3>3, SeqEqual
    <3> QED BY <3>4 DEF t
  <2> QED BY <1>0, <1>3, <2>4 DEF LQ!Push
<1> QED BY <1>2, <1>3

\* A batch is LogQueue's Take.
LEMMA WriteBatchRefines ==
  ASSUME IInv, WaitingShape, WaitingShape', WriteBatch
  PROVE  LQ!Take
<1> USE DEF WaitingShape
<1> DEFINE k == IF Depth < Batch THEN Depth ELSE Batch
<1>0. /\ read_pos # write_pos /\ logger = "drain"
      /\ read_pos' = Plus(read_pos, k)
      /\ \/ written' = IF syslog = "open" THEN written \o SubSeq(Waiting, 1, k) ELSE written
         \/ UNCHANGED written
      /\ UNCHANGED <<queue, write_pos, pushed>>
  BY DEF WriteBatch, Depth
<1>1. k \in 1 .. Depth /\ k <= Batch
  BY <1>0, BatchSize
<1> HIDE DEF k
<1>2. Depth' = Depth - k
  BY <1>0, <1>1, BatchFacts
<1>3. syslog = "open"
  BY <1>0 DEF IInv, Lifecycle
<1>4. Waiting' = SubSeq(Waiting, k + 1, Len(Waiting))
  <2> DEFINE rest == SubSeq(Waiting, k + 1, Len(Waiting))
  <2>1. k \in 0 .. Len(Waiting)
    BY <1>1, NAssumption
  <2>2. /\ rest \in Seq(Nat) /\ Len(rest) = Depth - k
        /\ \A i \in 1 .. Depth - k : rest[i] = Waiting[k + i]
    BY <2>1, DropFacts
  <2> HIDE DEF rest
  <2>3. ASSUME NEW i \in 1 .. Depth - k
        PROVE  Waiting'[i] = rest[i]
    <3>1. k + i \in 1 .. Depth
      BY <1>1, NAssumption
    <3>2. rest[i] = (pushed - Depth) + (k + i)
      BY <2>2, <3>1
    <3>3. Waiting'[i] = (pushed - (Depth - k)) + i
      BY <1>0, <1>2
    <3> QED BY <1>1, <3>2, <3>3, NAssumption
  <2>4. Waiting' \in Seq(Nat) /\ Len(Waiting') = Depth - k
    BY <1>2
  <2>5. Waiting' = rest
    BY ONLY <2>2, <2>3, <2>4, SeqEqual
  <2> QED BY <2>5 DEF rest
<1>5. k \in 1 .. Len(Waiting)
  BY <1>1
<1> QED
  BY <1>0, <1>1, <1>3, <1>4, <1>5 DEF LQ!Take

\* The ring with its two positions implements the queue that loses all its
\* lines on overflow: every step is a Push, a Take, a Discard or no step.
THEOREM Refinement == Spec => ImplementsLogQueue
<1>1. Init => LQ!Init
  <2> SUFFICES ASSUME Init PROVE LQ!Init
    OBVIOUS
  <2>1. IInv
    BY InitInv
  <2>2. WaitingShape
    BY <2>1, ShapeHolds
  <2>3. Depth = 0
    BY NAssumption DEF Init, Depth, Dist
  <2>4. Waiting = << >>
    BY <2>2, <2>3, EmptySeq DEF WaitingShape
  <2> QED BY <2>4 DEF LQ!Init, Init
<1>2. IInv /\ WaitingShape /\ WaitingShape' /\ [Next]_vars
        => [LQ!Push \/ LQ!Take \/ LQ!Discard]_<<Waiting, pushed, written>>
  <2> SUFFICES ASSUME IInv, WaitingShape, WaitingShape', [Next]_vars
               PROVE  \/ LQ!Push \/ LQ!Take \/ LQ!Discard
                      \/ UNCHANGED <<Waiting, pushed, written>>
    OBVIOUS
  <2>1. CASE \E level \in Levels : rb_log_push(level)
    BY <2>1, PushRefines
  <2>2. CASE WriteBatch
    BY <2>2, WriteBatchRefines
  <2>3. CASE rb_log_init \/ rb_log_flush
    <3>1. Depth' = 0 /\ UNCHANGED <<pushed, written>>
      BY <2>3, RingResetInv
    <3>2. Waiting' = << >>
      BY <3>1, EmptySeq DEF WaitingShape
    <3> QED BY <3>1, <3>2 DEF LQ!Discard
  <2>4. CASE UNCHANGED <<queue, write_pos, read_pos, pushed, written>>
    BY <2>4 DEF Waiting
  <2> QED
    BY <2>1, <2>2, <2>3, <2>4
       DEF Next, Logger, Program, vars, rb_log_shutdown, JoinLogger, Connect, ConnectFails,
           TestEmpty, DrainDone, TestRun
<1>3. IInv => WaitingShape
  BY ShapeHolds
<1> QED
  BY <1>1, <1>2, <1>3, Invariance, PTL DEF Spec, ImplementsLogQueue, LQ!Spec

=============================================================================
