---------------------------- MODULE CircleBuffer ----------------------------
(***************************************************************************)
(* The circular buffer (dmmr_circle_buffer.c): the socket layer appends    *)
(* entries to `fifo', and the detached thread fifo_worker moves them to    *)
(* its local array `batch' and copies that array into the ring the         *)
(* sessions read.                                                          *)
(*                                                                         *)
(* An entry is its number in the order of arrival.  A slot of the ring     *)
(* names the entry it was last copied from: line 91 copies from the        *)
(* address of the entry's node pointer, not of the node, and the model     *)
(* says nothing of the bytes that gives.                                   *)
(*                                                                         *)
(* The list holds N + 1 nodes, 0 the FIRST and N the LAST; the cursor      *)
(* leaves the LAST as soon as it reaches it, so N slots are in use.        *)
(* fifo_lock makes an append and a drain single steps; the cursor is       *)
(* shared with the sessions without a lock, so its two stores are steps    *)
(* of their own.  The worker waits 10 microseconds at a time, so that its  *)
(* wait is only a guard: no wake-up is needed to end it.                   *)
(***************************************************************************)
EXTENDS Ring, Sequences

CONSTANTS
  MaxBatch,  \* MAX_BATCH (0x400)
  MaxPush    \* bound on the entries queued

ASSUME BatchAssumption == MaxBatch \in Nat \ {0} /\ MaxPush \in Nat

VARIABLES
  fifo,      \* this->fifo
  batch,     \* the entries in batch .. b - 1
  at,        \* batch_ptr - batch + 1
  ring,      \* the nodes of this->head
  cursor,    \* this->cursor
  run,
  worker,    \* where fifo_worker is
  phase,     \* the calls made: start, stop (run = 0 done, then freed); and
             \* whether the worker then used what was freed
  pushed     \* history: how many entries were queued

vars == <<fifo, batch, at, ring, cursor, run, worker, phase, pushed>>

Blank == 0

Entries == 1 .. MaxPush

Lesser(a, b) == IF a <= b THEN a ELSE b

Init ==
  /\ fifo = << >>
  /\ batch = << >>
  /\ at = 1
  /\ ring = [i \in 0 .. N |-> Blank]
  /\ cursor = 0
  /\ run = FALSE
  /\ worker = "none"
  /\ phase = "created"
  /\ pushed = 0

------------------------------------------------------------------------------
(* The calls of the server and of the socket layer *)

\* That the worker could not be started is not noticed.
start ==
  /\ phase = "created"
  /\ run' = TRUE
  /\ worker' \in {"test", "none"}
  /\ phase' = "up"
  /\ UNCHANGED <<fifo, batch, at, ring, cursor, pushed>>

\* Without memory for the ring start returns 0, which its caller reads as
\* success, and there is no worker.
start_no_memory ==
  /\ phase = "created"
  /\ phase' = "no ring"
  /\ UNCHANGED <<fifo, batch, at, ring, cursor, run, worker, pushed>>

\* on_receive_connection_cb, the only writer of the fifo; the socket threads
\* are not stopped.
QueueEntry ==
  /\ phase \in {"up", "stopping"}
  /\ pushed < MaxPush
  /\ fifo' = Append(fifo, pushed + 1)
  /\ pushed' = pushed + 1
  /\ UNCHANGED <<batch, at, ring, cursor, run, worker, phase>>

\* Mutant of stop: the flag is left set.
stop_without_flag ==
  /\ phase = "up"
  /\ phase' = "stopping"
  /\ UNCHANGED <<fifo, batch, at, ring, cursor, run, worker, pushed>>

\* stop, up to its sleep(1) ...
stop ==
  /\ phase = "up"
  /\ run' = FALSE
  /\ phase' = "stopping"
  /\ UNCHANGED <<fifo, batch, at, ring, cursor, worker, pushed>>

\* ... and from it on.  The thread is detached, so that its join waits for
\* nothing: wherever the worker is by then, the buffer goes.
FreeBuffer ==
  /\ phase = "stopping"
  /\ phase' = "freed"
  /\ UNCHANGED <<fifo, batch, at, ring, cursor, run, worker, pushed>>

------------------------------------------------------------------------------
(* fifo_worker *)

\* Mutant of DrainFifo: the batch is not bounded.
DrainFifoUnbounded ==
  /\ worker = "test"
  /\ run
  /\ fifo # << >>
  /\ batch' = batch \o fifo
  /\ fifo' = << >>
  /\ at' = 1
  /\ worker' = "copy"
  /\ UNCHANGED <<ring, cursor, run, phase, pushed>>

\* The entries waiting move to the end of the batch while there is room; b is
\* never set back, so that the batch keeps what it held.
DrainFifo ==
  /\ worker = "test"
  /\ run
  /\ fifo # << >>
  /\ LET k == Lesser(Len(fifo), MaxBatch - Len(batch))
     IN  /\ batch' = batch \o SubSeq(fifo, 1, k)
         /\ fifo' = SubSeq(fifo, k + 1, Len(fifo))
  /\ at' = 1
  /\ worker' = "copy"
  /\ UNCHANGED <<ring, cursor, run, phase, pushed>>

FindStopped ==
  /\ worker = "test"
  /\ ~ run
  /\ worker' = "ended"
  /\ UNCHANGED <<fifo, batch, at, ring, cursor, run, phase, pushed>>

\* The whole batch is copied, from its first entry, at each pass.
CopyEntry ==
  /\ worker = "copy"
  /\ ring' = [ring EXCEPT ![cursor] = batch[at]]
  /\ worker' = "advance"
  /\ UNCHANGED <<fifo, batch, at, cursor, run, phase, pushed>>

\* foward_current_node stores the next node ...
AdvanceCursor ==
  /\ worker = "advance"
  /\ cursor' = cursor + 1
  /\ worker' = "wrap"
  /\ UNCHANGED <<fifo, batch, at, ring, run, phase, pushed>>

\* Mutant of WrapCursor: the cursor leaves the LAST one place too late.
WrapCursorLate ==
  /\ worker = "wrap"
  /\ cursor' = IF cursor = N /\ ring[N] # Blank THEN 0 ELSE cursor
  /\ at' = at + 1
  /\ worker' = IF at < Len(batch) THEN "copy" ELSE "loop"
  /\ UNCHANGED <<fifo, batch, ring, run, phase, pushed>>

\* Mutant of WrapCursor: the second entry of a pass is not reached.
WrapCursorSkipping ==
  /\ worker = "wrap"
  /\ cursor' = IF cursor = N THEN 0 ELSE cursor
  /\ at' = at + 2
  /\ worker' = IF at + 1 < Len(batch) THEN "copy" ELSE "loop"
  /\ UNCHANGED <<fifo, batch, ring, run, phase, pushed>>

\* ... and then, if that is the LAST, the FIRST.
WrapCursor ==
  /\ worker = "wrap"
  /\ cursor' = IF cursor = N THEN 0 ELSE cursor
  /\ at' = at + 1
  /\ worker' = IF at < Len(batch) THEN "copy" ELSE "loop"
  /\ UNCHANGED <<fifo, batch, ring, run, phase, pushed>>

TestRun ==
  /\ worker = "loop"
  /\ worker' = IF run THEN "test" ELSE "ended"
  /\ UNCHANGED <<fifo, batch, at, ring, cursor, run, phase, pushed>>

\* The next step of a worker that outlives the second of stop's sleep follows
\* `this', which stop has set to 0, or its cursor.
UseFreed ==
  /\ phase = "freed"
  /\ worker \in {"test", "copy", "advance", "wrap"}
  /\ phase' = "crashed"
  /\ UNCHANGED <<fifo, batch, at, ring, cursor, run, worker, pushed>>

fifo_worker ==
  \/ /\ phase \in {"up", "stopping"}
     /\ \/ DrainFifo
        \/ FindStopped
        \/ CopyEntry
        \/ AdvanceCursor
        \/ WrapCursor
  \/ TestRun
  \/ UseFreed

Next ==
  \/ start
  \/ start_no_memory
  \/ QueueEntry
  \/ stop
  \/ FreeBuffer
  \/ fifo_worker

Spec == Init /\ [][Next]_vars

\* The worker is a thread of its own, which the kernel schedules.
FairSpec == Spec /\ WF_vars(fifo_worker)

------------------------------------------------------------------------------
(* Properties *)

\* Every variable has its type; fifo_worker writes inside the ring and inside
\* its batch.
TypeOK ==
  /\ fifo \in Seq(Entries)
  /\ batch \in Seq(Entries)
  /\ Len(batch) <= MaxBatch
  /\ at \in 1 .. MaxBatch + 1
  /\ ring \in [0 .. N -> Entries \cup {Blank}]
  /\ cursor \in 0 .. N
  /\ run \in BOOLEAN
  /\ worker \in {"none", "test", "copy", "advance", "wrap", "loop", "ended"}
  /\ phase \in {"created", "no ring", "up", "stopping", "freed", "crashed"}
  /\ pushed \in 0 .. MaxPush

\* How many entries of the batch the current pass has copied.
Copied ==
  CASE worker = "copy"               -> at - 1
    [] worker \in {"advance", "wrap"} -> at
    [] OTHER                          -> Len(batch)

\* The slot the next copy goes to, once both stores of the cursor are done.
NextSlot ==
  CASE worker = "advance" -> Succ(cursor)
    [] cursor = N         -> 0
    [] OTHER              -> cursor

\* A session that walks back from the cursor finds the entries copied in the
\* current pass, the latest first, as many as the ring has room for: the
\* cursor's two stores skip no slot and hit none twice.
RingHoldsLatest ==
  \A k \in 1 .. Lesser(Copied, N) : ring[Plus(NextSlot, N - k)] = batch[Copied - k + 1]

\* The sessions' iterate never stops at the LAST node, so that an entry copied
\* there would be seen by none: the worker never copies one there, and the
\* cursor is on it only between the two stores of foward_current_node.
LastSlotSkipped ==
  /\ ring[N] = Blank
  /\ cursor = N => worker = "wrap"

\* The entry k waits in the fifo, and it gets to the ring, if there is a worker.
ReachesRing(k) ==
  (\E j \in DOMAIN fifo : fifo[j] = k) ~> ((\E i \in 0 .. N : ring[i] = k) \/ ~ run \/ worker = "none")

\* Where the worker stands for the sessions, who see only what it does to ring
\* and cursor: WrapCursor with no LAST node to leave is no step to them.
WriterStep ==
  CASE worker = "advance"               -> "advance"
    [] worker = "wrap" /\ cursor = N    -> "wrap"
    [] OTHER                            -> "copy"

W == INSTANCE RingWriter WITH Values <- Entries \cup {Blank}, step <- WriterStep

\* Whatever is queued, drained, repeated and stopped, the sessions that walk
\* the ring without a lock see a writer that copies to the slot under the
\* cursor and moves the cursor on, over the LAST node and at once off it.
ImplementsRingWriter == W!WriterSpec

\* During a pass the worker is at an entry of the batch.
InsideBatch == worker \in {"copy", "advance", "wrap"} => at \in 1 .. Len(batch)

\* There is no worker before start.
NotStarted == phase = "created" => worker = "none"

\* The inductive invariant: what is left out of a pass in RingHoldsLatest is
\* where the pass is, and that start finds no worker in the middle of one.
IInv ==
  /\ TypeOK
  /\ RingHoldsLatest
  /\ LastSlotSkipped
  /\ InsideBatch
  /\ NotStarted

\* Every entry for which the batch has room gets from the fifo to the ring,
\* unless the buffer is stopped first: also those that arrive during a pass,
\* and those a later entry of the same pass overwrites.
BatchReachesRing == \A k \in 1 .. MaxBatch : ReachesRing(k)

\* The worker, wherever it is, sees the flag of stop and ends, also when a full
\* batch keeps it from ever waiting; unless stop's second is over before.
StopEnds == phase = "stopping" ~> (worker \in {"none", "ended"} \/ phase = "freed")

\* What the README promises of the circular buffer, that it passes data on
\* between the components: whatever is queued reaches the ring, unless the
\* buffer is stopped.
AllReachRing == \A k \in 1 .. MaxPush : ReachesRing(k)

=============================================================================
