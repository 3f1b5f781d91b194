-------------------------------- MODULE RbLog --------------------------------
(***************************************************************************)
(* The asynchronous log (rb_log.c): a ring of N lines between the threads  *)
(* that push lines and one logger thread that writes them to /dev/log, and *)
(* the start and end of that thread.  A line is the number of the push     *)
(* that stored it; its text is left out.                                   *)
(*                                                                         *)
(* log_buf.lock is held for the whole of a push, of a drain and of the     *)
(* flag change in rb_log_shutdown.  Pushes and the flag change are single  *)
(* steps; a drain is one step per batch, with the lock held between them.  *)
(* A thread in pthread_cond_wait runs again only when it is signalled.     *)
(***************************************************************************)
EXTENDS Ring, Sequences, FiniteSets

CONSTANTS
  Batch,     \* iovec entries of one writev (16)
  Levels,    \* the log levels callers use
  Enabled,   \* the levels cfg->log_level lets through
  MaxPush    \* bound on the lines pushed

ASSUME LogAssumption == Batch \in Nat \ {0} /\ Enabled \subseteq Levels

VARIABLES
  queue,      \* log_buf.queue
  write_pos,  \* log_buf.write_pos
  read_pos,   \* log_buf.read_pos
  run,        \* the logger's run flag
  phase,      \* the calls the program has made: rb_log_init, rb_log_shutdown
              \* (run = 0 done, then joined), rb_log_flush
  logger,     \* where the logger thread is
  syslog,     \* syslog_fd: "closed" or "open"
  pushed,     \* history: how many lines were pushed
  written,    \* history: lines written to /dev/log
  on_stderr   \* history: lines printed to stderr

vars == <<queue, write_pos, read_pos, run, phase, logger, syslog, pushed, written, on_stderr>>

NoLine == 0

Init ==
  /\ queue = [i \in Index |-> NoLine]
  /\ write_pos = 0
  /\ read_pos = 0
  /\ run = FALSE
  /\ phase = "before"
  /\ logger = "none"
  /\ syslog = "closed"
  /\ pushed = 0
  /\ written = << >>
  /\ on_stderr = << >>

\* The logger owns log_buf.lock from its lock to its unlock, its wait excepted.
locked == logger = "drain"

\* pthread_cond_signal: the logger, if it waits, goes on to re-test.
Signalled == IF logger = "waiting" THEN "test" ELSE logger

------------------------------------------------------------------------------
(* The program's calls *)

\* Mutant of rb_log_push: the signal is forgotten.
rb_log_push_unsignalled(level) ==
  /\ phase \in {"before", "up"}
  /\ phase = "before" \/ level \in Enabled
  /\ pushed < MaxPush
  /\ ~ locked
  /\ queue' = [queue EXCEPT ![write_pos] = pushed + 1]
  /\ write_pos' = Succ(write_pos)
  /\ pushed' = pushed + 1
  /\ UNCHANGED <<read_pos, run, phase, logger, syslog, written, on_stderr>>

\* Mutant of rb_log_push: the position moves before the line is stored.
rb_log_push_after_advance(level) ==
  /\ phase \in {"before", "up"}
  /\ phase = "before" \/ level \in Enabled
  /\ pushed < MaxPush
  /\ ~ locked
  /\ write_pos' = Succ(write_pos)
  /\ queue' = [queue EXCEPT ![write_pos'] = pushed + 1]
  /\ pushed' = pushed + 1
  /\ logger' = Signalled
  /\ UNCHANGED <<read_pos, run, phase, syslog, written, on_stderr>>

\* rb_log_push: store the line and advance; nothing compares write_pos with
\* read_pos, so the N-th line waiting makes the ring look empty.
rb_log_push(level) ==
  /\ phase \in {"before", "up"}
  /\ phase = "before" \/ level \in Enabled
  /\ pushed < MaxPush
  /\ ~ locked
  /\ queue' = [queue EXCEPT ![write_pos] = pushed + 1]
  /\ write_pos' = Succ(write_pos)
  /\ pushed' = pushed + 1
  /\ logger' = Signalled
  /\ UNCHANGED <<read_pos, run, phase, syslog, written, on_stderr>>

\* rb_log_init wipes the buffer and starts the thread.
rb_log_init ==
  /\ phase = "before"
  /\ queue' = [i \in Index |-> NoLine]
  /\ write_pos' = 0
  /\ read_pos' = 0
  /\ run' = TRUE
  /\ phase' = "up"
  /\ logger' = "connect"
  /\ UNCHANGED <<syslog, pushed, written, on_stderr>>

\* Mutant of rb_log_shutdown: the signal is forgotten.
rb_log_shutdown_unsignalled ==
  /\ phase = "up"
  /\ ~ locked
  /\ run' = FALSE
  /\ phase' = "stopping"
  /\ UNCHANGED <<queue, write_pos, read_pos, logger, syslog, pushed, written, on_stderr>>

\* rb_log_shutdown, up to its join ...
rb_log_shutdown ==
  /\ phase = "up"
  /\ ~ locked
  /\ run' = FALSE
  /\ phase' = "stopping"
  /\ logger' = Signalled
  /\ UNCHANGED <<queue, write_pos, read_pos, syslog, pushed, written, on_stderr>>

\* ... and from it on.
JoinLogger ==
  /\ phase = "stopping"
  /\ logger = "ended"
  /\ phase' = "down"
  /\ UNCHANGED <<queue, write_pos, read_pos, run, logger, syslog, pushed, written, on_stderr>>

\* The lines waiting, oldest first.
Waiting == [k \in 1 .. Dist(read_pos, write_pos) |-> queue[Plus(read_pos, k - 1)]]

\* rb_log_flush, main's last call: without a descriptor the lines are skipped.
rb_log_flush ==
  /\ phase = "down"
  /\ read_pos' = write_pos
  /\ written' = IF syslog = "open" THEN written \o Waiting ELSE written
  /\ phase' = "end"
  /\ UNCHANGED <<queue, write_pos, run, logger, syslog, pushed, on_stderr>>

------------------------------------------------------------------------------
(* rb_log_thread_func *)

Connect ==
  /\ logger = "connect"
  /\ syslog' = "open"
  /\ logger' = "test"
  /\ UNCHANGED <<queue, write_pos, read_pos, run, phase, pushed, written, on_stderr>>

\* No socket or no /dev/log: the thread returns, and nobody drains.
ConnectFails ==
  /\ logger = "connect"
  /\ logger' = "ended"
  /\ UNCHANGED <<queue, write_pos, read_pos, run, phase, syslog, pushed, written, on_stderr>>

\* Mutant of TestEmpty: a stopped logger leaves without a last drain.
TestEmptyOrStop ==
  /\ logger = "test"
  /\ logger' = IF ~ run THEN "again"
               ELSE IF read_pos = write_pos THEN "waiting" ELSE "drain"
  /\ UNCHANGED <<queue, write_pos, read_pos, run, phase, syslog, pushed, written, on_stderr>>

\* With the lock: wait for a line while run, else go on to the drain.
TestEmpty ==
  /\ logger = "test"
  /\ logger' = IF read_pos = write_pos /\ run THEN "waiting" ELSE "drain"
  /\ UNCHANGED <<queue, write_pos, read_pos, run, phase, syslog, pushed, written, on_stderr>>

\* Mutant of WriteBatch: read_pos moves one line too far.
WriteBatchSkipping ==
  /\ logger = "drain"
  /\ read_pos # write_pos
  /\ LET d == Dist(read_pos, write_pos)
         k == IF d < Batch THEN d ELSE Batch
         lines == SubSeq(Waiting, 1, k)
     IN  /\ read_pos' = Succ(Plus(read_pos, k))
         /\ \/ written' = IF syslog = "open" THEN written \o lines ELSE written
            \/ UNCHANGED written
         /\ on_stderr' = IF syslog = "open" THEN on_stderr ELSE on_stderr \o lines
  /\ UNCHANGED <<queue, write_pos, run, phase, logger, syslog, pushed>>

\* One round of the outer drain loop: up to Batch lines, one writev whose
\* result is ignored (the socket does not block, so it may be refused).
WriteBatch ==
  /\ logger = "drain"
  /\ read_pos # write_pos
  /\ LET d == Dist(read_pos, write_pos)
         k == IF d < Batch THEN d ELSE Batch
         lines == SubSeq(Waiting, 1, k)
     IN  /\ read_pos' = Plus(read_pos, k)
         /\ \/ written' = IF syslog = "open" THEN written \o lines ELSE written
            \/ UNCHANGED written
         /\ on_stderr' = IF syslog = "open" THEN on_stderr ELSE on_stderr \o lines
  /\ UNCHANGED <<queue, write_pos, run, phase, logger, syslog, pushed>>

\* The ring is empty: unlock.
DrainDone ==
  /\ logger = "drain"
  /\ read_pos = write_pos
  /\ logger' = "again"
  /\ UNCHANGED <<queue, write_pos, read_pos, run, phase, syslog, pushed, written, on_stderr>>

\* while (run), read without the lock; at the end the descriptor is closed.
TestRun ==
  /\ logger = "again"
  /\ logger' = IF run THEN "test" ELSE "ended"
  /\ syslog' = IF run THEN syslog ELSE "closed"
  /\ UNCHANGED <<queue, write_pos, read_pos, run, phase, pushed, written, on_stderr>>

------------------------------------------------------------------------------
Logger == Connect \/ ConnectFails \/ TestEmpty \/ WriteBatch \/ DrainDone \/ TestRun

Program ==
  \/ \E level \in Levels : rb_log_push(level)
  \/ rb_log_init \/ rb_log_shutdown \/ JoinLogger \/ rb_log_flush

Next == Logger \/ Program

Spec == Init /\ [][Next]_vars

\* The logger is an ordinary thread, and pthread_join returns once it ended.
\* When the program pushes, starts or stops the log is left open.
FairSpec == Spec /\ WF_vars(Logger) /\ WF_vars(JoinLogger)

------------------------------------------------------------------------------
(* Properties *)

Lines == 0 .. pushed

\* Every variable has its type: the positions stay in the ring, and the ring
\* and the outputs hold lines that were pushed.
TypeOK ==
  /\ queue \in [Index -> Lines]
  /\ write_pos \in Index
  /\ read_pos \in Index
  /\ run \in BOOLEAN
  /\ phase \in {"before", "up", "stopping", "down", "end"}
  /\ logger \in {"none", "connect", "test", "waiting", "drain", "again", "ended"}
  /\ syslog \in {"closed", "open"}
  /\ pushed \in Nat
  /\ written \in Seq(Lines)
  /\ on_stderr \in Seq(Lines)

(***************************************************************************)
(* Lines reach /dev/log in the order they were pushed, none twice, also    *)
(* across rounds of the ring and when lines were lost in between.          *)
(***************************************************************************)
WrittenInOrder ==
  \A i, j \in 1 .. Len(written) : i < j => written[i] < written[j]

\* The logger waits only when it has nothing to do: no push and no shutdown
\* between its test and its wait, or during it, goes unnoticed.
NoLostWakeup ==
  logger = "waiting" => read_pos = write_pos /\ run

(***************************************************************************)
(* The inductive invariant behind these: the lines waiting are the last    *)
(* ones pushed, in order, and what was written is older than all of them;  *)
(* the descriptor is open exactly while the thread is in its loop.         *)
(***************************************************************************)
Depth == Dist(read_pos, write_pos)

WaitingAreLatest ==
  /\ Depth <= pushed
  /\ \A i \in Index : Dist(read_pos, i) < Depth =>
        queue[i] = (pushed - Depth) + Dist(read_pos, i) + 1

WrittenIsOlder ==
  \A i \in 1 .. Len(written) : written[i] <= pushed - Depth

Lifecycle ==
  /\ phase = "before" <=> logger = "none"
  /\ syslog = "open" <=> logger \in {"test", "waiting", "drain", "again"}
  /\ phase \in {"down", "end"} => logger = "ended"

IInv ==
  /\ TypeOK
  /\ WaitingAreLatest
  /\ WrittenIsOlder
  /\ Lifecycle
  /\ WrittenInOrder
  /\ NoLostWakeup

(***************************************************************************)
(* The ring with its two positions is a queue of N - 1 lines that loses    *)
(* everything when it overflows.                                           *)
(***************************************************************************)
LQ == INSTANCE LogQueue WITH Capacity <- N - 1, backlog <- Waiting

\* Every push, drained batch, flush and restart of rb_log.c is a push, a take
\* or a discard of that queue.
ImplementsLogQueue == LQ!Spec

\* Lines waiting while the log is connected leave the ring, unless the log is
\* shut down first.
ConnectedIsDrained ==
  (syslog = "open" /\ read_pos # write_pos) ~> (read_pos = write_pos \/ ~ run)

\* rb_log_shutdown returns: its join is not left waiting.
ShutdownReturns == (phase = "stopping") ~> (phase = "down")

(***************************************************************************)
(* A shutdown that finds the logger waiting, about to test or draining     *)
(* loses nothing: the thread ends after it has taken every line.  (One     *)
(* that comes between the logger's unlock and its unlocked test of run can *)
(* leave behind a line pushed in that window, and rb_log_flush then skips  *)
(* it, because the thread has closed the descriptor.)                      *)
(***************************************************************************)
ShutdownDrains ==
  (phase = "stopping" /\ logger \in {"test", "drain"}) ~>
    (logger = "ended" /\ read_pos = write_pos)

=============================================================================
