------------------------------ MODULE Scheduler ------------------------------
(***************************************************************************)
(* The deadline scheduler (dmmr_scheduler.c): an array of rows, each a     *)
(* session with its deadline; _reorder_thread sorts it, and                *)
(* _check_and_send_thread walks it from the front and sends the sessions   *)
(* that are due, up to the first that is not.  Rows come and go with       *)
(* sched_insert and sched_delete.                                          *)
(*                                                                         *)
(* slots_mutex makes a sort, the search for a row and a delete single      *)
(* steps, and the sender keeps it for a whole walk.  sched_insert stores   *)
(* the row's fields after it gave the mutex back, one step each: they      *)
(* meet whatever is then in the row.  One thread inserts, the one that     *)
(* accepts connections, and it does so whatever became of the session: one *)
(* that is up, or is being deleted, gets a second row.                     *)
(*                                                                         *)
(* last_active_time_us and deadline_us are written and never read, and     *)
(* are left out; so is sched_snd, which nothing calls.                     *)
(***************************************************************************)
EXTENDS DeadlineSort, FiniteSets

CONSTANTS
  Sessions,
  NoSession,   \* a null session_ptr
  Wild,        \* the session_ptr of a row realloc added, not initialised
  Deadlines,   \* the deadlines of nodes, 0 among them
  Preempt,     \* cfg->scheduler_preemptive_deadline
  Size,        \* rows allocated by sched_start (0x400)
  NullTest,    \* "after": as built, sched_trigger_snd tests session_ptr after
               \* it used it; "before": as its test means it
  MaxNow,      \* bound on the clock
  MaxInsert    \* bound on the sessions inserted

ASSUME SchedulerAssumption ==
  /\ Deadlines \subseteq Nat /\ 0 \in Deadlines
  /\ Preempt \in Nat /\ Size \in Nat \ {0} /\ MaxNow \in Nat /\ MaxInsert \in Nat
  /\ NullTest \in {"after", "before"}
  /\ NoSession \notin Sessions /\ Wild \notin Sessions \cup {NoSession}

VARIABLES
  slots,     \* slots .. slots + scheduler_connection_count - 1
  size,      \* scheduler_connection_size
  run,
  insert,    \* where sched_insert is, with its pool and the row p
  session,   \* each session: "none", "up", "closing" (from sched_delete until
             \* delete_session has zeroed it; its run flag goes in between)
  given,     \* history: for each session the rows sched_insert has stored it
             \* in, less those sched_delete was called for
  sorter,    \* where _reorder_thread is
  sender,    \* where _check_and_send_thread is
  now,       \* the monotonic clock
  seen,      \* the sender's `now', read before it locks
  s0,        \* the sender's row
  inserted,  \* history: how many inserts there were
  crashed    \* a null or wild session_ptr was followed

vars == <<slots, size, run, insert, session, given, sorter, sender, now, seen, s0, inserted, crashed>>

Row == [session : Sessions \cup {NoSession, Wild}, deadline : Deadlines]

BlankRow == [session |-> NoSession, deadline |-> 0]

Idle == [at |-> "idle", pool |-> NoSession, row |-> 0]

\* sched_start; that the sender could not be started is not noticed.
Init ==
  /\ slots = << >>
  /\ size = Size
  /\ run = TRUE
  /\ insert = Idle
  /\ session = [s \in Sessions |-> "none"]
  /\ given = [s \in Sessions |-> 0]
  /\ sorter = "sort"
  /\ sender \in {"clock", "none"}
  /\ now = 0
  /\ seen = 0
  /\ s0 = 1
  /\ inserted = 0
  /\ crashed = FALSE

\* The sender holds slots_mutex.
locked == sender = "walk"

Tick ==
  /\ now < MaxNow
  /\ now' = now + 1
  /\ UNCHANGED <<slots, size, run, insert, session, given, sorter, sender, seen, s0, inserted, crashed>>

------------------------------------------------------------------------------
(* sched_insert, after insert_session has started the session *)

\* A row get_scheduler_connection takes again: no session, or one whose run
\* flag is 0.
Reusable(row) == row.session = NoSession \/ (row.session \in Sessions /\ session[row.session] = "none")

\* ... or may take again, the flag being cleared at that time.
MayReuse(row) == Reusable(row) \/ (row.session \in Sessions /\ session[row.session] = "closing")

Started(s) == [session EXCEPT ![s] = IF @ = "none" THEN "up" ELSE @]

\* get_scheduler_connection finds such a row, the first ...
ReuseRow(s) ==
  /\ insert.at = "idle" /\ run /\ ~ locked
  /\ inserted < MaxInsert
  /\ \E i \in DOMAIN slots :
       /\ MayReuse(slots[i])
       /\ \A j \in 1 .. i - 1 : slots[j].session # Wild /\ ~ Reusable(slots[j])
       /\ insert' = [at |-> "session", pool |-> s, row |-> i]
  /\ session' = Started(s)
  /\ inserted' = inserted + 1
  /\ UNCHANGED <<slots, size, run, given, sorter, sender, now, seen, s0, crashed>>

\* Mutant of AddRow: the array does not grow.
AddRowUngrown(s) ==
  /\ insert.at = "idle" /\ run /\ ~ locked
  /\ inserted < MaxInsert
  /\ \A i \in DOMAIN slots : slots[i].session # Wild /\ ~ Reusable(slots[i])
  /\ IF Len(slots) < Size
     THEN slots' = Append(slots, BlankRow)
     ELSE \E d \in Deadlines : slots' = Append(slots, [session |-> Wild, deadline |-> d])
  /\ insert' = [at |-> "session", pool |-> s, row |-> Len(slots) + 1]
  /\ session' = Started(s)
  /\ inserted' = inserted + 1
  /\ UNCHANGED <<size, run, given, sorter, sender, now, seen, s0, crashed>>

\* ... or counts one more, doubling the array when it is full: a row of the
\* first allocation is blank, of a later one is what the memory held.
AddRow(s) ==
  /\ insert.at = "idle" /\ run /\ ~ locked
  /\ inserted < MaxInsert
  /\ \A i \in DOMAIN slots : slots[i].session # Wild /\ ~ Reusable(slots[i])
  /\ size' = IF Len(slots) >= size THEN 2 * size ELSE size
  /\ IF Len(slots) < Size
     THEN slots' = Append(slots, BlankRow)
     ELSE \E d \in Deadlines : slots' = Append(slots, [session |-> Wild, deadline |-> d])
  /\ insert' = [at |-> "session", pool |-> s, row |-> Len(slots) + 1]
  /\ session' = Started(s)
  /\ inserted' = inserted + 1
  /\ UNCHANGED <<run, given, sorter, sender, now, seen, s0, crashed>>

\* The search follows a wild pointer, or realloc fails and the null row is
\* written.
InsertCrashes ==
  /\ insert.at = "idle" /\ run /\ ~ locked
  /\ \A i \in DOMAIN slots : ~ Reusable(slots[i])
  /\ (\E i \in DOMAIN slots : slots[i].session = Wild) \/ Len(slots) >= size
  /\ crashed' = TRUE
  /\ UNCHANGED <<slots, size, run, insert, session, given, sorter, sender, now, seen, s0, inserted>>

\* A store that falls between the sort's read of the row and its next write
\* is lost.
StoreInRow(row) ==
  \/ slots' = [slots EXCEPT ![insert.row] = row]
  \/ sorter = "sort" /\ ~ locked /\ slots' = slots

StoreSession ==
  /\ insert.at = "session"
  /\ StoreInRow([slots[insert.row] EXCEPT !.session = insert.pool])
  /\ insert' = [insert EXCEPT !.at = "deadline"]
  /\ given' = [given EXCEPT ![insert.pool] = @ + 1]
  /\ UNCHANGED <<size, run, session, sorter, sender, now, seen, s0, inserted, crashed>>

\* The deadline of the pool's first node, 0 while it holds none.
StoreDeadline ==
  /\ insert.at = "deadline"
  /\ \E d \in Deadlines : StoreInRow([slots[insert.row] EXCEPT !.deadline = d])
  /\ insert' = Idle
  /\ UNCHANGED <<size, run, session, given, sorter, sender, now, seen, s0, inserted, crashed>>

------------------------------------------------------------------------------
(* sm_delete_session: sched_delete, then delete_session *)

\* Mutant of sched_delete: the last row is not looked at.
sched_delete_but_last(s) ==
  /\ session[s] = "up" /\ ~ locked
  /\ slots' = [i \in DOMAIN slots |->
                 IF slots[i].session = s /\ i < Len(slots) THEN BlankRow ELSE slots[i]]
  /\ session' = [session EXCEPT ![s] = "closing"]
  /\ given' = [given EXCEPT ![s] = IF @ = 0 THEN 0 ELSE @ - 1]
  /\ UNCHANGED <<size, run, insert, sorter, sender, now, seen, s0, inserted, crashed>>

\* The first row with the session is cleared; it stays in the array.
sched_delete(s) ==
  /\ session[s] = "up" /\ ~ locked
  /\ slots' = [i \in DOMAIN slots |->
                 IF slots[i].session = s /\ \A j \in 1 .. i - 1 : slots[j].session # s
                 THEN BlankRow ELSE slots[i]]
  /\ session' = [session EXCEPT ![s] = "closing"]
  /\ given' = [given EXCEPT ![s] = IF @ = 0 THEN 0 ELSE @ - 1]
  /\ UNCHANGED <<size, run, insert, sorter, sender, now, seen, s0, inserted, crashed>>

Due(row) == seen + Preempt >= row.deadline

\* The session is stopped, its pool freed and all of it zeroed.  A sender that
\* found another row of the session, and waits for the mutex delete_session
\* holds in its sleep, goes on with what is left.
delete_session(s) ==
  /\ session[s] = "closing"
  /\ session' = [session EXCEPT ![s] = "none"]
  /\ \/ UNCHANGED crashed
     \/ locked /\ Due(slots[s0]) /\ slots[s0].session = s /\ crashed' = TRUE
  /\ UNCHANGED <<slots, size, run, insert, given, sorter, sender, now, seen, s0, inserted>>

sm_delete_session(s) == sched_delete(s) \/ delete_session(s)

\* sched_stop; freeing the rows a second later is not modelled.
sched_stop ==
  /\ run
  /\ run' = FALSE
  /\ UNCHANGED <<slots, size, insert, session, given, sorter, sender, now, seen, s0, inserted, crashed>>

------------------------------------------------------------------------------
(* _reorder_thread *)

Reorder ==
  /\ sorter = "sort" /\ ~ locked
  /\ slots' = Reordered(slots)
  /\ sorter' = "sleep"
  /\ UNCHANGED <<size, run, insert, session, given, sender, now, seen, s0, inserted, crashed>>

ReorderAgain ==
  /\ sorter = "sleep"
  /\ sorter' = IF run THEN "sort" ELSE "ended"
  /\ UNCHANGED <<slots, size, run, insert, session, given, sender, now, seen, s0, inserted, crashed>>

_reorder_thread == Reorder \/ ReorderAgain

------------------------------------------------------------------------------
(* _check_and_send_thread *)

\* The end of a round, after which neither seen nor s0 is read again.
EndRound ==
  /\ sender' = IF run THEN "clock" ELSE "ended"
  /\ seen' = 0 /\ s0' = 1

ReadClock ==
  /\ sender = "clock"
  /\ \/ slots = << >> /\ EndRound
     \/ slots # << >> /\ sender' = "lock" /\ seen' = now /\ UNCHANGED s0
  /\ UNCHANGED <<slots, size, run, insert, session, given, sorter, now, inserted, crashed>>

LockSlots ==
  /\ sender = "lock"
  /\ s0' = 1
  /\ sender' = "walk"
  /\ UNCHANGED <<slots, size, run, insert, session, given, sorter, now, seen, inserted, crashed>>

\* Mutant of NextRow: the last row is left out.
NextRowButLast ==
  IF s0 + 1 < Len(slots) THEN s0' = s0 + 1 /\ UNCHANGED <<sender, seen>> ELSE EndRound

\* After a row that was due: the next one, or the end of the walk.
NextRow ==
  IF s0 < Len(slots) THEN s0' = s0 + 1 /\ UNCHANGED <<sender, seen>> ELSE EndRound

\* sched_trigger_snd on a session: its pool goes out, and the row is due from
\* now on; nothing is done for a session that is zeroed.
SendRow ==
  /\ locked /\ Due(slots[s0])
  /\ slots[s0].session \in Sessions
  /\ slots' = IF session[slots[s0].session] # "none"
              THEN [slots EXCEPT ![s0].deadline = 0] ELSE slots
  /\ NextRow
  /\ UNCHANGED <<size, run, insert, session, given, sorter, now, inserted, crashed>>

\* sched_trigger_snd on a row without a session.
SkipRow ==
  /\ locked /\ Due(slots[s0])
  /\ slots[s0].session = NoSession /\ NullTest = "before"
  /\ NextRow
  /\ UNCHANGED <<slots, size, run, insert, session, given, sorter, now, inserted, crashed>>

SendCrashes ==
  /\ locked /\ Due(slots[s0])
  /\ slots[s0].session = Wild \/ (slots[s0].session = NoSession /\ NullTest = "after")
  /\ crashed' = TRUE
  /\ UNCHANGED <<slots, size, run, insert, session, given, sorter, sender, now, seen, s0, inserted>>

StopWalk ==
  /\ locked /\ ~ Due(slots[s0])
  /\ EndRound
  /\ UNCHANGED <<slots, size, run, insert, session, given, sorter, now, inserted, crashed>>

_check_and_send_thread ==
  \/ ReadClock
  \/ LockSlots
  \/ SendRow
  \/ SkipRow
  \/ SendCrashes
  \/ StopWalk

------------------------------------------------------------------------------

sched_insert ==
  \/ \E s \in Sessions : ReuseRow(s) \/ AddRow(s)
  \/ InsertCrashes
  \/ StoreSession
  \/ StoreDeadline

Next ==
  /\ ~ crashed
  /\ \/ Tick
     \/ sched_insert
     \/ \E s \in Sessions : sm_delete_session(s)
     \/ sched_stop
     \/ _reorder_thread
     \/ _check_and_send_thread

Spec == Init /\ [][Next]_vars

\* The sender is scheduled by the kernel and finds slots_mutex free: the others
\* hold it for a sort, a search or a delete, and the sorter sleeps after each.
\* The clock runs, and an insert or a delete that has begun is finished.
\* Nothing is assumed of the sorter: the sender gives the mutex back only to
\* ask for it again, and may keep the sorter from it for ever.
FairSpec ==
  /\ Spec
  /\ WF_vars(Tick /\ ~ crashed)
  /\ WF_vars((StoreSession \/ StoreDeadline) /\ ~ crashed)
  /\ \A s \in Sessions : WF_vars(delete_session(s) /\ ~ crashed)
  /\ WF_vars(_check_and_send_thread /\ ~ crashed)

------------------------------------------------------------------------------
(* Properties *)

\* Every variable has its type, and the sender and sched_insert are at rows
\* of the array.
TypeOK ==
  /\ slots \in Seq(Row)
  /\ size \in Nat /\ Len(slots) <= size
  /\ run \in BOOLEAN
  /\ insert.at \in {"idle", "session", "deadline"}
  /\ insert.at # "idle" => insert.pool \in Sessions /\ insert.row \in 1 .. Len(slots)
  /\ session \in [Sessions -> {"none", "up", "closing"}]
  /\ given \in [Sessions -> Nat]
  /\ sorter \in {"sort", "sleep", "ended"}
  /\ sender \in {"none", "clock", "lock", "walk", "ended"}
  /\ locked => s0 \in 1 .. Len(slots)
  /\ now \in 0 .. MaxNow /\ seen \in 0 .. now /\ inserted \in 0 .. MaxInsert
  /\ crashed \in BOOLEAN

Rows(s) == {i \in DOMAIN slots : slots[i].session = s}

\* A session has no more rows than sched_insert has stored it in and
\* sched_delete has not taken back, whatever the sort moved and the unlocked
\* stores hit in between: after as many deletes as inserts the sender cannot
\* find the session, whose pool delete_session frees.  (After two inserts one
\* delete leaves a row: dmmr_scheduler.c:190.)
RowsAreGiven == \A s \in Sessions : Cardinality(Rows(s)) <= given[s]

\* Session s is there and waits in a row whose deadline has come, and so has
\* that of every row before it; sending it makes the deadline 0.
WaitsInFront(s) ==
  /\ session[s] # "none"
  /\ \E i \in Rows(s) : /\ slots[i].deadline # 0
                        /\ \A j \in 1 .. i : now + Preempt >= slots[j].deadline

\* No session waits for ever behind rows that are all due: a walk gets there
\* while inserts, deletes and sorts go on, unless there is no sender, the
\* scheduler stops, or a row that was deleted or never initialised ends the
\* process.  (Behind a row that is not due it may wait for ever: see FairSpec.)
FrontIsSent ==
  \A s \in Sessions : WaitsInFront(s) ~> (~ WaitsInFront(s) \/ sender = "none" \/ ~ run \/ crashed)

\* The row counts never go back: the sender that found a row finds one when it
\* has the lock.
Steady ==
  /\ size # 0
  /\ sender = "lock" => slots # << >>
  /\ insert \in [at : {"idle", "session", "deadline"}, pool : Sessions \cup {NoSession}, row : Nat]

\* The inductive invariant.
IInv == TypeOK /\ Steady /\ RowsAreGiven

==============================================================================
