------------------------------- MODULE Session -------------------------------
(***************************************************************************)
(* A session (session_connection.c): its thread session_worker walks the   *)
(* ring behind the cursor and copies the nodes of its connection to the    *)
(* session's pool, which goes out when it is full (by the thread itself)   *)
(* or when the scheduler says so (sched_trigger_snd, under the pool's      *)
(* mutex).  The session sits in the table recno and is inserted and        *)
(* deleted there; its threads are detached and find it by its address, so  *)
(* that a thread of a deleted session meets the one inserted next.         *)
(*                                                                         *)
(* A node is the number of its copy into the ring, with its bytes; 0 bytes *)
(* stands for a node of another connection (node_cmp differs).             *)
(* get_current_node returns the cursor here: as built it calls itself.     *)
(*                                                                         *)
(* Steps are what runs without the pool's mutex between two accesses of    *)
(* the shared fields.  What a race makes possible is in the model; the     *)
(* set `excuse' remembers the races there were, and the properties say     *)
(* which of them they need the absence of.                                 *)
(***************************************************************************)
EXTENDS RingWriter, PoolOps, NodeCmp, SequencesExt

CONSTANTS
  MaxBytes,    \* VALUE_BUFFER_SIZE, the bytes of a full node
  IovMax,      \* VALUE_OUTPUT_SIZE, the nodes one send takes (6)
  LinkProto,   \* the protocol of the connection the session is linked to
  PoolSize,    \* nodes allocated by insert_session (0x400)
  CfgSizes,    \* the circle_buffer_size a reload brings (one at most)
  MaxWrite,    \* bound on the copies into the ring,
  MaxShared,   \* and on those until and after a second session is inserted
  MaxInsert,   \* bound on the sessions inserted
  MaxAhead     \* bound on how far a thread runs ahead while the cursor is on
               \* the LAST node (where it stays for an instruction)

ASSUME SessionAssumption ==
  /\ N \in Nat \ {0, 1} /\ MaxBytes \in Nat \ {0} /\ IovMax \in Nat \ {0}
  /\ LinkProto \in {"udp", "tcp", "none"}
  /\ PoolSize \in Nat \ {0} /\ CfgSizes \subseteq Nat
  /\ MaxWrite \in Nat /\ MaxShared \in Nat /\ MaxInsert \in Nat /\ MaxAhead \in Nat

VARIABLES
  written,    \* history: how many nodes were copied into the ring
  cfgSize,    \* cfg->circle_buffer_size
  phase,      \* the session: "none", "up", "closing" (delete_session waits)
  run,
  pool,       \* the memory of conn->pool, pool_size nodes
  count,      \* conn->pool_count
  pos,        \* conn->cursor; -1 when the session is zeroed
  locked,     \* conn->mutex
  rows,       \* the scheduler's rows of the session
  sender,     \* sched_trigger_snd: "idle", "sent"
  thread,     \* the session's threads, in the order of their creation
  due,        \* history: the copy the slot at pos is to get in this lap
  owed,       \* history: nodes appended and not yet given to the dispatcher,
              \* and
  given,      \* history: every send gave what was owed, and fitted; both are
              \* kept until there is a race
  excuse,     \* history: the races there were
  crashed

poolVars == <<pool, count, owed, given>>
vars == <<ring, cursor, step, written, cfgSize, phase, run, pool, count, pos,
          locked, rows, sender, thread, due, owed, given, excuse, crashed>>

Node == [id : 0 .. MaxWrite, bytes : 0 .. MaxBytes]

\* A node of calloc or memset.
Zero == [id |-> 0, bytes |-> 0]

\* The node of the session's connection: descriptor 5, 127.0.0.1 at port 1;
\* and one of another connection.
get_session_node ==
  [fd |-> 5, port |-> 1, family |-> AF_INET,
   ipv4 |-> <<2, 0, 1, 0, 127, 0, 0, 1>>, ipv6 |-> [i \in 1 .. 28 |-> 0]]

Other == [get_session_node EXCEPT !.port = 2]

\* A node of the ring is of the session.
Matches(n) == node_cmp(IF n.bytes = 0 THEN Other ELSE get_session_node, get_session_node) = 0

\* VALUE_OUTPUT_BUFFER_SIZE
Limit == MaxBytes * IovMax

Threads == 1 .. MaxInsert

NoThread == [at |-> "none", n |-> 0]

Live(t) == thread[t].at \notin {"none", "ended"}

Crash(why) == crashed' = TRUE /\ excuse' = excuse \cup {why}

Goto(t, at, n) == thread' = [thread EXCEPT ![t] = [at |-> at, n |-> n]]

Init ==
  /\ ring = [i \in 0 .. N |-> Zero]
  /\ cursor = 0
  /\ step = "copy"
  /\ written = 0
  /\ cfgSize = N + 1
  /\ phase = "none"
  /\ run = FALSE
  /\ pool = << >>
  /\ count = 0
  /\ pos = -1
  /\ locked = FALSE
  /\ rows = 0
  /\ sender = "idle"
  /\ thread = [t \in Threads |-> NoThread]
  /\ due = 0
  /\ owed = << >>
  /\ given = TRUE
  /\ excuse = {}
  /\ crashed = FALSE

------------------------------------------------------------------------------
(* The circular buffer's worker, and a reload of the configuration *)

WorkerCopies ==
  /\ written < MaxWrite
  /\ (\E t \in Threads \ {1} : thread[t].at # "none") => written < MaxShared
  /\ \E b \in 0 .. MaxBytes : Copy([id |-> written + 1, bytes |-> b])
  /\ written' = written + 1
  /\ UNCHANGED <<cfgSize, phase, run, poolVars, pos, locked, sender, rows, thread, due, excuse, crashed>>

WorkerAdvances ==
  /\ Advance \/ Wrap
  /\ UNCHANGED <<written, cfgSize, phase, run, poolVars, pos, locked, sender, rows, thread, due, excuse, crashed>>

Reload ==
  /\ cfgSize = N + 1
  /\ cfgSize' \in CfgSizes
  /\ UNCHANGED <<ringVars, written, phase, run, poolVars, pos, locked, sender, rows, thread, due, excuse, crashed>>

------------------------------------------------------------------------------
(* The calls of the circular buffer a session makes *)

\* Mutant of is_behind_cursor: the node under the cursor is taken for behind.
is_behind_cursor_always(cur) == cur <= cursor => cursor - cur < cfgSize

\* Mutant of is_behind_cursor: only nodes below the cursor are behind it.
is_behind_cursor_unwrapped(cur) == cur < cursor /\ cursor - cur < cfgSize

\* Behind is every node but the cursor's; the distance is compared with the
\* size configured now, not with the ring's.
is_behind_cursor(cur) == cur # cursor /\ (cur < cursor => cursor - cur < cfgSize)

\* Mutant of iterate: the LAST node is visited.
iterate_to_last(i) == IF i = N THEN 0 ELSE i + 1

\* The slot after i, of those in use.
iterate(i) == IF i + 1 = N THEN 0 ELSE i + 1

------------------------------------------------------------------------------
(* insert_session and delete_session *)

\* The table's place is set up whatever was there, a thread is started and the
\* scheduler gets a row for the session, be it the second.  A thread that could
\* not be started is one that has ended, and the session gets no row.
insert_session(t) ==
  /\ phase \in {"none", "up"} /\ thread[t].at = "none"
  /\ \A u \in 1 .. t - 1 : thread[u].at # "none"
  /\ t > 1 => written <= MaxShared
  /\ phase' = "up"
  /\ run' = TRUE
  /\ pool' = [i \in 1 .. PoolSize |-> Zero]
  /\ count' = 0
  /\ pos' = cursor
  /\ locked' = FALSE
  /\ due' = IF step = "advance" THEN written ELSE written + 1
  /\ \/ Goto(t, "top", 0) /\ rows' = rows + 1
     \/ Goto(t, "ended", 0) /\ UNCHANGED rows
  /\ owed' = << >>
  /\ excuse' = excuse \cup (IF \E u \in Threads : Live(u) THEN {"shared"} ELSE {})
                      \cup (IF sender = "sent" THEN {"raced"} ELSE {})
                      \cup (IF cursor = N THEN {"slipped"} ELSE {})
  /\ UNCHANGED <<ringVars, written, cfgSize, sender, given, crashed>>

\* sm_delete_session takes one row of the session out of the scheduler;
\* delete_session stops the thread and sleeps, with the mutex.
delete_session ==
  /\ phase = "up" /\ ~ locked
  /\ phase' = "closing"
  /\ run' = FALSE
  /\ locked' = TRUE
  /\ rows' = IF rows = 0 THEN 0 ELSE rows - 1
  /\ UNCHANGED <<ringVars, written, cfgSize, poolVars, pos, sender, thread, due, excuse, crashed>>

\* A thread that cannot go on by itself: it waits for the cursor or for the
\* mutex.
Stuck(t) ==
  \/ ~ Live(t)
  \/ thread[t].at = "wait" /\ (pos = -1 \/ ~ is_behind_cursor(pos))
  \/ thread[t].at = "lock"
  \/ thread[t].at = "top" /\ count + 1 > Len(pool)

\* The pool is freed and the session zeroed, under the threads that are left.
Freed ==
  /\ pool' = << >>
  /\ count' = 0
  /\ pos' = -1
  /\ run' = FALSE
  /\ locked' = FALSE
  /\ owed' = << >>
  /\ excuse' = IF \E t \in Threads : Live(t) THEN excuse \cup {"shared"} ELSE excuse

\* After a second, in which the threads that can go on have ended.
DeleteFrees ==
  /\ phase = "closing" /\ \A t \in Threads : Stuck(t)
  /\ phase' = "none"
  /\ Freed
  /\ UNCHANGED <<ringVars, written, cfgSize, sender, rows, thread, due, given, crashed>>

\* stop_session_connection, for which the scheduler has to be stopped, neither
\* locks nor sleeps.  (Its caller delete_session_connection_manager has none.)
stop_session_connection ==
  /\ phase = "up" /\ sender = "idle"
  /\ phase' = "stopped"
  /\ rows' = 0
  /\ Freed
  /\ UNCHANGED <<ringVars, written, cfgSize, sender, thread, due, given, crashed>>

------------------------------------------------------------------------------
(* The dispatcher and the scheduler's send *)

\* The connection a session is linked to, by its protocol: a zeroed session
\* has none.
get_session_pointer == IF pos = -1 THEN "null" ELSE LinkProto

\* What a send takes from the pool is dropped whether it was sent or not, so
\* that what the dispatcher gets has to be what is owed.  Of that it may lose
\* nodes only when the connection has no protocol, or when the nodes are small
\* and more than one writev takes.
Dispatch(nodes) ==
  IF excuse = {} /\ given
  THEN /\ given' = (/\ IsPrefix(nodes, owed)
                    /\ \/ dispatcher(get_session_pointer, nodes, IovMax) = nodes
                       \/ get_session_pointer \notin {"udp", "tcp"}
                       \/ \E i \in DOMAIN nodes : nodes[i].bytes < MaxBytes)
       /\ owed' = IF IsPrefix(nodes, owed) THEN SubSeq(owed, Len(nodes) + 1, Len(owed)) ELSE << >>
  ELSE owed' = << >> /\ UNCHANGED given

\* Some thread is between its append and the end of its send.
Busy == \E t \in Threads : thread[t].at \in {"count", "size", "tally", "send", "test", "lock"}

\* sched_trigger_snd, under the mutex: the pool is sent, also that of a session
\* deleted once when it has another row ...
TriggerSends ==
  /\ rows > 0 /\ ~ locked /\ sender = "idle"
  /\ Dispatch(SubSeq(pool, 1, count))
  /\ locked' = TRUE
  /\ sender' = "sent"
  /\ excuse' = IF Busy THEN excuse \cup {"raced"} ELSE excuse
  /\ UNCHANGED <<ringVars, written, cfgSize, rows, phase, run, pool, count, pos, thread, due, crashed>>

\* ... and then emptied.
TriggerEmpties ==
  /\ sender = "sent"
  /\ count' = 0
  /\ pool' = [i \in DOMAIN pool |-> Zero]
  /\ locked' = FALSE
  /\ sender' = "idle"
  /\ excuse' = IF Busy THEN excuse \cup {"raced"} ELSE excuse
  /\ UNCHANGED <<ringVars, written, cfgSize, rows, phase, run, pos, thread, due, owed, given, crashed>>

\* The session is freed, or its mutex destroyed, under a send or before one.
TriggerCrashes ==
  /\ phase \in {"none", "stopped"} /\ (rows > 0 \/ sender = "sent")
  /\ Crash("shared")
  /\ UNCHANGED <<ringVars, written, cfgSize, phase, run, poolVars, pos, locked, rows, sender, thread, due>>

------------------------------------------------------------------------------
(* session_worker *)

\* The pool is doubled when the next node would not fit.
GrowPool(t) ==
  /\ thread[t].at = "top"
  /\ IF count + 1 > Len(pool)
     THEN ~ locked /\ pool' = pool \o [i \in 1 .. Len(pool) |-> Zero]
     ELSE UNCHANGED pool
  /\ Goto(t, "match", 0)
  /\ UNCHANGED <<ringVars, written, cfgSize, phase, run, count, pos, locked, sender, rows, due, owed, given, excuse, crashed>>

\* Without memory the thread ends and leaves a null pool, which the next send
\* clears.
GrowFails(t) ==
  /\ thread[t].at = "top" /\ count + 1 > Len(pool) /\ ~ locked
  /\ Crash("memory")
  /\ UNCHANGED <<ringVars, written, cfgSize, phase, run, poolVars, pos, locked, sender, rows, thread, due>>

\* process_session_node: a node of this session goes to the end of the pool,
\* without the mutex ...
TakeNode(t) ==
  /\ thread[t].at = "match" /\ pos \in 0 .. N
  /\ Matches(ring[pos]) /\ count < Len(pool)
  /\ pool' = [pool EXCEPT ![count + 1] = ring[pos]]
  /\ owed' = IF excuse = {} THEN Append(owed, ring[pos]) ELSE << >>
  /\ excuse' = IF sender = "sent" THEN excuse \cup {"raced"} ELSE excuse
  /\ Goto(t, "count", count)
  /\ UNCHANGED <<ringVars, written, cfgSize, phase, run, count, pos, locked, sender, rows, due, given, crashed>>

SkipNode(t) ==
  /\ thread[t].at = "match" /\ pos \in 0 .. N
  /\ ~ Matches(ring[pos])
  /\ Goto(t, "wait", 0)
  /\ UNCHANGED <<ringVars, written, cfgSize, phase, run, poolVars, pos, locked, sender, rows, due, excuse, crashed>>

\* The session was zeroed, or another thread of it used up the room.
TakeCrashes(t) ==
  /\ thread[t].at = "match"
  /\ pos = -1 \/ (pos \in 0 .. N /\ Matches(ring[pos]) /\ count >= Len(pool))
  /\ Crash("shared")
  /\ UNCHANGED <<ringVars, written, cfgSize, phase, run, poolVars, pos, locked, sender, rows, thread, due>>

\* ... and is counted; the count may have been loaded for the append.
CountNode(t) ==
  /\ thread[t].at = "count"
  /\ count' \in {thread[t].n + 1, count + 1}
  /\ crashed' = (count' > Len(pool))
  /\ Goto(t, "size", 0)
  /\ UNCHANGED <<ringVars, written, cfgSize, phase, run, pool, pos, locked, sender, rows, due, owed, given, excuse>>

\* Mutant of TestSize: the limit itself does not make the thread send.
TestSizeOver(t) ==
  /\ thread[t].at = "size"
  /\ Goto(t, IF get_session_size(pool, count, Limit + 1, 65536) > Limit THEN "tally" ELSE "wait", 0)
  /\ UNCHANGED <<ringVars, written, cfgSize, phase, run, poolVars, pos, locked, sender, rows, due, excuse, crashed>>

TestSize(t) ==
  /\ thread[t].at = "size"
  /\ Goto(t, IF get_session_size(pool, count, Limit, 65536) >= Limit THEN "tally" ELSE "wait", 0)
  /\ UNCHANGED <<ringVars, written, cfgSize, phase, run, poolVars, pos, locked, sender, rows, due, excuse, crashed>>

TallyNodes(t) ==
  /\ thread[t].at = "tally"
  /\ Goto(t, "send", SendCount(pool, count, Limit))
  /\ UNCHANGED <<ringVars, written, cfgSize, phase, run, poolVars, pos, locked, sender, rows, due, excuse, crashed>>

\* snd_cb, without the mutex; another thread may have left a smaller pool.
SendNodes(t) ==
  /\ thread[t].at = "send"
  /\ IF thread[t].n <= Len(pool)
     THEN Dispatch(SubSeq(pool, 1, thread[t].n)) /\ UNCHANGED <<crashed, excuse>>
     ELSE Crash("shared") /\ UNCHANGED <<owed, given>>
  /\ Goto(t, "test", thread[t].n)
  /\ UNCHANGED <<ringVars, written, cfgSize, phase, run, pool, count, pos, locked, sender, rows, due>>

\* The count is tested before the mutex is taken ...
TestCount(t) ==
  /\ thread[t].at = "test"
  /\ IF thread[t].n <= count
     THEN Goto(t, "lock", thread[t].n) /\ UNCHANGED count
     ELSE Goto(t, "wait", 0) /\ count' = 0
  /\ UNCHANGED <<ringVars, written, cfgSize, phase, run, pool, pos, locked, sender, rows, due, owed, given, excuse, crashed>>

\* Mutant of DropSent: what was sent stays at the front.
DropSentInPlace(t) ==
  /\ thread[t].at = "lock" /\ ~ locked
  /\ thread[t].n <= count
  /\ Goto(t, "wait", 0)
  /\ UNCHANGED <<ringVars, written, cfgSize, phase, run, pool, count, pos, locked, sender, rows, due, owed, given, excuse, crashed>>

\* ... under which the nodes sent leave the pool ...
DropSent(t) ==
  /\ thread[t].at = "lock" /\ ~ locked
  /\ thread[t].n <= count
  /\ pool' = AfterSend(pool, count, thread[t].n)
  /\ count' = count - thread[t].n
  /\ Goto(t, "wait", 0)
  /\ UNCHANGED <<ringVars, written, cfgSize, phase, run, pos, locked, sender, rows, due, owed, given, excuse, crashed>>

\* ... but when there are no longer so many the unsigned count wraps, and the
\* copy runs over all memory.
DropSentWraps(t) ==
  /\ thread[t].at = "lock" /\ ~ locked
  /\ thread[t].n > count
  /\ Crash("raced")
  /\ UNCHANGED <<ringVars, written, cfgSize, phase, run, poolVars, pos, locked, sender, rows, thread, due>>

\* The thread waits until its slot is behind the cursor, and goes to the next.
Follow(t) ==
  /\ thread[t].at = "wait" /\ pos \in 0 .. N - 1
  /\ is_behind_cursor(pos)
  /\ cursor = N => due < written + MaxAhead
  /\ pos' = iterate(pos)
  /\ due' = due + 1
  /\ excuse' = IF cursor = N /\ due > written THEN excuse \cup {"slipped"} ELSE excuse
  /\ Goto(t, IF run THEN "top" ELSE "ended", 0)
  /\ UNCHANGED <<ringVars, written, cfgSize, phase, run, poolVars, locked, sender, rows, crashed>>

\* After the LAST node comes the list's head, which is no node.
FollowCrashes(t) ==
  /\ thread[t].at = "wait" /\ pos = N
  /\ is_behind_cursor(pos)
  /\ Crash("slipped")
  /\ UNCHANGED <<ringVars, written, cfgSize, phase, run, poolVars, pos, locked, sender, rows, thread, due>>

\* The session was zeroed under the thread: is_behind_cursor of a null pointer
\* returns no value, and when that reads as true the thread ends.
FollowNull(t) ==
  /\ thread[t].at = "wait" /\ pos = -1
  /\ Goto(t, "ended", 0)
  /\ UNCHANGED <<ringVars, written, cfgSize, phase, run, poolVars, pos, locked, sender, rows, due, excuse, crashed>>

\* What a thread does next, when it has memory and its session.
WorkerStep(t) ==
  \/ GrowPool(t)
  \/ TakeNode(t)
  \/ SkipNode(t)
  \/ TakeCrashes(t)
  \/ CountNode(t)
  \/ TestSize(t)
  \/ TallyNodes(t)
  \/ SendNodes(t)
  \/ TestCount(t)
  \/ DropSent(t)
  \/ DropSentWraps(t)
  \/ Follow(t)
  \/ FollowCrashes(t)

session_worker(t) == WorkerStep(t) \/ GrowFails(t) \/ FollowNull(t)

Worker == WorkerCopies \/ WorkerAdvances

Trigger == TriggerSends \/ TriggerEmpties \/ TriggerCrashes

Next ==
  /\ ~ crashed
  /\ \/ Worker
     \/ Reload
     \/ \E t \in Threads : insert_session(t) \/ session_worker(t)
     \/ delete_session
     \/ DeleteFrees
     \/ stop_session_connection
     \/ Trigger

Spec == Init /\ [][Next]_vars

\* The worker, each thread and the scheduler's sender are threads the kernel
\* schedules.  A mutex goes to any that asks for it: a thread that waits for the
\* one the sender takes again and again may wait for ever.  Nothing makes the
\* sender come back to a session, a null pointer's is_behind_cursor owes nobody
\* an answer and memory may always be had: TriggerSends, FollowNull and
\* GrowFails are not fair.
FairSpec ==
  /\ Spec
  /\ WF_vars(~ crashed /\ WorkerAdvances)
  /\ \A t \in Threads : WF_vars(~ crashed /\ WorkerStep(t))
  /\ WF_vars(~ crashed /\ (TriggerEmpties \/ DeleteFrees))

------------------------------------------------------------------------------
(* Properties *)

TypeOK ==
  /\ ring \in [0 .. N -> Node] /\ cursor \in 0 .. N /\ step \in {"copy", "advance", "wrap"}
  /\ written \in 0 .. MaxWrite
  /\ phase \in {"none", "up", "closing", "stopped"}
  /\ rows \in Nat
  /\ run \in BOOLEAN /\ locked \in BOOLEAN /\ sender \in {"idle", "sent"}
  /\ pool \in Seq(Node) /\ (crashed \/ count \in 0 .. Len(pool))
  /\ pos \in -1 .. N /\ (pos = N => "slipped" \in excuse)
  /\ thread \in [Threads -> [at : {"none", "top", "match", "count", "size", "tally", "send",
                                   "test", "lock", "wait", "ended"}, n : Nat]]
  /\ excuse \subseteq {"raced", "shared", "slipped", "memory"}

\* The thread and the worker stay in step through every wrap of the ring:
\* unless the thread looked at the cursor on the LAST node, it never passes
\* the cursor, and while the worker is less than a round ahead, the slot it is
\* at holds the node of this lap or, as long as that one is not copied, of the
\* lap before.
LapInStep ==
  phase = "up" /\ ~ crashed /\ excuse \cap {"slipped", "shared"} = {} =>
    /\ due <= written + 1
    /\ written < due + N => ring[pos].id = IF due <= written THEN due
                                           ELSE IF due > N THEN due - N ELSE 0

\* Without a send of the scheduler between its append and the end of its own
\* send, one thread keeps its pool a queue: the dispatcher gets every node
\* appended, once and in order, all of a send of full nodes goes out where the
\* connection has a protocol, and nothing is written out of bounds.
PoolIsQueue ==
  excuse = {} =>
    /\ ~ crashed /\ given
    /\ phase = "up" /\ sender = "idle" /\ ~ Busy => owed = SubSeq(pool, 1, count)

\* A session that has a thread and is not at the cursor gets there, unless the
\* configured size is made smaller than the ring or the scheduler's sends never
\* cease to take the mutex.
ReachesCursor ==
  \/ []<>(sender = "sent")
  \/ (phase = "up" /\ pos # cursor /\ \E t \in Threads : Live(t)) ~>
       (pos = cursor \/ phase # "up" \/ crashed \/ cfgSize <= N)

\* What the comment in is_behind_cursor says: the node under the cursor is not
\* safe to read.
ReadsBehindCursor ==
  [][\A t \in Threads : TakeNode(t) => is_behind_cursor(pos)]_vars

\* The slot of the next copy, and how many copies filled the rounds before its
\* own.
Slot == IF step = "copy" THEN cursor ELSE IF cursor + 1 < N THEN cursor + 1 ELSE 0

Rounds == written - Slot

\* A slot holds its copy of this round or, if that is still to come, of the one
\* before.
RingInLap ==
  /\ step = "wrap" <=> cursor = N
  /\ step # "copy" => written > 0
  /\ Rounds = 0 \/ Rounds >= N
  /\ \A i \in 0 .. N - 1 : ring[i].id = IF i < Slot THEN Rounds + i + 1
                                       ELSE IF Rounds = 0 THEN 0 ELSE Rounds - N + i + 1

\* The thread's slot is that of the copy it is due to get, some whole rounds
\* behind, and it does not pass the slot the worker is at.
ThreadInLap ==
  pos \in 0 .. N - 1 /\ "slipped" \notin excuse =>
    /\ due \in Nat \ {0} /\ due <= written + 1
    /\ step = "advance" => due <= written
    /\ \E k \in Nat : Rounds + pos + 1 = due + k * N

\* A session that was inserted has a slot, and without the race on its place
\* one thread.
OneThread ==
  /\ phase \in {"up", "closing"} => pos # -1
  /\ "shared" \notin excuse =>
       /\ \A t, u \in Threads : Live(t) /\ Live(u) => t = u
       /\ phase \in {"none", "stopped"} => \A t \in Threads : ~ Live(t)

\* Where a thread is between its append and the end of its send, the dispatcher
\* is owed the pool, the node just appended included, until it is sent: then
\* the whole pool goes.
Handing(t) ==
  /\ thread[t].at = "count" =>
       /\ thread[t].n = count /\ count < Len(pool)
       /\ owed = SubSeq(pool, 1, count + 1) /\ Bytes(pool, count) < Limit
  /\ thread[t].at \in {"size", "tally", "send"} =>
       /\ thread[t].at = "send" => thread[t].n = count
       /\ count > 0 /\ owed = SubSeq(pool, 1, count) /\ Bytes(pool, count - 1) < Limit
  /\ thread[t].at \in {"test", "lock"} => thread[t].n = count /\ owed = << >>

\* Without a race the pool is less than one send, and what is owed.
PoolKept ==
  excuse = {} =>
    /\ ~ crashed /\ given
    /\ sender = "sent" => ~ Busy /\ owed = << >>
    /\ ~ Busy => /\ Bytes(pool, count) < Limit
                 /\ sender = "idle" => owed = SubSeq(pool, 1, count)
    /\ \A t \in Threads : Handing(t)

\* What holds whatever the races, and with it what holds without them.
LapInv == TypeOK /\ RingInLap /\ ThreadInLap /\ OneThread

IInv == LapInv /\ PoolKept

=============================================================================
