------------------------------- MODULE Server -------------------------------
(***************************************************************************)
(* The program's life: main's foreground loop and its signal handler       *)
(* (main.c), daemon mode (dmmr_daemon.c) and the server that starts the    *)
(* components in order, takes them back when one fails, polls the          *)
(* configuration file and stops them (dmmr_server.c).                      *)
(*                                                                         *)
(* A component is present from its constructor to its free.  Its threads   *)
(* run from its start until they have seen the flag that its stop clears,  *)
(* which may be after the sleeps that follow and so after the free; the    *)
(* socket threads and the sessions' threads run to the end of the process. *)
(* Each call of the server is one step, so that a signal, or the step of a *)
(* thread, may come between any two; what the components do inside is in   *)
(* the modules of their own.                                               *)
(***************************************************************************)
EXTENDS ConfigParser, Sequences

CONSTANTS
  EditsWhile,  \* where main is when the file may change
  MayVanish,   \* whether the file may be taken away
  MayReturn,   \* whether it may get a content back that it had before
  MaxEdits,    \* bound on the changes of the file
  Modes        \* the values of option -d: "foreground", "daemon"

ASSUME ServerAssumption ==
  /\ MayVanish \in BOOLEAN /\ MayReturn \in BOOLEAN
  /\ MaxEdits \in Nat
  /\ Modes \subseteq {"foreground", "daemon"}

VARIABLES
  mode,
  main,       \* where the main thread is
  run,        \* main's volatile run
  signalled,  \* history: SIGINT or SIGTERM arrived
  step,       \* place in StartOrder or StopOrder
  parts,      \* the components present
  threads,    \* the threads running, by the component that started them
  halted,     \* the components whose threads have been told to end
  edits       \* history: the contents the file had before

server == <<mode, main, run, signalled, step, parts, threads, halted, edits>>
vars == <<config, server>>

\* server_start; "load" is parser->load.
StartOrder == <<"parser", "load", "log", "circle", "sock", "sched", "sessions", "plugin">>

\* Mutant of StopOrder: the socket goes before the scheduler that sends
\* through it.
StopOrderSockFirst == <<"plugin", "sessions", "sock", "sched", "circle", "parser", "log">>

\* server_stop, and its first six the rollback of server_start.
StopOrder == <<"plugin", "sessions", "sched", "sock", "circle", "parser", "log">>

\* Components whose start spawns threads; the plugin's load opens the sockets,
\* whose callbacks start the sessions' threads later.
Starts(p) == CASE p = "log"    -> {"log"}
               [] p = "circle" -> {"circle"}
               [] p = "sched"  -> {"sched"}
               [] p = "plugin" -> {"sockets"}
               [] OTHER        -> {}

\* The components whose memory a thread reads: the sender calls the socket's
\* dispatcher, the sockets' callbacks the session manager and the fifo, and a
\* session follows the ring.
Uses(t) == CASE t = "sched"    -> {"sched", "sock"}
             [] t = "sockets"  -> {"sessions", "sock", "circle"}
             [] t = "sessions" -> {"circle"}
             [] OTHER          -> {t}

\* Components with a stop that tells their threads to end.
Stoppable == {"sched", "circle", "log"}

Init ==
  /\ InitConfig
  /\ mode \in Modes
  /\ main = "begin"
  /\ run = FALSE
  /\ signalled = FALSE
  /\ step = 1
  /\ parts = {}
  /\ threads = {}
  /\ halted = {}
  /\ edits = << >>

Over == main \in {"exit", "crashed"}

------------------------------------------------------------------------------
(* The environment *)

\* Before run_foreground has set its handlers, and in a daemon, which sets
\* none, the signal ends the process; then it only clears the flag.
Signal ==
  /\ ~ Over /\ ~ signalled
  /\ signalled' = TRUE
  /\ IF main = "begin" \/ mode = "daemon"
     THEN main' = "exit" /\ UNCHANGED run
     ELSE run' = FALSE /\ UNCHANGED main
  /\ UNCHANGED <<config, mode, step, parts, threads, halted, edits>>

ChangeFile ==
  /\ main \in EditsWhile /\ Len(edits) < MaxEdits
  /\ \E f \in (Contents \cup IF MayVanish THEN {Absent} ELSE {}) \ {file} :
        /\ MayReturn \/ \A i \in DOMAIN edits : edits[i] # f
        /\ Edit(f)
  /\ edits' = Append(edits, file)
  /\ UNCHANGED <<mode, main, run, signalled, step, parts, threads, halted>>

------------------------------------------------------------------------------
(* main *)

\* run_foreground sets the handlers and creates the server; main returns when
\* one of these fails, or an option is wrong.
Begin ==
  /\ main = "begin" /\ mode = "foreground"
  /\ main' \in {"start", "exit"}
  /\ UNCHANGED <<config, mode, run, signalled, step, parts, threads, halted, edits>>

\* daemon_start creates the server and does not start it; when it fails it
\* returns 0 all the same, and daemon_run finds no server.
BeginDaemon ==
  /\ main = "begin" /\ mode = "daemon"
  /\ main' \in {"poll", "exit"}
  /\ UNCHANGED <<config, mode, run, signalled, step, parts, threads, halted, edits>>

\* server_start, one component after the other; a thread that cannot be
\* spawned goes unnoticed ...
StartPart ==
  /\ main = "start" /\ reader = "idle" /\ step <= Len(StartOrder)
  /\ StartOrder[step] # "load"
  /\ parts' = parts \cup {StartOrder[step]}
  /\ \E spawned \in SUBSET Starts(StartOrder[step]) : threads' = threads \cup spawned
  /\ step' = step + 1
  /\ UNCHANGED <<config, mode, main, run, signalled, halted, edits>>

StartLoads ==
  /\ main = "start" /\ reader = "idle" /\ step <= Len(StartOrder)
  /\ StartOrder[step] = "load"
  /\ LoadParse
  /\ UNCHANGED server

StartLoaded ==
  /\ main = "start"
  /\ LoadCrc
  /\ step' = step + 1
  /\ UNCHANGED <<mode, main, run, signalled, parts, threads, halted, edits>>

\* ... until one fails.  rb_log_init cannot, and circle_buffer->start says so
\* of itself.
StartFails ==
  /\ main = "start" /\ reader = "idle" /\ step <= Len(StartOrder)
  /\ \/ StartOrder[step] = "load" /\ LoadFails
     \/ StartOrder[step] \notin {"load", "log"} /\ UNCHANGED config
  /\ main' = "rollback"
  /\ step' = 1
  /\ UNCHANGED <<mode, run, signalled, parts, threads, halted, edits>>

\* The component's stop clears the flag of its threads ...
Halt ==
  /\ main \in {"rollback", "stop"}
  /\ StopOrder[step] \in (parts \cap Stoppable) \ halted
  /\ halted' = halted \cup {StopOrder[step]}
  /\ UNCHANGED <<config, mode, main, run, signalled, step, parts, threads, edits>>

\* ... and it is freed: the log once its thread is joined, the scheduler and
\* the circular buffer after sleeps of a second, whether or not their threads
\* have ended.
TakeBack(p) ==
  /\ p \in parts \cap Stoppable => p \in halted
  /\ p = "log" => p \notin threads
  /\ parts' = parts \ {p}

\* Mutant of RollBack: the components after the scheduler are kept.
RollBackInPart ==
  /\ main = "rollback"
  /\ TakeBack(StopOrder[step])
  /\ IF StopOrder[step] = "sched" THEN main' = "started" /\ step' = 1
     ELSE main' = main /\ step' = step + 1
  /\ UNCHANGED <<config, mode, run, signalled, threads, halted, edits>>

\* The rollback leaves the log; start returns EOF.
RollBack ==
  /\ main = "rollback"
  /\ TakeBack(StopOrder[step])
  /\ IF StopOrder[step] = "parser" THEN main' = "started" /\ step' = 1
     ELSE main' = main /\ step' = step + 1
  /\ UNCHANGED <<config, mode, run, signalled, threads, halted, edits>>

StartDone ==
  /\ main = "start" /\ step > Len(StartOrder)
  /\ main' = "started"
  /\ step' = 1
  /\ UNCHANGED <<config, mode, run, signalled, parts, threads, halted, edits>>

\* main does not look at what start returned, and sets its flag.
EnterLoop ==
  /\ main = "started"
  /\ run' = TRUE
  /\ main' = "poll"
  /\ UNCHANGED <<config, mode, signalled, step, parts, threads, halted, edits>>

\* server_run: a second's sleep and parser->run().
Poll ==
  /\ main = "poll" /\ "parser" \in parts
  /\ ReloadCrc
  /\ main' = IF reader' = "parse" THEN "reload" ELSE "test"
  /\ UNCHANGED <<mode, run, signalled, step, parts, threads, halted, edits>>

PollWithoutParser ==
  /\ main = "poll" /\ "parser" \notin parts
  /\ main' = "crashed"
  /\ UNCHANGED <<config, mode, run, signalled, step, parts, threads, halted, edits>>

Reload ==
  /\ main = "reload"
  /\ ReloadParse
  /\ main' = "test"
  /\ UNCHANGED <<mode, run, signalled, step, parts, threads, halted, edits>>

\* Mutant of TestRun: the loop has no end.
TestRunForever ==
  /\ main = "test"
  /\ main' = "poll"
  /\ UNCHANGED <<config, mode, run, signalled, step, parts, threads, halted, edits>>

TestRun ==
  /\ main = "test"
  /\ main' = IF run THEN "poll" ELSE "stop"
  /\ UNCHANGED <<config, mode, run, signalled, step, parts, threads, halted, edits>>

\* Mutant of StopPart: one component too many.
StopPartPastLast ==
  /\ main = "stop"
  /\ TakeBack(StopOrder[step])
  /\ IF step > Len(StopOrder) THEN main' = "exit" /\ step' = 1
     ELSE main' = main /\ step' = step + 1
  /\ UNCHANGED <<config, mode, run, signalled, threads, halted, edits>>

\* server_stop; then main flushes the log and returns.
StopPart ==
  /\ main = "stop"
  /\ TakeBack(StopOrder[step])
  /\ IF step = Len(StopOrder) THEN main' = "exit" /\ step' = 1
     ELSE main' = main /\ step' = step + 1
  /\ UNCHANGED <<config, mode, run, signalled, threads, halted, edits>>

MainThread ==
  \/ Begin \/ BeginDaemon
  \/ StartPart \/ StartLoads \/ StartLoaded \/ StartFails \/ RollBack \/ StartDone
  \/ EnterLoop \/ Poll \/ PollWithoutParser \/ Reload \/ TestRun \/ Halt \/ StopPart

------------------------------------------------------------------------------
(* The threads of the components *)

\* The sockets' callbacks start the threads of sessions ...
SessionStarts ==
  /\ ~ Over /\ "sockets" \in threads /\ "sessions" \in parts
  /\ threads' = threads \cup {"sessions"}
  /\ UNCHANGED <<config, mode, main, run, signalled, step, parts, halted, edits>>

\* ... which end when their session is deleted or their pool cannot grow;
\* server_stop does not end them.
SessionEnds ==
  /\ ~ Over /\ "sessions" \in threads
  /\ threads' = threads \ {"sessions"}
  /\ UNCHANGED <<config, mode, main, run, signalled, step, parts, halted, edits>>

\* A thread has seen that its flag is cleared.
ThreadEnds(t) ==
  /\ ~ Over /\ t \in threads \cap halted
  /\ threads' = threads \ {t}
  /\ UNCHANGED <<config, mode, main, run, signalled, step, parts, halted, edits>>

\* A thread reads what has been freed.
UseFreed ==
  /\ ~ Over /\ \E t \in threads : ~ (Uses(t) \subseteq parts)
  /\ main' = "crashed" /\ step' = 1 /\ reader' = "idle"
  /\ UNCHANGED <<file, cfg, last_crc, mode, run, signalled, parts, threads, halted, edits>>

Threads == SessionStarts \/ SessionEnds \/ UseFreed \/ \E t \in Stoppable : ThreadEnds(t)

Next == Signal \/ ChangeFile \/ MainThread \/ Threads

Spec == Init /\ [][Next]_vars

\* The main thread is scheduled and its calls return, the join of the log's
\* thread because that thread is scheduled too (ShutdownReturns of module RbLog).
FairSpec == Spec /\ WF_vars(MainThread) /\ WF_vars(ThreadEnds("log"))

------------------------------------------------------------------------------
(* Properties *)

\* Every variable has its type.
TypeOK ==
  /\ file \in Contents \cup {Absent}
  /\ cfg \in [Settings -> Values \cup {NoValue}]
  /\ last_crc \in Contents \cup {NoCrc}
  /\ reader \in {"idle", "crc", "parse"}
  /\ mode \in Modes
  /\ main \in {"begin", "start", "rollback", "started", "poll", "reload", "test", "stop", "exit", "crashed"}
  /\ run \in BOOLEAN /\ signalled \in BOOLEAN
  /\ step \in 1 .. IF main = "start" THEN Len(StartOrder) + 1 ELSE Len(StopOrder)
  /\ parts \subseteq {StartOrder[i] : i \in DOMAIN StartOrder} \ {"load"}
  /\ threads \subseteq {"log", "circle", "sched", "sockets", "sessions"}
  /\ halted \subseteq Stoppable
  /\ Len(edits) <= MaxEdits /\ edits \in Seq(Contents \cup {Absent})

\* Threads are told to end before anything they use is freed, at a stop and at
\* a rollback from any failure: a worker or a sender left without its circular
\* buffer, scheduler or socket is one that has not looked at its flag for as
\* long as the sleeps are, and the log outlives its thread.  (The socket and
\* the session threads are told nothing, and do outlive what they use.)
ToldBeforeFreed ==
  \A t \in threads \cap Stoppable :
    Uses(t) \subseteq parts \/ (t \in halted /\ t # "log")

\* After server_start all components are there, or, after a failure of any one
\* of them, none but the log, and no thread but the log's and those that have
\* been told to end.
StartedOrRolledBack ==
  main = "started" =>
    \/ parts = {StopOrder[i] : i \in DOMAIN StopOrder}
    \/ parts \subseteq {"log"} /\ threads \subseteq {"log"} \cup halted

\* A file that is written while the server polls, and then left alone, is
\* applied, also when it changed between the checksum and the parse of the
\* content before (unless that content comes back: see MayReturn).
ConfigConverges ==
  \A f \in Contents :
    [](<>[](file = f /\ main \in {"poll", "reload", "test"}) => <>[]Applied(f))

\* A signal that arrives in the loop ends the program.
SignalEndsLoop == (main \in {"poll", "reload", "test"} /\ signalled /\ ~ run) ~> Over

\* What main's comment says of the loop: it runs until a signal has come.
RunsUntilSignal == signalled ~> Over

\* The parser reads where the main thread calls it, and the place in an order
\* is its first outside the three orders, and in the rollback never the log's.
ReaderAndStep ==
  /\ reader = "crc" => main = "start" /\ step = 2
  /\ reader = "parse" => main = "reload"
  /\ main \notin {"start", "rollback", "stop"} => step = 1
  /\ main = "rollback" => step <= 6

\* Until server_start is over the components are those whose turn has come ...
PartsSoFar ==
  main \in {"begin", "start"} =>
    \A p \in {StopOrder[i] : i \in DOMAIN StopOrder} :
      p \in parts <=> \E i \in 1 .. step - 1 : StartOrder[i] = p

\* ... and in the rollback and the stop those whose turn has not.
PartsLeft ==
  main \in {"rollback", "stop"} => \A i \in 1 .. step - 1 : StopOrder[i] \notin parts

\* The sockets are opened by the last component: nothing fails after it.
SocketsLast ==
  threads \cap {"sockets", "sessions"} # {} =>
    main # "rollback" /\ (main \in {"begin", "start"} => "plugin" \in parts)

\* A daemon starts nothing, so that its first poll is its last.
DaemonStartsNothing == mode = "daemon" => parts = {} /\ main \in {"begin", "poll", "exit", "crashed"}

\* The inductive invariant: the safety properties, and the progress of the
\* orders they are about.
IInv ==
  /\ TypeOK
  /\ ToldBeforeFreed
  /\ StartedOrRolledBack
  /\ ReaderAndStep
  /\ PartsSoFar
  /\ PartsLeft
  /\ SocketsLast
  /\ DaemonStartsNothing

=============================================================================
