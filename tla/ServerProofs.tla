---------------------------- MODULE ServerProofs ----------------------------
(***************************************************************************)
(* Proofs about module Server: for every configuration file, every mode    *)
(* and a signal at any step, the orders of server_start, of its rollback   *)
(* and of server_stop tell the threads to end before they free what those  *)
(* use.                                                                    *)
(***************************************************************************)
EXTENDS Server, TLAPS

Names == {"plugin", "sessions", "sched", "sock", "circle", "parser", "log"}

\* The two orders of dmmr_server.c, entry by entry.
LEMMA Orders ==
  /\ Len(StartOrder) = 8 /\ Len(StopOrder) = 7
  /\ StartOrder[1] = "parser" /\ StartOrder[2] = "load" /\ StartOrder[3] = "log"
  /\ StartOrder[4] = "circle" /\ StartOrder[5] = "sock" /\ StartOrder[6] = "sched"
  /\ StartOrder[7] = "sessions" /\ StartOrder[8] = "plugin"
  /\ StopOrder[1] = "plugin" /\ StopOrder[2] = "sessions" /\ StopOrder[3] = "sched"
  /\ StopOrder[4] = "sock" /\ StopOrder[5] = "circle" /\ StopOrder[6] = "parser"
  /\ StopOrder[7] = "log"
  /\ DOMAIN StartOrder = 1 .. 8 /\ DOMAIN StopOrder = 1 .. 7
  BY DEF StartOrder, StopOrder

\* The components server_stop takes back are those server_start brings, and
\* only loading the configuration brings none.
LEMMA SameParts ==
  /\ {StopOrder[i] : i \in DOMAIN StopOrder} = Names
  /\ {StartOrder[i] : i \in DOMAIN StartOrder} \ {"load"} = Names
<1>1. 1 .. 8 = {1, 2, 3, 4, 5, 6, 7, 8} /\ 1 .. 7 = {1, 2, 3, 4, 5, 6, 7}
  OBVIOUS
<1>2. {StopOrder[i] : i \in {1, 2, 3, 4, 5, 6, 7}} = Names
  BY Orders DEF Names
<1>3. {StartOrder[i] : i \in {1, 2, 3, 4, 5, 6, 7, 8}} \ {"load"} = Names
  BY Orders DEF Names
<1> QED
  BY <1>1, <1>2, <1>3, Orders

\* The inductive invariant with the orders' lengths and names put in.
Explicit ==
  /\ file \in Contents \cup {Absent}
  /\ cfg \in [Settings -> Values \cup {NoValue}]
  /\ last_crc \in Contents \cup {NoCrc}
  /\ reader \in {"idle", "crc", "parse"}
  /\ mode \in Modes
  /\ main \in {"begin", "start", "rollback", "started", "poll", "reload", "test", "stop", "exit", "crashed"}
  /\ run \in BOOLEAN /\ signalled \in BOOLEAN
  /\ step \in 1 .. IF main = "start" THEN 9 ELSE 7
  /\ parts \subseteq Names
  /\ threads \subseteq {"log", "circle", "sched", "sockets", "sessions"}
  /\ halted \subseteq Stoppable
  /\ Len(edits) <= MaxEdits /\ edits \in Seq(Contents \cup {Absent})
  /\ ToldBeforeFreed
  /\ main = "started" => parts = Names \/ (parts \subseteq {"log"} /\ threads \subseteq {"log"} \cup halted)
  /\ ReaderAndStep
  /\ main \in {"begin", "start"} => \A p \in Names : p \in parts <=> \E i \in 1 .. step - 1 : StartOrder[i] = p
  /\ PartsLeft
  /\ SocketsLast
  /\ DaemonStartsNothing

\* The invariant is its explicit form.
LEMMA Unfolded == (IInv <=> Explicit) /\ (IInv' <=> Explicit')
<1>1. 8 + 1 = 9 /\ Len(StartOrder) = 8 /\ Len(StopOrder) = 7
  BY Orders
<1>2. IInv <=> Explicit
  BY <1>1, SameParts DEF IInv, TypeOK, StartedOrRolledBack, PartsSoFar, Explicit
<1>3. IInv' <=> Explicit'
  BY <1>1, SameParts DEF IInv, TypeOK, StartedOrRolledBack, PartsSoFar, Explicit
<1> QED
  BY <1>2, <1>3

\* The program begins in the invariant.
LEMMA InitInv == Init => IInv
<1> SUFFICES ASSUME Init PROVE Explicit
  BY Unfolded
<1>1. /\ file \in Contents \cup {Absent} /\ cfg \in [Settings -> Values \cup {NoValue}]
      /\ last_crc \in Contents \cup {NoCrc} /\ reader = "idle"
  BY DEF Init, InitConfig
<1>2. Len(edits) <= MaxEdits /\ edits \in Seq(Contents \cup {Absent})
  BY ServerAssumption DEF Init
<1>3. /\ mode \in Modes /\ step = 1 /\ main = "begin" /\ run = FALSE /\ signalled = FALSE
      /\ parts = {} /\ threads = {} /\ halted = {}
  BY DEF Init
<1>4. ~ \E i \in 1 .. step - 1 : TRUE
  BY <1>3
<1>5. ToldBeforeFreed /\ ReaderAndStep /\ PartsLeft /\ SocketsLast /\ DaemonStartsNothing
  BY <1>1, <1>3 DEF ToldBeforeFreed, ReaderAndStep, PartsLeft, SocketsLast, DaemonStartsNothing
<1>6. \A p \in Names : p \in parts <=> \E i \in 1 .. step - 1 : StartOrder[i] = p
  BY <1>3, <1>4
<1>7. step \in 1 .. IF main = "start" THEN 9 ELSE 7
  BY <1>3
<1> QED
  BY <1>1, <1>2, <1>3, <1>5, <1>6, <1>7 DEF Explicit

\* A step that takes the main thread from one place to another, and leaves the
\* components and their threads alone.
LEMMA FrameInv ==
  ASSUME IInv, UNCHANGED <<mode, parts, threads, halted, edits>>,
         file' = file, cfg' \in [Settings -> Values \cup {NoValue}],
         last_crc' \in Contents \cup {NoCrc},
         run' \in BOOLEAN, signalled' \in BOOLEAN,
         reader' \in {"idle", "crc", "parse"},
         main' \in {"begin", "start", "rollback", "started", "poll", "reload", "test", "stop", "exit", "crashed"},
         step' \in 1 .. IF main' = "start" THEN 9 ELSE 7,
         ReaderAndStep',
         main' = "started" => parts = Names \/ (parts \subseteq {"log"} /\ threads \subseteq {"log"} \cup halted),
         main' \in {"begin", "start"} =>
            \A p \in Names : p \in parts <=> \E i \in 1 .. step' - 1 : StartOrder[i] = p,
         main' \in {"rollback", "stop"} => step' = 1,
         threads \cap {"sockets", "sessions"} # {} =>
            main' # "rollback" /\ (main' \in {"begin", "start"} => "plugin" \in parts),
         mode = "daemon" => main' \in {"begin", "poll", "exit", "crashed"}
  PROVE  IInv'
<1>1. ToldBeforeFreed'
  BY Unfolded DEF Explicit, ToldBeforeFreed
<1>2. PartsLeft'
  <2> SUFFICES ASSUME main' \in {"rollback", "stop"}, NEW i \in 1 .. step' - 1 PROVE FALSE
    BY DEF PartsLeft
  <2>1. step' = 1
    OBVIOUS
  <2> QED
    BY <2>1
<1>3. SocketsLast'
  BY DEF SocketsLast
<1>4. DaemonStartsNothing'
  BY Unfolded DEF DaemonStartsNothing, Explicit
<1> QED
  BY <1>1, <1>2, <1>3, <1>4, Unfolded DEF Explicit

\* Parsing a content leaves a configuration.
LEMMA ParsedType ==
  ASSUME NEW old \in [Settings -> Values \cup {NoValue}], NEW f \in Contents
  PROVE  Parsed(old, f) \in [Settings -> Values \cup {NoValue}]
<1>1. f \in [Settings -> Values \cup {NoValue}]
  BY ConfigAssumption
<1> QED
  BY <1>1 DEF Parsed

\* The environment: a signal, and a change of the configuration file.
LEMMA SignalInv == IInv /\ Signal => IInv'
<1> SUFFICES ASSUME IInv, Signal PROVE IInv'
  OBVIOUS
<1>1. Explicit
  BY Unfolded
<1>2. /\ UNCHANGED <<mode, parts, threads, halted, edits, file, cfg, last_crc, reader, step>>
      /\ signalled' = TRUE /\ run' \in BOOLEAN
  BY <1>1 DEF Signal, config, Explicit
<1>3. main' = main \/ main' = "exit"
  BY DEF Signal
<1>4. main' = main \/ main \in {"begin", "poll", "exit", "crashed"}
  BY <1>1 DEF Signal, Explicit, DaemonStartsNothing
<1>5. CASE main' = main
  <2>1. ToldBeforeFreed' /\ ReaderAndStep' /\ PartsLeft' /\ SocketsLast' /\ DaemonStartsNothing'
    BY <1>1, <1>2, <1>5
    DEF Explicit, ToldBeforeFreed, ReaderAndStep, PartsLeft, SocketsLast, DaemonStartsNothing
  <2> QED
    BY <1>1, <1>2, <1>5, <2>1, Unfolded DEF Explicit
<1>6. CASE main' = "exit" /\ main \in {"begin", "poll", "exit", "crashed"}
  <2>1. step = 1 /\ reader = "idle" /\ step \in 1 .. 7
    BY <1>1, <1>6 DEF Explicit, ReaderAndStep
  <2>2. ReaderAndStep'
    BY <1>2, <1>6, <2>1 DEF ReaderAndStep
  <2> QED
    BY <1>1, <1>2, <1>6, <2>1, <2>2, FrameInv DEF Explicit
<1> QED
  BY <1>3, <1>4, <1>5, <1>6

\* A file that changes under the reader changes no type.
LEMMA ChangeFileInv == IInv /\ ChangeFile => IInv'
<1> SUFFICES ASSUME IInv, ChangeFile PROVE Explicit'
  BY Unfolded
<1>1. Explicit
  BY Unfolded
<1>2. file' \in Contents \cup {Absent}
  BY <1>1 DEF ChangeFile, Edit
<1>3. Len(edits') <= MaxEdits /\ edits' \in Seq(Contents \cup {Absent})
  BY <1>1, ServerAssumption DEF ChangeFile, Explicit
<1>4. UNCHANGED <<cfg, last_crc, reader, mode, main, run, signalled, step, parts, threads, halted>>
  BY DEF ChangeFile, Edit
<1>5. ToldBeforeFreed' /\ ReaderAndStep' /\ PartsLeft' /\ SocketsLast' /\ DaemonStartsNothing'
  BY <1>1, <1>4
  DEF Explicit, ToldBeforeFreed, ReaderAndStep, PartsLeft, SocketsLast, DaemonStartsNothing
<1> QED
  BY <1>1, <1>2, <1>3, <1>4, <1>5 DEF Explicit

\* What the components that have been started, and those left, are worth to
\* the threads: the socket and the scheduler come before the scheduler's
\* threads, and go after them.
LEMMA StartPartInv == IInv /\ StartPart => IInv'
<1> SUFFICES ASSUME IInv, StartPart PROVE Explicit'
  BY Unfolded
<1> DEFINE p == StartOrder[step]
<1>1. Explicit
  BY Unfolded
<1>2. /\ UNCHANGED <<file, cfg, last_crc, reader, mode, main, run, signalled, halted, edits>>
      /\ main = "start" /\ reader = "idle" /\ step \in 1 .. 8 /\ step' = step + 1
      /\ p # "load" /\ parts' = parts \cup {p}
  BY <1>1, Orders DEF StartPart, config, Explicit
<1>3. PICK spawned \in SUBSET Starts(p) : threads' = threads \cup spawned
  BY DEF StartPart
<1>4. p \in Names /\ (p = "sched" => step = 6)
  BY <1>2, Orders DEF Names
<1>5. /\ step' \in 1 .. 9
      /\ \A q \in Names : q \in parts <=> \E i \in 1 .. step - 1 : StartOrder[i] = q
  BY <1>1, <1>2 DEF Explicit
<1>6. \A q \in Names : q \in parts' <=> \E i \in 1 .. step' - 1 : StartOrder[i] = q
  <2>1. step \in 1 .. step' - 1 /\ \A i \in 1 .. step' - 1 : i = step \/ i \in 1 .. step - 1
    BY <1>2
  <2>2. \A i \in 1 .. step - 1 : i \in 1 .. step' - 1
    BY <1>2
  <2> HIDE DEF p
  <2>3. p = StartOrder[step]
    BY DEF p
  <2> QED
    BY <1>2, <1>5, <2>1, <2>2, <2>3
<1>7. /\ threads' \subseteq {"log", "circle", "sched", "sockets", "sessions"}
      /\ "circle" \in threads' => "circle" \in threads \/ p = "circle"
      /\ "sched" \in threads' => "sched" \in threads \/ p = "sched"
      /\ "log" \in threads' => "log" \in threads \/ p = "log"
      /\ "sockets" \in threads' => "sockets" \in threads \/ p = "plugin"
      /\ "sessions" \in threads' => "sessions" \in threads
  <2> HIDE DEF p
  <2>1. threads \subseteq {"log", "circle", "sched", "sockets", "sessions"}
    BY <1>1 DEF Explicit
  <2> QED
    BY <1>3, <2>1 DEF Starts
<1>8. p = "sched" => "sock" \in parts
  <2>1. 5 \in 1 .. 6 - 1 /\ StartOrder[5] = "sock" /\ "sock" \in Names
    BY Orders DEF Names
  <2> QED
    BY <1>4, <1>5, <2>1
<1>9. ToldBeforeFreed' /\ SocketsLast'
  <2> HIDE DEF p
  <2>1. ToldBeforeFreed /\ SocketsLast
    BY <1>1 DEF Explicit
  <2> QED
    BY <1>2, <1>7, <1>8, <2>1 DEF ToldBeforeFreed, SocketsLast, Uses, Stoppable
<1>10. ReaderAndStep' /\ PartsLeft' /\ DaemonStartsNothing'
  BY <1>1, <1>2 DEF Explicit, ReaderAndStep, PartsLeft, DaemonStartsNothing
<1>11. parts' \subseteq Names
  BY <1>1, <1>2, <1>4 DEF Explicit
<1> QED
  BY <1>1, <1>2, <1>5, <1>6, <1>7, <1>9, <1>10, <1>11 DEF Explicit

\* A component that stops its threads is not left before they are told, nor
\* the log before its thread has ended.
LEMMA HaltInv == IInv /\ Halt => IInv'
<1> SUFFICES ASSUME IInv, Halt PROVE Explicit'
  BY Unfolded
<1>1. Explicit
  BY Unfolded
<1>2. /\ UNCHANGED <<file, cfg, last_crc, reader, mode, main, run, signalled, step, parts, threads, edits>>
      /\ main \in {"rollback", "stop"} /\ halted \subseteq halted' /\ halted' \subseteq Stoppable
  BY <1>1 DEF Halt, config, Explicit
<1>3. ToldBeforeFreed'
  BY <1>1, <1>2 DEF Explicit, ToldBeforeFreed
<1>4. ReaderAndStep' /\ PartsLeft' /\ SocketsLast' /\ DaemonStartsNothing'
  BY <1>1, <1>2 DEF Explicit, ReaderAndStep, PartsLeft, SocketsLast, DaemonStartsNothing
<1> QED
  BY <1>1, <1>2, <1>3, <1>4 DEF Explicit

\* Taking back the component whose turn it is leaves no thread untold without
\* what it uses.
LEMMA TakeBackInv ==
  ASSUME Explicit, main \in {"rollback", "stop"}, TakeBack(StopOrder[step]), UNCHANGED <<threads, halted>>
  PROVE  /\ parts' \subseteq parts
         /\ ToldBeforeFreed'
         /\ \A i \in 1 .. step : StopOrder[i] \notin parts'
<1> DEFINE p == StopOrder[step]
<1>1. step \in 1 .. 7 /\ ToldBeforeFreed /\ \A i \in 1 .. step - 1 : StopOrder[i] \notin parts
  BY DEF Explicit, PartsLeft
<1>2. /\ parts' = parts \ {p}
      /\ p \in parts \cap Stoppable => p \in halted
      /\ p = "log" => p \notin threads
  BY DEF TakeBack
<1>3. p = "sock" => "sched" \notin parts
  <2>1. p = "sock" => step = 4
    BY <1>1, Orders
  <2>2. 3 \in 1 .. 4 - 1 /\ StopOrder[3] = "sched"
    BY Orders
  <2> QED
    BY <1>1, <2>1, <2>2
<1>4. \A i \in 1 .. step : i = step \/ i \in 1 .. step - 1
  BY <1>1
<1>5. \A i \in 1 .. step : StopOrder[i] \notin parts'
  BY <1>1, <1>2, <1>4
<1>6. ToldBeforeFreed'
  <2> HIDE DEF p
  <2> SUFFICES ASSUME NEW t \in threads \cap Stoppable
               PROVE  Uses(t) \subseteq parts' \/ (t \in halted /\ t # "log")
    BY DEF ToldBeforeFreed
  <2>1. Uses(t) \subseteq parts \/ (t \in halted /\ t # "log")
    BY <1>1 DEF ToldBeforeFreed
  <2>2. CASE p \notin Uses(t)
    BY <1>2, <2>1, <2>2
  <2>3. CASE p \in Uses(t) /\ Uses(t) \subseteq parts
    <3>1. t \in Uses(t) /\ (p = t \/ (p = "sock" /\ t = "sched"))
      BY <2>3 DEF Uses, Stoppable
    <3> QED
      BY <1>2, <1>3, <2>3, <3>1
  <2> QED
    BY <2>1, <2>2, <2>3
<1> QED
  BY <1>2, <1>5, <1>6

\* The rollback of server_start ends with the log alone.
LEMMA RollBackInv == IInv /\ RollBack => IInv'
<1> SUFFICES ASSUME IInv, RollBack PROVE Explicit'
  BY Unfolded
<1>1. Explicit
  BY Unfolded
<1>2. /\ UNCHANGED <<file, cfg, last_crc, reader, mode, run, signalled, threads, halted, edits>>
      /\ main = "rollback" /\ step \in 1 .. 6 /\ TakeBack(StopOrder[step])
  BY <1>1 DEF RollBack, config, Explicit, ReaderAndStep
<1>3. /\ parts' \subseteq parts
      /\ ToldBeforeFreed'
      /\ \A i \in 1 .. step : StopOrder[i] \notin parts'
  BY <1>1, <1>2, TakeBackInv
<1>4. /\ reader = "idle" /\ parts \subseteq Names /\ threads \cap {"sockets", "sessions"} = {}
      /\ threads \subseteq {"log", "circle", "sched", "sockets", "sessions"} /\ mode # "daemon"
  BY <1>1, <1>2 DEF Explicit, ReaderAndStep, SocketsLast, DaemonStartsNothing
<1>5. SocketsLast' /\ DaemonStartsNothing'
  BY <1>2, <1>3, <1>4 DEF SocketsLast, DaemonStartsNothing
<1>6. CASE step = 6
  <2>1. main' = "started" /\ step' = 1
    BY <1>6, Orders DEF RollBack
  <2>2. parts' \subseteq {"log"}
    <3>1. 1 .. 6 = {1, 2, 3, 4, 5, 6}
      OBVIOUS
    <3>2. /\ "plugin" \notin parts' /\ "sessions" \notin parts' /\ "sched" \notin parts'
          /\ "sock" \notin parts' /\ "circle" \notin parts' /\ "parser" \notin parts'
      BY <1>3, <1>6, <3>1, Orders
    <3> QED
      BY <1>3, <1>4, <3>2 DEF Names
  <2>3. threads' \subseteq {"log"} \cup halted'
    BY <1>2, <1>3, <1>4, <2>2 DEF ToldBeforeFreed, Uses, Stoppable
  <2>4. ReaderAndStep' /\ PartsLeft'
    BY <1>2, <1>4, <2>1 DEF ReaderAndStep, PartsLeft
  <2> QED
    BY <1>1, <1>2, <1>3, <1>4, <1>5, <2>1, <2>2, <2>3, <2>4 DEF Explicit
<1>7. CASE step # 6
  <2>1. StopOrder[step] # "parser"
    BY <1>2, <1>7, Orders
  <2>2. main' = "rollback" /\ step' = step + 1 /\ step' \in 1 .. 6 /\ step' \in 1 .. 7
    BY <1>2, <1>7, <2>1 DEF RollBack
  <2>3. PartsLeft'
    BY <1>2, <1>3, <2>2 DEF PartsLeft
  <2>4. ReaderAndStep'
    BY <1>2, <1>4, <2>2 DEF ReaderAndStep
  <2> QED
    BY <1>1, <1>2, <1>3, <1>4, <1>5, <2>2, <2>3, <2>4 DEF Explicit
<1> QED
  BY <1>6, <1>7

\* server_stop takes the components back one by one.
LEMMA StopPartInv == IInv /\ StopPart => IInv'
<1> SUFFICES ASSUME IInv, StopPart PROVE Explicit'
  BY Unfolded
<1>1. Explicit
  BY Unfolded
<1>2. /\ UNCHANGED <<file, cfg, last_crc, reader, mode, run, signalled, threads, halted, edits>>
      /\ main = "stop" /\ step \in 1 .. 7 /\ TakeBack(StopOrder[step])
  BY <1>1 DEF StopPart, config, Explicit
<1>3. /\ parts' \subseteq parts
      /\ ToldBeforeFreed'
      /\ \A i \in 1 .. step : StopOrder[i] \notin parts'
  BY <1>1, <1>2, TakeBackInv
<1>4. /\ reader = "idle" /\ parts \subseteq Names
      /\ threads \subseteq {"log", "circle", "sched", "sockets", "sessions"} /\ mode # "daemon"
  BY <1>1, <1>2 DEF Explicit, ReaderAndStep, DaemonStartsNothing
<1>5. \/ main' = "exit" /\ step' = 1
      \/ main' = "stop" /\ step' = step + 1 /\ step' \in 1 .. 7
  BY <1>2, Orders DEF StopPart
<1>6. SocketsLast' /\ DaemonStartsNothing' /\ ReaderAndStep'
  BY <1>2, <1>4, <1>5 DEF SocketsLast, DaemonStartsNothing, ReaderAndStep
<1>7. PartsLeft'
  <2>1. CASE main' = "exit"
    BY <2>1 DEF PartsLeft
  <2>2. CASE step' = step + 1
    BY <1>2, <1>3, <2>2 DEF PartsLeft
  <2> QED
    BY <1>5, <2>1, <2>2
<1>8. step' \in 1 .. 7 /\ main' \in {"exit", "stop"}
  BY <1>5
<1> QED
  BY <1>1, <1>2, <1>3, <1>4, <1>6, <1>7, <1>8 DEF Explicit

\* main and the daemon begin, with no component and the order's first place.
LEMMA BeginInv == IInv /\ (Begin \/ BeginDaemon) => IInv'
<1> SUFFICES ASSUME IInv, Begin \/ BeginDaemon PROVE IInv'
  OBVIOUS
<1>1. Explicit
  BY Unfolded
<1>2. /\ UNCHANGED <<file, cfg, last_crc, reader, mode, run, signalled, step, parts, threads, halted, edits>>
      /\ main = "begin" /\ main' \in {"start", "poll", "exit"}
      /\ mode = "daemon" => main' \in {"poll", "exit"}
  BY DEF Begin, BeginDaemon, config
<1>3. step = 1 /\ reader = "idle" /\ step \in 1 .. 9 /\ step \in 1 .. 7
  BY <1>1, <1>2 DEF Explicit, ReaderAndStep
<1>4. ReaderAndStep'
  BY <1>2, <1>3 DEF ReaderAndStep
<1>5. /\ \A p \in Names : p \in parts <=> \E i \in 1 .. step' - 1 : StartOrder[i] = p
      /\ threads \cap {"sockets", "sessions"} # {} => "plugin" \in parts
  BY <1>1, <1>2 DEF Explicit, SocketsLast
<1> QED
  BY <1>1, <1>2, <1>3, <1>4, <1>5, FrameInv DEF Explicit

\* parser->load parses the file and takes its checksum, in turn.
LEMMA LoadInv == IInv /\ (StartLoads \/ StartLoaded) => IInv'
<1> SUFFICES ASSUME IInv, StartLoads \/ StartLoaded PROVE IInv'
  OBVIOUS
<1>1. Explicit
  BY Unfolded
<1>2. CASE StartLoads
  <2>1. /\ UNCHANGED <<file, last_crc, mode, main, run, signalled, step, parts, threads, halted, edits>>
        /\ main = "start" /\ step \in 1 .. 8 /\ StartOrder[step] = "load"
        /\ file # Absent /\ cfg' = Parsed(cfg, file) /\ reader' = "crc"
    BY <1>1, <1>2, Orders DEF StartLoads, LoadParse, server, Explicit
  <2>2. step = 2
    BY <2>1, Orders
  <2>3. cfg' \in [Settings -> Values \cup {NoValue}]
    BY <1>1, <2>1, ParsedType DEF Explicit
  <2>4. ReaderAndStep'
    BY <2>1, <2>2 DEF ReaderAndStep
  <2>5. /\ \A p \in Names : p \in parts <=> \E i \in 1 .. step' - 1 : StartOrder[i] = p
        /\ threads \cap {"sockets", "sessions"} # {} => "plugin" \in parts
        /\ mode # "daemon"
    BY <1>1, <2>1 DEF Explicit, SocketsLast, DaemonStartsNothing
  <2> QED
    BY <1>1, <2>1, <2>2, <2>3, <2>4, <2>5, FrameInv DEF Explicit
<1>3. CASE StartLoaded
  <2>1. /\ UNCHANGED <<file, cfg, mode, main, run, signalled, parts, threads, halted, edits>>
        /\ main = "start" /\ step' = step + 1 /\ reader = "crc" /\ reader' = "idle"
        /\ last_crc' = Crc(file)
    BY <1>3 DEF StartLoaded, LoadCrc
  <2>2. step = 2 /\ step' = 3
    BY <1>1, <2>1 DEF Explicit, ReaderAndStep
  <2>3. last_crc' \in Contents \cup {NoCrc}
    BY <1>1, <2>1 DEF Explicit, Crc
  <2>4. ReaderAndStep'
    BY <2>1, <2>2 DEF ReaderAndStep
  <2>5. /\ \A p \in Names : p \in parts <=> \E i \in 1 .. step - 1 : StartOrder[i] = p
        /\ threads \cap {"sockets", "sessions"} # {} => "plugin" \in parts
        /\ mode # "daemon"
    BY <1>1, <2>1 DEF Explicit, SocketsLast, DaemonStartsNothing
  <2>6. \A p \in Names : p \in parts <=> \E i \in 1 .. step' - 1 : StartOrder[i] = p
    <3>1. 1 .. 2 - 1 = {1} /\ 1 .. 3 - 1 = {1, 2} /\ StartOrder[2] = "load" /\ "load" \notin Names
      BY Orders DEF Names
    <3> QED
      BY <2>2, <2>5, <3>1
  <2>7. step' \in 1 .. 9
    BY <2>2
  <2> QED
    BY <1>1, <2>1, <2>3, <2>4, <2>5, <2>6, <2>7, FrameInv DEF Explicit
<1> QED
  BY <1>2, <1>3

\* A failure finds the sockets closed, and the end of server_start all
\* components present.
LEMMA StartEndsInv == IInv /\ (StartFails \/ StartDone) => IInv'
<1> SUFFICES ASSUME IInv, StartFails \/ StartDone PROVE IInv'
  OBVIOUS
<1>1. Explicit
  BY Unfolded
<1>2. /\ UNCHANGED <<file, cfg, last_crc, reader, mode, run, signalled, parts, threads, halted, edits>>
      /\ main = "start" /\ step' = 1
      /\ \/ main' = "rollback" /\ step <= 8 /\ reader = "idle"
         \/ main' = "started" /\ step > 8
  BY Orders DEF StartFails, StartDone, LoadFails, config
<1>3. /\ \A p \in Names : p \in parts <=> \E i \in 1 .. step - 1 : StartOrder[i] = p
      /\ threads \cap {"sockets", "sessions"} # {} => "plugin" \in parts
      /\ mode # "daemon" /\ step \in 1 .. 9 /\ step' \in 1 .. 7
  BY <1>1, <1>2 DEF Explicit, SocketsLast, DaemonStartsNothing
<1>4. reader = "idle"
  BY <1>1, <1>2 DEF Explicit, ReaderAndStep
<1>5. ReaderAndStep'
  BY <1>2, <1>4 DEF ReaderAndStep
<1>6. CASE main' = "rollback" /\ step <= 8
  <2>1. "plugin" \notin parts
    <3>1. \A i \in 1 .. step - 1 : i \in 1 .. 7
      BY <1>3, <1>6
    <3>2. \A i \in 1 .. 7 : StartOrder[i] # "plugin"
      BY Orders
    <3> QED
      BY <1>3, <3>1, <3>2 DEF Names
  <2> QED
    BY <1>1, <1>2, <1>3, <1>5, <1>6, <2>1, FrameInv DEF Explicit
<1>7. CASE main' = "started" /\ step > 8
  <2>1. parts = Names
    <3>1. \A i \in 1 .. 8 : i \in 1 .. step - 1
      BY <1>3, <1>7
    <3>2. \A p \in Names : \E i \in 1 .. 8 : StartOrder[i] = p
      BY Orders DEF Names
    <3>3. parts \subseteq Names
      BY <1>1 DEF Explicit
    <3> QED
      BY <1>3, <3>1, <3>2, <3>3
  <2> QED
    BY <1>1, <1>2, <1>3, <1>5, <1>7, <2>1, FrameInv DEF Explicit
<1> QED
  BY <1>2, <1>6, <1>7

\* The loop of main: it polls, reloads and tests its flag.
LEMMA LoopInv == IInv /\ (EnterLoop \/ Poll \/ PollWithoutParser \/ Reload \/ TestRun) => IInv'
<1> SUFFICES ASSUME IInv, EnterLoop \/ Poll \/ PollWithoutParser \/ Reload \/ TestRun PROVE IInv'
  OBVIOUS
<1>1. Explicit
  BY Unfolded
<1>2. /\ UNCHANGED <<file, mode, signalled, step, parts, threads, halted, edits>>
      /\ main \in {"started", "poll", "reload", "test"}
      /\ main' \in {"poll", "reload", "test", "stop", "crashed"}
  BY DEF EnterLoop, Poll, PollWithoutParser, Reload, TestRun, config, ReloadCrc, ReloadParse
<1>3. step = 1 /\ step' \in 1 .. 7
  BY <1>1, <1>2 DEF Explicit, ReaderAndStep
<1>4. run' \in BOOLEAN
  BY <1>1 DEF EnterLoop, Poll, PollWithoutParser, Reload, TestRun, Explicit
<1>5. cfg' \in [Settings -> Values \cup {NoValue}]
  <2>1. CASE Reload /\ file # Absent
    BY <1>1, <2>1, ParsedType DEF Explicit, Reload, ReloadParse
  <2>2. CASE ~ (Reload /\ file # Absent)
    BY <1>1, <2>2 DEF Explicit, EnterLoop, Poll, PollWithoutParser, Reload, TestRun, config, ReloadCrc, ReloadParse
  <2> QED
    BY <2>1, <2>2
<1>6. last_crc' \in Contents \cup {NoCrc}
  BY <1>1 DEF Explicit, EnterLoop, Poll, PollWithoutParser, Reload, TestRun, config, ReloadCrc, ReloadParse, Crc
<1>7. /\ reader' \in {"idle", "parse"} /\ (reader' = "parse" => main' = "reload")
  BY <1>1, <1>2
  DEF Explicit, ReaderAndStep, EnterLoop, Poll, PollWithoutParser, Reload, TestRun, config, ReloadCrc, ReloadParse
<1>8. mode = "daemon" => main' = "crashed"
  BY <1>1, <1>2
  DEF Explicit, DaemonStartsNothing, EnterLoop, Poll, PollWithoutParser, Reload, TestRun
<1>9. ReaderAndStep'
  BY <1>2, <1>3, <1>7 DEF ReaderAndStep
<1> QED
  BY <1>1, <1>2, <1>3, <1>4, <1>5, <1>6, <1>7, <1>8, <1>9, FrameInv DEF Explicit

\* The threads of the components end, start sessions, or crash the program.
LEMMA ThreadsInv == IInv /\ Threads => IInv'
<1> SUFFICES ASSUME IInv, Threads PROVE IInv'
  OBVIOUS
<1>1. Explicit
  BY Unfolded
<1>2. CASE UseFreed
  <2>1. /\ UNCHANGED <<file, cfg, last_crc, mode, run, signalled, parts, threads, halted, edits>>
        /\ main' = "crashed" /\ step' = 1 /\ reader' = "idle"
    BY <1>2 DEF UseFreed
  <2>2. ReaderAndStep' /\ step' \in 1 .. 7
    BY <2>1 DEF ReaderAndStep
  <2> QED
    BY <1>1, <2>1, <2>2, FrameInv DEF Explicit
<1>3. CASE ~ UseFreed
  <2>1. UNCHANGED <<file, cfg, last_crc, reader, mode, main, run, signalled, step, parts, halted, edits>>
    BY <1>3 DEF Threads, SessionStarts, SessionEnds, ThreadEnds, config
  <2>2. /\ threads' \subseteq threads \cup {"sessions"}
        /\ "sessions" \in threads' => threads \cap {"sockets", "sessions"} # {}
    BY <1>3 DEF Threads, SessionStarts, SessionEnds, ThreadEnds
  <2>3. ToldBeforeFreed'
    BY <1>1, <2>1, <2>2 DEF Explicit, ToldBeforeFreed, Stoppable
  <2>4. SocketsLast'
    BY <1>1, <2>1, <2>2 DEF Explicit, SocketsLast
  <2>5. ReaderAndStep' /\ PartsLeft' /\ DaemonStartsNothing'
    BY <1>1, <2>1 DEF Explicit, ReaderAndStep, PartsLeft, DaemonStartsNothing
  <2>6. main' = "started" => parts' = Names \/ (parts' \subseteq {"log"} /\ threads' \subseteq {"log"} \cup halted')
    BY <1>1, <1>3, <2>1 DEF Explicit, Threads, SessionStarts, SessionEnds, ThreadEnds
  <2>7. threads' \subseteq {"log", "circle", "sched", "sockets", "sessions"}
    BY <1>1, <2>2 DEF Explicit
  <2> QED
    BY <1>1, <2>1, <2>3, <2>4, <2>5, <2>6, <2>7, Unfolded DEF Explicit
<1> QED
  BY <1>2, <1>3

\* Every step of the program keeps the invariant.
LEMMA NextInv == IInv /\ [Next]_vars => IInv'
<1> SUFFICES ASSUME IInv, [Next]_vars PROVE IInv'
  OBVIOUS
<1>1. CASE UNCHANGED vars
  BY <1>1
  DEF vars, server, config, IInv, TypeOK, ToldBeforeFreed, StartedOrRolledBack, ReaderAndStep,
      PartsSoFar, PartsLeft, SocketsLast, DaemonStartsNothing
<1>2. CASE MainThread
  BY <1>2, BeginInv, StartPartInv, LoadInv, StartEndsInv, RollBackInv, LoopInv, HaltInv, StopPartInv
  DEF MainThread
<1> QED
  BY <1>1, <1>2, SignalInv, ChangeFileInv, ThreadsInv DEF Next

\* The inductive invariant of module Server holds in every run of the program.
THEOREM Invariance == Spec => []IInv
  BY InitInv, NextInv, PTL DEF Spec

\* main, the server and the parser keep every variable within its type: a
\* signal, an edit of the file or a failing component at any step included.
THEOREM TypeCorrect == Spec => []TypeOK
<1>1. IInv => TypeOK
  BY DEF IInv
<1> QED
  BY <1>1, Invariance, PTL

\* Neither server_stop nor the rollback of server_start frees what a worker or
\* the sender uses before that thread has been told to end, or the log before
\* its thread has ended, whichever component failed.
THEOREM StopBeforeFree == Spec => []ToldBeforeFreed
<1>1. IInv => ToldBeforeFreed
  BY DEF IInv
<1> QED
  BY <1>1, Invariance, PTL

\* server_start brings up all components or takes back all but the log.
THEOREM StartAllOrNothing == Spec => []StartedOrRolledBack
<1>1. IInv => StartedOrRolledBack
  BY DEF IInv
<1> QED
  BY <1>1, Invariance, PTL

\* Option -d starts nothing: the only steps of a daemon are its first poll of a
\* parser it does not have, and its end.
THEOREM DaemonIdle == Spec => []DaemonStartsNothing
<1>1. IInv => DaemonStartsNothing
  BY DEF IInv
<1> QED
  BY <1>1, Invariance, PTL

=============================================================================
