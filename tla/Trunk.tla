-------------------------------- MODULE Trunk --------------------------------
(***************************************************************************)
(* The trunk (dmmr_trunk_plugin.c) on the socket layer: the plugin opens   *)
(* the accept URI; the thread accept_thread takes a node and a tcp_node    *)
(* for each connection, starts its tcp_receiver_thread and calls the       *)
(* plugin, which files a session under the connection's port, hands it to  *)
(* the scheduler and opens the dispatch URI, in the same thread.  Data     *)
(* goes the way UdpReceiver models; of it there is only that it may end    *)
(* the program: a receiver thread's life is its connection's.              *)
(*                                                                         *)
(* A connection is a number, 1 .. MaxConn in the order of arrival; the one *)
(* opened for c is c + MaxConn.  It stands for its file descriptor too; 0  *)
(* is no descriptor (and descriptor 0, standard input).                    *)
(*                                                                         *)
(* As built nothing calls start_tcp_socket, which allocates the pools, and *)
(* the first accept writes past the end of an allocation of no bytes.  The *)
(* model has both: with start_tcp_socket called, and without.  And as in   *)
(* Session, get_current_node returns the cursor, so that insert_session    *)
(* returns.                                                                *)
(***************************************************************************)
EXTENDS SlotPool, Uri, FiniteSets

CONSTANTS
  CapSize,    \* places of `cap' (0x400)
  PoolSizes,  \* places of node_pool and tcp_pool (0x400): the sizes looked at
  Ports,      \* ports of the peers and of the connections opened
  MaxConn,    \* bound on the connections accepted,
  MaxClosed,  \* on those their peers close,
  MaxShared   \* and on those they close once a place was shared

ASSUME TrunkAssumption ==
  /\ CapSize \in Nat \ {0} /\ PoolSizes \subseteq Nat \ {0}
  /\ Ports \subseteq Nat \ {0} /\ MaxConn \in Nat
  /\ MaxClosed \in Nat /\ MaxShared \in Nat

VARIABLES
  uri,        \* cfg->trunk_accept_uri and cfg->trunk_dispatch_uri
  started,    \* start_tcp_socket was called
  phase,      \* the plugin: "created", "idle" (nothing opened), "up"
  cap, capCount,
  nodes, nodeCount,
  tns, tnCount,
  null,       \* the pools realloc found no memory for
  udpPool,    \* udp_server_is_active
  link,       \* the connections, as their peers see them
  port,       \* the peer's port, or the local one of a connection opened
  thread,     \* tcp_receiver_thread of a connection, and its tcp_node
  acc,        \* accept_thread: where it is, and with which connection
  recno,      \* the sessions, by port (of protocol TCP)
  shared,     \* history: a place in use was handed out
  crashed

poolVars == <<cap, capCount, nodes, nodeCount, tns, tnCount, null, shared>>
vars == <<uri, started, phase, poolVars, udpPool, link, port, thread, acc, recno, crashed>>

Conns == 1 .. MaxConn
AllConns == 1 .. 2 * MaxConn
Opened(c) == c + MaxConn

\* The listening socket.
Listener == -1

BlankCap == [proto |-> "none", fd |-> 0]
BlankNode == [fd |-> 0, port |-> 0]
BlankTn == [run |-> FALSE, node |-> 0]
BlankSession == [conn |-> 0, port |-> 0, readers |-> 0]

Idle == [at |-> "select", conn |-> 0, node |-> 0, port |-> 0, slot |-> 0]

\* What the pools' searches test.
CapBusy == [i \in DOMAIN cap |-> cap[i].proto # "none"]
NodeBusy == [i \in DOMAIN nodes |-> nodes[i].fd # 0]
TnBusy == [i \in DOMAIN tns |-> tns[i].run]

\* The node of connection c's tcp_node.
NodeOf(c) == tns[thread[c].tn].node

Live(c) == thread[c].at = "read"

Init ==
  /\ uri \in [accept : Uris, dispatch : Uris]
  /\ started = FALSE
  /\ phase = "created"
  /\ cap = [i \in 1 .. CapSize |-> BlankCap]
  /\ nodes = << >>
  /\ tns = << >>
  /\ capCount = 0 /\ nodeCount = 0 /\ tnCount = 0
  /\ null = {}
  /\ udpPool = FALSE
  /\ link = [c \in AllConns |-> "none"]
  /\ port = [c \in AllConns |-> 0]
  /\ thread = [c \in AllConns |-> [at |-> "none", tn |-> 0]]
  /\ acc = [Idle EXCEPT !.at = "off"]
  /\ recno = [p \in Ports \cup {0} |-> BlankSession]
  /\ shared = FALSE
  /\ crashed = FALSE

------------------------------------------------------------------------------
(* Start and load *)

start_tcp_socket ==
  /\ phase = "created" /\ ~ started
  /\ started' = TRUE
  /\ \E size \in PoolSizes :
       /\ nodes' = [i \in 1 .. size |-> BlankNode]
       /\ tns' = [i \in 1 .. size |-> BlankTn]
  /\ UNCHANGED <<uri, phase, cap, capCount, nodeCount, tnCount, null, shared, udpPool, link, port,
                 thread, acc, recno, crashed>>

\* The accept URI is one of this protocol, and its host has an address.
Accepting(proto) ==
  parse_protocol_host_port(uri.accept) = proto /\ dns2ipaddr(uri.accept).family # "invalid"

\* start_acception takes a place of cap when the URI is one, and marks it when
\* the host has an address; what the kernel refuses after that leaves it marked.
LoadFails ==
  /\ cap' = IF Accepting("tcp") \/ Accepting("udp")
            THEN [cap EXCEPT ![Place(CapBusy, capCount)] =
                    [proto |-> parse_protocol_host_port(uri.accept), fd |-> 0]]
            ELSE cap
  /\ phase' = "idle"
  /\ UNCHANGED <<uri, started, capCount, nodes, nodeCount, tns, tnCount, null, shared, udpPool, link,
                 port, thread, acc, recno, crashed>>

\* The socket listens, and accept_thread has the place of cap.
start_tcp_service ==
  /\ Accepting("tcp")
  /\ cap' = [cap EXCEPT ![Place(CapBusy, capCount)] = [proto |-> "tcp", fd |-> Listener]]
  /\ acc' = [Idle EXCEPT !.slot = Place(CapBusy, capCount)]
  /\ phase' = "up"
  /\ UNCHANGED <<uri, started, capCount, nodes, nodeCount, tns, tnCount, null, shared, udpPool, link,
                 port, thread, recno, crashed>>

\* The socket is bound, and receiver_thread (UdpReceiver) has the place of cap;
\* of the plugin's callbacks it calls the one for the close.
start_udp_service ==
  /\ Accepting("udp")
  /\ cap' = [cap EXCEPT ![Place(CapBusy, capCount)] = [proto |-> "udp", fd |-> Listener]]
  /\ phase' = "up"
  /\ UNCHANGED <<uri, started, capCount, nodes, nodeCount, tns, tnCount, null, shared, udpPool, link,
                 port, thread, acc, recno, crashed>>

\* receiver_thread's callbacks, for a datagram and for the close, end the
\* program (TakeEntryAndRelock and ReceiveError of UdpReceiver).
UdpCrashes ==
  /\ phase = "up" /\ Accepting("udp")
  /\ crashed' = TRUE
  /\ UNCHANGED <<uri, started, phase, poolVars, udpPool, link, port, thread, acc, recno>>

\* When accept_thread cannot be started, start_tcp_service closes the descriptor
\* of a node the listener does not have.
LoadCrashes ==
  /\ Accepting("tcp")
  /\ crashed' = TRUE
  /\ UNCHANGED <<uri, started, phase, poolVars, udpPool, link, port, thread, acc, recno>>

start_accept_from_uri == LoadFails \/ start_tcp_service \/ start_udp_service \/ LoadCrashes

\* The result is not looked at; the plugin is loaded once.
dmmr_plugin_load == phase = "created" /\ start_accept_from_uri

------------------------------------------------------------------------------
(* The peers *)

PeerConnects(c) ==
  /\ acc.at # "off" /\ link[c] = "none" /\ \A d \in 1 .. c - 1 : link[d] # "none"
  /\ link' = [link EXCEPT ![c] = "open"]
  /\ thread' = [thread EXCEPT ![c].at = "queued"]
  /\ \E p \in Ports : port' = [port EXCEPT ![c] = p]
  /\ UNCHANGED <<uri, started, phase, poolVars, udpPool, acc, recno, crashed>>

PeerCloses(c) ==
  /\ link[c] = "open"
  /\ Cardinality({d \in AllConns : link[d] \in {"closed", "reset"}}) < (IF shared THEN MaxShared ELSE MaxClosed)
  /\ \E how \in {"closed", "reset"} : link' = [link EXCEPT ![c] = how]
  /\ UNCHANGED <<uri, started, phase, poolVars, udpPool, port, thread, acc, recno, crashed>>

------------------------------------------------------------------------------
(* get_node and get_tcp_node *)

\* get_node returns place n, with fd and port stored there; what a grown pool
\* holds looks free or in use.
GetNode(n, c, p) ==
  /\ "nodes" \notin null
  /\ n = Place(NodeBusy, nodeCount)
  /\ \E junk \in {BlankNode, [fd |-> Listener, port |-> 0]} :
       nodes' = [Room(nodes, NodeBusy, nodeCount, junk) EXCEPT ![n] = [fd |-> c, port |-> p]]
  /\ nodeCount' = CountAfter(NodeBusy, nodeCount)

\* The same for get_tcp_node: place t is for a connection with node n.
GetTn(t, n) ==
  /\ "tns" \notin null
  /\ t = Place(TnBusy, tnCount)
  /\ \E junk \in {BlankTn, [run |-> TRUE, node |-> 0]} :
       tns' = [Room(tns, TnBusy, tnCount, junk) EXCEPT ![t] = [run |-> TRUE, node |-> n]]
  /\ tnCount' = CountAfter(TnBusy, tnCount)
  /\ shared' = (shared \/ Shares(TnBusy, tnCount))

\* The allocation ends the program: the pools were never allocated, were lost,
\* or are moved while a receiver thread has a place in them.
NodeCrash ==
  \/ ~ started
  \/ "nodes" \in null
  \/ Grows(NodeBusy, nodeCount) /\ \E c \in AllConns : Live(c)

TnCrash ==
  \/ "tns" \in null
  \/ Grows(TnBusy, tnCount) /\ \E c \in AllConns : Live(c)

------------------------------------------------------------------------------
(* accept_thread, with the callbacks it makes *)

\* The connections waiting are accepted in order, as long as the listener's
\* place still holds the listening socket.
Accepts(c) ==
  /\ acc.at = "select" /\ cap[acc.slot].fd = Listener
  /\ thread[c].at = "queued" /\ \A d \in 1 .. c - 1 : thread[d].at # "queued"

\* accept fails, and the connection waits on: no descriptor is left, and the
\* receiver threads do not close theirs ...
AcceptFails(c) ==
  /\ Accepts(c)
  /\ acc' = [acc EXCEPT !.at = "starved"]
  /\ UNCHANGED <<uri, started, phase, poolVars, udpPool, link, port, thread, recno, crashed>>

\* ... until another part of the program, a parser or a logger, closes one.
AcceptAgain ==
  /\ acc.at = "starved"
  /\ acc' = [acc EXCEPT !.at = "select"]
  /\ UNCHANGED <<uri, started, phase, poolVars, udpPool, link, port, thread, recno, crashed>>

\* The connection gets a node ...
AcceptNode(c) ==
  /\ Accepts(c) /\ started
  /\ \E n \in 1 .. Len(nodes) + 1 :
       GetNode(n, c, port[c]) /\ acc' = [acc EXCEPT !.at = "tn", !.conn = c, !.node = n]
  /\ shared' = (shared \/ Shares(NodeBusy, nodeCount))
  /\ thread' = [thread EXCEPT ![c].at = "none"]
  /\ UNCHANGED <<uri, started, phase, cap, capCount, tns, tnCount, null, udpPool, link, port, recno, crashed>>

\* ... or there is none, and it is closed.
AcceptWithoutNode(c) ==
  /\ Accepts(c) /\ started
  /\ Grows(NodeBusy, nodeCount) /\ "nodes" \notin null
  /\ null' = null \cup {"nodes"}
  /\ link' = [link EXCEPT ![c] = "closed"]
  /\ thread' = [thread EXCEPT ![c].at = "none"]
  /\ UNCHANGED <<uri, started, phase, cap, capCount, nodes, nodeCount, tns, tnCount, shared, udpPool,
                 port, acc, recno, crashed>>

AcceptCrashes(c) ==
  /\ Accepts(c) /\ NodeCrash
  /\ crashed' = TRUE
  /\ UNCHANGED <<uri, started, phase, poolVars, udpPool, link, port, thread, acc, recno>>

\* It gets a tcp_node and its thread, and the plugin is called ...
SpawnReceiver ==
  /\ acc.at = "tn"
  /\ \E t \in 1 .. Len(tns) + 1 :
       GetTn(t, acc.node) /\ thread' = [thread EXCEPT ![acc.conn] = [at |-> "read", tn |-> t]]
  /\ acc' = [acc EXCEPT !.at = "file"]
  /\ UNCHANGED <<uri, started, phase, cap, capCount, nodes, nodeCount, null, udpPool, link, port, recno, crashed>>

\* ... or no thread can be started, and node and tcp_node stay taken ...
SpawnFails ==
  /\ acc.at = "tn"
  /\ \E t \in 1 .. Len(tns) + 1 : GetTn(t, acc.node)
  /\ thread' = [thread EXCEPT ![acc.conn].at = "unread"]
  /\ acc' = [Idle EXCEPT !.slot = acc.slot]
  /\ UNCHANGED <<uri, started, phase, cap, capCount, nodes, nodeCount, null, udpPool, link, port, recno, crashed>>

\* ... or there is no memory for a tcp_node, and the node is given back.
SpawnWithoutTn ==
  /\ acc.at = "tn"
  /\ Grows(TnBusy, tnCount) /\ "tns" \notin null
  /\ null' = null \cup {"tns"}
  /\ nodes' = [nodes EXCEPT ![acc.node] = BlankNode]
  /\ link' = [link EXCEPT ![acc.conn] = "closed"]
  /\ acc' = [Idle EXCEPT !.slot = acc.slot]
  /\ UNCHANGED <<uri, started, phase, cap, capCount, nodeCount, tns, tnCount, shared, udpPool,
                 port, thread, recno, crashed>>

SpawnCrashes ==
  /\ acc.at = "tn" /\ TnCrash
  /\ crashed' = TRUE
  /\ UNCHANGED <<uri, started, phase, poolVars, udpPool, link, port, thread, acc, recno>>

\* The plugin's callback: the session is filed under the port its node has now
\* (get_recno_slot and the copy) ...
FileSession ==
  /\ acc.at = "file"
  /\ LET p == nodes[NodeOf(acc.conn)].port
     IN  /\ recno' = [recno EXCEPT ![p].conn = acc.conn]
         /\ acc' = [acc EXCEPT !.at = "link", !.port = p]
  /\ UNCHANGED <<uri, started, phase, poolVars, udpPool, link, port, thread, crashed>>

\* Mutant of link_session_ports: the port is cleared and not read.
link_session_ports_cleared(p) == 0

\* The port in the session is read from the node once more.
link_session_ports(p) == nodes[NodeOf(acc.conn)].port


\* ... gets its port and its thread (insert_session, also over a session that
\* is there: Session) and a row of the scheduler, each of which may fail; after
\* both the thread goes on at `at'.
LinkSession(at) ==
  /\ acc.at = "link"
  /\ \E inserted, scheduled \in BOOLEAN :
       /\ scheduled => inserted
       /\ recno' = [recno EXCEPT ![acc.port].port = link_session_ports(acc.port),
                                 ![acc.port].readers = IF inserted THEN @ + 1 ELSE @]
       /\ acc' = IF scheduled /\ at = "dispatch" THEN [acc EXCEPT !.at = at]
                 ELSE [Idle EXCEPT !.slot = acc.slot]
  /\ UNCHANGED <<uri, started, phase, poolVars, udpPool, link, port, thread, crashed>>

\* Only for a connection accepted the dispatch URI is opened.
on_acception_connection_tcp_cb == acc.conn \in Conns /\ LinkSession("dispatch")

on_connect_connection_tcp_cb == acc.conn \notin Conns /\ LinkSession("select")

\* A dispatch URI that is none.
DispatchNone ==
  /\ acc.at = "dispatch"
  /\ parse_protocol_host_port(uri.dispatch) = "none"
  /\ acc' = [Idle EXCEPT !.slot = acc.slot]
  /\ UNCHANGED <<uri, started, phase, poolVars, udpPool, link, port, thread, recno, crashed>>

\* One of UDP opens nothing: a pool of UDP nodes, which nothing uses, is
\* allocated unless there is one, when there is memory.
connect_udp_server ==
  /\ acc.at = "dispatch"
  /\ parse_protocol_host_port(uri.dispatch) = "udp"
  /\ udpPool' \in {udpPool, TRUE}
  /\ acc' = [Idle EXCEPT !.slot = acc.slot]
  /\ UNCHANGED <<uri, started, phase, poolVars, link, port, thread, recno, crashed>>

\* start_dispatcher_tcp takes a place of cap, which is never given back, and
\* stores its socket there; the connection is refused ...
DispatchFails ==
  /\ acc.at = "dispatch"
  /\ parse_protocol_host_port(uri.dispatch) = "tcp"
  /\ cap' = [cap EXCEPT ![Place(CapBusy, capCount)] = [proto |-> "tcp", fd |-> 0]]
  /\ capCount' = CountAfter(CapBusy, capCount)
  /\ shared' = (shared \/ Shares(CapBusy, capCount))
  /\ acc' = [Idle EXCEPT !.slot = acc.slot]
  /\ UNCHANGED <<uri, started, phase, nodes, nodeCount, tns, tnCount, null, udpPool, link, port,
                 thread, recno, crashed>>

\* ... or is there, and gets its node.  (To port 0, which is what dns2ipaddr
\* gives, connect is always refused; the model lets it succeed.)
DispatchConnects ==
  /\ acc.at = "dispatch"
  /\ parse_protocol_host_port(uri.dispatch) = "tcp" /\ dns2ipaddr(uri.dispatch).family # "invalid"
  /\ LET o == Opened(acc.conn)
     IN  /\ cap' = [cap EXCEPT ![Place(CapBusy, capCount)] = [proto |-> "tcp", fd |-> o]]
         /\ \E p \in Ports, n \in 1 .. Len(nodes) + 1 :
              /\ GetNode(n, o, p)
              /\ port' = [port EXCEPT ![o] = p]
              /\ acc' = [acc EXCEPT !.at = "tn", !.conn = o, !.node = n]
         /\ link' = [link EXCEPT ![o] = "open"]
  /\ capCount' = CountAfter(CapBusy, capCount)
  /\ shared' = (shared \/ Shares(CapBusy, capCount) \/ Shares(NodeBusy, nodeCount))
  /\ UNCHANGED <<uri, started, phase, tns, tnCount, null, udpPool, thread, recno, crashed>>

\* ... or finds no memory for one and is closed.
DispatchWithoutNode ==
  /\ acc.at = "dispatch"
  /\ parse_protocol_host_port(uri.dispatch) = "tcp" /\ dns2ipaddr(uri.dispatch).family # "invalid"
  /\ Grows(NodeBusy, nodeCount) /\ "nodes" \notin null
  /\ null' = null \cup {"nodes"}
  /\ cap' = [cap EXCEPT ![Place(CapBusy, capCount)] = [proto |-> "tcp", fd |-> 0]]
  /\ capCount' = CountAfter(CapBusy, capCount)
  /\ shared' = (shared \/ Shares(CapBusy, capCount))
  /\ acc' = [Idle EXCEPT !.slot = acc.slot]
  /\ UNCHANGED <<uri, started, phase, nodes, nodeCount, tns, tnCount, udpPool, link, port,
                 thread, recno, crashed>>

DispatchCrashes ==
  /\ acc.at = "dispatch"
  /\ parse_protocol_host_port(uri.dispatch) = "tcp" /\ dns2ipaddr(uri.dispatch).family # "invalid"
  /\ NodeCrash
  /\ crashed' = TRUE
  /\ UNCHANGED <<uri, started, phase, poolVars, udpPool, link, port, thread, acc, recno>>

create_dispatcher_from_uri ==
  DispatchNone \/ connect_udp_server \/ DispatchFails \/ DispatchConnects \/ DispatchWithoutNode
    \/ DispatchCrashes

------------------------------------------------------------------------------
(* tcp_receiver_thread: it reads from the descriptor its node has now *)

ReadsFrom(c) == IF Live(c) THEN nodes[NodeOf(c)].fd ELSE Listener

\* The callback for what was read ends the program, or get_free_node has no
\* slot for the read and n is NULL (UdpReceiver).
ReadCrashes(c) ==
  /\ Live(c) /\ (ReadsFrom(c) \in AllConns => link[ReadsFrom(c)] \in {"open", "reset"})
  /\ crashed' = TRUE
  /\ UNCHANGED <<uri, started, phase, poolVars, udpPool, link, port, thread, acc, recno>>

\* An error is not seen: value_size is unsigned, -1 is a positive length, and
\* the callback is called; if it returns, the next read ends.
ReadError(c) ==
  /\ ReadsFrom(c) \in AllConns /\ link[ReadsFrom(c)] = "reset"
  /\ link' = [link EXCEPT ![ReadsFrom(c)] = "closed"]
  /\ UNCHANGED <<uri, started, phase, poolVars, udpPool, port, thread, acc, recno, crashed>>

\* At the end the node is given back; on_close_cb was never set, run stays set
\* and the descriptor stays open.
EndReceiver(c) ==
  /\ nodes' = [nodes EXCEPT ![NodeOf(c)] = BlankNode]
  /\ thread' = [thread EXCEPT ![c].at = "ended"]
  /\ UNCHANGED <<uri, started, phase, cap, capCount, nodeCount, tns, tnCount, null, shared, udpPool,
                 link, port, acc, recno, crashed>>

ReceiverEnds(c) ==
  /\ ReadsFrom(c) \in AllConns /\ link[ReadsFrom(c)] = "closed"
  /\ EndReceiver(c)

\* The node was given back by another thread: the thread reads from standard
\* input, until that ends.
StdinEnds(c) == ReadsFrom(c) = 0 /\ EndReceiver(c)

Receiver(c) == ReadError(c) \/ ReceiverEnds(c)

Acceptor ==
  \/ \E c \in Conns : AcceptFails(c) \/ AcceptNode(c) \/ AcceptWithoutNode(c) \/ AcceptCrashes(c)
  \/ SpawnReceiver \/ SpawnFails \/ SpawnWithoutTn \/ SpawnCrashes
  \/ FileSession \/ on_acception_connection_tcp_cb \/ on_connect_connection_tcp_cb
  \/ create_dispatcher_from_uri

Next ==
  /\ ~ crashed
  /\ \/ start_tcp_socket \/ dmmr_plugin_load \/ UdpCrashes
     \/ \E c \in Conns : PeerConnects(c)
     \/ \E c \in AllConns : PeerCloses(c) \/ Receiver(c) \/ ReadCrashes(c) \/ StdinEnds(c)
     \/ Acceptor \/ AcceptAgain

Spec == Init /\ [][Next]_vars

\* The threads run; peers connect and close when they like, standard input need
\* not end, and a descriptor need not come back.
FairSpec ==
  /\ Spec
  /\ WF_vars(~ crashed /\ Acceptor)
  /\ \A c \in AllConns : WF_vars(~ crashed /\ Receiver(c))

------------------------------------------------------------------------------
(* Properties *)

\* Type invariant: every place, counter and position is one of its pool.
TypeOK ==
  /\ uri \in [accept : Uris, dispatch : Uris]
  /\ started \in BOOLEAN /\ udpPool \in BOOLEAN /\ shared \in BOOLEAN /\ crashed \in BOOLEAN
  /\ phase \in {"created", "idle", "up"}
  /\ \A i \in DOMAIN cap : cap[i] \in [proto : {"none", "tcp", "udp"}, fd : AllConns \cup {0, Listener}]
  /\ \A i \in DOMAIN nodes : nodes[i] \in [fd : AllConns \cup {0, Listener}, port : Ports \cup {0}]
  /\ \A i \in DOMAIN tns : tns[i] \in [run : BOOLEAN, node : 0 .. Len(nodes)]
  /\ capCount \in 0 .. Len(cap) /\ nodeCount \in 0 .. Len(nodes) /\ tnCount \in 0 .. Len(tns)
  /\ null \subseteq {"nodes", "tns"}
  /\ link \in [AllConns -> {"none", "open", "closed", "reset"}]
  /\ port \in [AllConns -> Ports \cup {0}]
  /\ thread \in [AllConns -> [at : {"none", "queued", "unread", "read", "ended"}, tn : 0 .. Len(tns)]]
  /\ acc.at \in {"off", "select", "starved", "tn", "file", "link", "dispatch"}
  /\ acc.conn \in AllConns \cup {0} /\ acc.slot \in 0 .. Len(cap)
  /\ recno \in [Ports \cup {0} -> [conn : AllConns \cup {0}, port : Ports \cup {0}, readers : 0 .. 2 * MaxConn]]

\* The pools (get_node, get_tcp_node, get_union_protocol_base_cb) give every
\* connection places of its own, and what a thread gives back is its own: as
\* long as no pool was exhausted, each receiver thread reads its connection's
\* descriptor through a tcp_node no other thread has, the listener keeps its
\* place of cap, and a node in use belongs to a receiver, to the connection
\* being accepted or to one whose thread could not be started.
SlotsAreOwn ==
  ~ shared /\ ~ crashed =>
    /\ \A c \in AllConns : Live(c) => tns[thread[c].tn].run /\ ReadsFrom(c) = c
    /\ \A c, d \in AllConns : Live(c) /\ Live(d) /\ c # d => thread[c].tn # thread[d].tn
    /\ acc.at # "off" => cap[acc.slot] = [proto |-> "tcp", fd |-> Listener]
    /\ \A i \in DOMAIN nodes : nodes[i].fd # 0 =>
         \/ Live(nodes[i].fd) \/ thread[nodes[i].fd].at = "unread"
         \/ acc.at = "tn" /\ nodes[i].fd = acc.conn

\* The plugin files a session under its connection's port, so that
\* get_session and stop_session_connection find it: a session with a thread
\* has the port it is filed under.  It has port 0, which both take for none,
\* only when the connection's own receiver thread ended, and gave the node
\* back, before the callback had read it.  (Not while a session is copied over
\* one of the same port.)
SessionFiled ==
  ~ shared => \A p \in DOMAIN recno : recno[p].readers > 0 /\ ~ (acc.at = "link" /\ acc.port = p) =>
    \/ recno[p].port = p /\ p = port[recno[p].conn]
    \/ p \in {0, port[recno[p].conn]} /\ recno[p].port \in {0, p}
         /\ thread[recno[p].conn].at = "ended"


------------------------------------------------------------------------------
(* The inductive invariant (TrunkProofs) *)

CapRec == [proto : {"none", "tcp", "udp"}, fd : AllConns \cup {0, Listener}]
NodeRec == [fd : AllConns \cup {0, Listener}, port : Ports \cup {0}]

\* accept_thread has a connection in hand.
Serving == acc.at \in {"tn", "file", "link", "dispatch"}

\* Connection c has, or had, a receiver thread.
Spawned(c) == thread[c].at \in {"read", "ended"}

\* The connections whose session the plugin has filed, or failed to.
Linked == {c \in AllConns : Spawned(c) /\ ~ (acc.at \in {"file", "link"} /\ acc.conn = c)}

\* The pools are arrays; a started one is not empty; and nothing was taken
\* from them before the plugin was loaded.
PoolsThere ==
  /\ cap \in [1 .. CapSize -> CapRec] /\ nodes \in Seq(NodeRec) /\ tns \in Seq([run : BOOLEAN, node : Nat])
  /\ acc \in [at : {"off", "select", "starved", "tn", "file", "link", "dispatch"}, conn : AllConns \cup {0},
              node : Nat, port : Ports \cup {0}, slot : Nat]
  /\ started => nodes # << >> /\ tns # << >>
  /\ Serving => started
  /\ phase = "created" => acc.at = "off" /\ \A i \in 1 .. CapSize : cap[i] = BlankCap
  /\ ~ started => nodes = << >> /\ tns = << >>
  /\ acc.at = "off" => /\ \A c \in AllConns : thread[c].at = "none"
                       /\ \A i \in DOMAIN nodes : nodes[i] = BlankNode

\* The counters of the pools move only once a place is shared; and the counter
\* of cap moves once: the place it then hands out is the listener's, whose
\* descriptor is overwritten, and no connection is accepted any more.
CountersHold ==
  /\ ~ shared => capCount = 0 /\ nodeCount = 0 /\ tnCount = 0
  /\ capCount \in {0, 1}
  /\ acc.at # "off" => acc.slot = 1
  /\ capCount = 1 => /\ cap[1].fd # Listener /\ acc.at # "off"
                     /\ Serving => acc.conn \notin Conns

\* What accept_thread has done for the connection in hand.
InHand ==
  /\ Serving => acc.conn \in AllConns /\ link[acc.conn] # "none"
  /\ acc.at = "tn" => acc.node \in 1 .. Len(nodes) /\ thread[acc.conn].at = "none"
  /\ acc.at \in {"file", "link", "dispatch"} => Spawned(acc.conn)
  /\ acc.at = "dispatch" => acc.conn \in Conns
  /\ \A c \in Conns : Serving /\ acc.conn = c => thread[Opened(c)].at = "none"
  /\ \A c \in Conns : Serving /\ acc.conn = Opened(c) => Spawned(c)
  /\ acc.at = "link" => recno[acc.port].conn = acc.conn

\* A connection with a thread is there, and the one opened for it comes later;
\* its tcp_node and its node are places of the pools.
ThreadsHavePlaces ==
  /\ \A c \in AllConns : thread[c].at # "none" => link[c] # "none"
  /\ \A c \in Conns : thread[Opened(c)].at # "none" => Spawned(c)
  /\ \A c \in AllConns : Spawned(c) =>
       thread[c].tn \in 1 .. Len(tns) /\ tns[thread[c].tn].node \in 1 .. Len(nodes)

\* Every reader of a session was started for a connection of its own.
ReadersCounted ==
  \A p \in DOMAIN recno : /\ recno[p].readers <= Cardinality(Linked)
                          /\ recno[p].readers > 0 => recno[p].conn \in AllConns /\ Spawned(recno[p].conn)

\* A node in use is the only one of its connection and has its port; the
\* connection in hand has its node, until its own thread gives it back.
NodesAreOwn ==
  /\ \A i \in DOMAIN nodes : nodes[i].fd # 0 =>
       /\ nodes[i].fd \in AllConns /\ nodes[i].port = port[nodes[i].fd]
       /\ \A j \in DOMAIN nodes : nodes[i].fd = nodes[j].fd => i = j
       /\ \/ Live(nodes[i].fd) \/ thread[nodes[i].fd].at = "unread"
          \/ acc.at = "tn" /\ nodes[i].fd = acc.conn
  /\ \A c \in AllConns : Live(c) => nodes[NodeOf(c)].fd = c
  /\ acc.at = "tn" => nodes[acc.node].fd = acc.conn
  /\ acc.at \in {"file", "link"} /\ ~ Live(acc.conn) => nodes[NodeOf(acc.conn)] = BlankNode
  /\ acc.at = "link" => acc.port = port[acc.conn] \/ (acc.port = 0 /\ ~ Live(acc.conn))

TnsAreOwn ==
  /\ \A c \in AllConns : Live(c) => tns[thread[c].tn].run
  /\ \A c, d \in AllConns : Live(c) /\ Live(d) /\ c # d => thread[c].tn # thread[d].tn

ListenerKept == acc.at # "off" => cap[1] = [proto |-> "tcp", fd |-> Listener]

Own == ~ shared => NodesAreOwn /\ TnsAreOwn /\ ListenerKept

IInv ==
  /\ TypeOK /\ PoolsThere /\ CountersHold /\ InHand /\ ThreadsHavePlaces /\ ReadersCounted
  /\ Own /\ SessionFiled

=============================================================================
