----------------------------- MODULE TrunkProofs -----------------------------
(***************************************************************************)
(* Proofs about module Trunk, for pools of any size and any number of      *)
(* connections.  As long as no pool has been exhausted every connection    *)
(* has its places to itself, because the search of the pools returns a     *)
(* place that is free; and a session is filed under its connection's port. *)
(* Exhausted pools keep their counters in range: cap, which is not grown   *)
(* here, because its first shared place is the listener's, after which no  *)
(* connection is accepted.                                                 *)
(***************************************************************************)
EXTENDS Trunk, FiniteSetTheorems, SequenceTheorems, WellFoundedInduction, TLAPS

------------------------------------------------------------------------------
(* The pools *)

\* Every set of naturals that is not empty has a least element.
LEMMA LeastElement ==
  ASSUME NEW T, T \subseteq Nat, T # {}
  PROVE  \E n \in T : \A m \in T : n <= m
<1> DEFINE R == OpToRel(<, Nat)
<1>1. IsWellFoundedOn(R, Nat)
  BY NatLessThanWellFounded, Zenon
<1>2. PICK n \in T : \A m \in T : ~ (<<m, n>> \in R)
  <2> HIDE DEF R
  <2> QED
    BY <1>1, WFMin
<1>3. ASSUME NEW m \in T PROVE n <= m
  <2>1. ~ (<<m, n>> \in R) /\ m \in Nat /\ n \in Nat
    BY <1>2, Zenon
  <2>2. m < n => <<m, n>> \in R
    BY <2>1, Zenon DEF OpToRel
  <2> HIDE DEF R
  <2> QED
    BY <2>1, <2>2
<1> QED
  BY <1>3

\* The search of the pools finds a free place when there is one.
LEMMA PlaceFree ==
  ASSUME NEW n \in Nat, NEW busy \in [1 .. n -> BOOLEAN], NEW count \in Nat, ~ Full(busy)
  PROVE  Place(busy, count) \in 1 .. n /\ ~ busy[Place(busy, count)]
<1> DEFINE F == FreePlaces(busy)
<1>1. F \subseteq Nat /\ F # {} /\ \A i \in F : i \in 1 .. n /\ ~ busy[i]
  BY DEF Full, FreePlaces
<1> HIDE DEF F
<1>2. \E i \in F : \A j \in F : i <= j
  BY <1>1, LeastElement
<1>3. Place(busy, count) = CHOOSE i \in F : \A j \in F : i <= j
  BY DEF Place, F
<1>4. Place(busy, count) \in F
  BY <1>2, <1>3
<1> QED
  BY <1>1, <1>4

\* An array of one type is one of a wider type.
LEMMA Retyped ==
  ASSUME NEW S, NEW T, S \subseteq T, NEW a \in Seq(S)
  PROVE  a \in Seq(T) /\ DOMAIN a = 1 .. Len(a) /\ \A i \in DOMAIN a : a[i] \in S
  OBVIOUS

\* A store into a place of an array.
LEMMA Stored ==
  ASSUME NEW S, NEW a \in Seq(S), NEW k \in 1 .. Len(a), NEW x \in S, NEW b, b = [a EXCEPT ![k] = x]
  PROVE  b \in Seq(S) /\ Len(b) = Len(a) /\ b[k] = x /\ \A i \in 1 .. Len(a) : i # k => b[i] = a[i]
<1>1. DOMAIN a = 1 .. Len(a)
  OBVIOUS
<1> QED
  BY <1>1, ExceptSeq

\* A pool as get_node finds it: it has room for the place handed out, having
\* grown if need be; while the counter is 0 it does not grow, and the place is
\* free, or it is shared.
HasRoom(S, pool, busy, count, r, k) ==
  /\ r \in Seq(S) /\ Len(r) \in Nat /\ Len(pool) <= Len(r)
  /\ \A i \in 1 .. Len(pool) : i \in 1 .. Len(r) /\ r[i] = pool[i]
  /\ k \in 1 .. Len(r) /\ CountAfter(busy, count) \in 0 .. Len(r)
  /\ count = 0 /\ ~ Shares(busy, count) =>
       /\ Len(r) = Len(pool) /\ CountAfter(busy, count) = 0
       /\ k \in 1 .. Len(pool) /\ ~ busy[k]

\* So it always is.
LEMMA RoomMade ==
  ASSUME NEW S, NEW pool \in Seq(S), Len(pool) # 0, NEW junk \in S,
         NEW busy \in [1 .. Len(pool) -> BOOLEAN], NEW count \in 0 .. Len(pool),
         NEW r, r = Room(pool, busy, count, junk),
         NEW k, k = Place(busy, count)
  PROVE  HasRoom(S, pool, busy, count, r, k)
<1>0. Len(pool) \in Nat /\ count \in Nat /\ count <= Len(pool)
  OBVIOUS
<1>1. ~ Full(busy) => k \in 1 .. Len(pool) /\ ~ busy[k]
  BY <1>0, PlaceFree
<1>2. Full(busy) => k = count + 1
  BY DEF Place
<1>3. CountAfter(busy, count) = IF Full(busy) THEN count + 1 ELSE count
  BY DEF CountAfter
<1>4. CASE Grows(busy, count)
  <2> DEFINE more == [i \in 1 .. Len(pool) |-> junk]
  <2>1. more \in Seq(S) /\ Len(more) = Len(pool)
    BY <1>0
  <2>2. r = pool \o more
    BY <1>4 DEF Room
  <2> HIDE DEF more
  <2>3. /\ r \in Seq(S) /\ Len(r) = Len(pool) + Len(pool)
        /\ \A i \in 1 .. Len(pool) + Len(pool) :
             r[i] = IF i <= Len(pool) THEN pool[i] ELSE more[i - Len(pool)]
    <3>1. /\ pool \o more \in Seq(S) /\ Len(pool \o more) = Len(pool) + Len(more)
          /\ \A i \in 1 .. Len(pool) + Len(more) :
               (pool \o more)[i] = IF i <= Len(pool) THEN pool[i] ELSE more[i - Len(pool)]
      BY <2>1, ConcatProperties, Zenon
    <3> QED
      BY <2>1, <2>2, <3>1, Zenon
  <2>4. \A i \in 1 .. Len(pool) : i \in 1 .. Len(pool) + Len(pool) /\ i <= Len(pool)
    BY <1>0
  <2>5. Full(busy) /\ count = Len(pool)
    BY <1>0, <1>4 DEF Grows
  <2>6. /\ k \in 1 .. Len(pool) + Len(pool) /\ CountAfter(busy, count) \in 0 .. Len(pool) + Len(pool)
        /\ count # 0
    BY <1>0, <1>2, <1>3, <2>5
  <2> QED
    BY <1>0, <2>3, <2>4, <2>6 DEF HasRoom
<1>5. CASE ~ Grows(busy, count)
  <2>1. r = pool
    BY <1>5 DEF Room
  <2>2. k \in 1 .. Len(pool) /\ CountAfter(busy, count) \in 0 .. Len(pool)
    BY <1>0, <1>1, <1>2, <1>3, <1>5 DEF Grows
  <2>3. count = 0 /\ ~ Shares(busy, count) => ~ Full(busy)
    BY <1>0 DEF Shares
  <2> QED
    BY <1>0, <1>1, <1>3, <2>1, <2>2, <2>3 DEF HasRoom
<1> QED
  BY <1>4, <1>5

------------------------------------------------------------------------------
(* What get_node, get_tcp_node and get_union_protocol_base_cb return *)

\* The connections are numbers; the one opened for c has a number of its own.
LEMMA Connections ==
  /\ MaxConn \in Nat /\ 2 * MaxConn \in Nat /\ Conns \subseteq AllConns
  /\ \A c \in AllConns : c \in Nat /\ c # 0 /\ c # Listener
  /\ \A c \in Conns : Opened(c) \in AllConns /\ Opened(c) \notin Conns
  /\ \A c, d \in Conns : Opened(c) = Opened(d) => c = d
  /\ \A c \in AllConns : c \notin Conns => \E d \in Conns : c = Opened(d)
  /\ 0 \notin AllConns /\ Listener \notin AllConns
<1>1. MaxConn \in Nat
  BY TrunkAssumption
<1>2. ASSUME NEW c \in AllConns, c \notin Conns PROVE \E d \in Conns : c = Opened(d)
  <2>1. c - MaxConn \in Conns /\ c = Opened(c - MaxConn)
    BY <1>1, <1>2 DEF Conns, AllConns, Opened
  <2> QED
    BY <2>1
<1> QED
  BY <1>1, <1>2 DEF Conns, AllConns, Opened, Listener

\* get_node: the node is a place of the pool, the others are as they were; and
\* as long as no pool was exhausted it was free.
LEMMA NodeHandedOut ==
  ASSUME IInv, started, NEW n, NEW c \in AllConns, NEW p \in Ports \cup {0}, GetNode(n, c, p)
  PROVE  /\ nodes' \in Seq(NodeRec) /\ Len(nodes) <= Len(nodes') /\ n \in 1 .. Len(nodes')
         /\ nodes'[n] = [fd |-> c, port |-> p]
         /\ \A i \in 1 .. Len(nodes) : i # n => nodes'[i] = nodes[i]
         /\ nodeCount' \in 0 .. Len(nodes')
         /\ ~ (shared \/ Shares(NodeBusy, nodeCount)) =>
              Len(nodes') = Len(nodes) /\ nodeCount' = 0 /\ nodes[n].fd = 0
<1>1. nodes \in Seq(NodeRec) /\ Len(nodes) # 0 /\ Len(nodes) \in Nat /\ DOMAIN nodes = 1 .. Len(nodes)
  BY DEF IInv, PoolsThere
<1>2. nodeCount \in 0 .. Len(nodes) /\ (~ shared => nodeCount = 0)
  BY DEF IInv, TypeOK, CountersHold
<1>3. NodeBusy \in [1 .. Len(nodes) -> BOOLEAN] /\ \A i \in 1 .. Len(nodes) : ~ NodeBusy[i] => nodes[i].fd = 0
  BY <1>1 DEF NodeBusy
<1>4. PICK junk \in {BlankNode, [fd |-> Listener, port |-> 0]} :
        nodes' = [Room(nodes, NodeBusy, nodeCount, junk) EXCEPT ![n] = [fd |-> c, port |-> p]]
  BY DEF GetNode
<1>5. n = Place(NodeBusy, nodeCount) /\ nodeCount' = CountAfter(NodeBusy, nodeCount)
  BY DEF GetNode
<1>6. junk \in NodeRec /\ [fd |-> c, port |-> p] \in NodeRec
  BY DEF NodeRec, BlankNode
<1> DEFINE r == Room(nodes, NodeBusy, nodeCount, junk)
           b == NodeBusy
           x == [fd |-> c, port |-> p]
<1>7. /\ nodes' = [r EXCEPT ![n] = x] /\ r = Room(nodes, b, nodeCount, junk) /\ n = Place(b, nodeCount)
      /\ b \in [1 .. Len(nodes) -> BOOLEAN]
  BY <1>3, <1>4, <1>5
<1> HIDE DEF r, b, x
<1>8. /\ r \in Seq(NodeRec) /\ Len(r) \in Nat /\ Len(nodes) <= Len(r)
      /\ \A i \in 1 .. Len(nodes) : i \in 1 .. Len(r) /\ r[i] = nodes[i]
      /\ n \in 1 .. Len(r) /\ CountAfter(b, nodeCount) \in 0 .. Len(r)
      /\ nodeCount = 0 /\ ~ Shares(b, nodeCount) =>
           /\ Len(r) = Len(nodes) /\ CountAfter(b, nodeCount) = 0
           /\ n \in 1 .. Len(nodes) /\ ~ b[n]
  <2>1. HasRoom(NodeRec, nodes, b, nodeCount, r, n)
    BY <1>1, <1>2, <1>6, <1>7, RoomMade
  <2> QED
    BY <2>1 DEF HasRoom
<1>9. /\ nodes' \in Seq(NodeRec) /\ Len(nodes') = Len(r) /\ nodes'[n] = x
      /\ \A i \in 1 .. Len(r) : i # n => nodes'[i] = r[i]
  BY <1>6, <1>7, <1>8, Stored DEF x
<1> QED
  BY <1>2, <1>3, <1>5, <1>8, <1>9 DEF b, x

\* get_tcp_node: the same.
LEMMA TnHandedOut ==
  ASSUME IInv, started, NEW t, NEW n \in 0 .. Len(nodes), GetTn(t, n)
  PROVE  /\ tns' \in Seq([run : BOOLEAN, node : 0 .. Len(nodes)])
         /\ Len(tns) <= Len(tns') /\ t \in 1 .. Len(tns')
         /\ tns'[t] = [run |-> TRUE, node |-> n]
         /\ \A i \in 1 .. Len(tns) : i # t => tns'[i] = tns[i]
         /\ tnCount' \in 0 .. Len(tns')
         /\ shared' = (shared \/ Shares(TnBusy, tnCount))
         /\ ~ shared' => Len(tns') = Len(tns) /\ tnCount' = 0 /\ ~ tns[t].run
<1> DEFINE TnRec == [run : BOOLEAN, node : 0 .. Len(nodes)]
<1>0. \A i \in DOMAIN tns : tns[i] \in TnRec
  BY DEF IInv, TypeOK
<1>1. tns \in Seq(TnRec) /\ Len(tns) # 0 /\ Len(tns) \in Nat /\ DOMAIN tns = 1 .. Len(tns)
  <2>1. tns \in Seq([run : BOOLEAN, node : Nat]) /\ Len(tns) # 0
    BY DEF IInv, PoolsThere
  <2> HIDE DEF TnRec
  <2> QED
    BY <1>0, <2>1
<1>2. tnCount \in 0 .. Len(tns) /\ (~ shared => tnCount = 0)
  BY DEF IInv, TypeOK, CountersHold
<1>3. PICK junk \in {BlankTn, [run |-> TRUE, node |-> 0]} :
        tns' = [Room(tns, TnBusy, tnCount, junk) EXCEPT ![t] = [run |-> TRUE, node |-> n]]
  BY DEF GetTn
<1>4. /\ t = Place(TnBusy, tnCount) /\ tnCount' = CountAfter(TnBusy, tnCount)
      /\ shared' = (shared \/ Shares(TnBusy, tnCount))
  BY DEF GetTn
<1>5. 0 \in 0 .. Len(nodes)
  BY DEF IInv, PoolsThere
<1>6. junk \in TnRec /\ [run |-> TRUE, node |-> n] \in TnRec
  <2>1. \A run \in BOOLEAN : \A m \in 0 .. Len(nodes) : [run |-> run, node |-> m] \in TnRec
    OBVIOUS
  <2> HIDE DEF TnRec
  <2> QED
    BY <1>3, <1>5, <2>1 DEF BlankTn
<1> DEFINE r == Room(tns, TnBusy, tnCount, junk)
           b == TnBusy
           x == [run |-> TRUE, node |-> n]
<1> HIDE DEF TnRec
<1>7. TnBusy \in [1 .. Len(tns) -> BOOLEAN] /\ \A i \in 1 .. Len(tns) : TnBusy[i] = tns[i].run
  <2>1. \A i \in 1 .. Len(tns) : tns[i].run \in BOOLEAN
    BY <1>0, <1>1 DEF TnRec
  <2> QED
    BY <1>1, <2>1 DEF TnBusy
<1>8. /\ tns' = [r EXCEPT ![t] = x] /\ r = Room(tns, b, tnCount, junk) /\ t = Place(b, tnCount)
      /\ b \in [1 .. Len(tns) -> BOOLEAN]
  BY <1>3, <1>4, <1>7
<1> HIDE DEF r, b, x
<1>9. /\ r \in Seq(TnRec) /\ Len(r) \in Nat /\ Len(tns) <= Len(r)
      /\ \A i \in 1 .. Len(tns) : i \in 1 .. Len(r) /\ r[i] = tns[i]
      /\ t \in 1 .. Len(r) /\ CountAfter(b, tnCount) \in 0 .. Len(r)
      /\ tnCount = 0 /\ ~ Shares(b, tnCount) =>
           /\ Len(r) = Len(tns) /\ CountAfter(b, tnCount) = 0
           /\ t \in 1 .. Len(tns) /\ ~ b[t]
  <2>1. HasRoom(TnRec, tns, b, tnCount, r, t)
    BY <1>1, <1>2, <1>6, <1>8, RoomMade
  <2> QED
    BY <2>1 DEF HasRoom
<1>10. /\ tns' \in Seq(TnRec) /\ Len(tns') = Len(r) /\ tns'[t] = x
       /\ \A i \in 1 .. Len(r) : i # t => tns'[i] = r[i]
  BY <1>6, <1>8, <1>9, Stored DEF x
<1>11. ~ shared' => tnCount = 0 /\ ~ Shares(b, tnCount)
  BY <1>2, <1>4 DEF b
<1>12. ~ shared' => ~ tns[t].run
  BY <1>7, <1>9, <1>11, Zenon DEF b
<1> QED
  BY <1>4, <1>9, <1>10, <1>11, <1>12 DEF b, x, TnRec

\* get_union_protocol_base_cb, whose place k is then stored into, q being cap
\* after that: the place was free, or it is the first one and is shared.
CapGiven(q, k, x) ==
  /\ q \in [1 .. CapSize -> CapRec] /\ k \in 1 .. CapSize
  /\ q[k] = x /\ \A i \in 1 .. CapSize : i # k => q[i] = cap[i]
  /\ Shares(CapBusy, capCount) => k = 1 /\ CountAfter(CapBusy, capCount) = 1
  /\ ~ Shares(CapBusy, capCount) => cap[k].proto = "none" /\ CountAfter(CapBusy, capCount) = 0

\* So it is, while the counter of cap is 0.
LEMMA CapHandedOut ==
  ASSUME IInv, capCount = 0, NEW x \in CapRec, NEW k, k = Place(CapBusy, capCount),
         NEW q, q = [cap EXCEPT ![k] = x]
  PROVE  CapGiven(q, k, x)
<1>1. cap \in [1 .. CapSize -> CapRec] /\ CapSize \in Nat /\ CapSize # 0
  BY TrunkAssumption DEF IInv, PoolsThere
<1>2. CapBusy \in [1 .. CapSize -> BOOLEAN] /\ \A i \in 1 .. CapSize : ~ CapBusy[i] => cap[i].proto = "none"
  BY <1>1 DEF CapBusy
<1>3. Len(CapBusy) = CapSize
  BY <1>1, <1>2
<1>4. Shares(CapBusy, capCount) <=> Full(CapBusy)
  BY <1>1, <1>3 DEF Shares
<1>5. CountAfter(CapBusy, capCount) = IF Full(CapBusy) THEN 1 ELSE 0
  BY DEF CountAfter
<1>6. Full(CapBusy) => k = 1
  BY DEF Place
<1>7. ~ Full(CapBusy) => k \in 1 .. CapSize /\ cap[k].proto = "none"
  BY <1>1, <1>2, PlaceFree
<1>8. k \in 1 .. CapSize
  BY <1>1, <1>6, <1>7
<1>9. q \in [1 .. CapSize -> CapRec] /\ q[k] = x /\ \A i \in 1 .. CapSize : i # k => q[i] = cap[i]
  BY <1>1, <1>8
<1> QED
  BY <1>4, <1>5, <1>6, <1>7, <1>8, <1>9 DEF CapGiven

------------------------------------------------------------------------------
(* The initial state, and steps that leave the pools alone *)

\* A set of connections that grows counts no less, and never more than there are.
LEMMA Counted ==
  ASSUME NEW A \in SUBSET AllConns, NEW B \in SUBSET AllConns
  PROVE  /\ Cardinality(A) \in 0 .. 2 * MaxConn
         /\ A \subseteq B => Cardinality(A) <= Cardinality(B)
         /\ \A c \in B : A \cup {c} \subseteq B /\ c \notin A => Cardinality(A) + 1 <= Cardinality(B)
<1>1. IsFiniteSet(AllConns) /\ Cardinality(AllConns) = 2 * MaxConn /\ 2 * MaxConn \in Nat
  <2>1. 2 * MaxConn \in Nat /\ 1 \in Int
    BY Connections
  <2>2. IsFiniteSet(1 .. 2 * MaxConn) /\ Cardinality(1 .. 2 * MaxConn) = IF 1 > 2 * MaxConn THEN 0 ELSE 2 * MaxConn - 1 + 1
    BY <2>1, FS_Interval
  <2> QED
    BY <2>1, <2>2 DEF AllConns
<1>2. /\ IsFiniteSet(A) /\ Cardinality(A) <= Cardinality(AllConns)
      /\ IsFiniteSet(B)
  BY <1>1, FS_Subset
<1>3. Cardinality(A) \in Nat /\ Cardinality(B) \in Nat
  BY <1>2, FS_CardinalityType
<1>4. ASSUME A \subseteq B PROVE Cardinality(A) <= Cardinality(B)
  BY <1>2, <1>4, FS_Subset
<1>5. ASSUME NEW c \in B, A \cup {c} \subseteq B, c \notin A PROVE Cardinality(A) + 1 <= Cardinality(B)
  <2>1. Cardinality(A \cup {c}) = Cardinality(A) + 1
    BY <1>2, <1>5, FS_AddElement
  <2>2. Cardinality(A \cup {c}) <= Cardinality(B)
    BY <1>2, <1>5, FS_Subset
  <2> QED
    BY <2>1, <2>2
<1> QED
  BY <1>1, <1>2, <1>3, <1>4, <1>5

\* Initially the invariant holds.
LEMMA InitInv == Init => IInv
<1> SUFFICES ASSUME Init PROVE IInv
  OBVIOUS
<1>1. CapSize \in Nat /\ CapSize # 0 /\ 2 * MaxConn \in Nat
  BY TrunkAssumption, Connections
<1>2. /\ uri \in [accept : Uris, dispatch : Uris] /\ started = FALSE /\ udpPool = FALSE /\ shared = FALSE
      /\ crashed = FALSE /\ phase = "created" /\ cap = [i \in 1 .. CapSize |-> BlankCap]
      /\ nodes = << >> /\ tns = << >> /\ capCount = 0 /\ nodeCount = 0 /\ tnCount = 0 /\ null = {}
      /\ link = [c \in AllConns |-> "none"] /\ port = [c \in AllConns |-> 0]
      /\ thread = [c \in AllConns |-> [at |-> "none", tn |-> 0]]
      /\ acc = [at |-> "off", conn |-> 0, node |-> 0, port |-> 0, slot |-> 0]
      /\ recno = [p \in Ports \cup {0} |-> BlankSession]
  BY DEF Init, Idle
<1>3. cap \in [1 .. CapSize -> CapRec] /\ Len(cap) = CapSize /\ DOMAIN cap = 1 .. CapSize
  BY <1>1, <1>2 DEF CapRec, BlankCap
<1>4. TypeOK
  <2>1. \A i \in DOMAIN cap : cap[i] \in [proto : {"none", "tcp", "udp"}, fd : AllConns \cup {0, Listener}]
    BY <1>3 DEF CapRec
  <2>2. thread \in [AllConns -> [at : {"none", "queued", "unread", "read", "ended"}, tn : 0 .. Len(tns)]]
    BY <1>2
  <2>3. recno \in [Ports \cup {0} -> [conn : AllConns \cup {0}, port : Ports \cup {0}, readers : 0 .. 2 * MaxConn]]
    BY <1>1, <1>2 DEF BlankSession
  <2>4. DOMAIN nodes = {} /\ DOMAIN tns = {} /\ Len(nodes) = 0 /\ Len(tns) = 0
    BY <1>2
  <2>5. capCount \in 0 .. Len(cap) /\ nodeCount \in 0 .. Len(nodes) /\ tnCount \in 0 .. Len(tns)
    BY <1>1, <1>2, <1>3, <2>4
  <2>6. /\ acc.at \in {"off", "select", "starved", "tn", "file", "link", "dispatch"}
        /\ acc.conn \in AllConns \cup {0} /\ acc.slot \in 0 .. Len(cap)
    BY <1>1, <1>2, <1>3
  <2>7. link \in [AllConns -> {"none", "open", "closed", "reset"}] /\ port \in [AllConns -> Ports \cup {0}]
    BY <1>2
  <2> QED
    BY <1>2, <2>1, <2>2, <2>3, <2>4, <2>5, <2>6, <2>7 DEF TypeOK
<1>5. PoolsThere
  BY <1>2, <1>3 DEF PoolsThere, Serving
<1>6. CountersHold /\ InHand
  BY <1>2 DEF CountersHold, InHand, Serving
<1>7. ThreadsHavePlaces
  BY <1>2, Connections DEF ThreadsHavePlaces, Spawned
<1>8. ReadersCounted
  <2>1. Linked \in SUBSET AllConns
    BY DEF Linked
  <2>2. Cardinality(Linked) \in Nat
    BY <2>1, <1>1, Counted
  <2> QED
    BY <1>2, <2>2 DEF ReadersCounted, BlankSession
<1>9. Own
  BY <1>2 DEF Own, NodesAreOwn, TnsAreOwn, ListenerKept, Live
<1>10. SessionFiled
  BY <1>2 DEF SessionFiled, BlankSession
<1> QED
  BY <1>4, <1>5, <1>6, <1>7, <1>8, <1>9, <1>10 DEF IInv

\* Steps that change nothing but the connections' ends, what the plugin and the
\* pools know besides, and whether the program goes on.
LEMMA LinkInv ==
  ASSUME IInv,
         UNCHANGED <<uri, started, phase, cap, capCount, nodes, nodeCount, tns, tnCount, shared, port,
                     thread, acc, recno>>,
         link' \in [AllConns -> {"none", "open", "closed", "reset"}],
         \A c \in AllConns : link[c] # "none" => link'[c] # "none",
         udpPool' \in BOOLEAN, crashed' \in BOOLEAN, null' \subseteq {"nodes", "tns"}
  PROVE  IInv'
<1>1. /\ TypeOK /\ PoolsThere /\ CountersHold /\ InHand /\ ThreadsHavePlaces /\ ReadersCounted
      /\ Own /\ SessionFiled
  BY DEF IInv
<1>2. TypeOK'
  BY <1>1 DEF TypeOK
<1>3. PoolsThere' /\ CountersHold'
  BY <1>1 DEF PoolsThere, CountersHold, Serving
<1>4. InHand'
  BY <1>1 DEF InHand, Serving, Spawned
<1>5. ThreadsHavePlaces'
  BY <1>1 DEF ThreadsHavePlaces, Spawned
<1>6. ReadersCounted'
  BY <1>1 DEF ReadersCounted, Linked, Spawned
<1>7. Own' /\ SessionFiled'
  BY <1>1 DEF Own, NodesAreOwn, TnsAreOwn, ListenerKept, SessionFiled, Live, NodeOf
<1> QED
  BY <1>2, <1>3, <1>4, <1>5, <1>6, <1>7 DEF IInv

\* A peer closes or resets a connection, and a read returns an error.
LEMMA PeerClosesInv ==
  ASSUME IInv, NEW c \in AllConns, PeerCloses(c) \/ ReadError(c)
  PROVE  IInv'
<1>1. TypeOK
  BY DEF IInv
<1>2. UNCHANGED <<uri, started, phase, cap, capCount, nodes, nodeCount, tns, tnCount, null, shared, udpPool,
                  port, thread, acc, recno, crashed>>
  BY DEF PeerCloses, ReadError, poolVars
<1>3. \E d \in AllConns : \E how \in {"closed", "reset"} : link' = [link EXCEPT ![d] = how]
  BY DEF PeerCloses, ReadError
<1>4. link \in [AllConns -> {"none", "open", "closed", "reset"}]
  BY <1>1 DEF TypeOK
<1>5. /\ link' \in [AllConns -> {"none", "open", "closed", "reset"}]
      /\ \A d \in AllConns : link[d] # "none" => link'[d] # "none"
  BY <1>3, <1>4
<1>6. udpPool' \in BOOLEAN /\ crashed' \in BOOLEAN /\ null' \subseteq {"nodes", "tns"}
  BY <1>1, <1>2 DEF TypeOK
<1> QED
  BY <1>2, <1>5, <1>6, LinkInv

\* The program ends, or nothing happens.
LEMMA CrashInv ==
  ASSUME IInv,
         \/ UNCHANGED vars \/ LoadCrashes \/ UdpCrashes \/ SpawnCrashes \/ DispatchCrashes
         \/ \E c \in Conns : AcceptCrashes(c)
         \/ \E c \in AllConns : ReadCrashes(c)
  PROVE  IInv'
<1>1. TypeOK
  BY DEF IInv
<1>2. /\ UNCHANGED <<uri, started, phase, cap, capCount, nodes, nodeCount, tns, tnCount, null, shared, udpPool,
                     link, port, thread, acc, recno>>
      /\ crashed' \in {crashed, TRUE}
  BY DEF vars, poolVars, LoadCrashes, UdpCrashes, SpawnCrashes, DispatchCrashes, AcceptCrashes, ReadCrashes
<1>3. /\ link' \in [AllConns -> {"none", "open", "closed", "reset"}] /\ link' = link
      /\ udpPool' \in BOOLEAN /\ crashed' \in BOOLEAN /\ null' \subseteq {"nodes", "tns"}
  BY <1>1, <1>2 DEF TypeOK
<1> QED
  BY <1>2, <1>3, LinkInv

\* accept fails, or may succeed again: accept_thread has no connection in hand.
LEMMA StarvedInv ==
  ASSUME IInv, AcceptAgain \/ \E c \in Conns : AcceptFails(c)
  PROVE  IInv'
<1>1. /\ TypeOK /\ PoolsThere /\ CountersHold /\ InHand /\ ThreadsHavePlaces /\ ReadersCounted
      /\ Own /\ SessionFiled
  BY DEF IInv
<1>2. UNCHANGED <<uri, started, phase, cap, capCount, nodes, nodeCount, tns, tnCount, null, shared, udpPool,
                  link, port, thread, recno, crashed>>
  BY DEF AcceptAgain, AcceptFails, poolVars
<1>3. /\ acc.at \in {"select", "starved"}
      /\ \E at \in {"select", "starved"} : acc' = [acc EXCEPT !.at = at]
  BY DEF AcceptAgain, AcceptFails, Accepts
<1>4. acc \in [at : {"off", "select", "starved", "tn", "file", "link", "dispatch"}, conn : AllConns \cup {0},
               node : Nat, port : Ports \cup {0}, slot : Nat]
  BY <1>1 DEF PoolsThere
<1>5. /\ acc' \in [at : {"off", "select", "starved", "tn", "file", "link", "dispatch"}, conn : AllConns \cup {0},
                   node : Nat, port : Ports \cup {0}, slot : Nat]
      /\ acc'.at \in {"select", "starved"} /\ acc'.conn = acc.conn /\ acc'.slot = acc.slot
  BY <1>3, <1>4
<1>6. ~ Serving /\ ~ Serving'
  BY <1>3, <1>5 DEF Serving
<1>7. TypeOK'
  BY <1>1, <1>2, <1>5 DEF TypeOK
<1>8. PoolsThere' /\ CountersHold'
  BY <1>1, <1>2, <1>3, <1>5, <1>6 DEF PoolsThere, CountersHold
<1>9. InHand'
  BY <1>5, <1>6 DEF InHand, Serving
<1>10. ThreadsHavePlaces'
  BY <1>1, <1>2 DEF ThreadsHavePlaces, Spawned
<1>11. ReadersCounted'
  <2>1. Linked' = Linked
    BY <1>2, <1>3, <1>5 DEF Linked, Spawned
  <2> QED
    BY <1>1, <1>2, <2>1 DEF ReadersCounted, Spawned
<1>12. Own' /\ SessionFiled'
  BY <1>1, <1>2, <1>3, <1>5 DEF Own, NodesAreOwn, TnsAreOwn, ListenerKept, SessionFiled, Live, NodeOf
<1> QED
  BY <1>7, <1>8, <1>9, <1>10, <1>11, <1>12 DEF IInv

\* start_tcp_socket: nothing has a place in the pools yet.
LEMMA StartInv ==
  ASSUME IInv, start_tcp_socket
  PROVE  IInv'
<1>1. /\ TypeOK /\ PoolsThere /\ CountersHold /\ InHand /\ ThreadsHavePlaces /\ ReadersCounted
      /\ Own /\ SessionFiled
  BY DEF IInv
<1>2. /\ UNCHANGED <<uri, phase, cap, capCount, nodeCount, tnCount, null, shared, udpPool, link, port,
                     thread, acc, recno, crashed>>
      /\ started' = TRUE /\ ~ started /\ phase = "created"
  BY DEF start_tcp_socket
<1>3. PICK size \in PoolSizes : /\ nodes' = [i \in 1 .. size |-> BlankNode]
                                /\ tns' = [i \in 1 .. size |-> BlankTn]
  BY DEF start_tcp_socket
<1>4. size \in Nat /\ size # 0
  BY TrunkAssumption
<1>5. BlankNode \in NodeRec /\ BlankTn \in [run : BOOLEAN, node : 0 .. size]
  BY <1>4 DEF NodeRec, BlankNode, BlankTn
<1>6. /\ nodes' \in Seq(NodeRec) /\ Len(nodes') = size /\ DOMAIN nodes' = 1 .. size
      /\ \A i \in 1 .. size : nodes'[i] = BlankNode
  BY <1>3, <1>4, <1>5
<1>7. /\ tns' \in Seq([run : BOOLEAN, node : 0 .. size]) /\ Len(tns') = size /\ DOMAIN tns' = 1 .. size
      /\ \A i \in 1 .. size : tns'[i] \in [run : BOOLEAN, node : 0 .. size]
  BY <1>3, <1>4, <1>5
<1>8. /\ nodes = << >> /\ tns = << >> /\ acc.at = "off"
      /\ \A c \in AllConns : thread[c].at = "none"
  BY <1>1, <1>2 DEF PoolsThere
<1>9. TypeOK'
  <2>1. nodeCount = 0 /\ tnCount = 0 /\ Len(tns) = 0
    BY <1>1, <1>8 DEF TypeOK
  <2>2. thread \in [AllConns -> [at : {"none", "queued", "unread", "read", "ended"}, tn : 0 .. size]]
    <3>1. thread \in [AllConns -> [at : {"none", "queued", "unread", "read", "ended"}, tn : 0 .. 0]]
      BY <1>1, <2>1 DEF TypeOK
    <3> QED
      BY <1>4, <3>1
  <2>3. \A i \in DOMAIN nodes' : nodes'[i] \in [fd : AllConns \cup {0, Listener}, port : Ports \cup {0}]
    BY <1>5, <1>6 DEF NodeRec
  <2>4. \A i \in DOMAIN tns' : tns'[i] \in [run : BOOLEAN, node : 0 .. Len(nodes')]
    BY <1>6, <1>7
  <2>5. nodeCount' \in 0 .. Len(nodes') /\ tnCount' \in 0 .. Len(tns')
    BY <1>2, <1>4, <1>6, <1>7, <2>1
  <2>6. thread' \in [AllConns -> [at : {"none", "queued", "unread", "read", "ended"}, tn : 0 .. Len(tns')]]
    BY <1>2, <1>7, <2>2
  <2> QED
    BY <1>1, <1>2, <2>3, <2>4, <2>5, <2>6 DEF TypeOK
<1>10. PoolsThere'
  <2>0. BlankTn \in [run : BOOLEAN, node : Nat]
    BY DEF BlankTn
  <2>1. tns' \in Seq([run : BOOLEAN, node : Nat])
    BY <1>3, <1>4, <2>0
  <2>2. nodes' # << >> /\ tns' # << >>
    BY <1>4, <1>6, <1>7
  <2> QED
    BY <1>1, <1>2, <1>6, <1>8, <2>1, <2>2 DEF PoolsThere, Serving
<1>11. CountersHold' /\ InHand'
  BY <1>1, <1>2, <1>8 DEF CountersHold, InHand, Serving
<1>12. ThreadsHavePlaces'
  BY <1>1, <1>2, <1>8 DEF ThreadsHavePlaces, Spawned
<1>13. ReadersCounted' /\ SessionFiled'
  BY <1>1, <1>2 DEF ReadersCounted, Linked, Spawned, SessionFiled
<1>14. Own'
  BY <1>2, <1>6, <1>8 DEF Own, NodesAreOwn, TnsAreOwn, ListenerKept, Live, BlankNode
<1> QED
  BY <1>9, <1>10, <1>11, <1>12, <1>13, <1>14 DEF IInv

\* Before the plugin is loaded every place of cap is free, and the first is the
\* one handed out.
LEMMA FirstPlace ==
  ASSUME IInv, phase = "created"
  PROVE  Place(CapBusy, capCount) = 1 /\ capCount = 0 /\ acc.at = "off"
<1>1. cap \in [1 .. CapSize -> CapRec] /\ acc.at = "off" /\ \A i \in 1 .. CapSize : cap[i] = BlankCap
  BY DEF IInv, PoolsThere
<1>2. CapSize \in Nat /\ 1 \in 1 .. CapSize
  BY TrunkAssumption
<1>3. capCount = 0
  BY <1>1 DEF IInv, CountersHold
<1> DEFINE F == FreePlaces(CapBusy)
<1>4. F = 1 .. CapSize
  <2>1. DOMAIN CapBusy = 1 .. CapSize /\ \A i \in 1 .. CapSize : ~ CapBusy[i]
    <3>1. DOMAIN cap = 1 .. CapSize /\ \A i \in 1 .. CapSize : cap[i].proto = "none"
      BY <1>1 DEF BlankCap
    <3> QED
      BY <3>1, Zenon DEF CapBusy
  <2> QED
    BY <2>1 DEF FreePlaces
<1>5. Place(CapBusy, capCount) = CHOOSE i \in F : \A j \in F : i <= j
  BY <1>2, <1>4 DEF Place, Full
<1> HIDE DEF F
<1>6. \E i \in F : \A j \in F : i <= j
  BY <1>2, <1>4
<1>7. Place(CapBusy, capCount) \in F /\ \A j \in F : Place(CapBusy, capCount) <= j
  BY <1>5, <1>6
<1> QED
  BY <1>1, <1>2, <1>3, <1>4, <1>7

\* dmmr_plugin_load, whether or not it succeeds.
LEMMA LoadInv ==
  ASSUME IInv, phase = "created", LoadFails \/ start_tcp_service \/ start_udp_service
  PROVE  IInv'
<1>1. /\ TypeOK /\ PoolsThere /\ CountersHold /\ InHand /\ ThreadsHavePlaces /\ ReadersCounted
      /\ Own /\ SessionFiled
  BY DEF IInv
<1>2. UNCHANGED <<uri, started, capCount, nodes, nodeCount, tns, tnCount, null, shared, udpPool, link,
                  port, thread, recno, crashed>>
  BY DEF LoadFails, start_tcp_service, start_udp_service
<1>3. Place(CapBusy, capCount) = 1 /\ capCount = 0 /\ acc.at = "off"
  BY FirstPlace
<1>4. phase' \in {"idle", "up"}
  BY DEF LoadFails, start_tcp_service, start_udp_service
<1>5. cap' = cap \/ \E x \in CapRec : cap' = [cap EXCEPT ![1] = x]
  <2>1. \A f \in {0, Listener} : [proto |-> parse_protocol_host_port(uri.accept), fd |-> f] \in CapRec
    BY DEF CapRec, parse_protocol_host_port
  <2>2. [proto |-> "tcp", fd |-> Listener] \in CapRec /\ [proto |-> "udp", fd |-> Listener] \in CapRec
    BY DEF CapRec
  <2> QED
    BY <1>3, <2>1, <2>2 DEF LoadFails, start_tcp_service, start_udp_service
<1>6. cap \in [1 .. CapSize -> CapRec] /\ CapSize \in Nat /\ 1 \in 1 .. CapSize
  BY <1>1, TrunkAssumption DEF PoolsThere
<1>7. cap' \in [1 .. CapSize -> CapRec]
  BY <1>5, <1>6
<1>8. \/ acc' = acc
      \/ /\ acc' = [at |-> "select", conn |-> 0, node |-> 0, port |-> 0, slot |-> 1]
         /\ cap' = [cap EXCEPT ![1] = [proto |-> "tcp", fd |-> Listener]]
  BY <1>3 DEF LoadFails, start_tcp_service, start_udp_service, Idle
<1>9. acc'.at = "off" \/ (acc'.at = "select" /\ acc'.slot = 1 /\ cap'[1] = [proto |-> "tcp", fd |-> Listener])
  BY <1>3, <1>6, <1>8
<1>10. /\ acc' \in [at : {"off", "select", "starved", "tn", "file", "link", "dispatch"}, conn : AllConns \cup {0},
                    node : Nat, port : Ports \cup {0}, slot : Nat]
       /\ acc'.slot \in 0 .. CapSize
  <2>1. acc.slot \in 0 .. CapSize
    BY <1>1, <1>6 DEF TypeOK
  <2> QED
    BY <1>1, <1>6, <1>8, <2>1 DEF PoolsThere
<1>11. Len(cap) = CapSize /\ Len(cap') = CapSize /\ DOMAIN cap' = 1 .. CapSize
  BY <1>6, <1>7
<1>12. TypeOK'
  <2>1. \A i \in DOMAIN cap' : cap'[i] \in [proto : {"none", "tcp", "udp"}, fd : AllConns \cup {0, Listener}]
    BY <1>7, <1>11 DEF CapRec
  <2>2. capCount' \in 0 .. Len(cap')
    BY <1>2, <1>3, <1>6, <1>11
  <2>3. /\ acc'.at \in {"off", "select", "starved", "tn", "file", "link", "dispatch"}
        /\ acc'.conn \in AllConns \cup {0} /\ acc'.slot \in 0 .. Len(cap')
    BY <1>10, <1>11
  <2> QED
    BY <1>1, <1>2, <1>4, <2>1, <2>2, <2>3 DEF TypeOK
<1>13. PoolsThere'
  BY <1>1, <1>2, <1>3, <1>4, <1>7, <1>9, <1>10 DEF PoolsThere, Serving
<1>14. CountersHold' /\ InHand'
  BY <1>1, <1>2, <1>3, <1>9 DEF CountersHold, InHand, Serving
<1>15. ThreadsHavePlaces'
  BY <1>1, <1>2 DEF ThreadsHavePlaces, Spawned
<1>16. ReadersCounted'
  <2>1. Linked' = Linked
    BY <1>2, <1>3, <1>9 DEF Linked, Spawned
  <2> QED
    BY <1>1, <1>2, <2>1 DEF ReadersCounted, Spawned
<1>17. SessionFiled'
  BY <1>1, <1>2, <1>3, <1>9 DEF SessionFiled
<1>18. Own'
  BY <1>1, <1>2, <1>3, <1>9 DEF Own, NodesAreOwn, TnsAreOwn, ListenerKept, Live, NodeOf
<1> QED
  BY <1>12, <1>13, <1>14, <1>15, <1>16, <1>17, <1>18 DEF IInv

\* The sessions stay filed when the table does not change, and the connections
\* with a thread keep their port.
LEMMA FiledFrame ==
  ASSUME IInv, UNCHANGED recno, shared => shared',
         acc.at = "link" => acc'.at = "link" /\ acc'.port = acc.port,
         \A c \in AllConns : Spawned(c) => /\ port'[c] = port[c] /\ Spawned(c)'
                                           /\ thread[c].at = "ended" => thread'[c].at = "ended"
  PROVE  SessionFiled'
<1> SUFFICES ASSUME ~ shared', NEW p \in DOMAIN recno, recno[p].readers > 0,
                    ~ (acc'.at = "link" /\ acc'.port = p)
             PROVE  \/ recno[p].port = p /\ p = port'[recno[p].conn]
                    \/ /\ p \in {0, port'[recno[p].conn]} /\ recno[p].port \in {0, p}
                       /\ thread'[recno[p].conn].at = "ended"
  BY DEF SessionFiled
<1>1. recno[p].conn \in AllConns /\ Spawned(recno[p].conn)
  BY DEF IInv, ReadersCounted
<1>2. \/ recno[p].port = p /\ p = port[recno[p].conn]
      \/ /\ p \in {0, port[recno[p].conn]} /\ recno[p].port \in {0, p}
         /\ thread[recno[p].conn].at = "ended"
  BY DEF IInv, SessionFiled
<1> QED
  BY <1>1, <1>2

\* Nor does the count of readers grow then.
LEMMA ReadersFrame ==
  ASSUME IInv, UNCHANGED recno, Linked \subseteq Linked', \A c \in AllConns : Spawned(c) => Spawned(c)'
  PROVE  ReadersCounted'
<1>1. Linked \in SUBSET AllConns /\ Linked' \in SUBSET AllConns
  BY DEF Linked
<1>2. /\ Cardinality(Linked) \in 0 .. 2 * MaxConn /\ Cardinality(Linked') \in 0 .. 2 * MaxConn
      /\ Cardinality(Linked) <= Cardinality(Linked')
  BY <1>1, Counted
<1>3. ASSUME NEW p \in DOMAIN recno
      PROVE  recno[p].readers <= Cardinality(Linked')
  <2>1. recno[p].readers <= Cardinality(Linked) /\ recno[p].readers \in Nat
    BY DEF IInv, ReadersCounted, TypeOK
  <2> QED
    BY <1>2, <2>1, Connections
<1>4. \A p \in DOMAIN recno : recno[p].readers > 0 => recno[p].conn \in AllConns /\ Spawned(recno[p].conn)
  BY DEF IInv, ReadersCounted
<1> QED
  BY <1>3, <1>4 DEF ReadersCounted

\* A peer connects: its connection has no thread and no session yet.
LEMMA PeerConnectsInv ==
  ASSUME IInv, NEW c \in Conns, PeerConnects(c)
  PROVE  IInv'
<1>1. /\ TypeOK /\ PoolsThere /\ CountersHold /\ InHand /\ ThreadsHavePlaces /\ ReadersCounted
      /\ Own /\ SessionFiled
  BY DEF IInv
<1>2. /\ UNCHANGED <<uri, started, phase, cap, capCount, nodes, nodeCount, tns, tnCount, null, shared, udpPool,
                     acc, recno, crashed>>
      /\ link[c] = "none" /\ link' = [link EXCEPT ![c] = "open"] /\ acc.at # "off"
      /\ thread' = [thread EXCEPT ![c].at = "queued"]
  BY DEF PeerConnects, poolVars
<1>3. PICK p \in Ports : port' = [port EXCEPT ![c] = p]
  BY DEF PeerConnects
<1>4. c \in AllConns
  BY Connections
<1>5. /\ link \in [AllConns -> {"none", "open", "closed", "reset"}] /\ port \in [AllConns -> Ports \cup {0}]
      /\ thread \in [AllConns -> [at : {"none", "queued", "unread", "read", "ended"}, tn : 0 .. Len(tns)]]
  BY <1>1 DEF TypeOK
<1>6. thread[c].at = "none" /\ (Serving => acc.conn # c)
  BY <1>1, <1>2, <1>4 DEF ThreadsHavePlaces, InHand
<1>7. /\ link' \in [AllConns -> {"none", "open", "closed", "reset"}] /\ port' \in [AllConns -> Ports \cup {0}]
      /\ thread' \in [AllConns -> [at : {"none", "queued", "unread", "read", "ended"}, tn : 0 .. Len(tns)]]
      /\ thread'[c].at = "queued" /\ link'[c] = "open"
      /\ \A d \in AllConns : d # c => thread'[d] = thread[d] /\ link'[d] = link[d] /\ port'[d] = port[d]
  BY <1>2, <1>3, <1>4, <1>5
<1>8. TypeOK'
  BY <1>1, <1>2, <1>7 DEF TypeOK
<1>9. PoolsThere' /\ CountersHold'
  BY <1>1, <1>2 DEF PoolsThere, CountersHold, Serving
<1>10. \A d \in AllConns : /\ Spawned(d)' <=> Spawned(d) 
                           /\ Live(d)' <=> Live(d) 
                           /\ Spawned(d) => thread'[d] = thread[d] /\ port'[d] = port[d]
  BY <1>6, <1>7 DEF Spawned, Live
<1>11. InHand'
  <2>1. Serving' <=> Serving
    BY <1>2 DEF Serving
  <2>2. \A d \in Conns : d \in AllConns /\ Opened(d) \in AllConns /\ Opened(d) # c
    BY Connections
  <2> QED
    BY <1>1, <1>2, <1>4, <1>6, <1>7, <1>10, <2>1, <2>2 DEF InHand, Serving
<1>12. ThreadsHavePlaces'
  <2>1. \A d \in Conns : d \in AllConns /\ Opened(d) \in AllConns /\ Opened(d) # c
    BY Connections
  <2> QED
    BY <1>1, <1>2, <1>7, <1>10, <2>1 DEF ThreadsHavePlaces
<1>13. ReadersCounted'
  <2>1. Linked' = Linked
    BY <1>2, <1>10 DEF Linked
  <2> QED
    BY <1>1, <1>2, <1>10, <2>1 DEF ReadersCounted
<1>14. SessionFiled'
  BY <1>2, <1>10, FiledFrame
<1>15. Own'
  <2> SUFFICES ASSUME ~ shared PROVE NodesAreOwn' /\ TnsAreOwn' /\ ListenerKept'
    BY <1>2 DEF Own
  <2>1. NodesAreOwn /\ TnsAreOwn /\ ListenerKept
    BY <1>1 DEF Own
  <2>2. \A i \in DOMAIN nodes : nodes[i].fd # 0 => nodes[i].fd # c
    BY <1>6, <2>1 DEF NodesAreOwn, Live, Serving
  <2>3. \A d \in AllConns : Live(d) => NodeOf(d)' = NodeOf(d) /\ thread'[d] = thread[d]
    BY <1>2, <1>6, <1>7 DEF NodeOf, Live
  <2>4. acc.at \in {"file", "link"} => acc.conn \in AllConns /\ acc.conn # c /\ thread'[acc.conn] = thread[acc.conn]
    BY <1>1, <1>6, <1>7 DEF Serving, InHand
  <2>5. acc.at \in {"file", "link"} => NodeOf(acc.conn)' = NodeOf(acc.conn)
    BY <1>2, <2>4 DEF NodeOf
  <2>6. NodesAreOwn'
    BY <1>2, <1>7, <1>10, <2>1, <2>2, <2>3, <2>4, <2>5 DEF NodesAreOwn
  <2>7. TnsAreOwn' /\ ListenerKept'
    BY <1>2, <1>10, <2>1, <2>3 DEF TnsAreOwn, ListenerKept
  <2> QED
    BY <2>6, <2>7
<1> QED
  BY <1>8, <1>9, <1>11, <1>12, <1>13, <1>14, <1>15 DEF IInv

------------------------------------------------------------------------------
(* The connection gets its node and its tcp_node *)

\* What a step does that takes a connection in hand and gets it a node: c is
\* the connection, p its port and n the node.
TakesNode(c, p, n) ==
  /\ started /\ acc.at \in {"select", "dispatch"} /\ GetNode(n, c, p)
  /\ acc' = [acc EXCEPT !.at = "tn", !.conn = c, !.node = n]
  /\ UNCHANGED <<uri, started, phase, tns, tnCount, null, udpPool, recno, crashed>>
  /\ link' \in [AllConns -> {"none", "open", "closed", "reset"}]
  /\ \A d \in AllConns : link[d] # "none" => link'[d] # "none"
  /\ port' \in [AllConns -> Ports \cup {0}] /\ port'[c] = p
  /\ thread' \in [AllConns -> [at : {"none", "queued", "unread", "read", "ended"}, tn : 0 .. Len(tns)]]
  /\ link'[c] # "none" /\ thread'[c].at = "none" /\ thread[c].at \in {"none", "queued"}
  /\ \A d \in AllConns : d # c => thread'[d] = thread[d] /\ port'[d] = port[d]
  /\ c \in Conns => thread[Opened(c)].at = "none"
  /\ \A d \in Conns : c = Opened(d) => Spawned(d)

\* What such a step does to cap, and what it remembers of shared places.
CapKept(c) ==
  /\ cap' \in [1 .. CapSize -> CapRec] /\ capCount' \in {0, 1} /\ shared' \in BOOLEAN
  /\ shared \/ Shares(NodeBusy, nodeCount) => shared'
  /\ ~ shared' => capCount' = 0 /\ cap'[1] = [proto |-> "tcp", fd |-> Listener]
  /\ capCount' = 1 => cap'[1].fd # Listener /\ c \notin Conns

\* Ranges grow with their end.
LEMMA Wider ==
  ASSUME NEW m \in Nat, NEW k \in Nat, m <= k
  PROVE  0 .. m \subseteq 0 .. k /\ 1 .. m \subseteq 1 .. k
  OBVIOUS

\* Such a step keeps the invariant.
LEMMA TakesNodeInv ==
  ASSUME IInv, NEW c \in AllConns, NEW p \in Ports \cup {0}, NEW n, TakesNode(c, p, n), CapKept(c)
  PROVE  IInv'
<1>1. /\ TypeOK /\ PoolsThere /\ CountersHold /\ InHand /\ ThreadsHavePlaces /\ ReadersCounted
      /\ Own /\ SessionFiled
  BY DEF IInv
<1>2. /\ started /\ acc.at \in {"select", "dispatch"} /\ GetNode(n, c, p)
      /\ acc' = [acc EXCEPT !.at = "tn", !.conn = c, !.node = n]
      /\ UNCHANGED <<uri, started, phase, tns, tnCount, null, udpPool, recno, crashed>>
  BY DEF TakesNode
<1>3. /\ link' \in [AllConns -> {"none", "open", "closed", "reset"}]
      /\ \A d \in AllConns : link[d] # "none" => link'[d] # "none"
      /\ port' \in [AllConns -> Ports \cup {0}] /\ port'[c] = p
      /\ thread' \in [AllConns -> [at : {"none", "queued", "unread", "read", "ended"}, tn : 0 .. Len(tns)]]
      /\ link'[c] # "none" /\ thread'[c].at = "none" /\ thread[c].at \in {"none", "queued"}
      /\ \A d \in AllConns : d # c => thread'[d] = thread[d] /\ port'[d] = port[d]
  BY DEF TakesNode
<1>4. /\ nodes' \in Seq(NodeRec) /\ Len(nodes) <= Len(nodes') /\ n \in 1 .. Len(nodes')
      /\ nodes'[n] = [fd |-> c, port |-> p]
      /\ \A i \in 1 .. Len(nodes) : i # n => nodes'[i] = nodes[i]
      /\ nodeCount' \in 0 .. Len(nodes')
      /\ ~ (shared \/ Shares(NodeBusy, nodeCount)) =>
           Len(nodes') = Len(nodes) /\ nodeCount' = 0 /\ nodes[n].fd = 0
  BY <1>2, NodeHandedOut
<1>40. /\ cap' \in [1 .. CapSize -> CapRec] /\ capCount' \in {0, 1} /\ shared' \in BOOLEAN
       /\ shared \/ Shares(NodeBusy, nodeCount) => shared'
       /\ ~ shared' => capCount' = 0 /\ cap'[1] = [proto |-> "tcp", fd |-> Listener]
       /\ capCount' = 1 => cap'[1].fd # Listener /\ c \notin Conns
  BY DEF CapKept
<1>41. nodes' \in Seq(NodeRec) /\ Len(nodes) <= Len(nodes') /\ n \in 1 .. Len(nodes')
  BY <1>4
<1>5. /\ nodes \in Seq(NodeRec) /\ Len(nodes) \in Nat /\ Len(nodes') \in Nat
      /\ DOMAIN nodes = 1 .. Len(nodes) /\ DOMAIN nodes' = 1 .. Len(nodes')
      /\ acc \in [at : {"off", "select", "starved", "tn", "file", "link", "dispatch"}, conn : AllConns \cup {0},
                  node : Nat, port : Ports \cup {0}, slot : Nat]
  BY <1>1, <1>41 DEF PoolsThere
<1>51. 0 .. Len(nodes) \subseteq 0 .. Len(nodes') /\ 1 .. Len(nodes) \subseteq 1 .. Len(nodes')
  BY <1>41, <1>5, Wider
<1>6. /\ acc' \in [at : {"off", "select", "starved", "tn", "file", "link", "dispatch"}, conn : AllConns \cup {0},
                   node : Nat, port : Ports \cup {0}, slot : Nat]
      /\ acc'.at = "tn" /\ acc'.conn = c /\ acc'.node = n /\ acc'.slot = 1
  <2>1. n \in Nat /\ acc.slot = 1
    BY <1>1, <1>2, <1>4 DEF CountersHold
  <2> QED
    BY <1>2, <1>5, <2>1
<1>7. \A d \in AllConns : /\ Spawned(d)' <=> Spawned(d) 
                          /\ Live(d)' <=> Live(d) 
                          /\ Spawned(d) => d # c /\ thread'[d] = thread[d] /\ port'[d] = port[d]
  BY <1>3 DEF Spawned, Live
<1>8. CapSize \in Nat /\ CapSize # 0 /\ Len(cap') = CapSize /\ DOMAIN cap' = 1 .. CapSize
  BY <1>40, TrunkAssumption
<1>9. TypeOK'
  <2>1. \A i \in DOMAIN cap' : cap'[i] \in [proto : {"none", "tcp", "udp"}, fd : AllConns \cup {0, Listener}]
    BY <1>8, <1>40 DEF CapRec
  <2>2. capCount' \in 0 .. Len(cap')
    BY <1>8, <1>40
  <2>3. \A i \in DOMAIN nodes' : nodes'[i] \in [fd : AllConns \cup {0, Listener}, port : Ports \cup {0}]
    <3>1. \A i \in DOMAIN nodes' : nodes'[i] \in NodeRec
      BY <1>41, <1>5
    <3> QED
      BY <3>1 DEF NodeRec
  <2>4. \A i \in DOMAIN tns : tns[i] \in [run : BOOLEAN, node : 0 .. Len(nodes')]
    <3>1. \A i \in DOMAIN tns : tns[i] \in [run : BOOLEAN, node : 0 .. Len(nodes)]
      BY <1>1 DEF TypeOK
    <3> QED
      BY <1>51, <3>1
  <2>5. /\ acc'.at \in {"off", "select", "starved", "tn", "file", "link", "dispatch"}
        /\ acc'.conn \in AllConns \cup {0} /\ acc'.slot \in 0 .. Len(cap')
    BY <1>6, <1>8
  <2> QED
    BY <1>1, <1>2, <1>3, <1>4, <1>40, <2>1, <2>2, <2>3, <2>4, <2>5 DEF TypeOK
<1>10. PoolsThere'
  <2>1. phase # "created"
    BY <1>1, <1>2 DEF PoolsThere
  <2>2. nodes' # << >>
    BY <1>41
  <2> QED
    BY <1>1, <1>2, <1>40, <1>41, <1>6, <2>1, <2>2 DEF PoolsThere, Serving
<1>11. CountersHold'
  BY <1>1, <1>2, <1>4, <1>40, <1>6 DEF CountersHold, Serving
<1>12. InHand'
  <2>1. \A d \in Conns : d \in AllConns /\ Opened(d) \in AllConns /\ Opened(d) # d
    BY Connections
  <2>2. c \in Conns => thread'[Opened(c)].at = "none"
    BY <1>3, <2>1 DEF TakesNode
  <2>3. \A d \in Conns : c = Opened(d) => Spawned(d)'
    BY <1>7, <2>1 DEF TakesNode
  <2> QED
    BY <1>3, <1>4, <1>6, <2>2, <2>3 DEF InHand
<1>13. ThreadsHavePlaces'
  <2>1. \A d \in Conns : d \in AllConns /\ Opened(d) \in AllConns
    BY Connections
  <2>2. \A d \in AllConns : thread'[d].at # "none" => link'[d] # "none"
    BY <1>1, <1>3 DEF ThreadsHavePlaces
  <2>3. \A d \in Conns : thread'[Opened(d)].at # "none" => Spawned(d)'
    BY <1>1, <1>3, <1>7, <2>1 DEF ThreadsHavePlaces
  <2>4. \A d \in AllConns : Spawned(d) => thread[d].tn \in 1 .. Len(tns) /\ tns[thread[d].tn].node \in 1 .. Len(nodes)
    BY <1>1 DEF ThreadsHavePlaces
  <2>6. \A d \in AllConns : Spawned(d)' =>
          thread'[d].tn \in 1 .. Len(tns') /\ tns'[thread'[d].tn].node \in 1 .. Len(nodes')
    BY <1>2, <1>51, <1>7, <2>4
  <2> QED
    BY <2>2, <2>3, <2>6 DEF ThreadsHavePlaces
<1>14. ReadersCounted'
  <2>1. Linked \subseteq Linked'
    BY <1>2, <1>6, <1>7 DEF Linked
  <2> QED
    BY <1>2, <1>7, <2>1, ReadersFrame
<1>15. SessionFiled'
  BY <1>2, <1>40, <1>6, <1>7, FiledFrame
<1>16. Own'
  <2> SUFFICES ASSUME ~ shared' PROVE NodesAreOwn' /\ TnsAreOwn' /\ ListenerKept'
    BY DEF Own
  <2>1. NodesAreOwn /\ TnsAreOwn /\ ListenerKept
    BY <1>1, <1>40 DEF Own
  <2>2. /\ Len(nodes') = Len(nodes) /\ nodes[n].fd = 0 /\ n \in 1 .. Len(nodes)
        /\ nodes'[n].fd = c /\ nodes'[n].port = p
        /\ \A i \in 1 .. Len(nodes) : i # n => nodes'[i] = nodes[i]
    BY <1>4, <1>40
  <2>3. \A i \in 1 .. Len(nodes) : nodes[i].fd # 0 =>
          /\ nodes[i].fd \in AllConns /\ nodes[i].port = port[nodes[i].fd]
          /\ \A j \in 1 .. Len(nodes) : nodes[i].fd = nodes[j].fd => i = j
          /\ Live(nodes[i].fd) \/ thread[nodes[i].fd].at = "unread"
    BY <1>2, <1>5, <2>1 DEF NodesAreOwn
  <2>4. \A i \in 1 .. Len(nodes) : nodes[i].fd # c
    <3> SUFFICES ASSUME NEW i \in 1 .. Len(nodes), nodes[i].fd = c PROVE FALSE
      OBVIOUS
    <3>1. c # 0
      BY Connections
    <3>2. thread[c].at \in {"read", "unread"}
      BY <2>3, <3>1 DEF Live
    <3> QED
      BY <1>3, <3>2
  <2>5. \A d \in AllConns : Live(d) => NodeOf(d)' = NodeOf(d) /\ NodeOf(d) \in 1 .. Len(nodes)
    BY <1>1, <1>2, <1>7 DEF NodeOf, Live, Spawned, ThreadsHavePlaces
  <2>6. \A d \in AllConns : Live(d)' => nodes'[NodeOf(d)'].fd = d
    <3>1. \A d \in AllConns : Live(d) => nodes[NodeOf(d)].fd = d /\ d # 0
      BY <2>1, Connections DEF NodesAreOwn
    <3> QED
      BY <1>7, <2>2, <2>5, <3>1
  <2>7. ASSUME NEW i \in 1 .. Len(nodes), nodes'[i].fd # 0
        PROVE  /\ nodes'[i].fd \in AllConns /\ nodes'[i].port = port'[nodes'[i].fd]
               /\ \A j \in 1 .. Len(nodes) : nodes'[i].fd = nodes'[j].fd => i = j
               /\ \/ thread'[nodes'[i].fd].at \in {"read", "unread"}
                  \/ nodes'[i].fd = c
    <3>1. \A j \in 1 .. Len(nodes) : nodes'[i].fd = nodes'[j].fd => i = j
      BY <2>2, <2>3, <2>4, <2>7
    <3>2. CASE i = n
      BY <1>3, <2>2, <3>1, <3>2
    <3>3. CASE i # n
      <4>1. /\ nodes'[i] = nodes[i] /\ nodes[i].fd \in AllConns /\ nodes[i].fd # c
            /\ nodes[i].port = port[nodes[i].fd]
            /\ Live(nodes[i].fd) \/ thread[nodes[i].fd].at = "unread"
        BY <2>2, <2>3, <2>4, <2>7, <3>3
      <4>2. nodes[i].port = port'[nodes[i].fd] /\ thread'[nodes[i].fd] = thread[nodes[i].fd]
        BY <1>3, <4>1
      <4>3. thread'[nodes[i].fd].at \in {"read", "unread"}
        BY <4>1, <4>2 DEF Live
      <4> QED
        BY <3>1, <4>1, <4>2, <4>3
    <3> QED
      BY <3>2, <3>3
  <2>8. NodesAreOwn'
    <3>1. DOMAIN nodes' = 1 .. Len(nodes)
      BY <1>5, <2>2
    <3> QED
      BY <1>6, <2>2, <2>6, <2>7, <3>1 DEF NodesAreOwn, Live
  <2>9. TnsAreOwn' /\ ListenerKept'
    BY <1>2, <1>40, <1>7, <2>1 DEF TnsAreOwn, ListenerKept, Live, Spawned
  <2> QED
    BY <2>8, <2>9
<1> QED
  BY <1>9, <1>10, <1>11, <1>12, <1>13, <1>14, <1>15, <1>16 DEF IInv

\* accept_thread gets a node for a connection it accepted: it does so only as
\* long as the listener has its place of cap.
LEMMA AcceptNodeInv ==
  ASSUME IInv, NEW c \in Conns, AcceptNode(c)
  PROVE  IInv'
<1>1. /\ TypeOK /\ PoolsThere /\ CountersHold /\ ThreadsHavePlaces /\ Own
  BY DEF IInv
<1>2. /\ Accepts(c) /\ started
      /\ shared' = (shared \/ Shares(NodeBusy, nodeCount))
      /\ thread' = [thread EXCEPT ![c].at = "none"]
      /\ UNCHANGED <<uri, started, phase, cap, capCount, tns, tnCount, null, udpPool, link, port, recno, crashed>>
  BY DEF AcceptNode
<1>3. PICK n \in 1 .. Len(nodes) + 1 :
        GetNode(n, c, port[c]) /\ acc' = [acc EXCEPT !.at = "tn", !.conn = c, !.node = n]
  BY DEF AcceptNode
<1>4. acc.at = "select" /\ cap[acc.slot].fd = Listener /\ thread[c].at = "queued"
  BY <1>2 DEF Accepts
<1>5. acc.slot = 1 /\ capCount = 0
  BY <1>1, <1>4 DEF CountersHold
<1>6. c \in AllConns /\ Opened(c) \in AllConns /\ \A d \in Conns : c # Opened(d)
  BY Connections
<1>7. /\ link \in [AllConns -> {"none", "open", "closed", "reset"}] /\ port \in [AllConns -> Ports \cup {0}]
      /\ thread \in [AllConns -> [at : {"none", "queued", "unread", "read", "ended"}, tn : 0 .. Len(tns)]]
      /\ shared \in BOOLEAN
  BY <1>1 DEF TypeOK
<1>8. link[c] # "none" /\ thread[Opened(c)].at = "none"
  BY <1>1, <1>4, <1>6 DEF ThreadsHavePlaces, Spawned
<1>9. /\ thread' \in [AllConns -> [at : {"none", "queued", "unread", "read", "ended"}, tn : 0 .. Len(tns)]]
      /\ thread'[c].at = "none" /\ \A d \in AllConns : d # c => thread'[d] = thread[d]
  BY <1>2, <1>6, <1>7
<1>10. TakesNode(c, port[c], n)
  BY <1>2, <1>3, <1>4, <1>6, <1>7, <1>8, <1>9 DEF TakesNode
<1>11. cap' \in [1 .. CapSize -> CapRec] /\ shared' \in BOOLEAN /\ port[c] \in Ports \cup {0}
  BY <1>1, <1>2, <1>6, <1>7 DEF PoolsThere
<1>12. ~ shared' => cap'[1] = [proto |-> "tcp", fd |-> Listener]
  BY <1>1, <1>2, <1>4 DEF Own, ListenerKept
<1>13. CapKept(c)
  <2>1. shared \/ Shares(NodeBusy, nodeCount) => shared'
    BY <1>2, Zenon
  <2>2. capCount' = 0
    BY <1>2, <1>5
  <2> QED
    BY <1>11, <1>12, <2>1, <2>2 DEF CapKept
<1> QED
  BY <1>6, <1>10, <1>11, <1>13, TakesNodeInv

\* What taking a place of cap for the dispatch URI does: the place is not the
\* listener's, unless the pool is exhausted; and then it is the last one.
LEMMA DispatchPlace ==
  ASSUME IInv, acc.at = "dispatch", NEW fd \in AllConns \cup {0},
         cap' = [cap EXCEPT ![Place(CapBusy, capCount)] = [proto |-> "tcp", fd |-> fd]],
         capCount' = CountAfter(CapBusy, capCount), Shares(CapBusy, capCount) \/ shared => shared'
  PROVE  /\ cap' \in [1 .. CapSize -> CapRec] /\ capCount' \in {0, 1}
         /\ ~ shared' => capCount' = 0 /\ cap'[1] = [proto |-> "tcp", fd |-> Listener]
         /\ capCount' = 1 => cap'[1].fd # Listener
<1>1. capCount = 0
  BY DEF IInv, CountersHold, InHand, Serving
<1>2. [proto |-> "tcp", fd |-> fd] \in CapRec /\ fd # Listener
  BY Connections DEF CapRec, Listener
<1> DEFINE k == Place(CapBusy, capCount)
           x == [proto |-> "tcp", fd |-> fd]
<1>3. cap' = [cap EXCEPT ![k] = x] /\ k = Place(CapBusy, capCount) /\ x \in CapRec
  BY <1>2
<1> HIDE DEF k, x
<1>4. /\ cap' \in [1 .. CapSize -> CapRec] /\ k \in 1 .. CapSize
      /\ cap'[k] = x /\ \A i \in 1 .. CapSize : i # k => cap'[i] = cap[i]
      /\ Shares(CapBusy, capCount) => k = 1 /\ CountAfter(CapBusy, capCount) = 1
      /\ ~ Shares(CapBusy, capCount) => cap[k].proto = "none" /\ CountAfter(CapBusy, capCount) = 0
  <2>1. CapGiven(cap', k, x)
    BY <1>1, <1>3, CapHandedOut, Zenon
  <2> QED
    BY <2>1 DEF CapGiven
<1>5. capCount' \in {0, 1} /\ (capCount' = 1 => Shares(CapBusy, capCount) /\ k = 1)
  BY <1>4
<1>6. capCount' = 1 => cap'[1].fd # Listener
  BY <1>2, <1>4, <1>5 DEF x
<1>7. ASSUME ~ shared' PROVE capCount' = 0 /\ cap'[1] = [proto |-> "tcp", fd |-> Listener]
  <2>1. cap[1] = [proto |-> "tcp", fd |-> Listener]
    BY <1>7 DEF IInv, Own, ListenerKept
  <2>2. k # 1 /\ capCount' = 0
    BY <1>4, <1>7, <2>1
  <2>3. 1 \in 1 .. CapSize
    BY TrunkAssumption
  <2> QED
    BY <1>4, <2>1, <2>2, <2>3
<1> QED
  BY <1>4, <1>5, <1>6, <1>7

\* The dispatch URI is opened: the new connection is taken in hand.
LEMMA DispatchConnectsInv ==
  ASSUME IInv, DispatchConnects
  PROVE  IInv'
<1> DEFINE o == Opened(acc.conn)
<1>1. /\ TypeOK /\ PoolsThere /\ CountersHold /\ InHand /\ ThreadsHavePlaces
  BY DEF IInv
<1>2. /\ acc.at = "dispatch"
      /\ cap' = [cap EXCEPT ![Place(CapBusy, capCount)] = [proto |-> "tcp", fd |-> o]]
      /\ link' = [link EXCEPT ![o] = "open"]
      /\ capCount' = CountAfter(CapBusy, capCount)
      /\ shared' = (shared \/ Shares(CapBusy, capCount) \/ Shares(NodeBusy, nodeCount))
      /\ UNCHANGED <<uri, started, phase, tns, tnCount, null, udpPool, thread, recno, crashed>>
  BY DEF DispatchConnects
<1>3. PICK p \in Ports, n \in 1 .. Len(nodes) + 1 :
        /\ GetNode(n, o, p)
        /\ port' = [port EXCEPT ![o] = p]
        /\ acc' = [acc EXCEPT !.at = "tn", !.conn = o, !.node = n]
  BY DEF DispatchConnects
<1>4. acc.conn \in Conns /\ o \in AllConns /\ o \notin Conns /\ \A d \in Conns : o = Opened(d) => d = acc.conn
  BY <1>1, <1>2, Connections DEF InHand
<1>5. started /\ thread[o].at = "none" /\ Spawned(acc.conn)
  BY <1>1, <1>2, <1>4 DEF InHand, PoolsThere, Serving
<1> HIDE DEF o
<1>6. /\ link \in [AllConns -> {"none", "open", "closed", "reset"}] /\ port \in [AllConns -> Ports \cup {0}]
      /\ thread \in [AllConns -> [at : {"none", "queued", "unread", "read", "ended"}, tn : 0 .. Len(tns)]]
      /\ shared \in BOOLEAN
  BY <1>1 DEF TypeOK
<1>7. /\ link' \in [AllConns -> {"none", "open", "closed", "reset"}] /\ link'[o] # "none"
      /\ \A d \in AllConns : link[d] # "none" => link'[d] # "none"
  BY <1>2, <1>4, <1>6
<1>8. /\ port' \in [AllConns -> Ports \cup {0}] /\ port'[o] = p
      /\ \A d \in AllConns : d # o => port'[d] = port[d]
  BY <1>3, <1>4, <1>6
<1>9. TakesNode(o, p, n)
  BY <1>2, <1>3, <1>4, <1>5, <1>6, <1>7, <1>8 DEF TakesNode
<1>10. /\ cap' \in [1 .. CapSize -> CapRec] /\ capCount' \in {0, 1}
       /\ ~ shared' => capCount' = 0 /\ cap'[1] = [proto |-> "tcp", fd |-> Listener]
       /\ capCount' = 1 => cap'[1].fd # Listener
  BY <1>2, <1>4, DispatchPlace
<1>11. shared' \in BOOLEAN
  BY <1>2, <1>6 DEF Shares
<1>12. CapKept(o)
  BY <1>2, <1>4, <1>10, <1>11 DEF CapKept
<1> QED
  BY <1>4, <1>9, <1>12, TakesNodeInv

\* A pool has to grow only after places of it were shared.
LEMMA GrownShared ==
  ASSUME IInv, started, Grows(NodeBusy, nodeCount) \/ Grows(TnBusy, tnCount)
  PROVE  shared
<1>1. /\ nodes \in Seq(NodeRec) /\ nodes # << >>
      /\ tns \in Seq([run : BOOLEAN, node : Nat]) /\ tns # << >>
  BY DEF IInv, PoolsThere
<1>2. /\ Len(NodeBusy) = Len(nodes) /\ Len(nodes) \in Nat /\ Len(nodes) # 0
      /\ Len(TnBusy) = Len(tns) /\ Len(tns) \in Nat /\ Len(tns) # 0
  BY <1>1 DEF NodeBusy, TnBusy
<1>3. nodeCount # 0 \/ tnCount # 0
  BY <1>2 DEF Grows
<1> QED
  BY <1>3 DEF IInv, CountersHold

\* There is no memory for a node, and the connection is closed.
LEMMA AcceptWithoutNodeInv ==
  ASSUME IInv, NEW c \in Conns, AcceptWithoutNode(c)
  PROVE  IInv'
<1>1. /\ TypeOK /\ PoolsThere /\ CountersHold /\ InHand /\ ThreadsHavePlaces /\ ReadersCounted
  BY DEF IInv
<1>2. /\ Accepts(c) /\ started /\ Grows(NodeBusy, nodeCount)
      /\ null' = null \cup {"nodes"} /\ link' = [link EXCEPT ![c] = "closed"]
      /\ thread' = [thread EXCEPT ![c].at = "none"]
      /\ UNCHANGED <<uri, started, phase, cap, capCount, nodes, nodeCount, tns, tnCount, shared, udpPool,
                     port, acc, recno, crashed>>
  BY DEF AcceptWithoutNode
<1>3. shared /\ shared' /\ acc.at = "select" /\ thread[c].at = "queued" /\ ~ Serving /\ ~ Serving'
  BY <1>2, GrownShared DEF Accepts, Serving
<1>4. /\ link \in [AllConns -> {"none", "open", "closed", "reset"}]
      /\ thread \in [AllConns -> [at : {"none", "queued", "unread", "read", "ended"}, tn : 0 .. Len(tns)]]
      /\ c \in AllConns
  BY <1>1, Connections DEF TypeOK
<1>5. /\ link' \in [AllConns -> {"none", "open", "closed", "reset"}]
      /\ thread' \in [AllConns -> [at : {"none", "queued", "unread", "read", "ended"}, tn : 0 .. Len(tns)]]
      /\ thread'[c].at = "none"
      /\ \A d \in AllConns : d # c => thread'[d] = thread[d] /\ link'[d] = link[d]
  BY <1>2, <1>4
<1>6. null' \subseteq {"nodes", "tns"}
  BY <1>1, <1>2 DEF TypeOK
<1>7. TypeOK'
  BY <1>1, <1>2, <1>5, <1>6 DEF TypeOK
<1>8. PoolsThere' /\ CountersHold'
  BY <1>1, <1>2, <1>3 DEF PoolsThere, CountersHold
<1>9. InHand'
  BY <1>2, <1>3 DEF InHand, Serving
<1>10. \A d \in AllConns : /\ Spawned(d)' <=> Spawned(d)
                           /\ Spawned(d) => thread'[d] = thread[d]
  BY <1>3, <1>5 DEF Spawned
<1>11. ThreadsHavePlaces'
  <2>1. \A d \in Conns : d \in AllConns /\ Opened(d) \in AllConns /\ Opened(d) # c
    BY Connections
  <2> QED
    BY <1>1, <1>2, <1>5, <1>10, <2>1 DEF ThreadsHavePlaces
<1>12. ReadersCounted'
  <2>1. Linked \subseteq Linked'
    BY <1>2, <1>10 DEF Linked
  <2> QED
    BY <1>2, <1>10, <2>1, ReadersFrame
<1>13. Own' /\ SessionFiled'
  BY <1>3 DEF Own, SessionFiled
<1> QED
  BY <1>7, <1>8, <1>9, <1>11, <1>12, <1>13 DEF IInv

\* The connection gets a tcp_node; its thread is started or not.
LEMMA SpawnInv ==
  ASSUME IInv, SpawnReceiver \/ SpawnFails
  PROVE  IInv'
<1>1. /\ TypeOK /\ PoolsThere /\ CountersHold /\ InHand /\ ThreadsHavePlaces /\ ReadersCounted
      /\ Own /\ SessionFiled
  BY DEF IInv
<1>2. /\ acc.at = "tn"
      /\ UNCHANGED <<uri, started, phase, cap, capCount, nodes, nodeCount, null, udpPool, link, port, recno, crashed>>
  BY DEF SpawnReceiver, SpawnFails
<1>3. PICK t : /\ GetTn(t, acc.node)
               /\ \/ /\ thread' = [thread EXCEPT ![acc.conn] = [at |-> "read", tn |-> t]]
                     /\ acc' = [acc EXCEPT !.at = "file"]
                  \/ /\ thread' = [thread EXCEPT ![acc.conn].at = "unread"]
                     /\ acc' = [Idle EXCEPT !.slot = acc.slot]
  BY DEF SpawnReceiver, SpawnFails
<1>c. PICK c \in AllConns : c = acc.conn
  BY <1>1, <1>2 DEF InHand, Serving
<1>4. /\ started /\ c \in AllConns /\ link[c] # "none" /\ acc.node \in 1 .. Len(nodes) /\ thread[c].at = "none"
      /\ \A d \in Conns : c = d => thread[Opened(d)].at = "none"
      /\ \A d \in Conns : c = Opened(d) => Spawned(d)
      /\ acc.slot = 1
  BY <1>1, <1>2, <1>c DEF InHand, Serving, PoolsThere, CountersHold
<1>5. /\ nodes \in Seq(NodeRec) /\ Len(nodes) \in Nat /\ Len(tns) \in Nat /\ acc.node \in 0 .. Len(nodes)
      /\ acc \in [at : {"off", "select", "starved", "tn", "file", "link", "dispatch"}, conn : AllConns \cup {0},
                  node : Nat, port : Ports \cup {0}, slot : Nat]
      /\ DOMAIN nodes = 1 .. Len(nodes)
  BY <1>1, <1>4 DEF PoolsThere
<1>6. /\ tns' \in Seq([run : BOOLEAN, node : 0 .. Len(nodes)])
      /\ Len(tns) <= Len(tns') /\ t \in 1 .. Len(tns')
      /\ tns'[t] = [run |-> TRUE, node |-> acc.node]
      /\ \A i \in 1 .. Len(tns) : i # t => tns'[i] = tns[i]
      /\ tnCount' \in 0 .. Len(tns')
      /\ shared' = (shared \/ Shares(TnBusy, tnCount))
      /\ ~ shared' => Len(tns') = Len(tns) /\ tnCount' = 0 /\ ~ tns[t].run
  BY <1>3, <1>4, <1>5, TnHandedOut
<1>60. tns' \in Seq([run : BOOLEAN, node : Nat]) /\ \A i \in DOMAIN tns' : tns'[i] \in [run : BOOLEAN, node : 0 .. Len(nodes)]
  <2> DEFINE S == [run : BOOLEAN, node : 0 .. Len(nodes)]
             T == [run : BOOLEAN, node : Nat]
  <2>1. S \subseteq T
    OBVIOUS
  <2>2. tns' \in Seq(S)
    BY <1>6
  <2> HIDE DEF S, T
  <2>3. tns' \in Seq(T) /\ \A i \in DOMAIN tns' : tns'[i] \in S
    BY <2>1, <2>2, Retyped
  <2> QED
    BY <2>3 DEF S, T
<1>7. /\ Len(tns') \in Nat /\ DOMAIN tns' = 1 .. Len(tns') /\ tns' # << >>
      /\ 0 .. Len(tns) \subseteq 0 .. Len(tns') /\ 1 .. Len(tns) \subseteq 1 .. Len(tns')
  <2>1. tns' \in Seq([run : BOOLEAN, node : 0 .. Len(nodes)]) /\ Len(tns) <= Len(tns') /\ t \in 1 .. Len(tns')
    BY <1>6
  <2>2. Len(tns') \in Nat /\ DOMAIN tns' = 1 .. Len(tns') /\ tns' # << >>
    BY <2>1
  <2> QED
    BY <1>5, <2>1, <2>2, Wider
<1>8. /\ thread' \in [AllConns -> [at : {"none", "queued", "unread", "read", "ended"}, tn : 0 .. Len(tns')]]
      /\ \A d \in AllConns : d # c => thread'[d] = thread[d]
  <2>1. thread \in [AllConns -> [at : {"none", "queued", "unread", "read", "ended"}, tn : 0 .. Len(tns')]]
    <3>1. thread \in [AllConns -> [at : {"none", "queued", "unread", "read", "ended"}, tn : 0 .. Len(tns)]]
      BY <1>1 DEF TypeOK
    <3> QED
      BY <1>7, <3>1
  <2>2. t \in 0 .. Len(tns')
    BY <1>6, <1>7
  <2>3. \/ thread' = [thread EXCEPT ![c] = [at |-> "read", tn |-> t]]
        \/ thread' = [thread EXCEPT ![c].at = "unread"]
    BY <1>c, <1>3
  <2> QED
    BY <1>4, <2>1, <2>2, <2>3
<1>9. \/ thread'[c].at = "read" /\ thread'[c].tn = t /\ acc'.at = "file" /\ acc'.conn = c
      \/ thread'[c].at = "unread" /\ acc'.at = "select" /\ acc'.conn = 0
  <2>1. thread \in [AllConns -> [at : {"none", "queued", "unread", "read", "ended"}, tn : 0 .. Len(tns)]]
    BY <1>1 DEF TypeOK
  <2> QED
    BY <1>c, <1>3, <1>4, <1>5, <2>1 DEF Idle
<1>10. /\ acc' \in [at : {"off", "select", "starved", "tn", "file", "link", "dispatch"}, conn : AllConns \cup {0},
                    node : Nat, port : Ports \cup {0}, slot : Nat]
       /\ acc'.slot = 1
  BY <1>3, <1>4, <1>5 DEF Idle
<1>11. \A d \in AllConns : /\ d # c => (Spawned(d)' <=> Spawned(d)) /\ (Live(d)' <=> Live(d))
                           /\ Spawned(d) => d # c /\ thread'[d] = thread[d]
                           /\ Live(d) => Spawned(d)
  BY <1>4, <1>8 DEF Spawned, Live
<1>12. TypeOK'
  <2>2. shared' \in BOOLEAN
    BY <1>6 DEF Shares
  <2>3. acc'.slot \in 0 .. Len(cap)
    BY <1>1, <1>4, <1>10 DEF TypeOK
  <2>4. tnCount' \in 0 .. Len(tns')
    BY <1>6
  <2> QED
    BY <1>1, <1>2, <1>60, <1>8, <1>10, <2>2, <2>3, <2>4 DEF TypeOK
<1>13. PoolsThere'
  <2>2. phase # "created"
    BY <1>1, <1>2 DEF PoolsThere
  <2> QED
    BY <1>1, <1>2, <1>4, <1>60, <1>7, <1>9, <1>10, <2>2 DEF PoolsThere
<1>14. CountersHold'
  <2>1. Serving
    BY <1>2 DEF Serving
  <2>2. ~ shared' => ~ shared /\ tnCount' = 0
    BY <1>6
  <2> QED
    BY <1>c, <1>1, <1>2, <1>9, <1>10, <2>1, <2>2 DEF CountersHold, Serving
<1>15. InHand'
  <2>1. \A d \in Conns : d \in AllConns /\ Opened(d) \in AllConns /\ Opened(d) # d
    BY Connections
  <2>2. acc'.at = "file" => Spawned(c)'
    BY <1>9 DEF Spawned
  <2> QED
    BY <1>2, <1>4, <1>8, <1>9, <1>11, <2>1, <2>2 DEF InHand, Serving
<1>16. ThreadsHavePlaces'
  <2>1. \A d \in Conns : d \in AllConns /\ Opened(d) \in AllConns /\ Opened(d) # d
    BY Connections
  <2>2. \A d \in AllConns : thread'[d].at # "none" => link'[d] # "none"
    BY <1>1, <1>2, <1>4, <1>8 DEF ThreadsHavePlaces
  <2>3. \A d \in Conns : thread'[Opened(d)].at # "none" => Spawned(d)'
    BY <1>1, <1>4, <1>8, <1>11, <2>1 DEF ThreadsHavePlaces
  <2>4. \A d \in AllConns : Spawned(d) =>
          thread[d].tn \in 1 .. Len(tns) /\ tns[thread[d].tn].node \in 1 .. Len(nodes)
    BY <1>1 DEF ThreadsHavePlaces
  <2>5. \A d \in AllConns : d # c /\ Spawned(d)' =>
          thread'[d].tn \in 1 .. Len(tns') /\ tns'[thread'[d].tn].node \in 1 .. Len(nodes)
    <3> SUFFICES ASSUME NEW d \in AllConns, d # c, Spawned(d)'
                 PROVE  thread'[d].tn \in 1 .. Len(tns') /\ tns'[thread'[d].tn].node \in 1 .. Len(nodes)
      OBVIOUS
    <3>1. /\ thread'[d].tn \in 1 .. Len(tns) /\ tns[thread'[d].tn].node \in 1 .. Len(nodes)
      BY <1>11, <2>4
    <3>2. tns'[t].node \in 1 .. Len(nodes) /\ \A i \in 1 .. Len(tns) : i # t => tns'[i] = tns[i]
      BY <1>4, <1>6
    <3> QED
      BY <1>7, <3>1, <3>2
  <2>6. Spawned(c)' => thread'[c].tn \in 1 .. Len(tns') /\ tns'[thread'[c].tn].node \in 1 .. Len(nodes)
    BY <1>4, <1>6, <1>9 DEF Spawned
  <2> QED
    BY <1>2, <2>2, <2>3, <2>5, <2>6 DEF ThreadsHavePlaces
<1>17. ReadersCounted'
  <2>1. Linked \subseteq Linked'
    BY <1>2, <1>9, <1>11 DEF Linked
  <2> QED
    BY <1>2, <1>11, <2>1, ReadersFrame
<1>18. SessionFiled'
  <2>1. shared => shared'
    BY <1>6, Zenon
  <2> QED
    BY <1>2, <1>11, <2>1, FiledFrame
<1>19. Own'
  <2> SUFFICES ASSUME ~ shared' PROVE NodesAreOwn' /\ TnsAreOwn' /\ ListenerKept'
    BY DEF Own
  <2>0. ~ shared /\ ~ tns[t].run /\ Len(tns') = Len(tns)
    BY <1>6
  <2>1. NodesAreOwn /\ TnsAreOwn /\ ListenerKept
    BY <1>1, <2>0 DEF Own
  <2>2. \A d \in AllConns : Live(d) => /\ d # c /\ thread'[d] = thread[d] /\ thread[d].tn # t
                                       /\ tns'[thread[d].tn] = tns[thread[d].tn]
    BY <1>1, <1>6, <1>11, <2>0, <2>1 DEF TnsAreOwn, ThreadsHavePlaces
  <2>3. TnsAreOwn'
    <3>1. \A d \in AllConns : Live(d)' => tns'[thread'[d].tn].run
      BY <1>6, <1>9, <1>11, <2>1, <2>2 DEF TnsAreOwn, Live
    <3>2. \A d, e \in AllConns : Live(d)' /\ Live(e)' /\ d # e => thread'[d].tn # thread'[e].tn
      BY <1>9, <1>11, <2>1, <2>2 DEF TnsAreOwn, Live
    <3> QED
      BY <3>1, <3>2 DEF TnsAreOwn
  <2>4. ListenerKept'
    BY <1>2, <2>1 DEF ListenerKept
  <2>5. \A d \in AllConns : Live(d)' => nodes[NodeOf(d)'].fd = d
    <3>1. \A d \in AllConns : Live(d) => nodes[NodeOf(d)].fd = d
      BY <2>1 DEF NodesAreOwn
    <3>2. \A d \in AllConns : d # c /\ Live(d)' => nodes[NodeOf(d)'].fd = d
      BY <1>11, <2>2, <3>1 DEF NodeOf
    <3>3. Live(c)' => NodeOf(c)' = acc.node /\ nodes[acc.node].fd = c
      BY <1>c, <1>2, <1>6, <1>9, <2>1 DEF NodeOf, Live, NodesAreOwn
    <3> QED
      BY <3>2, <3>3
  <2>6. \A i \in DOMAIN nodes : nodes[i].fd # 0 =>
          /\ nodes[i].fd \in AllConns /\ nodes[i].port = port[nodes[i].fd]
          /\ \A j \in DOMAIN nodes : nodes[i].fd = nodes[j].fd => i = j
          /\ thread'[nodes[i].fd].at \in {"read", "unread"}
    <3>1. \A i \in DOMAIN nodes : nodes[i].fd # 0 =>
            /\ nodes[i].fd \in AllConns /\ nodes[i].port = port[nodes[i].fd]
            /\ \A j \in DOMAIN nodes : nodes[i].fd = nodes[j].fd => i = j
            /\ thread[nodes[i].fd].at \in {"read", "unread"} \/ nodes[i].fd = c
      BY <1>c, <2>1 DEF NodesAreOwn, Live
    <3>2. thread'[c].at \in {"read", "unread"}
      BY <1>9
    <3> QED
      BY <1>8, <3>1, <3>2
  <2>7. NodesAreOwn'
    <3>1. acc'.at = "file" => Live(acc.conn)' /\ acc'.conn = acc.conn
      BY <1>c, <1>9 DEF Live
    <3>2. acc'.at \in {"file", "select"}
      BY <1>9
    <3> QED
      BY <1>2, <2>5, <2>6, <3>1, <3>2 DEF NodesAreOwn, Live
  <2> QED
    BY <2>3, <2>4, <2>7
<1> QED
  BY <1>12, <1>13, <1>14, <1>15, <1>16, <1>17, <1>18, <1>19 DEF IInv

\* There is no memory for a tcp_node, and the node is given back.
LEMMA SpawnWithoutTnInv ==
  ASSUME IInv, SpawnWithoutTn
  PROVE  IInv'
<1>1. /\ TypeOK /\ PoolsThere /\ CountersHold /\ InHand /\ ThreadsHavePlaces /\ ReadersCounted
  BY DEF IInv
<1>2. /\ acc.at = "tn" /\ Grows(TnBusy, tnCount)
      /\ null' = null \cup {"tns"} /\ nodes' = [nodes EXCEPT ![acc.node] = BlankNode]
      /\ link' = [link EXCEPT ![acc.conn] = "closed"] /\ acc' = [Idle EXCEPT !.slot = acc.slot]
      /\ UNCHANGED <<uri, started, phase, cap, capCount, nodeCount, tns, tnCount, shared, udpPool,
                     port, thread, recno, crashed>>
  BY DEF SpawnWithoutTn
<1>3. started /\ acc.node \in 1 .. Len(nodes) /\ acc.slot = 1
  BY <1>1, <1>2 DEF PoolsThere, InHand, Serving, CountersHold
<1>4. shared /\ shared'
  BY <1>2, <1>3, GrownShared
<1>5. /\ acc'.at = "select" /\ acc'.slot = 1
      /\ acc' \in [at : {"off", "select", "starved", "tn", "file", "link", "dispatch"}, conn : AllConns \cup {0},
                   node : Nat, port : Ports \cup {0}, slot : Nat]
  BY <1>2, <1>3 DEF Idle
<1>6. /\ nodes' \in Seq(NodeRec) /\ Len(nodes') = Len(nodes) /\ DOMAIN nodes' = 1 .. Len(nodes')
      /\ \A i \in DOMAIN nodes' : nodes'[i] \in NodeRec
  <2>1. nodes \in Seq(NodeRec) /\ BlankNode \in NodeRec
    BY <1>1 DEF PoolsThere, NodeRec, BlankNode
  <2>2. nodes' \in Seq(NodeRec) /\ Len(nodes') = Len(nodes)
    BY <1>2, <1>3, <2>1, Stored
  <2> QED
    BY <2>2, Retyped
<1>7. /\ link' \in [AllConns -> {"none", "open", "closed", "reset"}]
      /\ \A d \in AllConns : link[d] # "none" => link'[d] # "none"
  BY <1>1, <1>2 DEF TypeOK
<1>8. TypeOK'
  <2>1. null' \subseteq {"nodes", "tns"} /\ acc'.slot \in 0 .. Len(cap)
    BY <1>1, <1>2, <1>3, <1>5 DEF TypeOK
  <2>2. \A i \in DOMAIN nodes' : nodes'[i] \in [fd : AllConns \cup {0, Listener}, port : Ports \cup {0}]
    BY <1>6 DEF NodeRec
  <2> QED
    BY <1>1, <1>2, <1>5, <1>6, <1>7, <2>1, <2>2 DEF TypeOK
<1>9. PoolsThere'
  <2>1. nodes' # << >> /\ phase # "created"
    BY <1>1, <1>2, <1>3, <1>6 DEF PoolsThere
  <2> QED
    BY <1>1, <1>2, <1>3, <1>5, <1>6, <2>1 DEF PoolsThere
<1>10. CountersHold' /\ InHand'
  BY <1>1, <1>2, <1>4, <1>5 DEF CountersHold, InHand, Serving
<1>11. ThreadsHavePlaces'
  BY <1>1, <1>2, <1>6, <1>7 DEF ThreadsHavePlaces, Spawned
<1>12. ReadersCounted'
  <2>1. Linked \subseteq Linked'
    BY <1>2, <1>5 DEF Linked, Spawned
  <2> QED
    BY <1>2, <2>1, ReadersFrame DEF Spawned
<1>13. Own' /\ SessionFiled'
  BY <1>4 DEF Own, SessionFiled
<1> QED
  BY <1>8, <1>9, <1>10, <1>11, <1>12, <1>13 DEF IInv

------------------------------------------------------------------------------
(* The dispatch URI is not opened *)

\* Whatever comes of the dispatch URI short of a connection, the thread goes on.
LEMMA ReleaseInv ==
  ASSUME IInv, DispatchNone \/ connect_udp_server \/ DispatchFails \/ DispatchWithoutNode
  PROVE  IInv'
<1>1. /\ TypeOK /\ PoolsThere /\ CountersHold /\ InHand /\ ThreadsHavePlaces /\ ReadersCounted
      /\ Own /\ SessionFiled
  BY DEF IInv
<1>2. /\ acc.at = "dispatch" /\ acc' = [Idle EXCEPT !.slot = acc.slot]
      /\ UNCHANGED <<uri, started, phase, nodes, nodeCount, tns, tnCount, link, port, thread, recno, crashed>>
      /\ udpPool' \in {udpPool, TRUE} /\ null' \in {null, null \cup {"nodes"}}
  BY DEF DispatchNone, connect_udp_server, DispatchFails, DispatchWithoutNode, poolVars
<1>3. acc.slot = 1 /\ capCount = 0 /\ Serving
  BY <1>1, <1>2 DEF CountersHold, InHand, Serving
<1>4. /\ cap' \in [1 .. CapSize -> CapRec] /\ capCount' \in {0, 1} /\ shared' \in BOOLEAN
      /\ shared => shared'
      /\ ~ shared' => capCount' = 0 /\ cap'[1] = [proto |-> "tcp", fd |-> Listener]
      /\ capCount' = 1 => cap'[1].fd # Listener
  <2>1. CASE UNCHANGED <<cap, capCount, shared>>
    BY <1>1, <1>2, <1>3, <2>1 DEF PoolsThere, TypeOK, Own, ListenerKept
  <2>2. CASE DispatchFails \/ DispatchWithoutNode
    <3>1. /\ cap' = [cap EXCEPT ![Place(CapBusy, capCount)] = [proto |-> "tcp", fd |-> 0]]
          /\ capCount' = CountAfter(CapBusy, capCount)
          /\ shared' = (shared \/ Shares(CapBusy, capCount))
      BY <2>2 DEF DispatchFails, DispatchWithoutNode
    <3>2. Shares(CapBusy, capCount) \/ shared => shared'
      BY <3>1, Zenon
    <3>3. shared' \in BOOLEAN
      BY <1>1, <3>1 DEF TypeOK, Shares
    <3> QED
      BY <1>2, <3>1, <3>2, <3>3, DispatchPlace
  <2> QED
    BY <2>1, <2>2 DEF DispatchNone, connect_udp_server, poolVars
<1>5. /\ acc'.at = "select" /\ acc'.slot = 1
      /\ acc' \in [at : {"off", "select", "starved", "tn", "file", "link", "dispatch"}, conn : AllConns \cup {0},
                   node : Nat, port : Ports \cup {0}, slot : Nat]
  BY <1>2, <1>3 DEF Idle
<1>6. CapSize \in Nat /\ CapSize # 0 /\ Len(cap') = CapSize /\ DOMAIN cap' = 1 .. CapSize
  BY <1>4, TrunkAssumption
<1>7. TypeOK'
  <2>1. \A i \in DOMAIN cap' : cap'[i] \in [proto : {"none", "tcp", "udp"}, fd : AllConns \cup {0, Listener}]
    BY <1>4, <1>6 DEF CapRec
  <2>2. capCount' \in 0 .. Len(cap') /\ acc'.slot \in 0 .. Len(cap')
    BY <1>4, <1>5, <1>6
  <2>3. null' \subseteq {"nodes", "tns"} /\ udpPool' \in BOOLEAN
    BY <1>1, <1>2 DEF TypeOK
  <2> QED
    BY <1>1, <1>2, <1>4, <1>5, <2>1, <2>2, <2>3 DEF TypeOK
<1>8. PoolsThere'
  <2>1. phase # "created"
    BY <1>1, <1>2 DEF PoolsThere
  <2> QED
    BY <1>1, <1>2, <1>4, <1>5, <2>1 DEF PoolsThere, Serving
<1>9. CountersHold' /\ InHand'
  BY <1>1, <1>2, <1>4, <1>5 DEF CountersHold, InHand, Serving
<1>10. ThreadsHavePlaces'
  BY <1>1, <1>2 DEF ThreadsHavePlaces, Spawned
<1>11. ReadersCounted'
  <2>1. Linked \subseteq Linked'
    BY <1>2, <1>5 DEF Linked, Spawned
  <2> QED
    BY <1>2, <2>1, ReadersFrame DEF Spawned
<1>12. SessionFiled'
  BY <1>2, <1>4, FiledFrame DEF Spawned
<1>13. Own'
  BY <1>1, <1>2, <1>4, <1>5 DEF Own, NodesAreOwn, TnsAreOwn, ListenerKept, Live, NodeOf
<1> QED
  BY <1>7, <1>8, <1>9, <1>10, <1>11, <1>12, <1>13 DEF IInv

------------------------------------------------------------------------------
(* The plugin's callback *)

\* The node of the connection in hand is one of the pool; as long as no pool was
\* exhausted its port is the connection's, or 0 once the connection's own thread
\* has ended.
LEMMA PortRead ==
  ASSUME IInv, acc.at \in {"file", "link"}
  PROVE  /\ acc.conn \in AllConns /\ Spawned(acc.conn) /\ NodeOf(acc.conn) \in DOMAIN nodes
         /\ nodes[NodeOf(acc.conn)].port \in Ports \cup {0}
         /\ ~ shared => nodes[NodeOf(acc.conn)].port = IF Live(acc.conn) THEN port[acc.conn] ELSE 0
<1>1. acc.conn \in AllConns /\ Spawned(acc.conn)
  BY DEF IInv, InHand, Serving
<1>2. NodeOf(acc.conn) \in 1 .. Len(nodes)
  BY <1>1 DEF IInv, ThreadsHavePlaces, NodeOf
<1>3. nodes \in Seq(NodeRec) /\ DOMAIN nodes = 1 .. Len(nodes)
  BY DEF IInv, PoolsThere
<1>4. nodes[NodeOf(acc.conn)].port \in Ports \cup {0}
  <2>1. nodes[NodeOf(acc.conn)] \in NodeRec
    BY <1>2, <1>3
  <2> QED
    BY <2>1 DEF NodeRec
<1>5. ASSUME ~ shared
      PROVE  nodes[NodeOf(acc.conn)].port = IF Live(acc.conn) THEN port[acc.conn] ELSE 0
  <2>1. NodesAreOwn
    BY <1>5 DEF IInv, Own
  <2>2. CASE Live(acc.conn)
    <3>1. nodes[NodeOf(acc.conn)].fd = acc.conn /\ acc.conn # 0
      BY <1>1, <2>1, <2>2, Connections DEF NodesAreOwn
    <3> QED
      BY <1>2, <1>3, <2>1, <2>2, <3>1 DEF NodesAreOwn
  <2>3. CASE ~ Live(acc.conn)
    BY <2>1, <2>3 DEF NodesAreOwn, BlankNode
  <2> QED
    BY <2>2, <2>3
<1> QED
  BY <1>1, <1>2, <1>3, <1>4, <1>5

\* The session is copied into the table.
LEMMA FileSessionInv ==
  ASSUME IInv, FileSession
  PROVE  IInv'
<1>1. /\ TypeOK /\ PoolsThere /\ CountersHold /\ InHand /\ ThreadsHavePlaces /\ ReadersCounted
      /\ Own /\ SessionFiled
  BY DEF IInv
<1>2. acc.at = "file"
  BY DEF FileSession
<1>3. PICK p \in Ports \cup {0}, c \in AllConns :
        /\ c = acc.conn /\ p = nodes[NodeOf(acc.conn)].port /\ Spawned(c)
        /\ ~ shared => p = port[c] \/ (p = 0 /\ ~ Live(c))
  BY <1>2, PortRead
<1>4. /\ recno' = [recno EXCEPT ![p].conn = c]
      /\ acc' = [acc EXCEPT !.at = "link", !.port = p]
      /\ UNCHANGED <<uri, started, phase, cap, capCount, nodes, nodeCount, tns, tnCount, null, shared, udpPool,
                     link, port, thread, crashed>>
  BY <1>3 DEF FileSession, poolVars
<1>5. /\ acc \in [at : {"off", "select", "starved", "tn", "file", "link", "dispatch"}, conn : AllConns \cup {0},
                  node : Nat, port : Ports \cup {0}, slot : Nat]
      /\ recno \in [Ports \cup {0} -> [conn : AllConns \cup {0}, port : Ports \cup {0}, readers : 0 .. 2 * MaxConn]]
  BY <1>1 DEF PoolsThere, TypeOK
<1>6. /\ acc' \in [at : {"off", "select", "starved", "tn", "file", "link", "dispatch"}, conn : AllConns \cup {0},
                   node : Nat, port : Ports \cup {0}, slot : Nat]
      /\ acc'.at = "link" /\ acc'.port = p /\ acc'.conn = c /\ acc'.slot = acc.slot
  BY <1>3, <1>4, <1>5
<1>7. /\ recno' \in [Ports \cup {0} -> [conn : AllConns \cup {0}, port : Ports \cup {0}, readers : 0 .. 2 * MaxConn]]
      /\ recno'[p].conn = c /\ recno'[p].readers = recno[p].readers
      /\ \A q \in Ports \cup {0} : q # p => recno'[q] = recno[q]
      /\ DOMAIN recno = Ports \cup {0} /\ DOMAIN recno' = Ports \cup {0}
  BY <1>4, <1>5
<1>8. TypeOK'
  BY <1>1, <1>4, <1>6, <1>7 DEF TypeOK
<1>9. PoolsThere' /\ CountersHold'
  BY <1>1, <1>2, <1>3, <1>4, <1>6 DEF PoolsThere, CountersHold, Serving
<1>10. InHand'
  BY <1>1, <1>2, <1>3, <1>4, <1>6, <1>7 DEF InHand, Serving, Spawned
<1>11. ThreadsHavePlaces'
  BY <1>1, <1>4 DEF ThreadsHavePlaces, Spawned
<1>12. ReadersCounted'
  <2>1. Linked' = Linked
    BY <1>2, <1>3, <1>4, <1>6 DEF Linked, Spawned
  <2> QED
    BY <1>1, <1>3, <1>4, <1>7, <2>1 DEF ReadersCounted, Spawned
<1>13. SessionFiled'
  BY <1>1, <1>2, <1>4, <1>6, <1>7 DEF SessionFiled
<1>14. Own'
  <2> SUFFICES ASSUME ~ shared PROVE NodesAreOwn' /\ TnsAreOwn' /\ ListenerKept'
    BY <1>4 DEF Own
  <2>1. NodesAreOwn /\ TnsAreOwn /\ ListenerKept
    BY <1>1 DEF Own
  <2>2. NodesAreOwn'
    BY <1>2, <1>3, <1>4, <1>6, <2>1 DEF NodesAreOwn, Live, NodeOf
  <2>3. TnsAreOwn' /\ ListenerKept'
    BY <1>2, <1>4, <1>6, <2>1 DEF TnsAreOwn, ListenerKept, Live
  <2> QED
    BY <2>2, <2>3
<1> QED
  BY <1>8, <1>9, <1>10, <1>11, <1>12, <1>13, <1>14 DEF IInv

\* The session gets its port and perhaps its thread.
LEMMA LinkSessionInv ==
  ASSUME IInv, on_acception_connection_tcp_cb \/ on_connect_connection_tcp_cb
  PROVE  IInv'
<1>1. /\ TypeOK /\ PoolsThere /\ CountersHold /\ InHand /\ ThreadsHavePlaces /\ ReadersCounted
      /\ Own /\ SessionFiled
  BY DEF IInv
<1>2. PICK at \in {"dispatch", "select"} : LinkSession(at) /\ (at = "dispatch" => acc.conn \in Conns)
  BY DEF on_acception_connection_tcp_cb, on_connect_connection_tcp_cb
<1>3. /\ acc.at = "link"
      /\ UNCHANGED <<uri, started, phase, cap, capCount, nodes, nodeCount, tns, tnCount, null, shared, udpPool,
                     link, port, thread, crashed>>
  BY <1>2 DEF LinkSession, poolVars
<1>4. PICK p \in Ports \cup {0}, c \in AllConns, q \in Ports \cup {0} :
        /\ c = acc.conn /\ p = acc.port /\ q = nodes[NodeOf(acc.conn)].port /\ Spawned(c)
        /\ ~ shared => q = IF Live(c) THEN port[c] ELSE 0
  <2>1. acc.port \in Ports \cup {0}
    BY <1>1 DEF PoolsThere
  <2> QED
    BY <1>3, <2>1, PortRead
<1>5. PICK inserted \in BOOLEAN :
        /\ recno' = [recno EXCEPT ![p].port = q, ![p].readers = IF inserted THEN @ + 1 ELSE @]
        /\ \/ acc' = [acc EXCEPT !.at = at] /\ at = "dispatch"
           \/ acc' = [Idle EXCEPT !.slot = acc.slot]
  BY <1>2, <1>4 DEF LinkSession, link_session_ports
<1>6. /\ acc \in [at : {"off", "select", "starved", "tn", "file", "link", "dispatch"}, conn : AllConns \cup {0},
                  node : Nat, port : Ports \cup {0}, slot : Nat]
      /\ recno \in [Ports \cup {0} -> [conn : AllConns \cup {0}, port : Ports \cup {0}, readers : 0 .. 2 * MaxConn]]
      /\ acc.slot = 1
  BY <1>1, <1>3 DEF PoolsThere, TypeOK, CountersHold
<1>7. /\ acc' \in [at : {"off", "select", "starved", "tn", "file", "link", "dispatch"}, conn : AllConns \cup {0},
                   node : Nat, port : Ports \cup {0}, slot : Nat]
      /\ acc'.slot = 1
      /\ acc'.at = "select" \/ (acc'.at = "dispatch" /\ acc'.conn = c /\ c \in Conns)
  BY <1>2, <1>4, <1>5, <1>6 DEF Idle
<1>8. recno[p].conn = c
  BY <1>1, <1>3, <1>4 DEF InHand
<1>9. /\ recno'[p].conn = c /\ recno'[p].port = q
      /\ recno'[p].readers \in {recno[p].readers, recno[p].readers + 1}
      /\ \A r \in Ports \cup {0} : r # p => recno'[r] = recno[r]
      /\ DOMAIN recno = Ports \cup {0} /\ DOMAIN recno' = Ports \cup {0}
      /\ recno[p].readers \in Nat
  BY <1>5, <1>6, <1>8
<1>10. /\ \A r \in Ports \cup {0} : recno'[r].readers <= Cardinality(Linked')
       /\ Cardinality(Linked') \in 0 .. 2 * MaxConn
  <2>1. Linked \in SUBSET AllConns /\ Linked' \in SUBSET AllConns
    BY DEF Linked
  <2>2. c \in Linked' /\ c \notin Linked /\ Linked \cup {c} \subseteq Linked'
    BY <1>3, <1>4, <1>7 DEF Linked, Spawned
  <2>3. /\ Cardinality(Linked) \in 0 .. 2 * MaxConn /\ Cardinality(Linked') \in 0 .. 2 * MaxConn
        /\ Cardinality(Linked) + 1 <= Cardinality(Linked')
    BY <2>1, <2>2, Counted
  <2>4. \A r \in Ports \cup {0} : recno[r].readers <= Cardinality(Linked) /\ recno[r].readers \in Nat
    BY <1>1, <1>6, <1>9 DEF ReadersCounted
  <2>5. Cardinality(Linked) \in Nat /\ Cardinality(Linked') \in Nat
    BY <2>3, Connections
  <2>6. \A r \in Ports \cup {0} : recno'[r].readers <= Cardinality(Linked')
    <3> SUFFICES ASSUME NEW r \in Ports \cup {0} PROVE recno'[r].readers <= Cardinality(Linked')
      OBVIOUS
    <3>1. recno'[r].readers \in {recno[r].readers, recno[r].readers + 1}
      BY <1>9
    <3> QED
      BY <2>3, <2>4, <2>5, <3>1
  <2> QED
    BY <2>3, <2>6
<1>11. recno' \in [Ports \cup {0} -> [conn : AllConns \cup {0}, port : Ports \cup {0}, readers : 0 .. 2 * MaxConn]]
  <2>1. recno'[p].readers \in 0 .. 2 * MaxConn
    BY <1>9, <1>10, Connections
  <2>2. PICK x : /\ x = IF inserted THEN recno[p].readers + 1 ELSE recno[p].readers
                 /\ recno' = [recno EXCEPT ![p].port = q, ![p].readers = x]
    BY <1>5, <1>6
  <2>3. x \in 0 .. 2 * MaxConn
    BY <1>6, <2>1, <2>2
  <2> QED
    BY <1>6, <2>2, <2>3
<1>12. TypeOK'
  <2>1. acc'.slot \in 0 .. Len(cap)
    BY <1>1, <1>6, <1>7 DEF TypeOK
  <2> QED
    BY <1>1, <1>3, <1>7, <1>11, <2>1 DEF TypeOK
<1>13. PoolsThere' /\ CountersHold'
  BY <1>1, <1>3, <1>4, <1>7 DEF PoolsThere, CountersHold, Serving
<1>14. InHand'
  <2>1. \A d \in Conns : Opened(d) \notin Conns
    BY Connections
  <2> QED
    BY <1>1, <1>3, <1>4, <1>7, <2>1 DEF InHand, Serving, Spawned
<1>15. ThreadsHavePlaces'
  BY <1>1, <1>3 DEF ThreadsHavePlaces, Spawned
<1>16. ReadersCounted'
  BY <1>1, <1>3, <1>4, <1>9, <1>10 DEF ReadersCounted, Spawned
<1>17. SessionFiled'
  <2> SUFFICES ASSUME ~ shared, NEW r \in Ports \cup {0}, recno'[r].readers > 0
               PROVE  \/ recno'[r].port = r /\ r = port[recno'[r].conn]
                      \/ /\ r \in {0, port[recno'[r].conn]} /\ recno'[r].port \in {0, r}
                         /\ thread[recno'[r].conn].at = "ended"
    BY <1>3, <1>9 DEF SessionFiled
  <2>1. CASE r # p
    BY <1>1, <1>3, <1>4, <1>9, <2>1 DEF SessionFiled
  <2>2. CASE r = p
    <3>1. p = port[c] \/ (p = 0 /\ ~ Live(c))
      BY <1>1, <1>3, <1>4 DEF Own, NodesAreOwn
    <3>2. q = IF Live(c) THEN port[c] ELSE 0
      BY <1>4
    <3>3. ~ Live(c) => thread[c].at = "ended"
      BY <1>4 DEF Live, Spawned
    <3> QED
      BY <1>9, <2>2, <3>1, <3>2, <3>3
  <2> QED
    BY <2>1, <2>2
<1>18. Own'
  <2> SUFFICES ASSUME ~ shared PROVE NodesAreOwn' /\ TnsAreOwn' /\ ListenerKept'
    BY <1>3 DEF Own
  <2>1. NodesAreOwn /\ TnsAreOwn /\ ListenerKept
    BY <1>1 DEF Own
  <2>2. NodesAreOwn'
    BY <1>3, <1>7, <2>1 DEF NodesAreOwn, Live, NodeOf
  <2>3. TnsAreOwn' /\ ListenerKept'
    BY <1>3, <1>7, <2>1 DEF TnsAreOwn, ListenerKept, Live
  <2> QED
    BY <2>2, <2>3
<1> QED
  BY <1>12, <1>13, <1>14, <1>15, <1>16, <1>17, <1>18 DEF IInv

------------------------------------------------------------------------------
(* tcp_receiver_thread *)

\* A thread ends and gives its node back: its own, as long as no pool was
\* exhausted.
LEMMA EndReceiverInv ==
  ASSUME IInv, NEW c \in AllConns, ReceiverEnds(c) \/ StdinEnds(c)
  PROVE  IInv'
<1>1. /\ TypeOK /\ PoolsThere /\ CountersHold /\ InHand /\ ThreadsHavePlaces /\ ReadersCounted
      /\ Own /\ SessionFiled
  BY DEF IInv
<1>2. /\ Live(c) /\ nodes' = [nodes EXCEPT ![NodeOf(c)] = BlankNode]
      /\ thread' = [thread EXCEPT ![c].at = "ended"]
      /\ UNCHANGED <<uri, started, phase, cap, capCount, nodeCount, tns, tnCount, null, shared, udpPool,
                     link, port, acc, recno, crashed>>
  BY Connections DEF ReceiverEnds, StdinEnds, EndReceiver, ReadsFrom, Listener
<1>3. PICK k : k = NodeOf(c)
  OBVIOUS
<1>4. k \in 1 .. Len(nodes)
  BY <1>1, <1>2, <1>3 DEF ThreadsHavePlaces, Spawned, Live, NodeOf
<1>5. /\ nodes \in Seq(NodeRec) /\ BlankNode \in NodeRec /\ DOMAIN nodes = 1 .. Len(nodes)
  BY <1>1 DEF PoolsThere, NodeRec, BlankNode
<1>6. /\ nodes' \in Seq(NodeRec) /\ Len(nodes') = Len(nodes) /\ nodes'[k] = BlankNode
      /\ \A i \in 1 .. Len(nodes) : i # k => nodes'[i] = nodes[i]
  BY <1>2, <1>3, <1>4, <1>5, Stored
<1>7. DOMAIN nodes' = 1 .. Len(nodes) /\ \A i \in DOMAIN nodes' : nodes'[i] \in NodeRec
  BY <1>6, Retyped
<1>8. /\ thread' \in [AllConns -> [at : {"none", "queued", "unread", "read", "ended"}, tn : 0 .. Len(tns)]]
      /\ thread'[c].at = "ended" /\ thread'[c].tn = thread[c].tn
      /\ \A d \in AllConns : d # c => thread'[d] = thread[d]
  <2>1. thread \in [AllConns -> [at : {"none", "queued", "unread", "read", "ended"}, tn : 0 .. Len(tns)]]
    BY <1>1 DEF TypeOK
  <2> QED
    BY <1>2, <2>1
<1>9. \A d \in AllConns : /\ Spawned(d)' <=> Spawned(d)
                          /\ thread'[d].tn = thread[d].tn
                          /\ Live(d)' <=> Live(d) /\ d # c
                          /\ thread[d].at = "ended" => thread'[d].at = "ended"
                          /\ thread'[d].at = "none" <=> thread[d].at = "none"
  BY <1>2, <1>8 DEF Spawned, Live
<1>10. TypeOK'
  <2>1. \A i \in DOMAIN nodes' : nodes'[i] \in [fd : AllConns \cup {0, Listener}, port : Ports \cup {0}]
    BY <1>7 DEF NodeRec
  <2>2. Len(nodes') = Len(nodes)
    BY <1>6
  <2>3. thread' \in [AllConns -> [at : {"none", "queued", "unread", "read", "ended"}, tn : 0 .. Len(tns)]]
    BY <1>8
  <2> QED
    BY <1>1, <1>2, <2>1, <2>2, <2>3 DEF TypeOK
<1>11. PoolsThere'
  <2>1. acc.at # "off"
    BY <1>1, <1>2 DEF PoolsThere, Live
  <2>2. nodes' # << >> /\ nodes # << >>
    BY <1>4, <1>5, <1>6
  <2> QED
    BY <1>1, <1>2, <1>6, <2>1, <2>2 DEF PoolsThere, Serving
<1>12. CountersHold'
  BY <1>1, <1>2 DEF CountersHold, Serving
<1>13. InHand'
  <2>1. \A d \in Conns : d \in AllConns /\ Opened(d) \in AllConns
    BY Connections
  <2>2. Serving' <=> Serving
    BY <1>2 DEF Serving
  <2> QED
    BY <1>1, <1>2, <1>6, <1>9, <2>1, <2>2 DEF InHand, Serving
<1>14. ThreadsHavePlaces'
  <2>1. \A d \in Conns : d \in AllConns /\ Opened(d) \in AllConns
    BY Connections
  <2> QED
    BY <1>1, <1>2, <1>6, <1>9, <2>1 DEF ThreadsHavePlaces
<1>15. ReadersCounted'
  <2>1. Linked \subseteq Linked'
    BY <1>2, <1>9 DEF Linked
  <2> QED
    BY <1>2, <1>9, <2>1, ReadersFrame
<1>16. SessionFiled'
  BY <1>2, <1>9, FiledFrame
<1>17. Own'
  <2> SUFFICES ASSUME ~ shared PROVE NodesAreOwn' /\ TnsAreOwn' /\ ListenerKept'
    BY <1>2 DEF Own
  <2>1. NodesAreOwn /\ TnsAreOwn /\ ListenerKept
    BY <1>1 DEF Own
  <2>2. nodes[k].fd = c /\ c # 0
    BY <1>2, <1>3, <2>1, Connections DEF NodesAreOwn
  <2>3. \A d \in AllConns : NodeOf(d)' = NodeOf(d)
    BY <1>2, <1>9 DEF NodeOf
  <2>4. \A i \in 1 .. Len(nodes) : nodes[i].fd # 0 =>
          /\ nodes[i].fd \in AllConns /\ nodes[i].port = port[nodes[i].fd]
          /\ \A j \in 1 .. Len(nodes) : nodes[i].fd = nodes[j].fd => i = j
          /\ \/ thread[nodes[i].fd].at \in {"read", "unread"}
             \/ acc.at = "tn" /\ nodes[i].fd = acc.conn
    BY <1>5, <2>1 DEF NodesAreOwn, Live
  <2>5. ASSUME NEW i \in 1 .. Len(nodes), nodes'[i].fd # 0
        PROVE  /\ nodes'[i].fd \in AllConns /\ nodes'[i].port = port[nodes'[i].fd]
               /\ \A j \in 1 .. Len(nodes) : nodes'[i].fd = nodes'[j].fd => i = j
               /\ \/ thread'[nodes'[i].fd].at \in {"read", "unread"}
                  \/ acc.at = "tn" /\ nodes'[i].fd = acc.conn
    <3>1. i # k /\ nodes'[i] = nodes[i]
      BY <1>6, <2>5 DEF BlankNode
    <3>2. nodes[i].fd # c
      BY <1>4, <2>2, <2>4, <3>1
    <3>3. \A j \in 1 .. Len(nodes) : nodes'[i].fd = nodes'[j].fd => i = j
      BY <1>6, <2>4, <2>5, <3>1 DEF BlankNode
    <3> QED
      BY <1>8, <2>4, <2>5, <3>1, <3>2, <3>3
  <2>6. \A d \in AllConns : Live(d)' => nodes'[NodeOf(d)'].fd = d
    <3> SUFFICES ASSUME NEW d \in AllConns, Live(d)' PROVE nodes'[NodeOf(d)].fd = d
      BY <2>3
    <3>1. Live(d) /\ d # c /\ nodes[NodeOf(d)].fd = d
      BY <1>9, <2>1 DEF NodesAreOwn
    <3>2. NodeOf(d) \in 1 .. Len(nodes)
      BY <1>1, <3>1 DEF ThreadsHavePlaces, Spawned, Live, NodeOf
    <3> QED
      BY <1>6, <2>2, <3>1, <3>2
  <2>7. acc.at = "tn" => nodes'[acc.node].fd = acc.conn
    <3>1. acc.at = "tn" => acc.node \in 1 .. Len(nodes) /\ acc.conn # c /\ nodes[acc.node].fd = acc.conn
      BY <1>1, <1>2, <2>1 DEF InHand, Live, NodesAreOwn
    <3> QED
      BY <1>6, <2>2, <3>1
  <2>8. ASSUME acc.at \in {"file", "link"}, ~ Live(acc.conn)'
        PROVE  nodes'[NodeOf(acc.conn)'] = BlankNode
    <3>1. PICK d \in AllConns : d = acc.conn /\ NodeOf(d) \in 1 .. Len(nodes)
      BY <1>5, <2>8, PortRead
    <3>2. d = c \/ ~ Live(d)
      BY <1>2, <1>9, <2>8, <3>1
    <3>3. NodeOf(acc.conn)' = NodeOf(d)
      BY <1>2, <2>3, <3>1 DEF NodeOf
    <3>4. ~ Live(d) => nodes[NodeOf(d)] = BlankNode
      BY <2>1, <2>8, <3>1 DEF NodesAreOwn
    <3> QED
      BY <1>3, <1>6, <3>1, <3>2, <3>3, <3>4
  <2>9. acc.at = "link" => acc.port = port[acc.conn] \/ (acc.port = 0 /\ ~ Live(acc.conn)')
    <3>1. acc.at = "link" => acc.conn \in AllConns /\ acc'.conn = acc.conn
      BY <1>1, <1>2 DEF InHand, Serving
    <3>2. acc.at = "link" => acc.port = port[acc.conn] \/ (acc.port = 0 /\ ~ Live(acc.conn))
      BY <2>1 DEF NodesAreOwn
    <3> QED
      BY <1>2, <1>8, <3>1, <3>2 DEF Live
  <2>10. NodesAreOwn'
    <3>1. DOMAIN nodes' = 1 .. Len(nodes) /\ UNCHANGED <<port, acc>>
      BY <1>2, <1>7
    <3> QED
      BY <2>5, <2>6, <2>7, <2>8, <2>9, <3>1 DEF NodesAreOwn, Live
  <2>11. TnsAreOwn' /\ ListenerKept'
    BY <1>2, <1>9, <2>1 DEF TnsAreOwn, ListenerKept
  <2> QED
    BY <2>10, <2>11
<1> QED
  BY <1>10, <1>11, <1>12, <1>13, <1>14, <1>15, <1>16, <1>17 DEF IInv

------------------------------------------------------------------------------
(* The theorems of the specification *)

\* Every step of the trunk and of its peers keeps the invariant.
LEMMA NextInv == IInv /\ [Next]_vars => IInv'
<1> SUFFICES ASSUME IInv, [Next]_vars PROVE IInv'
  OBVIOUS
<1>1. CASE \/ UNCHANGED vars \/ LoadCrashes \/ UdpCrashes \/ SpawnCrashes \/ DispatchCrashes
           \/ \E c \in Conns : AcceptCrashes(c)
           \/ \E c \in AllConns : ReadCrashes(c)
  BY <1>1, CrashInv
<1>2. CASE start_tcp_socket
  BY <1>2, StartInv
<1>3. CASE phase = "created" /\ (LoadFails \/ start_tcp_service \/ start_udp_service)
  BY <1>3, LoadInv
<1>4. CASE \E c \in Conns : PeerConnects(c)
  BY <1>4, PeerConnectsInv
<1>5. CASE \E c \in AllConns : PeerCloses(c) \/ ReadError(c)
  BY <1>5, PeerClosesInv
<1>6. CASE \E c \in AllConns : ReceiverEnds(c) \/ StdinEnds(c)
  BY <1>6, EndReceiverInv
<1>7. CASE \E c \in Conns : AcceptNode(c) \/ AcceptWithoutNode(c)
  BY <1>7, AcceptNodeInv, AcceptWithoutNodeInv
<1>8. CASE SpawnReceiver \/ SpawnFails \/ SpawnWithoutTn
  BY <1>8, SpawnInv, SpawnWithoutTnInv
<1>9. CASE FileSession \/ on_acception_connection_tcp_cb \/ on_connect_connection_tcp_cb
  BY <1>9, FileSessionInv, LinkSessionInv
<1>10. CASE DispatchNone \/ connect_udp_server \/ DispatchFails \/ DispatchConnects \/ DispatchWithoutNode
  BY <1>10, ReleaseInv, DispatchConnectsInv
<1>11. CASE AcceptAgain \/ \E c \in Conns : AcceptFails(c)
  BY <1>11, StarvedInv
<1> QED
  BY <1>1, <1>2, <1>3, <1>4, <1>5, <1>6, <1>7, <1>8, <1>9, <1>10, <1>11
  DEF Next, dmmr_plugin_load, start_accept_from_uri, Receiver, Acceptor, create_dispatcher_from_uri

\* The invariant holds in every state, for pools of any size and any number of
\* connections.
THEOREM Invariance == Spec => []IInv
BY InitInv, NextInv, PTL DEF Spec

\* Every place handed out by get_node, get_tcp_node and
\* get_union_protocol_base_cb is a place of its pool, and no counter passes the
\* end of its pool, however many connections come and go and wherever memory
\* runs out.
THEOREM TypeCorrect == Spec => []TypeOK
<1>1. IInv => TypeOK
  BY DEF IInv
<1> QED
  BY <1>1, Invariance, PTL

\* As long as no pool was exhausted every connection has a node and a tcp_node
\* to itself, and what a receiver thread gives back is its own.
THEOREM PlacesAreOwn == Spec => []SlotsAreOwn
<1>1. IInv => SlotsAreOwn
  <2> SUFFICES ASSUME IInv, ~ shared PROVE SlotsAreOwn
    BY DEF SlotsAreOwn
  <2>1. NodesAreOwn /\ TnsAreOwn /\ ListenerKept
    BY DEF IInv, Own
  <2>2. \A c \in AllConns : Live(c) => tns[thread[c].tn].run /\ ReadsFrom(c) = c
    BY <2>1 DEF NodesAreOwn, TnsAreOwn, ReadsFrom
  <2>3. acc.at # "off" => cap[acc.slot] = [proto |-> "tcp", fd |-> Listener]
    BY <2>1 DEF ListenerKept, IInv, CountersHold
  <2>4. \A i \in DOMAIN nodes : nodes[i].fd # 0 =>
          \/ Live(nodes[i].fd) \/ thread[nodes[i].fd].at = "unread"
          \/ acc.at = "tn" /\ nodes[i].fd = acc.conn
    BY <2>1 DEF NodesAreOwn
  <2> QED
    BY <2>1, <2>2, <2>3, <2>4 DEF SlotsAreOwn, TnsAreOwn
<1> QED
  BY <1>1, Invariance, PTL

\* As long as no pool was exhausted a session with a thread is filed under its
\* connection's port, unless the connection's thread had already ended.
THEOREM SessionsAreFiled == Spec => []SessionFiled
<1>1. IInv => SessionFiled
  BY DEF IInv
<1> QED
  BY <1>1, Invariance, PTL

==============================================================================
