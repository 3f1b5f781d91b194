---------------------------- MODULE SessionProofs ----------------------------
(***************************************************************************)
(* Proofs about module Session, for every ring, every limit of a send and  *)
(* any number of copies.  First what the operations on the pool compute;   *)
(* then that the thread of a session stays in step with the ring, and that *)
(* without a race its pool is a queue.                                     *)
(***************************************************************************)
EXTENDS Session, SequenceTheorems, WellFoundedInduction, TLAPS

------------------------------------------------------------------------------
(* Induction and recursion *)

\* Every set of naturals that is not empty has a least element.
LEMMA LeastElement ==
  ASSUME NEW T, T \subseteq Nat, T # {}
  PROVE  \E n \in T : \A m \in T : n <= m
<1> DEFINE R == OpToRel(<, Nat)
<1>1. IsWellFoundedOn(R, Nat)
  BY NatLessThanWellFounded, Zenon
<1>2. PICK n \in T : \A m \in T : ~ (<<m, n>> \in R)
  <2> HIDE DEF R
  <2> QED
    BY <1>1, WFMin
<1>3. ASSUME NEW m \in T PROVE n <= m
  <2>1. ~ (<<m, n>> \in R) /\ m \in Nat /\ n \in Nat
    BY <1>2, Zenon
  <2>2. m < n => <<m, n>> \in R
    BY <2>1, Zenon DEF OpToRel
  <2> HIDE DEF R
  <2> QED
    BY <2>1, <2>2
<1> QED
  BY <1>3

\* What holds at 0, and at m + 1 where it holds at m, holds up to n.
LEMMA Climb ==
  ASSUME NEW n \in Nat, NEW T, 0 \in T,
         \A m \in 0 .. n - 1 : m \in T => m + 1 \in T
  PROVE  \A m \in 0 .. n : m \in T
<1> DEFINE U == {m \in 0 .. n : m \notin T}
<1> SUFFICES ASSUME U # {} PROVE FALSE
  OBVIOUS
<1>1. PICK m \in U : \A k \in U : m <= k
  <2>1. U \subseteq Nat
    OBVIOUS
  <2> HIDE DEF U
  <2> QED
    BY <2>1, LeastElement
<1>2. m \in 0 .. n /\ m # 0 /\ m \notin T
  BY <1>1
<1>3. m - 1 \in 0 .. n - 1 /\ m - 1 \in 0 .. n /\ ~ (m <= m - 1) /\ (m - 1) + 1 = m
  BY <1>2
<1>4. m - 1 \in T
  BY <1>1, <1>3
<1> QED
  BY <1>2, <1>3, <1>4

\* f is a recursion over 0 .. n that begins with a and has the step g.
Unfolds(f, V, a, n, g) ==
  f \in [0 .. n -> V] /\ f[0] = a /\ \A i \in 1 .. n : f[i] = g[<<f[i - 1], i>>]

\* Such a recursion defines a function.
LEMMA Recursion ==
  ASSUME NEW V, NEW a \in V, NEW n \in Nat, NEW g \in [V \X (1 .. n) -> V]
  PROVE  \E f : Unfolds(f, V, a, n, g)
<1> DEFINE Up(f, m) == f[0] = a /\ \A i \in 1 .. m : f[i] = g[<<f[i - 1], i>>]
           T == {m \in 0 .. n : \E f \in [0 .. n -> V] : Up(f, m)}
<1>1. 0 \in T
  <2> DEFINE f == [i \in 0 .. n |-> a]
  <2>1. f \in [0 .. n -> V] /\ f[0] = a /\ 0 \in 0 .. n
    OBVIOUS
  <2>2. Up(f, 0)
    BY <2>1
  <2> HIDE DEF Up, f
  <2> QED
    BY <2>1, <2>2
<1>2. ASSUME NEW m \in 0 .. n - 1, m \in T PROVE m + 1 \in T
  <2>1. PICK f \in [0 .. n -> V] : Up(f, m)
    BY <1>2
  <2> DEFINE h == [i \in 0 .. n |-> IF i = m + 1 THEN g[<<f[m], m + 1>>] ELSE f[i]]
  <2>2. m \in Nat /\ m + 1 \in 1 .. n /\ m \in 0 .. n /\ m + 1 \in 0 .. n /\ m + 1 # 0
    BY <1>2
  <2>3. g[<<f[m], m + 1>>] \in V
    BY <2>2
  <2>4. h \in [0 .. n -> V]
    BY <2>3
  <2>5. h[0] = a
    BY <2>1, <2>2
  <2>6. ASSUME NEW i \in 1 .. m + 1 PROVE h[i] = g[<<h[i - 1], i>>]
    <3>1. i \in 0 .. n /\ i - 1 \in 0 .. n /\ i - 1 # m + 1
      BY <2>2
    <3>2. h[i - 1] = f[i - 1]
      BY <3>1
    <3>3. CASE i = m + 1
      <4>1. i - 1 = m
        BY <2>2, <3>3
      <4> QED
        BY <3>1, <3>2, <3>3, <4>1
    <3>4. CASE i # m + 1
      <4>1. i \in 1 .. m /\ h[i] = f[i]
        BY <2>2, <3>1, <3>4
      <4> HIDE DEF h
      <4> QED
        BY <2>1, <3>2, <4>1
    <3> QED
      BY <3>3, <3>4
  <2>7. Up(h, m + 1)
    BY <2>5, <2>6
  <2> HIDE DEF Up, h
  <2> QED
    BY <2>2, <2>4, <2>7
<1>3. n \in T
  <2>1. \A m \in 0 .. n : m \in T
    <3> HIDE DEF T
    <3> QED
      BY <1>1, <1>2, Climb
  <2> HIDE DEF T
  <2> QED
    BY <2>1
<1> QED
  BY <1>3 DEF Unfolds

------------------------------------------------------------------------------
(* What the operations on the pool compute *)

\* The lengths a node may have are numbers.
LEMMA NodeFields ==
  ASSUME NEW p \in Seq(Node)
  PROVE  /\ Len(p) \in Nat
         /\ \A i \in 1 .. Len(p) : p[i] \in Node /\ p[i].bytes \in 0 .. MaxBytes
<1>1. Len(p) \in Nat /\ \A i \in 1 .. Len(p) : p[i] \in Node
  OBVIOUS
<1> QED
  BY <1>1 DEF Node

\* f satisfies the recursion in Bytes.
SumsUp(f, p, k) == f = [i \in 0 .. k |-> IF i = 0 THEN 0 ELSE f[i - 1] + p[i].bytes]

\* Bytes adds up.
LEMMA BytesAddUp ==
  ASSUME NEW p \in Seq(Node)
  PROVE  /\ Bytes(p, 0) = 0
         /\ \A k \in 0 .. Len(p) : Bytes(p, k) \in Nat
         /\ \A k \in 1 .. Len(p) : Bytes(p, k) = Bytes(p, k - 1) + p[k].bytes
<1> DEFINE n == Len(p)
           g == [w \in Nat \X (1 .. n) |-> w[1] + p[w[2]].bytes]
<1>0. n \in Nat /\ \A i \in 1 .. n : p[i].bytes \in Nat
  BY NodeFields, SessionAssumption
<1> HIDE DEF n
<1>1. PICK f \in [0 .. n -> Nat] : f[0] = 0 /\ \A i \in 1 .. n : f[i] = f[i - 1] + p[i].bytes
  <2>1. g \in [Nat \X (1 .. n) -> Nat]
    BY <1>0
  <2>2. \A x \in Nat, i \in 1 .. n : g[<<x, i>>] = x + p[i].bytes
    OBVIOUS
  <2> HIDE DEF g
  <2>3. PICK f : Unfolds(f, Nat, 0, n, g)
    BY <1>0, <2>1, Recursion
  <2>4. ASSUME NEW i \in 1 .. n PROVE f[i - 1] \in Nat
    <3>1. i - 1 \in 0 .. n
      BY <1>0
    <3> QED
      BY <2>3, <3>1 DEF Unfolds
  <2> QED
    BY <2>2, <2>3, <2>4 DEF Unfolds
<1>2. ASSUME NEW k \in 0 .. n PROVE Bytes(p, k) = f[k]
  <2> DEFINE h == [i \in 0 .. k |-> f[i]]
             c == CHOOSE s : SumsUp(s, p, k)
  <2>1. SumsUp(h, p, k)
    <3>1. ASSUME NEW i \in 0 .. k PROVE h[i] = IF i = 0 THEN 0 ELSE h[i - 1] + p[i].bytes
      <4>1. CASE i = 0
        BY <1>1, <4>1
      <4>2. CASE i # 0
        <5>1. i \in 1 .. n /\ i - 1 \in 0 .. k
          BY <1>0, <4>2
        <5>2. f[i] = f[i - 1] + p[i].bytes
          BY <1>1, <5>1
        <5> QED
          BY <4>2, <5>1, <5>2
      <4> QED
        BY <4>1, <4>2
    <3>2. h = [i \in 0 .. k |-> h[i]]
      OBVIOUS
    <3> HIDE DEF h
    <3> QED
      BY <3>1, <3>2 DEF SumsUp
  <2>2. SumsUp(c, p, k)
    <3> HIDE DEF h
    <3> QED
      BY <2>1
  <2>3. Bytes(p, k) = c[k]
    BY DEF Bytes, SumsUp
  <2> HIDE DEF c, h
  <2>4. /\ c[0] = 0
        /\ \A i \in 1 .. k : c[i] = c[i - 1] + p[i].bytes
    <3>1. \A i \in 0 .. k : c[i] = IF i = 0 THEN 0 ELSE c[i - 1] + p[i].bytes
      BY <2>2 DEF SumsUp
    <3>2. 0 \in 0 .. k /\ \A i \in 1 .. k : i \in 0 .. k /\ i # 0
      BY <1>0
    <3> QED
      BY <3>1, <3>2
  <2> DEFINE T == {i \in 0 .. k : c[i] = f[i]}
  <2>5. \A i \in 0 .. k : i \in T
    <3>1. 0 \in T
      BY <1>1, <2>4
    <3>2. ASSUME NEW i \in 0 .. k - 1, i \in T PROVE i + 1 \in T
      <4>1. i + 1 \in 1 .. k /\ i + 1 \in 1 .. n /\ (i + 1) - 1 = i /\ i + 1 \in 0 .. k
        BY <1>0
      <4> QED
        BY <1>1, <2>4, <3>2, <4>1
    <3>3. k \in Nat
      BY <1>0
    <3> HIDE DEF T
    <3> QED
      BY <3>1, <3>2, <3>3, Climb
  <2> QED
    BY <2>3, <2>5
<1>3. \A k \in 1 .. n : k \in 0 .. n /\ k - 1 \in 0 .. n
  BY <1>0
<1>4. 0 \in 0 .. n
  BY <1>0
<1> QED
  BY <1>1, <1>2, <1>3, <1>4 DEF n

\* More nodes have no fewer bytes.
LEMMA BytesGrow ==
  ASSUME NEW p \in Seq(Node), NEW k \in 0 .. Len(p), NEW j \in 0 .. k
  PROVE  Bytes(p, j) <= Bytes(p, k)
<1> DEFINE T == {m \in 0 .. k : \A i \in 0 .. m : Bytes(p, i) <= Bytes(p, m)}
<1>0. k \in Nat /\ Len(p) \in Nat
  BY NodeFields
<1>1. 0 \in T
  BY <1>0, BytesAddUp
<1>2. ASSUME NEW m \in 0 .. k - 1, m \in T PROVE m + 1 \in T
  <2>1. m + 1 \in 1 .. Len(p) /\ m \in 0 .. Len(p) /\ (m + 1) - 1 = m /\ m + 1 \in 0 .. k
    BY <1>0
  <2>2. Bytes(p, m + 1) = Bytes(p, m) + p[m + 1].bytes
    BY <2>1, BytesAddUp
  <2>3. p[m + 1].bytes \in Nat /\ Bytes(p, m) \in Nat
    BY <2>1, NodeFields, BytesAddUp, SessionAssumption
  <2>4. ASSUME NEW i \in 0 .. m + 1 PROVE Bytes(p, i) <= Bytes(p, m + 1)
    <3>1. CASE i = m + 1
      BY <2>2, <2>3, <3>1
    <3>2. CASE i # m + 1
      <4>1. i \in 0 .. m /\ i \in 0 .. Len(p)
        BY <1>0, <3>2
      <4>2. Bytes(p, i) <= Bytes(p, m) /\ Bytes(p, i) \in Nat
        BY <1>2, <4>1, BytesAddUp
      <4> QED
        BY <2>2, <2>3, <4>2
    <3> QED
      BY <3>1, <3>2
  <2> QED
    BY <2>1, <2>4
<1>3. \A m \in 0 .. k : m \in T
  <2> HIDE DEF T
  <2> QED
    BY <1>0, <1>1, <1>2, Climb
<1>4. k \in 0 .. k
  BY <1>0
<1> QED
  BY <1>3, <1>4

\* The bytes of the first k nodes depend on these only.
LEMMA BytesAgree ==
  ASSUME NEW p \in Seq(Node), NEW q \in Seq(Node), NEW k \in Nat, k <= Len(p), k <= Len(q),
         \A i \in 1 .. k : p[i] = q[i]
  PROVE  Bytes(p, k) = Bytes(q, k)
<1> DEFINE T == {m \in 0 .. k : Bytes(p, m) = Bytes(q, m)}
<1>0. Len(p) \in Nat /\ Len(q) \in Nat
  BY NodeFields
<1>1. 0 \in T
  BY BytesAddUp
<1>2. ASSUME NEW m \in 0 .. k - 1, m \in T PROVE m + 1 \in T
  <2>1. /\ m + 1 \in 1 .. Len(p) /\ m + 1 \in 1 .. Len(q) /\ m + 1 \in 1 .. k
        /\ (m + 1) - 1 = m /\ m + 1 \in 0 .. k
    BY <1>0
  <2>2. Bytes(p, m + 1) = Bytes(p, m) + p[m + 1].bytes
    BY <2>1, BytesAddUp
  <2>3. Bytes(q, m + 1) = Bytes(q, m) + q[m + 1].bytes
    BY <2>1, BytesAddUp
  <2> QED
    BY <1>2, <2>1, <2>2, <2>3
<1>3. \A m \in 0 .. k : m \in T
  <2> HIDE DEF T
  <2> QED
    BY <1>1, <1>2, Climb
<1> QED
  BY <1>3

\* Full nodes have MaxBytes each.
LEMMA BytesOfFull ==
  ASSUME NEW p \in Seq(Node), NEW k \in 0 .. Len(p), \A i \in 1 .. k : p[i].bytes = MaxBytes
  PROVE  Bytes(p, k) = k * MaxBytes
<1> DEFINE T == {m \in 0 .. k : Bytes(p, m) = m * MaxBytes}
<1>0. k \in Nat /\ Len(p) \in Nat /\ MaxBytes \in Nat
  BY NodeFields, SessionAssumption
<1>1. 0 \in T
  BY <1>0, BytesAddUp
<1>2. ASSUME NEW m \in 0 .. k - 1, m \in T PROVE m + 1 \in T
  <2>1. m + 1 \in 1 .. Len(p) /\ m + 1 \in 1 .. k /\ (m + 1) - 1 = m /\ m + 1 \in 0 .. k /\ m \in Nat
    BY <1>0
  <2>2. Bytes(p, m + 1) = m * MaxBytes + MaxBytes
    BY <1>2, <2>1, BytesAddUp
  <2>3. m * MaxBytes + MaxBytes = (m + 1) * MaxBytes
    BY <1>0, <2>1
  <2> QED
    BY <2>1, <2>2, <2>3
<1>3. \A m \in 0 .. k : m \in T
  <2> HIDE DEF T
  <2> QED
    BY <1>0, <1>1, <1>2, Climb
<1> QED
  BY <1>0, <1>3

\* f satisfies the recursion in get_session_size.
SizesUp(f, p, k, max, wide) ==
  f = [i \in 0 .. k |-> IF i = 0 THEN 0
                        ELSE IF f[i - 1] >= max THEN f[i - 1]
                             ELSE (f[i - 1] + p[i].bytes) % wide]

\* As long as its 16 bits hold the limit and one more node, get_session_size is
\* the sum of a pool whose last node may be the first to reach the limit.
LEMMA SizeIsBytes ==
  ASSUME NEW wide \in Nat, Limit + MaxBytes <= wide,
         NEW p \in Seq(Node), NEW k \in 1 .. Len(p), Bytes(p, k - 1) < Limit
  PROVE  get_session_size(p, k, Limit, wide) = Bytes(p, k)
<1>0. k \in Nat /\ Len(p) \in Nat /\ k <= Len(p) /\ Limit \in Nat /\ MaxBytes \in Nat
  BY NodeFields, SessionAssumption DEF Limit
<1>1. \A i \in 0 .. k - 1 : Bytes(p, i) < Limit
  <2> SUFFICES ASSUME NEW i \in 0 .. k - 1 PROVE Bytes(p, i) < Limit
    OBVIOUS
  <2>1. k - 1 \in 0 .. Len(p) /\ i \in 0 .. Len(p)
    BY <1>0
  <2>2. Bytes(p, i) <= Bytes(p, k - 1)
    BY <2>1, BytesGrow
  <2>3. Bytes(p, i) \in Nat /\ Bytes(p, k - 1) \in Nat
    BY <2>1, BytesAddUp
  <2> QED
    BY <1>0, <2>2, <2>3
<1>2. ASSUME NEW i \in 1 .. k
      PROVE  /\ ~ (Bytes(p, i - 1) >= Limit)
             /\ Bytes(p, i) = (Bytes(p, i - 1) + p[i].bytes) % wide
  <2>1. i \in 1 .. Len(p) /\ i - 1 \in 0 .. k - 1 /\ i - 1 \in 0 .. Len(p)
    BY <1>0
  <2>2. Bytes(p, i - 1) \in Nat /\ Bytes(p, i - 1) < Limit
    BY <1>1, <2>1, BytesAddUp
  <2>3. p[i].bytes \in 0 .. MaxBytes
    BY <2>1, NodeFields
  <2>4. Bytes(p, i) = Bytes(p, i - 1) + p[i].bytes
    BY <2>1, BytesAddUp
  <2>5. Bytes(p, i - 1) + p[i].bytes \in Nat /\ Bytes(p, i - 1) + p[i].bytes < wide
    <3>1. \A b, c, l, m, w \in Nat : b < l /\ c <= m /\ l + m <= w => b + c \in Nat /\ b + c < w
      OBVIOUS
    <3>2. p[i].bytes \in Nat /\ p[i].bytes <= MaxBytes
      BY <1>0, <2>3
    <3> QED
      BY <1>0, <2>2, <3>1, <3>2
  <2>6. \A x \in Nat : x < wide => x % wide = x
    OBVIOUS
  <2> QED
    BY <1>0, <2>2, <2>4, <2>5, <2>6
<1> DEFINE h == [i \in 0 .. k |-> Bytes(p, i)]
           c == CHOOSE s : SizesUp(s, p, k, Limit, wide)
<1>3. SizesUp(h, p, k, Limit, wide)
  <2>1. ASSUME NEW i \in 0 .. k
        PROVE  h[i] = IF i = 0 THEN 0
                      ELSE IF h[i - 1] >= Limit THEN h[i - 1]
                           ELSE (h[i - 1] + p[i].bytes) % wide
    <3>1. CASE i = 0
      BY <3>1, BytesAddUp
    <3>2. CASE i # 0
      <4>1. i \in 1 .. k /\ i - 1 \in 0 .. k
        BY <1>0, <3>2
      <4>2. h[i - 1] = Bytes(p, i - 1) /\ h[i] = Bytes(p, i)
        BY <4>1
      <4> HIDE DEF h
      <4> QED
        BY <1>2, <3>2, <4>1, <4>2
    <3> QED
      BY <3>1, <3>2
  <2>2. h = [i \in 0 .. k |-> h[i]]
    OBVIOUS
  <2> HIDE DEF h
  <2> QED
    BY <2>1, <2>2 DEF SizesUp
<1>4. SizesUp(c, p, k, Limit, wide)
  <2> HIDE DEF h
  <2> QED
    BY <1>3
<1>5. get_session_size(p, k, Limit, wide) = c[k]
  BY DEF get_session_size, SizesUp
<1> HIDE DEF c, h
<1>6. /\ c[0] = 0
      /\ \A i \in 1 .. k : c[i] = IF c[i - 1] >= Limit THEN c[i - 1] ELSE (c[i - 1] + p[i].bytes) % wide
  <2>1. \A i \in 0 .. k : c[i] = IF i = 0 THEN 0
                                 ELSE IF c[i - 1] >= Limit THEN c[i - 1]
                                      ELSE (c[i - 1] + p[i].bytes) % wide
    BY <1>4 DEF SizesUp
  <2>2. 0 \in 0 .. k /\ \A i \in 1 .. k : i \in 0 .. k /\ i # 0
    BY <1>0
  <2> QED
    BY <2>1, <2>2
<1> DEFINE T == {i \in 0 .. k : c[i] = Bytes(p, i)}
<1>7. \A i \in 0 .. k : i \in T
  <2>1. 0 \in T
    BY <1>0, <1>6, BytesAddUp
  <2>2. ASSUME NEW i \in 0 .. k - 1, i \in T PROVE i + 1 \in T
    <3>1. i + 1 \in 1 .. k /\ (i + 1) - 1 = i /\ i + 1 \in 0 .. k
      BY <1>0
    <3>2. c[i + 1] = IF c[i] >= Limit THEN c[i] ELSE (c[i] + p[i + 1].bytes) % wide
      BY <1>6, <3>1
    <3>3. ~ (Bytes(p, i) >= Limit) /\ Bytes(p, i + 1) = (Bytes(p, i) + p[i + 1].bytes) % wide
      BY <1>2, <3>1
    <3> QED
      BY <2>2, <3>1, <3>2, <3>3
  <2> HIDE DEF T
  <2> QED
    BY <1>0, <2>1, <2>2, Climb
<1>8. k \in 0 .. k
  BY <1>0
<1> QED
  BY <1>5, <1>7, <1>8

\* process_session_node counts a node at least.
LEMMA SendCountType ==
  ASSUME NEW p \in Seq(Node), NEW k \in 0 .. Len(p)
  PROVE  SendCount(p, k, Limit) \in Nat
<1> DEFINE over == {i \in 1 .. k : Bytes(p, i) > Limit}
<1>0. k \in Nat
  BY NodeFields
<1>1. SendCount(p, k, Limit) = IF k = 0 THEN 1
                               ELSE IF over = {} THEN k
                                    ELSE CHOOSE i \in over : \A j \in over : i <= j
  BY DEF SendCount
<1>2. over \subseteq Nat
  OBVIOUS
<1> HIDE DEF over
<1>3. over # {} => (CHOOSE i \in over : \A j \in over : i <= j) \in over
  BY <1>2, LeastElement
<1>4. CASE over = {}
  BY <1>0, <1>1, <1>4
<1>5. CASE over # {}
  <2>1. (CHOOSE i \in over : \A j \in over : i <= j) \in Nat
    BY <1>2, <1>3, <1>5
  <2> QED
    BY <1>1, <1>5, <2>1
<1> QED
  BY <1>4, <1>5

\* It counts the whole pool when the last node is the first to reach the limit.
LEMMA SendCountAll ==
  ASSUME NEW p \in Seq(Node), NEW k \in 1 .. Len(p), Bytes(p, k - 1) < Limit
  PROVE  SendCount(p, k, Limit) = k
<1> DEFINE over == {i \in 1 .. k : Bytes(p, i) > Limit}
<1>0. k \in Nat /\ k # 0 /\ Len(p) \in Nat /\ k - 1 \in 0 .. Len(p) /\ Limit \in Nat
  BY NodeFields, SessionAssumption DEF Limit
<1>1. SendCount(p, k, Limit) = IF k = 0 THEN 1
                               ELSE IF over = {} THEN k
                                    ELSE CHOOSE i \in over : \A j \in over : i <= j
  BY DEF SendCount
<1>2. ASSUME NEW i \in over PROVE i = k
  <2>1. CASE i \in 0 .. k - 1
    <3>1. Bytes(p, i) <= Bytes(p, k - 1)
      BY <1>0, <2>1, BytesGrow
    <3>2. Bytes(p, i) \in Nat /\ Bytes(p, k - 1) \in Nat
      BY <1>0, <2>1, BytesAddUp
    <3> QED
      BY <1>0, <3>1, <3>2
  <2> QED
    BY <1>0, <2>1
<1>3. over \subseteq Nat
  OBVIOUS
<1> HIDE DEF over
<1>4. over # {} => (CHOOSE i \in over : \A j \in over : i <= j) \in over
  BY <1>3, LeastElement
<1> QED
  BY <1>0, <1>1, <1>2, <1>4

\* A pool of full nodes below the limit, but for its last, fits one send.
LEMMA FullFits ==
  ASSUME NEW p \in Seq(Node), NEW k \in 1 .. Len(p), Bytes(p, k - 1) < Limit,
         \A i \in 1 .. k : p[i].bytes = MaxBytes
  PROVE  k <= IovMax
<1>0. /\ k \in Nat /\ Len(p) \in Nat /\ k - 1 \in 0 .. Len(p) /\ k - 1 \in Nat
      /\ MaxBytes \in Nat \ {0} /\ IovMax \in Nat
  BY NodeFields, SessionAssumption
<1>1. \A i \in 1 .. k - 1 : p[i].bytes = MaxBytes
  BY <1>0
<1>2. Bytes(p, k - 1) = (k - 1) * MaxBytes
  BY <1>0, <1>1, BytesOfFull
<1>3. (k - 1) * MaxBytes < MaxBytes * IovMax
  BY <1>2 DEF Limit
<1>4. \A a \in Nat, b \in Nat, c \in Nat : a * c < c * b => a < b
  <2> SUFFICES ASSUME NEW a \in Nat, NEW b \in Nat, NEW c \in Nat, b <= a
               PROVE  c * b <= a * c
    OBVIOUS
  <2>1. PICK d \in Nat : a = b + d
    <3>1. a - b \in Nat /\ a = b + (a - b)
      OBVIOUS
    <3> QED
      BY <3>1
  <2>2. a * c = b * c + d * c /\ d * c \in Nat /\ b * c \in Nat /\ b * c = c * b
    BY <2>1
  <2> QED
    BY <2>2
<1>5. k - 1 < IovMax
  BY <1>0, <1>3, <1>4
<1> QED
  BY <1>0, <1>5

\* The place sort_pool_by_arrival_inline finds for node i, going down from it.
At(p, i) ==
  LET place[j \in 1 .. i] ==
        IF j > 1 /\ p[j - 1].id > p[i].id THEN place[j - 1] ELSE j
  IN  place[i]

\* f satisfies the recursion in At.
GoesDown(f, p, i) == f = [j \in 1 .. i |-> IF j > 1 /\ p[j - 1].id > p[i].id THEN f[j - 1] ELSE j]

\* The place is one of those up to the node's own.
LEMMA PlaceInRange ==
  ASSUME NEW s, NEW i \in Nat \ {0}
  PROVE  At(s, i) \in 1 .. i
<1>0. i \in Nat \ {0} /\ i \in 1 .. i
  OBVIOUS
<1> DEFINE key == s[i].id
           V == 1 .. i
           g == [w \in V \X (1 .. i) |-> IF w[2] > 1 /\ s[w[2] - 1].id > key THEN w[1] ELSE w[2]]
           c == CHOOSE f : GoesDown(f, s, i)
<1>1. PICK f : /\ f \in [0 .. i -> V]
               /\ \A j \in 1 .. i : f[j] = IF j > 1 /\ s[j - 1].id > key THEN f[j - 1] ELSE j
  <2>1. g \in [V \X (1 .. i) -> V]
    OBVIOUS
  <2>2. \A x \in V, j \in 1 .. i : g[<<x, j>>] = IF j > 1 /\ s[j - 1].id > key THEN x ELSE j
    OBVIOUS
  <2>3. 1 \in V /\ i \in Nat
    BY <1>0
  <2> HIDE DEF g, V
  <2>4. PICK f : Unfolds(f, V, 1, i, g)
    BY <2>1, <2>3, Recursion
  <2>5. ASSUME NEW j \in 1 .. i PROVE f[j - 1] \in V
    <3>1. j - 1 \in 0 .. i
      BY <1>0
    <3> QED
      BY <2>4, <3>1 DEF Unfolds
  <2> HIDE DEF key
  <2>6. f \in [0 .. i -> V] /\ \A j \in 1 .. i : f[j] = g[<<f[j - 1], j>>]
    BY <2>4 DEF Unfolds
  <2>7. ASSUME NEW j \in 1 .. i PROVE f[j] = IF j > 1 /\ s[j - 1].id > key THEN f[j - 1] ELSE j
    BY <2>2, <2>5, <2>6
  <2> QED
    BY <2>6, <2>7
<1>2. GoesDown(c, s, i)
  <2> DEFINE h == [j \in 1 .. i |-> f[j]]
  <2>1. ASSUME NEW j \in 1 .. i
        PROVE  h[j] = IF j > 1 /\ s[j - 1].id > key THEN h[j - 1] ELSE j
    <3>1. j > 1 => h[j - 1] = f[j - 1]
      <4>1. j > 1 => j - 1 \in 1 .. i
        BY <1>0
      <4> QED
        BY <4>1
    <3>2. h[j] = f[j]
      OBVIOUS
    <3> HIDE DEF h, key
    <3> QED
      BY <1>1, <3>1, <3>2
  <2>2. h = [j \in 1 .. i |-> h[j]]
    OBVIOUS
  <2> HIDE DEF h
  <2>3. GoesDown(h, s, i)
    BY <2>1, <2>2 DEF GoesDown
  <2> QED
    BY <2>3
<1>3. At(s, i) = c[i]
  BY DEF At, GoesDown
<1> HIDE DEF c
<1>4. \A j \in 1 .. i : c[j] = IF j > 1 /\ s[j - 1].id > key THEN c[j - 1] ELSE j
  BY <1>2 DEF GoesDown
<1> DEFINE T == {j \in 0 .. i - 1 : c[j + 1] \in 1 .. i}
<1>5. 0 \in T
  BY <1>0, <1>4
<1>6. ASSUME NEW j \in 0 .. (i - 1) - 1, j \in T PROVE j + 1 \in T
  <2>1. j + 2 \in 1 .. i /\ (j + 2) - 1 = j + 1 /\ j + 2 > 1 /\ (j + 1) + 1 = j + 2 /\ j + 1 \in 0 .. i - 1
    BY <1>0
  <2>2. c[j + 2] = c[j + 1] \/ c[j + 2] = j + 2
    BY <1>4, <2>1
  <2> QED
    BY <1>6, <2>1, <2>2
<1>7. i - 1 \in T
  <2>1. i - 1 \in Nat /\ i - 1 \in 0 .. i - 1
    BY <1>0
  <2> HIDE DEF T
  <2> QED
    BY <1>5, <1>6, <2>1, Climb
<1>8. (i - 1) + 1 = i
  BY <1>0
<1> QED
  BY <1>3, <1>7, <1>8

\* An array of n values is a sequence.
LEMMA ArrayIsSeq ==
  ASSUME NEW V, NEW n \in Nat, NEW f, f = [j \in 1 .. n |-> f[j]], \A j \in 1 .. n : f[j] \in V
  PROVE  f \in Seq(V) /\ Len(f) = n
  OBVIOUS

\* Putting a node in its place leaves a pool of as many nodes.
LEMMA ShiftedInType ==
  ASSUME NEW V, NEW a \in Seq(V), NEW i \in 2 .. Len(a)
  PROVE  ShiftedIn(a, i) \in Seq(V) /\ Len(ShiftedIn(a, i)) = Len(a)
<1> DEFINE n == Len(a)
           b == ShiftedIn(a, i)
           q == At(a, i)
<1>1. n \in Nat /\ i \in 1 .. n /\ \A j \in 1 .. n : a[j] \in V
  OBVIOUS
<1>2. q \in 1 .. i
  BY PlaceInRange
<1>3. b = [j \in 1 .. n |-> CASE j = q             -> a[i]
                              [] q < j /\ j <= i   -> a[j - 1]
                              [] OTHER             -> a[j]]
  BY DEF ShiftedIn, At
<1> HIDE DEF q, b, n
<1>4. ASSUME NEW j \in 1 .. n PROVE b[j] \in V
  <2>1. CASE q < j /\ j <= i
    <3>1. j - 1 \in 1 .. n /\ j # q
      BY <1>1, <1>2, <2>1
    <3> QED
      BY <1>1, <1>3, <2>1, <3>1
  <2>2. CASE ~ (q < j /\ j <= i)
    BY <1>1, <1>3, <2>2
  <2> QED
    BY <2>1, <2>2
<1>5. b = [j \in 1 .. n |-> b[j]]
  BY <1>3
<1>6. b \in Seq(V) /\ Len(b) = n
  BY <1>1, <1>4, <1>5, ArrayIsSeq
<1> QED
  BY <1>6 DEF b, n

\* The pool when its nodes up to each i are in order.
Passes(s) ==
  LET sorted[i \in 0 .. Len(s)] == IF i <= 1 THEN s ELSE ShiftedIn(sorted[i - 1], i)
  IN  sorted

\* The insertion sort's recursion defines a function, too.
LEMMA PassesDefined ==
  ASSUME NEW s, Len(s) \in Nat
  PROVE  \A i \in 0 .. Len(s) :
           Passes(s)[i] = IF i <= 1 THEN s ELSE ShiftedIn(Passes(s)[i - 1], i)
<1> DEFINE n == Len(s)
           Body(g, i) == IF i <= 1 THEN s ELSE ShiftedIn(g[i - 1], i)
           T == {m \in Nat : \E g : \A i \in 0 .. m : g[i] = Body(g, i)}
<1>1. 0 \in T
  <2> DEFINE g == [i \in {0} |-> s]
  <2>1. \A i \in 0 .. 0 : g[i] = Body(g, i)
    OBVIOUS
  <2> HIDE DEF g, Body
  <2> QED
    BY <2>1
<1>2. ASSUME NEW m \in Nat, m \in T PROVE m + 1 \in T
  <2>1. PICK g : \A i \in 0 .. m : g[i] = Body(g, i)
    BY <1>2
  <2> DEFINE h == [i \in 0 .. m + 1 |-> IF i = m + 1 THEN Body(g, i) ELSE g[i]]
  <2>2. ASSUME NEW i \in 0 .. m + 1 PROVE h[i] = Body(h, i)
    <3>1. h[i] = Body(g, i)
      <4> HIDE DEF Body
      <4>1. i = m + 1 \/ (i # m + 1 /\ i \in 0 .. m)
        OBVIOUS
      <4> QED
        BY <2>1, <4>1
    <3>2. i <= 1 \/ (i - 1 \in 0 .. m + 1 /\ i - 1 # m + 1)
      OBVIOUS
    <3>3. i <= 1 \/ h[i - 1] = g[i - 1]
      <4> HIDE DEF Body
      <4> QED
        BY <3>2
    <3> HIDE DEF h
    <3> QED
      BY <3>1, <3>3
  <2> HIDE DEF Body, h
  <2> QED
    BY <2>2
<1>3. n \in T
  <2>1. n \in Nat /\ n \in 0 .. n /\ \A m \in 0 .. n - 1 : m \in Nat
    OBVIOUS
  <2> HIDE DEF T, n
  <2>2. \A m \in 0 .. n - 1 : m \in T => m + 1 \in T
    BY <1>2, <2>1
  <2>3. \A m \in 0 .. n : m \in T
    BY <1>1, <2>1, <2>2, Climb
  <2> QED
    BY <2>1, <2>3
<1>4. PICK g : \A i \in 0 .. n : g[i] = Body(g, i)
  BY <1>3
<1> DEFINE h == [i \in 0 .. n |-> g[i]]
<1>5. ASSUME NEW i \in 0 .. n PROVE h[i] = Body(h, i)
  <2>1. h[i] = Body(g, i)
    BY <1>4
  <2>2. i <= 1 \/ i - 1 \in 0 .. n
    OBVIOUS
  <2>3. i <= 1 \/ h[i - 1] = g[i - 1]
    BY <2>2
  <2> HIDE DEF h
  <2> QED
    BY <2>1, <2>3
<1>6. h = [i \in 0 .. n |-> h[i]]
  OBVIOUS
<1> HIDE DEF h
<1>7. h = [i \in 0 .. n |-> Body(h, i)]
  <2> HIDE DEF Body
  <2> QED
    BY <1>5, <1>6
<1>8. Passes(s) = CHOOSE f : f = [i \in 0 .. n |-> Body(f, i)]
  BY DEF Passes
<1>9. Passes(s) = [i \in 0 .. n |-> Body(Passes(s), i)]
  <2> HIDE DEF Body
  <2> QED
    BY <1>7, <1>8
<1> QED
  BY <1>9

\* The sort by arrival returns as many nodes as it was given.
LEMMA SortedType ==
  ASSUME NEW V, NEW s \in Seq(V)
  PROVE  SortedByArrival(s) \in Seq(V) /\ Len(SortedByArrival(s)) = Len(s)
<1> DEFINE n == Len(s)
           T == {i \in 0 .. n : Passes(s)[i] \in Seq(V) /\ Len(Passes(s)[i]) = n}
<1>1. n \in Nat /\ \A i \in 0 .. n : Passes(s)[i] = IF i <= 1 THEN s ELSE ShiftedIn(Passes(s)[i - 1], i)
  BY PassesDefined
<1>2. 0 \in T
  BY <1>1
<1>3. ASSUME NEW i \in 0 .. n - 1, i \in T PROVE i + 1 \in T
  <2>1. CASE i = 0
    BY <1>1, <2>1
  <2>2. CASE i # 0
    <3>1. i + 1 \in 2 .. n /\ (i + 1) - 1 = i /\ i + 1 \in 0 .. n /\ ~ (i + 1 <= 1)
      BY <1>1, <2>2
    <3>2. PICK a : a = Passes(s)[i]
      OBVIOUS
    <3>3. a \in Seq(V) /\ Len(a) = n
      BY <1>3, <3>2
    <3>4. Passes(s)[i + 1] = ShiftedIn(a, i + 1)
      BY <1>1, <3>1, <3>2
    <3>5. ShiftedIn(a, i + 1) \in Seq(V) /\ Len(ShiftedIn(a, i + 1)) = n
      BY <3>1, <3>3, ShiftedInType
    <3> QED
      BY <3>1, <3>4, <3>5
  <2> QED
    BY <2>1, <2>2
<1>4. n \in T
  <2>1. n \in 0 .. n
    BY <1>1
  <2> HIDE DEF T, n
  <2> QED
    BY <1>1, <1>2, <1>3, <2>1, Climb
<1> QED
  BY <1>4 DEF SortedByArrival, Passes

\* After a send the pool is as long as before, and holds nodes.
LEMMA AfterSendType ==
  ASSUME NEW p \in Seq(Node), NEW k \in 0 .. Len(p), NEW n \in 0 .. k
  PROVE  AfterSend(p, k, n) \in Seq(Node) /\ Len(AfterSend(p, k, n)) = Len(p)
<1> DEFINE rest == SubSeq(p, n + 1, k)
           left == SortedByArrival(rest)
           b == AfterSend(p, k, n)
<1>0. Len(p) \in Nat /\ \A i \in 1 .. Len(p) : p[i] \in Node
  BY NodeFields
<1>1. rest \in Seq(Node) /\ Len(rest) = k - n
  <2>1. \A i \in n + 1 .. k : p[i] \in Node
    BY <1>0
  <2>2. n + 1 \in Int /\ k \in Int /\ n \in Int /\ n <= k
    BY <1>0
  <2> QED
    BY <2>1, <2>2, SubSeqProperties
<1> HIDE DEF rest
<1>3. left \in Seq(Node) /\ Len(left) = Len(rest)
  BY <1>1, SortedType
<1> HIDE DEF left
<1>5. \A i \in 1 .. Len(left) : left[i] \in Node
  BY <1>3
<1>6. b = [i \in 1 .. Len(p) |-> IF i <= Len(left) THEN left[i] ELSE p[i]]
  <2>1. DOMAIN p = 1 .. Len(p)
    OBVIOUS
  <2> QED
    BY <2>1 DEF AfterSend, left, rest
<1>7. Len(left) \in Nat
  BY <1>3
<1> HIDE DEF b
<1>8. b = [i \in 1 .. Len(p) |-> b[i]] /\ \A i \in 1 .. Len(p) : b[i] \in Node
  BY <1>0, <1>5, <1>6, <1>7
<1>9. b \in Seq(Node) /\ Len(b) = Len(p)
  BY <1>0, <1>8, ArrayIsSeq
<1> QED
  BY <1>9 DEF b

\* The dispatcher sends all of what fits.
LEMMA DispatcherSends ==
  ASSUME LinkProto \in {"udp", "tcp"}, NEW p \in Seq(Node), Len(p) <= IovMax
  PROVE  dispatcher(LinkProto, p, IovMax) = p
<1>1. FirstOf(p, IovMax) = SubSeq(p, 1, Len(p))
  <2>1. Len(p) \in Nat /\ IovMax \in Nat
    BY NodeFields, SessionAssumption
  <2>2. (IF Len(p) < IovMax THEN Len(p) ELSE IovMax) = Len(p)
    BY <2>1
  <2> QED
    BY <2>2 DEF FirstOf
<1>2. FirstOf(p, IovMax) = p
  BY <1>1, SubSeqFull
<1>3. CASE LinkProto = "udp"
  BY <1>2, <1>3 DEF dispatcher, udp_send_to_client
<1>4. CASE LinkProto = "tcp"
  BY <1>2, <1>4 DEF dispatcher, tcp_send_to_client
<1> QED
  BY <1>3, <1>4, SessionAssumption

------------------------------------------------------------------------------
(* Types *)

\* The type invariant, as far as an action can disturb its parts.
RingTyped == ring \in [0 .. N -> Node] /\ cursor \in 0 .. N /\ step \in {"copy", "advance", "wrap"} /\ written \in 0 .. MaxWrite

PoolTyped == pool \in Seq(Node) /\ (crashed \/ count \in 0 .. Len(pool))

PosTyped == pos \in -1 .. N /\ (pos = N => "slipped" \in excuse)

ThreadTyped ==
  thread \in [Threads -> [at : {"none", "top", "match", "count", "size", "tally", "send",
                                "test", "lock", "wait", "ended"}, n : Nat]]

RestTyped ==
  /\ phase \in {"none", "up", "closing", "stopped"}
  /\ rows \in Nat
  /\ run \in BOOLEAN /\ locked \in BOOLEAN /\ sender \in {"idle", "sent"}
  /\ excuse \subseteq {"raced", "shared", "slipped", "memory"}

\* These are all of it.
LEMMA TypeParts == TypeOK <=> RingTyped /\ PoolTyped /\ PosTyped /\ ThreadTyped /\ RestTyped
  BY DEF TypeOK, RingTyped, PoolTyped, PosTyped, ThreadTyped, RestTyped

\* Every step is one of these.
LEMMA Steps ==
  ASSUME [Next]_vars
  PROVE  \/ UNCHANGED vars
         \/ ~ crashed /\ (WorkerCopies \/ WorkerAdvances \/ Reload)
         \/ ~ crashed /\ \E t \in Threads :
              \/ insert_session(t) \/ GrowPool(t) \/ GrowFails(t) \/ TakeNode(t) \/ SkipNode(t)
              \/ TakeCrashes(t) \/ CountNode(t) \/ TestSize(t) \/ TallyNodes(t) \/ SendNodes(t)
              \/ TestCount(t) \/ DropSent(t) \/ DropSentWraps(t) \/ Follow(t) \/ FollowCrashes(t)
              \/ FollowNull(t)
         \/ ~ crashed /\ (delete_session \/ DeleteFrees \/ stop_session_connection)
         \/ ~ crashed /\ (TriggerSends \/ TriggerEmpties \/ TriggerCrashes)
  BY Zenon DEF Next, Worker, session_worker, WorkerStep, Trigger

\* Only the worker changes the ring.
LEMMA RingChanges ==
  ASSUME [Next]_vars
  PROVE  WorkerCopies \/ WorkerAdvances \/ UNCHANGED <<ring, cursor, step, written>>
<1> USE DEF ringVars
<1>1. CASE UNCHANGED vars
  BY <1>1 DEF vars
<1>2. CASE Reload \/ delete_session \/ DeleteFrees \/ stop_session_connection \/ TriggerSends \/ TriggerEmpties \/ TriggerCrashes
  BY <1>2 DEF Reload, delete_session, DeleteFrees, stop_session_connection, TriggerSends, TriggerEmpties, TriggerCrashes
<1>3. ASSUME NEW t \in Threads,
             \/ insert_session(t) \/ GrowPool(t) \/ GrowFails(t) \/ TakeNode(t) \/ SkipNode(t)
             \/ TakeCrashes(t) \/ CountNode(t) \/ TestSize(t) \/ TallyNodes(t) \/ SendNodes(t)
             \/ TestCount(t) \/ DropSent(t) \/ DropSentWraps(t) \/ Follow(t) \/ FollowCrashes(t)
             \/ FollowNull(t)
      PROVE  UNCHANGED <<ring, cursor, step, written>>
  BY <1>3 DEF insert_session, GrowPool, GrowFails, TakeNode, SkipNode, TakeCrashes, CountNode,
              TestSize, TallyNodes, SendNodes, TestCount, DropSent, DropSentWraps, Follow,
              FollowCrashes, FollowNull
<1> QED
  BY <1>1, <1>2, <1>3, Steps

\* The worker goes round the ring, and a slot keeps its copy for a round.
LEMMA RingStep ==
  ASSUME RingTyped, RingInLap, [Next]_vars
  PROVE  RingTyped' /\ RingInLap'
<1>0. /\ N \in Nat /\ N >= 2 /\ MaxWrite \in Nat
      /\ ring \in [0 .. N -> Node] /\ cursor \in 0 .. N /\ step \in {"copy", "advance", "wrap"}
      /\ written \in 0 .. MaxWrite
  BY SessionAssumption DEF RingTyped
<1>1. /\ step = "wrap" <=> cursor = N
      /\ step # "copy" => written > 0
      /\ Rounds = 0 \/ Rounds >= N
      /\ \A i \in 0 .. N - 1 : ring[i].id = IF i < Slot THEN Rounds + i + 1
                                           ELSE IF Rounds = 0 THEN 0 ELSE Rounds - N + i + 1
  BY DEF RingInLap
<1>2. CASE WorkerCopies
  <2>1. PICK b \in 0 .. MaxBytes :
          /\ written < MaxWrite /\ step = "copy" /\ ring' = [ring EXCEPT ![cursor] = [id |-> written + 1, bytes |-> b]]
          /\ step' = "advance" /\ cursor' = cursor /\ written' = written + 1
    BY <1>2 DEF WorkerCopies, Copy
  <2>2. cursor \in 0 .. N - 1 /\ Slot = cursor /\ Rounds = written - cursor
    BY <1>0, <1>1, <2>1 DEF Slot, Rounds
  <2>3. [id |-> written + 1, bytes |-> b] \in Node
    BY <1>0, <2>1 DEF Node
  <2>4. ring' \in [0 .. N -> Node] /\ \A i \in 0 .. N - 1 : ring'[i].id = IF i = cursor THEN written + 1 ELSE ring[i].id
    BY <1>0, <2>1, <2>3
  <2>5. RingTyped'
    BY <1>0, <2>1, <2>4 DEF RingTyped
  <2>6. CASE cursor + 1 < N
    <3>1. Slot' = cursor + 1 /\ Rounds' = Rounds
      BY <1>0, <2>1, <2>2, <2>6 DEF Slot, Rounds
    <3>2. \A i \in 0 .. N - 1 : ring'[i].id = IF i < Slot' THEN Rounds' + i + 1
                                              ELSE IF Rounds' = 0 THEN 0 ELSE Rounds' - N + i + 1
      BY <1>0, <1>1, <2>2, <2>4, <3>1
    <3>3. /\ step' = "wrap" <=> cursor' = N
          /\ step' # "copy" => written' > 0
          /\ Rounds' = 0 \/ Rounds' >= N
      BY <1>0, <1>1, <2>1, <2>2, <3>1
    <3> QED
      BY <2>5, <3>2, <3>3 DEF RingInLap
  <2>7. CASE ~ (cursor + 1 < N)
    <3>1. Slot' = 0 /\ Rounds' = Rounds + N /\ cursor = N - 1
      BY <1>0, <2>1, <2>2, <2>7 DEF Slot, Rounds
    <3>2. Rounds \in Nat
      BY <1>0, <1>1, <2>2
    <3>3. \A i \in 0 .. N - 1 : ring'[i].id = IF i < Slot' THEN Rounds' + i + 1
                                              ELSE IF Rounds' = 0 THEN 0 ELSE Rounds' - N + i + 1
      <4> SUFFICES ASSUME NEW i \in 0 .. N - 1 PROVE ring'[i].id = Rounds + i + 1
        BY <1>0, <3>1, <3>2
      <4>1. CASE i = cursor
        BY <1>0, <2>2, <2>4, <4>1
      <4>2. CASE i # cursor
        <5>1. i < Slot /\ ring'[i].id = ring[i].id
          BY <1>0, <2>2, <2>4, <3>1, <4>2
        <5> QED
          BY <1>1, <5>1
      <4> QED
        BY <4>1, <4>2
    <3>4. /\ step' = "wrap" <=> cursor' = N
          /\ step' # "copy" => written' > 0
          /\ Rounds' = 0 \/ Rounds' >= N
      BY <1>0, <1>1, <2>1, <2>2, <3>1, <3>2
    <3> QED
      BY <2>5, <3>3, <3>4 DEF RingInLap
  <2> QED
    BY <2>6, <2>7
<1>3. CASE WorkerAdvances
  <2>1. ring' = ring /\ written' = written
    BY <1>3 DEF WorkerAdvances, Advance, Wrap
  <2>2. /\ cursor' \in 0 .. N /\ step' \in {"copy", "wrap"} /\ (step' = "wrap" <=> cursor' = N)
        /\ Slot' = Slot /\ Rounds' = Rounds
        /\ step' # "copy" => written > 0
    <3>1. CASE Advance
      BY <1>0, <1>1, <2>1, <3>1 DEF Advance, Slot, Rounds
    <3>2. CASE Wrap
      BY <1>0, <1>1, <2>1, <3>2 DEF Wrap, Slot, Rounds
    <3> QED
      BY <1>3, <3>1, <3>2 DEF WorkerAdvances
  <2> QED
    BY <1>0, <1>1, <2>1, <2>2 DEF RingTyped, RingInLap
<1>4. CASE UNCHANGED <<ring, cursor, step, written>>
  BY <1>4 DEF RingTyped, RingInLap, Rounds, Slot
<1> QED
  BY <1>2, <1>3, <1>4, RingChanges

------------------------------------------------------------------------------
(* The thread and the ring *)

\* The place of a session is set by an insert, moved by a thread, or cleared;
\* and races are not forgotten.
LEMMA PosChanges ==
  ASSUME [Next]_vars
  PROVE  /\ excuse \subseteq excuse'
         /\ \/ \E t \in Threads : insert_session(t) \/ Follow(t)
            \/ pos' = -1 /\ UNCHANGED due
            \/ UNCHANGED <<pos, due>>
<1>1. CASE UNCHANGED vars
  BY <1>1 DEF vars
<1>2. CASE WorkerCopies \/ WorkerAdvances \/ Reload \/ delete_session
  BY <1>2 DEF WorkerCopies, WorkerAdvances, Reload, delete_session
<1>3. CASE DeleteFrees \/ stop_session_connection
  BY <1>3 DEF DeleteFrees, stop_session_connection, Freed
<1>4. CASE TriggerSends \/ TriggerEmpties \/ TriggerCrashes
  BY <1>4 DEF TriggerSends, TriggerEmpties, TriggerCrashes, Crash
<1>5. ASSUME NEW t \in Threads, insert_session(t) \/ Follow(t)
      PROVE  excuse \subseteq excuse'
  BY <1>5 DEF insert_session, Follow
<1>6. ASSUME NEW t \in Threads,
             GrowPool(t) \/ SkipNode(t) \/ CountNode(t) \/ TestSize(t) \/ TallyNodes(t)
               \/ TestCount(t) \/ DropSent(t) \/ FollowNull(t)
      PROVE  excuse' = excuse /\ UNCHANGED <<pos, due>>
  BY <1>6 DEF GrowPool, SkipNode, CountNode, TestSize, TallyNodes, TestCount, DropSent, FollowNull
<1>7. ASSUME NEW t \in Threads,
             GrowFails(t) \/ TakeNode(t) \/ TakeCrashes(t) \/ SendNodes(t) \/ DropSentWraps(t) \/ FollowCrashes(t)
      PROVE  excuse \subseteq excuse' /\ UNCHANGED <<pos, due>>
  BY <1>7 DEF GrowFails, TakeNode, TakeCrashes, SendNodes, DropSentWraps, FollowCrashes, Crash
<1> QED
  BY <1>1, <1>2, <1>3, <1>4, <1>5, <1>6, <1>7, Steps

\* A place of a session is a slot; the LAST node only after a slip.
LEMMA PosStep ==
  ASSUME RingTyped, PosTyped, [Next]_vars
  PROVE  PosTyped'
<1>0. N \in Nat /\ N >= 2 /\ cursor \in 0 .. N /\ pos \in -1 .. N /\ (pos = N => "slipped" \in excuse)
  BY SessionAssumption DEF RingTyped, PosTyped
<1>1. ASSUME NEW t \in Threads, insert_session(t) PROVE PosTyped'
  <2>1. pos' = cursor /\ (cursor = N => "slipped" \in excuse')
    BY <1>1 DEF insert_session
  <2> QED
    BY <1>0, <2>1 DEF PosTyped
<1>2. ASSUME NEW t \in Threads, Follow(t) PROVE PosTyped'
  <2>1. pos' = iterate(pos) /\ pos \in 0 .. N - 1
    BY <1>2 DEF Follow
  <2>2. pos' \in 0 .. N - 1
    BY <1>0, <2>1 DEF iterate
  <2> QED
    BY <1>0, <2>2 DEF PosTyped
<1>3. CASE pos' = -1
  BY <1>0, <1>3 DEF PosTyped
<1>4. CASE UNCHANGED pos /\ excuse \subseteq excuse'
  BY <1>0, <1>4 DEF PosTyped
<1> QED
  BY <1>1, <1>2, <1>3, <1>4, PosChanges

\* Whole rounds are at least N, unless there are none.
LEMMA WholeRounds ==
  ASSUME NEW k \in Nat
  PROVE  /\ k * N \in Nat
         /\ k = 0 => k * N = 0
         /\ k = 1 => k * N = N
         /\ k > 0 => k * N >= N
         /\ k > 1 => k * N >= N + N
         /\ (k + 1) * N = k * N + N
         /\ k > 0 => (k - 1) * N = k * N - N
<1>0. N \in Nat
  BY SessionAssumption
<1>1. /\ k * N \in Nat /\ (k = 0 => k * N = 0) /\ (k = 1 => k * N = N)
      /\ (k + 1) * N = k * N + N /\ (k > 0 => (k - 1) * N = k * N - N)
  BY <1>0
<1>2. ASSUME k > 0 PROVE (k - 1) * N \in Nat
  BY <1>0, <1>2
<1>3. ASSUME k > 1 PROVE (k - 1) * N = (k - 2) * N + N /\ (k - 2) * N \in Nat
  <2>1. k - 2 \in Nat /\ (k - 2) + 1 = k - 1
    BY <1>3
  <2> QED
    BY <1>0, <2>1
<1> QED
  BY <1>0, <1>1, <1>2, <1>3

\* What ThreadInLap says of a place p and a copy d.
InLap(p, d) ==
  /\ d \in Nat \ {0} /\ d <= written + 1
  /\ step = "advance" => d <= written
  /\ \E k \in Nat : Rounds + p + 1 = d + k * N

\* The worker's steps keep a place that stays in its lap.
LEMMA WorkerKeepsLap ==
  ASSUME RingTyped, RingInLap, [Next]_vars, NEW p \in 0 .. N - 1, NEW d, InLap(p, d)
  PROVE  InLap(p, d)'
<1>0. /\ N \in Nat /\ N >= 2 /\ cursor \in 0 .. N /\ written \in Nat /\ step \in {"copy", "advance", "wrap"}
      /\ d \in Nat \ {0} /\ p \in Int /\ (step = "wrap" <=> cursor = N)
  BY SessionAssumption DEF RingTyped, RingInLap, InLap
<1>1. PICK k \in Nat : Rounds + p + 1 = d + k * N
  BY DEF InLap
<1>2. CASE WorkerCopies
  <2>1. step = "copy" /\ step' = "advance" /\ cursor' = cursor /\ written' = written + 1
    BY <1>2 DEF WorkerCopies, Copy
  <2>2. Rounds' = Rounds \/ Rounds' = Rounds + N
    BY <1>0, <2>1 DEF Rounds, Slot
  <2>3. \E j \in Nat : Rounds' + p + 1 = d + j * N
    <3>1. Rounds \in Int
      BY <1>0 DEF Rounds, Slot
    <3>2. (k + 1) * N = k * N + N /\ k * N \in Nat /\ k + 1 \in Nat
      BY <1>0
    <3>3. CASE Rounds' = Rounds
      BY <1>1, <3>3
    <3>4. CASE Rounds' = Rounds + N
      <4>1. Rounds' + p + 1 = d + (k + 1) * N
        BY <1>0, <1>1, <3>1, <3>2, <3>4
      <4> QED
        BY <3>2, <4>1
    <3> QED
      BY <2>2, <3>3, <3>4
  <2>4. d <= written' + 1 /\ d <= written'
    BY <1>0, <2>1 DEF InLap
  <2> QED
    BY <1>0, <2>3, <2>4 DEF InLap
<1>3. CASE WorkerAdvances
  <2>1. written' = written /\ step' # "advance"
    BY <1>3 DEF WorkerAdvances, Advance, Wrap
  <2>2. Rounds' = Rounds
    <3>1. CASE Advance
      BY <1>0, <2>1, <3>1 DEF Advance, Slot, Rounds
    <3>2. CASE Wrap
      BY <1>0, <2>1, <3>2 DEF Wrap, Slot, Rounds
    <3> QED
      BY <1>3, <3>1, <3>2 DEF WorkerAdvances
  <2> QED
    BY <2>1, <2>2 DEF InLap
<1>4. CASE UNCHANGED <<ring, cursor, step, written>>
  BY <1>4 DEF InLap, Rounds, Slot
<1> QED
  BY <1>2, <1>3, <1>4, RingChanges

\* A session that is inserted begins in its lap.
LEMMA InsertInLap ==
  ASSUME RingTyped, RingInLap, NEW t \in Threads, insert_session(t), cursor # N
  PROVE  InLap(pos, due)'
<1>0. /\ N \in Nat /\ N >= 2 /\ cursor \in 0 .. N - 1 /\ written \in Nat /\ step \in {"copy", "advance"}
      /\ step # "copy" => written > 0
  BY SessionAssumption DEF RingTyped, RingInLap
<1>1. /\ pos' = cursor /\ due' = IF step = "advance" THEN written ELSE written + 1
      /\ cursor' = cursor /\ step' = step /\ written' = written
  BY DEF insert_session, ringVars
<1>2. Rounds' = Rounds
  BY <1>1 DEF Rounds, Slot
<1>3. due' \in Nat \ {0} /\ due' <= written + 1 /\ (step = "advance" => due' <= written)
  BY <1>0, <1>1
<1>4. \E k \in Nat : Rounds + pos' + 1 = due' + k * N
  <2>1. 0 * N = 0 /\ 1 * N = N /\ 0 \in Nat /\ 1 \in Nat
    BY <1>0
  <2>2. Rounds + cursor + 1 = due' + 0 \/ Rounds + cursor + 1 = due' + N
    BY <1>0, <1>1 DEF Rounds, Slot
  <2> QED
    BY <1>1, <2>1, <2>2
<1> QED
  BY <1>1, <1>2, <1>3, <1>4 DEF InLap

\* A thread that follows goes no further than the slot of the next copy: the
\* slot it leaves is behind the cursor, or the cursor is on the LAST node.
LEMMA FollowInLap ==
  ASSUME RingTyped, RingInLap, NEW t \in Threads, Follow(t), InLap(pos, due), "slipped" \notin excuse'
  PROVE  InLap(pos, due)'
<1>0. /\ N \in Nat /\ N >= 2 /\ cursor \in 0 .. N /\ written \in Nat /\ step \in {"copy", "advance", "wrap"}
      /\ (step = "wrap" <=> cursor = N) /\ (Rounds = 0 \/ Rounds >= N)
  BY SessionAssumption DEF RingTyped, RingInLap
<1>1. /\ pos \in 0 .. N - 1 /\ pos # cursor /\ pos' = iterate(pos) /\ due' = due + 1
      /\ cursor = N => ~ (due > written)
      /\ cursor' = cursor /\ step' = step /\ written' = written
  BY DEF Follow, is_behind_cursor, ringVars
<1>2. /\ due \in Nat \ {0} /\ due <= written + 1 /\ (step = "advance" => due <= written)
  BY DEF InLap
<1>3. PICK k \in Nat : Rounds + pos + 1 = due + k * N
  BY DEF InLap
<1>4. Rounds' = Rounds
  BY <1>1 DEF Rounds, Slot
<1>5. Slot \in 0 .. N - 1 /\ written = Rounds + Slot /\ Rounds \in Nat
  BY <1>0 DEF Slot, Rounds
<1>6. /\ k * N \in Nat /\ (k = 0 => k * N = 0) /\ (k > 0 => k * N >= N) /\ (k = 1 => k * N = N)
      /\ (k > 1 => k * N >= N + N) /\ (k > 0 => (k - 1) * N = k * N - N)
  BY WholeRounds
<1>7. due <= written /\ (step = "advance" => due < written)
  <2>1. CASE step = "copy"
    <3>1. Slot = cursor
      BY <2>1 DEF Slot
    <3>2. due # written + 1
      <4> SUFFICES ASSUME due = written + 1 PROVE FALSE
        OBVIOUS
      <4>1. pos = Slot + k * N
        BY <1>0, <1>1, <1>2, <1>3, <1>5, <1>6
      <4>2. k = 0
        BY <1>0, <1>1, <1>5, <1>6, <4>1
      <4> QED
        BY <1>1, <1>5, <1>6, <3>1, <4>1, <4>2
    <3> QED
      BY <1>0, <1>2, <2>1, <3>2
  <2>2. CASE step = "advance"
    <3>1. due # written
      <4> SUFFICES ASSUME due = written PROVE FALSE
        OBVIOUS
      <4>1. pos + 1 = Slot + k * N
        BY <1>0, <1>1, <1>2, <1>3, <1>5, <1>6
      <4>2. cursor \in 0 .. N - 1 /\ (Slot = cursor + 1 \/ (Slot = 0 /\ cursor = N - 1))
        BY <1>0, <2>2 DEF Slot
      <4>3. k = 0 \/ k = 1
        BY <1>0, <1>1, <1>5, <1>6, <4>1
      <4> QED
        BY <1>0, <1>1, <1>5, <1>6, <4>1, <4>2, <4>3
    <3> QED
      BY <1>0, <1>2, <2>2, <3>1
  <2>3. CASE step = "wrap"
    BY <1>0, <1>1, <1>2, <2>3
  <2> QED
    BY <1>0, <2>1, <2>2, <2>3
<1>8. due' \in Nat \ {0} /\ due' <= written' + 1 /\ (step' = "advance" => due' <= written')
  BY <1>0, <1>1, <1>2, <1>7
<1>9. \E j \in Nat : Rounds' + pos' + 1 = due' + j * N
  <2>1. CASE pos + 1 = N
    <3>1. pos' = 0
      BY <1>1, <2>1 DEF iterate
    <3>2. k > 0
      <4> SUFFICES ASSUME k = 0 PROVE FALSE
        OBVIOUS
      <4> QED
        BY <1>0, <1>1, <1>2, <1>3, <1>5, <1>6, <1>7, <2>1
    <3>3. k - 1 \in Nat /\ Rounds + 0 + 1 = (due + 1) + (k - 1) * N
      BY <1>0, <1>1, <1>2, <1>3, <1>5, <1>6, <2>1, <3>2
    <3> QED
      BY <1>1, <1>4, <3>1, <3>3
  <2>2. CASE pos + 1 # N
    <3>1. pos' = pos + 1
      BY <1>1, <2>2 DEF iterate
    <3>2. Rounds + (pos + 1) + 1 = (due + 1) + k * N
      BY <1>0, <1>1, <1>2, <1>3, <1>5, <1>6
    <3> QED
      BY <1>1, <1>4, <3>1, <3>2
  <2> QED
    BY <2>1, <2>2
<1> QED
  BY <1>8, <1>9 DEF InLap

\* Every step keeps the thread in its lap.
LEMMA LapStep ==
  ASSUME RingTyped, RingInLap, PosTyped, ThreadInLap, [Next]_vars
  PROVE  ThreadInLap'
<1> SUFFICES ASSUME pos' \in 0 .. N - 1, "slipped" \notin excuse'
             PROVE  InLap(pos, due)'
  BY DEF ThreadInLap, InLap
<1>0. N \in Nat /\ excuse \subseteq excuse'
  BY PosChanges, SessionAssumption
<1>1. pos \in 0 .. N - 1 => InLap(pos, due)
  BY <1>0 DEF ThreadInLap, InLap
<1>2. ASSUME NEW t \in Threads, insert_session(t) PROVE InLap(pos, due)'
  <2>1. cursor # N
    BY <1>2 DEF insert_session
  <2> QED
    BY <1>2, <2>1, InsertInLap
<1>3. ASSUME NEW t \in Threads, Follow(t) PROVE InLap(pos, due)'
  <2>1. pos \in 0 .. N - 1
    BY <1>3 DEF Follow
  <2> QED
    BY <1>1, <1>3, <2>1, FollowInLap
<1>4. CASE pos' = -1
  BY <1>0, <1>4
<1>5. CASE UNCHANGED <<pos, due>>
  <2>1. PICK p \in 0 .. N - 1 : p = pos
    BY <1>5
  <2>2. PICK d : d = due
    OBVIOUS
  <2>3. InLap(p, d)
    BY <1>1, <2>1, <2>2
  <2>4. InLap(p, d)'
    BY <2>3, WorkerKeepsLap
  <2>5. p = pos' /\ d = due'
    BY <1>5, <2>1, <2>2
  <2> QED
    BY <2>4, <2>5 DEF InLap
<1> QED
  BY <1>2, <1>3, <1>4, <1>5, PosChanges

\* What LapInStep says of the slot follows from the laps of thread and ring.
LEMMA LapSays ==
  ASSUME RingTyped, RingInLap, PosTyped, ThreadInLap, OneThread
  PROVE  LapInStep
<1> SUFFICES ASSUME phase = "up", "slipped" \notin excuse
             PROVE  /\ due <= written + 1
                    /\ written < due + N => ring[pos].id = IF due <= written THEN due
                                                           ELSE IF due > N THEN due - N ELSE 0
  BY DEF LapInStep
<1>0. /\ N \in Nat /\ N >= 2 /\ cursor \in 0 .. N /\ written \in Nat /\ step \in {"copy", "advance", "wrap"}
      /\ (step = "wrap" <=> cursor = N) /\ (Rounds = 0 \/ Rounds >= N)
      /\ \A i \in 0 .. N - 1 : ring[i].id = IF i < Slot THEN Rounds + i + 1
                                           ELSE IF Rounds = 0 THEN 0 ELSE Rounds - N + i + 1
  BY SessionAssumption DEF RingTyped, RingInLap
<1>1. pos \in 0 .. N - 1
  BY <1>0 DEF PosTyped, OneThread
<1>2. /\ due \in Nat \ {0} /\ due <= written + 1
      /\ \E k \in Nat : Rounds + pos + 1 = due + k * N
  BY <1>1 DEF ThreadInLap
<1>3. PICK k \in Nat : Rounds + pos + 1 = due + k * N
  BY <1>2
<1>5. Slot \in 0 .. N - 1 /\ written = Rounds + Slot /\ Rounds \in Nat
  BY <1>0 DEF Slot, Rounds
<1>6. /\ k * N \in Nat /\ (k = 0 => k * N = 0) /\ (k > 0 => k * N >= N) /\ (k = 1 => k * N = N)
      /\ (k > 1 => k * N >= N + N)
  BY WholeRounds
<1>7. ASSUME written < due + N, due <= written PROVE ring[pos].id = due
  <2>1. k = 0 \/ k = 1
    BY <1>0, <1>1, <1>2, <1>3, <1>5, <1>6, <1>7
  <2>2. CASE k = 0
    <3>1. due = Rounds + pos + 1 /\ pos < Slot
      BY <1>0, <1>1, <1>2, <1>3, <1>5, <1>6, <1>7, <2>2
    <3> QED
      BY <1>0, <1>1, <3>1
  <2>3. CASE k = 1
    <3>1. due = Rounds - N + pos + 1 /\ ~ (pos < Slot) /\ Rounds # 0
      BY <1>0, <1>1, <1>2, <1>3, <1>5, <1>6, <1>7, <2>3
    <3> QED
      BY <1>0, <1>1, <3>1
  <2> QED
    BY <2>1, <2>2, <2>3
<1>8. ASSUME ~ (due <= written) PROVE ring[pos].id = IF due > N THEN due - N ELSE 0
  <2>1. due = written + 1
    BY <1>0, <1>2, <1>8
  <2>2. pos = Slot + k * N
    BY <1>0, <1>1, <1>2, <1>3, <1>5, <1>6, <2>1
  <2>3. k = 0 /\ pos = Slot
    BY <1>0, <1>1, <1>5, <1>6, <2>2
  <2>4. ring[pos].id = IF Rounds = 0 THEN 0 ELSE Rounds - N + pos + 1
    BY <1>0, <1>1, <1>5, <2>3
  <2> QED
    BY <1>0, <1>1, <1>5, <2>1, <2>3, <2>4
<1> QED
  BY <1>2, <1>7, <1>8

------------------------------------------------------------------------------
(* The threads *)

\* Where a thread may be, and where it is alive.
Places == {"none", "top", "match", "count", "size", "tally", "send", "test", "lock", "wait", "ended"}
LivePlaces == Places \ {"none", "ended"}

\* A step that is not an insert takes at most one thread, which is alive, from
\* one place to another.
LEMMA ThreadChanges ==
  ASSUME [Next]_vars, PoolTyped, ThreadTyped
  PROVE  \/ \E t \in Threads : insert_session(t)
         \/ \E t \in Threads, at \in Places, n \in Nat :
              thread[t].at \in LivePlaces /\ Goto(t, at, n)
         \/ UNCHANGED thread
<1>1. CASE UNCHANGED vars
  BY <1>1 DEF vars
<1>2. CASE WorkerCopies \/ WorkerAdvances \/ Reload \/ delete_session \/ DeleteFrees
             \/ stop_session_connection \/ TriggerSends \/ TriggerEmpties \/ TriggerCrashes
  BY <1>2 DEF WorkerCopies, WorkerAdvances, Reload, delete_session, DeleteFrees,
              stop_session_connection, TriggerSends, TriggerEmpties, TriggerCrashes
<1>3. ASSUME NEW t \in Threads, GrowFails(t) \/ TakeCrashes(t) \/ DropSentWraps(t) \/ FollowCrashes(t)
      PROVE  UNCHANGED thread
  BY <1>3 DEF GrowFails, TakeCrashes, DropSentWraps, FollowCrashes
<1>4. ASSUME NEW t \in Threads, ~ crashed,
             GrowPool(t) \/ TakeNode(t) \/ SkipNode(t) \/ CountNode(t) \/ TestSize(t) \/ TallyNodes(t)
               \/ SendNodes(t) \/ TestCount(t) \/ DropSent(t) \/ Follow(t) \/ FollowNull(t)
      PROVE  \E at \in Places, n \in Nat : thread[t].at \in LivePlaces /\ Goto(t, at, n)
  <2> USE DEF Places, LivePlaces
  <2>1. count \in 0 .. Len(pool) /\ pool \in Seq(Node) /\ count \in Nat /\ thread[t].n \in Nat /\ 0 \in Nat
    BY <1>4 DEF PoolTyped, ThreadTyped
  <2>2. CASE GrowPool(t) \/ SkipNode(t) \/ CountNode(t)
    BY <2>1, <2>2 DEF GrowPool, SkipNode, CountNode
  <2>3. CASE TakeNode(t)
    BY <2>1, <2>3 DEF TakeNode
  <2>4. CASE TestSize(t)
    BY <2>1, <2>4 DEF TestSize
  <2>5. CASE TallyNodes(t)
    <3>1. SendCount(pool, count, Limit) \in Nat
      BY <2>1, SendCountType
    <3> QED
      BY <2>5, <3>1 DEF TallyNodes
  <2>6. CASE SendNodes(t)
    BY <2>1, <2>6 DEF SendNodes
  <2>7. CASE TestCount(t)
    BY <2>1, <2>7 DEF TestCount
  <2>8. CASE DropSent(t)
    BY <2>1, <2>8 DEF DropSent
  <2>9. CASE Follow(t)
    BY <2>1, <2>9 DEF Follow
  <2>10. CASE FollowNull(t)
    BY <2>1, <2>10 DEF FollowNull
  <2> QED
    BY <1>4, <2>2, <2>3, <2>4, <2>5, <2>6, <2>7, <2>8, <2>9, <2>10
<1> QED
  BY <1>1, <1>2, <1>3, <1>4, Steps

\* Threads stay in their places.
LEMMA ThreadStep ==
  ASSUME [Next]_vars, PoolTyped, ThreadTyped
  PROVE  ThreadTyped'
<1>1. ASSUME NEW t \in Threads, insert_session(t) PROVE ThreadTyped'
  BY <1>1 DEF insert_session, Goto, ThreadTyped
<1>2. ASSUME NEW t \in Threads, NEW at \in Places, NEW n \in Nat, Goto(t, at, n) PROVE ThreadTyped'
  BY <1>2 DEF Goto, ThreadTyped, Places
<1>3. CASE UNCHANGED thread
  BY <1>3 DEF ThreadTyped
<1> QED
  BY <1>1, <1>2, <1>3, ThreadChanges

\* A thread that is alive was so, unless it was inserted.
LEMMA LiveStays ==
  ASSUME [Next]_vars, PoolTyped, ThreadTyped
  PROVE  (\E t \in Threads : insert_session(t)) \/ \A u \in Threads : Live(u)' => Live(u)
<1>1. ASSUME NEW t \in Threads, NEW at, NEW n, thread[t].at \in LivePlaces, Goto(t, at, n),
             NEW u \in Threads, Live(u)'
      PROVE  Live(u)
  BY <1>1 DEF Goto, ThreadTyped, Live, LivePlaces
<1>2. ASSUME UNCHANGED thread, NEW u \in Threads, Live(u)' PROVE Live(u)
  BY <1>2 DEF Live
<1> QED
  BY <1>1, <1>2, ThreadChanges

\* The session's life.
LEMMA PhaseChanges ==
  ASSUME [Next]_vars, RestTyped
  PROVE  \/ \E t \in Threads : insert_session(t)
         \/ Freed /\ phase' \in {"none", "stopped"} /\ UNCHANGED thread
         \/ phase' = "closing" /\ phase = "up" /\ UNCHANGED pos
         \/ phase' = phase /\ (pos' = pos \/ \E t \in Threads : Follow(t))
<1>1. CASE UNCHANGED vars
  BY <1>1 DEF vars
<1>2. CASE WorkerCopies \/ WorkerAdvances \/ Reload \/ TriggerSends \/ TriggerEmpties \/ TriggerCrashes
  BY <1>2 DEF WorkerCopies, WorkerAdvances, Reload, TriggerSends, TriggerEmpties, TriggerCrashes
<1>3. CASE DeleteFrees \/ stop_session_connection
  BY <1>3 DEF DeleteFrees, stop_session_connection
<1>4. CASE delete_session
  BY <1>4 DEF delete_session
<1>5. ASSUME NEW t \in Threads,
             GrowPool(t) \/ SkipNode(t) \/ CountNode(t) \/ TestSize(t) \/ TallyNodes(t)
               \/ TestCount(t) \/ DropSent(t) \/ FollowNull(t) \/ GrowFails(t) \/ TakeNode(t)
               \/ TakeCrashes(t) \/ SendNodes(t) \/ DropSentWraps(t) \/ FollowCrashes(t)
      PROVE  phase' = phase /\ pos' = pos
  BY <1>5 DEF GrowPool, SkipNode, CountNode, TestSize, TallyNodes, TestCount, DropSent, FollowNull,
              GrowFails, TakeNode, TakeCrashes, SendNodes, DropSentWraps, FollowCrashes
<1>6. ASSUME NEW t \in Threads, Follow(t) PROVE phase' = phase
  BY <1>6 DEF Follow
<1> QED
  BY <1>1, <1>2, <1>3, <1>4, <1>5, <1>6, Steps

\* Without the race on its place a session has one thread.
LEMMA OneThreadStep ==
  ASSUME [Next]_vars, RingTyped, PosTyped, PoolTyped, ThreadTyped, RestTyped, OneThread
  PROVE  OneThread'
<1>0. N \in Nat /\ cursor \in 0 .. N /\ pos \in -1 .. N /\ excuse \subseteq excuse'
  BY PosChanges, SessionAssumption DEF RingTyped, PosTyped
<1>1. ASSUME NEW t \in Threads, insert_session(t) PROVE OneThread'
  <2>1. pos' = cursor /\ phase' = "up" /\ \E at : thread' = [thread EXCEPT ![t] = [at |-> at, n |-> 0]]
    BY <1>1 DEF insert_session, Goto
  <2>2. ASSUME "shared" \notin excuse', NEW u \in Threads, Live(u)' PROVE u = t
    <3>1. ~ Live(u)
      BY <1>1, <2>2 DEF insert_session
    <3> QED
      BY <2>1, <2>2, <3>1 DEF Live, ThreadTyped
  <2>3. pos' # -1
    BY <1>0, <2>1
  <2> QED
    BY <2>1, <2>2, <2>3 DEF OneThread
<1>2. CASE Freed /\ phase' \in {"none", "stopped"} /\ UNCHANGED thread
  <2>1. ASSUME "shared" \notin excuse', NEW u \in Threads PROVE ~ Live(u)'
    BY <1>2, <2>1 DEF Freed, Live
  <2> QED
    BY <1>2, <2>1 DEF OneThread
<1>3. CASE /\ \A u \in Threads : Live(u)' => Live(u)
           /\ \/ phase' = "closing" /\ phase = "up" /\ UNCHANGED pos
              \/ phase' = phase /\ (pos' = pos \/ \E t \in Threads : Follow(t))
  <2>1. ASSUME NEW t \in Threads, Follow(t) PROVE pos' # -1
    <3>1. pos' = iterate(pos) /\ pos \in 0 .. N - 1
      BY <2>1 DEF Follow
    <3> QED
      BY <1>0, <3>1 DEF iterate
  <2>2. phase' \in {"up", "closing"} => pos' # -1
    BY <1>3, <2>1 DEF OneThread
  <2>3. ASSUME "shared" \notin excuse'
        PROVE  /\ \A t, u \in Threads : Live(t) /\ Live(u) => t = u
               /\ phase \in {"none", "stopped"} => \A t \in Threads : ~ Live(t)
    BY <1>0, <2>3 DEF OneThread
  <2> QED
    BY <1>3, <2>2, <2>3 DEF OneThread
<1> QED
  BY <1>1, <1>2, <1>3, LiveStays, PhaseChanges

------------------------------------------------------------------------------
(* The pool *)

\* Flags and races are what they should be.
LEMMA RestStep ==
  ASSUME [Next]_vars, RestTyped
  PROVE  RestTyped'
<1> USE DEF RestTyped
<1>1. CASE UNCHANGED vars
  BY <1>1 DEF vars
<1>2. CASE WorkerCopies \/ WorkerAdvances \/ Reload
  BY <1>2 DEF WorkerCopies, WorkerAdvances, Reload
<1>3. CASE delete_session \/ DeleteFrees \/ stop_session_connection
  <2>1. CASE delete_session
    <3>1. rows' \in Nat
      BY <2>1 DEF delete_session
    <3>2. phase' = "closing" /\ run' = FALSE /\ locked' = TRUE /\ sender' = sender /\ excuse' = excuse
      BY <2>1 DEF delete_session
    <3> QED
      BY <3>1, <3>2
  <2>2. CASE DeleteFrees
    BY <2>2 DEF DeleteFrees, Freed
  <2>3. CASE stop_session_connection
    <3>1. rows' = 0 /\ phase' = "stopped" /\ run' = FALSE /\ locked' = FALSE /\ sender' = sender
      BY <2>3 DEF stop_session_connection, Freed
    <3>2. excuse' \subseteq excuse \cup {"shared"}
      BY <2>3 DEF stop_session_connection, Freed
    <3> QED
      BY <3>1, <3>2
  <2> QED
    BY <1>3, <2>1, <2>2, <2>3
<1>4. CASE TriggerSends \/ TriggerEmpties \/ TriggerCrashes
  BY <1>4 DEF TriggerSends, TriggerEmpties, TriggerCrashes, Crash
<1>5. ASSUME NEW t \in Threads, insert_session(t) \/ Follow(t)
      PROVE  RestTyped'
  <2>1. CASE insert_session(t)
    <3>1. phase' = "up" /\ run' = TRUE /\ locked' = FALSE /\ rows' \in {rows, rows + 1} /\ sender' = sender
      BY <2>1 DEF insert_session
    <3>2. excuse' \subseteq excuse \cup {"shared", "raced", "slipped"}
      BY <2>1 DEF insert_session
    <3>3. rows' \in Nat
      BY <3>1
    <3> QED
      BY <3>1, <3>2, <3>3
  <2>2. CASE Follow(t)
    BY <2>2 DEF Follow
  <2> QED
    BY <1>5, <2>1, <2>2
<1>6. ASSUME NEW t \in Threads,
             GrowPool(t) \/ SkipNode(t) \/ CountNode(t) \/ TestSize(t) \/ TallyNodes(t)
               \/ TestCount(t) \/ DropSent(t) \/ FollowNull(t)
      PROVE  RestTyped'
  <2>1. UNCHANGED <<phase, run, locked, rows, sender, excuse>>
    BY <1>6 DEF GrowPool, SkipNode, CountNode, TestSize, TallyNodes, TestCount, DropSent, FollowNull
  <2> QED
    BY <2>1
<1>7. ASSUME NEW t \in Threads,
             GrowFails(t) \/ TakeNode(t) \/ TakeCrashes(t) \/ SendNodes(t) \/ DropSentWraps(t) \/ FollowCrashes(t)
      PROVE  RestTyped'
  BY <1>7 DEF GrowFails, TakeNode, TakeCrashes, SendNodes, DropSentWraps, FollowCrashes, Crash
<1> QED
  BY <1>1, <1>2, <1>3, <1>4, <1>5, <1>6, <1>7, Steps

\* An array of zeroed nodes.
LEMMA Zeroed ==
  ASSUME NEW n \in Nat
  PROVE  [i \in 1 .. n |-> Zero] \in Seq(Node) /\ Len([i \in 1 .. n |-> Zero]) = n
<1>1. Zero \in Node
  BY SessionAssumption DEF Zero, Node
<1> QED
  BY <1>1

\* The pool when the thread has doubled it.
Doubled(p) == p \o [i \in 1 .. Len(p) |-> Zero]

\* The pool grows at its end.
LEMMA DoubledPool ==
  ASSUME NEW p \in Seq(Node)
  PROVE  /\ Doubled(p) \in Seq(Node) /\ Len(Doubled(p)) = Len(p) + Len(p)
         /\ \A i \in 1 .. Len(p) : Doubled(p)[i] = p[i]
<1> DEFINE z == [i \in 1 .. Len(p) |-> Zero]
<1>1. Len(p) \in Nat
  OBVIOUS
<1>2. z \in Seq(Node) /\ Len(z) = Len(p)
  BY <1>1, Zeroed
<1>3. Doubled(p) = p \o z
  BY DEF Doubled
<1> HIDE DEF z
<1>4. /\ p \o z \in Seq(Node) /\ Len(p \o z) = Len(p) + Len(z)
      /\ \A i \in 1 .. Len(p) + Len(z) : (p \o z)[i] = IF i <= Len(p) THEN p[i] ELSE z[i - Len(p)]
  BY <1>2, ConcatProperties
<1>5. \A i \in 1 .. Len(p) : i \in 1 .. Len(p) + Len(z) /\ i <= Len(p)
  BY <1>1, <1>2
<1> QED
  BY <1>2, <1>3, <1>4, <1>5

\* Unless the program crashed the nodes counted are in the pool.
LEMMA PoolStep ==
  ASSUME [Next]_vars, RingTyped, PoolTyped, ThreadTyped
  PROVE  PoolTyped'
<1>0. pool \in Seq(Node) /\ Len(pool) \in Nat /\ (~ crashed => count \in 0 .. Len(pool))
  BY DEF PoolTyped
<1>1. CASE UNCHANGED vars
  BY <1>1 DEF vars, PoolTyped
<1>2. CASE WorkerCopies \/ WorkerAdvances \/ Reload \/ delete_session
  BY <1>2 DEF WorkerCopies, WorkerAdvances, Reload, delete_session, poolVars, PoolTyped
<1>3. CASE DeleteFrees \/ stop_session_connection
  <2>1. pool' = << >> /\ count' = 0
    BY <1>3 DEF DeleteFrees, stop_session_connection, Freed
  <2> QED
    BY <2>1 DEF PoolTyped
<1>4. CASE TriggerSends
  BY <1>4 DEF TriggerSends, PoolTyped
<1>5. CASE TriggerEmpties
  <2>1. pool' = [i \in 1 .. Len(pool) |-> Zero] /\ count' = 0
    <3>1. DOMAIN pool = 1 .. Len(pool)
      BY <1>0
    <3> QED
      BY <1>5, <3>1 DEF TriggerEmpties
  <2>2. pool' \in Seq(Node)
    BY <1>0, <2>1, Zeroed
  <2> QED
    BY <2>1, <2>2 DEF PoolTyped
<1>6. ASSUME NEW t \in Threads, insert_session(t) PROVE PoolTyped'
  <2>1. pool' = [i \in 1 .. PoolSize |-> Zero] /\ count' = 0 /\ PoolSize \in Nat
    BY <1>6, SessionAssumption DEF insert_session
  <2>2. pool' \in Seq(Node)
    BY <2>1, Zeroed
  <2> QED
    BY <2>1, <2>2 DEF PoolTyped
<1>7. ASSUME NEW t \in Threads,
             SkipNode(t) \/ TestSize(t) \/ TallyNodes(t) \/ FollowNull(t) \/ Follow(t)
      PROVE  PoolTyped'
  BY <1>7 DEF SkipNode, TestSize, TallyNodes, FollowNull, Follow, poolVars, PoolTyped
<1>8. ASSUME NEW t \in Threads, GrowFails(t) \/ TakeCrashes(t) \/ DropSentWraps(t) \/ FollowCrashes(t)
      PROVE  PoolTyped'
  BY <1>0, <1>8 DEF GrowFails, TakeCrashes, DropSentWraps, FollowCrashes, Crash, poolVars, PoolTyped
<1>9. ASSUME NEW t \in Threads, SendNodes(t) PROVE PoolTyped'
  BY <1>9 DEF SendNodes, Crash, PoolTyped
<1>10. ASSUME NEW t \in Threads, GrowPool(t), ~ crashed PROVE PoolTyped'
  <2>1. count' = count /\ (pool' = pool \/ pool' = Doubled(pool))
    BY <1>10 DEF GrowPool, Doubled
  <2>2. pool' \in Seq(Node) /\ Len(pool') \in Nat /\ Len(pool') >= Len(pool)
    BY <1>0, <2>1, DoubledPool
  <2> QED
    BY <1>0, <1>10, <2>1, <2>2 DEF PoolTyped
<1>11. ASSUME NEW t \in Threads, TakeNode(t), ~ crashed PROVE PoolTyped'
  <2>1. /\ count' = count /\ count < Len(pool) /\ pos \in 0 .. N
        /\ pool' = [pool EXCEPT ![count + 1] = ring[pos]]
    BY <1>11 DEF TakeNode
  <2>2. ring[pos] \in Node /\ count + 1 \in 1 .. Len(pool)
    BY <1>0, <1>11, <2>1 DEF RingTyped
  <2>3. pool' \in Seq(Node) /\ Len(pool') = Len(pool)
    BY <1>0, <2>1, <2>2, ExceptSeq
  <2> QED
    BY <1>0, <1>11, <2>1, <2>3 DEF PoolTyped
<1>12. ASSUME NEW t \in Threads, CountNode(t), ~ crashed PROVE PoolTyped'
  <2>1. pool' = pool /\ count' \in {thread[t].n + 1, count + 1} /\ (crashed' <=> count' > Len(pool))
    BY <1>12 DEF CountNode
  <2>2. thread[t].n \in Nat
    BY DEF ThreadTyped
  <2> QED
    BY <1>0, <1>12, <2>1, <2>2 DEF PoolTyped
<1>13. ASSUME NEW t \in Threads, TestCount(t), ~ crashed PROVE PoolTyped'
  BY <1>0, <1>13 DEF TestCount, PoolTyped
<1>14. ASSUME NEW t \in Threads, DropSent(t), ~ crashed PROVE PoolTyped'
  <2>1. /\ pool' = AfterSend(pool, count, thread[t].n) /\ count' = count - thread[t].n
        /\ thread[t].n <= count
    BY <1>14 DEF DropSent
  <2>2. thread[t].n \in Nat /\ thread[t].n \in 0 .. count
    BY <1>0, <1>14, <2>1 DEF ThreadTyped
  <2>3. pool' \in Seq(Node) /\ Len(pool') = Len(pool)
    BY <1>0, <1>14, <2>1, <2>2, AfterSendType
  <2> QED
    BY <1>0, <1>14, <2>1, <2>2, <2>3 DEF PoolTyped
<1>15. CASE TriggerCrashes
  BY <1>0, <1>15 DEF TriggerCrashes, Crash, poolVars, PoolTyped
<1> QED
  BY <1>1, <1>2, <1>3, <1>4, <1>5, <1>6, <1>7, <1>8, <1>9, <1>10, <1>11, <1>12, <1>13, <1>14, <1>15, Steps

\* Where a thread is between its append and the end of its send.
BusyPlaces == {"count", "size", "tally", "send", "test", "lock"}

\* What PoolKept says when the only thread is at the given place, or there is
\* none.
KeptAt(at, n) ==
  /\ ~ crashed /\ given
  /\ sender = "sent" => at \notin BusyPlaces /\ owed = << >>
  /\ at \notin BusyPlaces => /\ Bytes(pool, count) < Limit
                             /\ sender = "idle" => owed = SubSeq(pool, 1, count)
  /\ at = "count" =>
       /\ n = count /\ count < Len(pool)
       /\ owed = SubSeq(pool, 1, count + 1) /\ Bytes(pool, count) < Limit
  /\ at \in {"size", "tally", "send"} =>
       /\ at = "send" => n = count
       /\ count > 0 /\ owed = SubSeq(pool, 1, count) /\ Bytes(pool, count - 1) < Limit
  /\ at \in {"test", "lock"} => n = count /\ owed = << >>

\* A thread that is alive is the only one.
LEMMA KeptBefore ==
  ASSUME ThreadTyped, OneThread, PoolKept, excuse = {}, NEW t \in Threads, Live(t)
  PROVE  KeptAt(thread[t].at, thread[t].n)
<1>1. \A u \in Threads : thread[u].at \in BusyPlaces => u = t
  BY DEF OneThread, Live, BusyPlaces
<1>2. Busy <=> thread[t].at \in BusyPlaces
  BY <1>1 DEF Busy, BusyPlaces
<1>3. Handing(t)
  BY DEF PoolKept
<1> QED
  BY <1>2, <1>3 DEF PoolKept, KeptAt, Handing

\* So it is enough to look at it.
LEMMA KeptAfter ==
  ASSUME ThreadTyped, OneThread, excuse = {}, NEW t \in Threads, Live(t),
         NEW at, NEW n, Goto(t, at, n), KeptAt(at, n)'
  PROVE  PoolKept'
<1>1. thread'[t].at = at /\ thread'[t].n = n /\ \A u \in Threads : u # t => thread'[u] = thread[u]
  BY DEF Goto, ThreadTyped
<1>2. \A u \in Threads : u # t => thread'[u].at \notin BusyPlaces
  BY <1>1 DEF OneThread, Live, BusyPlaces
<1>3. Busy' <=> at \in BusyPlaces
  BY <1>1, <1>2 DEF Busy, BusyPlaces
<1>4. ASSUME NEW u \in Threads PROVE Handing(u)'
  <2>1. CASE u = t
    BY <1>1, <2>1 DEF KeptAt, Handing
  <2>2. CASE u # t
    BY <1>2, <2>2 DEF BusyPlaces, Handing
  <2> QED
    BY <2>1, <2>2
<1> QED
  BY <1>3, <1>4 DEF PoolKept, KeptAt

\* Without a thread that is alive there is not much to look at.
LEMMA KeptIdle ==
  ASSUME \A u \in Threads : thread'[u].at \notin BusyPlaces, KeptAt("top", 0)'
  PROVE  PoolKept'
<1>1. ~ Busy'
  BY DEF Busy, BusyPlaces
<1>2. ASSUME NEW u \in Threads PROVE Handing(u)'
  BY DEF BusyPlaces, Handing
<1> QED
  BY <1>1, <1>2 DEF PoolKept, KeptAt, BusyPlaces

\* A pool that is empty has no bytes, and nothing to be owed.
LEMMA EmptyPool ==
  ASSUME NEW p \in Seq(Node)
  PROVE  Bytes(p, 0) < Limit /\ SubSeq(p, 1, 0) = << >>
<1>1. Limit > 0
  <2>1. MaxBytes \in Nat \ {0} /\ IovMax \in Nat \ {0}
    BY SessionAssumption
  <2>2. \A a, b \in Nat \ {0} : a * b > 0
    OBVIOUS
  <2> QED
    BY <2>1, <2>2 DEF Limit
<1>2. SubSeq(p, 1, 0) = << >>
  BY SubSeqEmpty
<1> QED
  BY <1>1, <1>2, BytesAddUp

\* The nodes of a send are the first of the pool.
LEMMA FirstNodes ==
  ASSUME NEW p \in Seq(Node), NEW k \in 0 .. Len(p)
  PROVE  /\ SubSeq(p, 1, k) \in Seq(Node) /\ Len(SubSeq(p, 1, k)) = k
         /\ \A i \in 1 .. k : SubSeq(p, 1, k)[i] = p[i]
<1>1. Len(p) \in Nat /\ k \in Int /\ 1 \in Int /\ 0 <= k /\ \A i \in 1 .. k : p[i] \in Node
  BY NodeFields
<1>2. /\ SubSeq(p, 1, k) \in Seq(Node)
      /\ Len(SubSeq(p, 1, k)) = IF 1 <= k THEN k - 1 + 1 ELSE 0
      /\ \A i \in 1 .. k - 1 + 1 : SubSeq(p, 1, k)[i] = p[1 + i - 1]
  BY <1>1, SubSeqProperties
<1>3. \A i \in 1 .. k : i \in 1 .. k - 1 + 1 /\ 1 + i - 1 = i
  BY <1>1
<1> QED
  BY <1>1, <1>2, <1>3

\* Pools that agree on their first k nodes owe the same.
LEMMA FirstNodesAgree ==
  ASSUME NEW p \in Seq(Node), NEW q \in Seq(Node), NEW k \in Nat, k <= Len(p), k <= Len(q),
         \A i \in 1 .. k : p[i] = q[i]
  PROVE  SubSeq(p, 1, k) = SubSeq(q, 1, k)
<1>1. k \in 0 .. Len(p) /\ k \in 0 .. Len(q)
  BY NodeFields
<1>2. /\ SubSeq(p, 1, k) \in Seq(Node) /\ Len(SubSeq(p, 1, k)) = k
      /\ \A i \in 1 .. k : SubSeq(p, 1, k)[i] = p[i]
  BY <1>1, FirstNodes
<1>3. /\ SubSeq(q, 1, k) \in Seq(Node) /\ Len(SubSeq(q, 1, k)) = k
      /\ \A i \in 1 .. k : SubSeq(q, 1, k)[i] = q[i]
  BY <1>1, FirstNodes
<1> QED
  BY <1>2, <1>3, SeqEqual

\* Sending what is owed leaves nothing owed; if full nodes fit they all go out.
LEMMA DispatchGives ==
  ASSUME PoolTyped, excuse = {}, given,
         NEW k \in 0 .. Len(pool), owed = SubSeq(pool, 1, k),
         (\A i \in 1 .. k : pool[i].bytes = MaxBytes) => k <= IovMax,
         Dispatch(SubSeq(pool, 1, k))
  PROVE  given' /\ owed' = << >>
<1> DEFINE nodes == SubSeq(pool, 1, k)
<1>1. /\ nodes \in Seq(Node) /\ Len(nodes) = k /\ owed = nodes
      /\ \A i \in 1 .. k : nodes[i] = pool[i]
  BY FirstNodes DEF PoolTyped
<1>2. /\ given' = (/\ IsPrefix(nodes, owed)
                   /\ \/ dispatcher(get_session_pointer, nodes, IovMax) = nodes
                      \/ get_session_pointer \notin {"udp", "tcp"}
                      \/ \E i \in DOMAIN nodes : nodes[i].bytes < MaxBytes)
      /\ owed' = IF IsPrefix(nodes, owed) THEN SubSeq(owed, Len(nodes) + 1, Len(owed)) ELSE << >>
  BY DEF Dispatch
<1> HIDE DEF nodes
<1>3. IsPrefix(nodes, owed)
  BY <1>1 DEF IsPrefix
<1>4. \/ dispatcher(get_session_pointer, nodes, IovMax) = nodes
      \/ get_session_pointer \notin {"udp", "tcp"}
      \/ \E i \in DOMAIN nodes : nodes[i].bytes < MaxBytes
  <2> SUFFICES ASSUME get_session_pointer \in {"udp", "tcp"},
                      \A i \in DOMAIN nodes : ~ (nodes[i].bytes < MaxBytes)
               PROVE  dispatcher(get_session_pointer, nodes, IovMax) = nodes
    OBVIOUS
  <2>1. get_session_pointer = LinkProto
    BY DEF get_session_pointer
  <2>2. DOMAIN nodes = 1 .. k /\ MaxBytes \in Nat
    BY <1>1, SessionAssumption
  <2>3. \A i \in 1 .. k : pool[i].bytes = MaxBytes
    <3> SUFFICES ASSUME NEW i \in 1 .. k PROVE pool[i].bytes = MaxBytes
      OBVIOUS
    <3>1. nodes[i] = pool[i] /\ nodes[i].bytes \in 0 .. MaxBytes /\ ~ (nodes[i].bytes < MaxBytes)
      BY <1>1, <2>2, NodeFields
    <3> QED
      BY <2>2, <3>1
  <2>4. k <= IovMax
    BY <2>3
  <2> QED
    BY <1>1, <2>1, <2>4, DispatcherSends
<1>6. owed' = << >>
  <2>1. owed' = SubSeq(nodes, k + 1, k) /\ k + 1 \in Int /\ k \in Int /\ k < k + 1
    BY <1>1, <1>2, <1>3
  <2> QED
    BY <2>1, SubSeqEmpty
<1>7. given'
  BY <1>2, <1>3, <1>4, Zenon
<1> QED
  BY <1>6, <1>7

\* What the steps of the thread need.
Ready(t) ==
  /\ ~ crashed /\ excuse = {} /\ RingTyped /\ PoolTyped /\ PosTyped /\ ThreadTyped /\ RestTyped
  /\ OneThread /\ PoolKept /\ t \in Threads /\ Live(t)

\* In each of them the counted nodes are in the pool.
LEMMA ReadySays ==
  ASSUME NEW t, Ready(t)
  PROVE  /\ KeptAt(thread[t].at, thread[t].n) /\ thread[t].n \in Nat
         /\ pool \in Seq(Node) /\ Len(pool) \in Nat /\ count \in Nat /\ count <= Len(pool) /\ count \in 0 .. Len(pool)
         /\ \A at, n : Goto(t, at, n) /\ KeptAt(at, n)' => PoolKept'
         /\ pos # -1 /\ Limit \in Nat
<1>1. KeptAt(thread[t].at, thread[t].n)
  BY KeptBefore DEF Ready
<1>2. \A at, n : Goto(t, at, n) /\ KeptAt(at, n)' => PoolKept'
  BY KeptAfter DEF Ready
<1>3. pool \in Seq(Node) /\ count \in 0 .. Len(pool) /\ thread[t].n \in Nat
  BY DEF Ready, PoolTyped, ThreadTyped
<1>4. pos # -1
  BY DEF Ready, OneThread, RestTyped
<1>5. Limit \in Nat
  BY SessionAssumption DEF Limit
<1> QED
  BY <1>1, <1>2, <1>3, <1>4, <1>5

\* The pool grows under what is owed.
LEMMA GrowKeeps ==
  ASSUME NEW t, Ready(t), GrowPool(t)
  PROVE  PoolKept'
<1>0. /\ KeptAt("top", thread[t].n) /\ pool \in Seq(Node) /\ Len(pool) \in Nat /\ count \in Nat /\ count <= Len(pool)
  BY ReadySays DEF GrowPool
<1>1. /\ Goto(t, "match", 0) /\ (pool' = pool \/ pool' = Doubled(pool)) /\ count' = count
      /\ sender' = sender /\ owed' = owed /\ given' = given /\ crashed' = crashed
  BY DEF GrowPool, Doubled
<1>2. pool' \in Seq(Node) /\ count <= Len(pool') /\ \A i \in 1 .. count : pool[i] = pool'[i]
  <2>1. CASE pool' = pool
    BY <1>0, <2>1
  <2>2. CASE pool' = Doubled(pool)
    <3>1. /\ pool' \in Seq(Node) /\ Len(pool') = Len(pool) + Len(pool)
          /\ \A i \in 1 .. Len(pool) : pool'[i] = pool[i]
      BY <1>0, <2>2, DoubledPool
    <3>2. \A i \in 1 .. count : i \in 1 .. Len(pool)
      BY <1>0
    <3> QED
      BY <1>0, <3>1, <3>2
  <2> QED
    BY <1>1, <2>1, <2>2
<1>3. Bytes(pool, count) = Bytes(pool', count) /\ SubSeq(pool, 1, count) = SubSeq(pool', 1, count)
  BY <1>0, <1>2, BytesAgree, FirstNodesAgree
<1>4. KeptAt("match", 0)'
  BY <1>0, <1>1, <1>3 DEF KeptAt, BusyPlaces
<1> QED
  BY <1>1, <1>4, ReadySays

\* The node appended is owed.
LEMMA TakeKeeps ==
  ASSUME NEW t, Ready(t), TakeNode(t), excuse' = {}
  PROVE  PoolKept'
<1>0. /\ KeptAt("match", thread[t].n) /\ pool \in Seq(Node) /\ Len(pool) \in Nat /\ count \in Nat /\ count < Len(pool)
  BY ReadySays DEF TakeNode
<1>1. /\ Goto(t, "count", count) /\ pool' = [pool EXCEPT ![count + 1] = ring[pos]] /\ count' = count
      /\ sender' = sender /\ owed' = Append(owed, ring[pos]) /\ given' = given /\ crashed' = crashed
      /\ sender # "sent" /\ pos \in 0 .. N
  BY DEF TakeNode, Ready
<1>2. sender = "idle"
  BY <1>1 DEF Ready, RestTyped
<1>3. owed = SubSeq(pool, 1, count) /\ Bytes(pool, count) < Limit /\ ~ crashed /\ given
  BY <1>0, <1>2 DEF KeptAt, BusyPlaces
<1>4. ring[pos] \in Node /\ count + 1 \in 1 .. Len(pool)
  <2>1. ring \in [0 .. N -> Node]
    BY DEF Ready, RingTyped
  <2>2. ring[pos] \in Node
    BY <1>1, <2>1
  <2>3. count + 1 \in 1 .. Len(pool)
    BY <1>0
  <2> QED
    BY <2>2, <2>3
<1>5. /\ pool' \in Seq(Node) /\ Len(pool') = Len(pool)
      /\ \A j \in 1 .. Len(pool) : pool'[j] = IF j = count + 1 THEN ring[pos] ELSE pool[j]
  BY <1>0, <1>1, <1>4, ExceptSeq
<1>6. \A i \in 1 .. count : i \in 1 .. Len(pool) /\ i # count + 1
  BY <1>0
<1>7. Bytes(pool, count) = Bytes(pool', count)
  BY <1>0, <1>5, <1>6, BytesAgree
<1>8. owed' = SubSeq(pool', 1, count + 1)
  <2>1. SubSeq(pool', 1, count + 1) = SubSeq(pool', 1, (count + 1) - 1) \o << pool'[count + 1] >>
    <3>1. 1 \in 1 .. Len(pool') /\ count + 1 \in 1 .. Len(pool')
      BY <1>0, <1>5
    <3> QED
      BY <1>5, <3>1, SubSeqRecursiveSecond
  <2>2. (count + 1) - 1 = count /\ pool'[count + 1] = ring[pos]
    BY <1>0, <1>4, <1>5
  <2>3. SubSeq(pool, 1, count) = SubSeq(pool', 1, count)
    BY <1>0, <1>5, <1>6, FirstNodesAgree
  <2>4. SubSeq(pool, 1, count) \in Seq(Node)
    <3>1. count \in 0 .. Len(pool)
      BY <1>0
    <3> QED
      BY <1>0, <3>1, FirstNodes
  <2>5. \A s \in Seq(Node), x \in Node : Append(s, x) = s \o << x >>
    OBVIOUS
  <2> QED
    BY <1>1, <1>3, <1>4, <2>1, <2>2, <2>3, <2>4, <2>5
<1>9. PICK n : n = count
  OBVIOUS
<1>10. KeptAt("count", n)'
  BY <1>1, <1>2, <1>3, <1>5, <1>0, <1>7, <1>8, <1>9 DEF KeptAt, BusyPlaces
<1>11. Goto(t, "count", n)
  BY <1>1, <1>9
<1> QED
  BY <1>10, <1>11, ReadySays

\* The node appended is counted.
LEMMA CountKeeps ==
  ASSUME NEW t, Ready(t), CountNode(t)
  PROVE  PoolKept'
<1>0. /\ KeptAt("count", thread[t].n) /\ count \in Nat /\ Len(pool) \in Nat
  BY ReadySays DEF CountNode
<1>1. /\ thread[t].n = count /\ count < Len(pool) /\ ~ crashed /\ given /\ sender # "sent"
      /\ owed = SubSeq(pool, 1, count + 1) /\ Bytes(pool, count) < Limit
  BY <1>0 DEF KeptAt, BusyPlaces
<1>2. /\ Goto(t, "size", 0) /\ count' \in {thread[t].n + 1, count + 1} /\ (crashed' <=> count' > Len(pool))
      /\ pool' = pool /\ sender' = sender /\ owed' = owed /\ given' = given
  BY DEF CountNode
<1>3. count' = count + 1 /\ ~ crashed' /\ count' > 0 /\ count' - 1 = count
  <2>1. count' = count + 1
    BY <1>1, <1>2
  <2>2. ~ (count' > Len(pool))
    BY <1>0, <1>1, <2>1
  <2>3. ~ crashed'
    BY <1>2, <2>2
  <2> QED
    BY <1>0, <2>1, <2>3
<1>4. KeptAt("size", 0)'
  BY <1>1, <1>2, <1>3 DEF KeptAt, BusyPlaces
<1> QED
  BY <1>2, <1>4, ReadySays

\* A pool that reaches the limit is sent; another stays below it.
LEMMA TestKeeps ==
  ASSUME Limit + MaxBytes <= 65536, NEW t, Ready(t), TestSize(t)
  PROVE  PoolKept'
<1>0. /\ KeptAt("size", thread[t].n) /\ count \in Nat /\ Len(pool) \in Nat /\ count <= Len(pool)
      /\ pool \in Seq(Node) /\ Limit \in Nat
  BY ReadySays DEF TestSize
<1>1. /\ ~ crashed /\ given /\ sender # "sent"
      /\ count > 0 /\ owed = SubSeq(pool, 1, count) /\ Bytes(pool, count - 1) < Limit
  BY <1>0 DEF KeptAt, BusyPlaces
<1>2. count \in 1 .. Len(pool) /\ count \in 0 .. Len(pool)
  BY <1>0, <1>1
<1>3. get_session_size(pool, count, Limit, 65536) = Bytes(pool, count)
  <2>1. PICK wide \in Nat : wide = 65536
    OBVIOUS
  <2>2. get_session_size(pool, count, Limit, wide) = Bytes(pool, count)
    BY <1>0, <1>1, <1>2, <2>1, SizeIsBytes
  <2> QED
    BY <2>1, <2>2
<1>4. Bytes(pool, count) \in Nat
  BY <1>0, <1>2, BytesAddUp
<1>5. /\ pool' = pool /\ count' = count /\ sender' = sender /\ owed' = owed /\ given' = given /\ crashed' = crashed
      /\ IF Bytes(pool, count) >= Limit THEN Goto(t, "tally", 0) ELSE Goto(t, "wait", 0)
  <2>1. PICK at : at = IF get_session_size(pool, count, Limit, 65536) >= Limit THEN "tally" ELSE "wait"
    OBVIOUS
  <2>2. Goto(t, at, 0)
    BY <2>1 DEF TestSize
  <2>3. at = IF Bytes(pool, count) >= Limit THEN "tally" ELSE "wait"
    BY <1>3, <2>1
  <2>4. UNCHANGED poolVars /\ sender' = sender /\ crashed' = crashed
    BY DEF TestSize
  <2> QED
    BY <2>2, <2>3, <2>4 DEF poolVars
<1>6. CASE Bytes(pool, count) >= Limit
  <2>1. KeptAt("tally", 0)'
    BY <1>1, <1>5 DEF KeptAt, BusyPlaces
  <2> QED
    BY <1>5, <1>6, <2>1, ReadySays
<1>7. CASE ~ (Bytes(pool, count) >= Limit)
  <2>1. Bytes(pool, count) < Limit
    BY <1>0, <1>4, <1>7
  <2>2. KeptAt("wait", 0)'
    BY <1>1, <1>5, <2>1 DEF KeptAt, BusyPlaces
  <2> QED
    BY <1>5, <1>7, <2>2, ReadySays
<1> QED
  BY <1>6, <1>7

\* The whole pool is counted for the send.
LEMMA TallyKeeps ==
  ASSUME NEW t, Ready(t), TallyNodes(t)
  PROVE  PoolKept'
<1>0. /\ KeptAt("tally", thread[t].n) /\ count \in Nat /\ Len(pool) \in Nat /\ count <= Len(pool)
      /\ pool \in Seq(Node)
  BY ReadySays DEF TallyNodes
<1>1. /\ ~ crashed /\ given /\ sender # "sent"
      /\ count > 0 /\ owed = SubSeq(pool, 1, count) /\ Bytes(pool, count - 1) < Limit
  BY <1>0 DEF KeptAt, BusyPlaces
<1>2. count \in 1 .. Len(pool)
  BY <1>0, <1>1
<1>3. SendCount(pool, count, Limit) = count
  BY <1>0, <1>1, <1>2, SendCountAll
<1>4. PICK n : n = count
  OBVIOUS
<1>5. /\ pool' = pool /\ count' = count /\ sender' = sender /\ owed' = owed /\ given' = given /\ crashed' = crashed
      /\ Goto(t, "send", n)
  BY <1>3, <1>4 DEF TallyNodes, poolVars
<1>6. KeptAt("send", n)'
  BY <1>1, <1>4, <1>5 DEF KeptAt, BusyPlaces
<1> QED
  BY <1>5, <1>6, ReadySays

\* The dispatcher gets what is owed.
LEMMA SendKeeps ==
  ASSUME NEW t, Ready(t), SendNodes(t), excuse' = {}
  PROVE  PoolKept'
<1>0. /\ KeptAt("send", thread[t].n) /\ count \in Nat /\ Len(pool) \in Nat /\ count <= Len(pool)
      /\ pool \in Seq(Node) /\ pos # -1
  BY ReadySays DEF SendNodes
<1>1. /\ ~ crashed /\ given /\ sender # "sent" /\ thread[t].n = count
      /\ count > 0 /\ owed = SubSeq(pool, 1, count) /\ Bytes(pool, count - 1) < Limit
  BY <1>0 DEF KeptAt, BusyPlaces
<1>2. count \in 1 .. Len(pool) /\ count \in 0 .. Len(pool)
  BY <1>0, <1>1
<1>3. (\A i \in 1 .. count : pool[i].bytes = MaxBytes) => count <= IovMax
  BY <1>0, <1>1, <1>2, FullFits
<1>4. PICK n : n = count
  OBVIOUS
<1>5. /\ pool' = pool /\ count' = count /\ sender' = sender /\ crashed' = crashed
      /\ Goto(t, "test", n) /\ Dispatch(SubSeq(pool, 1, n))
  BY <1>0, <1>1, <1>4 DEF SendNodes
<1>6. given' /\ owed' = << >>
  <2>1. n \in 0 .. Len(pool) /\ owed = SubSeq(pool, 1, n) /\ ((\A i \in 1 .. n : pool[i].bytes = MaxBytes) => n <= IovMax)
    BY <1>1, <1>2, <1>3, <1>4
  <2>2. PoolTyped /\ excuse = {}
    BY DEF Ready
  <2> QED
    BY <1>0, <1>1, <1>5, <2>1, <2>2, DispatchGives
<1>7. KeptAt("test", n)'
  BY <1>1, <1>4, <1>5, <1>6 DEF KeptAt, BusyPlaces
<1> QED
  BY <1>5, <1>7, ReadySays

\* After a send of all the pool is empty.
LEMMA DropKeeps ==
  ASSUME NEW t, Ready(t), DropSent(t), pool' \in Seq(Node)
  PROVE  PoolKept'
<1>0. /\ KeptAt("lock", thread[t].n) /\ count \in Nat
  BY ReadySays DEF DropSent
<1>1. ~ crashed /\ given /\ sender # "sent" /\ thread[t].n = count /\ owed = << >>
  BY <1>0 DEF KeptAt, BusyPlaces
<1>2. /\ Goto(t, "wait", 0) /\ count' = 0 /\ owed' = owed /\ given' = given /\ crashed' = crashed /\ sender' = sender
  BY <1>0, <1>1 DEF DropSent
<1>3. Bytes(pool', 0) < Limit /\ SubSeq(pool', 1, 0) = << >>
  BY EmptyPool
<1>4. KeptAt("wait", 0)'
  BY <1>1, <1>2, <1>3 DEF KeptAt, BusyPlaces
<1> QED
  BY <1>2, <1>4, ReadySays

\* The other steps of the thread leave the pool.
LEMMA MoveKeeps ==
  ASSUME NEW t, Ready(t),
         SkipNode(t) \/ TestCount(t) \/ Follow(t) \/ FollowNull(t)
  PROVE  PoolKept'
<1>0. KeptAt(thread[t].at, thread[t].n) /\ count \in Nat
  BY ReadySays
<1>1. CASE SkipNode(t) \/ Follow(t) \/ FollowNull(t)
  <2>1. PICK at \in {"wait", "top", "ended"} :
          /\ Goto(t, at, 0) /\ thread[t].at \in {"match", "wait"}
          /\ pool' = pool /\ count' = count /\ sender' = sender /\ owed' = owed /\ given' = given /\ crashed' = crashed
    BY <1>1 DEF SkipNode, Follow, FollowNull, poolVars
  <2>2. KeptAt(at, 0)'
    BY <1>0, <2>1 DEF KeptAt, BusyPlaces
  <2> QED
    BY <2>1, <2>2, ReadySays
<1>2. CASE TestCount(t)
  <2>1. KeptAt("test", thread[t].n)
    BY <1>0, <1>2 DEF TestCount
  <2>2. ~ crashed /\ given /\ sender # "sent" /\ thread[t].n = count /\ owed = << >>
    BY <2>1 DEF KeptAt, BusyPlaces
  <2>3. PICK n : n = count
    OBVIOUS
  <2>4. /\ Goto(t, "lock", n)
        /\ pool' = pool /\ count' = count /\ sender' = sender /\ owed' = owed /\ given' = given /\ crashed' = crashed
    BY <1>0, <1>2, <2>2, <2>3 DEF TestCount
  <2>5. KeptAt("lock", n)'
    BY <2>2, <2>3, <2>4 DEF KeptAt, BusyPlaces
  <2> QED
    BY <2>4, <2>5, ReadySays
<1> QED
  BY <1>1, <1>2

\* A pool in which no thread is busy is less than one send.
LEMMA TriggerKeeps ==
  ASSUME PoolTyped, PoolKept, ~ crashed,
         excuse = {}, excuse' = {}, TriggerSends
  PROVE  PoolKept'
<1>0. pool \in Seq(Node) /\ Len(pool) \in Nat /\ count \in Nat /\ count \in 0 .. Len(pool)
  BY DEF PoolTyped
<1>1. /\ sender = "idle" /\ Dispatch(SubSeq(pool, 1, count)) /\ sender' = "sent"
      /\ ~ Busy /\ pool' = pool /\ count' = count /\ thread' = thread /\ crashed' = crashed
  BY DEF TriggerSends
<1>2. given /\ Bytes(pool, count) < Limit /\ owed = SubSeq(pool, 1, count)
  BY <1>1 DEF PoolKept
<1>3. ASSUME \A i \in 1 .. count : pool[i].bytes = MaxBytes PROVE count <= IovMax
  <2>1. CASE count = 0
    BY <2>1, SessionAssumption
  <2>2. CASE count # 0
    <3>1. count \in 1 .. Len(pool) /\ count - 1 \in 0 .. Len(pool) /\ pool[count] \in Node
      BY <1>0, <2>2
    <3>2. pool[count].bytes \in Nat /\ Limit \in Nat
      BY <3>1, SessionAssumption DEF Node, Limit
    <3>3. /\ Bytes(pool, count) = Bytes(pool, count - 1) + pool[count].bytes
          /\ Bytes(pool, count - 1) \in Nat
      BY <1>0, <3>1, BytesAddUp
    <3>4. Bytes(pool, count - 1) < Limit
      BY <1>2, <3>2, <3>3
    <3> QED
      BY <1>0, <1>3, <3>1, <3>4, FullFits
  <2> QED
    BY <2>1, <2>2
<1>4. given' /\ owed' = << >>
  BY <1>0, <1>1, <1>2, <1>3, DispatchGives
<1>5. \A u \in Threads : thread'[u].at \notin BusyPlaces
  BY <1>1 DEF Busy, BusyPlaces
<1>6. KeptAt("top", 0)'
  BY <1>1, <1>2, <1>4 DEF KeptAt, BusyPlaces
<1> QED
  BY <1>5, <1>6, KeptIdle

\* Setting up, emptying or freeing the pool leaves it empty, and no thread
\* busy.
LEMMA EmptiedKeeps ==
  ASSUME ThreadTyped, PoolKept, ~ crashed, excuse = {}, excuse' = {}, pool' \in Seq(Node),
         \/ \E t \in Threads : insert_session(t)
         \/ DeleteFrees \/ stop_session_connection \/ TriggerEmpties
  PROVE  PoolKept'
<1>1. /\ count' = 0 /\ owed' = << >> /\ given' = given /\ crashed' = crashed
      /\ \A u \in Threads : thread'[u].at \notin BusyPlaces
  <2>1. ASSUME NEW t \in Threads, insert_session(t)
        PROVE  /\ count' = 0 /\ owed' = << >> /\ given' = given /\ crashed' = crashed
               /\ \A u \in Threads : thread'[u].at \notin BusyPlaces
    <3>1. PICK at \in {"top", "ended"} :
            /\ count' = 0 /\ owed' = << >> /\ given' = given /\ crashed' = crashed
            /\ Goto(t, at, 0) /\ \A u \in Threads : ~ Live(u)
      BY <2>1 DEF insert_session
    <3> QED
      BY <3>1 DEF Goto, ThreadTyped, Live, BusyPlaces
  <2>2. CASE DeleteFrees \/ stop_session_connection
    <3>1. /\ count' = 0 /\ owed' = << >> /\ given' = given /\ crashed' = crashed
          /\ thread' = thread /\ \A u \in Threads : ~ Live(u)
      BY <2>2 DEF DeleteFrees, stop_session_connection, Freed
    <3> QED
      BY <3>1 DEF Live, BusyPlaces
  <2>3. CASE TriggerEmpties
    <3>1. /\ count' = 0 /\ owed' = owed /\ given' = given /\ crashed' = crashed
          /\ thread' = thread /\ ~ Busy /\ sender = "sent"
      BY <2>3 DEF TriggerEmpties
    <3> QED
      BY <3>1 DEF PoolKept, Busy, BusyPlaces
  <2> QED
    BY <2>1, <2>2, <2>3
<1>2. ~ crashed' /\ given'
  BY <1>1 DEF PoolKept
<1>3. Bytes(pool', 0) < Limit /\ SubSeq(pool', 1, 0) = << >>
  BY EmptyPool
<1>4. KeptAt("top", 0)'
  BY <1>1, <1>2, <1>3 DEF KeptAt, BusyPlaces
<1> QED
  BY <1>1, <1>4, KeptIdle

\* Every step without a race keeps the pool a queue.
LEMMA KeptStep ==
  ASSUME Limit + MaxBytes <= 65536, [Next]_vars,
         RingTyped, PoolTyped, PosTyped, ThreadTyped, RestTyped, OneThread, PoolKept
  PROVE  PoolKept'
<1> SUFFICES ASSUME excuse' = {} PROVE PoolKept'
  BY DEF PoolKept
<1>0. excuse = {} /\ pool' \in Seq(Node)
  <2>1. excuse \subseteq excuse' /\ PoolTyped'
    BY PosChanges, PoolStep
  <2> QED
    BY <2>1 DEF PoolTyped
<1>1. CASE UNCHANGED <<pool, count, owed, given, sender, thread, crashed>>
  <2>1. Busy' = Busy /\ \A t \in Threads : Handing(t)' = Handing(t)
    BY <1>1 DEF Busy, Handing
  <2> QED
    BY <1>0, <1>1, <2>1 DEF PoolKept
<1>2. UNCHANGED vars \/ WorkerCopies \/ WorkerAdvances \/ Reload \/ delete_session
        => UNCHANGED <<pool, count, owed, given, sender, thread, crashed>>
  BY DEF vars, WorkerCopies, WorkerAdvances, Reload, delete_session, poolVars
<1>3. ASSUME NEW t \in Threads,
             GrowPool(t) \/ TakeNode(t) \/ SkipNode(t) \/ CountNode(t) \/ TestSize(t) \/ TallyNodes(t)
               \/ SendNodes(t) \/ TestCount(t) \/ DropSent(t) \/ Follow(t) \/ FollowNull(t),
             ~ crashed
      PROVE  PoolKept'
  <2>1. Live(t)
    BY <1>3 DEF GrowPool, TakeNode, SkipNode, CountNode, TestSize, TallyNodes, SendNodes, TestCount,
                DropSent, Follow, FollowNull, Live
  <2>2. Ready(t)
    BY <1>0, <1>3, <2>1 DEF Ready
  <2> QED
    BY <1>0, <1>3, <2>2, GrowKeeps, TakeKeeps, CountKeeps, TestKeeps, TallyKeeps, SendKeeps,
       DropKeeps, MoveKeeps
<1>4. ASSUME NEW t \in Threads,
             GrowFails(t) \/ TakeCrashes(t) \/ DropSentWraps(t) \/ FollowCrashes(t)
      PROVE  FALSE
  BY <1>4 DEF GrowFails, TakeCrashes, DropSentWraps, FollowCrashes, Crash
<1>5. ASSUME ~ crashed, (\E t \in Threads : insert_session(t)) \/ DeleteFrees \/ stop_session_connection \/ TriggerEmpties
      PROVE  PoolKept'
  BY <1>0, <1>5, EmptiedKeeps
<1>6. ASSUME ~ crashed, TriggerSends
      PROVE  PoolKept'
  BY <1>0, <1>6, TriggerKeeps
<1>7. ASSUME TriggerCrashes
      PROVE  FALSE
  BY <1>7 DEF TriggerCrashes, Crash
<1> QED
  BY <1>1, <1>2, <1>3, <1>4, <1>5, <1>6, <1>7, Steps

------------------------------------------------------------------------------
(* The theorems *)

\* The first state: an empty ring, no session and no thread.
LEMMA Initially == Init => IInv
<1> SUFFICES ASSUME Init PROVE IInv
  OBVIOUS
<1>0. /\ N \in Nat /\ N >= 2 /\ MaxWrite \in Nat /\ Zero \in Node /\ Zero.id = 0
  BY SessionAssumption DEF Zero, Node
<1>1. /\ RingTyped /\ PosTyped /\ RestTyped
  <2>1. ring = [i \in 0 .. N |-> Zero] /\ cursor = 0 /\ step = "copy" /\ written = 0 /\ pos = -1
    BY DEF Init
  <2>2. RingTyped
    BY <1>0, <2>1 DEF RingTyped
  <2>3. PosTyped
    BY <1>0, <2>1 DEF PosTyped
  <2>4. RestTyped
    BY DEF Init, RestTyped
  <2> QED
    BY <2>2, <2>3, <2>4
<1>2. PoolTyped /\ ThreadTyped
  BY DEF Init, PoolTyped, ThreadTyped, NoThread
<1>3. TypeOK
  BY <1>1, <1>2, TypeParts
<1>4. RingInLap
  <2>1. Slot = 0 /\ Rounds = 0 /\ step = "copy" /\ cursor = 0
    BY <1>0 DEF Init, Slot, Rounds
  <2>2. \A i \in 0 .. N - 1 : ring[i].id = 0
    BY <1>0 DEF Init
  <2> QED
    BY <1>0, <2>1, <2>2 DEF RingInLap
<1>5. ThreadInLap
  BY <1>0 DEF Init, ThreadInLap
<1>6. \A t \in Threads : thread[t].at = "none"
  BY DEF Init, NoThread
<1>7. OneThread
  BY <1>6 DEF Init, OneThread, Live
<1>8. PoolKept
  <2>1. << >> \in Seq(Node)
    OBVIOUS
  <2>2. Bytes(<< >>, 0) < Limit /\ SubSeq(<< >>, 1, 0) = << >>
    BY <2>1, EmptyPool
  <2>3. ~ Busy /\ \A t \in Threads : Handing(t)
    BY <1>6 DEF Busy, Handing
  <2> QED
    BY <2>2, <2>3 DEF Init, PoolKept
<1> QED
  BY <1>3, <1>4, <1>5, <1>7, <1>8 DEF IInv, LapInv

\* Every step keeps it.
LEMMA LapInvStep == LapInv /\ [Next]_vars => LapInv'
<1> SUFFICES ASSUME LapInv, [Next]_vars PROVE LapInv'
  OBVIOUS
<1>1. /\ RingTyped /\ PoolTyped /\ PosTyped /\ ThreadTyped /\ RestTyped
      /\ RingInLap /\ ThreadInLap /\ OneThread
  BY TypeParts DEF LapInv
<1>2. RingTyped' /\ RingInLap' /\ PoolTyped' /\ PosTyped' /\ ThreadTyped' /\ RestTyped'
  BY <1>1, RingStep, PoolStep, PosStep, ThreadStep, RestStep
<1>3. ThreadInLap' /\ OneThread'
  BY <1>1, LapStep, OneThreadStep
<1>4. TypeOK'
  BY <1>2 DEF TypeOK, RingTyped, PoolTyped, PosTyped, ThreadTyped, RestTyped
<1> QED
  BY <1>2, <1>3, <1>4 DEF LapInv

\* Whatever the races, every reachable state is typed, the ring holds two
\* consecutive rounds, and the thread's slot is that of its copy.
THEOREM LapInvariance == Spec => []LapInv
<1>1. Init => LapInv
  BY Initially DEF IInv
<1>2. LapInv /\ [Next]_vars => LapInv'
  BY LapInvStep
<1> QED
  BY <1>1, <1>2, PTL DEF Spec

\* Every variable of a session keeps its type: no count exceeds the pool
\* without a crash, and no place is the LAST node without a slip.
THEOREM TypeCorrect == Spec => []TypeOK
<1>1. LapInv => TypeOK
  BY DEF LapInv
<1> QED
  BY <1>1, LapInvariance, PTL

\* For every ring and any number of copies: session_worker and the circular
\* buffer's worker stay in step through every wrap of the ring.
THEOREM StaysInStep == Spec => []LapInStep
<1>1. LapInv => LapInStep
  BY LapSays, TypeParts DEF LapInv
<1> QED
  BY <1>1, LapInvariance, PTL

\* When the 16 bits of get_session_size hold the limit of a send and one node
\* more, as with each profile of mtu_config.h: until the first race of the thread
\* with the scheduler or with another thread, the dispatcher gets every node
\* appended, once and in order, and nothing is written out of bounds.  All of it
\* goes out where the connection has a protocol (as built none is stored) and
\* the nodes are full; of small ones a writev takes the first six.
THEOREM PoolStaysQueue ==
  ASSUME Limit + MaxBytes <= 65536
  PROVE  Spec => []PoolIsQueue
<1>1. Init => IInv
  BY Initially
<1>2. IInv /\ [Next]_vars => IInv'
  <2> SUFFICES ASSUME LapInv, PoolKept, [Next]_vars PROVE LapInv' /\ PoolKept'
    BY DEF IInv
  <2>1. RingTyped /\ PoolTyped /\ PosTyped /\ ThreadTyped /\ RestTyped /\ OneThread
    BY TypeParts DEF LapInv
  <2> QED
    BY <2>1, LapInvStep, KeptStep
<1>3. IInv => PoolIsQueue
  BY DEF IInv, PoolKept, PoolIsQueue
<1> QED
  BY <1>1, <1>2, <1>3, PTL DEF Spec

==============================================================================
