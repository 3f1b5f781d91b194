--------------------------- MODULE SchedulerProofs ---------------------------
(***************************************************************************)
(* Proofs about module Scheduler.  First its sort, for an array of any     *)
(* length: the binary search ends within the rows before its key, and the  *)
(* insertions lose no row and double none (that the rows are then in order *)
(* is proved in AlgorithmProofs).  Then the scheduler, for any number of   *)
(* sessions: a session has no more rows than inserts stored it in and      *)
(* deletes left, though the stores meet rows that sorts have moved.        *)
(*                                                                         *)
(* Induction goes over sets of naturals (Induction, from the               *)
(* well-foundedness of <), and a recursive function is shown to exist      *)
(* before its equation is used (SearchDefined, SortingDefined).            *)
(***************************************************************************)
EXTENDS Scheduler, FiniteSetTheorems, WellFoundedInduction, TLAPS

------------------------------------------------------------------------------
(* Induction *)

\* Every set of naturals that is not empty has a least element.
LEMMA LeastElement ==
  ASSUME NEW T, T \subseteq Nat, T # {}
  PROVE  \E n \in T : \A m \in T : n <= m
<1> DEFINE R == OpToRel(<, Nat)
<1>1. IsWellFoundedOn(R, Nat)
  BY NatLessThanWellFounded, Zenon
<1>2. PICK n \in T : \A m \in T : ~ (<<m, n>> \in R)
  <2> HIDE DEF R
  <2> QED
    BY <1>1, WFMin
<1>3. ASSUME NEW m \in T PROVE n <= m
  <2>1. ~ (<<m, n>> \in R) /\ m \in Nat /\ n \in Nat
    BY <1>2, Zenon
  <2>2. m < n => <<m, n>> \in R
    BY <2>1, Zenon DEF OpToRel
  <2> HIDE DEF R
  <2> QED
    BY <2>1, <2>2
<1> QED
  BY <1>3

\* Induction over the naturals, for a set.
LEMMA Induction ==
  ASSUME NEW T, 0 \in T, \A n \in Nat : n \in T => n + 1 \in T
  PROVE  Nat \subseteq T
<1> DEFINE U == Nat \ T
<1> SUFFICES ASSUME U # {} PROVE FALSE
  OBVIOUS
<1>1. PICK n \in U : \A m \in U : n <= m
  BY LeastElement
<1>2. n \in Nat /\ n # 0
  OBVIOUS
<1>3. n - 1 \in Nat /\ ~ (n <= n - 1) /\ (n - 1) + 1 = n
  BY <1>2
<1>4. n - 1 \in T
  BY <1>1, <1>3
<1> QED
  BY <1>1, <1>3, <1>4

------------------------------------------------------------------------------
(* The sort *)

\* The middle of a stretch lies in it.
LEMMA Middle ==
  ASSUME NEW left \in Int, NEW right \in Int, left <= right
  PROVE  /\ (left + right) \div 2 \in Int
         /\ left <= (left + right) \div 2 /\ (left + right) \div 2 <= right
  OBVIOUS

\* The states of a binary search for row i.
Windows(i) == (1 .. i) \X (0 .. i - 1)

\* One step of the binary search, f being what the search returns.
SearchStep(f, s, i, w) ==
  IF w[1] > w[2] THEN w[1]
  ELSE IF s[(w[1] + w[2]) \div 2].deadline <= s[i].deadline
       THEN f[<<(w[1] + w[2]) \div 2 + 1, w[2]>>]
       ELSE f[<<w[1], (w[1] + w[2]) \div 2 - 1>>]

\* The search halves its window: where it goes next depends on its results for
\* smaller windows only.
LEMMA SearchNarrows ==
  ASSUME NEW s, NEW i \in Nat \ {0}, NEW w \in Windows(i), NEW g, NEW h,
         \A v \in Windows(i) : v[2] - v[1] < w[2] - w[1] => g[v] = h[v]
  PROVE  SearchStep(g, s, i, w) = SearchStep(h, s, i, w)
<1>1. w[1] \in 1 .. i /\ w[2] \in 0 .. i - 1
  BY DEF Windows
<1>2. CASE w[1] > w[2]
  BY <1>2 DEF SearchStep
<1>3. CASE w[1] <= w[2]
  <2> DEFINE mid == (w[1] + w[2]) \div 2
  <2>1. mid \in Int /\ w[1] <= mid /\ mid <= w[2]
    BY <1>1, <1>3, Middle
  <2> HIDE DEF mid
  <2>2. mid + 1 \in 1 .. i /\ mid - 1 \in 0 .. i - 1
    BY <1>1, <2>1
  <2>3. <<mid + 1, w[2]>> \in Windows(i) /\ <<w[1], mid - 1>> \in Windows(i)
    BY <1>1, <2>2 DEF Windows
  <2>4. w[2] - (mid + 1) < w[2] - w[1] /\ (mid - 1) - w[1] < w[2] - w[1]
    BY <1>1, <2>1
  <2>5. /\ g[<<mid + 1, w[2]>>] = h[<<mid + 1, w[2]>>]
        /\ g[<<w[1], mid - 1>>] = h[<<w[1], mid - 1>>]
    BY <2>3, <2>4
  <2> QED
    BY <2>5 DEF SearchStep, mid
<1> QED
  BY <1>1, <1>2, <1>3

\* The binary search ends, whatever the rows: its recursion defines a function.
LEMMA SearchDefined ==
  ASSUME NEW s, NEW i \in Nat \ {0}
  PROVE  \A w \in Windows(i) : Search(s, i)[w] = SearchStep(Search(s, i), s, i, w)
<1>0. \A w \in Windows(i) : w[1] \in Int /\ w[2] \in Int /\ w[2] - w[1] < i
  BY DEF Windows
<1> DEFINE Up(g, n) == \A w \in Windows(i) : w[2] - w[1] < n => g[w] = SearchStep(g, s, i, w)
           T == {n \in Nat : \E g : Up(g, n)}
<1>1. 0 \in T
  <2> DEFINE g == [w \in Windows(i) |-> w[1]]
  <2>1. ASSUME NEW w \in Windows(i), w[2] - w[1] < 0
        PROVE  g[w] = SearchStep(g, s, i, w)
    <3>1. w[1] > w[2]
      BY <1>0, <2>1
    <3> QED
      BY <3>1 DEF SearchStep
  <2>2. Up(g, 0)
    BY <2>1
  <2> HIDE DEF Up, g
  <2> QED
    BY <2>2
<1>2. ASSUME NEW n \in Nat, n \in T PROVE n + 1 \in T
  <2>1. PICK g : Up(g, n)
    BY <1>2
  <2> DEFINE h == [w \in Windows(i) |-> IF w[2] - w[1] = n THEN SearchStep(g, s, i, w) ELSE g[w]]
  <2>2. ASSUME NEW w \in Windows(i), w[2] - w[1] < n + 1
        PROVE  h[w] = SearchStep(h, s, i, w)
    <3>1. h[w] = SearchStep(g, s, i, w)
      <4>1. CASE w[2] - w[1] = n
        BY <4>1
      <4>2. CASE w[2] - w[1] # n
        <5>1. w[2] - w[1] < n
          BY <1>0, <2>2, <4>2
        <5> QED
          BY <2>1, <4>2, <5>1
      <4> QED
        BY <4>1, <4>2
    <3>2. \A v \in Windows(i) : v[2] - v[1] < w[2] - w[1] => g[v] = h[v]
      BY <1>0, <2>2
    <3> HIDE DEF h
    <3>3. SearchStep(g, s, i, w) = SearchStep(h, s, i, w)
      BY <3>2, SearchNarrows
    <3> QED
      BY <3>1, <3>3
  <2>3. Up(h, n + 1)
    BY <2>2
  <2> HIDE DEF Up, h
  <2> QED
    BY <2>3
<1>3. i \in T
  <2> HIDE DEF T
  <2> QED
    BY <1>1, <1>2, Induction
<1>4. PICK g : Up(g, i)
  BY <1>3
<1> DEFINE h == [w \in Windows(i) |-> g[w]]
<1>5. ASSUME NEW w \in Windows(i)
      PROVE  h[w] = SearchStep(h, s, i, w)
  <2>1. g[w] = SearchStep(g, s, i, w)
    BY <1>0, <1>4
  <2>2. \A v \in Windows(i) : v[2] - v[1] < w[2] - w[1] => g[v] = h[v]
    OBVIOUS
  <2>3. h[w] = g[w]
    OBVIOUS
  <2> HIDE DEF h
  <2> QED
    BY <2>1, <2>2, <2>3, SearchNarrows
<1>6. h = [w \in Windows(i) |-> SearchStep(h, s, i, w)]
  <2> DEFINE k == [w \in Windows(i) |-> h[w]]
  <2>1. h = k
    OBVIOUS
  <2> HIDE DEF h
  <2> QED
    BY <1>5, <2>1
<1>7. Search(s, i) = CHOOSE f : f = [w \in Windows(i) |-> SearchStep(f, s, i, w)]
  BY DEF Search, SearchStep, Windows
<1>8. Search(s, i) = [w \in Windows(i) |-> SearchStep(Search(s, i), s, i, w)]
  <2> HIDE DEF h
  <2> QED
    BY <1>6, <1>7
<1> QED
  BY <1>8

\* The binary search of _reorder_thread stays among the rows up to i.
LEMMA PlaceInRange ==
  ASSUME NEW s, NEW i \in Nat \ {0}
  PROVE  Place(s, i) \in 1 .. i
<1> DEFINE T == {n \in Nat : \A w \in Windows(i) : w[2] - w[1] < n => Search(s, i)[w] \in 1 .. i}
<1>1. \A w \in Windows(i) : w[1] \in 1 .. i /\ w[2] \in 0 .. i - 1
  BY DEF Windows
<1>2. ASSUME NEW w \in Windows(i), w[2] < w[1] PROVE Search(s, i)[w] \in 1 .. i
  BY <1>1, <1>2, SearchDefined DEF SearchStep
<1>3. 0 \in T
  BY <1>1, <1>2
<1>4. ASSUME NEW n \in Nat, n \in T PROVE n + 1 \in T
  <2> SUFFICES ASSUME NEW w \in Windows(i), w[2] - w[1] < n + 1 PROVE Search(s, i)[w] \in 1 .. i
    OBVIOUS
  <2>1. CASE w[2] < w[1]
    BY <1>2, <2>1
  <2>2. CASE w[1] <= w[2]
    <3> DEFINE mid == (w[1] + w[2]) \div 2
               v == <<mid + 1, w[2]>>
               u == <<w[1], mid - 1>>
    <3>1. mid \in Int /\ w[1] <= mid /\ mid <= w[2]
      BY <1>1, <2>2, Middle
    <3>2. Search(s, i)[w] = Search(s, i)[v] \/ Search(s, i)[w] = Search(s, i)[u]
      BY <1>1, <2>2, SearchDefined DEF SearchStep
    <3> HIDE DEF mid
    <3>3. mid + 1 \in 1 .. i /\ mid - 1 \in 0 .. i - 1
      BY <1>1, <3>1
    <3>4. v \in Windows(i) /\ u \in Windows(i)
      BY <1>1, <3>3 DEF Windows
    <3>5. v[2] - v[1] < n /\ u[2] - u[1] < n
      BY <1>1, <3>1
    <3> HIDE DEF v, u
    <3> QED
      BY <1>4, <3>2, <3>4, <3>5
  <2> QED
    BY <1>1, <2>1, <2>2
<1>5. i \in T
  <2> HIDE DEF T
  <2> QED
    BY <1>3, <1>4, Induction
<1> DEFINE all == <<1, i - 1>>
<1>6. all \in Windows(i) /\ all[2] - all[1] < i
  BY DEF Windows
<1> HIDE DEF all
<1> QED
  BY <1>5, <1>6 DEF Place, all

\* An array of n rows is a sequence.
LEMMA ArrayIsSeq ==
  ASSUME NEW V, NEW n \in Nat, NEW f, f = [j \in 1 .. n |-> f[j]], \A j \in 1 .. n : f[j] \in V
  PROVE  f \in Seq(V) /\ Len(f) = n
  OBVIOUS

\* p tells where in s each row of a comes from.
Traces(p, a, s) ==
  /\ p \in [1 .. Len(s) -> 1 .. Len(s)]
  /\ \A j, k \in 1 .. Len(s) : p[j] = p[k] => j = k
  /\ \A j \in 1 .. Len(s) : a[j] = s[p[j]]

\* a holds the rows of s, each once.
Permutes(a, s) ==
  /\ a \in Seq({s[j] : j \in 1 .. Len(s)}) /\ Len(a) = Len(s)
  /\ \E p : Traces(p, a, s)

\* Putting a row in its place loses none and doubles none.
LEMMA InsertedPermutes ==
  ASSUME NEW S, NEW s \in Seq(S), NEW i \in 2 .. Len(s), NEW a, Permutes(a, s)
  PROVE  Permutes(Inserted(a, i), s)
<1> DEFINE n == Len(s)
           V == {s[j] : j \in 1 .. n}
           b == Inserted(a, i)
<1>1. n \in Nat /\ i \in Int /\ 2 <= i /\ i <= n /\ Len(a) = n /\ a \in Seq(V)
  BY DEF Permutes
<1>2. PICK p : Traces(p, a, s)
  BY DEF Permutes
<1> HIDE DEF n
<1>3. \A j \in 1 .. n : a[j] \in V
  <2> HIDE DEF V
  <2> QED
    BY <1>1
<1>4. /\ p \in [1 .. n -> 1 .. n]
      /\ \A j, k \in 1 .. n : p[j] = p[k] => j = k
      /\ \A j \in 1 .. n : a[j] = s[p[j]]
  BY <1>2 DEF Traces, n
<1> DEFINE q == Place(a, i)
<1>5. q \in 1 .. i
  BY <1>1, PlaceInRange
<1>6. b = [j \in 1 .. n |-> CASE j = q             -> a[i]
                              [] q < j /\ j <= i   -> a[j - 1]
                              [] OTHER             -> a[j]]
  BY <1>1 DEF Inserted
<1> HIDE DEF q, b
<1> DEFINE from == [j \in 1 .. n |-> IF j = q THEN i ELSE IF q < j /\ j <= i THEN j - 1 ELSE j]
           p2 == [j \in 1 .. n |-> p[from[j]]]
<1>7. n \in Nat /\ i \in Int /\ 2 <= i /\ i <= n /\ q \in 1 .. i
  BY <1>1, <1>5
<1>8. \A j \in 1 .. n : from[j] = IF j = q THEN i ELSE IF q < j /\ j <= i THEN j - 1 ELSE j
  OBVIOUS
<1>9. \A j \in 1 .. n : from[j] \in 1 .. n /\ b[j] = a[from[j]]
  <2>1. \A j \in 1 .. n : from[j] \in 1 .. n
    BY <1>7, <1>8
  <2>2. \A j \in 1 .. n : b[j] = CASE j = q             -> a[i]
                                   [] q < j /\ j <= i   -> a[j - 1]
                                   [] OTHER             -> a[j]
    BY <1>6
  <2> HIDE DEF from
  <2>3. ASSUME NEW j \in 1 .. n PROVE b[j] = a[from[j]]
    <3>1. CASE j = q
      BY <1>8, <2>2, <3>1
    <3>2. CASE q < j /\ j <= i
      <4>1. j # q
        BY <1>7, <3>2
      <4> QED
        BY <1>8, <2>2, <3>2, <4>1
    <3>3. CASE j # q /\ ~ (q < j /\ j <= i)
      BY <1>8, <2>2, <3>3
    <3> QED
      BY <3>1, <3>2, <3>3
  <2> QED
    BY <2>1, <2>3
<1> HIDE DEF from
<1>10. \A j, k \in 1 .. n : from[j] = from[k] => j = k
  BY <1>7, <1>8
<1>11. b \in Seq(V) /\ Len(b) = n
  <2>1. b = [j \in 1 .. n |-> b[j]]
    BY <1>6
  <2> HIDE DEF V
  <2>2. \A j \in 1 .. n : b[j] \in V
    BY <1>3, <1>9
  <2> QED
    BY <1>7, <2>1, <2>2, ArrayIsSeq
<1>12. /\ p2 \in [1 .. n -> 1 .. n]
       /\ \A j, k \in 1 .. n : p2[j] = p2[k] => j = k
       /\ \A j \in 1 .. n : b[j] = s[p2[j]]
  BY <1>4, <1>9, <1>10
<1> HIDE DEF p2
<1>13. Traces(p2, b, s)
  BY <1>12 DEF Traces, n
<1> QED
  BY <1>11, <1>13 DEF Permutes, b, n

\* The insertion sort's recursion defines a function, too.
LEMMA SortingDefined ==
  ASSUME NEW s, Len(s) \in Nat
  PROVE  \A i \in 0 .. Len(s) :
           Sorting(s)[i] = IF i <= 1 THEN s ELSE Inserted(Sorting(s)[i - 1], i)
<1> DEFINE n == Len(s)
           Body(g, i) == IF i <= 1 THEN s ELSE Inserted(g[i - 1], i)
           T == {m \in Nat : \E g : \A i \in 0 .. m : g[i] = Body(g, i)}
<1>1. 0 \in T
  <2> DEFINE g == [i \in {0} |-> s]
  <2>1. \A i \in 0 .. 0 : g[i] = Body(g, i)
    OBVIOUS
  <2> HIDE DEF g, Body
  <2> QED
    BY <2>1
<1>2. ASSUME NEW m \in Nat, m \in T PROVE m + 1 \in T
  <2>1. PICK g : \A i \in 0 .. m : g[i] = Body(g, i)
    BY <1>2
  <2> DEFINE h == [i \in 0 .. m + 1 |-> IF i = m + 1 THEN Body(g, i) ELSE g[i]]
  <2>2. ASSUME NEW i \in 0 .. m + 1 PROVE h[i] = Body(h, i)
    <3>1. h[i] = Body(g, i)
      <4> HIDE DEF Body
      <4>1. i = m + 1 \/ (i # m + 1 /\ i \in 0 .. m)
        OBVIOUS
      <4> QED
        BY <2>1, <4>1
    <3>2. i <= 1 \/ (i - 1 \in 0 .. m + 1 /\ i - 1 # m + 1)
      OBVIOUS
    <3>3. i <= 1 \/ h[i - 1] = g[i - 1]
      <4> HIDE DEF Body
      <4> QED
        BY <3>2
    <3> HIDE DEF h
    <3> QED
      BY <3>1, <3>3
  <2> HIDE DEF Body, h
  <2> QED
    BY <2>2
<1>3. n \in T
  <2> HIDE DEF T
  <2> QED
    BY <1>1, <1>2, Induction
<1>4. PICK g : \A i \in 0 .. n : g[i] = Body(g, i)
  BY <1>3
<1> DEFINE h == [i \in 0 .. n |-> g[i]]
<1>5. ASSUME NEW i \in 0 .. n PROVE h[i] = Body(h, i)
  <2>1. h[i] = Body(g, i)
    BY <1>4
  <2>2. i <= 1 \/ i - 1 \in 0 .. n
    OBVIOUS
  <2>3. i <= 1 \/ h[i - 1] = g[i - 1]
    BY <2>2
  <2> HIDE DEF h
  <2> QED
    BY <2>1, <2>3
<1>6. h = [i \in 0 .. n |-> h[i]]
  OBVIOUS
<1> HIDE DEF h
<1>7. h = [i \in 0 .. n |-> Body(h, i)]
  <2> HIDE DEF Body
  <2> QED
    BY <1>5, <1>6
<1>8. Sorting(s) = CHOOSE f : f = [i \in 0 .. n |-> Body(f, i)]
  BY DEF Sorting
<1>9. Sorting(s) = [i \in 0 .. n |-> Body(Sorting(s), i)]
  <2> HIDE DEF Body
  <2> QED
    BY <1>7, <1>8
<1> QED
  BY <1>9

\* So the sort neither loses nor doubles a row, whatever the number of rows.
LEMMA ReorderedPermutes ==
  ASSUME NEW S, NEW s \in Seq(S)
  PROVE  Permutes(Reordered(s), s)
<1> DEFINE n == Len(s)
           T == {i \in Nat : i \in 0 .. n => Permutes(Sorting(s)[i], s)}
<1>1. n \in Nat /\ \A i \in 0 .. n : Sorting(s)[i] = IF i <= 1 THEN s ELSE Inserted(Sorting(s)[i - 1], i)
  BY SortingDefined
<1>2. ASSUME NEW i \in 0 .. 1, i \in 0 .. n PROVE Permutes(Sorting(s)[i], s)
  <2>1. Sorting(s)[i] = s
    BY <1>1, <1>2
  <2> DEFINE p == [j \in 1 .. n |-> j]
  <2>2. Traces(p, s, s)
    BY <1>1, <1>2 DEF Traces
  <2>3. s \in Seq({s[j] : j \in 1 .. n})
    <3> DEFINE V == {s[j] : j \in 1 .. n}
    <3>1. s = [j \in 1 .. n |-> s[j]] /\ \A j \in 1 .. n : s[j] \in V
      OBVIOUS
    <3> HIDE DEF V
    <3> QED
      BY <1>1, <3>1
  <2> HIDE DEF p
  <2> QED
    BY <2>1, <2>2, <2>3 DEF Permutes
<1>3. 0 \in T
  BY <1>1, <1>2
<1>4. ASSUME NEW i \in Nat, i \in T PROVE i + 1 \in T
  <2> SUFFICES ASSUME i + 1 \in 0 .. n PROVE Permutes(Sorting(s)[i + 1], s)
    OBVIOUS
  <2>1. CASE i = 0
    BY <1>2, <2>1
  <2>2. CASE i # 0
    <3>1. i + 1 \in 2 .. n /\ (i + 1) - 1 = i /\ i \in 0 .. n /\ ~ (i + 1 <= 1)
      BY <1>1, <2>2
    <3>2. Permutes(Sorting(s)[i], s)
      BY <1>4, <3>1
    <3>3. Sorting(s)[i + 1] = Inserted(Sorting(s)[i], i + 1)
      BY <1>1, <3>1
    <3> QED
      BY <3>1, <3>2, <3>3, InsertedPermutes
  <2> QED
    BY <2>1, <2>2
<1>5. n \in T
  <2> HIDE DEF T, n
  <2> QED
    BY <1>1, <1>3, <1>4, Induction
<1> QED
  BY <1>1, <1>5 DEF Reordered

\* What the scheduler's invariants need of it.
LEMMA ReorderedRows ==
  ASSUME NEW S, NEW s \in Seq(S)
  PROVE  /\ Reordered(s) \in Seq(S) /\ Len(Reordered(s)) = Len(s)
         /\ \E p : Traces(p, Reordered(s), s)
<1> DEFINE r == Reordered(s)
           V == {s[j] : j \in 1 .. Len(s)}
<1>1. r \in Seq(V) /\ Len(r) = Len(s)
  BY ReorderedPermutes DEF Permutes
<1>2. V \subseteq S
  OBVIOUS
<1>3. r \in Seq(S)
  <2> HIDE DEF r, V
  <2> QED
    BY <1>1, <1>2
<1>4. \E p : Traces(p, r, s)
  BY ReorderedPermutes DEF Permutes
<1> QED
  BY <1>1, <1>3, <1>4

------------------------------------------------------------------------------
(* The scheduler *)

\* A row's fields.
LEMMA RowFields ==
  /\ \A r \in Row : r.session \in Sessions \cup {NoSession, Wild} /\ r.deadline \in Deadlines /\ r.deadline \in Int
  /\ \A r \in Row, d \in Deadlines : [r EXCEPT !.deadline = d] \in Row /\ [r EXCEPT !.deadline = d].session = r.session
  /\ \A r \in Row, s \in Sessions : [r EXCEPT !.session = s] \in Row /\ [r EXCEPT !.session = s].session = s
  /\ BlankRow \in Row /\ BlankRow.session = NoSession
  BY SchedulerAssumption DEF Row, BlankRow

\* The rows of array a that session s is in; Rows is that of slots.
RowsOf(a, s) == {i \in DOMAIN a : a[i].session = s}

\* They can be counted.
LEMMA RowsFinite ==
  ASSUME NEW a \in Seq(Row), NEW s
  PROVE  IsFiniteSet(RowsOf(a, s)) /\ Cardinality(RowsOf(a, s)) \in Nat
<1> DEFINE n == Len(a)
<1>1. n \in Nat /\ RowsOf(a, s) \in SUBSET (1 .. n)
  BY DEF RowsOf
<1>2. IsFiniteSet(1 .. n)
  BY <1>1, FS_Interval
<1> HIDE DEF n
<1>3. IsFiniteSet(RowsOf(a, s))
  BY <1>1, <1>2, FS_Subset
<1> QED
  BY <1>3, FS_CardinalityType

\* A session that gains no row has no more of them.
LEMMA NoMoreRows ==
  ASSUME NEW a \in Seq(Row), NEW b, NEW s, RowsOf(b, s) \subseteq RowsOf(a, s)
  PROVE  Cardinality(RowsOf(b, s)) <= Cardinality(RowsOf(a, s))
<1>1. IsFiniteSet(RowsOf(a, s))
  BY RowsFinite
<1>2. RowsOf(b, s) \in SUBSET RowsOf(a, s)
  OBVIOUS
<1> QED
  BY <1>1, <1>2, FS_Subset

\* sched_start leaves an empty array.
LEMMA InitInv == Init => IInv
<1> SUFFICES ASSUME Init PROVE IInv
  OBVIOUS
<1>1. TypeOK
  <2>1. slots \in Seq(Row) /\ size \in Nat /\ Len(slots) <= size
    BY SchedulerAssumption DEF Init
  <2>2. insert.at = "idle" /\ ~ locked
    BY DEF Init, Idle, locked
  <2>3. session \in [Sessions -> {"none", "up", "closing"}] /\ given \in [Sessions -> Nat]
    BY DEF Init
  <2>4. now \in 0 .. MaxNow /\ seen \in 0 .. now /\ inserted \in 0 .. MaxInsert
    BY SchedulerAssumption DEF Init
  <2> QED
    BY <2>1, <2>2, <2>3, <2>4 DEF Init, TypeOK
<1>2. Steady
  BY SchedulerAssumption DEF Init, Steady, Idle
<1>3. ASSUME NEW s \in Sessions PROVE Cardinality(Rows(s)) <= given[s]
  <2>1. Rows(s) = {}
    BY DEF Init, Rows
  <2>2. Cardinality(Rows(s)) = 0
    BY <2>1, FS_EmptySet
  <2>3. given[s] = 0
    BY DEF Init
  <2> QED
    BY <2>2, <2>3
<1> QED
  BY <1>1, <1>2, <1>3 DEF IInv, RowsAreGiven

\* A step in which no session gains a row or a claim to one keeps the count.
LEMMA CountKept ==
  ASSUME IInv, UNCHANGED given,
         \A s \in Sessions : RowsOf(slots', s) \subseteq RowsOf(slots, s)
  PROVE  RowsAreGiven'
<1> SUFFICES ASSUME NEW s \in Sessions PROVE Cardinality(RowsOf(slots', s)) <= given[s]
  BY DEF RowsAreGiven, Rows, RowsOf
<1>1. slots \in Seq(Row) /\ given[s] \in Nat
  BY DEF IInv, TypeOK
<1>2. Cardinality(RowsOf(slots, s)) <= given[s]
  BY DEF IInv, RowsAreGiven, Rows, RowsOf
<1>3. Cardinality(RowsOf(slots', s)) <= Cardinality(RowsOf(slots, s))
  BY <1>1, NoMoreRows
<1>4. IsFiniteSet(RowsOf(slots', s)) /\ Cardinality(RowsOf(slots, s)) \in Nat
  <2>1. IsFiniteSet(RowsOf(slots, s)) /\ RowsOf(slots', s) \in SUBSET RowsOf(slots, s)
    BY <1>1, RowsFinite
  <2> QED
    BY <1>1, <2>1, RowsFinite, FS_Subset
<1>5. Cardinality(RowsOf(slots', s)) \in Nat
  BY <1>4, FS_CardinalityType
<1> QED
  BY <1>1, <1>2, <1>3, <1>4, <1>5

\* A step that leaves the sessions of the rows alone, and begins no insert.
LEMMA FrameInv ==
  ASSUME IInv,
         slots' \in Seq(Row), Len(slots') = Len(slots),
         \A i \in 1 .. Len(slots) : slots'[i].session = slots[i].session,
         insert' \in {insert, Idle},
         UNCHANGED <<size, given>>, session' \in [Sessions -> {"none", "up", "closing"}],
         run' \in BOOLEAN, sorter' \in {"sort", "sleep", "ended"},
         sender' \in {"none", "clock", "lock", "walk", "ended"},
         sender' = "lock" => slots # << >>,
         sender' = "walk" => s0' \in 1 .. Len(slots),
         now' \in 0 .. MaxNow, seen' \in 0 .. now', inserted' \in 0 .. MaxInsert, crashed' \in BOOLEAN
  PROVE  IInv'
<1>1. /\ slots \in Seq(Row) /\ DOMAIN slots = 1 .. Len(slots) /\ DOMAIN slots' = 1 .. Len(slots)
      /\ Len(slots) \in Nat
  BY DEF IInv, TypeOK
<1>2. insert' = insert \/ (insert'.at = "idle" /\ insert' \in [at : {"idle"}, pool : {NoSession}, row : {0}])
  BY DEF Idle
<1>3. TypeOK'
  <2>1. size' \in Nat /\ Len(slots') <= size' /\ given' \in [Sessions -> Nat]
    BY DEF IInv, TypeOK
  <2>2. /\ insert'.at \in {"idle", "session", "deadline"}
        /\ insert'.at # "idle" => insert'.pool \in Sessions /\ insert'.row \in 1 .. Len(slots')
    BY <1>2 DEF IInv, TypeOK
  <2>3. locked' => s0' \in 1 .. Len(slots')
    BY DEF locked
  <2> QED
    BY <2>1, <2>2, <2>3 DEF TypeOK
<1>4. Steady'
  <2>1. size' # 0 /\ insert' \in [at : {"idle", "session", "deadline"}, pool : Sessions \cup {NoSession}, row : Nat]
    BY <1>2 DEF IInv, Steady
  <2>2. sender' = "lock" => slots' # << >>
    BY <1>1
  <2> QED
    BY <2>1, <2>2 DEF Steady
<1>5. \A s \in Sessions : RowsOf(slots', s) \subseteq RowsOf(slots, s)
  BY <1>1 DEF RowsOf
<1>6. RowsAreGiven'
  BY <1>5, CountKept
<1> QED
  BY <1>3, <1>4, <1>6 DEF IInv

\* A step of the clock, a failing insert, sched_stop, the sorter's sleep and
\* delete_session.
LEMMA ControlInv ==
  ASSUME IInv, \/ Tick \/ InsertCrashes \/ sched_stop \/ ReorderAgain
               \/ \E s \in Sessions : delete_session(s)
  PROVE  IInv'
<1>1. TypeOK /\ Steady
  BY DEF IInv
<1>2. UNCHANGED <<slots, insert, size, given, sender, s0, inserted>>
  BY DEF Tick, InsertCrashes, sched_stop, ReorderAgain, delete_session
<1>3. run' \in BOOLEAN /\ crashed' \in BOOLEAN /\ sorter' \in {"sort", "sleep", "ended"}
  BY <1>1 DEF Tick, InsertCrashes, sched_stop, ReorderAgain, delete_session, TypeOK
<1>4. now' \in 0 .. MaxNow /\ seen' \in 0 .. now'
  <2>1. now \in 0 .. MaxNow /\ seen \in 0 .. now /\ MaxNow \in Nat
    BY <1>1, SchedulerAssumption DEF TypeOK
  <2>2. UNCHANGED seen /\ (UNCHANGED now \/ (now < MaxNow /\ now' = now + 1))
    BY DEF Tick, InsertCrashes, sched_stop, ReorderAgain, delete_session
  <2> QED
    BY <2>1, <2>2
<1>5. session' \in [Sessions -> {"none", "up", "closing"}]
  <2>1. session' = session \/ \E s \in Sessions : session' = [session EXCEPT ![s] = "none"]
    BY DEF Tick, InsertCrashes, sched_stop, ReorderAgain, delete_session
  <2> QED
    BY <1>1, <2>1 DEF TypeOK
<1>6. /\ slots' \in Seq(Row) /\ Len(slots') = Len(slots)
      /\ \A i \in 1 .. Len(slots) : slots'[i].session = slots[i].session
      /\ sender' \in {"none", "clock", "lock", "walk", "ended"} /\ inserted' \in 0 .. MaxInsert
      /\ sender' = "lock" => slots # << >>
      /\ sender' = "walk" => s0' \in 1 .. Len(slots)
  BY <1>1, <1>2 DEF TypeOK, Steady, locked
<1> QED
  BY <1>2, <1>3, <1>4, <1>5, <1>6, FrameInv

\* The sender's steps: they change deadlines, and no session of a row.
LEMMA SenderInv ==
  ASSUME IInv, _check_and_send_thread
  PROVE  IInv'
<1>1. TypeOK /\ Steady
  BY DEF IInv
<1>2. UNCHANGED <<insert, size, session, given, sorter, run, now, inserted>>
  BY DEF _check_and_send_thread, ReadClock, LockSlots, SendRow, SkipRow, SendCrashes, StopWalk
<1>3. seen' \in 0 .. now' /\ crashed' \in BOOLEAN
  <2>1. seen \in 0 .. now /\ 0 \in 0 .. now /\ now \in 0 .. now /\ crashed \in BOOLEAN
    BY <1>1 DEF TypeOK
  <2>2. seen' \in {seen, now, 0} /\ crashed' \in {crashed, TRUE}
    BY DEF _check_and_send_thread, ReadClock, LockSlots, SendRow, SkipRow, SendCrashes, StopWalk, NextRow, EndRound
  <2> QED
    BY <1>2, <2>1, <2>2
<1>4. /\ slots' \in Seq(Row) /\ Len(slots') = Len(slots)
      /\ \A i \in 1 .. Len(slots) : slots'[i].session = slots[i].session
  <2>1. slots \in Seq(Row) /\ 0 \in Deadlines
    BY <1>1, SchedulerAssumption DEF TypeOK
  <2>2. CASE slots' = slots
    BY <2>1, <2>2
  <2>3. CASE locked /\ slots' = [slots EXCEPT ![s0].deadline = 0]
    <3>1. s0 \in 1 .. Len(slots)
      BY <1>1, <2>3 DEF TypeOK
    <3> DEFINE r == [slots[s0] EXCEPT !.deadline = 0]
    <3>2. slots[s0] \in Row
      BY <2>1, <3>1
    <3>3. r \in Row /\ r.session = slots[s0].session
      BY <2>1, <3>2, RowFields
    <3>4. slots' = [slots EXCEPT ![s0] = r]
      BY <2>3
    <3> HIDE DEF r
    <3> QED
      BY <2>1, <3>1, <3>3, <3>4
  <2> QED
    BY <2>2, <2>3 DEF _check_and_send_thread, ReadClock, LockSlots, SendRow, SkipRow, SendCrashes, StopWalk
<1>5. sender' \in {"none", "clock", "lock", "walk", "ended"}
  BY <1>1 DEF TypeOK, _check_and_send_thread, ReadClock, LockSlots, SendRow, SkipRow, SendCrashes, StopWalk, NextRow, EndRound
<1>6. sender' = "lock" => slots # << >>
  BY <1>1
  DEF Steady, TypeOK, _check_and_send_thread, ReadClock, LockSlots, SendRow, SkipRow, SendCrashes, StopWalk, NextRow, EndRound, locked
<1>7. sender' = "walk" => s0' \in 1 .. Len(slots)
  <2>1. slots \in Seq(Row) /\ (sender = "walk" => s0 \in 1 .. Len(slots)) /\ (sender = "lock" => slots # << >>)
    BY <1>1 DEF TypeOK, Steady, locked
  <2>2. CASE ReadClock \/ StopWalk
    BY <2>2 DEF ReadClock, StopWalk, EndRound
  <2>3. CASE LockSlots
    <3>1. Len(slots) \in Nat /\ Len(slots) # 0
      BY <2>1, <2>3 DEF LockSlots
    <3> QED
      BY <2>3, <3>1 DEF LockSlots
  <2>4. CASE SendRow \/ SkipRow
    <3>1. sender = "walk" /\ NextRow
      BY <2>4 DEF SendRow, SkipRow, locked
    <3> QED
      BY <2>1, <3>1 DEF NextRow, EndRound
  <2>5. CASE SendCrashes
    BY <2>1, <2>5 DEF SendCrashes
  <2> QED
    BY <2>2, <2>3, <2>4, <2>5 DEF _check_and_send_thread
<1>8. /\ run' \in BOOLEAN /\ sorter' \in {"sort", "sleep", "ended"}
      /\ now' \in 0 .. MaxNow /\ inserted' \in 0 .. MaxInsert
      /\ session' \in [Sessions -> {"none", "up", "closing"}]
  BY <1>1, <1>2 DEF TypeOK
<1> QED
  BY <1>2, <1>3, <1>4, <1>5, <1>6, <1>7, <1>8, FrameInv

\* get_scheduler_connection hands out a row: none before it changes, and no
\* new one holds a session.
LEMMA InsertBeginsInv ==
  ASSUME IInv, NEW s \in Sessions,
         slots' \in Seq(Row), Len(slots) <= Len(slots'),
         \A i \in 1 .. Len(slots) : slots'[i] = slots[i],
         \A i \in 1 .. Len(slots') : i > Len(slots) => slots'[i].session \notin Sessions,
         NEW i \in 1 .. Len(slots'), insert' = [at |-> "session", pool |-> s, row |-> i],
         size' \in Nat, size' # 0, Len(slots') <= size',
         session' = Started(s),
         inserted < MaxInsert, inserted' = inserted + 1,
         UNCHANGED <<run, given, sorter, sender, now, seen, s0, crashed>>
  PROVE  IInv'
<1>1. TypeOK /\ Steady
  BY DEF IInv
<1>2. /\ slots \in Seq(Row) /\ DOMAIN slots = 1 .. Len(slots) /\ DOMAIN slots' = 1 .. Len(slots')
      /\ Len(slots) \in Nat /\ Len(slots') \in Nat
  BY <1>1 DEF TypeOK
<1>3. \A j \in 1 .. Len(slots') : slots'[j].session \in Sessions =>
        j \in 1 .. Len(slots) /\ slots'[j] = slots[j]
  BY <1>2
<1>4. insert'.at = "session" /\ insert'.pool = s /\ insert'.row = i
  OBVIOUS
<1>5. TypeOK'
  <2>1. session' \in [Sessions -> {"none", "up", "closing"}]
    BY <1>1 DEF TypeOK, Started
  <2>2. locked' => s0' \in 1 .. Len(slots')
    <3>1. sender = "walk" => s0 \in 1 .. Len(slots)
      BY <1>1 DEF TypeOK, locked
    <3> QED
      BY <1>2, <3>1 DEF locked
  <2>3. inserted' \in 0 .. MaxInsert
    BY <1>1, SchedulerAssumption DEF TypeOK
  <2>4. /\ run' \in BOOLEAN /\ sorter' \in {"sort", "sleep", "ended"}
        /\ sender' \in {"none", "clock", "lock", "walk", "ended"} /\ given' \in [Sessions -> Nat]
        /\ now' \in 0 .. MaxNow /\ seen' \in 0 .. now' /\ crashed' \in BOOLEAN
    BY <1>1 DEF TypeOK
  <2> QED
    BY <1>4, <2>1, <2>2, <2>3, <2>4 DEF TypeOK
<1>6. Steady'
  <2>1. insert' \in [at : {"idle", "session", "deadline"}, pool : Sessions \cup {NoSession}, row : Nat]
    BY <1>2
  <2>2. sender' = "lock" => slots' # << >>
    BY <1>1, <1>2 DEF Steady
  <2> QED
    BY <2>1, <2>2 DEF Steady
<1>7. \A x \in Sessions : RowsOf(slots', x) \subseteq RowsOf(slots, x)
  BY <1>2, <1>3 DEF RowsOf
<1>8. RowsAreGiven'
  BY <1>7, CountKept
<1> QED
  BY <1>5, <1>6, <1>8 DEF IInv

\* The search ends at a row to use again ...
LEMMA ReuseRowInv ==
  ASSUME IInv, NEW s \in Sessions, ReuseRow(s)
  PROVE  IInv'
<1>1. /\ slots \in Seq(Row) /\ DOMAIN slots = 1 .. Len(slots) /\ Len(slots) \in Nat
      /\ size \in Nat /\ Len(slots) <= size /\ size # 0
  BY DEF IInv, TypeOK, Steady
<1>2. PICK i \in DOMAIN slots : insert' = [at |-> "session", pool |-> s, row |-> i]
  BY DEF ReuseRow
<1>3. /\ UNCHANGED <<slots, size, run, given, sorter, sender, now, seen, s0, crashed>>
      /\ session' = Started(s)
      /\ inserted < MaxInsert /\ inserted' = inserted + 1
  BY DEF ReuseRow
<1>4. /\ slots' \in Seq(Row) /\ Len(slots) <= Len(slots')
      /\ \A j \in 1 .. Len(slots) : slots'[j] = slots[j]
      /\ \A j \in 1 .. Len(slots') : j > Len(slots) => slots'[j].session \notin Sessions
      /\ i \in 1 .. Len(slots')
      /\ size' \in Nat /\ size' # 0 /\ Len(slots') <= size'
  BY <1>1, <1>3
<1> QED
  BY <1>2, <1>3, <1>4, InsertBeginsInv

\* ... or the array gets one more, and its room is doubled when it is full.
LEMMA AddRowInv ==
  ASSUME IInv, NEW s \in Sessions, AddRow(s)
  PROVE  IInv'
<1>1. /\ slots \in Seq(Row) /\ Len(slots) \in Nat
      /\ size \in Nat /\ Len(slots) <= size /\ size # 0
  BY DEF IInv, TypeOK, Steady
<1>2. /\ UNCHANGED <<run, given, sorter, sender, now, seen, s0, crashed>>
      /\ session' = Started(s)
      /\ insert' = [at |-> "session", pool |-> s, row |-> Len(slots) + 1]
      /\ inserted < MaxInsert /\ inserted' = inserted + 1
      /\ size' = IF Len(slots) >= size THEN 2 * size ELSE size
  BY DEF AddRow
<1>3. \E r \in Row : r.session \notin Sessions /\ slots' = Append(slots, r)
  <2>1. CASE Len(slots) < Size
    BY <2>1, RowFields, SchedulerAssumption DEF AddRow
  <2>2. CASE ~ (Len(slots) < Size)
    <3>1. PICK d \in Deadlines : slots' = Append(slots, [session |-> Wild, deadline |-> d])
      BY <2>2 DEF AddRow
    <3>2. [session |-> Wild, deadline |-> d] \in Row
      BY DEF Row
    <3> QED
      BY <3>1, <3>2, SchedulerAssumption
  <2> QED
    BY <2>1, <2>2
<1>4. PICK r \in Row : r.session \notin Sessions /\ slots' = Append(slots, r)
  BY <1>3
<1>5. /\ slots' \in Seq(Row) /\ Len(slots') = Len(slots) + 1
      /\ \A j \in 1 .. Len(slots) : slots'[j] = slots[j]
      /\ slots'[Len(slots) + 1] = r
  BY <1>1, <1>4
<1>6. \A j \in 1 .. Len(slots') : j > Len(slots) => slots'[j].session \notin Sessions
  <2>1. \A j \in 1 .. Len(slots') : j > Len(slots) => j = Len(slots) + 1
    BY <1>1, <1>5
  <2> QED
    BY <1>4, <1>5, <2>1
<1>7. /\ Len(slots) <= Len(slots') /\ Len(slots) + 1 \in 1 .. Len(slots')
      /\ size' \in Nat /\ size' # 0 /\ Len(slots') <= size'
  BY <1>1, <1>2, <1>5
<1> QED
  BY <1>2, <1>5, <1>6, <1>7, InsertBeginsInv

\* The session is stored without the lock, in whatever row is at its place by
\* then, or is lost: it has one row more at most, and no other session has.
LEMMA StoreSessionInv ==
  ASSUME IInv, StoreSession
  PROVE  IInv'
<1> DEFINE s == insert.pool
           k == insert.row
           r == [slots[k] EXCEPT !.session = s]
<1>1. TypeOK /\ Steady /\ RowsAreGiven
  BY DEF IInv
<1>2. /\ slots \in Seq(Row) /\ DOMAIN slots = 1 .. Len(slots) /\ Len(slots) \in Nat
      /\ insert.at = "session" /\ s \in Sessions /\ k \in 1 .. Len(slots)
      /\ insert \in [at : {"idle", "session", "deadline"}, pool : Sessions \cup {NoSession}, row : Nat]
      /\ given \in [Sessions -> Nat]
  BY <1>1 DEF StoreSession, TypeOK, Steady
<1>3. /\ UNCHANGED <<size, run, session, sorter, sender, now, seen, s0, inserted, crashed>>
      /\ insert' = [insert EXCEPT !.at = "deadline"]
      /\ given' = [given EXCEPT ![s] = @ + 1]
  BY DEF StoreSession
<1>4. r \in Row /\ r.session = s
  <2>1. slots[k] \in Row
    BY <1>2
  <2> QED
    BY <1>2, <2>1, RowFields
<1>5. insert'.at = "deadline" /\ insert'.pool = s /\ insert'.row = k
  BY <1>2, <1>3
<1>6. slots' = slots \/ slots' = [slots EXCEPT ![k] = r]
  BY DEF StoreSession, StoreInRow
<1>7. insert' \in [at : {"idle", "session", "deadline"}, pool : Sessions \cup {NoSession}, row : Nat]
  BY <1>2, <1>3
<1> HIDE DEF s, k, r
<1>8. /\ slots' \in Seq(Row) /\ Len(slots') = Len(slots) /\ DOMAIN slots' = DOMAIN slots
      /\ \A j \in DOMAIN slots : slots'[j].session = slots[j].session \/ (j = k /\ slots'[j].session = s)
  <2>1. CASE slots' = slots
    BY <1>2, <2>1
  <2>2. CASE slots' = [slots EXCEPT ![k] = r]
    BY <1>2, <1>4, <2>2
  <2> QED
    BY <1>6, <2>1, <2>2
<1>9. TypeOK'
  <2>1. locked' => s0' \in 1 .. Len(slots')
    BY <1>1, <1>3, <1>8 DEF TypeOK, locked
  <2>2. given' \in [Sessions -> Nat]
    BY <1>2, <1>3
  <2> QED
    BY <1>1, <1>2, <1>3, <1>5, <1>8, <2>1, <2>2 DEF TypeOK
<1>10. Steady'
  <2>1. sender' = "lock" => slots' # << >>
    BY <1>1, <1>2, <1>3, <1>8 DEF Steady
  <2> QED
    BY <1>1, <1>3, <1>7, <2>1 DEF Steady
<1>11. RowsAreGiven'
  <2> SUFFICES ASSUME NEW x \in Sessions PROVE Cardinality(RowsOf(slots', x)) <= given'[x]
    BY DEF RowsAreGiven, Rows, RowsOf
  <2>1. Cardinality(RowsOf(slots, x)) <= given[x]
    BY <1>1 DEF RowsAreGiven, Rows, RowsOf
  <2>2. /\ IsFiniteSet(RowsOf(slots, x)) /\ Cardinality(RowsOf(slots, x)) \in Nat
        /\ Cardinality(RowsOf(slots', x)) \in Nat
    BY <1>2, <1>8, RowsFinite
  <2>3. CASE x = s
    <3> DEFINE more == RowsOf(slots, x) \cup {k}
    <3>1. RowsOf(slots', x) \in SUBSET more
      BY <1>8, <2>3 DEF RowsOf
    <3>2. IsFiniteSet(more) /\ Cardinality(more) <= Cardinality(RowsOf(slots, x)) + 1
      BY <2>2, FS_AddElement
    <3>3. Cardinality(more) \in Nat
      BY <3>2, FS_CardinalityType
    <3> HIDE DEF more
    <3>4. Cardinality(RowsOf(slots', x)) <= Cardinality(more)
      BY <3>1, <3>2, FS_Subset
    <3>5. given'[x] = given[x] + 1 /\ given[x] \in Nat
      BY <1>2, <1>3, <2>3
    <3> QED
      BY <2>1, <2>2, <3>2, <3>3, <3>4, <3>5
  <2>4. CASE x # s
    <3>1. RowsOf(slots', x) \subseteq RowsOf(slots, x)
      BY <1>8, <2>4 DEF RowsOf
    <3>2. Cardinality(RowsOf(slots', x)) <= Cardinality(RowsOf(slots, x))
      BY <1>2, <3>1, NoMoreRows
    <3>3. given'[x] = given[x] /\ given[x] \in Nat
      BY <1>2, <1>3, <2>4
    <3> QED
      BY <2>1, <2>2, <3>2, <3>3
  <2> QED
    BY <2>3, <2>4
<1> QED
  BY <1>9, <1>10, <1>11 DEF IInv

\* The deadline goes to the same place.
LEMMA StoreDeadlineInv ==
  ASSUME IInv, StoreDeadline
  PROVE  IInv'
<1> DEFINE k == insert.row
<1>1. TypeOK /\ Steady
  BY DEF IInv
<1>2. slots \in Seq(Row) /\ k \in 1 .. Len(slots) /\ Len(slots) \in Nat
  BY <1>1 DEF StoreDeadline, TypeOK
<1>3. UNCHANGED <<size, run, session, given, sorter, sender, now, seen, s0, inserted, crashed>> /\ insert' = Idle
  BY DEF StoreDeadline
<1>4. PICK d \in Deadlines : slots' = slots \/ slots' = [slots EXCEPT ![k] = [slots[k] EXCEPT !.deadline = d]]
  BY DEF StoreDeadline, StoreInRow
<1> DEFINE r == [slots[k] EXCEPT !.deadline = d]
<1>5. r \in Row /\ r.session = slots[k].session
  <2>1. slots[k] \in Row
    BY <1>2
  <2> QED
    BY <2>1, RowFields
<1>6. slots' = slots \/ slots' = [slots EXCEPT ![k] = r]
  BY <1>4
<1> HIDE DEF k, r
<1>7. /\ slots' \in Seq(Row) /\ Len(slots') = Len(slots)
      /\ \A i \in 1 .. Len(slots) : slots'[i].session = slots[i].session
  BY <1>2, <1>5, <1>6
<1>8. /\ run' \in BOOLEAN /\ sorter' \in {"sort", "sleep", "ended"}
      /\ sender' \in {"none", "clock", "lock", "walk", "ended"} /\ crashed' \in BOOLEAN
      /\ session' \in [Sessions -> {"none", "up", "closing"}]
      /\ now' \in 0 .. MaxNow /\ seen' \in 0 .. now' /\ inserted' \in 0 .. MaxInsert
      /\ sender' = "lock" => slots # << >>
      /\ sender' = "walk" => s0' \in 1 .. Len(slots)
  BY <1>1, <1>3 DEF TypeOK, Steady, locked
<1> QED
  BY <1>3, <1>7, <1>8, FrameInv

\* sched_delete clears the first row with the session, if it has one.
LEMMA DeleteRowInv ==
  ASSUME IInv, NEW s \in Sessions, sched_delete(s)
  PROVE  IInv'
<1>1. TypeOK /\ Steady /\ RowsAreGiven
  BY DEF IInv
<1>2. /\ slots \in Seq(Row) /\ DOMAIN slots = 1 .. Len(slots) /\ Len(slots) \in Nat
      /\ session \in [Sessions -> {"none", "up", "closing"}] /\ given \in [Sessions -> Nat]
  BY <1>1 DEF TypeOK
<1>3. /\ UNCHANGED <<size, run, insert, sorter, sender, now, seen, s0, inserted, crashed>>
      /\ session' = [session EXCEPT ![s] = "closing"]
      /\ given' = [given EXCEPT ![s] = IF @ = 0 THEN 0 ELSE @ - 1]
      /\ slots' = [i \in DOMAIN slots |->
                     IF slots[i].session = s /\ \A j \in 1 .. i - 1 : slots[j].session # s
                     THEN BlankRow ELSE slots[i]]
  BY DEF sched_delete
<1>4. /\ DOMAIN slots' = 1 .. Len(slots)
      /\ \A i \in 1 .. Len(slots) : slots'[i] = BlankRow \/ slots'[i] = slots[i]
  BY <1>2, <1>3
<1>5. slots' \in Seq(Row) /\ Len(slots') = Len(slots)
  <2>1. slots' = [i \in 1 .. Len(slots) |-> slots'[i]]
    BY <1>2, <1>3
  <2>2. \A i \in 1 .. Len(slots) : slots[i] \in Row
    BY <1>2
  <2>3. \A i \in 1 .. Len(slots) : slots'[i] \in Row
    BY <1>4, <2>2, RowFields
  <2> QED
    BY <1>2, <2>1, <2>3, ArrayIsSeq
<1>6. TypeOK'
  <2>1. session' \in [Sessions -> {"none", "up", "closing"}] /\ given' \in [Sessions -> Nat]
    BY <1>2, <1>3
  <2>2. locked' => s0' \in 1 .. Len(slots')
    BY <1>1, <1>3, <1>5 DEF TypeOK, locked
  <2> QED
    BY <1>1, <1>3, <1>5, <2>1, <2>2 DEF TypeOK
<1>7. Steady'
  <2>1. UNCHANGED <<size, insert, sender>>
    BY <1>3
  <2>2. sender' = "lock" => slots' # << >>
    <3>1. sender' = "lock" => slots # << >>
      BY <1>1, <2>1 DEF Steady
    <3>2. slots # << >> => Len(slots) # 0
      BY <1>2
    <3>3. Len(slots') # 0 => slots' # << >>
      OBVIOUS
    <3> QED
      BY <1>5, <3>1, <3>2, <3>3
  <2> QED
    BY <1>1, <2>1, <2>2 DEF Steady
<1>8. \A x \in Sessions : RowsOf(slots', x) \subseteq RowsOf(slots, x)
  <2>1. \A i \in 1 .. Len(slots) : slots'[i].session \in Sessions => slots'[i] = slots[i]
    BY <1>4, RowFields, SchedulerAssumption
  <2> QED
    BY <1>2, <1>4, <2>1 DEF RowsOf
<1>9. RowsAreGiven'
  <2> SUFFICES ASSUME NEW x \in Sessions PROVE Cardinality(RowsOf(slots', x)) <= given'[x]
    BY DEF RowsAreGiven, Rows, RowsOf
  <2>1. Cardinality(RowsOf(slots, x)) <= given[x]
    BY <1>1 DEF RowsAreGiven, Rows, RowsOf
  <2>2. /\ IsFiniteSet(RowsOf(slots, x)) /\ Cardinality(RowsOf(slots, x)) \in Nat
        /\ Cardinality(RowsOf(slots', x)) \in Nat
    BY <1>2, <1>5, RowsFinite
  <2>3. Cardinality(RowsOf(slots', x)) <= Cardinality(RowsOf(slots, x))
    BY <1>2, <1>8, NoMoreRows
  <2>4. CASE x # s
    <3>1. given'[x] = given[x] /\ given[x] \in Nat
      BY <1>2, <1>3, <2>4
    <3> QED
      BY <2>1, <2>2, <2>3, <3>1
  <2>5. CASE x = s
    <3>1. given[x] \in Nat /\ given'[x] = IF given[x] = 0 THEN 0 ELSE given[x] - 1
      BY <1>2, <1>3, <2>5
    <3>2. CASE RowsOf(slots, x) = {}
      <4>1. Cardinality(RowsOf(slots, x)) = 0
        BY <3>2, FS_EmptySet
      <4> QED
        BY <2>2, <2>3, <3>1, <4>1
    <3>3. CASE RowsOf(slots, x) # {}
      <4>1. RowsOf(slots, x) \subseteq Nat
        BY <1>2 DEF RowsOf
      <4>2. PICK first \in RowsOf(slots, x) : \A i \in RowsOf(slots, x) : first <= i
        BY <3>3, <4>1, LeastElement
      <4>3. first \in 1 .. Len(slots) /\ slots[first].session = s
        BY <1>2, <2>5 DEF RowsOf
      <4>4. \A j \in 1 .. first - 1 : slots[j].session # s
        <5> SUFFICES ASSUME NEW j \in 1 .. first - 1, slots[j].session = s PROVE FALSE
          OBVIOUS
        <5>1. j \in 1 .. Len(slots) /\ ~ (first <= j)
          BY <1>2, <4>3
        <5>2. j \in RowsOf(slots, x)
          BY <1>2, <2>5, <5>1 DEF RowsOf
        <5> QED
          BY <4>2, <5>1, <5>2
      <4>5. slots'[first] = BlankRow
        BY <1>2, <1>3, <4>3, <4>4
      <4>6. first \notin RowsOf(slots', x)
        BY <4>5, RowFields, SchedulerAssumption DEF RowsOf
      <4> DEFINE less == RowsOf(slots, x) \ {first}
      <4>7. RowsOf(slots', x) \in SUBSET less
        BY <1>8, <4>6
      <4>8. IsFiniteSet(less) /\ Cardinality(less) = Cardinality(RowsOf(slots, x)) - 1
        BY <2>2, <4>2, FS_RemoveElement
      <4> HIDE DEF less
      <4>9. Cardinality(RowsOf(slots', x)) <= Cardinality(less)
        BY <4>7, <4>8, FS_Subset
      <4> QED
        BY <2>1, <2>2, <3>1, <4>8, <4>9
    <3> QED
      BY <3>2, <3>3
  <2> QED
    BY <2>4, <2>5
<1> QED
  BY <1>6, <1>7, <1>9 DEF IInv

\* A round of the sorter moves rows, and neither loses nor doubles one.
LEMMA ReorderInv ==
  ASSUME IInv, Reorder
  PROVE  IInv'
<1> DEFINE n == Len(slots)
<1>1. TypeOK /\ Steady /\ RowsAreGiven
  BY DEF IInv
<1>2. slots \in Seq(Row) /\ DOMAIN slots = 1 .. n /\ n \in Nat
  BY <1>1 DEF TypeOK
<1>3. /\ UNCHANGED <<size, run, insert, session, given, sender, now, seen, s0, inserted, crashed>>
      /\ slots' = Reordered(slots) /\ sorter' = "sleep"
  BY DEF Reorder
<1>5. slots' \in Seq(Row) /\ Len(slots') = n /\ \E p : Traces(p, slots', slots)
  BY <1>2, <1>3, ReorderedRows
<1>6. PICK p \in [1 .. n -> 1 .. n] :
           /\ \A i, j \in 1 .. n : p[i] = p[j] => i = j
           /\ \A i \in 1 .. n : slots'[i] = slots[p[i]]
  BY <1>5 DEF Traces
<1>7. DOMAIN slots' = 1 .. n
  BY <1>2, <1>5
<1> HIDE DEF n
<1>8. TypeOK'
  <2>1. locked' => s0' \in 1 .. Len(slots')
    BY <1>1, <1>3, <1>5 DEF TypeOK, locked, n
  <2> QED
    BY <1>1, <1>3, <1>5, <2>1 DEF TypeOK, n
<1>9. Steady'
  <2>1. sender' = "lock" => slots' # << >>
    BY <1>1, <1>2, <1>3, <1>5 DEF Steady, n
  <2> QED
    BY <1>1, <1>3, <2>1 DEF Steady
<1>10. RowsAreGiven'
  <2> SUFFICES ASSUME NEW x \in Sessions PROVE Cardinality(RowsOf(slots', x)) <= given[x]
    BY <1>3 DEF RowsAreGiven, Rows, RowsOf
  <2>1. Cardinality(RowsOf(slots, x)) <= given[x] /\ given[x] \in Nat
    BY <1>1 DEF RowsAreGiven, Rows, RowsOf, TypeOK
  <2>2. /\ IsFiniteSet(RowsOf(slots, x)) /\ Cardinality(RowsOf(slots, x)) \in Nat
        /\ Cardinality(RowsOf(slots', x)) \in Nat
    BY <1>2, <1>5, RowsFinite
  <2> DEFINE f == [i \in RowsOf(slots', x) |-> p[i]]
  <2>3. ASSUME NEW i \in RowsOf(slots', x) PROVE i \in 1 .. n /\ p[i] \in RowsOf(slots, x)
    <3>1. i \in 1 .. n /\ slots'[i].session = x
      BY <1>7 DEF RowsOf
    <3>2. p[i] \in 1 .. n /\ slots[p[i]].session = x
      BY <1>6, <3>1
    <3> QED
      BY <1>2, <3>1, <3>2 DEF RowsOf
  <2>4. f \in [RowsOf(slots', x) -> RowsOf(slots, x)]
    BY <2>3
  <2>5. \A i, j \in RowsOf(slots', x) : f[i] = f[j] => i = j
    BY <1>6, <2>3
  <2>6. f \in Injection(RowsOf(slots', x), RowsOf(slots, x))
    BY <2>4, <2>5, Zenon DEF Injection, IsInjective
  <2> HIDE DEF f
  <2>7. Cardinality(RowsOf(slots', x)) <= Cardinality(RowsOf(slots, x))
    BY <2>2, <2>6, FS_Injection
  <2> QED
    BY <2>1, <2>2, <2>7
<1> QED
  BY <1>8, <1>9, <1>10 DEF IInv

\* Every step of the scheduler, and of those who call it, keeps the invariant.
LEMMA NextInv == IInv /\ [Next]_vars => IInv'
<1> SUFFICES ASSUME IInv, [Next]_vars PROVE IInv'
  OBVIOUS
<1>1. CASE UNCHANGED vars
  BY <1>1 DEF vars, IInv, TypeOK, Steady, RowsAreGiven, Rows, locked
<1>2. CASE \/ Tick \/ InsertCrashes \/ sched_stop \/ ReorderAgain
           \/ \E s \in Sessions : delete_session(s)
  BY <1>2, ControlInv
<1>3. CASE _check_and_send_thread
  BY <1>3, SenderInv
<1>4. CASE \E s \in Sessions : ReuseRow(s) \/ AddRow(s)
  BY <1>4, ReuseRowInv, AddRowInv
<1>5. CASE StoreSession \/ StoreDeadline
  BY <1>5, StoreSessionInv, StoreDeadlineInv
<1>6. CASE \E s \in Sessions : sched_delete(s)
  BY <1>6, DeleteRowInv
<1>7. CASE Reorder
  BY <1>7, ReorderInv
<1> QED
  BY <1>1, <1>2, <1>3, <1>4, <1>5, <1>6, <1>7 DEF Next, sched_insert, sm_delete_session, _reorder_thread

------------------------------------------------------------------------------
(* The theorems of the specification *)

\* The invariant holds in every state, for any number of sessions and inserts
\* and any size of the first allocation.
THEOREM Invariance == Spec => []IInv
BY InitInv, NextInv, PTL DEF Spec

\* The sender, which walks the rows with the mutex held, and sched_insert,
\* which stores into its row without it, are always at rows of the array, and
\* the array never holds more rows than were allocated for it.
THEOREM TypeCorrect == Spec => []TypeOK
<1>1. IInv => TypeOK
  BY DEF IInv
<1> QED
  BY <1>1, Invariance, PTL

\* A session has no more rows than sched_insert has stored it in and
\* sched_delete, which clears the first it finds, has not taken back: no
\* interleaving of the sort, which moves rows, with the stores of sched_insert
\* into the row it was given before makes a row more, for any number of
\* sessions, of inserts over sessions that are up and of deletes.
THEOREM NoRowTooMany == Spec => []RowsAreGiven
<1>1. IInv => RowsAreGiven
  BY DEF IInv
<1> QED
  BY <1>1, Invariance, PTL

==============================================================================
