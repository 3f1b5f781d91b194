--------------------------- MODULE AlgorithmProofs ---------------------------
(***************************************************************************)
(* Proofs about the program's algorithms, for every input: the sort of the *)
(* scheduler and the sort by arrival are stable sorts; __bcpy is memmove,  *)
(* __vcpy is memcpy and a little more, __vlen is strlen, for words and     *)
(* bytes of every size.                                                    *)
(*                                                                         *)
(* Induction goes over sets of naturals (LeastElement, from the            *)
(* well-foundedness of <), and a recursive function is shown to exist      *)
(* before its equation is used (Recursion, SearchDefined, SortingDefined,  *)
(* PassesDefined, PowersDefined, SumsDefined).                             *)
(***************************************************************************)
EXTENDS MCAlgorithms, WellFoundedInduction, TLAPS

------------------------------------------------------------------------------
(* Induction and recursion *)

\* Every set of naturals that is not empty has a least element.
LEMMA LeastElement ==
  ASSUME NEW T, T \subseteq Nat, T # {}
  PROVE  \E n \in T : \A m \in T : n <= m
<1> DEFINE R == OpToRel(<, Nat)
<1>1. IsWellFoundedOn(R, Nat)
  BY NatLessThanWellFounded, Zenon
<1>2. PICK n \in T : \A m \in T : ~ (<<m, n>> \in R)
  <2> HIDE DEF R
  <2> QED
    BY <1>1, WFMin
<1>3. ASSUME NEW m \in T PROVE n <= m
  <2>1. ~ (<<m, n>> \in R) /\ m \in Nat /\ n \in Nat
    BY <1>2, Zenon
  <2>2. m < n => <<m, n>> \in R
    BY <2>1, Zenon DEF OpToRel
  <2> HIDE DEF R
  <2> QED
    BY <2>1, <2>2
<1> QED
  BY <1>3

\* What holds at 0, and at m + 1 where it holds at m, holds up to n.
LEMMA Climb ==
  ASSUME NEW n \in Nat, NEW T, 0 \in T,
         \A m \in 0 .. n - 1 : m \in T => m + 1 \in T
  PROVE  \A m \in 0 .. n : m \in T
<1> DEFINE U == {m \in 0 .. n : m \notin T}
<1> SUFFICES ASSUME U # {} PROVE FALSE
  OBVIOUS
<1>1. PICK m \in U : \A k \in U : m <= k
  <2>1. U \subseteq Nat
    OBVIOUS
  <2> HIDE DEF U
  <2> QED
    BY <2>1, LeastElement
<1>2. m \in 0 .. n /\ m # 0 /\ m \notin T
  BY <1>1
<1>3. m - 1 \in 0 .. n - 1 /\ m - 1 \in 0 .. n /\ ~ (m <= m - 1) /\ (m - 1) + 1 = m
  BY <1>2
<1>4. m - 1 \in T
  BY <1>1, <1>3
<1> QED
  BY <1>2, <1>3, <1>4

\* Induction over the naturals, for a set.
LEMMA Induction ==
  ASSUME NEW T, 0 \in T, \A n \in Nat : n \in T => n + 1 \in T
  PROVE  Nat \subseteq T
<1> DEFINE U == Nat \ T
<1> SUFFICES ASSUME U # {} PROVE FALSE
  OBVIOUS
<1>1. PICK n \in U : \A m \in U : n <= m
  BY LeastElement
<1>2. n \in Nat /\ n # 0
  OBVIOUS
<1>3. n - 1 \in Nat /\ ~ (n <= n - 1) /\ (n - 1) + 1 = n
  BY <1>2
<1>4. n - 1 \in T
  BY <1>1, <1>3
<1> QED
  BY <1>1, <1>3, <1>4

\* f is a recursion over 0 .. n that begins with a and has the step g.
Unfolds(f, V, a, n, g) ==
  f \in [0 .. n -> V] /\ f[0] = a /\ \A i \in 1 .. n : f[i] = g[<<f[i - 1], i>>]

\* Such a recursion defines a function.
LEMMA Recursion ==
  ASSUME NEW V, NEW a \in V, NEW n \in Nat, NEW g \in [V \X (1 .. n) -> V]
  PROVE  \E f : Unfolds(f, V, a, n, g)
<1> DEFINE Up(f, m) == f[0] = a /\ \A i \in 1 .. m : f[i] = g[<<f[i - 1], i>>]
           T == {m \in 0 .. n : \E f \in [0 .. n -> V] : Up(f, m)}
<1>1. 0 \in T
  <2> DEFINE f == [i \in 0 .. n |-> a]
  <2>1. f \in [0 .. n -> V] /\ f[0] = a /\ 0 \in 0 .. n
    OBVIOUS
  <2>2. Up(f, 0)
    BY <2>1
  <2> HIDE DEF Up, f
  <2> QED
    BY <2>1, <2>2
<1>2. ASSUME NEW m \in 0 .. n - 1, m \in T PROVE m + 1 \in T
  <2>1. PICK f \in [0 .. n -> V] : Up(f, m)
    BY <1>2
  <2> DEFINE h == [i \in 0 .. n |-> IF i = m + 1 THEN g[<<f[m], m + 1>>] ELSE f[i]]
  <2>2. m \in Nat /\ m + 1 \in 1 .. n /\ m \in 0 .. n /\ m + 1 \in 0 .. n /\ m + 1 # 0
    BY <1>2
  <2>3. g[<<f[m], m + 1>>] \in V
    BY <2>2
  <2>4. h \in [0 .. n -> V]
    BY <2>3
  <2>5. h[0] = a
    BY <2>1, <2>2
  <2>6. ASSUME NEW i \in 1 .. m + 1 PROVE h[i] = g[<<h[i - 1], i>>]
    <3>1. i \in 0 .. n /\ i - 1 \in 0 .. n /\ i - 1 # m + 1
      BY <2>2
    <3>2. h[i - 1] = f[i - 1]
      BY <3>1
    <3>3. CASE i = m + 1
      <4>1. i - 1 = m
        BY <2>2, <3>3
      <4> QED
        BY <3>1, <3>2, <3>3, <4>1
    <3>4. CASE i # m + 1
      <4>1. i \in 1 .. m /\ h[i] = f[i]
        BY <2>2, <3>1, <3>4
      <4> HIDE DEF h
      <4> QED
        BY <2>1, <3>2, <4>1
    <3> QED
      BY <3>3, <3>4
  <2>7. Up(h, m + 1)
    BY <2>5, <2>6
  <2> HIDE DEF Up, h
  <2> QED
    BY <2>2, <2>4, <2>7
<1>3. n \in T
  <2>1. \A m \in 0 .. n : m \in T
    <3> HIDE DEF T
    <3> QED
      BY <1>1, <1>2, Climb
  <2> HIDE DEF T
  <2> QED
    BY <2>1
<1> QED
  BY <1>3 DEF Unfolds

------------------------------------------------------------------------------
(* Insertion *)

\* The array whose row j is row p[j] of s.
Arranged(s, p) == [j \in 1 .. Len(s) |-> s[p[j]]]

\* p arranges n rows with the keys K: those up to i are in order, rows with equal
\* keys as they were, and those after i are where they were.
Sorts(p, K, n, i) ==
  /\ p \in [1 .. n -> 1 .. n]
  /\ \A j, k \in 1 .. n : p[j] = p[k] => j = k
  /\ \A j \in i + 1 .. n : p[j] = j
  /\ \A j, k \in 1 .. i : j < k => /\ K[p[j]] <= K[p[k]]
                                   /\ K[p[j]] = K[p[k]] => p[j] < p[k]

\* a is s with its first i rows sorted.
Stage(a, s, K, i) == \E p : a = Arranged(s, p) /\ Sorts(p, K, Len(s), i)

\* Where row j comes from when row i is put at place q.
Shift(q, i, j) == IF j = q THEN i ELSE IF q < j /\ j <= i THEN j - 1 ELSE j

\* Place q separates the rows before i: those with no greater key than row i from
\* those with a greater one.
Splits(q, p, K, i) ==
  /\ q \in 1 .. i
  /\ \A j \in 1 .. q - 1 : K[p[j]] <= K[i]
  /\ \A j \in q .. i - 1 : K[i] < K[p[j]]

\* b is a, of n rows, with row i at place q.
Puts(b, a, n, i, q) ==
  b = [j \in 1 .. n |-> CASE j = q             -> a[i]
                          [] q < j /\ j <= i   -> a[j - 1]
                          [] OTHER             -> a[j]]

\* r is s arranged by p, in the order of the keys K, equal keys as they were.
Arranges(p, r, s, K) ==
  /\ p \in [1 .. Len(s) -> 1 .. Len(s)]
  /\ \A i, j \in 1 .. Len(s) : p[i] = p[j] => i = j
  /\ \A i \in 1 .. Len(s) : r[i] = s[p[i]]
  /\ \A i, j \in 1 .. Len(s) : i < j => /\ K[p[i]] <= K[p[j]]
                                        /\ K[p[i]] = K[p[j]] => p[i] < p[j]

\* from says where the n rows come from, ...
IsShift(from, n, i, q) == from = [j \in 1 .. n |-> Shift(q, i, j)]

\* ... each from another place, those above i from their own, the row at q from i
\* and the others in the order they had.
ShiftsRows(from, n, i, q) ==
  /\ \A j \in 1 .. n : from[j] \in 1 .. n
  /\ \A j, k \in 1 .. n : from[j] = from[k] => j = k
  /\ \A j \in 1 .. n : j > i => from[j] = j
  /\ from[q] = i
  /\ \A j, k \in 1 .. i : j < k /\ j # q /\ k # q =>
       from[j] < from[k] /\ from[j] \in 1 .. i - 1 /\ from[k] \in 1 .. i - 1
  /\ \A j \in 1 .. i : j < q => from[j] \in 1 .. q - 1
  /\ \A j \in 1 .. i : q < j => from[j] \in q .. i - 1

\* What the shift does to the places up to i, and above.
LEMMA Shifts ==
  ASSUME NEW n \in Nat, NEW i \in 1 .. n, NEW q \in 1 .. i, NEW from, IsShift(from, n, i, q)
  PROVE  ShiftsRows(from, n, i, q)
<1>1. \A j \in 1 .. n : from[j] = IF j = q THEN i ELSE IF q < j /\ j <= i THEN j - 1 ELSE j
  BY DEF IsShift, Shift
<1>2. /\ \A j \in 1 .. n : from[j] \in 1 .. n
      /\ \A j, k \in 1 .. n : from[j] = from[k] => j = k
  BY <1>1
<1>3. /\ \A j \in 1 .. n : j > i => from[j] = j
      /\ from[q] = i
  BY <1>1
<1>4. ASSUME NEW j \in 1 .. i, NEW k \in 1 .. i, j < k, j # q, k # q
      PROVE  from[j] < from[k] /\ from[j] \in 1 .. i - 1 /\ from[k] \in 1 .. i - 1
  <2>1. j \in 1 .. n /\ k \in 1 .. n
    OBVIOUS
  <2> QED
    BY <1>1, <1>4, <2>1
<1>5. ASSUME NEW j \in 1 .. i
      PROVE  (j < q => from[j] \in 1 .. q - 1) /\ (q < j => from[j] \in q .. i - 1)
  <2>1. j \in 1 .. n
    OBVIOUS
  <2> QED
    BY <1>1, <2>1
<1> QED
  BY <1>2, <1>3, <1>4, <1>5 DEF ShiftsRows

\* Putting row i at that place sorts one row more.
LEMMA Insertion ==
  ASSUME NEW n \in Nat, NEW K \in [1 .. n -> Int], NEW i \in 2 .. n, NEW p, Sorts(p, K, n, i - 1),
         NEW q, Splits(q, p, K, i)
  PROVE  Sorts([j \in 1 .. n |-> p[Shift(q, i, j)]], K, n, i)
<1> DEFINE p2 == [j \in 1 .. n |-> p[Shift(q, i, j)]]
<1>0. /\ n \in Nat /\ i \in Int /\ 2 <= i /\ i <= n /\ i \in 1 .. n
      /\ q \in 1 .. i /\ q \in 1 .. n /\ q \in Int
      /\ \A j \in 1 .. q - 1 : K[p[j]] <= K[i]
      /\ \A j \in q .. i - 1 : K[i] < K[p[j]]
  BY DEF Splits
<1>1. /\ p \in [1 .. n -> 1 .. n]
      /\ \A j, k \in 1 .. n : p[j] = p[k] => j = k
      /\ \A j \in i .. n : p[j] = j
      /\ \A j, k \in 1 .. i - 1 : j < k => /\ K[p[j]] <= K[p[k]]
                                           /\ K[p[j]] = K[p[k]] => p[j] < p[k]
  <2>1. (i - 1) + 1 = i
    BY <1>0
  <2> QED
    BY <2>1 DEF Sorts
<1>2. PICK from : IsShift(from, n, i, q)
  BY DEF IsShift
<1>3. ShiftsRows(from, n, i, q)
  BY <1>0, <1>2, Shifts
<1>3a. \A j \in 1 .. n : from[j] \in 1 .. n
  BY <1>3 DEF ShiftsRows
<1>4. \A j \in 1 .. n : p2[j] = p[from[j]]
  BY <1>2 DEF IsShift
<1>5. p2 \in [1 .. n -> 1 .. n]
  <2>1. ASSUME NEW j \in 1 .. n PROVE p2[j] \in 1 .. n
    <3>1. from[j] \in 1 .. n /\ p2[j] = p[from[j]]
      BY <1>3a, <1>4
    <3> HIDE DEF p2
    <3> QED
      BY <1>1, <3>1
  <2>2. p2 = [j \in 1 .. n |-> p2[j]]
    OBVIOUS
  <2> HIDE DEF p2
  <2> QED
    BY <2>1, <2>2
<1> HIDE DEF p2
<1>6. ASSUME NEW j \in 1 .. n, NEW k \in 1 .. n, p2[j] = p2[k] PROVE j = k
  <2>1. from[j] \in 1 .. n /\ from[k] \in 1 .. n /\ p[from[j]] = p[from[k]]
    BY <1>3a, <1>4, <1>6
  <2>2. from[j] = from[k]
    BY <1>1, <2>1
  <2> QED
    BY <1>3, <2>2 DEF ShiftsRows
<1>7. ASSUME NEW j \in i + 1 .. n PROVE p2[j] = j
  <2>1. j \in i .. n /\ j \in 1 .. n /\ j > i
    BY <1>0
  <2>2. from[j] = j
    BY <1>3, <2>1 DEF ShiftsRows
  <2>3. p[j] = j
    BY <1>1, <2>1
  <2> QED
    BY <1>4, <2>1, <2>2, <2>3
<1>8. \A j \in 1 .. i - 1 : p[j] < i
  <2> SUFFICES ASSUME NEW j \in 1 .. i - 1, ~ (p[j] < i) PROVE FALSE
    OBVIOUS
  <2>0. j \in 1 .. n
    BY <1>0
  <2>1. j \in 1 .. n /\ p[j] \in i .. n /\ p[j] \in 1 .. n
    <3>1. p[j] \in 1 .. n
      BY <1>1, <2>0
    <3> QED
      BY <1>0, <2>0, <3>1
  <2>2. p[p[j]] = p[j]
    BY <1>1, <2>1
  <2>3. p[j] = j
    BY <1>1, <2>1, <2>2
  <2> QED
    BY <1>0, <2>1, <2>3
<1>9. ASSUME NEW j \in 1 .. i, NEW k \in 1 .. i, j < k
      PROVE  K[p2[j]] <= K[p2[k]] /\ (K[p2[j]] = K[p2[k]] => p2[j] < p2[k])
  <2>1. j \in 1 .. n /\ k \in 1 .. n /\ p[i] = i
    <3>1. i \in i .. n
      BY <1>0
    <3>2. p[i] = i
      BY <1>1, <3>1
    <3> QED
      BY <1>0, <3>2
  <2>2. p2[j] = p[from[j]] /\ p2[k] = p[from[k]] /\ p2[j] \in 1 .. n /\ p2[k] \in 1 .. n
    BY <1>4, <1>5, <2>1
  <2>3. K[p2[j]] \in Int /\ K[p2[k]] \in Int /\ K[i] \in Int
    BY <1>0, <2>2
  <2>4. CASE j = q
    <3>1. from[j] = i /\ from[k] \in q .. i - 1
      BY <1>0, <1>3, <1>9, <2>4 DEF ShiftsRows
    <3>2. K[i] < K[p[from[k]]] /\ p2[j] = i
      BY <1>0, <2>1, <2>2, <3>1
    <3> QED
      BY <2>2, <2>3, <3>2
  <2>5. CASE k = q
    <3>1. from[k] = i /\ from[j] \in 1 .. q - 1 /\ from[j] \in 1 .. i - 1
      BY <1>0, <1>3, <1>9, <2>5 DEF ShiftsRows
    <3>2. K[p[from[j]]] <= K[i] /\ p[from[j]] < i /\ p2[k] = i
      BY <1>0, <1>8, <2>1, <2>2, <3>1
    <3> QED
      BY <2>2, <3>2
  <2>6. CASE j # q /\ k # q
    <3>1. from[j] < from[k] /\ from[j] \in 1 .. i - 1 /\ from[k] \in 1 .. i - 1
      BY <1>3, <1>9, <2>6 DEF ShiftsRows
    <3>2. /\ K[p[from[j]]] <= K[p[from[k]]]
          /\ K[p[from[j]]] = K[p[from[k]]] => p[from[j]] < p[from[k]]
      BY <1>1, <3>1
    <3> QED
      BY <2>2, <3>2
  <2> QED
    BY <2>4, <2>5, <2>6
<1>10. Sorts(p2, K, n, i)
  BY <1>5, <1>6, <1>7, <1>9 DEF Sorts
<1> QED
  BY <1>10 DEF p2

\* The same for the rows: b is a with row i at place q.
LEMMA NextStage ==
  ASSUME NEW s, Len(s) \in Nat, NEW K \in [1 .. Len(s) -> Int], NEW i \in 2 .. Len(s),
         NEW p, Sorts(p, K, Len(s), i - 1), NEW a, a = Arranged(s, p),
         NEW q, Splits(q, p, K, i), NEW b, Puts(b, a, Len(s), i, q)
  PROVE  Stage(b, s, K, i)
<1> DEFINE n == Len(s)
           p2 == [j \in 1 .. n |-> p[Shift(q, i, j)]]
<1>0. n \in Nat /\ i \in 1 .. n /\ q \in 1 .. i /\ q \in Int /\ i \in Int
  BY DEF Splits
<1>1. Sorts(p2, K, n, i)
  BY Insertion
<1>2. ASSUME NEW j \in 1 .. n PROVE b[j] = s[p2[j]]
  <2>1. Shift(q, i, j) \in 1 .. n
    BY <1>0 DEF Shift
  <2>2. a[Shift(q, i, j)] = s[p[Shift(q, i, j)]]
    BY <2>1 DEF Arranged
  <2>3. b[j] = CASE j = q             -> a[i]
                 [] q < j /\ j <= i   -> a[j - 1]
                 [] OTHER             -> a[j]
    BY DEF Puts
  <2>4. b[j] = a[Shift(q, i, j)]
    <3>1. CASE j = q
      BY <2>3, <3>1 DEF Shift
    <3>2. CASE q < j /\ j <= i
      <4>1. j # q
        BY <1>0, <3>2
      <4> QED
        BY <2>3, <3>2, <4>1 DEF Shift
    <3>3. CASE j # q /\ ~ (q < j /\ j <= i)
      BY <2>3, <3>3 DEF Shift
    <3> QED
      BY <3>1, <3>2, <3>3
  <2> QED
    BY <2>2, <2>4
<1>3. b = [j \in 1 .. n |-> b[j]]
  BY DEF Puts
<1> HIDE DEF p2
<1>4. b = Arranged(s, p2)
  BY <1>2, <1>3 DEF Arranged
<1> QED
  BY <1>1, <1>4 DEF Stage

\* Before the first row is moved, one row is sorted.
LEMMA FirstStage ==
  ASSUME NEW S, NEW s \in Seq(S), NEW K \in [1 .. Len(s) -> Int], NEW i \in 0 .. 1
  PROVE  Stage(s, s, K, i)
<1> DEFINE n == Len(s)
           p == [j \in 1 .. n |-> j]
<1>1. n \in Nat
  OBVIOUS
<1>2. Sorts(p, K, n, i)
  BY <1>1 DEF Sorts
<1>3. s = [j \in 1 .. n |-> s[j]] /\ \A j \in 1 .. n : p[j] = j
  OBVIOUS
<1> HIDE DEF p
<1>4. s = Arranged(s, p)
  BY <1>3 DEF Arranged
<1> QED
  BY <1>2, <1>4 DEF Stage

------------------------------------------------------------------------------
(* The sort of the scheduler *)

\* The middle of a stretch lies in it.
LEMMA Middle ==
  ASSUME NEW left \in Int, NEW right \in Int, left <= right
  PROVE  /\ (left + right) \div 2 \in Int
         /\ left <= (left + right) \div 2 /\ (left + right) \div 2 <= right
  OBVIOUS

\* The states of a binary search for row i.
Windows(i) == (1 .. i) \X (0 .. i - 1)

\* One step of the binary search, f being what the search returns.
SearchStep(f, s, i, w) ==
  IF w[1] > w[2] THEN w[1]
  ELSE IF s[(w[1] + w[2]) \div 2].deadline <= s[i].deadline
       THEN f[<<(w[1] + w[2]) \div 2 + 1, w[2]>>]
       ELSE f[<<w[1], (w[1] + w[2]) \div 2 - 1>>]

\* The search halves its window: where it goes next depends on its results for
\* smaller windows only.
LEMMA SearchNarrows ==
  ASSUME NEW s, NEW i \in Nat \ {0}, NEW w \in Windows(i), NEW g, NEW h,
         \A v \in Windows(i) : v[2] - v[1] < w[2] - w[1] => g[v] = h[v]
  PROVE  SearchStep(g, s, i, w) = SearchStep(h, s, i, w)
<1>1. w[1] \in 1 .. i /\ w[2] \in 0 .. i - 1
  BY DEF Windows
<1>2. CASE w[1] > w[2]
  BY <1>2 DEF SearchStep
<1>3. CASE w[1] <= w[2]
  <2> DEFINE mid == (w[1] + w[2]) \div 2
  <2>1. mid \in Int /\ w[1] <= mid /\ mid <= w[2]
    BY <1>1, <1>3, Middle
  <2> HIDE DEF mid
  <2>2. mid + 1 \in 1 .. i /\ mid - 1 \in 0 .. i - 1
    BY <1>1, <2>1
  <2>3. <<mid + 1, w[2]>> \in Windows(i) /\ <<w[1], mid - 1>> \in Windows(i)
    BY <1>1, <2>2 DEF Windows
  <2>4. w[2] - (mid + 1) < w[2] - w[1] /\ (mid - 1) - w[1] < w[2] - w[1]
    BY <1>1, <2>1
  <2>5. /\ g[<<mid + 1, w[2]>>] = h[<<mid + 1, w[2]>>]
        /\ g[<<w[1], mid - 1>>] = h[<<w[1], mid - 1>>]
    BY <2>3, <2>4
  <2> QED
    BY <2>5 DEF SearchStep, mid
<1> QED
  BY <1>1, <1>2, <1>3

\* The binary search ends, whatever the rows: its recursion defines a function.
LEMMA SearchDefined ==
  ASSUME NEW s, NEW i \in Nat \ {0}
  PROVE  \A w \in Windows(i) : Search(s, i)[w] = SearchStep(Search(s, i), s, i, w)
<1>0. \A w \in Windows(i) : w[1] \in Int /\ w[2] \in Int /\ w[2] - w[1] < i
  BY DEF Windows
<1> DEFINE Up(g, n) == \A w \in Windows(i) : w[2] - w[1] < n => g[w] = SearchStep(g, s, i, w)
           T == {n \in Nat : \E g : Up(g, n)}
<1>1. 0 \in T
  <2> DEFINE g == [w \in Windows(i) |-> w[1]]
  <2>1. ASSUME NEW w \in Windows(i), w[2] - w[1] < 0
        PROVE  g[w] = SearchStep(g, s, i, w)
    <3>1. w[1] > w[2]
      BY <1>0, <2>1
    <3> QED
      BY <3>1 DEF SearchStep
  <2>2. Up(g, 0)
    BY <2>1
  <2> HIDE DEF Up, g
  <2> QED
    BY <2>2
<1>2. ASSUME NEW n \in Nat, n \in T PROVE n + 1 \in T
  <2>1. PICK g : Up(g, n)
    BY <1>2
  <2> DEFINE h == [w \in Windows(i) |-> IF w[2] - w[1] = n THEN SearchStep(g, s, i, w) ELSE g[w]]
  <2>2. ASSUME NEW w \in Windows(i), w[2] - w[1] < n + 1
        PROVE  h[w] = SearchStep(h, s, i, w)
    <3>1. h[w] = SearchStep(g, s, i, w)
      <4>1. CASE w[2] - w[1] = n
        BY <4>1
      <4>2. CASE w[2] - w[1] # n
        <5>1. w[2] - w[1] < n
          BY <1>0, <2>2, <4>2
        <5> QED
          BY <2>1, <4>2, <5>1
      <4> QED
        BY <4>1, <4>2
    <3>2. \A v \in Windows(i) : v[2] - v[1] < w[2] - w[1] => g[v] = h[v]
      BY <1>0, <2>2
    <3> HIDE DEF h
    <3>3. SearchStep(g, s, i, w) = SearchStep(h, s, i, w)
      BY <3>2, SearchNarrows
    <3> QED
      BY <3>1, <3>3
  <2>3. Up(h, n + 1)
    BY <2>2
  <2> HIDE DEF Up, h
  <2> QED
    BY <2>3
<1>3. i \in T
  <2> HIDE DEF T
  <2> QED
    BY <1>1, <1>2, Induction
<1>4. PICK g : Up(g, i)
  BY <1>3
<1> DEFINE h == [w \in Windows(i) |-> g[w]]
<1>5. ASSUME NEW w \in Windows(i)
      PROVE  h[w] = SearchStep(h, s, i, w)
  <2>1. g[w] = SearchStep(g, s, i, w)
    BY <1>0, <1>4
  <2>2. \A v \in Windows(i) : v[2] - v[1] < w[2] - w[1] => g[v] = h[v]
    OBVIOUS
  <2>3. h[w] = g[w]
    OBVIOUS
  <2> HIDE DEF h
  <2> QED
    BY <2>1, <2>2, <2>3, SearchNarrows
<1>6. h = [w \in Windows(i) |-> SearchStep(h, s, i, w)]
  <2> DEFINE k == [w \in Windows(i) |-> h[w]]
  <2>1. h = k
    OBVIOUS
  <2> HIDE DEF h
  <2> QED
    BY <1>5, <2>1
<1>7. Search(s, i) = CHOOSE f : f = [w \in Windows(i) |-> SearchStep(f, s, i, w)]
  BY DEF Search, SearchStep, Windows
<1>8. Search(s, i) = [w \in Windows(i) |-> SearchStep(Search(s, i), s, i, w)]
  <2> HIDE DEF h
  <2> QED
    BY <1>6, <1>7
<1> QED
  BY <1>8

\* The rows before i have deadlines, in order.
DueInOrder(s, i) ==
  /\ i \in 1 .. Len(s)
  /\ \A j \in 1 .. Len(s) : s[j].deadline \in Int
  /\ \A j, k \in 1 .. i - 1 : j < k => s[j].deadline <= s[k].deadline

\* All rows before place p are due no later than row i, all from there on later.
DueSeparates(s, i, p) ==
  /\ p \in 1 .. i
  /\ \A j \in 1 .. p - 1 : s[j].deadline <= s[i].deadline
  /\ \A j \in p .. i - 1 : s[i].deadline < s[j].deadline

\* The binary search of _reorder_thread finds the place behind all rows that
\* are due no later, in any array whose rows before i are in order.
LEMMA DuePlace ==
  ASSUME NEW s, NEW i, DueInOrder(s, i)
  PROVE  DueSeparates(s, i, Place(s, i))
<1>0. /\ i \in Nat \ {0} /\ i \in 1 .. Len(s) /\ Len(s) \in Int
      /\ \A j \in 1 .. i : s[j].deadline \in Int
  BY DEF DueInOrder
<1> DEFINE key == s[i].deadline
           Around(w) == /\ w[1] <= w[2] + 1
                        /\ \A j \in 1 .. w[1] - 1 : s[j].deadline <= key
                        /\ \A j \in w[2] + 1 .. i - 1 : key < s[j].deadline
           T == {n \in Nat : \A w \in Windows(i) : w[2] - w[1] < n /\ Around(w) =>
                               DueSeparates(s, i, Search(s, i)[w])}
<1>1. \A w \in Windows(i) : w[1] \in 1 .. i /\ w[2] \in 0 .. i - 1 /\ w[2] - w[1] < i
  BY <1>0 DEF Windows
<1>2. ASSUME NEW w \in Windows(i), Around(w), w[2] < w[1]
      PROVE  DueSeparates(s, i, Search(s, i)[w])
  <2>1. Search(s, i)[w] = w[1]
    BY <1>0, <1>1, <1>2, SearchDefined DEF SearchStep
  <2>2. w[2] + 1 = w[1]
    BY <1>1, <1>2
  <2> QED
    BY <1>1, <1>2, <2>1, <2>2 DEF DueSeparates
<1>3. 0 \in T
  BY <1>1, <1>2
<1>4. ASSUME NEW n \in Nat, n \in T PROVE n + 1 \in T
  <2> SUFFICES ASSUME NEW w \in Windows(i), w[2] - w[1] < n + 1, Around(w)
               PROVE  DueSeparates(s, i, Search(s, i)[w])
    OBVIOUS
  <2>1. CASE w[2] < w[1]
    BY <1>2, <2>1
  <2>2. CASE w[1] <= w[2]
    <3> DEFINE mid == (w[1] + w[2]) \div 2
               v == <<mid + 1, w[2]>>
               u == <<w[1], mid - 1>>
    <3>1. mid \in Int /\ w[1] <= mid /\ mid <= w[2]
      BY <1>1, <2>2, Middle
    <3>2. Search(s, i)[w] = IF s[mid].deadline <= key THEN Search(s, i)[v] ELSE Search(s, i)[u]
      <4>1. Search(s, i)[w] = SearchStep(Search(s, i), s, i, w)
        BY <1>0, SearchDefined
      <4>2. ~ (w[1] > w[2])
        BY <1>1, <2>2
      <4> QED
        BY <4>1, <4>2, Zenon DEF SearchStep
    <3> HIDE DEF mid
    <3>3. mid \in 1 .. i - 1 /\ mid + 1 \in 1 .. i /\ mid - 1 \in 0 .. i - 1
      BY <1>0, <1>1, <3>1
    <3>4. v \in Windows(i) /\ u \in Windows(i)
      BY <1>1, <3>3 DEF Windows
    <3>5. /\ v[1] = mid + 1 /\ v[2] = w[2] /\ u[1] = w[1] /\ u[2] = mid - 1
      OBVIOUS
    <3>6. v[2] - v[1] < n /\ u[2] - u[1] < n /\ v[1] <= v[2] + 1 /\ u[1] <= u[2] + 1
      BY <1>1, <3>1, <3>5
    <3> HIDE DEF v, u
    <3>7. CASE s[mid].deadline <= key
      <4>1. \A j \in 1 .. mid : s[j].deadline <= key
        <5> SUFFICES ASSUME NEW j \in 1 .. mid PROVE s[j].deadline <= key
          OBVIOUS
        <5>1. j = mid \/ (j < mid /\ j \in 1 .. i - 1)
          BY <1>0, <3>1, <3>3
        <5>2. j < mid /\ j \in 1 .. i - 1 => s[j].deadline <= s[mid].deadline
          BY <3>3 DEF DueInOrder
        <5>3. j \in 1 .. i /\ mid \in 1 .. i /\ i \in 1 .. i
          BY <1>0, <3>3, <5>1
        <5>4. s[j].deadline \in Int /\ s[mid].deadline \in Int /\ key \in Int
          BY <1>0, <5>3
        <5> HIDE DEF key
        <5> QED
          BY <3>7, <5>1, <5>2, <5>4
      <4>2. v[1] - 1 = mid
        BY <3>1, <3>5
      <4>3. Around(v)
        BY <3>5, <3>6, <4>1, <4>2
      <4> HIDE DEF Around
      <4> QED
        BY <1>4, <3>2, <3>4, <3>6, <3>7, <4>3
    <3>8. CASE ~ (s[mid].deadline <= key)
      <4>1. \A j \in mid .. i - 1 : key < s[j].deadline
        <5> SUFFICES ASSUME NEW j \in mid .. i - 1 PROVE key < s[j].deadline
          OBVIOUS
        <5>1. j = mid \/ (mid < j /\ j \in 1 .. i - 1)
          BY <1>0, <3>1, <3>3
        <5>2. mid < j /\ j \in 1 .. i - 1 => s[mid].deadline <= s[j].deadline
          BY <3>3 DEF DueInOrder
        <5>3. j \in 1 .. i /\ mid \in 1 .. i /\ i \in 1 .. i
          BY <1>0, <3>3, <5>1
        <5>4. s[j].deadline \in Int /\ s[mid].deadline \in Int /\ key \in Int
          BY <1>0, <5>3
        <5> HIDE DEF key
        <5> QED
          BY <3>8, <5>1, <5>2, <5>4
      <4>2. u[2] + 1 = mid
        BY <3>1, <3>5
      <4>3. Around(u)
        BY <3>5, <3>6, <4>1, <4>2
      <4> HIDE DEF Around
      <4> QED
        BY <1>4, <3>2, <3>4, <3>6, <3>8, <4>3
    <3> QED
      BY <3>7, <3>8
  <2> QED
    BY <1>1, <2>1, <2>2
<1>5. i \in T
  <2> HIDE DEF T
  <2> QED
    BY <1>0, <1>3, <1>4, Induction
<1> DEFINE all == <<1, i - 1>>
<1>6. all \in Windows(i) /\ all[1] = 1 /\ all[2] = i - 1
  BY <1>0 DEF Windows
<1> HIDE DEF all
<1>7. Around(all)
  BY <1>0, <1>6
<1>8. all[2] - all[1] < i
  BY <1>0, <1>6
<1> HIDE DEF Around
<1> QED
  BY <1>5, <1>6, <1>7, <1>8 DEF Place, all

\* The deadlines of the rows.
Dues(s) == [j \in 1 .. Len(s) |-> s[j].deadline]

\* Putting row i in its place takes one stage of the sort to the next.
LEMMA InsertedStage ==
  ASSUME NEW S, NEW s \in Seq(S), \A r \in S : r.deadline \in Int,
         NEW i \in 2 .. Len(s), NEW a, Stage(a, s, Dues(s), i - 1)
  PROVE  Stage(Inserted(a, i), s, Dues(s), i)
<1> DEFINE n == Len(s)
           b == Inserted(a, i)
           q == Place(a, i)
<1>0. n \in Nat /\ i \in Int /\ 2 <= i /\ i <= n /\ i \in 1 .. n
  OBVIOUS
<1>1. PICK K \in [1 .. n -> Int] : K = Dues(s) /\ \A j \in 1 .. n : K[j] = s[j].deadline
  <2>1. \A j \in 1 .. n : s[j].deadline \in Int
    OBVIOUS
  <2>2. Dues(s) \in [1 .. n -> Int] /\ \A j \in 1 .. n : Dues(s)[j] = s[j].deadline
    BY <2>1 DEF Dues
  <2> QED
    BY <2>2
<1>2. PICK p : a = Arranged(s, p) /\ Sorts(p, K, n, i - 1)
  BY <1>1 DEF Stage
<1>3. /\ p \in [1 .. n -> 1 .. n] /\ \A j \in i .. n : p[j] = j
      /\ \A j, k \in 1 .. i - 1 : j < k => K[p[j]] <= K[p[k]]
  <2>1. (i - 1) + 1 = i
    BY <1>0
  <2> QED
    BY <1>2, <2>1 DEF Sorts
<1>4. a = [j \in 1 .. n |-> s[p[j]]] /\ Len(a) = n
  <2>1. a = [j \in 1 .. n |-> s[p[j]]]
    BY <1>2 DEF Arranged
  <2>2. ASSUME NEW j \in 1 .. n PROVE s[p[j]] \in S
    <3>1. p[j] \in 1 .. n
      BY <1>3
    <3> QED
      BY <3>1
  <2> QED
    BY <1>0, <2>1, <2>2
<1>5. \A j \in 1 .. n : a[j].deadline = K[p[j]] /\ K[p[j]] \in Int
  BY <1>1, <1>3, <1>4
<1>6. p[i] = i
  <2>1. i \in i .. n
    BY <1>0
  <2> QED
    BY <1>3, <2>1
<1>7. DueInOrder(a, i)
  <2>1. \A j \in 1 .. i - 1 : j \in 1 .. n
    BY <1>0
  <2> QED
    BY <1>0, <1>3, <1>4, <1>5, <2>1 DEF DueInOrder
<1>8. DueSeparates(a, i, q)
  BY <1>7, DuePlace
<1>9. Splits(q, p, K, i)
  <2> HIDE DEF q
  <2>1. q \in 1 .. i
    BY <1>8 DEF DueSeparates
  <2>2. (\A j \in 1 .. q - 1 : j \in 1 .. n) /\ (\A j \in q .. i - 1 : j \in 1 .. n)
    BY <1>0, <2>1
  <2>3. a[i].deadline = K[i]
    BY <1>0, <1>5, <1>6
  <2> QED
    BY <1>5, <1>8, <2>1, <2>2, <2>3 DEF DueSeparates, Splits
<1>10. Puts(b, a, n, i, q)
  BY <1>4 DEF Inserted, Puts
<1> HIDE DEF q, b
<1>11. Stage(b, s, K, i)
  BY <1>0, <1>2, <1>9, <1>10, NextStage
<1> QED
  BY <1>1, <1>11 DEF b

\* The insertion sort's recursion defines a function, too.
LEMMA SortingDefined ==
  ASSUME NEW s, Len(s) \in Nat
  PROVE  \A i \in 0 .. Len(s) :
           Sorting(s)[i] = IF i <= 1 THEN s ELSE Inserted(Sorting(s)[i - 1], i)
<1> DEFINE n == Len(s)
           Body(g, i) == IF i <= 1 THEN s ELSE Inserted(g[i - 1], i)
           T == {m \in Nat : \E g : \A i \in 0 .. m : g[i] = Body(g, i)}
<1>1. 0 \in T
  <2> DEFINE g == [i \in {0} |-> s]
  <2>1. \A i \in 0 .. 0 : g[i] = Body(g, i)
    OBVIOUS
  <2> HIDE DEF g, Body
  <2> QED
    BY <2>1
<1>2. ASSUME NEW m \in Nat, m \in T PROVE m + 1 \in T
  <2>1. PICK g : \A i \in 0 .. m : g[i] = Body(g, i)
    BY <1>2
  <2> DEFINE h == [i \in 0 .. m + 1 |-> IF i = m + 1 THEN Body(g, i) ELSE g[i]]
  <2>2. ASSUME NEW i \in 0 .. m + 1 PROVE h[i] = Body(h, i)
    <3>1. h[i] = Body(g, i)
      <4> HIDE DEF Body
      <4>1. i = m + 1 \/ (i # m + 1 /\ i \in 0 .. m)
        OBVIOUS
      <4> QED
        BY <2>1, <4>1
    <3>2. i <= 1 \/ (i - 1 \in 0 .. m + 1 /\ i - 1 # m + 1)
      OBVIOUS
    <3>3. i <= 1 \/ h[i - 1] = g[i - 1]
      <4> HIDE DEF Body
      <4> QED
        BY <3>2
    <3> HIDE DEF h
    <3> QED
      BY <3>1, <3>3
  <2> HIDE DEF Body, h
  <2> QED
    BY <2>2
<1>3. n \in T
  <2> HIDE DEF T
  <2> QED
    BY <1>1, <1>2, Induction
<1>4. PICK g : \A i \in 0 .. n : g[i] = Body(g, i)
  BY <1>3
<1> DEFINE h == [i \in 0 .. n |-> g[i]]
<1>5. ASSUME NEW i \in 0 .. n PROVE h[i] = Body(h, i)
  <2>1. h[i] = Body(g, i)
    BY <1>4
  <2>2. i <= 1 \/ i - 1 \in 0 .. n
    OBVIOUS
  <2>3. i <= 1 \/ h[i - 1] = g[i - 1]
    BY <2>2
  <2> HIDE DEF h
  <2> QED
    BY <2>1, <2>3
<1>6. h = [i \in 0 .. n |-> h[i]]
  OBVIOUS
<1> HIDE DEF h
<1>7. h = [i \in 0 .. n |-> Body(h, i)]
  <2> HIDE DEF Body
  <2> QED
    BY <1>5, <1>6
<1>8. Sorting(s) = CHOOSE f : f = [i \in 0 .. n |-> Body(f, i)]
  BY DEF Sorting
<1>9. Sorting(s) = [i \in 0 .. n |-> Body(Sorting(s), i)]
  <2> HIDE DEF Body
  <2> QED
    BY <1>7, <1>8
<1> QED
  BY <1>9

\* Row by row the sort reaches the stage where all rows are sorted.
LEMMA ReorderedStage ==
  ASSUME NEW S, NEW s \in Seq(S), \A r \in S : r.deadline \in Int
  PROVE  Stage(Reordered(s), s, Dues(s), Len(s))
<1> DEFINE n == Len(s)
           T == {i \in 0 .. n : Stage(Sorting(s)[i], s, Dues(s), i)}
<1>1. n \in Nat /\ \A i \in 0 .. n : Sorting(s)[i] = IF i <= 1 THEN s ELSE Inserted(Sorting(s)[i - 1], i)
  BY SortingDefined
<1>2. ASSUME NEW i \in 0 .. 1, i \in 0 .. n PROVE Stage(Sorting(s)[i], s, Dues(s), i)
  <2>1. Sorting(s)[i] = s
    BY <1>1, <1>2
  <2>2. PICK K \in [1 .. n -> Int] : K = Dues(s)
    <3>1. \A j \in 1 .. n : s[j].deadline \in Int
      OBVIOUS
    <3> QED
      BY <3>1 DEF Dues
  <2>3. Stage(s, s, K, i)
    BY FirstStage
  <2> QED
    BY <2>1, <2>2, <2>3
<1>3. 0 \in T
  BY <1>1, <1>2
<1>4. ASSUME NEW i \in 0 .. n - 1, i \in T PROVE i + 1 \in T
  <2>0. i + 1 \in 0 .. n
    BY <1>1
  <2>1. CASE i = 0
    BY <1>2, <2>0, <2>1
  <2>2. CASE i # 0
    <3>1. i + 1 \in 2 .. n /\ (i + 1) - 1 = i /\ ~ (i + 1 <= 1)
      BY <1>1, <2>2
    <3>2. Stage(Sorting(s)[i], s, Dues(s), i)
      BY <1>4
    <3>3. Sorting(s)[i + 1] = Inserted(Sorting(s)[i], i + 1)
      BY <1>1, <2>0, <3>1
    <3>4. Stage(Inserted(Sorting(s)[i], i + 1), s, Dues(s), i + 1)
      BY <3>1, <3>2, InsertedStage
    <3> QED
      BY <2>0, <3>3, <3>4
  <2> QED
    BY <2>1, <2>2
<1>5. n \in T
  <2>1. n \in 0 .. n
    BY <1>1
  <2> HIDE DEF T, n
  <2> QED
    BY <1>1, <1>3, <1>4, <2>1, Climb
<1> QED
  BY <1>5 DEF Reordered

\* So it returns an arrangement of its rows.
LEMMA ReorderedArranges ==
  ASSUME NEW S, NEW s \in Seq(S), \A r \in S : r.deadline \in Int
  PROVE  /\ Reordered(s) \in Seq(S) /\ Len(Reordered(s)) = Len(s)
         /\ \E p : /\ Arranges(p, Reordered(s), s, Dues(s))
                   /\ \A i \in 1 .. Len(s) : Dues(s)[p[i]] = s[p[i]].deadline
<1> DEFINE n == Len(s)
<1>1. PICK r : r = Reordered(s)
  OBVIOUS
<1>2. PICK p : r = Arranged(s, p) /\ Sorts(p, Dues(s), n, n)
  BY <1>1, ReorderedStage DEF Stage
<1>3. /\ p \in [1 .. n -> 1 .. n]
      /\ \A i, j \in 1 .. n : p[i] = p[j] => i = j
      /\ \A i, j \in 1 .. n : i < j =>
           /\ Dues(s)[p[i]] <= Dues(s)[p[j]]
           /\ Dues(s)[p[i]] = Dues(s)[p[j]] => p[i] < p[j]
  BY <1>2 DEF Sorts
<1>4. \A i \in 1 .. n : Dues(s)[p[i]] = s[p[i]].deadline
  BY <1>3 DEF Dues
<1>5. r = [j \in 1 .. n |-> s[p[j]]]
  BY <1>2 DEF Arranged
<1>6. r \in Seq(S) /\ Len(r) = n
  <2>1. ASSUME NEW j \in 1 .. n PROVE s[p[j]] \in S
    <3>1. p[j] \in 1 .. n
      BY <1>3
    <3> QED
      BY <3>1
  <2>2. n \in Nat
    OBVIOUS
  <2> HIDE DEF n
  <2> QED
    BY <1>5, <2>1, <2>2
<1>7. \A i \in 1 .. n : r[i] = s[p[i]]
  BY <1>5
<1>8. Arranges(p, r, s, Dues(s))
  BY <1>3, <1>7 DEF Arranges
<1> QED
  BY <1>1, <1>4, <1>6, <1>8

\* The sort of _reorder_thread returns the rows it was given, each once, by
\* deadline and rows with the same deadline in the order they had, whatever the
\* number of rows.
THEOREM SortIsStable ==
  ASSUME NEW S, NEW s \in Seq(S), \A r \in S : r.deadline \in Int
  PROVE  StableSortOf(Reordered(s), s)
<1>1. PICK r : r = Reordered(s)
  OBVIOUS
<1>2. Len(r) = Len(s)
  BY <1>1, ReorderedArranges
<1>3. PICK p : Arranges(p, r, s, Dues(s)) /\ \A i \in 1 .. Len(s) : Dues(s)[p[i]] = s[p[i]].deadline
  BY <1>1, ReorderedArranges
<1>4. ASSUME NEW i \in 1 .. Len(s), NEW j \in 1 .. Len(s), i < j
      PROVE  r[i].deadline <= r[j].deadline /\ (r[i].deadline = r[j].deadline => p[i] < p[j])
  <2>1. Dues(s)[p[i]] = r[i].deadline /\ Dues(s)[p[j]] = r[j].deadline
    BY <1>3 DEF Arranges
  <2> QED
    BY <1>3, <1>4, <2>1 DEF Arranges
<1>5. /\ p \in [1 .. Len(s) -> 1 .. Len(s)]
      /\ \A i, j \in 1 .. Len(s) : p[i] = p[j] => i = j
      /\ \A i \in 1 .. Len(s) : r[i] = s[p[i]]
  BY <1>3 DEF Arranges
<1> QED
  BY <1>1, <1>2, <1>4, <1>5 DEF StableSortOf, SortedByDeadline

------------------------------------------------------------------------------
(* The sort by arrival *)

\* The place sort_pool_by_arrival_inline finds for node i, going down from it.
At(p, i) ==
  LET place[j \in 1 .. i] ==
        IF j > 1 /\ p[j - 1].id > p[i].id THEN place[j - 1] ELSE j
  IN  place[i]

\* f satisfies the recursion in At.
GoesDown(f, p, i) == f = [j \in 1 .. i |-> IF j > 1 /\ p[j - 1].id > p[i].id THEN f[j - 1] ELSE j]

\* The nodes before i have arrival times, in order.
CameInOrder(s, i) ==
  /\ i \in 1 .. Len(s)
  /\ \A j \in 1 .. Len(s) : s[j].id \in Int
  /\ \A j, k \in 1 .. i - 1 : j < k => s[j].id <= s[k].id

\* The nodes before place p arrived no later than node i, those from there on
\* later.
CameSeparates(s, i, p) ==
  /\ p \in 1 .. i
  /\ \A j \in 1 .. p - 1 : s[j].id <= s[i].id
  /\ \A j \in p .. i - 1 : s[i].id < s[j].id

\* The place is behind all nodes that arrived no later, in any pool whose nodes
\* before i are in order.
LEMMA ArrivalPlace ==
  ASSUME NEW s, NEW i, CameInOrder(s, i)
  PROVE  CameSeparates(s, i, At(s, i))
<1>0. /\ i \in Nat \ {0} /\ i \in 1 .. i /\ Len(s) \in Int
      /\ \A j \in 1 .. i : s[j].id \in Int
  BY DEF CameInOrder
<1> DEFINE key == s[i].id
           V == 1 .. i
           g == [w \in V \X (1 .. i) |-> IF w[2] > 1 /\ s[w[2] - 1].id > key THEN w[1] ELSE w[2]]
           c == CHOOSE f : GoesDown(f, s, i)
<1>1. PICK f : /\ f \in [0 .. i -> V]
               /\ \A j \in 1 .. i : f[j] = IF j > 1 /\ s[j - 1].id > key THEN f[j - 1] ELSE j
  <2>1. g \in [V \X (1 .. i) -> V]
    OBVIOUS
  <2>2. \A x \in V, j \in 1 .. i : g[<<x, j>>] = IF j > 1 /\ s[j - 1].id > key THEN x ELSE j
    OBVIOUS
  <2>3. 1 \in V /\ i \in Nat
    BY <1>0
  <2> HIDE DEF g, V
  <2>4. PICK f : Unfolds(f, V, 1, i, g)
    BY <2>1, <2>3, Recursion
  <2>5. ASSUME NEW j \in 1 .. i PROVE f[j - 1] \in V
    <3>1. j - 1 \in 0 .. i
      BY <1>0
    <3> QED
      BY <2>4, <3>1 DEF Unfolds
  <2> HIDE DEF key
  <2>6. f \in [0 .. i -> V] /\ \A j \in 1 .. i : f[j] = g[<<f[j - 1], j>>]
    BY <2>4 DEF Unfolds
  <2>7. ASSUME NEW j \in 1 .. i PROVE f[j] = IF j > 1 /\ s[j - 1].id > key THEN f[j - 1] ELSE j
    BY <2>2, <2>5, <2>6
  <2> QED
    BY <2>6, <2>7
<1>2. GoesDown(c, s, i)
  <2> DEFINE h == [j \in 1 .. i |-> f[j]]
  <2>1. ASSUME NEW j \in 1 .. i
        PROVE  h[j] = IF j > 1 /\ s[j - 1].id > key THEN h[j - 1] ELSE j
    <3>1. j > 1 => h[j - 1] = f[j - 1]
      <4>1. j > 1 => j - 1 \in 1 .. i
        BY <1>0
      <4> QED
        BY <4>1
    <3>2. h[j] = f[j]
      OBVIOUS
    <3> HIDE DEF h, key
    <3> QED
      BY <1>1, <3>1, <3>2
  <2>2. h = [j \in 1 .. i |-> h[j]]
    OBVIOUS
  <2> HIDE DEF h
  <2>3. GoesDown(h, s, i)
    BY <2>1, <2>2 DEF GoesDown
  <2> QED
    BY <2>3
<1>3. At(s, i) = c[i]
  BY DEF At, GoesDown
<1> HIDE DEF c
<1>4. \A j \in 1 .. i : c[j] = IF j > 1 /\ s[j - 1].id > key THEN c[j - 1] ELSE j
  BY <1>2 DEF GoesDown
<1> DEFINE T == {j \in 0 .. i - 1 : /\ c[j + 1] \in 1 .. j + 1
                                    /\ \A m \in c[j + 1] .. j : key < s[m].id
                                    /\ c[j + 1] > 1 => s[c[j + 1] - 1].id <= key}
<1>5. 0 \in T
  BY <1>0, <1>4
<1>6. ASSUME NEW j \in 0 .. (i - 1) - 1, j \in T PROVE j + 1 \in T
  <2>1. j + 1 \in 1 .. i /\ j + 2 \in 1 .. i /\ (j + 2) - 1 = j + 1 /\ j + 2 > 1 /\ (j + 1) + 1 = j + 2 /\ j + 1 \in 0 .. i - 1
    BY <1>0
  <2>2. c[j + 2] = IF s[j + 1].id > key THEN c[j + 1] ELSE j + 2
    BY <1>4, <2>1
  <2>3. s[j + 1].id \in Int /\ key \in Int
    BY <1>0, <2>1
  <2> HIDE DEF key
  <2>4. CASE s[j + 1].id > key
    <3>1. c[j + 2] = c[j + 1] /\ c[j + 1] \in 1 .. j + 1
      BY <1>6, <2>2, <2>4
    <3>2. ASSUME NEW m \in c[j + 2] .. j + 1 PROVE key < s[m].id
      <4>1. m = j + 1 \/ m \in c[j + 1] .. j
        BY <2>1, <3>1
      <4> QED
        BY <1>6, <2>3, <2>4, <4>1
    <3>3. c[j + 2] \in 1 .. j + 2
      BY <2>1, <3>1
    <3> QED
      BY <1>6, <2>1, <3>1, <3>2, <3>3
  <2>5. CASE ~ (s[j + 1].id > key)
    <3>1. c[j + 2] = j + 2 /\ (j + 2) - 1 = j + 1 /\ s[j + 1].id <= key
      BY <2>1, <2>2, <2>3, <2>5
    <3>2. c[j + 2] \in 1 .. j + 2 /\ \A m \in c[j + 2] .. j + 1 : FALSE
      BY <2>1, <3>1
    <3> QED
      BY <2>1, <3>1, <3>2
  <2> QED
    BY <2>4, <2>5
<1>7. i - 1 \in T
  <2>1. i - 1 \in Nat /\ i - 1 \in 0 .. i - 1
    BY <1>0
  <2> HIDE DEF T
  <2> QED
    BY <1>5, <1>6, <2>1, Climb
<1> DEFINE q == c[i]
<1>8. q \in 1 .. i /\ (\A m \in q .. i - 1 : key < s[m].id) /\ (q > 1 => s[q - 1].id <= key)
  <2>1. (i - 1) + 1 = i
    BY <1>0
  <2> QED
    BY <1>7, <2>1
<1> HIDE DEF q
<1>9. ASSUME NEW j \in 1 .. q - 1 PROVE s[j].id <= key
  <2>1. /\ j \in 1 .. i - 1 /\ q - 1 \in 1 .. i - 1 /\ q > 1 /\ j \in 1 .. i /\ q - 1 \in 1 .. i
        /\ j = q - 1 \/ j < q - 1
    BY <1>0, <1>8
  <2>2. j = q - 1 \/ s[j].id <= s[q - 1].id
    BY <2>1 DEF CameInOrder
  <2>3. s[j].id \in Int /\ s[q - 1].id \in Int /\ key \in Int
    BY <1>0, <2>1
  <2> HIDE DEF key
  <2> QED
    BY <1>8, <2>1, <2>2, <2>3
<1> QED
  BY <1>3, <1>8, <1>9 DEF CameSeparates, q

\* The arrival times of the rows.
Arrivals(s) == [j \in 1 .. Len(s) |-> s[j].id]

\* Putting row i in its place takes one stage of the sort to the next.
LEMMA ShiftedInStage ==
  ASSUME NEW S, NEW s \in Seq(S), \A r \in S : r.id \in Int,
         NEW i \in 2 .. Len(s), NEW a, Stage(a, s, Arrivals(s), i - 1)
  PROVE  Stage(ShiftedIn(a, i), s, Arrivals(s), i)
<1> DEFINE n == Len(s)
           b == ShiftedIn(a, i)
           q == At(a, i)
<1>0. n \in Nat /\ i \in Int /\ 2 <= i /\ i <= n /\ i \in 1 .. n
  OBVIOUS
<1>1. PICK K \in [1 .. n -> Int] : K = Arrivals(s) /\ \A j \in 1 .. n : K[j] = s[j].id
  <2>1. \A j \in 1 .. n : s[j].id \in Int
    OBVIOUS
  <2>2. Arrivals(s) \in [1 .. n -> Int] /\ \A j \in 1 .. n : Arrivals(s)[j] = s[j].id
    BY <2>1 DEF Arrivals
  <2> QED
    BY <2>2
<1>2. PICK p : a = Arranged(s, p) /\ Sorts(p, K, n, i - 1)
  BY <1>1 DEF Stage
<1>3. /\ p \in [1 .. n -> 1 .. n] /\ \A j \in i .. n : p[j] = j
      /\ \A j, k \in 1 .. i - 1 : j < k => K[p[j]] <= K[p[k]]
  <2>1. (i - 1) + 1 = i
    BY <1>0
  <2> QED
    BY <1>2, <2>1 DEF Sorts
<1>4. a = [j \in 1 .. n |-> s[p[j]]] /\ Len(a) = n
  <2>1. a = [j \in 1 .. n |-> s[p[j]]]
    BY <1>2 DEF Arranged
  <2>2. ASSUME NEW j \in 1 .. n PROVE s[p[j]] \in S
    <3>1. p[j] \in 1 .. n
      BY <1>3
    <3> QED
      BY <3>1
  <2> QED
    BY <1>0, <2>1, <2>2
<1>5. \A j \in 1 .. n : a[j].id = K[p[j]] /\ K[p[j]] \in Int
  BY <1>1, <1>3, <1>4
<1>6. p[i] = i
  <2>1. i \in i .. n
    BY <1>0
  <2> QED
    BY <1>3, <2>1
<1>7. CameInOrder(a, i)
  <2>1. \A j \in 1 .. i - 1 : j \in 1 .. n
    BY <1>0
  <2> QED
    BY <1>0, <1>3, <1>4, <1>5, <2>1 DEF CameInOrder
<1>8. CameSeparates(a, i, q)
  BY <1>7, ArrivalPlace
<1>9. Splits(q, p, K, i)
  <2> HIDE DEF q
  <2>1. q \in 1 .. i
    BY <1>8 DEF CameSeparates
  <2>2. (\A j \in 1 .. q - 1 : j \in 1 .. n) /\ (\A j \in q .. i - 1 : j \in 1 .. n)
    BY <1>0, <2>1
  <2>3. a[i].id = K[i]
    BY <1>0, <1>5, <1>6
  <2> QED
    BY <1>5, <1>8, <2>1, <2>2, <2>3 DEF CameSeparates, Splits
<1>10. Puts(b, a, n, i, q)
  BY <1>4 DEF ShiftedIn, At, Puts
<1> HIDE DEF q, b
<1>11. Stage(b, s, K, i)
  BY <1>0, <1>2, <1>9, <1>10, NextStage
<1> QED
  BY <1>1, <1>11 DEF b

\* The pool when its nodes up to each i are in order.
Passes(s) ==
  LET sorted[i \in 0 .. Len(s)] == IF i <= 1 THEN s ELSE ShiftedIn(sorted[i - 1], i)
  IN  sorted

\* The insertion sort's recursion defines a function, too.
LEMMA PassesDefined ==
  ASSUME NEW s, Len(s) \in Nat
  PROVE  \A i \in 0 .. Len(s) :
           Passes(s)[i] = IF i <= 1 THEN s ELSE ShiftedIn(Passes(s)[i - 1], i)
<1> DEFINE n == Len(s)
           Body(g, i) == IF i <= 1 THEN s ELSE ShiftedIn(g[i - 1], i)
           T == {m \in Nat : \E g : \A i \in 0 .. m : g[i] = Body(g, i)}
<1>1. 0 \in T
  <2> DEFINE g == [i \in {0} |-> s]
  <2>1. \A i \in 0 .. 0 : g[i] = Body(g, i)
    OBVIOUS
  <2> HIDE DEF g, Body
  <2> QED
    BY <2>1
<1>2. ASSUME NEW m \in Nat, m \in T PROVE m + 1 \in T
  <2>1. PICK g : \A i \in 0 .. m : g[i] = Body(g, i)
    BY <1>2
  <2> DEFINE h == [i \in 0 .. m + 1 |-> IF i = m + 1 THEN Body(g, i) ELSE g[i]]
  <2>2. ASSUME NEW i \in 0 .. m + 1 PROVE h[i] = Body(h, i)
    <3>1. h[i] = Body(g, i)
      <4> HIDE DEF Body
      <4>1. i = m + 1 \/ (i # m + 1 /\ i \in 0 .. m)
        OBVIOUS
      <4> QED
        BY <2>1, <4>1
    <3>2. i <= 1 \/ (i - 1 \in 0 .. m + 1 /\ i - 1 # m + 1)
      OBVIOUS
    <3>3. i <= 1 \/ h[i - 1] = g[i - 1]
      <4> HIDE DEF Body
      <4> QED
        BY <3>2
    <3> HIDE DEF h
    <3> QED
      BY <3>1, <3>3
  <2> HIDE DEF Body, h
  <2> QED
    BY <2>2
<1>3. n \in T
  <2>1. n \in Nat /\ n \in 0 .. n /\ \A m \in 0 .. n - 1 : m \in Nat
    OBVIOUS
  <2> HIDE DEF T, n
  <2>2. \A m \in 0 .. n - 1 : m \in T => m + 1 \in T
    BY <1>2, <2>1
  <2>3. \A m \in 0 .. n : m \in T
    BY <1>1, <2>1, <2>2, Climb
  <2> QED
    BY <2>1, <2>3
<1>4. PICK g : \A i \in 0 .. n : g[i] = Body(g, i)
  BY <1>3
<1> DEFINE h == [i \in 0 .. n |-> g[i]]
<1>5. ASSUME NEW i \in 0 .. n PROVE h[i] = Body(h, i)
  <2>1. h[i] = Body(g, i)
    BY <1>4
  <2>2. i <= 1 \/ i - 1 \in 0 .. n
    OBVIOUS
  <2>3. i <= 1 \/ h[i - 1] = g[i - 1]
    BY <2>2
  <2> HIDE DEF h
  <2> QED
    BY <2>1, <2>3
<1>6. h = [i \in 0 .. n |-> h[i]]
  OBVIOUS
<1> HIDE DEF h
<1>7. h = [i \in 0 .. n |-> Body(h, i)]
  <2> HIDE DEF Body
  <2> QED
    BY <1>5, <1>6
<1>8. Passes(s) = CHOOSE f : f = [i \in 0 .. n |-> Body(f, i)]
  BY DEF Passes
<1>9. Passes(s) = [i \in 0 .. n |-> Body(Passes(s), i)]
  <2> HIDE DEF Body
  <2> QED
    BY <1>7, <1>8
<1> QED
  BY <1>9

\* Row by row the sort reaches the stage where all rows are sorted.
LEMMA SortedByArrivalStage ==
  ASSUME NEW S, NEW s \in Seq(S), \A r \in S : r.id \in Int
  PROVE  Stage(SortedByArrival(s), s, Arrivals(s), Len(s))
<1> DEFINE n == Len(s)
           T == {i \in 0 .. n : Stage(Passes(s)[i], s, Arrivals(s), i)}
<1>1. n \in Nat /\ \A i \in 0 .. n : Passes(s)[i] = IF i <= 1 THEN s ELSE ShiftedIn(Passes(s)[i - 1], i)
  BY PassesDefined
<1>2. ASSUME NEW i \in 0 .. 1, i \in 0 .. n PROVE Stage(Passes(s)[i], s, Arrivals(s), i)
  <2>1. Passes(s)[i] = s
    BY <1>1, <1>2
  <2>2. PICK K \in [1 .. n -> Int] : K = Arrivals(s)
    <3>1. \A j \in 1 .. n : s[j].id \in Int
      OBVIOUS
    <3> QED
      BY <3>1 DEF Arrivals
  <2>3. Stage(s, s, K, i)
    BY FirstStage
  <2> QED
    BY <2>1, <2>2, <2>3
<1>3. 0 \in T
  BY <1>1, <1>2
<1>4. ASSUME NEW i \in 0 .. n - 1, i \in T PROVE i + 1 \in T
  <2>0. i + 1 \in 0 .. n
    BY <1>1
  <2>1. CASE i = 0
    BY <1>2, <2>0, <2>1
  <2>2. CASE i # 0
    <3>1. i + 1 \in 2 .. n /\ (i + 1) - 1 = i /\ ~ (i + 1 <= 1)
      BY <1>1, <2>2
    <3>2. Stage(Passes(s)[i], s, Arrivals(s), i)
      BY <1>4
    <3>3. Passes(s)[i + 1] = ShiftedIn(Passes(s)[i], i + 1)
      BY <1>1, <2>0, <3>1
    <3>4. Stage(ShiftedIn(Passes(s)[i], i + 1), s, Arrivals(s), i + 1)
      BY <3>1, <3>2, ShiftedInStage
    <3> QED
      BY <2>0, <3>3, <3>4
  <2> QED
    BY <2>1, <2>2
<1>5. n \in T
  <2>1. n \in 0 .. n
    BY <1>1
  <2> HIDE DEF T, n
  <2> QED
    BY <1>1, <1>3, <1>4, <2>1, Climb
<1> QED
  BY <1>5 DEF SortedByArrival, Passes

\* So it returns an arrangement of its rows.
LEMMA SortedByArrivalArranges ==
  ASSUME NEW S, NEW s \in Seq(S), \A r \in S : r.id \in Int
  PROVE  /\ SortedByArrival(s) \in Seq(S) /\ Len(SortedByArrival(s)) = Len(s)
         /\ \E p : /\ Arranges(p, SortedByArrival(s), s, Arrivals(s))
                   /\ \A i \in 1 .. Len(s) : Arrivals(s)[p[i]] = s[p[i]].id
<1> DEFINE n == Len(s)
<1>1. PICK r : r = SortedByArrival(s)
  OBVIOUS
<1>2. PICK p : r = Arranged(s, p) /\ Sorts(p, Arrivals(s), n, n)
  BY <1>1, SortedByArrivalStage DEF Stage
<1>3. /\ p \in [1 .. n -> 1 .. n]
      /\ \A i, j \in 1 .. n : p[i] = p[j] => i = j
      /\ \A i, j \in 1 .. n : i < j =>
           /\ Arrivals(s)[p[i]] <= Arrivals(s)[p[j]]
           /\ Arrivals(s)[p[i]] = Arrivals(s)[p[j]] => p[i] < p[j]
  BY <1>2 DEF Sorts
<1>4. \A i \in 1 .. n : Arrivals(s)[p[i]] = s[p[i]].id
  BY <1>3 DEF Arrivals
<1>5. r = [j \in 1 .. n |-> s[p[j]]]
  BY <1>2 DEF Arranged
<1>6. r \in Seq(S) /\ Len(r) = n
  <2>1. ASSUME NEW j \in 1 .. n PROVE s[p[j]] \in S
    <3>1. p[j] \in 1 .. n
      BY <1>3
    <3> QED
      BY <3>1
  <2>2. n \in Nat
    OBVIOUS
  <2> HIDE DEF n
  <2> QED
    BY <1>5, <2>1, <2>2
<1>7. \A i \in 1 .. n : r[i] = s[p[i]]
  BY <1>5
<1>8. Arranges(p, r, s, Arrivals(s))
  BY <1>3, <1>7 DEF Arranges
<1> QED
  BY <1>1, <1>4, <1>6, <1>8

\* sort_pool_by_arrival_inline returns the nodes it was given, each once, by
\* arrival and nodes that arrived together in the order they had, however many
\* there are.
THEOREM ArrivalSortIsStable ==
  ASSUME NEW S, NEW s \in Seq(S), \A r \in S : r.id \in Int
  PROVE  StableByArrival(SortedByArrival(s), s)
<1>1. PICK r : r = SortedByArrival(s)
  OBVIOUS
<1>2. Len(r) = Len(s)
  BY <1>1, SortedByArrivalArranges
<1>3. PICK p : Arranges(p, r, s, Arrivals(s)) /\ \A i \in 1 .. Len(s) : Arrivals(s)[p[i]] = s[p[i]].id
  BY <1>1, SortedByArrivalArranges
<1>4. ASSUME NEW i \in 1 .. Len(s), NEW j \in 1 .. Len(s), i < j
      PROVE  r[i].id <= r[j].id /\ (r[i].id = r[j].id => p[i] < p[j])
  <2>1. Arrivals(s)[p[i]] = r[i].id /\ Arrivals(s)[p[j]] = r[j].id
    BY <1>3 DEF Arranges
  <2> QED
    BY <1>3, <1>4, <2>1 DEF Arranges
<1>5. /\ p \in [1 .. Len(s) -> 1 .. Len(s)]
      /\ \A i, j \in 1 .. Len(s) : p[i] = p[j] => i = j
      /\ \A i \in 1 .. Len(s) : r[i] = s[p[i]]
  BY <1>3 DEF Arranges
<1> QED
  BY <1>1, <1>2, <1>4, <1>5 DEF StableByArrival

------------------------------------------------------------------------------
(* The sorts of the runs *)

\* A row of the runs, and their arrays.
Row == [session : Int, deadline : Int]
Rows == Seq(Row)

\* What the sort by arrival returns for the rows as nodes is what the sort by
\* deadline must return for them.
LEMMA ArrivalSortsRows ==
  ASSUME NEW s \in Rows
  PROVE  StableSortOf(AsRows(SortedByArrival(AsPool(s))), s)
<1> DEFINE V == [id : Int, bytes : Int]
<1>1. PICK pool : pool = AsPool(s)
  OBVIOUS
<1>2. /\ pool \in Seq(V) /\ Len(pool) = Len(s)
      /\ \A i \in 1 .. Len(s) : pool[i] = [id |-> s[i].deadline, bytes |-> s[i].session]
  <2>1. \A i \in 1 .. Len(s) : s[i].deadline \in Int /\ s[i].session \in Int
    <3>1. \A i \in 1 .. Len(s) : s[i] \in Row
      BY DEF Rows
    <3> QED
      BY <3>1 DEF Row
  <2>2. Len(s) \in Nat
    BY DEF Rows
  <2>3. \A i \in 1 .. Len(s) : [id |-> s[i].deadline, bytes |-> s[i].session] \in V
    BY <2>1
  <2> QED
    BY <1>1, <2>2, <2>3 DEF AsPool
<1>3. \A r \in V : r.id \in Int
  OBVIOUS
<1> HIDE DEF V
<1>4. PICK r : r = SortedByArrival(pool)
  OBVIOUS
<1>5. r \in Seq(V) /\ Len(r) = Len(s) /\ StableByArrival(r, pool)
  BY <1>2, <1>3, <1>4, SortedByArrivalArranges, ArrivalSortIsStable
<1>6. PICK p : /\ p \in [1 .. Len(s) -> 1 .. Len(s)]
               /\ \A i, j \in 1 .. Len(s) : p[i] = p[j] => i = j
               /\ \A i \in 1 .. Len(s) : r[i] = pool[p[i]]
               /\ \A i, j \in 1 .. Len(s) : i < j /\ r[i].id = r[j].id => p[i] < p[j]
  <2>1. PICK p \in [1 .. Len(pool) -> 1 .. Len(pool)] :
          /\ \A i, j \in 1 .. Len(pool) : p[i] = p[j] => i = j
          /\ \A i \in 1 .. Len(pool) : r[i] = pool[p[i]]
          /\ \A i, j \in 1 .. Len(pool) : i < j /\ r[i].id = r[j].id => p[i] < p[j]
    <3>1. StableByArrival(r, pool)
      BY <1>5
    <3> QED
      BY <3>1, Zenon DEF StableByArrival
  <2>2. Len(pool) = Len(s)
    BY <1>2
  <2> QED
    BY <2>1, <2>2
<1>7. \A i, j \in 1 .. Len(s) : i < j => r[i].id <= r[j].id
  BY <1>5 DEF StableByArrival
<1>8. PICK t : t = AsRows(r)
  OBVIOUS
<1>9. /\ Len(t) = Len(s)
      /\ \A i \in 1 .. Len(s) : t[i] = [session |-> r[i].bytes, deadline |-> r[i].id]
  <2>1. Len(s) \in Nat
    BY DEF Rows
  <2> QED
    BY <1>5, <1>8, <2>1 DEF AsRows
<1>10. ASSUME NEW i \in 1 .. Len(s) PROVE t[i] = s[p[i]] /\ t[i].deadline = r[i].id
  <2>1. p[i] \in 1 .. Len(s)
    BY <1>6
  <2>2. r[i] = [id |-> s[p[i]].deadline, bytes |-> s[p[i]].session]
    BY <1>2, <1>6, <2>1
  <2>3. t[i] = [session |-> s[p[i]].session, deadline |-> s[p[i]].deadline]
    BY <1>9, <2>2
  <2>4. s[p[i]] \in Row
    BY <2>1 DEF Rows
  <2> QED
    BY <2>2, <2>3, <2>4 DEF Row
<1>11. SortedByDeadline(t)
  BY <1>7, <1>9, <1>10 DEF SortedByDeadline
<1>12. \A i, j \in 1 .. Len(s) : i < j /\ t[i].deadline = t[j].deadline => p[i] < p[j]
  BY <1>6, <1>10
<1>13. /\ p \in [1 .. Len(s) -> 1 .. Len(s)]
       /\ \A i, j \in 1 .. Len(s) : p[i] = p[j] => i = j
       /\ \A i \in 1 .. Len(s) : t[i] = s[p[i]]
  BY <1>6, <1>10
<1>14. StableSortOf(t, s)
  BY <1>11, <1>12, <1>13 DEF StableSortOf
<1> QED
  BY <1>1, <1>4, <1>8, <1>14

\* SortCorrect: whatever arrays a run sorts, and however often it sorts them and
\* sends the first row between, both sorts return the rows they were given, each
\* once, in order, rows with equal keys as they were.
THEOREM SortAlwaysCorrect == Spec => []SortCorrect
<1> DEFINE Inv == rows \in Rows
<1>1. Init => Inv
  BY DEF Init, Fresh, Rows
<1>2. Inv /\ [Next]_vars => Inv'
  <2> SUFFICES ASSUME rows \in Rows, [Next]_vars PROVE rows' \in Rows
    OBVIOUS
  <2>1. CASE ChooseRows
    <3>1. PICK a \in Arrays : rows' = [i \in 1 .. Len(a) |-> [session |-> i, deadline |-> a[i]]]
      BY <2>1 DEF ChooseRows
    <3>2. PICK n \in 0 .. MaxRows : a \in [1 .. n -> 0 .. MaxDeadline]
      BY <3>1 DEF Arrays
    <3>3. n \in Nat /\ Len(a) = n /\ \A i \in 1 .. n : a[i] \in Int
      BY <3>2, BoundsAssumption
    <3> QED
      BY <3>1, <3>3 DEF Row, Rows
  <2>2. CASE Reorder
    <3>1. \A r \in Row : r.deadline \in Int
      BY DEF Row
    <3> QED
      BY <2>2, <3>1, ReorderedArranges DEF Reorder, Rows
  <2>3. CASE SendFirst
    <3>1. rows' = [rows EXCEPT ![1].deadline = 0] /\ rows # << >>
      BY <2>3 DEF SendFirst
    <3>2. 1 \in 1 .. Len(rows) /\ Len(rows) \in Nat
      BY <3>1 DEF Rows
    <3>3. rows[1] \in Row
      BY <3>2 DEF Rows
    <3>4. [rows[1] EXCEPT !.deadline = 0] \in Row
      BY <3>3 DEF Row
    <3> QED
      BY <3>1, <3>2, <3>4 DEF Rows
  <2>4. CASE UNCHANGED rows
    BY <2>4
  <2> QED
    BY <2>1, <2>2, <2>3, <2>4 DEF Next, ChooseMove, ChooseText, vars
<1>3. Inv => SortCorrect
  <2> SUFFICES ASSUME rows \in Rows PROVE SortCorrect
    OBVIOUS
  <2>1. \A r \in Row : r.deadline \in Int
    BY DEF Row
  <2>2. StableSortOf(Reordered(rows), rows)
    BY <2>1, SortIsStable DEF Rows
  <2> QED
    BY <2>2, ArrivalSortsRows DEF SortCorrect
<1> QED
  BY <1>1, <1>2, <1>3, PTL DEF Spec

------------------------------------------------------------------------------
(* Copies *)

\* Memory is a function on addresses, ...
IsMemory(mem) == mem = [a \in DOMAIN mem |-> mem[a]] /\ DOMAIN mem \subseteq Int

\* ... which may hold n bytes at a.
Holds(mem, a, n) == \A x \in a .. a + n - 1 : x \in DOMAIN mem

\* Moving keeps what is memory, and no bytes are no move.
LEMMA MovedMemory ==
  ASSUME NEW mem, IsMemory(mem), NEW src, NEW dst, NEW n
  PROVE  /\ IsMemory(Moved(mem, src, dst, n)) /\ DOMAIN Moved(mem, src, dst, n) = DOMAIN mem
         /\ \A a \in DOMAIN mem : Moved(mem, src, dst, n)[a] =
              IF a \in dst .. dst + n - 1 THEN mem[a - dst + src] ELSE mem[a]
  BY DEF IsMemory, Moved

\* No bytes, or bytes onto themselves, are no move.
LEMMA MovedNothing ==
  ASSUME NEW mem, IsMemory(mem), NEW src \in Int, NEW dst \in Int, NEW n \in Nat, n = 0 \/ src = dst
  PROVE  Moved(mem, src, dst, n) = mem
<1>1. ASSUME NEW a \in DOMAIN mem PROVE Moved(mem, src, dst, n)[a] = mem[a]
  <2>1. a \in Int /\ (n = 0 => a \notin dst .. dst + n - 1) /\ (src = dst => a - dst + src = a)
    BY DEF IsMemory
  <2> QED
    BY <2>1, MovedMemory
<1>2. Moved(mem, src, dst, n) = [a \in DOMAIN mem |-> Moved(mem, src, dst, n)[a]]
  BY DEF Moved
<1>3. mem = [a \in DOMAIN mem |-> mem[a]]
  BY DEF IsMemory
<1> QED
  BY <1>1, <1>2, <1>3

\* Two memories with the same bytes.
LEMMA SameMemory ==
  ASSUME NEW m1, NEW m2, IsMemory(m1), IsMemory(m2), DOMAIN m1 = DOMAIN m2,
         \A a \in DOMAIN m1 : m1[a] = m2[a]
  PROVE  m1 = m2
  BY DEF IsMemory

\* Moving k bytes and then the n behind them moves k + n, unless the first k
\* lie on what is still to be read.
LEMMA MovedUpwards ==
  ASSUME NEW mem, IsMemory(mem), NEW src \in Int, NEW dst \in Int, NEW k \in Nat, NEW n \in Nat,
         dst <= src \/ src + (k + n) <= dst, Holds(mem, src, k + n)
  PROVE  Moved(Moved(mem, src, dst, k), src + k, dst + k, n) = Moved(mem, src, dst, k + n)
<1> DEFINE m1 == Moved(mem, src, dst, k)
           m2 == Moved(m1, src + k, dst + k, n)
           m3 == Moved(mem, src, dst, k + n)
<1>1. /\ IsMemory(m1) /\ DOMAIN m1 = DOMAIN mem
      /\ \A a \in DOMAIN mem : m1[a] = IF a \in dst .. dst + k - 1 THEN mem[a - dst + src] ELSE mem[a]
  BY MovedMemory
<1>2. /\ IsMemory(m3) /\ DOMAIN m3 = DOMAIN mem
      /\ \A a \in DOMAIN mem : m3[a] = IF a \in dst .. dst + (k + n) - 1 THEN mem[a - dst + src] ELSE mem[a]
  BY MovedMemory
<1> HIDE DEF m1, m3
<1>3. /\ IsMemory(m2) /\ DOMAIN m2 = DOMAIN mem
      /\ \A a \in DOMAIN mem : m2[a] = IF a \in dst + k .. dst + k + n - 1 THEN m1[a - (dst + k) + (src + k)] ELSE m1[a]
  BY <1>1, MovedMemory
<1> HIDE DEF m2
<1>4. ASSUME NEW a \in DOMAIN mem PROVE m2[a] = m3[a]
  <2>0. a \in Int
    BY DEF IsMemory
  <2>1. CASE a \in dst + k .. dst + k + n - 1
    <3>1. /\ a - (dst + k) + (src + k) = a - dst + src
          /\ a - dst + src \in src .. src + (k + n) - 1
          /\ a - dst + src \notin dst .. dst + k - 1
          /\ a \in dst .. dst + (k + n) - 1
      BY <2>0, <2>1
    <3>2. a - dst + src \in DOMAIN mem
      BY <3>1 DEF Holds
    <3> QED
      BY <1>1, <1>2, <1>3, <2>1, <3>1, <3>2
  <2>2. CASE a \notin dst + k .. dst + k + n - 1
    <3>1. a \in dst .. dst + k - 1 <=> a \in dst .. dst + (k + n) - 1
      BY <2>0, <2>2
    <3> QED
      BY <1>1, <1>2, <1>3, <2>2, <3>1
  <2> QED
    BY <2>1, <2>2
<1>5. m2 = m3
  BY <1>1, <1>2, <1>3, <1>4, SameMemory
<1> QED
  BY <1>5 DEF m1, m2, m3

\* The same downwards: the k bytes from s1 on, and then the n from s2 on, which
\* end at s1.
LEMMA MovedDownwards ==
  ASSUME NEW mem, IsMemory(mem), NEW k \in Nat, NEW n \in Nat, NEW l \in Nat, l = k + n,
         NEW s1 \in Int, NEW s2 \in Int, s1 = s2 + n, NEW d1 \in Int, NEW d2 \in Int, d1 = d2 + n,
         s2 <= d2, Holds(mem, s2, l)
  PROVE  Moved(Moved(mem, s1, d1, k), s2, d2, n) = Moved(mem, s2, d2, l)
<1> DEFINE m1 == Moved(mem, s1, d1, k)
           m2 == Moved(m1, s2, d2, n)
           m3 == Moved(mem, s2, d2, l)
<1>1. /\ IsMemory(m1) /\ DOMAIN m1 = DOMAIN mem
      /\ \A a \in DOMAIN mem : m1[a] = IF a \in d1 .. d1 + k - 1 THEN mem[a - d1 + s1] ELSE mem[a]
  BY MovedMemory
<1>2. /\ IsMemory(m3) /\ DOMAIN m3 = DOMAIN mem
      /\ \A a \in DOMAIN mem : m3[a] = IF a \in d2 .. d2 + l - 1 THEN mem[a - d2 + s2] ELSE mem[a]
  BY MovedMemory
<1> HIDE DEF m1, m3
<1>3. /\ IsMemory(m2) /\ DOMAIN m2 = DOMAIN mem
      /\ \A a \in DOMAIN mem : m2[a] = IF a \in d2 .. d2 + n - 1 THEN m1[a - d2 + s2] ELSE m1[a]
  BY <1>1, MovedMemory
<1> HIDE DEF m2
<1>4. ASSUME NEW a \in DOMAIN mem PROVE m2[a] = m3[a]
  <2>0. a \in Int
    BY DEF IsMemory
  <2>1. CASE a \in d2 .. d2 + n - 1
    <3>1. /\ a - d2 + s2 \in s2 .. s2 + l - 1
          /\ a - d2 + s2 \notin d1 .. d1 + k - 1
          /\ a \in d2 .. d2 + l - 1
      BY <2>0, <2>1
    <3>2. a - d2 + s2 \in DOMAIN mem
      BY <3>1 DEF Holds
    <3> QED
      BY <1>1, <1>2, <1>3, <2>0, <2>1, <3>1, <3>2
  <2>2. CASE a \notin d2 .. d2 + n - 1
    <3>1. (a \in d1 .. d1 + k - 1 <=> a \in d2 .. d2 + l - 1) /\ a - d1 + s1 = a - d2 + s2
      BY <2>0, <2>2
    <3> QED
      BY <1>1, <1>2, <1>3, <2>0, <2>2, <3>1
  <2> QED
    BY <2>1, <2>2
<1>5. m2 = m3
  BY <1>1, <1>2, <1>3, <1>4, SameMemory
<1> QED
  BY <1>5 DEF m1, m2, m3

------------------------------------------------------------------------------
(* Loops *)

\* Division by d.
LEMMA Division ==
  ASSUME NEW d \in Nat, d > 0
  PROVE  /\ \A x \in Int : /\ x \div d \in Int /\ x % d \in 0 .. d - 1
                           /\ x = ((x \div d) * d) + (x % d)
         /\ \A q \in Int, r \in 0 .. d - 1 : ((q * d) + r) \div d = q /\ ((q * d) + r) % d = r
  OBVIOUS

\* Words follow each other at aligned addresses.
LEMMA AlignedWords ==
  ASSUME NEW a \in Int, Aligned(a), NEW k \in Int
  PROVE  Aligned(a + k * W)
<1>1. W \in Nat /\ W > 0
  BY ByteAssumption
<1>2. PICK q \in Int : a = (q * W) + 0
  BY <1>1, Division DEF Aligned
<1>3. q + k \in Int /\ a + k * W = ((q + k) * W) + 0 /\ 0 \in 0 .. W - 1
  BY <1>1, <1>2
<1>4. ((((q + k) * W) + 0) % W) = 0
  BY <1>1, <1>3, Division
<1> QED
  BY <1>3, <1>4 DEF Aligned

\* Rounds of `size' bytes are possible from src and dst.
MayLoop(src, dst, size) == size = 1 \/ (size = W /\ Aligned(src) /\ Aligned(dst))

\* a and b are where a round of it begins.
InRound(a, b, src, dst, size) == \E k \in Int : a = src + k * size /\ b = dst + k * size

\* Every round of such a loop moves its bytes.
LEMMA RoundMoves ==
  ASSUME NEW mem, NEW src \in Int, NEW dst \in Int, NEW size \in Nat, MayLoop(src, dst, size),
         NEW a, NEW b, InRound(a, b, src, dst, size)
  PROVE  Store(mem, a, b, size) = Moved(mem, a, b, size)
<1>0. PICK k \in Int : a = src + k * size /\ b = dst + k * size
  BY DEF InRound
<1>1. CASE size = W
  <2>1. Aligned(src) /\ Aligned(dst)
    <3>1. CASE W = 1
      <4>1. \A x \in Int : x % 1 = 0
        OBVIOUS
      <4> QED
        BY <3>1, <4>1 DEF Aligned
    <3>2. CASE W # 1
      BY <1>1, <3>2 DEF MayLoop
    <3> QED
      BY <3>1, <3>2
  <2>2. Aligned(a) /\ Aligned(b)
    BY <1>0, <1>1, <2>1, AlignedWords
  <2> QED
    BY <1>1, <2>2 DEF Store
<1>2. CASE size # W
  BY <1>2 DEF Store
<1> QED
  BY <1>1, <1>2

\* f satisfies the recursion of Upwards.
GoesUp(f, mem, src, dst, size, t) ==
  f = [i \in 0 .. t |->
         IF i = 0 THEN mem
         ELSE Store(f[i - 1], src + (i - 1) * size, dst + (i - 1) * size, size)]

\* A loop upwards moves the bytes of all its rounds, unless its source is above
\* its destination and reached by it.
LEMMA UpwardsMoves ==
  ASSUME NEW mem, IsMemory(mem), NEW src \in Int, NEW dst \in Int, NEW size \in Nat, NEW t \in Nat,
         t > 0 => MayLoop(src, dst, size), dst <= src \/ src + (t * size) <= dst, Holds(mem, src, t * size)
  PROVE  Upwards(mem, src, dst, size, t) = Moved(mem, src, dst, t * size)
<1> DEFINE h == [i \in 0 .. t |-> Moved(mem, src, dst, i * size)]
           c == CHOOSE f : GoesUp(f, mem, src, dst, size, t)
           Round(m, i) == Store(m, src + (i - 1) * size, dst + (i - 1) * size, size)
<1>1. Moved(mem, src, dst, 0) = mem
  BY MovedNothing
<1>2. ASSUME NEW i \in 1 .. t
      PROVE  Round(Moved(mem, src, dst, (i - 1) * size), i) = Moved(mem, src, dst, i * size)
  <2> DEFINE k == (i - 1) * size
  <2>1. i - 1 \in Int /\ k \in Nat /\ k + size = i * size
    <3>1. i - 1 \in Nat
      OBVIOUS
    <3> QED
      BY <3>1
  <2>2. k + size <= t * size
    <3>1. t - i \in Nat
      OBVIOUS
    <3>2. (t - i) * size \in Nat /\ (t - i) * size = t * size - i * size
      BY <3>1
    <3> QED
      BY <2>1, <3>2
  <2> HIDE DEF k
  <2>3. Holds(mem, src, k + size)
    <3>1. \A x \in src .. src + (k + size) - 1 : x \in src .. src + (t * size) - 1
      BY <2>1, <2>2
    <3> QED
      BY <3>1 DEF Holds
  <2>4. dst <= src \/ src + (k + size) <= dst
    BY <2>1, <2>2
  <2>5. Moved(Moved(mem, src, dst, k), src + k, dst + k, size) = Moved(mem, src, dst, k + size)
    BY <2>1, <2>3, <2>4, MovedUpwards
  <2>6. Round(Moved(mem, src, dst, k), i) = Moved(Moved(mem, src, dst, k), src + k, dst + k, size)
    <3>1. PICK a, b : a = src + (i - 1) * size /\ b = dst + (i - 1) * size
      OBVIOUS
    <3>2. \A m : Store(m, a, b, size) = Moved(m, a, b, size)
      <4>1. InRound(a, b, src, dst, size) /\ MayLoop(src, dst, size)
        BY <2>1, <3>1 DEF InRound
      <4> QED
        BY <4>1, RoundMoves
    <3> QED
      BY <3>1, <3>2 DEF k
  <2> QED
    BY <2>1, <2>5, <2>6 DEF k
<1>3. GoesUp(h, mem, src, dst, size, t)
  <2>1. ASSUME NEW i \in 0 .. t PROVE h[i] = IF i = 0 THEN mem ELSE Round(h[i - 1], i)
    <3>1. CASE i = 0
      <4>1. h[i] = Moved(mem, src, dst, i * size) /\ i * size = 0
        BY <3>1
      <4> QED
        BY <1>1, <3>1, <4>1
    <3>2. CASE i # 0
      <4>1. i \in 1 .. t /\ i - 1 \in 0 .. t
        BY <3>2
      <4>2. h[i] = Moved(mem, src, dst, i * size) /\ h[i - 1] = Moved(mem, src, dst, (i - 1) * size)
        BY <4>1
      <4> HIDE DEF h, Round
      <4> QED
        BY <1>2, <3>2, <4>1, <4>2
    <3> QED
      BY <3>1, <3>2
  <2>2. h = [i \in 0 .. t |-> h[i]]
    OBVIOUS
  <2> HIDE DEF h
  <2> QED
    BY <2>1, <2>2 DEF GoesUp
<1>4. GoesUp(c, mem, src, dst, size, t)
  <2> HIDE DEF h
  <2> QED
    BY <1>3
<1>5. Upwards(mem, src, dst, size, t) = c[t]
  BY DEF Upwards, GoesUp
<1> HIDE DEF c
<1>6. c[0] = mem /\ \A i \in 1 .. t : c[i] = Round(c[i - 1], i)
  BY <1>4 DEF GoesUp
<1> DEFINE T == {m \in 0 .. t : c[m] = Moved(mem, src, dst, m * size)}
<1>7. 0 \in T
  BY <1>1, <1>6
<1>8. ASSUME NEW m \in 0 .. t - 1, m \in T PROVE m + 1 \in T
  <2>1. m + 1 \in 1 .. t /\ (m + 1) - 1 = m /\ m + 1 \in 0 .. t
    OBVIOUS
  <2>2. c[m] = Moved(mem, src, dst, m * size)
    BY <1>8
  <2> HIDE DEF Round
  <2>3. c[m + 1] = Round(c[m], m + 1)
    BY <1>6, <2>1
  <2>4. Round(Moved(mem, src, dst, m * size), m + 1) = Moved(mem, src, dst, (m + 1) * size)
    BY <1>2, <2>1
  <2> QED
    BY <2>1, <2>2, <2>3, <2>4
<1>9. t \in T
  <2>1. \A m \in 0 .. t : m \in T
    <3> HIDE DEF T
    <3> QED
      BY <1>7, <1>8, Climb
  <2> HIDE DEF T
  <2> QED
    BY <2>1
<1> QED
  BY <1>5, <1>9

\* f satisfies the recursion of Downwards.
GoesDownwards(f, mem, src, dst, size, t) ==
  f = [i \in 0 .. t |->
         IF i = 0 THEN mem
         ELSE Store(f[i - 1], src - i * size, dst - i * size, size)]

\* A loop downwards moves the bytes of all its rounds when its source is not
\* above its destination.
LEMMA DownwardsMoves ==
  ASSUME NEW mem, IsMemory(mem), NEW src \in Int, NEW dst \in Int, NEW size \in Nat, NEW t \in Nat,
         t > 0 => MayLoop(src, dst, size), src <= dst, Holds(mem, src - t * size, t * size)
  PROVE  Downwards(mem, src, dst, size, t) = Moved(mem, src - t * size, dst - t * size, t * size)
<1> DEFINE Low(n) == Moved(mem, src - n, dst - n, n)
           h == [i \in 0 .. t |-> Low(i * size)]
           c == CHOOSE f : GoesDownwards(f, mem, src, dst, size, t)
           Round(m, i) == Store(m, src - i * size, dst - i * size, size)
<1>1. Low(0) = mem
  BY MovedNothing
<1>2. ASSUME NEW i \in 1 .. t
      PROVE  Round(Low((i - 1) * size), i) = Low(i * size)
  <2> DEFINE k == (i - 1) * size
  <2>1. i - 1 \in Int /\ k \in Nat /\ k + size = i * size
    <3>1. i - 1 \in Nat
      OBVIOUS
    <3> QED
      BY <3>1
  <2>2. k + size <= t * size
    <3>1. t - i \in Nat
      OBVIOUS
    <3>2. (t - i) * size \in Nat /\ (t - i) * size = t * size - i * size
      BY <3>1
    <3> QED
      BY <2>1, <3>2
  <2> HIDE DEF k
  <2>3. Holds(mem, src - (k + size), k + size)
    <3>1. \A x \in src - (k + size) .. src - (k + size) + (k + size) - 1 :
            x \in src - t * size .. src - t * size + t * size - 1
      BY <2>1, <2>2
    <3> QED
      BY <3>1 DEF Holds
  <2>4. Moved(Moved(mem, src - k, dst - k, k), src - (k + size), dst - (k + size), size) =
          Moved(mem, src - (k + size), dst - (k + size), k + size)
    <3>1. PICK l \in Nat, s1 \in Int, d1 \in Int, s2 \in Int, d2 \in Int :
            /\ l = k + size /\ s1 = src - k /\ d1 = dst - k
            /\ s2 = src - (k + size) /\ d2 = dst - (k + size)
      BY <2>1
    <3>2. Holds(mem, s2, l) /\ s1 = s2 + size /\ d1 = d2 + size /\ s2 <= d2
      BY <2>1, <2>3, <3>1
    <3>3. Moved(Moved(mem, s1, d1, k), s2, d2, size) = Moved(mem, s2, d2, l)
      BY <2>1, <3>1, <3>2, MovedDownwards
    <3> QED
      BY <3>1, <3>3
  <2>5. Round(Low(k), i) = Moved(Low(k), src - (k + size), dst - (k + size), size)
    <3>1. PICK a, b : a = src - i * size /\ b = dst - i * size
      OBVIOUS
    <3>2. -i \in Int /\ a = src + (-i) * size /\ b = dst + (-i) * size
      BY <3>1
    <3>3. \A m : Store(m, a, b, size) = Moved(m, a, b, size)
      <4>1. InRound(a, b, src, dst, size) /\ MayLoop(src, dst, size)
        BY <3>2 DEF InRound
      <4> QED
        BY <4>1, RoundMoves
    <3> HIDE DEF Low
    <3> QED
      BY <2>1, <3>1, <3>3
  <2> QED
    BY <2>1, <2>4, <2>5 DEF k
<1>3. GoesDownwards(h, mem, src, dst, size, t)
  <2>1. ASSUME NEW i \in 0 .. t PROVE h[i] = IF i = 0 THEN mem ELSE Round(h[i - 1], i)
    <3>1. CASE i = 0
      <4>1. h[i] = Low(i * size) /\ i * size = 0
        BY <3>1
      <4> QED
        BY <1>1, <3>1, <4>1
    <3>2. CASE i # 0
      <4>1. i \in 1 .. t /\ i - 1 \in 0 .. t
        BY <3>2
      <4>2. h[i] = Low(i * size) /\ h[i - 1] = Low((i - 1) * size)
        BY <4>1
      <4> HIDE DEF h, Round
      <4> QED
        BY <1>2, <3>2, <4>1, <4>2
    <3> QED
      BY <3>1, <3>2
  <2>2. h = [i \in 0 .. t |-> h[i]]
    OBVIOUS
  <2> HIDE DEF h
  <2> QED
    BY <2>1, <2>2 DEF GoesDownwards
<1>4. GoesDownwards(c, mem, src, dst, size, t)
  <2> HIDE DEF h
  <2> QED
    BY <1>3
<1>5. Downwards(mem, src, dst, size, t) = c[t]
  BY DEF Downwards, GoesDownwards
<1> HIDE DEF c
<1>6. c[0] = mem /\ \A i \in 1 .. t : c[i] = Round(c[i - 1], i)
  BY <1>4 DEF GoesDownwards
<1> DEFINE T == {m \in 0 .. t : c[m] = Low(m * size)}
<1>7. 0 \in T
  BY <1>1, <1>6
<1>8. ASSUME NEW m \in 0 .. t - 1, m \in T PROVE m + 1 \in T
  <2>1. m + 1 \in 1 .. t /\ (m + 1) - 1 = m /\ m + 1 \in 0 .. t
    OBVIOUS
  <2>2. c[m] = Low(m * size)
    BY <1>8
  <2> HIDE DEF Round
  <2>3. c[m + 1] = Round(c[m], m + 1)
    BY <1>6, <2>1
  <2>4. Round(Low(m * size), m + 1) = Low((m + 1) * size)
    BY <1>2, <2>1
  <2> QED
    BY <2>1, <2>2, <2>3, <2>4
<1>9. t \in T
  <2>1. \A m \in 0 .. t : m \in T
    <3> HIDE DEF T
    <3> QED
      BY <1>7, <1>8, Climb
  <2> HIDE DEF T
  <2> QED
    BY <2>1
<1> QED
  BY <1>5, <1>9

\* A loop upwards behind a move of k bytes.
LEMMA UpwardsGoesOn ==
  ASSUME NEW mem, IsMemory(mem), NEW src \in Int, NEW dst \in Int,
         NEW k \in Nat, NEW size \in Nat, NEW t \in Nat, NEW l \in Nat, l = k + (t * size),
         NEW s \in Int, s = src + k, NEW d \in Int, d = dst + k,
         dst <= src \/ src + l <= dst, Holds(mem, src, l), t > 0 => MayLoop(s, d, size)
  PROVE  Upwards(Moved(mem, src, dst, k), s, d, size, t) = Moved(mem, src, dst, l)
<1>0. PICK n \in Nat : n = t * size /\ l = k + n
  OBVIOUS
<1>1. PICK m : m = Moved(mem, src, dst, k)
  OBVIOUS
<1>2. IsMemory(m) /\ DOMAIN m = DOMAIN mem
  BY <1>1, MovedMemory
<1>3. Holds(m, s, t * size)
  <2>1. \A x \in s .. s + n - 1 : x \in src .. src + l - 1
    BY <1>0
  <2> QED
    BY <1>0, <1>2, <2>1 DEF Holds
<1>4. d <= s \/ s + (t * size) <= d
  BY <1>0
<1>5. Upwards(m, s, d, size, t) = Moved(m, s, d, t * size)
  BY <1>2, <1>3, <1>4, UpwardsMoves
<1>6. Moved(Moved(mem, src, dst, k), src + k, dst + k, n) = Moved(mem, src, dst, k + n)
  <2>1. Holds(mem, src, k + n) /\ (dst <= src \/ src + (k + n) <= dst)
    BY <1>0
  <2> QED
    BY <2>1, MovedUpwards
<1> QED
  BY <1>0, <1>1, <1>5, <1>6

\* A loop downwards below a move of k bytes: the loop ends at s2 and d2.
LEMMA DownwardsGoesOn ==
  ASSUME NEW mem, IsMemory(mem),
         NEW k \in Nat, NEW size \in Nat, NEW t \in Nat, NEW l \in Nat, l = k + (t * size),
         NEW s1 \in Int, NEW s2 \in Int, s1 = s2 + (t * size),
         NEW d1 \in Int, NEW d2 \in Int, d1 = d2 + (t * size),
         s2 <= d2, Holds(mem, s2, l), t > 0 => MayLoop(s1, d1, size)
  PROVE  Downwards(Moved(mem, s1, d1, k), s1, d1, size, t) = Moved(mem, s2, d2, l)
<1>0. PICK n \in Nat : n = t * size /\ l = k + n /\ s1 = s2 + n /\ d1 = d2 + n
  OBVIOUS
<1>1. PICK m : m = Moved(mem, s1, d1, k)
  OBVIOUS
<1>2. IsMemory(m) /\ DOMAIN m = DOMAIN mem
  BY <1>1, MovedMemory
<1>3. s1 - t * size = s2 /\ d1 - t * size = d2 /\ s1 <= d1
  BY <1>0
<1>4. Holds(m, s1 - t * size, t * size)
  <2>1. \A x \in s2 .. s2 + n - 1 : x \in s2 .. s2 + l - 1
    BY <1>0
  <2>2. Holds(m, s2, n)
    BY <1>2, <2>1 DEF Holds
  <2> QED
    BY <1>0, <1>3, <2>2
<1>5. Downwards(m, s1, d1, size, t) = Moved(m, s1 - t * size, d1 - t * size, t * size)
  BY <1>2, <1>3, <1>4, DownwardsMoves
<1>6. Moved(Moved(mem, s1, d1, k), s2, d2, n) = Moved(mem, s2, d2, l)
  BY <1>0, MovedDownwards
<1> QED
  BY <1>0, <1>1, <1>3, <1>5, <1>6

------------------------------------------------------------------------------
(* __bcpy and __vcpy *)

\* The word copy of the forward copy begins at word boundaries.
LEMMA LeadAligns ==
  ASSUME NEW src \in Int, NEW dst \in Int, NEW length \in Nat
  PROVE  /\ Lead(src, dst, length) \in 0 .. length
         /\ \/ Lead(src, dst, length) = length
            \/ Aligned(src + Lead(src, dst, length)) /\ Aligned(dst + Lead(src, dst, length))
<1>0. W \in Nat /\ W > 0
  BY ByteAssumption
<1>1. CASE Aligned(src) /\ Aligned(dst)
  <2>1. Lead(src, dst, length) = 0
    BY <1>1 DEF Lead
  <2> QED
    BY <1>1, <2>1
<1>2. CASE ~ (Aligned(src) /\ Aligned(dst)) /\ (src % W # dst % W \/ length < W)
  <2>1. Lead(src, dst, length) = length
    BY <1>2 DEF Lead
  <2> QED
    BY <2>1
<1>3. CASE ~ (Aligned(src) /\ Aligned(dst)) /\ ~ (src % W # dst % W \/ length < W)
  <2>1. Lead(src, dst, length) = W - (src % W) /\ length >= W /\ dst % W = src % W
    BY <1>0, <1>3 DEF Lead
  <2>2. src % W \in 0 .. W - 1
    BY <1>0, Division
  <2>3. PICK q \in Int, p \in Int : src = (q * W) + (src % W) /\ dst = (p * W) + (src % W)
    <3>1. src \div W \in Int /\ src = ((src \div W) * W) + (src % W)
      BY <1>0, Division
    <3>2. dst \div W \in Int /\ dst = ((dst \div W) * W) + (dst % W)
      BY <1>0, Division
    <3>3. PICK q \in Int, p \in Int : q = src \div W /\ p = dst \div W
      BY <3>1, <3>2
    <3> QED
      BY <2>1, <3>1, <3>2, <3>3
  <2>4. src + (W - (src % W)) = ((q + 1) * W) + 0 /\ dst + (W - (src % W)) = ((p + 1) * W) + 0
    BY <1>0, <2>2, <2>3
  <2>5. (((q + 1) * W) + 0) % W = 0 /\ (((p + 1) * W) + 0) % W = 0
    <3>1. q + 1 \in Int /\ p + 1 \in Int /\ 0 \in 0 .. W - 1
      BY <1>0
    <3> QED
      BY <1>0, <3>1, Division
  <2> QED
    BY <1>0, <2>1, <2>2, <2>4, <2>5 DEF Aligned
<1> QED
  BY <1>1, <1>2, <1>3

\* So does that of the backward copy.
LEMMA TrailAligns ==
  ASSUME NEW src \in Int, NEW dst \in Int, NEW length \in Nat
  PROVE  /\ Trail(src, dst, length) \in 0 .. length
         /\ \/ Trail(src, dst, length) = length
            \/ Aligned(src - Trail(src, dst, length)) /\ Aligned(dst - Trail(src, dst, length))
<1>0. W \in Nat /\ W > 0
  BY ByteAssumption
<1>1. CASE Aligned(src) /\ Aligned(dst)
  <2>1. Trail(src, dst, length) = 0
    BY <1>1 DEF Trail
  <2> QED
    BY <1>1, <2>1
<1>2. CASE ~ (Aligned(src) /\ Aligned(dst)) /\ (src % W # dst % W \/ length <= W)
  <2>1. Trail(src, dst, length) = length
    BY <1>2 DEF Trail
  <2> QED
    BY <2>1
<1>3. CASE ~ (Aligned(src) /\ Aligned(dst)) /\ ~ (src % W # dst % W \/ length <= W)
  <2>1. Trail(src, dst, length) = src % W /\ length > W /\ dst % W = src % W
    BY <1>0, <1>3 DEF Trail
  <2>2. src % W \in 0 .. W - 1
    BY <1>0, Division
  <2>3. PICK q \in Int, p \in Int : src = (q * W) + (src % W) /\ dst = (p * W) + (src % W)
    <3>1. src \div W \in Int /\ src = ((src \div W) * W) + (src % W)
      BY <1>0, Division
    <3>2. dst \div W \in Int /\ dst = ((dst \div W) * W) + (dst % W)
      BY <1>0, Division
    <3>3. PICK q \in Int, p \in Int : q = src \div W /\ p = dst \div W
      BY <3>1, <3>2
    <3> QED
      BY <2>1, <3>1, <3>2, <3>3
  <2>4. src - (src % W) = (q * W) + 0 /\ dst - (src % W) = (p * W) + 0
    BY <1>0, <2>2, <2>3
  <2>5. ((q * W) + 0) % W = 0 /\ ((p * W) + 0) % W = 0
    <3>1. 0 \in 0 .. W - 1
      BY <1>0
    <3> QED
      BY <1>0, <3>1, Division
  <2> QED
    BY <1>0, <2>1, <2>2, <2>4, <2>5 DEF Aligned
<1> QED
  BY <1>1, <1>2, <1>3

\* t bytes one by one, then words, then the rest, make length bytes.
LEMMA Parts ==
  ASSUME NEW length \in Nat, NEW t \in 0 .. length, NEW words, words = (length - t) \div W,
         NEW rest, rest = (length - t) % W
  PROVE  /\ words \in Nat /\ rest \in Nat /\ words * W \in Nat
         /\ t + (words * W) + rest = length
         /\ t = length => words = 0
<1>0. W \in Nat /\ W > 0 /\ length - t \in Nat
  BY ByteAssumption
<1>1. words \in Int /\ rest \in 0 .. W - 1 /\ length - t = (words * W) + rest
  BY <1>0, Division
<1>2. words \in Nat
  <2> SUFFICES ASSUME words <= -1 PROVE FALSE
    BY <1>1
  <2>1. -1 - words \in Nat
    BY <1>1
  <2>2. (-1 - words) * W \in Nat
    BY <1>0, <2>1
  <2>3. (-1 - words) * W = -W - (words * W)
    BY <1>0, <1>1
  <2> QED
    BY <1>0, <1>1, <2>2, <2>3
<1>3. words * W \in Nat
  BY <1>0, <1>2
<1>4. ASSUME t = length PROVE words = 0
  <2>1. length - t = (0 * W) + 0 /\ 0 \in 0 .. W - 1
    BY <1>0, <1>4
  <2>2. ((0 * W) + 0) \div W = 0
    BY <1>0, <2>1, Division
  <2> QED
    BY <2>1, <2>2
<1> QED
  BY <1>0, <1>1, <1>2, <1>3, <1>4

\* The forward copy moves, unless it would write on what it has yet to read.
LEMMA ForwardMoves ==
  ASSUME NEW mem, IsMemory(mem), NEW src \in Int, NEW dst \in Int, NEW length \in Nat,
         dst <= src \/ src + length <= dst, Holds(mem, src, length)
  PROVE  Forward(mem, src, dst, length) = Moved(mem, src, dst, length)
<1>1. PICK t : t = Lead(src, dst, length)
  OBVIOUS
<1>2. t \in 0 .. length /\ (t = length \/ (Aligned(src + t) /\ Aligned(dst + t)))
  BY <1>1, LeadAligns
<1>3. PICK words, rest : words = (length - t) \div W /\ rest = (length - t) % W
  OBVIOUS
<1>4. /\ words \in Nat /\ rest \in Nat /\ words * W \in Nat
      /\ t + (words * W) + rest = length /\ (t = length => words = 0)
  BY <1>2, <1>3, Parts
<1>5. PICK k \in Nat : k = t + words * W
  BY <1>2, <1>4
<1>6. W \in Nat /\ t \in Nat /\ 1 \in Nat
  BY <1>2, ByteAssumption
<1>7. Upwards(mem, src, dst, 1, t) = Moved(mem, src, dst, t)
  <2>1. MayLoop(src, dst, 1)
    BY DEF MayLoop
  <2>2. \A x \in src .. src + t - 1 : x \in src .. src + length - 1
    BY <1>2
  <2>3. Holds(mem, src, t) /\ t * 1 = t /\ (dst <= src \/ src + t <= dst)
    BY <1>2, <2>2 DEF Holds
  <2> QED
    BY <1>6, <2>1, <2>3, UpwardsMoves
<1>8. Upwards(Moved(mem, src, dst, t), src + t, dst + t, W, words) = Moved(mem, src, dst, k)
  <2>1. PICK s \in Int, d \in Int : s = src + t /\ d = dst + t
    BY <1>6
  <2>2. words > 0 => MayLoop(s, d, W)
    BY <1>2, <1>4, <2>1 DEF MayLoop
  <2>3. k <= length /\ \A x \in src .. src + k - 1 : x \in src .. src + length - 1
    BY <1>4, <1>5, <1>6
  <2>4. Holds(mem, src, k) /\ (dst <= src \/ src + k <= dst)
    BY <2>3 DEF Holds
  <2>5. Upwards(Moved(mem, src, dst, t), s, d, W, words) = Moved(mem, src, dst, k)
    BY <1>4, <1>5, <1>6, <2>1, <2>2, <2>4, UpwardsGoesOn
  <2> QED
    BY <2>1, <2>5
<1>9. Upwards(Moved(mem, src, dst, k), src + k, dst + k, 1, rest) = Moved(mem, src, dst, length)
  <2>1. PICK s \in Int, d \in Int : s = src + k /\ d = dst + k
    OBVIOUS
  <2>2. MayLoop(s, d, 1) /\ length = k + (rest * 1)
    BY <1>4, <1>5, <1>6 DEF MayLoop
  <2>3. Upwards(Moved(mem, src, dst, k), s, d, 1, rest) = Moved(mem, src, dst, length)
    BY <1>4, <1>6, <2>1, <2>2, UpwardsGoesOn
  <2> QED
    BY <2>1, <2>3
<1>10. src + t + words * W = src + k /\ dst + t + words * W = dst + k
  BY <1>4, <1>5, <1>6
<1>11. Forward(mem, src, dst, length) =
         Upwards(Upwards(Upwards(mem, src, dst, 1, t), src + t, dst + t, W, words),
                 src + t + words * W, dst + t + words * W, 1, rest)
  BY <1>1, <1>3, Zenon DEF Forward
<1> QED
  BY <1>7, <1>8, <1>9, <1>10, <1>11

\* The backward copy moves to where is not below its source.
LEMMA BackwardMoves ==
  ASSUME NEW mem, IsMemory(mem), NEW src \in Int, NEW dst \in Int, NEW length \in Nat,
         src <= dst, Holds(mem, src - length, length)
  PROVE  Backward(mem, src, dst, length) = Moved(mem, src - length, dst - length, length)
<1>1. PICK t : t = Trail(src, dst, length)
  OBVIOUS
<1>2. t \in 0 .. length /\ (t = length \/ (Aligned(src - t) /\ Aligned(dst - t)))
  BY <1>1, TrailAligns
<1>3. PICK words, rest : words = (length - t) \div W /\ rest = (length - t) % W
  OBVIOUS
<1>4. /\ words \in Nat /\ rest \in Nat /\ words * W \in Nat
      /\ t + (words * W) + rest = length /\ (t = length => words = 0)
  BY <1>2, <1>3, Parts
<1>5. PICK k \in Nat : k = t + words * W
  BY <1>2, <1>4
<1>6. W \in Nat /\ t \in Nat /\ 1 \in Nat
  BY <1>2, ByteAssumption
<1>7. Downwards(mem, src, dst, 1, t) = Moved(mem, src - t, dst - t, t)
  <2>1. MayLoop(src, dst, 1)
    BY DEF MayLoop
  <2>2. \A x \in src - t .. src - t + t - 1 : x \in src - length .. src - length + length - 1
    BY <1>2
  <2>3. Holds(mem, src - t, t) /\ t * 1 = t
    BY <1>2, <2>2 DEF Holds
  <2> QED
    BY <1>6, <2>1, <2>3, DownwardsMoves
<1>8. Downwards(Moved(mem, src - t, dst - t, t), src - t, dst - t, W, words) =
        Moved(mem, src - k, dst - k, k)
  <2>1. PICK s1 \in Int, d1 \in Int, s2 \in Int, d2 \in Int :
          s1 = src - t /\ d1 = dst - t /\ s2 = src - k /\ d2 = dst - k
    BY <1>6
  <2>2. words > 0 => MayLoop(s1, d1, W)
    BY <1>2, <1>4, <2>1 DEF MayLoop
  <2>3. \A x \in s2 .. s2 + k - 1 : x \in src - length .. src - length + length - 1
    BY <1>4, <1>5, <1>6, <2>1
  <2>4. Holds(mem, s2, k) /\ s2 <= d2 /\ s1 = s2 + (words * W) /\ d1 = d2 + (words * W)
    BY <1>4, <1>5, <1>6, <2>1, <2>3 DEF Holds
  <2>5. Downwards(Moved(mem, s1, d1, t), s1, d1, W, words) = Moved(mem, s2, d2, k)
    BY <1>4, <1>5, <1>6, <2>2, <2>4, DownwardsGoesOn
  <2> QED
    BY <2>1, <2>5
<1>9. Downwards(Moved(mem, src - k, dst - k, k), src - k, dst - k, 1, rest) =
        Moved(mem, src - length, dst - length, length)
  <2>1. PICK s1 \in Int, d1 \in Int, s2 \in Int, d2 \in Int :
          s1 = src - k /\ d1 = dst - k /\ s2 = src - length /\ d2 = dst - length
    OBVIOUS
  <2>2. /\ MayLoop(s1, d1, 1) /\ length = k + (rest * 1) /\ s2 <= d2
        /\ s1 = s2 + (rest * 1) /\ d1 = d2 + (rest * 1) /\ Holds(mem, s2, length)
    BY <1>4, <1>5, <1>6, <2>1 DEF MayLoop
  <2>3. Downwards(Moved(mem, s1, d1, k), s1, d1, 1, rest) = Moved(mem, s2, d2, length)
    BY <1>4, <1>6, <2>2, DownwardsGoesOn
  <2> QED
    BY <2>1, <2>3
<1>10. src - t - words * W = src - k /\ dst - t - words * W = dst - k
  BY <1>4, <1>5, <1>6
<1>11. Backward(mem, src, dst, length) =
         Downwards(Downwards(Downwards(mem, src, dst, 1, t), src - t, dst - t, W, words),
                   src - t - words * W, dst - t - words * W, 1, rest)
  BY <1>1, <1>3, Zenon DEF Backward
<1> QED
  BY <1>7, <1>8, <1>9, <1>10, <1>11

\* __bcpy is memmove: in every memory, for every length, overlap and alignment,
\* the destination holds what the source held and nothing else has changed.
THEOREM BcpyIsMemmove ==
  ASSUME NEW mem, IsMemory(mem), NEW src \in Int, NEW dst \in Int, NEW length \in Nat,
         Holds(mem, src, length)
  PROVE  bcpy(mem, src, dst, length) = Moved(mem, src, dst, length)
<1>1. CASE length = 0 \/ dst = src
  BY <1>1, MovedNothing DEF bcpy
<1>2. CASE ~ (length = 0 \/ dst = src) /\ dst < src
  <2>1. Forward(mem, src, dst, length) = Moved(mem, src, dst, length)
    BY <1>2, ForwardMoves
  <2> QED
    BY <1>2, <2>1 DEF bcpy
<1>3. CASE ~ (length = 0 \/ dst = src) /\ ~ (dst < src)
  <2>1. PICK s \in Int, d \in Int : s = src + length /\ d = dst + length
    OBVIOUS
  <2>2. s - length = src /\ d - length = dst /\ s <= d
    BY <1>3, <2>1
  <2>3. Backward(mem, s, d, length) = Moved(mem, s - length, d - length, length)
    BY <2>2, BackwardMoves
  <2> QED
    BY <1>3, <2>1, <2>2, <2>3 DEF bcpy
<1> QED
  BY <1>1, <1>2, <1>3

\* __vcpy moves too, unless its destination begins inside its source, above its
\* begin: what memcpy promises, and the copies downwards as well.
THEOREM VcpyMoves ==
  ASSUME NEW mem, IsMemory(mem), NEW src \in Int, NEW dst \in Int, NEW length \in Nat,
         Holds(mem, src, length), ~ (src < dst /\ dst < src + length)
  PROVE  vcpy(mem, dst, src, length) = Moved(mem, src, dst, length)
<1>0. W \in Nat /\ W > 0 /\ 1 \in Nat /\ 0 \in 0 .. length /\ length - 0 = length
  BY ByteAssumption
<1>1. PICK words : words = IF Aligned(src) /\ Aligned(dst) THEN length \div W ELSE 0
  OBVIOUS
<1>2. words \in Nat /\ words * W \in Nat /\ words * W <= length
  <2>1. PICK z \in 0 .. length : z = 0
    BY <1>0
  <2>2. PICK w, r : w = (length - z) \div W /\ r = (length - z) % W
    OBVIOUS
  <2>3. w \in Nat /\ r \in Nat /\ w * W \in Nat /\ z + (w * W) + r = length
    BY <2>2, Parts
  <2> QED
    BY <1>0, <1>1, <2>1, <2>2, <2>3
<1>3. PICK k \in Nat, rest \in Nat : k = words * W /\ rest = length - words * W
  BY <1>2
<1>4. dst <= src \/ src + length <= dst
  OBVIOUS
<1>5. Upwards(mem, src, dst, W, words) = Moved(mem, src, dst, k)
  <2>1. words > 0 => MayLoop(src, dst, W)
    BY <1>1 DEF MayLoop
  <2>2. \A x \in src .. src + k - 1 : x \in src .. src + length - 1
    BY <1>2, <1>3
  <2>3. Holds(mem, src, words * W) /\ (dst <= src \/ src + (words * W) <= dst)
    BY <1>2, <1>3, <1>4, <2>2 DEF Holds
  <2> QED
    BY <1>0, <1>2, <1>3, <2>1, <2>3, UpwardsMoves
<1>6. Upwards(Moved(mem, src, dst, k), src + k, dst + k, 1, rest) = Moved(mem, src, dst, length)
  <2>1. PICK s \in Int, d \in Int : s = src + k /\ d = dst + k
    OBVIOUS
  <2>2. MayLoop(s, d, 1) /\ length = k + (rest * 1)
    BY <1>2, <1>3 DEF MayLoop
  <2>3. Upwards(Moved(mem, src, dst, k), s, d, 1, rest) = Moved(mem, src, dst, length)
    BY <1>0, <1>4, <2>1, <2>2, UpwardsGoesOn
  <2> QED
    BY <2>1, <2>3
<1>7. vcpy(mem, dst, src, length) =
        Upwards(Upwards(mem, src, dst, W, words), src + words * W, dst + words * W, 1, length - words * W)
  BY <1>1, Zenon DEF vcpy
<1> QED
  BY <1>3, <1>5, <1>6, <1>7

\* What a run copies lies in its memory.
LEMMA MovesInMemory ==
  ASSUME NEW m \in Moves
  PROVE  /\ IsMemory(Memory) /\ Holds(Memory, m.src, m.length)
         /\ m.src \in Int /\ m.dst \in Int /\ m.length \in Nat
<1>1. /\ m.src \in 0 .. MemSize /\ m.dst \in 0 .. MemSize /\ m.length \in 0 .. MemSize
      /\ m.src + m.length <= MemSize
  BY DEF Moves
<1>2. MemSize \in Nat
  BY BoundsAssumption
<1>3. \A x \in m.src .. m.src + m.length - 1 : x \in 0 .. MemSize - 1
  BY <1>1, <1>2
<1>4. DOMAIN Memory = 0 .. MemSize - 1 /\ \A a \in 0 .. MemSize - 1 : Memory[a] = a
  BY DEF Memory
<1>5. IsMemory(Memory)
  BY <1>2, <1>4 DEF IsMemory, Memory
<1> QED
  BY <1>1, <1>2, <1>3, <1>4, <1>5 DEF Holds

\* CopiesMove: every copy a run chooses arrives whole, by __bcpy always and by
\* __vcpy unless the destination begins inside the source.
THEOREM CopiesAlwaysMove == Spec => []CopiesMove
<1> DEFINE Inv == move \in Moves
<1>1. Init => Inv
  <2>1. 0 \in 0 .. MemSize /\ 0 + 0 <= MemSize
    BY BoundsAssumption
  <2>2. NoMove \in Moves
    BY <2>1 DEF NoMove, Moves
  <2> QED
    BY <2>2 DEF Init, Fresh
<1>2. Inv /\ [Next]_vars => Inv'
  BY DEF Next, ChooseRows, Reorder, SendFirst, ChooseMove, ChooseText, vars
<1>3. Inv => CopiesMove
  <2> SUFFICES ASSUME Inv PROVE CopiesMove
    OBVIOUS
  <2>1. /\ IsMemory(Memory) /\ Holds(Memory, move.src, move.length)
        /\ move.src \in Int /\ move.dst \in Int /\ move.length \in Nat
    BY MovesInMemory
  <2>2. PICK s \in Int, d \in Int, n \in Nat : s = move.src /\ d = move.dst /\ n = move.length
    BY <2>1
  <2>3. IsMemory(Memory) /\ Holds(Memory, s, n)
    BY <2>1, <2>2
  <2>4. bcpy(Memory, s, d, n) = Moved(Memory, s, d, n)
    BY <2>3, BcpyIsMemmove
  <2>5. ~ (s < d /\ d < s + n) => vcpy(Memory, d, s, n) = Moved(Memory, s, d, n)
    BY <2>3, VcpyMoves
  <2> QED
    BY <2>2, <2>4, <2>5 DEF CopiesMove
<1> QED
  BY <1>1, <1>2, <1>3, PTL DEF Spec

------------------------------------------------------------------------------
(* Numbers in a word *)

\* A word has bytes, and a byte at least two values.
LEMMA Sizes ==
  /\ W \in Nat /\ W > 0 /\ Base \in Nat /\ Base > 1
  /\ \E h \in Nat : h > 0 /\ Base = 2 * h /\ Base \div 2 = h
<1>1. W \in Nat /\ W > 0 /\ Base \in Nat /\ Base > 0 /\ Base % 2 = 0
  BY ByteAssumption
<1>2. PICK h : h = Base \div 2
  OBVIOUS
<1> QED
  BY <1>1, <1>2

\* f satisfies the recursion of Power.
IsPower(f, k) == f = [i \in 0 .. k |-> IF i = 0 THEN 1 ELSE f[i - 1] * Base]

\* f has the powers up to n.
Powers(f, n) ==
  /\ f \in [0 .. n -> Nat] /\ f[0] = 1 /\ \A i \in 1 .. n : f[i] = f[i - 1] * Base
  /\ \A k \in 0 .. n : Power(k) = f[k]

\* The powers up to any n are defined.
LEMMA PowersDefined ==
  ASSUME NEW n \in Nat
  PROVE  \E f : Powers(f, n)
<1> DEFINE g == [x \in Nat \X (1 .. n) |-> x[1] * Base]
<1>0. Base \in Nat
  BY Sizes
<1>1. g \in [Nat \X (1 .. n) -> Nat]
  BY <1>0
<1>2. \A x \in Nat, i \in 1 .. n : g[<<x, i>>] = x * Base
  OBVIOUS
<1> HIDE DEF g
<1>3. PICK f : Unfolds(f, Nat, 1, n, g)
  BY <1>1, Recursion
<1>4. f \in [0 .. n -> Nat] /\ f[0] = 1
  BY <1>3 DEF Unfolds
<1>5. ASSUME NEW i \in 1 .. n PROVE f[i] = f[i - 1] * Base
  <2>1. i - 1 \in 0 .. n
    OBVIOUS
  <2>2. f[i - 1] \in Nat /\ f[i] = g[<<f[i - 1], i>>]
    BY <1>3, <1>4, <2>1 DEF Unfolds
  <2> QED
    BY <1>2, <2>2
<1>6. ASSUME NEW k \in 0 .. n PROVE Power(k) = f[k]
  <2> DEFINE h == [i \in 0 .. k |-> f[i]]
             c == CHOOSE p : IsPower(p, k)
  <2>1. IsPower(h, k)
    <3>1. ASSUME NEW i \in 0 .. k PROVE h[i] = IF i = 0 THEN 1 ELSE h[i - 1] * Base
      <4>1. CASE i = 0
        BY <1>4, <4>1
      <4>2. CASE i # 0
        <5>1. i \in 1 .. n /\ i - 1 \in 0 .. k
          BY <4>2
        <5> QED
          BY <1>5, <4>2, <5>1
      <4> QED
        BY <4>1, <4>2
    <3>2. h = [i \in 0 .. k |-> h[i]]
      OBVIOUS
    <3> HIDE DEF h
    <3> QED
      BY <3>1, <3>2 DEF IsPower
  <2>2. IsPower(c, k)
    <3> HIDE DEF h
    <3> QED
      BY <2>1
  <2>3. Power(k) = c[k]
    BY DEF Power, IsPower
  <2> HIDE DEF c, h
  <2>4. c[0] = 1 /\ \A i \in 1 .. k : c[i] = c[i - 1] * Base
    BY <2>2 DEF IsPower
  <2> DEFINE T == {m \in 0 .. k : c[m] = f[m]}
  <2>5. 0 \in T
    BY <1>4, <2>4
  <2>6. ASSUME NEW m \in 0 .. k - 1, m \in T PROVE m + 1 \in T
    <3>1. m + 1 \in 1 .. k /\ m + 1 \in 1 .. n /\ (m + 1) - 1 = m
      OBVIOUS
    <3>2. c[m + 1] = c[m] * Base /\ f[m + 1] = f[m] * Base
      BY <1>5, <2>4, <3>1
    <3> QED
      BY <2>6, <3>1, <3>2
  <2>7. \A m \in 0 .. k : m \in T
    <3> HIDE DEF T
    <3> QED
      BY <2>5, <2>6, Climb
  <2> QED
    BY <2>3, <2>7
<1> QED
  BY <1>4, <1>5, <1>6 DEF Powers

\* Power(k + 1) is Base times Power(k).
LEMMA PowerSteps ==
  ASSUME NEW k \in Nat
  PROVE  /\ Power(0) = 1 /\ Power(k) \in Nat /\ Power(k) > 0
         /\ Power(k + 1) = Power(k) * Base
<1>1. PICK f : Powers(f, k + 1)
  BY PowersDefined
<1>2. /\ f \in [0 .. k + 1 -> Nat] /\ f[0] = 1 /\ \A i \in 1 .. k + 1 : f[i] = f[i - 1] * Base
      /\ \A i \in 0 .. k + 1 : Power(i) = f[i]
  BY <1>1 DEF Powers
<1>3. 0 \in 0 .. k + 1 /\ k \in 0 .. k + 1 /\ k + 1 \in 0 .. k + 1 /\ k + 1 \in 1 .. k + 1 /\ (k + 1) - 1 = k
  OBVIOUS
<1>4. Power(0) = 1 /\ Power(k) \in Nat /\ Power(k + 1) = Power(k) * Base /\ Power(k) = f[k]
  BY <1>2, <1>3
<1> DEFINE T == {i \in 0 .. k + 1 : f[i] > 0}
<1>5. 0 \in T
  BY <1>2
<1>6. ASSUME NEW m \in 0 .. (k + 1) - 1, m \in T PROVE m + 1 \in T
  <2>1. m + 1 \in 1 .. k + 1 /\ (m + 1) - 1 = m /\ m \in 0 .. k + 1
    OBVIOUS
  <2>2. f[m] \in Nat /\ f[m] > 0 /\ f[m + 1] = f[m] * Base /\ Base \in Nat /\ Base > 1
    BY <1>2, <1>6, <2>1, Sizes
  <2>3. \A x \in Nat, y \in Nat : x > 0 /\ y > 1 => x * y > 0
    OBVIOUS
  <2> QED
    BY <2>1, <2>2, <2>3
<1>7. \A m \in 0 .. k + 1 : m \in T
  <2>1. k + 1 \in Nat
    OBVIOUS
  <2> HIDE DEF T
  <2> QED
    BY <1>5, <1>6, <2>1, Climb
<1> QED
  BY <1>3, <1>4, <1>7

\* b gives numbers for n bytes.
AreBytes(b, n) == \A i \in 0 .. n - 1 : b[i] \in 0 .. Base - 1

\* f satisfies the recursion of Value.
IsSum(f, b, k) == f = [i \in 0 .. k |-> IF i = 0 THEN 0 ELSE f[i - 1] + b[i - 1] * Power(i - 1)]

\* f has the values of the first bytes of b, up to n.
Sums(f, b, n) ==
  /\ f \in [0 .. n -> Nat] /\ f[0] = 0
  /\ \A i \in 1 .. n : f[i] = f[i - 1] + b[i - 1] * Power(i - 1)
  /\ \A k \in 0 .. n : Value(b, k) = f[k]

\* The values of the first bytes of b are defined.
LEMMA SumsDefined ==
  ASSUME NEW n \in Nat, NEW b, AreBytes(b, n)
  PROVE  \E f : Sums(f, b, n)
<1> DEFINE g == [x \in Nat \X (1 .. n) |-> x[1] + b[x[2] - 1] * Power(x[2] - 1)]
<1>0. Base \in Nat
  BY Sizes
<1>a. ASSUME NEW i \in 1 .. n PROVE b[i - 1] * Power(i - 1) \in Nat
  <2>1. i - 1 \in Nat /\ i - 1 \in 0 .. n - 1
    OBVIOUS
  <2>2. b[i - 1] \in Nat
    BY <1>0, <2>1 DEF AreBytes
  <2>3. Power(i - 1) \in Nat
    BY <2>1, PowerSteps
  <2> QED
    BY <2>2, <2>3
<1>1. g \in [Nat \X (1 .. n) -> Nat]
  <2>1. ASSUME NEW x \in Nat \X (1 .. n) PROVE x[1] + b[x[2] - 1] * Power(x[2] - 1) \in Nat
    <3>1. x[1] \in Nat /\ x[2] \in 1 .. n
      OBVIOUS
    <3>2. b[x[2] - 1] * Power(x[2] - 1) \in Nat
      BY <1>a, <3>1
    <3> QED
      BY <3>1, <3>2
  <2> QED
    BY <2>1
<1>2. \A x \in Nat, i \in 1 .. n : g[<<x, i>>] = x + b[i - 1] * Power(i - 1)
  OBVIOUS
<1> HIDE DEF g
<1>3. PICK f : Unfolds(f, Nat, 0, n, g)
  BY <1>1, Recursion
<1>4. f \in [0 .. n -> Nat] /\ f[0] = 0
  BY <1>3 DEF Unfolds
<1>5. ASSUME NEW i \in 1 .. n PROVE f[i] = f[i - 1] + b[i - 1] * Power(i - 1)
  <2>1. i - 1 \in 0 .. n
    OBVIOUS
  <2>2. f[i - 1] \in Nat /\ f[i] = g[<<f[i - 1], i>>]
    BY <1>3, <1>4, <2>1 DEF Unfolds
  <2> QED
    BY <1>2, <2>2
<1>6. ASSUME NEW k \in 0 .. n PROVE Value(b, k) = f[k]
  <2> DEFINE h == [i \in 0 .. k |-> f[i]]
             c == CHOOSE p : IsSum(p, b, k)
  <2>1. IsSum(h, b, k)
    <3>1. ASSUME NEW i \in 0 .. k
          PROVE  h[i] = IF i = 0 THEN 0 ELSE h[i - 1] + b[i - 1] * Power(i - 1)
      <4>1. CASE i = 0
        BY <1>4, <4>1
      <4>2. CASE i # 0
        <5>1. i \in 1 .. n /\ i - 1 \in 0 .. k
          BY <4>2
        <5> QED
          BY <1>5, <4>2, <5>1
      <4> QED
        BY <4>1, <4>2
    <3>2. h = [i \in 0 .. k |-> h[i]]
      OBVIOUS
    <3> HIDE DEF h
    <3> QED
      BY <3>1, <3>2 DEF IsSum
  <2>2. IsSum(c, b, k)
    <3> HIDE DEF h
    <3> QED
      BY <2>1
  <2>3. Value(b, k) = c[k]
    BY DEF Value, IsSum
  <2> HIDE DEF c, h
  <2>4. c[0] = 0 /\ \A i \in 1 .. k : c[i] = c[i - 1] + b[i - 1] * Power(i - 1)
    BY <2>2 DEF IsSum
  <2> DEFINE T == {m \in 0 .. k : c[m] = f[m]}
  <2>5. 0 \in T
    BY <1>4, <2>4
  <2>6. ASSUME NEW m \in 0 .. k - 1, m \in T PROVE m + 1 \in T
    <3>1. m + 1 \in 1 .. k /\ m + 1 \in 1 .. n /\ (m + 1) - 1 = m
      OBVIOUS
    <3>2. c[m + 1] = c[m] + b[m] * Power(m) /\ f[m + 1] = f[m] + b[m] * Power(m)
      BY <1>5, <2>4, <3>1
    <3> QED
      BY <2>6, <3>1, <3>2
  <2>7. \A m \in 0 .. k : m \in T
    <3> HIDE DEF T
    <3> QED
      BY <2>5, <2>6, Climb
  <2> QED
    BY <2>3, <2>7
<1> QED
  BY <1>4, <1>5, <1>6 DEF Sums

\* A number has one more byte above those below it.
LEMMA ValueSteps ==
  ASSUME NEW n \in Nat, NEW b, AreBytes(b, n)
  PROVE  /\ Value(b, 0) = 0 /\ \A k \in 0 .. n : Value(b, k) \in Nat
         /\ \A k \in 0 .. n - 1 : Value(b, k + 1) = Value(b, k) + b[k] * Power(k)
<1>1. PICK f : Sums(f, b, n)
  BY SumsDefined
<1>2. /\ f \in [0 .. n -> Nat] /\ f[0] = 0
      /\ \A i \in 1 .. n : f[i] = f[i - 1] + b[i - 1] * Power(i - 1)
      /\ \A k \in 0 .. n : Value(b, k) = f[k]
  BY <1>1 DEF Sums
<1>3. ASSUME NEW k \in 0 .. n - 1 PROVE Value(b, k + 1) = Value(b, k) + b[k] * Power(k)
  <2>1. k + 1 \in 1 .. n /\ k + 1 \in 0 .. n /\ k \in 0 .. n /\ (k + 1) - 1 = k
    OBVIOUS
  <2> QED
    BY <1>2, <2>1
<1>4. 0 \in 0 .. n
  OBVIOUS
<1> QED
  BY <1>2, <1>3, <1>4

\* k bytes make less than Power(k).
LEMMA ValueBound ==
  ASSUME NEW n \in Nat, NEW b, AreBytes(b, n)
  PROVE  \A k \in 0 .. n : Value(b, k) < Power(k)
<1> DEFINE T == {k \in 0 .. n : Value(b, k) < Power(k)}
<1>1. 0 \in T
  BY ValueSteps, PowerSteps
<1>2. ASSUME NEW m \in 0 .. n - 1, m \in T PROVE m + 1 \in T
  <2>1. m \in Nat /\ m \in 0 .. n /\ m + 1 \in 0 .. n
    OBVIOUS
  <2>2. PICK v \in Nat, p \in Nat, x \in Nat, d \in Nat :
          v = Value(b, m) /\ p = Power(m) /\ x = b[m] /\ d = Base
    <3>1. Value(b, m) \in Nat
      BY <2>1, ValueSteps
    <3>2. Power(m) \in Nat
      BY <2>1, PowerSteps
    <3>3. b[m] \in Nat /\ Base \in Nat
      BY Sizes DEF AreBytes
    <3> QED
      BY <3>1, <3>2, <3>3
  <2>3. v < p /\ x <= d - 1
    BY <1>2, <2>2 DEF AreBytes
  <2>4. Value(b, m + 1) = v + x * p /\ Power(m + 1) = p * d
    BY <2>1, <2>2, ValueSteps, PowerSteps
  <2>5. v + x * p < p * d
    <3>1. PICK e \in Nat : d = e + 1 + x
      <4>1. d - 1 - x \in Nat /\ d = (d - 1 - x) + 1 + x
        BY <2>3
      <4> QED
        BY <4>1
    <3>2. e * p \in Nat /\ x * p \in Nat /\ p * d = (e * p) + p + (x * p)
      BY <3>1
    <3> QED
      BY <2>2, <2>3, <3>2
  <2> QED
    BY <2>1, <2>4, <2>5
<1>3. \A k \in 0 .. n : k \in T
  <2> HIDE DEF T
  <2> QED
    BY <1>1, <1>2, Climb
<1> QED
  BY <1>3

\* Greater bytes make a greater number.
LEMMA ValueGrows ==
  ASSUME NEW n \in Nat, NEW b, AreBytes(b, n), NEW c, AreBytes(c, n), \A i \in 0 .. n - 1 : b[i] <= c[i]
  PROVE  Value(b, n) <= Value(c, n)
<1> DEFINE T == {k \in 0 .. n : Value(b, k) <= Value(c, k)}
<1>1. 0 \in T
  BY ValueSteps
<1>2. ASSUME NEW m \in 0 .. n - 1, m \in T PROVE m + 1 \in T
  <2>1. m \in Nat /\ m \in 0 .. n /\ m + 1 \in 0 .. n
    OBVIOUS
  <2>2. PICK v \in Nat, w \in Nat, p \in Nat, x \in Nat, y \in Nat :
          v = Value(b, m) /\ w = Value(c, m) /\ p = Power(m) /\ x = b[m] /\ y = c[m]
    <3>1. Value(b, m) \in Nat /\ Value(c, m) \in Nat
      BY <2>1, ValueSteps
    <3>2. Power(m) \in Nat
      BY <2>1, PowerSteps
    <3>3. b[m] \in Nat /\ c[m] \in Nat
      BY Sizes DEF AreBytes
    <3> QED
      BY <3>1, <3>2, <3>3
  <2>3. v <= w /\ x <= y
    BY <1>2, <2>2
  <2>4. Value(b, m + 1) = v + x * p /\ Value(c, m + 1) = w + y * p
    BY <2>1, <2>2, ValueSteps
  <2>5. v + x * p <= w + y * p
    <3>1. y - x \in Nat
      BY <2>2, <2>3
    <3>2. (y - x) * p \in Nat /\ (y - x) * p = y * p - x * p
      BY <2>2, <3>1
    <3>3. x * p \in Nat /\ y * p \in Nat
      BY <2>2
    <3> QED
      BY <2>2, <2>3, <3>2, <3>3
  <2> QED
    BY <2>1, <2>4, <2>5
<1>3. \A k \in 0 .. n : k \in T
  <2> HIDE DEF T
  <2> QED
    BY <1>1, <1>2, Climb
<1> QED
  BY <1>3

\* v is l and a multiple of p above it.
Above(v, l, p) == \E h \in Nat : v = l + h * p

\* What is above byte i - 1 is a multiple of Power(i), and so is the power of a
\* longer word.
LEMMA UpperPart ==
  ASSUME NEW n \in Nat, NEW b, AreBytes(b, n), NEW i \in 0 .. n
  PROVE  Above(Value(b, n), Value(b, i), Power(i)) /\ Above(Power(n), 0, Power(i))
<1> DEFINE T == {k \in 0 .. n - i : Above(Value(b, i + k), Value(b, i), Power(i)) /\ Above(Power(i + k), 0, Power(i))}
<1>0. PICK v \in Nat, p \in Nat : v = Value(b, i) /\ p = Power(i) /\ p > 0
  BY ValueSteps, PowerSteps
<1>1. 0 \in T
  <2>1. i + 0 = i /\ v = v + 0 * p /\ p = 0 + 1 * p /\ 0 \in Nat /\ 1 \in Nat /\ 0 \in 0 .. n - i
    BY <1>0
  <2> QED
    BY <1>0, <2>1 DEF Above
<1>2. ASSUME NEW m \in 0 .. (n - i) - 1, m \in T PROVE m + 1 \in T
  <2>1. PICK j \in Nat : j = i + m
    OBVIOUS
  <2>2. j \in 0 .. n - 1 /\ j \in 0 .. n /\ i + (m + 1) = j + 1 /\ m + 1 \in 0 .. n - i
    BY <2>1
  <2>3. Above(Value(b, j), v, p) /\ Above(Power(j), 0, p)
    BY <1>0, <1>2, <2>1
  <2>4. PICK g \in Nat, q \in Nat : Value(b, j) = v + g * p /\ Power(j) = 0 + q * p
    BY <2>3 DEF Above
  <2>5. PICK x \in Nat, d \in Nat : x = b[j] /\ d = Base
    BY <2>2, Sizes DEF AreBytes
  <2>6. Value(b, j + 1) = Value(b, j) + x * Power(j) /\ Power(j + 1) = Power(j) * d
    BY <2>2, <2>5, ValueSteps, PowerSteps
  <2>7. PICK e \in Nat, r \in Nat : e = g + x * q /\ r = q * d
    BY <2>4, <2>5
  <2>8. (v + g * p) + x * (0 + q * p) = v + e * p /\ (0 + q * p) * d = 0 + r * p
    BY <1>0, <2>4, <2>5, <2>7
  <2>9. Above(Value(b, j + 1), v, p) /\ Above(Power(j + 1), 0, p)
    BY <2>4, <2>6, <2>7, <2>8 DEF Above
  <2> QED
    BY <1>0, <2>2, <2>9
<1>3. n - i \in Nat /\ n - i \in 0 .. n - i /\ i + (n - i) = n
  OBVIOUS
<1>4. \A k \in 0 .. n - i : k \in T
  <2> HIDE DEF T
  <2> QED
    BY <1>1, <1>2, <1>3, Climb
<1> QED
  BY <1>3, <1>4

\* v has x between the part below p and the multiples of p times Base.
HasDigit(v, x, p) ==
  \E l \in 0 .. p - 1, h \in Int : v = l + x * p + h * (p * Base)

\* Division takes that digit out of v.
LEMMA Digit ==
  ASSUME NEW p \in Nat, p > 0, NEW x \in 0 .. Base - 1, NEW v, HasDigit(v, x, p)
  PROVE  (v \div p) % Base = x
<1>0. Base \in Nat /\ Base > 0
  BY Sizes
<1>1. PICK l \in 0 .. p - 1, h \in Int : v = l + x * p + h * (p * Base)
  BY DEF HasDigit
<1>2. PICK q \in Int : q = (h * Base) + x
  BY <1>0
<1>3. v = (q * p) + l
  BY <1>0, <1>1, <1>2
<1>4. ((q * p) + l) \div p = q
  BY Division
<1>5. ((h * Base) + x) % Base = x
  BY <1>0, Division
<1> QED
  BY <1>2, <1>3, <1>4, <1>5

\* The number of a word and mask01 at a byte that is zero with none below it:
\* the byte of the difference is Base - 1, since nothing is borrowed by the
\* bytes below, and the byte itself borrows.
LEMMA Borrows ==
  ASSUME NEW p \in Nat, p > 0, NEW u \in Nat, u = p * Base, NEW l \in 0 .. p - 1, NEW r \in 0 .. l,
         NEW w \in Nat, Above(w, l, u), NEW m \in Nat, Above(m, r + p, u),
         NEW n \in Nat, n > 0, Above(n, 0, u)
  PROVE  HasDigit((w + n - m) % n, Base - 1, p)
<1>1. PICK d \in Nat : d = Base
  BY Sizes
<1>2. PICK h \in Nat, g \in Nat, q \in Nat : w = l + h * u /\ m = (r + p) + g * u /\ n = 0 + q * u
  BY DEF Above
<1>3. PICK y \in Int : y = w + n - m
  OBVIOUS
<1>4. y = (l + h * u) + q * u - ((r + p) + g * u)
  BY <1>2, <1>3
<1>5. PICK z \in Int : y = (z * n) + (y % n)
  <2>1. y \div n \in Int /\ y = ((y \div n) * n) + (y % n)
    BY Division
  <2> QED
    BY <2>1
<1>6. y % n \in Int
  <2>1. y % n \in 0 .. n - 1
    BY Division
  <2> QED
    BY <2>1
<1>7. PICK k \in Int : k = h + q - g - z * q - 1
  OBVIOUS
<1>8. (d - 1) * p = u - p
  BY <1>1
<1>9. y - z * n = (l - r) - p + (h + q - g - z * q) * u
  <2>1. n = q * u
    BY <1>2
  <2> QED
    BY <1>4, <2>1
<1>10. (h + q - g - z * q) * u = k * u + u
  BY <1>7
<1>11. y % n = (l - r) + (d - 1) * p + k * u
  BY <1>5, <1>6, <1>8, <1>9, <1>10
<1>12. l - r \in 0 .. p - 1
  OBVIOUS
<1> QED
  BY <1>1, <1>3, <1>11, <1>12 DEF HasDigit

\* A word that holds a zero byte is found to: its lowest zero sets the upper
\* bit of va & vb.
LEMMA LowestZero ==
  ASSUME NEW b, AreBytes(b, W), NEW i \in 0 .. W - 1, b[i] = 0, \A j \in 0 .. i - 1 : b[j] >= 1
  PROVE  MayHoldZero(Value(b, W))
<1> DEFINE ones == [j \in 0 .. W - 1 |-> 1]
<1>0. W \in Nat /\ i \in Nat /\ i \in 0 .. W /\ i + 1 \in 0 .. W /\ Base \in Nat /\ Base > 1
  BY Sizes
<1>1. AreBytes(ones, W) /\ ones[i] = 1
  BY <1>0 DEF AreBytes
<1>2. mask01 = Value(ones, W)
  BY DEF mask01
<1>3. Value(ones, i) <= Value(b, i)
  <2>1. \A j \in 0 .. i - 1 : j \in 0 .. W - 1 /\ ones[j] = 1
    BY <1>0
  <2> HIDE DEF ones
  <2>2. AreBytes(b, i) /\ AreBytes(ones, i) /\ \A j \in 0 .. i - 1 : ones[j] <= b[j]
    BY <1>1, <2>1 DEF AreBytes
  <2> QED
    BY <1>0, <2>2, ValueGrows
<1> HIDE DEF ones
<1>4. PICK p \in Nat, l \in Nat, r \in Nat : p = Power(i) /\ l = Value(b, i) /\ r = Value(ones, i)
  <2>1. Power(i) \in Nat
    BY <1>0, PowerSteps
  <2>2. Value(b, i) \in Nat /\ Value(ones, i) \in Nat
    BY <1>0, <1>1, ValueSteps
  <2> QED
    BY <2>1, <2>2
<1>5. p > 0 /\ l \in 0 .. p - 1 /\ r \in 0 .. l
  <2>1. Power(i) > 0
    BY <1>0, PowerSteps
  <2>2. Value(b, i) < Power(i)
    BY <1>0, ValueBound
  <2> QED
    BY <1>3, <1>4, <2>1, <2>2
<1>6. Value(b, i + 1) = l /\ Value(ones, i + 1) = r + p /\ Power(i + 1) = p * Base
  <2>1. Value(b, i + 1) = Value(b, i) + 0 * Power(i)
    BY <1>0, ValueSteps
  <2>2. Value(ones, i + 1) = Value(ones, i) + 1 * Power(i)
    BY <1>0, <1>1, ValueSteps
  <2>3. Power(i + 1) = Power(i) * Base
    BY <1>0, PowerSteps
  <2> QED
    BY <1>4, <2>1, <2>2, <2>3
<1>7. PICK w \in Nat, m \in Nat, n \in Nat, u \in Nat :
        /\ w = Value(b, W) /\ m = Value(ones, W) /\ n = Power(W) /\ n > 0 /\ u = p * Base
        /\ Above(w, l, u) /\ Above(m, r + p, u) /\ Above(n, 0, u)
  <2>1. Above(Value(b, W), Value(b, i + 1), Power(i + 1)) /\ Above(Power(W), 0, Power(i + 1))
    BY <1>0, UpperPart
  <2>2. Above(Value(ones, W), Value(ones, i + 1), Power(i + 1))
    BY <1>0, <1>1, UpperPart
  <2>3. Above(Value(b, W), l, p * Base) /\ Above(Power(W), 0, p * Base) /\ Above(Value(ones, W), r + p, p * Base)
    BY <1>6, <2>1, <2>2
  <2>4. p * Base \in Nat
    BY <1>0
  <2>5. Value(b, W) \in Nat /\ Value(ones, W) \in Nat
    <3>1. W \in 0 .. W
      BY <1>0
    <3> QED
      BY <1>0, <1>1, <3>1, ValueSteps
  <2>6. Power(W) \in Nat /\ Power(W) > 0
    BY <1>0, PowerSteps
  <2> QED
    BY <2>3, <2>4, <2>5, <2>6
<1>8. PICK va : va = (w + n - m) % n
  OBVIOUS
<1>9. ~ UpperBit(w, i)
  <2>1. 0 \in 0 .. Base - 1 /\ 0 * p = 0 /\ l + 0 * p = l
    BY <1>0, <1>5
  <2>2. HasDigit(w, 0, p)
    BY <1>5, <1>7, <2>1 DEF HasDigit, Above
  <2>3. (w \div p) % Base = 0
    BY <1>5, <2>1, <2>2, Digit
  <2>4. ~ (0 >= Base \div 2)
    BY Sizes
  <2> QED
    BY <1>4, <2>3, <2>4 DEF UpperBit
<1>10. UpperBit(va, i)
  <2>1. HasDigit(va, Base - 1, p)
    BY <1>5, <1>7, <1>8, Borrows
  <2>2. Base - 1 \in 0 .. Base - 1
    BY <1>0
  <2>3. (va \div p) % Base = Base - 1
    BY <1>5, <2>1, <2>2, Digit
  <2>4. Base - 1 >= Base \div 2
    BY Sizes
  <2> QED
    BY <1>4, <2>3, <2>4 DEF UpperBit
<1> QED
  BY <1>2, <1>7, <1>8, <1>9, <1>10 DEF MayHoldZero

------------------------------------------------------------------------------
(* __vlen *)

\* The least element of a set is the one that is not above another.
LEMMA LeastIs ==
  ASSUME NEW S, S \subseteq Int, NEW x \in S, \A y \in S : x <= y
  PROVE  Least(S) = x
<1>1. Least(S) \in S /\ \A y \in S : Least(S) <= y
  BY DEF Least
<1>2. PICK l \in Int : l = Least(S)
  BY <1>1
<1>3. x \in Int /\ l <= x /\ x <= l
  BY <1>1, <1>2
<1> QED
  BY <1>2, <1>3

\* Where the word of address a begins.
WordOf(a) == a - (a % W)

\* That is an aligned address, and the last one that is not above a.
LEMMA WordBegins ==
  ASSUME NEW a \in Int
  PROVE  /\ WordOf(a) \in Int /\ Aligned(WordOf(a)) /\ WordOf(a) <= a /\ a <= WordOf(a) + W - 1
         /\ \A x \in Int : Aligned(x) /\ a <= x + W - 1 => WordOf(a) <= x
<1>0. W \in Nat /\ W > 0
  BY ByteAssumption
<1>1. PICK q \in Int, r \in 0 .. W - 1 : a = (q * W) + r /\ r = a % W
  <2>1. a \div W \in Int /\ a % W \in 0 .. W - 1 /\ a = ((a \div W) * W) + (a % W)
    BY <1>0, Division
  <2> QED
    BY <2>1
<1>2. WordOf(a) = (q * W) + 0 /\ WordOf(a) \in Int /\ WordOf(a) <= a /\ a <= WordOf(a) + W - 1
  BY <1>0, <1>1 DEF WordOf
<1>3. Aligned(WordOf(a))
  <2>1. ((q * W) + 0) % W = 0
    <3>1. 0 \in 0 .. W - 1
      BY <1>0
    <3> QED
      BY <1>0, <3>1, Division
  <2> QED
    BY <1>2, <2>1 DEF Aligned
<1>4. ASSUME NEW x \in Int, Aligned(x), a <= x + W - 1 PROVE WordOf(a) <= x
  <2>1. PICK p \in Int : x = p * W
    <3>1. x \div W \in Int /\ x = ((x \div W) * W) + (x % W) /\ x % W = 0
      BY <1>0, <1>4, Division DEF Aligned
    <3>2. x = (x \div W) * W
      BY <1>0, <3>1
    <3> QED
      BY <3>1, <3>2
  <2>2. q <= p
    <3> SUFFICES ASSUME q >= p + 1 PROVE FALSE
      OBVIOUS
    <3>1. PICK e \in Nat : q = p + 1 + e
      <4>1. q - p - 1 \in Nat /\ q = p + 1 + (q - p - 1)
        OBVIOUS
      <4> QED
        BY <4>1
    <3>2. q * W = (p * W) + W + (e * W) /\ e * W \in Nat
      BY <1>0, <3>1
    <3> QED
      BY <1>0, <1>1, <1>4, <2>1, <3>2
  <2>3. PICK e \in Nat : p = q + e
    <3>1. p - q \in Nat /\ p = q + (p - q)
      BY <2>2
    <3> QED
      BY <3>1
  <2>4. p * W = (q * W) + (e * W) /\ e * W \in Nat
    BY <1>0, <2>3
  <2> QED
    BY <1>0, <1>2, <2>1, <2>4
<1> QED
  BY <1>2, <1>3, <1>4

\* z is the first zero of the string at str.
EndsAt(mem, str, z) == mem[z] = 0 /\ \A p \in str .. z - 1 : mem[p] # 0

\* The word of the end is found to hold a zero.
LEMMA WordIsSeen ==
  ASSUME NEW lo \in Int, NEW hi \in Int, NEW mem \in [lo .. hi -> 0 .. Base - 1],
         NEW lp \in lo .. hi, lp + W - 1 <= hi, NEW z \in lp .. lp + W - 1, mem[z] = 0
  PROVE  MayHoldZero(Word(mem, lp))
<1> DEFINE b == [i \in 0 .. W - 1 |-> mem[lp + i]]
           S == {i \in 0 .. W - 1 : b[i] = 0}
<1>0. W \in Nat /\ Base \in Nat /\ Base > 1
  BY Sizes
<1>1. \A i \in 0 .. W - 1 : b[i] = mem[lp + i] /\ lp + i \in lo .. hi
  BY <1>0
<1>2. AreBytes(b, W)
  <2> HIDE DEF b
  <2> QED
    BY <1>1 DEF AreBytes
<1>3. z - lp \in S
  <2>1. z - lp \in 0 .. W - 1 /\ lp + (z - lp) = z
    BY <1>0
  <2> QED
    BY <2>1
<1>4. Word(mem, lp) = Value(b, W)
  BY DEF Word
<1> HIDE DEF b
<1>5. PICK i \in S : \A m \in S : i <= m
  <2>1. S \subseteq Nat /\ S # {}
    BY <1>0, <1>3
  <2> HIDE DEF S
  <2> QED
    BY <2>1, LeastElement
<1>6. ASSUME NEW j \in 0 .. i - 1 PROVE b[j] >= 1
  <2>1. j \in 0 .. W - 1 /\ ~ (i <= j)
    BY <1>0, <1>5
  <2>2. b[j] # 0 /\ b[j] \in 0 .. Base - 1
    BY <1>2, <1>5, <2>1 DEF AreBytes
  <2> QED
    BY <1>0, <2>2
<1>7. i \in 0 .. W - 1 /\ b[i] = 0
  BY <1>5
<1> QED
  BY <1>2, <1>4, <1>6, <1>7, LowestZero

\* __vlen is strlen: in every memory that has the words from the begin of the
\* string to its end, it returns the distance of the first zero from str,
\* wherever in a word the string begins and whatever stands in front of it.
THEOREM VlenIsStrlen ==
  ASSUME NEW lo \in Int, NEW hi \in Int, NEW mem \in [lo .. hi -> 0 .. Base - 1],
         NEW str \in Int, lo <= WordOf(str),
         NEW z \in Int, str <= z, WordOf(z) + W - 1 <= hi, EndsAt(mem, str, z)
  PROVE  vlen(mem, str) = z - str
<1> DEFINE S == {w \in WordsFrom(mem, str) : MayHoldZero(Word(mem, w)) /\ Zeros(mem, str, w) # {}}
<1>0. W \in Nat /\ W > 0
  BY ByteAssumption
<1>1. PICK lz \in Int : lz = WordOf(z)
  BY WordBegins
<1>2. /\ Aligned(lz) /\ lz <= z /\ z <= lz + W - 1
      /\ \A x \in Int : Aligned(x) /\ z <= x + W - 1 => lz <= x
  BY <1>1, WordBegins
<1>3. WordOf(str) \in Int /\ WordOf(str) <= str /\ WordOf(str) <= lz
  <2>1. WordOf(str) \in Int /\ WordOf(str) <= str /\ \A x \in Int : Aligned(x) /\ str <= x + W - 1 => WordOf(str) <= x
    BY WordBegins
  <2>2. str <= lz + W - 1
    BY <1>0, <1>2
  <2> QED
    BY <1>2, <2>1, <2>2
<1>4. DOMAIN mem = lo .. hi /\ lz \in lo .. hi /\ lz + W - 1 \in lo .. hi /\ lz + W - 1 <= hi /\ z \in lz .. lz + W - 1
  BY <1>0, <1>1, <1>2, <1>3
<1>5. mem[z] = 0 /\ \A p \in str .. z - 1 : mem[p] # 0
  BY DEF EndsAt
<1>6. z \in Zeros(mem, str, lz)
  BY <1>4, <1>5 DEF Zeros
<1>7. ASSUME NEW w, NEW p \in Zeros(mem, str, w) PROVE p \in Int /\ z <= p /\ p \in w .. w + W - 1
  <2>1. p \in w .. w + W - 1 /\ p >= str /\ mem[p] = 0 /\ p \in Int
    BY DEF Zeros
  <2> QED
    BY <1>5, <2>1
<1>8. lz \in S
  <2>1. MayHoldZero(Word(mem, lz))
    BY <1>4, <1>5, WordIsSeen
  <2>2. lz \in WordsFrom(mem, str)
    BY <1>2, <1>3, <1>4 DEF WordsFrom, WordOf
  <2> QED
    BY <1>6, <2>1, <2>2
<1>9. ASSUME NEW w \in S PROVE w \in Int /\ lz <= w
  <2>1. w \in DOMAIN mem /\ Aligned(w)
    BY DEF WordsFrom
  <2>2. w \in Int
    BY <1>4, <2>1
  <2>3. PICK p : p \in Zeros(mem, str, w)
    OBVIOUS
  <2>4. z <= w + W - 1
    BY <1>0, <1>7, <2>2, <2>3
  <2> QED
    BY <1>2, <2>1, <2>2, <2>4
<1>10. Least(S) = lz
  <2>1. S \subseteq Int /\ \A w \in S : lz <= w
    BY <1>9
  <2> HIDE DEF S
  <2> QED
    BY <1>8, <2>1, LeastIs
<1>11. Least(Zeros(mem, str, lz)) = z
  <2>1. Zeros(mem, str, lz) \subseteq Int /\ \A p \in Zeros(mem, str, lz) : z <= p
    BY <1>7
  <2> QED
    BY <1>6, <2>1, LeastIs
<1>12. vlen(mem, str) = Least(Zeros(mem, str, Least(S))) - str
  BY Zenon DEF vlen
<1> QED
  BY <1>10, <1>11, <1>12

\* A text of n bytes and W zeros, read from str on.
IsText(mem, str, n) ==
  /\ mem \in [0 .. n + W - 1 -> 0 .. Base - 1] /\ str \in 0 .. W - 1
  /\ \A a \in n .. n + W - 1 : mem[a] = 0

\* Its end is in a word of the memory.
LEMMA TextEnds ==
  ASSUME NEW n \in Nat, NEW mem, NEW str, IsText(mem, str, n)
  PROVE  \E z \in Nat : str <= z /\ WordOf(z) + W - 1 <= n + W - 1 /\ EndsAt(mem, str, z)
<1> DEFINE S == {a \in 0 .. n + W - 1 : str <= a /\ mem[a] = 0}
<1>0. /\ W \in Nat /\ W > 0 /\ str \in 0 .. W - 1 /\ str \in Nat
      /\ \A a \in n .. n + W - 1 : mem[a] = 0
  BY ByteAssumption DEF IsText
<1>1. PICK e \in Nat : e \in S /\ (e = n \/ (e = str /\ n <= str))
  <2>1. CASE str <= n
    <3>1. n \in n .. n + W - 1 /\ n \in 0 .. n + W - 1
      BY <1>0
    <3> QED
      BY <1>0, <2>1, <3>1
  <2>2. CASE ~ (str <= n)
    <3>1. str \in n .. n + W - 1 /\ str \in 0 .. n + W - 1
      BY <1>0, <2>2
    <3> QED
      BY <1>0, <2>2, <3>1
  <2> QED
    BY <2>1, <2>2
<1>2. PICK z \in S : \A m \in S : z <= m
  <2>1. S \subseteq Nat /\ S # {}
    BY <1>0, <1>1
  <2> HIDE DEF S
  <2> QED
    BY <2>1, LeastElement
<1>3. z \in Nat /\ str <= z /\ z \in 0 .. n + W - 1 /\ mem[z] = 0 /\ z <= e
  BY <1>0, <1>1, <1>2
<1>4. ASSUME NEW p \in str .. z - 1 PROVE mem[p] # 0
  <2>1. p \in 0 .. n + W - 1 /\ str <= p /\ ~ (z <= p)
    BY <1>0, <1>3
  <2> QED
    BY <1>2, <2>1
<1>5. WordOf(z) <= n
  <2>1. WordOf(z) \in Int /\ WordOf(z) <= z /\ \A x \in Int : Aligned(x) /\ z <= x + W - 1 => WordOf(z) <= x
    BY <1>3, WordBegins
  <2>2. CASE e = n
    BY <1>3, <2>1, <2>2
  <2>3. CASE e = str
    <3>1. Aligned(0) /\ 0 \in Int /\ z <= 0 + W - 1
      BY <1>0, <1>3, <2>3 DEF Aligned
    <3> QED
      BY <2>1, <3>1
  <2> QED
    BY <1>1, <2>2, <2>3
<1>6. WordOf(z) + W - 1 <= n + W - 1
  <2>1. WordOf(z) \in Int
    BY <1>3, WordBegins
  <2> QED
    BY <1>0, <1>5, <2>1
<1> QED
  BY <1>3, <1>4, <1>6 DEF EndsAt

\* __vlen counts the bytes of such a text.
LEMMA TextCounts ==
  ASSUME NEW n \in Nat, NEW mem, NEW str, IsText(mem, str, n)
  PROVE  /\ mem[str + vlen(mem, str)] = 0
         /\ \A i \in 0 .. vlen(mem, str) - 1 : mem[str + i] # 0
<1>0. W \in Nat /\ W > 0
  BY ByteAssumption
<1>1. PICK z \in Nat : str <= z /\ WordOf(z) + W - 1 <= n + W - 1 /\ EndsAt(mem, str, z)
  BY TextEnds
<1>2. PICK lo \in Int, hi \in Int : lo = 0 /\ hi = n + W - 1
  BY <1>0
<1>3. mem \in [lo .. hi -> 0 .. Base - 1] /\ str \in 0 .. W - 1 /\ str \in Int
  BY <1>0, <1>2 DEF IsText
<1>4. lo <= WordOf(str)
  <2>1. WordOf(str) \in Int /\ Aligned(WordOf(str)) /\ WordOf(str) <= str /\ str <= WordOf(str) + W - 1
    BY <1>3, WordBegins
  <2>2. PICK q \in Int : WordOf(str) = q * W
    <3>1. WordOf(str) \div W \in Int /\ WordOf(str) = ((WordOf(str) \div W) * W) + (WordOf(str) % W) /\ WordOf(str) % W = 0
      BY <1>0, <2>1, Division DEF Aligned
    <3>2. WordOf(str) = (WordOf(str) \div W) * W
      BY <1>0, <3>1
    <3> QED
      BY <3>1, <3>2
  <2>3. q >= 0
    <3> SUFFICES ASSUME q <= -1 PROVE FALSE
      OBVIOUS
    <3>1. PICK e \in Nat : q = -1 - e
      <4>1. -1 - q \in Nat /\ q = -1 - (-1 - q)
        OBVIOUS
      <4> QED
        BY <4>1
    <3>2. q * W = -W - (e * W) /\ e * W \in Nat
      BY <1>0, <3>1
    <3> QED
      BY <1>0, <1>3, <2>1, <2>2, <3>2
  <2>4. q \in Nat
    BY <2>3
  <2>5. q * W \in Nat
    BY <1>0, <2>4
  <2> QED
    BY <1>2, <2>2, <2>5
<1>5. vlen(mem, str) = z - str
  <2>1. WordOf(z) + W - 1 <= hi
    BY <1>1, <1>2
  <2> QED
    BY <1>1, <1>3, <1>4, <2>1, VlenIsStrlen
<1>6. mem[z] = 0 /\ \A p \in str .. z - 1 : mem[p] # 0
  BY <1>1 DEF EndsAt
<1>7. str + (z - str) = z /\ \A i \in 0 .. (z - str) - 1 : str + i \in str .. z - 1
  BY <1>1, <1>3
<1> QED
  BY <1>5, <1>6, <1>7

\* VlenCounts: for every text a run reads, and wherever in the first word it
\* begins, __vlen returns the distance of the first zero.
THEOREM VlenAlwaysCounts == Spec => []VlenCounts
<1> DEFINE Inv == \E n \in Nat : IsText(text.mem, text.str, n)
<1>0. W \in Nat /\ W > 0 /\ Base \in Nat /\ Base > 1 /\ TextSize \in Nat
  BY Sizes, BoundsAssumption
<1>1. Init => Inv
  <2>1. 0 + W - 1 = W - 1 /\ 0 \in 0 .. W - 1 /\ 0 \in 0 .. Base - 1
    BY <1>0
  <2>2. None.mem = [a \in 0 .. W - 1 |-> 0] /\ None.str = 0
    BY DEF None
  <2>3. IsText(None.mem, None.str, 0)
    BY <1>0, <2>1, <2>2 DEF IsText
  <2> QED
    BY <2>3 DEF Init, Fresh
<1>2. Inv /\ [Next]_vars => Inv'
  <2> SUFFICES ASSUME Inv, [Next]_vars PROVE Inv'
    OBVIOUS
  <2>1. CASE ChooseText
    <3>1. text' \in Texts
      BY <2>1 DEF ChooseText
    <3>2. PICK f \in [0 .. TextSize - 1 -> 0 .. Base - 1] :
            text'.mem = [a \in 0 .. TextSize + W - 1 |-> IF a < TextSize THEN f[a] ELSE 0]
      BY <3>1 DEF Texts
    <3>3. text'.str \in 0 .. W - 1
      BY <3>1 DEF Texts
    <3>4. ASSUME NEW a \in 0 .. TextSize + W - 1
          PROVE  (IF a < TextSize THEN f[a] ELSE 0) \in 0 .. Base - 1
      BY <1>0
    <3>5. text'.mem \in [0 .. TextSize + W - 1 -> 0 .. Base - 1]
      BY <3>2, <3>4
    <3>6. ASSUME NEW a \in TextSize .. TextSize + W - 1 PROVE text'.mem[a] = 0
      BY <1>0, <3>2
    <3>7. IsText(text'.mem, text'.str, TextSize)
      BY <3>3, <3>5, <3>6 DEF IsText
    <3> QED
      BY <1>0, <3>7
  <2>2. CASE UNCHANGED text
    BY <2>2
  <2> QED
    BY <2>1, <2>2 DEF Next, ChooseRows, Reorder, SendFirst, ChooseMove, vars
<1>3. Inv => VlenCounts
  <2> SUFFICES ASSUME Inv PROVE VlenCounts
    OBVIOUS
  <2>1. PICK n \in Nat : IsText(text.mem, text.str, n)
    OBVIOUS
  <2>2. /\ text.mem[text.str + vlen(text.mem, text.str)] = 0
        /\ \A i \in 0 .. vlen(text.mem, text.str) - 1 : text.mem[text.str + i] # 0
    BY <2>1, TextCounts
  <2> QED
    BY <2>2 DEF VlenCounts
<1> QED
  BY <1>1, <1>2, <1>3, PTL DEF Spec

==============================================================================
