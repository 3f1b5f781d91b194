---------------------------- MODULE DeadlineSort ----------------------------
(***************************************************************************)
(* The sort of _reorder_thread (dmmr_scheduler.c): insertion sort on the   *)
(* deadline, with a binary search for the place of the key.  A row is a    *)
(* record with a field `deadline'; the array's places are 1 .. Len(s).     *)
(***************************************************************************)
EXTENDS Integers, Sequences

\* Mutant of Place: the search goes on to the left of an equal deadline.
PlaceBefore(s, i) ==
  LET search[left \in 1 .. i, right \in 0 .. i - 1] ==
        LET mid == (left + right) \div 2
        IN  IF left > right THEN left
            ELSE IF s[mid].deadline < s[i].deadline
                 THEN search[mid + 1, right]
                 ELSE search[left, mid - 1]
  IN  search[1, i - 1]

\* The binary search among the rows before row i: what it returns from each
\* <<left, right>>.
Search(s, i) ==
  LET search[w \in (1 .. i) \X (0 .. i - 1)] ==
        LET mid == (w[1] + w[2]) \div 2
        IN  IF w[1] > w[2] THEN w[1]
            ELSE IF s[mid].deadline <= s[i].deadline
                 THEN search[<<mid + 1, w[2]>>]
                 ELSE search[<<w[1], mid - 1>>]
  IN  search

\* Row i's place among the sorted rows before it.
Place(s, i) == Search(s, i)[<<1, i - 1>>]

\* The rows from the place on move one up, and the key goes to its place.
Inserted(s, i) ==
  LET place == Place(s, i)
  IN  [j \in 1 .. Len(s) |->
         CASE j = place              -> s[i]
           [] place < j /\ j <= i    -> s[j - 1]
           [] OTHER                  -> s[j]]

\* The array when the rows up to each i are in order.
Sorting(s) ==
  LET sorted[i \in 0 .. Len(s)] == IF i <= 1 THEN s ELSE Inserted(sorted[i - 1], i)
  IN  sorted

\* The array after one round of the thread.
Reordered(s) == Sorting(s)[Len(s)]

------------------------------------------------------------------------------
(* What the sort is for *)

SortedByDeadline(s) == \A i, j \in 1 .. Len(s) : i < j => s[i].deadline <= s[j].deadline

\* r holds the rows of s, each once; rows with equal deadlines keep their order.
StableSortOf(r, s) ==
  /\ SortedByDeadline(r)
  /\ \E p \in [1 .. Len(s) -> 1 .. Len(s)] :
       /\ \A i, j \in 1 .. Len(s) : p[i] = p[j] => i = j
       /\ \A i \in 1 .. Len(s) : r[i] = s[p[i]]
       /\ \A i, j \in 1 .. Len(s) : i < j /\ r[i].deadline = r[j].deadline => p[i] < p[j]

=============================================================================
