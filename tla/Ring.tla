-------------------------------- MODULE Ring --------------------------------
(***************************************************************************)
(* Arithmetic on the positions of a ring of N slots, shared by the rings   *)
(* of the program: the receive manager's node buffer and the log's line    *)
(* queue.  Both hold a power of two of slots (0x100), so the code's        *)
(* "(i + 1) & 0xFF" and "(i + 1) % RB_LOG_BUFFER_SIZE" are the same        *)
(* successor.                                                              *)
(***************************************************************************)
EXTENDS Integers

CONSTANT N    \* number of slots

ASSUME NAssumption == N \in Nat \ {0}

Index == 0 .. N - 1

\* Mutant of Succ: the mask is forgotten.
SuccUnmasked(i) == i + 1

\* The slot after i.
Succ(i) == IF i = N - 1 THEN 0 ELSE i + 1

\* The slot k places after i, for k in 0..N.
Plus(i, k) == IF i + k >= N THEN i + k - N ELSE i + k

\* How many places after i slot j is.
Dist(i, j) == IF j >= i THEN j - i ELSE j - i + N

\* A circular scan that starts at `start', goes once round the ring and
\* returns the first slot of S it meets; S is not empty.
Scan(start, S) ==
  Plus(start, CHOOSE k \in Index : /\ Plus(start, k) \in S
                                   /\ \A j \in 0 .. k - 1 : Plus(start, j) \notin S)

=============================================================================
