---------------------------- MODULE MCAlgorithms ----------------------------
(***************************************************************************)
(* The program's algorithms against what they stand for, each on every     *)
(* input up to a bound: the two sorts on arrays of at most MaxRows rows,   *)
(* the copies on a memory of MemSize bytes at every pair of addresses and  *)
(* every length, the string length on every text of TextSize bytes from    *)
(* every address of the first word.                                        *)
(***************************************************************************)
EXTENDS DeadlineSort, PoolOps, ByteOps

CONSTANTS MaxRows, MaxDeadline, MemSize, TextSize

ASSUME BoundsAssumption ==
  MaxRows \in Nat /\ MaxDeadline \in Nat /\ MemSize \in Nat /\ TextSize \in Nat

VARIABLES
  rows,     \* an array to sort: a row is its place in the first array and its deadline
  move,     \* a copy: source, destination, length
  text      \* the memory a string is read from, and where it begins

vars == <<rows, move, text>>

Arrays == UNION {[1 .. n -> 0 .. MaxDeadline] : n \in 0 .. MaxRows}

Moves == {m \in [src : 0 .. MemSize, dst : 0 .. MemSize, length : 0 .. MemSize] :
            m.src + m.length <= MemSize /\ m.dst + m.length <= MemSize}

\* A string ends: W zeros follow the text.
Texts == [mem : {[a \in 0 .. TextSize + W - 1 |-> IF a < TextSize THEN f[a] ELSE 0] :
                   f \in [0 .. TextSize - 1 -> 0 .. Base - 1]},
          str : 0 .. W - 1]

None == [mem |-> [a \in 0 .. W - 1 |-> 0], str |-> 0]

NoMove == [src |-> 0, dst |-> 0, length |-> 0]

Fresh == rows = << >> /\ move = NoMove /\ text = None

Init == Fresh

ChooseRows ==
  /\ Fresh
  /\ \E a \in Arrays : rows' = [i \in 1 .. Len(a) |-> [session |-> i, deadline |-> a[i]]]
  /\ UNCHANGED <<move, text>>

Reorder ==
  /\ rows # << >>
  /\ rows' = Reordered(rows)
  /\ UNCHANGED <<move, text>>

\* A send sets the first deadline to 0.
SendFirst ==
  /\ rows # << >>
  /\ rows' = [rows EXCEPT ![1].deadline = 0]
  /\ UNCHANGED <<move, text>>

ChooseMove ==
  /\ Fresh
  /\ move' \in Moves
  /\ UNCHANGED <<rows, text>>

ChooseText ==
  /\ Fresh
  /\ text' \in Texts
  /\ UNCHANGED <<rows, move>>

Next == ChooseRows \/ Reorder \/ SendFirst \/ ChooseMove \/ ChooseText

Spec == Init /\ [][Next]_vars

------------------------------------------------------------------------------
(* Properties *)

\* The rows as nodes of a pool that arrived at the rows' deadlines, and back.
AsPool(s) == [i \in 1 .. Len(s) |-> [id |-> s[i].deadline, bytes |-> s[i].session]]
AsRows(p) == [i \in 1 .. Len(p) |-> [session |-> p[i].bytes, deadline |-> p[i].id]]

\* The binary insertion sort of _reorder_thread, and the one of a pool by
\* arrival, return what they were given, each row once, in order, equal ones in
\* the order they had: a session does not lose its turn to another with the
\* same deadline, and nodes that arrived together are sent in order.
SortCorrect ==
  /\ StableSortOf(Reordered(rows), rows)
  /\ StableSortOf(AsRows(SortedByArrival(AsPool(rows))), rows)

\* Each byte of the memory, by its address.
Memory == [a \in 0 .. MemSize - 1 |-> a]

\* The pool a session moves down over itself arrives whole: __bcpy is memmove,
\* for every overlap and every alignment, and __vcpy, which copies upwards
\* only, is so too unless the destination lies inside the source, above its
\* begin.
CopiesMove ==
  /\ bcpy(Memory, move.src, move.dst, move.length) = Moved(Memory, move.src, move.dst, move.length)
  /\ ~ (move.src < move.dst /\ move.dst < move.src + move.length) =>
       vcpy(Memory, move.dst, move.src, move.length) = Moved(Memory, move.src, move.dst, move.length)

\* __vlen returns the distance of the first zero byte: a zero in front of the
\* string, in its first word, is not taken for the end, and no borrow of the
\* subtraction hides one.
VlenCounts ==
  LET n == vlen(text.mem, text.str)
  IN  /\ text.mem[text.str + n] = 0
      /\ \A i \in 0 .. n - 1 : text.mem[text.str + i] # 0

=============================================================================
