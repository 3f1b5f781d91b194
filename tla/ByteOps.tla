------------------------------ MODULE ByteOps ------------------------------
(***************************************************************************)
(* The byte functions of funcs.h that replace memmove, memcpy and strlen.  *)
(* Memory is a function from addresses to bytes; a word is W bytes and     *)
(* aligned at the multiples of W; a byte has Base values.  A loop that     *)
(* moves a byte or a word at a time is a fold over its rounds, since       *)
(* source and destination may overlap.                                     *)
(***************************************************************************)
EXTENDS Integers

CONSTANTS
  W,      \* sizeof(long)
  Base    \* 256

ASSUME ByteAssumption == W \in Nat \ {0} /\ Base \in Nat \ {0} /\ Base % 2 = 0

Aligned(a) == a % W = 0

\* `size' bytes from src are loaded and then stored at dst.
Moved(mem, src, dst, size) ==
  [a \in DOMAIN mem |-> IF a \in dst .. dst + size - 1 THEN mem[a - dst + src] ELSE mem[a]]

\* One round of a loop.  C gives an access to a word that is not aligned no
\* meaning: all of the memory is lost.
Store(mem, src, dst, size) ==
  IF size = W /\ ~ (Aligned(src) /\ Aligned(dst)) THEN [a \in DOMAIN mem |-> -1]
  ELSE Moved(mem, src, dst, size)

\* t rounds upwards from src and dst, `size' bytes each.
Upwards(mem, src, dst, size, t) ==
  LET after[i \in 0 .. t] ==
        IF i = 0 THEN mem
        ELSE Store(after[i - 1], src + (i - 1) * size, dst + (i - 1) * size, size)
  IN  after[t]

\* t rounds downwards, from the bytes below src and dst.
Downwards(mem, src, dst, size, t) ==
  LET after[i \in 0 .. t] ==
        IF i = 0 THEN mem ELSE Store(after[i - 1], src - i * size, dst - i * size, size)
  IN  after[t]

\* Mutant of Lead: the bytes up to the word boundary are taken for as many as
\* there are below it.
LeadBelow(src, dst, length) ==
  IF Aligned(src) /\ Aligned(dst) THEN 0
  ELSE IF src % W # dst % W \/ length < W THEN length ELSE src % W

\* The bytes copied one by one before the first word, in the forward copy: all
\* of them when no word boundary is common to source and destination.
Lead(src, dst, length) ==
  IF Aligned(src) /\ Aligned(dst) THEN 0
  ELSE IF src % W # dst % W \/ length < W THEN length ELSE W - (src % W)

\* The same for the backward copy, from the ends of source and destination.
Trail(src, dst, length) ==
  IF Aligned(src) /\ Aligned(dst) THEN 0
  ELSE IF src % W # dst % W \/ length <= W THEN length ELSE src % W

Forward(mem, src, dst, length) ==
  LET t     == Lead(src, dst, length)
      words == (length - t) \div W
      rest  == (length - t) % W
      m1    == Upwards(mem, src, dst, 1, t)
      m2    == Upwards(m1, src + t, dst + t, W, words)
  IN  Upwards(m2, src + t + words * W, dst + t + words * W, 1, rest)

Backward(mem, src, dst, length) ==
  LET t     == Trail(src, dst, length)
      words == (length - t) \div W
      rest  == (length - t) % W
      m1    == Downwards(mem, src, dst, 1, t)
      m2    == Downwards(m1, src - t, dst - t, W, words)
  IN  Downwards(m2, src - t - words * W, dst - t - words * W, 1, rest)

\* __bcpy: the direction keeps an overlapping source from being overwritten.
bcpy(mem, src, dst, length) ==
  IF length = 0 \/ dst = src THEN mem
  ELSE IF dst < src THEN Forward(mem, src, dst, length)
       ELSE Backward(mem, src + length, dst + length, length)

\* __vcpy: upwards, by words when both are aligned.
vcpy(mem, dst, src, length) ==
  LET words == IF Aligned(src) /\ Aligned(dst) THEN length \div W ELSE 0
      m1    == Upwards(mem, src, dst, W, words)
  IN  Upwards(m1, src + words * W, dst + words * W, 1, length - words * W)

------------------------------------------------------------------------------
(* __vlen *)

\* Base to the k.
Power(k) ==
  LET pow[i \in 0 .. k] == IF i = 0 THEN 1 ELSE pow[i - 1] * Base
  IN  pow[k]

\* The number whose k bytes are b[0], b[1] .. , little-endian.
Value(b, k) ==
  LET sum[i \in 0 .. k] == IF i = 0 THEN 0 ELSE sum[i - 1] + b[i - 1] * Power(i - 1)
  IN  sum[k]

\* The word at lp, and mask01.
Word(mem, lp) == Value([i \in 0 .. W - 1 |-> mem[lp + i]], W)

mask01 == Value([i \in 0 .. W - 1 |-> 1], W)

\* Byte i of a word has its upper bit: what mask80 keeps of it.
UpperBit(w, i) == (w \div Power(i)) % Base >= Base \div 2

\* va & vb is not 0.  The subtraction borrows, in as many bits as a word has.
MayHoldZero(w) ==
  LET va == (w + Power(W) - mask01) % Power(W)
  IN  \E i \in 0 .. W - 1 : UpperBit(va, i) /\ ~ UpperBit(w, i)

Least(S) == CHOOSE n \in S : \A m \in S : n <= m

\* The zero bytes of the word at lp, from str on.
Zeros(mem, str, lp) == {p \in lp .. lp + W - 1 : p >= str /\ mem[p] = 0}

\* The words of the memory from the one str is in.
WordsFrom(mem, str) ==
  {lp \in DOMAIN mem : Aligned(lp) /\ lp >= str - (str % W) /\ lp + W - 1 \in DOMAIN mem}

\* Mutant of vlen: the first byte of the word is not looked at.
vlen_from_second(mem, str) ==
  LET zeros(lp) == Zeros(mem, str, lp) \ {lp}
      lp        == Least({w \in WordsFrom(mem, str) : MayHoldZero(Word(mem, w)) /\ zeros(w) # {}})
  IN  Least(zeros(lp)) - str

\* __vlen goes word by word from the one str is in; a word in which there may
\* be a zero is searched byte by byte, the first from str on.  It returns from
\* the first word in which it finds one.
vlen(mem, str) ==
  LET lp == Least({w \in WordsFrom(mem, str) :
                     MayHoldZero(Word(mem, w)) /\ Zeros(mem, str, w) # {}})
  IN  Least(Zeros(mem, str, lp)) - str

=============================================================================
