------------------------------ MODULE BitWords ------------------------------
(***************************************************************************)
(* Bits in words, and bits written and read (src/codecs/minmask/bits.rs).  *)
(* A vector has the bits of all its words: those past its length are there *)
(* too, and every operation must leave them zero.  What a writer holds is  *)
(* the sequence of its bits; a reader is the number of bits it has read.   *)
(***************************************************************************)
EXTENDS Integers, Sequences, FiniteSets, SequencesExt

CONSTANTS
  W,         \* bits of a word: 64
  ByteBits,  \* bits of a byte: 8
  MaxZeros   \* zeros that may begin a gamma code: 63

---------------------------------------------------------------------------
(* BitVec: its length, and the places in its words that hold a 1, from 0   *)

InWords(len) == 0 .. ((len + W - 1) \div W) * W - 1
Vector(len, bit(_)) == [len |-> len, ones |-> {i \in 0 .. len - 1 : bit(i) = 1}]
Vectors(n) == {[len |-> n, ones |-> S] : S \in SUBSET (0 .. n - 1)}
Zeros(len) == [len |-> len, ones |-> {}]

\* word_or_zero: outside the words there are zeros.
Bit(v, i) == IF i \in v.ones THEN 1 ELSE 0
Set(v, i, bit) == [v EXCEPT !.ones = IF bit = 1 THEN @ \cup {i} ELSE @ \ {i}]

\* MUTANT: what lies past the end comes along.
SliceWhole(v, start, len) == [len |-> len, ones |-> {i \in InWords(len) : start + i \in v.ones}]

\* slice_from: from a place that may lie before the vector.
Slice(v, start, len) == [len |-> len, ones |-> {i \in 0 .. len - 1 : start + i \in v.ones}]

\* xor_assign, of vectors as long.
Xored(v, with) == [v EXCEPT !.ones = (@ \ with.ones) \cup (with.ones \ @)]

\* not_assign
Negated(v) == [v EXCEPT !.ones = (0 .. v.len - 1) \ @]

WrittenAt(v, at, from) ==
  [v EXCEPT !.ones = (@ \ (at .. at + from.len - 1)) \cup {at + i : i \in {j \in from.ones : j < from.len}}]

Weight(v) == Cardinality(v.ones)
Ones(v)   == SetToSortSeq(v.ones, <)

\* The lengths of its runs of equal bits.
Runs(v) ==
  LET begins == SetToSortSeq({i \in 0 .. v.len - 1 : i = 0 \/ Bit(v, i) # Bit(v, i - 1)}, <)
  IN  [k \in DOMAIN begins |-> (IF k = Len(begins) THEN v.len ELSE begins[k + 1]) - begins[k]]

Tidy(v) == v.ones \subseteq 0 .. v.len - 1

---------------------------------------------------------------------------
(* BitWriter                                                               *)

BitLength(n) == CHOOSE k \in 0..30 : n < 2^k /\ (k > 0 => n >= 2^(k - 1))
GammaLen(n)  == 2 * (BitLength(n) - 1) + 1
WidthFor(n)  == IF n <= 1 THEN 0 ELSE BitLength(n - 1)

\* The low bits of a number, high one first.
Put(n, width) == [i \in 1..width |-> (n \div 2^(width - i)) % 2]
PutGamma(n)   == Put(0, BitLength(n) - 1) \o Put(n, BitLength(n))
PutRice(n, k) == [i \in 1 .. n \div 2^k |-> 1] \o <<0>> \o Put(n, k)
PutBits(v)    == [i \in 1 .. v.len |-> Bit(v, i - 1)]
PutBytes(bytes) == FlattenSeq([i \in DOMAIN bytes |-> Put(bytes[i], ByteBits)])

\* finish: zeros fill the last byte.
WholeBytes(bits) == bits \o [i \in 1 .. (0 - Len(bits)) % ByteBits |-> 0]

\* MUTANT: a record begins with a byte.
AppendedWhole(bits, record) == WholeBytes(bits) \o record

\* append: bit behind bit.
Appended(bits, record) == bits \o record

---------------------------------------------------------------------------
(* BitReader: a read gives [ok, v, pos], and nothing past the end          *)

Nothing == [ok |-> FALSE]
Read(v, pos) == [ok |-> TRUE, v |-> v, pos |-> pos]
\* The read that follows one, if that succeeded: Rust's ?.
Then(got, next(_)) == IF got.ok THEN next(got) ELSE Nothing

NumberOf(bits) == LET n[k \in 0 .. Len(bits)] == IF k = 0 THEN 0 ELSE 2 * n[k - 1] + bits[k] IN n[Len(bits)]

Get(bits, pos, width) ==
  IF pos + width > Len(bits) THEN Nothing
  ELSE Read(NumberOf(SubSeq(bits, pos + 1, pos + width)), pos + width)

\* How many bits like this one begin at pos.
Count(bits, pos, bit) ==
  CHOOSE k \in 0 .. Len(bits) - pos :
    /\ \A i \in pos + 1 .. pos + k : bits[i] = bit
    /\ pos + k < Len(bits) => bits[pos + k + 1] # bit

GetGamma(bits, pos) ==
  LET zeros == Count(bits, pos, 0)
  IN  IF pos + zeros = Len(bits) \/ zeros > MaxZeros THEN Nothing
      ELSE Then(Get(bits, pos + zeros + 1, zeros), LAMBDA low : Read(2^zeros + low.v, low.pos))

GetRice(bits, pos, k) ==
  LET ones == Count(bits, pos, 1)
  IN  IF pos + ones = Len(bits) THEN Nothing
      ELSE Then(Get(bits, pos + ones + 1, k), LAMBDA low : Read(ones * 2^k + low.v, low.pos))

GetBits(bits, pos, len) ==
  IF pos + len > Len(bits) THEN Nothing
  ELSE Read(Vector(len, LAMBDA i : bits[pos + 1 + i]), pos + len)

GetBytes(bits, pos, len) ==
  IF pos + ByteBits * len > Len(bits) THEN Nothing
  ELSE Read([i \in 1..len |-> NumberOf(SubSeq(bits, pos + ByteBits * (i - 1) + 1, pos + ByteBits * i))],
            pos + ByteBits * len)
=============================================================================
