----------------------------- MODULE RangeCoder -----------------------------
(***************************************************************************)
(* The binary range coder (src/range_coder.rs) with bytes of B values: the *)
(* code's 32-bit range is four bytes wide whatever B is.                   *)
(*                                                                         *)
(* The encoder codes any sequence of operations: a bit with the adaptive   *)
(* probability of a context, a bit with one half, a symbol with its share  *)
(* of a table.  The decoder is asked for the same operations.  data        *)
(* records them with what was coded.                                       *)
(***************************************************************************)
EXTENDS Integers, Sequences

CONSTANTS
  B,         \* values of a byte
  ProbTotal, \* 2^PROB_BITS
  Divisor,   \* the adaptation's divisor: 2^5
  Contexts,  \* whose probabilities adapt
  Shares,    \* symbols of tables: [table, cum, freq, total]
  MaxOps     \* bound on the operations coded

\* What a number is shifted by for k bytes.
Pow == [k \in 0..4 |-> <<1, B, B * B, B * B * B, B * B * B * B>>[k + 1]]

Top == Pow[3]        \* TOP_VALUE
Max == Pow[4] - 1    \* u32::MAX
ProbInit == ProbTotal \div 2

\* One byte more makes up for the least probability (Divisor - 1, where the
\* adaptation stops); every part of a total gets a share of any range, and
\* the parts of a table do not overlap.
RangeCoderAssumption ==
  /\ B \in Nat \ {0, 1} /\ Divisor \in Nat \ {0, 1} /\ ProbTotal \in Nat
  /\ 2 * Divisor <= ProbTotal /\ ProbTotal <= (Divisor - 1) * B /\ Top % ProbTotal = 0
  /\ \A s \in Shares : s.total \in 1..Top /\ s.freq \in 1..s.total /\ s.cum \in 0..s.total - s.freq
  /\ \A s, t \in Shares : s.table = t.table =>
       s.total = t.total /\ (s = t \/ s.cum + s.freq <= t.cum \/ t.cum + t.freq <= s.cum)

VARIABLES
  data,  \* the operations coded so far
  enc,   \* encoder: low, range, cache, cacheSize, prob (of each
         \*   context), out; exact (history): the low end of the interval,
         \*   never cut; status
  dec    \* decoder: range, code, pos, prob, what it has decoded, status

coderVars == <<data, enc, dec>>

\* MUTANT: a probability reaches its end.
AdaptedFully(prob, bit) ==
  IF bit = 0 THEN prob + (ProbTotal - prob + Divisor - 1) \div Divisor
  ELSE prob - (prob + Divisor - 1) \div Divisor

Adapted(prob, bit) ==
  IF bit = 0 THEN prob + (ProbTotal - prob) \div Divisor ELSE prob - prob \div Divisor

---------------------------------------------------------------------------
(* RangeEncoder                                                            *)

Run(n, b) == [i \in 1..n |-> b]

\* low is a carry, the byte at the top and the rest.
Carry(low) == low \div (Max + 1)
TopOf(low) == (low \div Top) % B
Moved(e)   == [e EXCEPT !.low = (@ % Top) * B, !.exact = @ * B]

\* The cache is written with the carry, and behind it the 0xFF, which it turns
\* into 0; or another 0xFF waits.
Emitted(e) ==
  [Moved(e) EXCEPT !.out = @ \o <<(e.cache + Carry(e.low)) % B>>
                             \o Run(e.cacheSize - 1, (B - 1 + Carry(e.low)) % B),
                   !.cache = TopOf(e.low), !.cacheSize = 1]
Delayed(e) == [Moved(e) EXCEPT !.cacheSize = @ + 1]

\* MUTANT: bytes of 0xFF let a carry pass by.
ShiftedNoRun(e) ==
  IF e.low < (B - 1) * Top \/ Carry(e.low) # 0
  THEN [Emitted(e) EXCEPT !.out = e.out \o <<(e.cache + Carry(e.low)) % B>> \o Run(e.cacheSize - 1, B - 1)]
  ELSE Delayed(e)

\* shift_low: the top byte of low leaves it, and waits in the cache until no
\* carry can reach it any more.
Shifted(e) == IF e.low < (B - 1) * Top \/ Carry(e.low) # 0 THEN Emitted(e) ELSE Delayed(e)

\* One shift at most, or as many as the range needs.
ShiftedOnce(e) == IF e.range < Top THEN [Shifted(e) EXCEPT !.range = @ * B] ELSE e
ShiftedUp(e)   == ShiftedOnce(ShiftedOnce(ShiftedOnce(e)))

Raised(e, by) == [e EXCEPT !.low = @ + by, !.exact = @ + by]

\* encode_bit
EncodedBit(e, c, bit) ==
  LET bound   == (e.range \div ProbTotal) * e.prob[c]
      adapted == [e EXCEPT !.prob[c] = Adapted(@, bit)]
  IN  IF bit = 0 THEN ShiftedOnce([adapted EXCEPT !.range = bound])
      ELSE ShiftedOnce(Raised([adapted EXCEPT !.range = @ - bound], bound))

\* encode_direct_bits, one bit of it.
EncodedDirect(e, bit) ==
  LET half == e.range \div 2
  IN  ShiftedOnce(Raised([e EXCEPT !.range = half], bit * half))

\* encode_freq: the last symbol also gets what the division left over.
EncodedShare(e, s) ==
  LET r == e.range \div s.total
  IN  ShiftedUp(Raised([e EXCEPT !.range = IF s.cum + s.freq = s.total THEN @ - r * s.cum
                                           ELSE r * s.freq],
                       s.cum * r))

\* MUTANT: one byte is left behind.
FinishedEarly(e) == Shifted(Shifted(Shifted(Shifted(e))))

Finished(e) == Shifted(Shifted(Shifted(Shifted(Shifted(e)))))

Encoding == enc.status = "coding" /\ Len(data) < MaxOps
Code(op, e) == enc' = e /\ data' = Append(data, op) /\ UNCHANGED dec

EncodeBit ==
  /\ Encoding
  /\ \E c \in Contexts, b \in {0, 1} :
       Code([op |-> "bit", of |-> c, value |-> b], EncodedBit(enc, c, b))
EncodeDirect ==
  /\ Encoding
  /\ \E b \in {0, 1} : Code([op |-> "direct", value |-> b], EncodedDirect(enc, b))
EncodeFreq ==
  /\ Encoding
  /\ \E s \in Shares : Code([op |-> "share", of |-> s.table, value |-> s], EncodedShare(enc, s))

Finish ==
  /\ enc.status = "coding"
  /\ enc' = [Finished(enc) EXCEPT !.status = "finished"]
  /\ UNCHANGED <<data, dec>>

---------------------------------------------------------------------------
(* RangeDecoder                                                            *)

\* next_byte: zeros after the end.
ByteAt(p) == IF p <= Len(enc.out) THEN enc.out[p] ELSE 0

Start ==
  /\ enc.status = "finished" /\ dec.status = "new"
  /\ dec' = [dec EXCEPT !.status = "decoding", !.pos = 6,
                        !.code = ((ByteAt(2) * B + ByteAt(3)) * B + ByteAt(4)) * B + ByteAt(5)]
  /\ UNCHANGED <<data, enc>>

Wide(n) == n % (Max + 1)

RefilledOnce(d) ==
  IF d.range < Top
  THEN [d EXCEPT !.range = Wide(@ * B), !.code = Wide(@ * B) + ByteAt(d.pos),
                 !.pos = IF @ <= Len(enc.out) THEN @ + 1 ELSE @]
  ELSE d
Refilled(d) == RefilledOnce(RefilledOnce(RefilledOnce(d)))

\* decode_bit
DecodedBit(d, c) ==
  LET bound == (d.range \div ProbTotal) * d.prob[c]
      bit   == IF d.code < bound THEN 0 ELSE 1
  IN  [next |-> RefilledOnce([d EXCEPT !.range = IF bit = 0 THEN bound ELSE @ - bound,
                                       !.code = @ - bit * bound,
                                       !.prob[c] = Adapted(@, bit)]),
       value |-> bit]

\* decode_direct_bits, one bit of it: the sign of the difference tells.
DecodedDirect(d) ==
  LET half == d.range \div 2
      diff == Wide(d.code - half)
      bit  == IF diff > Max \div 2 THEN 0 ELSE 1
  IN  [next |-> RefilledOnce([d EXCEPT !.range = half,
                                       !.code = IF bit = 0 THEN Wide(diff + half) ELSE diff]),
       value |-> bit]

\* get_freq: where in the total the code lies.
Target(d, total) ==
  LET t == d.code \div (d.range \div total) IN IF t < total THEN t ELSE total - 1

\* decode_freq, given the symbol that was found.
DecodedShare(d, s) ==
  LET r == d.range \div s.total
  IN  Refilled([d EXCEPT !.code = @ - s.cum * r,
                         !.range = IF s.cum + s.freq = s.total THEN @ - r * s.cum ELSE r * s.freq])

\* The symbol whose share of the table holds the target.
Found(s, table, target) == s.table = table /\ s.cum <= target /\ target < s.cum + s.freq

Op       == data[Len(dec.seen) + 1]
Decoding == dec.status = "decoding" /\ Len(dec.seen) < Len(data)
Decoded(r) == /\ dec' = [r.next EXCEPT !.seen = Append(@, [Op EXCEPT !.value = r.value])]
              /\ UNCHANGED <<data, enc>>

DecodeBit    == Decoding /\ Op.op = "bit" /\ Decoded(DecodedBit(dec, Op.of))
DecodeDirect == Decoding /\ Op.op = "direct" /\ Decoded(DecodedDirect(dec))
DecodeFreq   ==
  /\ Decoding /\ Op.op = "share"
  /\ \E s \in Shares :
       /\ Found(s, Op.of, Target(dec, s.total))
       /\ Decoded([next |-> DecodedShare(dec, s), value |-> s])

---------------------------------------------------------------------------
RangeInit ==
  /\ data = << >>
  /\ enc = [low |-> 0, range |-> Max, cache |-> 0, cacheSize |-> 1,
            prob |-> [c \in Contexts |-> ProbInit], out |-> << >>, exact |-> 0, status |-> "coding"]
  /\ dec = [range |-> Max, code |-> 0, pos |-> 1, prob |-> [c \in Contexts |-> ProbInit],
            seen |-> << >>, status |-> "new"]

RangeNext ==
  \/ EncodeBit \/ EncodeDirect \/ EncodeFreq \/ Finish
  \/ Start \/ DecodeBit \/ DecodeDirect \/ DecodeFreq
RangeSpec == RangeInit /\ [][RangeNext]_coderVars

---------------------------------------------------------------------------
\* The number a sequence of bytes writes.
Reads(bytes) ==
  LET n[i \in 0..Len(bytes)] == IF i = 0 THEN 0 ELSE n[i-1] * B + bytes[i] IN n
Number(bytes) == Reads(bytes)[Len(bytes)]

\* What was written, what waits and low together are the low end of the
\* interval, to the last bit: no carry is ever lost, whatever is in the cache
\* (shift_low).
CarriesKept ==
  Number(enc.out \o <<enc.cache>> \o Run(enc.cacheSize - 1, B - 1)) * Pow[4] + enc.low = enc.exact

\* Both ends leave every symbol room: the range is never short of a byte
\* between operations, the probability never certain (encode_bit, encode_freq).
RoomLeft ==
  /\ enc.range \in Top .. Max /\ dec.range \in Top .. Max
  /\ \A c \in Contexts : enc.prob[c] \in 1 .. ProbTotal - 1

\* The decoder gives back what was coded, in order, and the five bytes of
\* finish are enough: it never reads past the end.
DecodesWhatWasCoded ==
  /\ dec.seen = SubSeq(data, 1, Len(dec.seen))
  /\ dec.status = "decoding" => dec.pos <= Len(enc.out) + 1 /\ dec.code < dec.range
  /\ Decoding /\ Op.op = "share" => Found(Op.value, Op.of, Target(dec, Op.value.total))
=============================================================================
