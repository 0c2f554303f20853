--------------------------- MODULE CarrylessCoder ---------------------------
(***************************************************************************)
(* The binary arithmetic coder of src/codecs/bwt_cm.rs, which the BWT and  *)
(* the stride codec share: two bounds of four bytes, whose equal top bytes *)
(* are written as soon as they are equal, and no carry.                    *)
(*                                                                         *)
(* The encoder codes any bits with any probabilities; the decoder is given *)
(* the same probabilities, as the models of both sides are in step.        *)
(***************************************************************************)
EXTENDS RangeCoder

CONSTANTS
  Scale,  \* probabilities are in 1/Scale; the code's is 2^16
  Probs   \* the probabilities of a 1 that the models give

CarrylessAssumption ==
  /\ B \in Nat \ {0, 1} /\ Scale \in Nat \ {0}
  /\ Probs \subseteq 1 .. Scale - 1   \* predict clamps

(***************************************************************************)
(* Bytes, words and the stream are RangeCoder's.  data holds the bits      *)
(* coded so far, with their probabilities; enc is [x1, x2, out, status],   *)
(* dec is [x1, x2, x, pos, bits, status].                                  *)
(***************************************************************************)

\* The last value that stands for a 1.
Mid(x1, x2, p) == x1 + ((x2 - x1) * p) \div Scale

TopByte(x) == x \div Top

\* How many bytes the two bounds share, at most all four.
Shared(x1, x2) ==
  CHOOSE k \in 0..4 : /\ \A j \in 1..k : x1 \div Pow[4 - j] = x2 \div Pow[4 - j]
                      /\ k < 4 => x1 \div Pow[3 - k] # x2 \div Pow[3 - k]

\* MUTANT: zeros are shifted into both.
HighAfterZeros(x2, k) == Wide(x2 * Pow[k])

\* Bytes of 0 are shifted into the lower bound, of 0xFF into the upper one.
LowAfter(x1, k) == Wide(x1 * Pow[k])
HighAfter(x2, k) == Wide(x2 * Pow[k]) + Pow[k] - 1

\* Encoder::encode.  Bounds that meet are written whole and start anew.
Encode(bit, p) ==
  LET mid == Mid(enc.x1, enc.x2, p)
      x1  == IF bit = 1 THEN enc.x1 ELSE mid + 1
      x2  == IF bit = 1 THEN mid ELSE enc.x2
      k   == Shared(x1, x2)
  IN  /\ enc.status = "coding" /\ Len(data) < MaxOps
      /\ enc' = [enc EXCEPT !.x1 = LowAfter(x1, k), !.x2 = HighAfter(x2, k),
                            !.out = @ \o [i \in 1..k |-> (x2 \div Pow[4 - i]) % B]]
      /\ data' = Append(data, [bit |-> bit, p |-> p])
      /\ UNCHANGED dec

\* MUTANT: nothing is written.
FinishBoundsShort ==
  /\ enc.status = "coding"
  /\ enc' = [enc EXCEPT !.status = "finished"]
  /\ UNCHANGED <<data, dec>>

\* Encoder::finish: the lower bound.
FinishBounds ==
  /\ enc.status = "coding"
  /\ enc' = [enc EXCEPT !.status = "finished",
                        !.out = @ \o [i \in 1..4 |-> (enc.x1 \div Pow[4 - i]) % B]]
  /\ UNCHANGED <<data, dec>>

\* k bytes at once.
BytesAt(p, k) ==
  LET n[i \in 0..k] == IF i = 0 THEN 0 ELSE n[i-1] * B + ByteAt(p + i - 1) IN n[k]

StartBounds ==
  /\ enc.status = "finished" /\ dec.status = "new"
  /\ dec' = [dec EXCEPT !.status = "decoding", !.x = BytesAt(1, 4), !.pos = 5]
  /\ UNCHANGED <<data, enc>>

\* Decoder::decode
Decode ==
  LET p   == data[Len(dec.bits) + 1].p
      mid == Mid(dec.x1, dec.x2, p)
      bit == IF dec.x <= mid THEN 1 ELSE 0
      x1  == IF bit = 1 THEN dec.x1 ELSE mid + 1
      x2  == IF bit = 1 THEN mid ELSE dec.x2
      k   == Shared(x1, x2)
  IN  /\ dec.status = "decoding" /\ Len(dec.bits) < Len(data)
      /\ dec' = [dec EXCEPT !.x1 = LowAfter(x1, k), !.x2 = HighAfter(x2, k),
                            !.x = Wide(@ * Pow[k]) + BytesAt(dec.pos, k),
                            !.pos = @ + k, !.bits = Append(@, bit)]
      /\ UNCHANGED <<data, enc>>

CarrylessInit ==
  /\ data = << >>
  /\ enc = [x1 |-> 0, x2 |-> Max, out |-> << >>, status |-> "coding"]
  /\ dec = [x1 |-> 0, x2 |-> Max, x |-> 0, pos |-> 1, bits |-> << >>, status |-> "new"]

CarrylessNext ==
  \/ \E b \in {0, 1}, p \in Probs : Encode(b, p)
  \/ FinishBounds \/ StartBounds \/ Decode
CarrylessSpec == CarrylessInit /\ [][CarrylessNext]_coderVars

---------------------------------------------------------------------------
\* Neither bit is ever left without a value: the bounds of both sides differ
\* in their top bytes between bits, however close they have come.
BoundsApart ==
  /\ enc.x1 \in 0..Max /\ enc.x2 \in 0..Max /\ TopByte(enc.x1) < TopByte(enc.x2)
  /\ dec.x1 \in 0..Max /\ dec.x2 \in 0..Max /\ TopByte(dec.x1) < TopByte(dec.x2)

\* The decoder gives back the bits that were coded, from the bytes there are,
\* and its window stays between its bounds.
BitsComeBack ==
  /\ \A i \in 1..Len(dec.bits) : dec.bits[i] = data[i].bit
  /\ dec.status = "decoding" => dec.x \in dec.x1 .. dec.x2 /\ dec.pos <= Len(enc.out) + 1

=============================================================================
