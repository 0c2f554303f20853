------------------------------- MODULE BwtCm -------------------------------
(***************************************************************************)
(* The context-mixing model behind the BWT (src/codecs/bwt_cm.rs): three   *)
(* counters and a refinement stage predict each bit.  Probabilities are    *)
(* the code's 16-bit numbers; a byte has ByteBits bits.  The coder is      *)
(* CarrylessCoder: here it is the bits, each with the probability it was   *)
(* coded with, and asked with another it gives another bit.                *)
(***************************************************************************)
EXTENDS CarrylessCoder

CONSTANTS
  Texts,     \* what is coded: rows of bytes
  ByteBits   \* bits of a byte

\* 2^k
Two[k \in 0..ByteBits] == IF k = 0 THEN 1 ELSE 2 * Two[k - 1]

Byte  == 0 .. B - 1
Node  == 1 .. B - 1      \* partial bytes, with a leading 1
Full  == 65535           \* u16::MAX
Word  == 0 .. Full
Buckets == 17            \* SSE_BUCKETS

BwtCmAssumption ==
  /\ ByteBits \in Nat \ {0} /\ B = Two[ByteBits]
  /\ \A text \in Texts : text \in Seq(Byte)

(***************************************************************************)
(* data holds the bytes to code; enc is [done, model, log], where log has  *)
(* every bit with its probability; dec is [next, model, out], where next   *)
(* is the bit it will ask for.                                             *)
(***************************************************************************)

---------------------------------------------------------------------------
(* Model                                                                   *)

\* MUTANT: rounded away from the observed bit's end.
AdaptPast(p, bit, slow) ==
  IF bit = 1 THEN p + (Full - p) \div slow + 1 ELSE p - p \div slow

\* adapt: slow is 2^rate.
Adapt(p, bit, slow) ==
  IF bit = 1 THEN p + (Full - p) \div slow ELSE p - p \div slow

Identity == [k \in 0..Buckets-1 |-> k * 4096 - IF k = Buckets - 1 THEN 1 ELSE 0]

NewModel ==
  [order0 |-> [n \in Node |-> 32768],
   order1 |-> [b \in Byte |-> [n \in Node |-> 32768]],
   sse    |-> [longRun \in BOOLEAN |-> [n \in Node |-> Identity]],
   node |-> 1, c1 |-> 0, c2 |-> 0, run |-> 0]

Clamp(n, lo, hi) == IF n < lo THEN lo ELSE IF n > hi THEN hi ELSE n

\* The mix before refinement, and the bucket it falls in.
Mixed(m) == ((m.order0[m.node] + m.order1[m.c1][m.node]) * 7 + m.order1[m.c2][m.node] * 2) \div 16
LongRun(m)   == m.run > 2
BucketRow(m) == m.sse[LongRun(m)][m.node]
Bucket(m)    == Mixed(m) \div 4096

\* Between two buckets, rounded down: the code shifts a signed number.
Refined(m) ==
  LET lo == BucketRow(m)[Bucket(m)]
      hi == BucketRow(m)[Bucket(m) + 1]
  IN  lo + ((hi - lo) * (Mixed(m) % 4096)) \div 4096

\* predict: never certain.
Predict(m) == Clamp((Mixed(m) + 3 * Refined(m)) \div 4, 1, Full)

\* MUTANT: the byte before the last is left where it was.
ShiftedForgets(m, byte) ==
  [m EXCEPT !.node = 1, !.c1 = byte, !.run = IF byte = m.c1 THEN @ + 1 ELSE 0]

\* A byte is whole: the contexts move on.
ShiftedTo(m, byte) ==
  [m EXCEPT !.node = 1, !.c2 = m.c1, !.c1 = byte, !.run = IF byte = m.c1 THEN @ + 1 ELSE 0]

\* The counters and buckets that were asked are told the bit.
Told(m, bit) ==
  LET b   == Bucket(m)
      row == [BucketRow(m) EXCEPT ![b] = Adapt(@, bit, 64), ![b + 1] = Adapt(@, bit, 64)]
  IN  [m EXCEPT !.order0 = [m.order0 EXCEPT ![m.node] = Adapt(@, bit, 4)],
                !.order1 = [m.order1 EXCEPT ![m.c1][m.node] = Adapt(@, bit, 16)],
                !.sse = [m.sse EXCEPT ![LongRun(m)][m.node] = row]]

\* update: then the contexts.
Updated(m, bit) ==
  LET node == 2 * m.node + bit
  IN  IF node < B THEN [Told(m, bit) EXCEPT !.node = node]
      ELSE ShiftedTo(Told(m, bit), node % B)

---------------------------------------------------------------------------
(* encode, decode: one byte per action                                     *)

\* The first bit is the most significant one.
BitOf(byte, i) == (byte \div Two[ByteBits - i]) % 2

\* The model before and after each bit of a byte.
Models(model, byte) ==
  LET r[i \in 0..ByteBits] == IF i = 0 THEN model ELSE Updated(r[i - 1], BitOf(byte, i)) IN r

EncodeByte ==
  LET byte   == data[enc.done + 1]
      models == Models(enc.model, byte)
      bits   == [i \in 1..ByteBits |-> [p |-> Predict(models[i - 1]), bit |-> BitOf(byte, i)]]
  IN  /\ enc.done < Len(data)
      /\ enc' = [enc EXCEPT !.done = @ + 1, !.model = models[ByteBits], !.log = @ \o bits]
      /\ UNCHANGED <<data, dec>>

BitAt(k, p) == IF enc.log[k].p = p THEN enc.log[k].bit ELSE 1 - enc.log[k].bit

\* MUTANT: the bits of a byte are not told to the model as they come.
ReadStale(k, model) ==
  LET r[i \in 0..ByteBits] ==
        IF i = 0 THEN [model |-> model, byte |-> 0]
        ELSE LET bit == BitAt(k + i - 1, Predict(model))
             IN  [model |-> Updated(r[i - 1].model, bit), byte |-> 2 * r[i - 1].byte + bit]
  IN  r

\* The bits of a byte as they are read, the first of which is the k-th: the
\* model after each and what it makes of the byte.
Read(k, model) ==
  LET r[i \in 0..ByteBits] ==
        IF i = 0 THEN [model |-> model, byte |-> 0]
        ELSE LET bit == BitAt(k + i - 1, Predict(r[i - 1].model))
             IN  [model |-> Updated(r[i - 1].model, bit), byte |-> 2 * r[i - 1].byte + bit]
  IN  r

DecodeByte ==
  LET after == Read(dec.next, dec.model)[ByteBits]
  IN  /\ enc.done = Len(data) /\ Len(dec.out) < Len(data)
      /\ dec' = [dec EXCEPT !.next = @ + ByteBits, !.model = after.model, !.out = Append(@, after.byte)]
      /\ UNCHANGED <<data, enc>>

MixInit ==
  /\ data \in Texts
  /\ enc = [done |-> 0, model |-> NewModel, log |-> << >>]
  /\ dec = [next |-> 1, model |-> NewModel, out |-> << >>]

MixNext == EncodeByte \/ DecodeByte
MixSpec == MixInit /\ [][MixNext]_coderVars

---------------------------------------------------------------------------
\* The bytes come back.
BytesComeBack == dec.out = SubSeq(data, 1, Len(dec.out))

\* Sixteen bits hold every counter, there is a bucket on both sides of every
\* mix, what lies between them is no less than 0 when it is cast, and what the
\* coder is given is a probability (adapt, predict).
CountersFit ==
  \A m \in {enc.model, dec.model} :
    /\ \A n \in Node :
         /\ m.order0[n] \in Word
         /\ \A b \in Byte : m.order1[b][n] \in Word
         /\ \A r \in BOOLEAN : \A k \in 0..Buckets-1 : m.sse[r][n][k] \in Word
    /\ Bucket(m) + 1 \in 0..Buckets-1 /\ Refined(m) \in Word /\ Predict(m) \in 1..Full

\* The contexts are the last two bytes, and the run is how often the last one
\* had been there just before: an earlier byte would be mistaken for a later.
ContextsTrue ==
  \A side \in {[m |-> enc.model, text |-> SubSeq(data, 1, enc.done)],
               [m |-> dec.model, text |-> dec.out]} :
    LET at(back) == IF back <= Len(side.text) THEN side.text[Len(side.text) + 1 - back] ELSE 0
    IN  /\ side.m.node = 1 /\ side.m.c1 = at(1) /\ side.m.c2 = at(2)
        /\ \A k \in 1 .. Len(side.text) :
             side.m.run >= k <=> \A j \in 1..k : at(j) = at(j + 1)
=============================================================================
