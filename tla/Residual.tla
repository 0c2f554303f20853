------------------------------ MODULE Residual ------------------------------
(***************************************************************************)
(* Eight ways to write down the bits a mask left wrong                     *)
(* (src/codecs/minmask/residual.rs), each with the exact number of bits it *)
(* takes, and their readers.                                               *)
(*                                                                         *)
(* One vector is written in one way, damaged perhaps, and read.            *)
(***************************************************************************)
EXTENDS BitWords

CONSTANTS
  Inputs,     \* vectors to write
  Flips,      \* how many bits may be damaged: 0 or 1
  RiceBits,   \* RICE_K_BITS: 4
  EnumMax,    \* ENUM_MAX_T: set or clear bits beyond which no rank is computed
  Half, PrimPoly, MaxT,          \* of SetCodes
  Total, FreqBits, FlushBytes,   \* of Rans, and the bits of a share
  Scale       \* of the arithmetic coder's probabilities: 2^16

VARIABLES
  data,  \* the vector
  enc,   \* [codec, bits, flips]
  dec    \* [status, e, pos]

vars == <<data, enc, dec>>

Code    == INSTANCE SetCodes
Symbols == 2^ByteBits
Ans     == INSTANCE Rans WITH Base <- Symbols
Arith   == INSTANCE CarrylessCoder WITH
  B <- Symbols, Probs <- {}, MaxOps <- 0, ProbTotal <- 0, Divisor <- 0, Contexts <- {}, Shares <- {}

\* In the order of their numbers.
All == <<"raw", "rle", "positions", "rice", "enumerative", "bch", "arith", "rans">>
TotalOf(seq) == LET s[k \in 0 .. Len(seq)] == IF k = 0 THEN 0 ELSE s[k - 1] + seq[k] IN s[Len(seq)]
FromOnes(n, S) == [len |-> n, ones |-> S]

---------------------------------------------------------------------------
(* Rice: the gaps between set bits                                         *)

Gaps(ones) == [i \in DOMAIN ones |-> IF i = 1 THEN ones[1] ELSE ones[i] - ones[i - 1] - 1]
RiceCost(ones, k) == LET gaps == Gaps(ones) IN TotalOf([i \in DOMAIN gaps |-> gaps[i] \div 2^k + 1 + k])
\* best_rice_k: the first of the cheapest.
BestRice(ones) ==
  CHOOSE k \in 0 .. 2^RiceBits - 1 :
    \A j \in 0 .. 2^RiceBits - 1 :
      RiceCost(ones, k) < RiceCost(ones, j) \/ (RiceCost(ones, k) = RiceCost(ones, j) /\ k <= j)

---------------------------------------------------------------------------
(* Adaptive arithmetic coding, by the bit before                           *)

NoCounts == [prev \in {0, 1} |-> [bit \in {0, 1} |-> 0]]
\* kt_p1: the chance of a 1, never certain.
Chance(counts) ==
  LET p == ((2 * counts[1] + 1) * Scale) \div (2 * (counts[0] + counts[1]) + 2)
  IN  IF p < 1 THEN 1 ELSE IF p > Scale - 1 THEN Scale - 1 ELSE p

\* The interval after a bit, and the bytes its ends share (Encoder::encode).
Settled(lo, hi, k) ==
  [x1 |-> Arith!LowAfter(lo, k), x2 |-> Arith!HighAfter(hi, k), k |-> k,
   out |-> [i \in 1..k |-> (hi \div Symbols^(4 - i)) % Symbols]]
Between(lo, hi) == Settled(lo, hi, Arith!Shared(lo, hi))
Narrowed(c, bit, mid) == Between(IF bit = 1 THEN c.x1 ELSE mid + 1, IF bit = 1 THEN mid ELSE c.x2)

\* A bit counted in its context.
Counted(counts, prev, bit) == [counts EXCEPT ![prev][bit] = @ + 1]

ArithWritten(c, bit, n) ==
  [x1 |-> n.x1, x2 |-> n.x2, out |-> c.out \o n.out, counts |-> Counted(c.counts, c.prev, bit), prev |-> bit]
\* finish: the lower bound, whole.
ArithFinished(c) == c.out \o [i \in 1..4 |-> (c.x1 \div Symbols^(4 - i)) % Symbols]
ArithEncoded(e) ==
  LET s[i \in 0 .. e.len] ==
        IF i = 0 THEN [x1 |-> 0, x2 |-> Arith!Max, out |-> << >>, counts |-> NoCounts, prev |-> 0]
        ELSE LET c   == s[i - 1]
                 bit == Bit(e, i - 1)
             IN  ArithWritten(c, bit, Narrowed(c, bit, Arith!Mid(c.x1, c.x2, Chance(c.counts[c.prev]))))
  IN  ArithFinished(s[e.len])

\* MUTANT: always in the context the stream begins in.
ReadChanceFirst(c) == Chance(c.counts[0])

\* The chance the reader asks with.
ReadChance(c) == Chance(c.counts[c.prev])

\* The reader starts from four bytes; after the last one it reads zeros.
BytesFrom(bytes, p, k) ==
  LET x[j \in 0..k] ==
        IF j = 0 THEN 0 ELSE x[j - 1] * Symbols + (IF p + j - 1 <= Len(bytes) THEN bytes[p + j - 1] ELSE 0)
  IN  x[k]
ArithTaken(c, bit, w, place, bytes) ==
  [x1 |-> w.x1, x2 |-> w.x2, x |-> Arith!Wide(c.x * Symbols^w.k) + BytesFrom(bytes, c.pos, w.k), pos |-> c.pos + w.k,
   set |-> IF bit = 1 THEN c.set \cup {place} ELSE c.set, counts |-> Counted(c.counts, c.prev, bit), prev |-> bit]
ArithRead(c, mid, place, bytes) ==
  LET bit == IF c.x <= mid THEN 1 ELSE 0 IN ArithTaken(c, bit, Narrowed(c, bit, mid), place, bytes)
ArithDecoded(bytes, n) ==
  LET s[i \in 0..n] ==
        IF i = 0
        THEN [x1 |-> 0, x2 |-> Arith!Max, x |-> BytesFrom(bytes, 1, 4), pos |-> 5, set |-> {}, counts |-> NoCounts, prev |-> 0]
        ELSE LET c == s[i - 1] IN ArithRead(c, Arith!Mid(c.x1, c.x2, ReadChance(c)), i - 1, bytes)
  IN  FromOnes(n, s[n].set)

---------------------------------------------------------------------------
(* Static rANS over the bytes of the vector                                *)

BytesFor(n) == (n + ByteBits - 1) \div ByteBits
\* bits_to_bytes: zeros fill the last one.
AsBytes(e) == [b \in 1 .. BytesFor(e.len) |->
  NumberOf([j \in 1..ByteBits |-> Bit(e, ByteBits * (b - 1) + j - 1)])]
\* bytes_to_bits
FromBytes(bytes, n) ==
  Vector(n, LAMBDA i : (bytes[i \div ByteBits + 1] \div 2^(ByteBits - 1 - (i % ByteBits))) % 2)

RansFreqs(e) ==
  LET bytes == AsBytes(e)
  IN  Ans!Normalized([s \in 0 .. Symbols - 1 |-> Cardinality({i \in DOMAIN bytes : bytes[i] = s})])
RansPayload(e) ==
  LET bytes == AsBytes(e)
      freqs == RansFreqs(e)
      c[k \in 0 .. Len(bytes)] == IF k = 0 THEN Ans!NewEncoder ELSE Ans!Put(c[k - 1], freqs, bytes[Len(bytes) + 1 - k])
  IN  Ans!Finished(c[Len(bytes)])
RansDecoded(payload, freqs, n) ==
  LET c[k \in 0..n] ==
        IF k = 0 THEN [dec |-> Ans!NewDecoder(payload), out |-> << >>]
        ELSE LET s == c[k - 1]
             IN  IF ~s.dec.ok THEN s
                 ELSE LET t == Ans!Taken(s.dec, freqs, payload) IN [dec |-> t.dec, out |-> Append(s.out, t.symbol)]
  IN  [ok |-> c[n].dec.ok, out |-> c[n].out]

---------------------------------------------------------------------------
(* cost: the exact number of bits, or -1 where there is no such code       *)

Behind(bytes) == GammaLen(Len(bytes) + 1) + ByteBits * Len(bytes)
MaxErrors(n) == Max(DOMAIN Code!CodeFor(n).generators)

Cost(codec, e) ==
  LET n      == e.len
      ones   == Ones(e)
      t      == Len(ones)
      weight == GammaLen(t + 1)
      runs   == Runs(e)
      told   == SubSeq(runs, 1, Len(runs) - 1)  \* the last ends the vector
  IN  CASE codec = "raw"         -> n
        [] codec = "rle"         -> GammaLen(Len(runs) + 1) + 1 + TotalOf([i \in DOMAIN told |-> GammaLen(told[i])])
        [] codec = "positions"   -> weight + t * WidthFor(n)
        [] codec = "rice"        -> weight + IF t = 0 THEN 0 ELSE RiceBits + RiceCost(ones, BestRice(ones))
        [] codec = "enumerative" -> IF t > EnumMax /\ n - t > EnumMax THEN -1 ELSE weight + Code!RankWidth(n, t)
        [] codec = "bch"         -> IF ~Code!HasCode(n) THEN -1 ELSE IF t > MaxErrors(n) THEN -1
                                    ELSE weight + Code!SyndromeBits(Code!CodeFor(n), t)
        [] codec = "arith"       -> Behind(ArithEncoded(e))
        [] codec = "rans"        -> IF n = 0 THEN -1 ELSE Symbols * FreqBits + Behind(RansPayload(e))

---------------------------------------------------------------------------
(* encode                                                                  *)

Encoded(codec, e) ==
  LET n      == e.len
      ones   == Ones(e)
      t      == Len(ones)
      weight == PutGamma(t + 1)
      runs   == Runs(e)
      told   == SubSeq(runs, 1, Len(runs) - 1)  \* the last ends the vector
      behind(bytes) == PutGamma(Len(bytes) + 1) \o PutBytes(bytes)
      gaps   == Gaps(ones)
      k      == BestRice(ones)
      rank   == Code!Rank(ones, n)
      width  == Code!RankWidth(n, t)
  IN  CASE codec = "raw"         -> PutBits(e)
        [] codec = "rle"         -> PutGamma(Len(runs) + 1) \o <<Bit(e, 0)>>
                                      \o FlattenSeq([i \in DOMAIN told |-> PutGamma(told[i])])
        [] codec = "positions"   -> weight \o FlattenSeq([i \in 1..t |-> Put(ones[i], WidthFor(n))])
        [] codec = "rice"        -> IF t = 0 THEN weight
                                    ELSE weight \o Put(k, RiceBits) \o FlattenSeq([i \in 1..t |-> PutRice(gaps[i], k)])
        [] codec = "enumerative" -> weight \o [i \in 1..width |-> Code!BigBit(rank, width - i)]
        [] codec = "bch"         -> weight \o PutBits(FromOnes(Code!SyndromeBits(Code!CodeFor(n), t),
                                                               Code!Syndrome(Code!CodeFor(n), e.ones, t)))
        [] codec = "arith"       -> behind(ArithEncoded(e))
        [] codec = "rans"        -> FlattenSeq([s \in 1..Symbols |-> Put(RansFreqs(e)[s - 1], FreqBits)])
                                      \o behind(RansPayload(e))

---------------------------------------------------------------------------
(* decode                                                                  *)

\* How many runs, the first bit, and the runs but the last.
ReadRle(n, bits, pos) ==
  Then(GetGamma(bits, pos), LAMBDA many : Then(Get(bits, many.pos, 1), LAMBDA first :
    LET k == many.v - 1
        r[i \in 0..k] ==
          IF i = 0 THEN [ok |-> TRUE, pos |-> first.pos, at |-> 0, value |-> first.v, set |-> {}]
          ELSE LET s   == r[i - 1]
                   run == IF ~s.ok THEN Nothing ELSE IF i < k THEN GetGamma(bits, s.pos) ELSE Read(n - s.at, s.pos)
               IN  IF ~run.ok THEN [s EXCEPT !.ok = FALSE]
                   ELSE IF run.v = 0 \/ s.at + run.v > n THEN [s EXCEPT !.ok = FALSE]
                   ELSE [ok |-> TRUE, pos |-> run.pos, at |-> s.at + run.v, value |-> 1 - s.value,
                         set |-> IF s.value = 1 THEN s.set \cup (s.at .. s.at + run.v - 1) ELSE s.set]
        last == r[k]
    IN  IF last.ok /\ last.at = n THEN Read(FromOnes(n, last.set), last.pos) ELSE Nothing))

\* t positions, each given by next from where the last one was.
ReadOnes(n, t, pos, next(_, _)) ==
  LET r[i \in 0..t] ==
        IF i = 0 THEN [ok |-> TRUE, v |-> -1, pos |-> pos, set |-> {}]
        ELSE LET s == r[i - 1]
                 p == IF s.ok THEN next(s.v, s.pos) ELSE Nothing
             IN  IF ~p.ok THEN [s EXCEPT !.ok = FALSE]
                 ELSE IF p.v >= n \/ p.v <= s.v THEN [s EXCEPT !.ok = FALSE]
                 ELSE [ok |-> TRUE, v |-> p.v, pos |-> p.pos, set |-> s.set \cup {p.v}]
      last == r[t]
  IN  IF last.ok THEN Read(FromOnes(n, last.set), last.pos) ELSE Nothing

ReadRice(n, t, bits, pos) ==
  IF t = 0 THEN Read(Zeros(n), pos)
  ELSE Then(Get(bits, pos, RiceBits), LAMBDA k :
         ReadOnes(n, t, k.pos, LAMBDA at, p : Then(GetRice(bits, p, k.v), LAMBDA gap : Read(at + gap.v + 1, gap.pos))))

ReadRank(n, t, bits, pos) ==
  IF t > n THEN Nothing
  ELSE Then(GetBits(bits, pos, Code!RankWidth(n, t)), LAMBDA r :
         LET found == Code!Unranked(Code!BigOf(PutBits(r.v)), n, t)
         IN  IF found.ok THEN Read(FromOnes(n, found.ones), r.pos) ELSE Nothing)

ReadSyndrome(n, t, bits, pos) ==
  IF ~Code!HasCode(n) THEN Nothing
  ELSE IF t > MaxErrors(n) THEN Nothing
  ELSE Then(GetBits(bits, pos, Code!SyndromeBits(Code!CodeFor(n), t)), LAMBDA r :
         LET found == Code!Recovered(Code!CodeFor(n), r.v.ones, t)
         IN  IF found.ok THEN Read(FromOnes(n, found.ones), r.pos) ELSE Nothing)

ReadRans(n, bits, pos) ==
  Then(GetBits(bits, pos, Symbols * FreqBits), LAMBDA shares :
    Then(GetGamma(bits, shares.pos), LAMBDA many : Then(GetBytes(bits, many.pos, many.v - 1), LAMBDA payload :
      LET share(s) == NumberOf([i \in 1..FreqBits |-> Bit(shares.v, FreqBits * s + i - 1)])
          freqs    == [s \in 0 .. Symbols - 1 |-> share(s)]
          out      == RansDecoded(payload.v, freqs, BytesFor(n))
      IN  IF ~Ans!Sums(freqs) \/ many.v - 1 < FlushBytes THEN Nothing
          ELSE IF out.ok THEN Read(FromBytes(out.out, n), payload.pos) ELSE Nothing)))

Decoded(codec, n, bits, pos) ==
  LET counted(read(_, _)) == Then(GetGamma(bits, pos), LAMBDA weight : read(weight.v - 1, weight.pos))
  IN  CASE codec = "raw"         -> GetBits(bits, pos, n)
        [] codec = "rle"         -> ReadRle(n, bits, pos)
        [] codec = "positions"   -> counted(LAMBDA t, p : ReadOnes(n, t, p, LAMBDA at, q : Get(bits, q, WidthFor(n))))
        [] codec = "rice"        -> counted(LAMBDA t, p : ReadRice(n, t, bits, p))
        [] codec = "enumerative" -> counted(LAMBDA t, p : ReadRank(n, t, bits, p))
        [] codec = "bch"         -> counted(LAMBDA t, p : ReadSyndrome(n, t, bits, p))
        [] codec = "arith"       -> counted(LAMBDA len, p :
                                      Then(GetBytes(bits, p, len), LAMBDA b : Read(ArithDecoded(b.v, n), b.pos)))
        [] codec = "rans"        -> ReadRans(n, bits, pos)

---------------------------------------------------------------------------
Write ==
  /\ enc.codec = "none"
  /\ \E i \in DOMAIN All :
       /\ Cost(All[i], data) >= 0
       /\ enc' = [enc EXCEPT !.codec = All[i], !.bits = Encoded(All[i], data)]
  /\ UNCHANGED <<data, dec>>

\* What the reader is left with.
Restored(got) ==
  IF got.ok THEN [status |-> "done", e |-> got.v, pos |-> got.pos] ELSE [dec EXCEPT !.status = "error"]

\* A bit of what was written turns over.
Damage ==
  /\ enc.codec # "none" /\ dec.status = "start" /\ enc.flips < Flips
  /\ \E i \in DOMAIN enc.bits : enc' = [enc EXCEPT !.bits[i] = 1 - @, !.flips = @ + 1]
  /\ UNCHANGED <<data, dec>>

Restore ==
  /\ enc.codec # "none" /\ dec.status = "start"
  /\ dec' = Restored(Decoded(enc.codec, data.len, enc.bits, 0))
  /\ UNCHANGED <<data, enc>>

Init ==
  /\ data \in Inputs
  /\ enc = [codec |-> "none", bits |-> << >>, flips |-> 0]
  /\ dec = [status |-> "start", e |-> << >>, pos |-> 0]

Next == Write \/ Damage \/ Restore
Spec == Init /\ [][Next]_vars

---------------------------------------------------------------------------
\* What was written takes exactly the bits that were reckoned, by which codecs
\* and masks are chosen; it is read back as it was, to its last bit.
ExactlyReckoned == enc.codec # "none" => Len(enc.bits) = Cost(enc.codec, data)
ReadBack ==
  enc.flips = 0 => /\ dec.status # "error"
                   /\ dec.status = "done" => dec.e = data /\ dec.pos = Len(enc.bits)

\* Whatever is read, a vector has its length and nothing past it; and most
\* codecs take no bits but those they would write for what they give (there
\* is no first run to name the bit of in a vector of none): for a
\* syndrome, that of at most as many set bits as are announced.
OnlyEncodingsTaken ==
  dec.status = "done" =>
    LET taken == SubSeq(enc.bits, 1, dec.pos)
    IN  /\ Tidy(dec.e) /\ dec.e.len = data.len
        /\ data.len > 0 /\ enc.codec \in {"raw", "rle", "positions", "enumerative"} => Encoded(enc.codec, dec.e) = taken
        /\ enc.codec = "bch" =>
             LET t == GetGamma(enc.bits, 0).v - 1
                 r == Code!Syndrome(Code!CodeFor(data.len), dec.e.ones, t)
             IN  /\ Weight(dec.e) <= t
                 /\ PutGamma(t + 1) \o PutBits(FromOnes(Code!SyndromeBits(Code!CodeFor(data.len), t), r)) = taken
=============================================================================
