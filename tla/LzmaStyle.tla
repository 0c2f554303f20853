----------------------------- MODULE LzmaStyle -----------------------------
(***************************************************************************)
(* The LZMA-style codec (src/codecs/lzma_style.rs, lzma_state.rs,          *)
(* literal_coder.rs): tokens to bits and back.                             *)
(*                                                                         *)
(* The range coder is ideal here: it hands the bits over one by one, each  *)
(* with the adaptive probability it was coded with, and a decoder that     *)
(* asks with another probability gets another bit (RangeCoder shows that   *)
(* the coder keeps this promise).  A probability is named by the table and *)
(* the place it is kept in; tables that start equal and see the same bits  *)
(* in the same places stay equal, so the names stand for the values.       *)
(*                                                                         *)
(* The encoder may emit any parse of the block into tokens that the codec  *)
(* has; which one it does is the subject of LzmaParse.                     *)
(***************************************************************************)
EXTENDS Integers, Sequences

CONSTANTS
  Blocks,       \* the blocks that are encoded
  ByteBits,     \* bits of a byte
  Lc,           \* LC
  PosStates,    \* NUM_POS_STATES
  LowBits,      \* bits of the two small trees of LengthCoder
  HighBits,     \* bits of the large one
  SlotBits,     \* bits of a distance slot
  EndPos,       \* END_POS_MODEL_INDEX
  AlignBits,    \* NUM_ALIGN_BITS
  MaxDistance,  \* u32::MAX
  MaxMatch,     \* MAX_MATCH
  Hostile       \* payloads that no encoder made: [declared, size, log]

StartPos == 4     \* START_POS_MODEL_INDEX
Byte == 0 .. 2^ByteBits - 1

\* The trees have a leaf for every length a token can have.
LengthAssumption == MaxMatch < 2 + 2 * 2^LowBits + 2^HighBits

VARIABLES
  data,  \* the block
  enc,   \* encoder: position, state, recent distances, bits coded; and, as
         \*   history, what it was at each number of bits (marks)
  dec    \* decoder: next bit, state, recent distances, output, status

vars == <<data, enc, dec>>

Least2(a, b) == IF a < b THEN a ELSE b
AtLeast0(a)  == IF a < 0 THEN 0 ELSE a

---------------------------------------------------------------------------
(* lzma_state.rs                                                           *)

LiteralNext  == <<0, 0, 0, 0, 1, 2, 3, 4, 5, 6, 4, 5>>
MatchNext    == <<7, 7, 7, 7, 7, 7, 7, 10, 10, 10, 10, 10>>
RepNext      == <<8, 8, 8, 8, 8, 8, 8, 11, 11, 11, 11, 11>>
ShortRepNext == <<9, 9, 9, 9, 9, 9, 9, 11, 11, 11, 11, 11>>

IsLiteralState(s) == s < 7

---------------------------------------------------------------------------
(* Bits and trees of bits                                                  *)

Coded(ctx, bit) == [ctx |-> ctx, bit |-> bit]

\* The highest bit first, each with the node its forerunners lead to.
Tree(table, n, value) ==
  [i \in 1..n |-> Coded(<<table, 2^(i-1) + value \div 2^(n-i+1)>>, (value \div 2^(n-i)) % 2)]

\* encode_reverse_bits: the lowest bit first.
ReverseTree(table, base, n, value) ==
  LET bit(i)          == (value \div 2^i) % 2
      sym[i \in 0..n] == IF i = 0 THEN 1 ELSE 2 * sym[i-1] + bit(i-1)
  IN  [i \in 1..n |-> Coded(<<table, base + sym[i-1]>>, bit(i-1))]

Direct(n, value) == [i \in 1..n |-> Coded(<<"direct">>, (value \div 2^(n-i)) % 2)]

Log == enc.log
\* What decode_bit gives for the k-th bit, asked with the probability ctx.
BitAt(k, ctx) ==
  IF k \notin DOMAIN Log THEN 0
  ELSE IF Log[k].ctx = ctx \/ Log[k].ctx = <<"any">> THEN Log[k].bit
  ELSE 1 - Log[k].bit

TreeAt(k, table, n) ==
  LET sym[i \in 0..n] == IF i = 0 THEN 1 ELSE 2 * sym[i-1] + BitAt(k + i - 1, <<table, sym[i-1]>>)
  IN  sym[n] - 2^n

\* MUTANT: the lowest bit is taken for the highest.
ReverseTreeAtForward(k, table, base, n) == TreeAt(k, table, n)

ReverseTreeAt(k, table, base, n) ==
  LET r[i \in 0..n] ==
        IF i = 0 THEN [sym |-> 1, value |-> 0]
        ELSE LET bit == BitAt(k + i - 1, <<table, base + r[i-1].sym>>)
             IN  [sym |-> 2 * r[i-1].sym + bit, value |-> r[i-1].value + bit * 2^(i-1)]
  IN  r[n].value

DirectAt(k, n) ==
  LET v[i \in 0..n] == IF i = 0 THEN 0 ELSE 2 * v[i-1] + BitAt(k + i - 1, <<"direct">>) IN v[n]

---------------------------------------------------------------------------
(* literal_coder.rs                                                        *)

\* context_index (LP = 0).
ContextIndex(prev) == prev \div 2^(ByteBits - Lc)

\* The table a bit of a matched literal is coded with: while the literal and
\* the byte a match would have given agree, that byte's bit chooses it.
MatchedTable(ctx, agree, matchBit) ==
  IF agree THEN <<"matched", ctx, matchBit>> ELSE <<"literal", ctx>>

BitOf(byte, i) == (byte \div 2^(ByteBits - i)) % 2   \* i = 1 is the highest

\* encode_matched_literal
MatchedLiteral(byte, matchByte, ctx) ==
  LET agree(i) == \A j \in 1..i-1 : BitOf(byte, j) = BitOf(matchByte, j)
      node(i)  == 2^(i-1) + byte \div 2^(ByteBits-i+1)
  IN  [i \in 1..ByteBits |->
         Coded(<<MatchedTable(ctx, agree(i), BitOf(matchByte, i)), node(i)>>, BitOf(byte, i))]

\* MUTANT: the two bytes are taken to agree for ever.
MatchedLiteralAtForever(k, matchByte, ctx) ==
  LET r[i \in 0..ByteBits] ==
        IF i = 0 THEN 1
        ELSE 2 * r[i-1] + BitAt(k + i - 1, <<MatchedTable(ctx, TRUE, BitOf(matchByte, i)), r[i-1]>>)
  IN  r[ByteBits] - 2^ByteBits

\* decode_matched_literal
MatchedLiteralAt(k, matchByte, ctx) ==
  LET r[i \in 0..ByteBits] ==
        IF i = 0 THEN [sym |-> 1, agree |-> TRUE]
        ELSE LET m   == BitOf(matchByte, i)
                 bit == BitAt(k + i - 1, <<MatchedTable(ctx, r[i-1].agree, m), r[i-1].sym>>)
             IN  [sym |-> 2 * r[i-1].sym + bit, agree |-> r[i-1].agree /\ m = bit]
  IN  r[ByteBits].sym - 2^ByteBits

---------------------------------------------------------------------------
(* Lengths and distances                                                   *)

Small == 2^LowBits

\* LengthCoder::encode; coder is the match or the rep instance.
EncodeLength(coder, len, ps) ==
  LET v    == AtLeast0(len - 2)
      high == Least2(v - 2 * Small, 2^HighBits - 1)
  IN  IF v < Small THEN <<Coded(<<coder, "choice", ps>>, 0)>> \o Tree(<<coder, "low", ps>>, LowBits, v)
      ELSE <<Coded(<<coder, "choice", ps>>, 1)>> \o
           IF v < 2 * Small
           THEN <<Coded(<<coder, "choice2", ps>>, 0)>> \o Tree(<<coder, "mid", ps>>, LowBits, v - Small)
           ELSE <<Coded(<<coder, "choice2", ps>>, 1)>> \o Tree(<<coder, "high">>, HighBits, high)

\* LengthCoder::decode: the length and the number of bits it took.
LengthAt(k, coder, ps) ==
  IF BitAt(k, <<coder, "choice", ps>>) = 0
  THEN [value |-> 2 + TreeAt(k + 1, <<coder, "low", ps>>, LowBits), bits |-> 1 + LowBits]
  ELSE IF BitAt(k + 1, <<coder, "choice2", ps>>) = 0
  THEN [value |-> 2 + Small + TreeAt(k + 2, <<coder, "mid", ps>>, LowBits), bits |-> 2 + LowBits]
  ELSE [value |-> 2 + 2 * Small + TreeAt(k + 2, <<coder, "high">>, HighBits), bits |-> 2 + HighBits]

Log2(n) == CHOOSE b \in 0..31 : 2^b <= n /\ n < 2 * 2^b

\* dist_slot, slot_base_and_bits
DistSlot(d) == IF d < 4 THEN d ELSE 2 * Log2(d) + ((d \div 2^(Log2(d) - 1)) % 2)
SlotBits0(slot) == IF slot < 4 THEN 0 ELSE slot \div 2 - 1
SlotBase(slot)  == IF slot < 4 THEN slot ELSE (2 + (slot % 2)) * 2^SlotBits0(slot)

\* spec_offset: where the tree of a slot begins in the shared table.
SpecOffset(slot) ==
  LET off[s \in StartPos .. EndPos] == IF s = StartPos THEN 0 ELSE off[s-1] + 2^SlotBits0(s-1)
  IN  off[slot]

\* len_state; a small match has other distances.
LenState(len) == Least2(AtLeast0(len - 2), 3)

\* DistanceCoder::encode
EncodeDistance(dist, len) ==
  LET d     == dist - 1
      slot  == DistSlot(d)
      n     == SlotBits0(slot)
      extra == d - SlotBase(slot)
  IN  Tree(<<"slot", LenState(len)>>, SlotBits, slot) \o
      IF slot < StartPos THEN << >>
      ELSE IF slot < EndPos THEN ReverseTree(<<"spec">>, SpecOffset(slot), n, extra)
      ELSE Direct(n - AlignBits, extra \div 2^AlignBits)
           \o ReverseTree(<<"align">>, 0, AlignBits, extra % 2^AlignBits)

Saturating(n) == Least2(n, MaxDistance)

\* DistanceCoder::decode
DistanceAt(k, len) ==
  LET slot == TreeAt(k, <<"slot", LenState(len)>>, SlotBits)
      n    == SlotBits0(slot)
      from == k + SlotBits
      extra == IF slot < EndPos THEN ReverseTreeAt(from, <<"spec">>, SpecOffset(slot), n)
               ELSE DirectAt(from, n - AlignBits) * 2^AlignBits
                    + ReverseTreeAt(from + n - AlignBits, <<"align">>, 0, AlignBits)
  IN  IF slot < StartPos THEN [value |-> slot + 1, bits |-> SlotBits]
      ELSE [value |-> Saturating(Saturating(SlotBase(slot) + extra) + 1), bits |-> SlotBits + n]

\* MUTANT: the others stay where they are.
SwappedToFront(reps, i) == [reps EXCEPT ![1] = reps[i], ![i] = reps[1]]

\* move_rep_to_front
MovedToFront(reps, i) ==
  [j \in 1..4 |-> IF j = 1 THEN reps[i] ELSE IF j <= i THEN reps[j-1] ELSE reps[j]]

Entered(reps, dist) == <<dist, reps[1], reps[2], reps[3]>>

---------------------------------------------------------------------------
(* encode_tokens: one action per kind of token                             *)

At(p) == data[p + 1]
PosState(p) == p % PosStates
RepsAtStart == <<1, 2, 3, 4>>

\* match_len_at: how many bytes at p repeat those dist before.
MatchLenAt(p, dist) ==
  LET limit == Least2(Len(data) - p, MaxMatch)
  IN  CHOOSE n \in 0 .. limit :
        /\ \A i \in 0 .. n - 1 : At(p - dist + i) = At(p + i)
        /\ n < limit => At(p - dist + n) # At(p + n)

IsMatch(s, p) == <<"is_match", s, PosState(p)>>

Encode(bits, state, reps, len) ==
  LET log == Log \o bits
  IN  /\ enc' = [enc EXCEPT !.pos = @ + len, !.state = state, !.reps = reps, !.log = log,
                            !.marks = Append(@, [at |-> Len(log), pos |-> enc.pos + len,
                                                 state |-> state, reps |-> reps])]
      /\ UNCHANGED <<data, dec>>

Encoding == enc.pos < Len(data) /\ enc.size = "enough" /\ dec.status = "waiting"

EncodeLiteral ==
  LET s    == enc.state
      p    == enc.pos
      ctx  == ContextIndex(IF p = 0 THEN 0 ELSE At(p - 1))
      bits == IF IsLiteralState(s) \/ enc.reps[1] > p
              THEN Tree(<<"literal", ctx>>, ByteBits, At(p))
              ELSE MatchedLiteral(At(p), At(p - enc.reps[1]), ctx)
  IN  /\ Encoding
      /\ Encode(<<Coded(IsMatch(s, p), 0)>> \o bits, LiteralNext[s + 1], enc.reps, 1)

\* A distance among the recent ones: which one, then the length of the match.
EncodeRep ==
  LET s  == enc.state
      p  == enc.pos
      ps == PosState(p)
      which(i) == IF i = 1 THEN <<Coded(<<"is_rep0", s>>, 0), Coded(<<"is_rep0_long", s, ps>>, 1)>>
                  ELSE <<Coded(<<"is_rep0", s>>, 1)>> \o
                       IF i = 2 THEN <<Coded(<<"is_rep1", s>>, 0)>>
                       ELSE <<Coded(<<"is_rep1", s>>, 1),
                              Coded(<<"is_rep2", s>>, IF i = 3 THEN 0 ELSE 1)>>
  IN  /\ Encoding
      /\ \E i \in 1..4 :
           /\ enc.reps[i] <= p
           /\ \E len \in 2 .. MatchLenAt(p, enc.reps[i]) :
                Encode(<<Coded(IsMatch(s, p), 1), Coded(<<"is_rep", s>>, 1)>> \o which(i)
                         \o EncodeLength("rep", len, ps),
                       RepNext[s + 1], MovedToFront(enc.reps, i), len)

\* One byte at the most recent distance.
EncodeShortRep ==
  LET s == enc.state
      p == enc.pos
  IN  /\ Encoding
      /\ enc.reps[1] <= p /\ MatchLenAt(p, enc.reps[1]) >= 1
      /\ Encode(<<Coded(IsMatch(s, p), 1), Coded(<<"is_rep", s>>, 1), Coded(<<"is_rep0", s>>, 0),
                  Coded(<<"is_rep0_long", s, PosState(p)>>, 0)>>,
                ShortRepNext[s + 1], enc.reps, 1)

\* MUTANT: a distance that is already among the recent ones is entered again.
EncodeMatchAnyway ==
  LET s == enc.state
      p == enc.pos
  IN  /\ Encoding
      /\ \E dist \in 1 .. Least2(p, MaxDistance - 1), len \in 3 .. MaxMatch :
           /\ len <= MatchLenAt(p, dist)
           /\ Encode(<<Coded(IsMatch(s, p), 1), Coded(<<"is_rep", s>>, 0)>>
                       \o EncodeLength("match", len, PosState(p)) \o EncodeDistance(dist, len),
                     MatchNext[s + 1], Entered(enc.reps, dist), len)

EncodeMatch ==
  LET s == enc.state
      p == enc.pos
  IN  /\ Encoding
      /\ \E dist \in 1 .. Least2(p, MaxDistance - 1) :
           /\ \A i \in 1..4 : enc.reps[i] # dist
           /\ \E len \in 3 .. MatchLenAt(p, dist) :
                Encode(<<Coded(IsMatch(s, p), 1), Coded(<<"is_rep", s>>, 0)>>
                         \o EncodeLength("match", len, PosState(p)) \o EncodeDistance(dist, len),
                       MatchNext[s + 1], Entered(enc.reps, dist), len)

---------------------------------------------------------------------------
(* decode_block: one action per kind of token                              *)

Declared == enc.declared
OutLen   == Len(dec.out)

\* The header, and what is refused before a bit is read.
DecodeStart ==
  /\ dec.status = "waiting"
  /\ enc.size = "enough" => enc.pos = Len(data)
  /\ dec' = [dec EXCEPT !.status = IF enc.size = "headerless" THEN "error"
                                   ELSE IF Declared = 0 THEN "ok"
                                   ELSE IF enc.size = "short" THEN "error"
                                   ELSE "tokens"]
  /\ UNCHANGED <<data, enc>>

Decoding == dec.status = "tokens" /\ OutLen < Declared
Asked(what) == BitAt(dec.k, IsMatch(dec.state, OutLen)) = what
\* The bit after the first.
Rep         == BitAt(dec.k + 1, <<"is_rep", dec.state>>)

\* copy_match: a match may overlap what it produces.
Copied(out, dist, len) ==
  LET c[i \in 0..len] == IF i = 0 THEN out ELSE Append(c[i-1], c[i-1][Len(out) - dist + i])
  IN  c[len]

\* copy_match, and what follows it unless it fails.
DecodeCopy(dist, len, used, state, reps) ==
  /\ IF dist \in 1 .. OutLen
     THEN dec' = [dec EXCEPT !.k = @ + used, !.state = state, !.reps = reps,
                             !.out = Copied(@, dist, len)]
     ELSE dec' = [dec EXCEPT !.status = "error"]
  /\ UNCHANGED <<data, enc>>

\* MUTANT: the byte a match would have given is never looked at.
DecodeLiteralPlain ==
  LET ctx == ContextIndex(IF OutLen = 0 THEN 0 ELSE dec.out[OutLen])
  IN  /\ Decoding /\ Asked(0)
      /\ dec' = [dec EXCEPT !.k = @ + 1 + ByteBits, !.state = LiteralNext[@ + 1],
                            !.out = Append(@, TreeAt(dec.k + 1, <<"literal", ctx>>, ByteBits))]
      /\ UNCHANGED <<data, enc>>

DecodeLiteral ==
  LET s    == dec.state
      ctx  == ContextIndex(IF OutLen = 0 THEN 0 ELSE dec.out[OutLen])
      byte == IF IsLiteralState(s) \/ dec.reps[1] > OutLen
              THEN TreeAt(dec.k + 1, <<"literal", ctx>>, ByteBits)
              ELSE MatchedLiteralAt(dec.k + 1, dec.out[OutLen + 1 - dec.reps[1]], ctx)
  IN  /\ Decoding /\ Asked(0)
      /\ dec' = [dec EXCEPT !.k = @ + 1 + ByteBits, !.state = LiteralNext[s + 1],
                            !.out = Append(@, byte)]
      /\ UNCHANGED <<data, enc>>

DecodeMatch ==
  /\ Decoding /\ Asked(1) /\ Rep = 0
  /\ LET len  == LengthAt(dec.k + 2, "match", PosState(OutLen))
         dist == DistanceAt(dec.k + 2 + len.bits, len.value)
     IN  DecodeCopy(dist.value, len.value, 2 + len.bits + dist.bits,
                    MatchNext[dec.state + 1], Entered(dec.reps, dist.value))

Rep0 == BitAt(dec.k + 2, <<"is_rep0", dec.state>>)
Long == BitAt(dec.k + 3, <<"is_rep0_long", dec.state, PosState(OutLen)>>)

DecodeShortRep ==
  /\ Decoding /\ Asked(1) /\ Rep = 1 /\ Rep0 = 0 /\ Long = 0
  /\ DecodeCopy(dec.reps[1], 1, 4, ShortRepNext[dec.state + 1], dec.reps)

DecodeRep ==
  LET s     == dec.state
      rep1  == BitAt(dec.k + 3, <<"is_rep1", s>>)
      rep2  == BitAt(dec.k + 4, <<"is_rep2", s>>)
      i     == IF Rep0 = 0 THEN 1 ELSE IF rep1 = 0 THEN 2 ELSE IF rep2 = 0 THEN 3 ELSE 4
      used  == IF i <= 2 THEN 4 ELSE 5
      len   == LengthAt(dec.k + used, "rep", PosState(OutLen))
  IN  /\ Decoding /\ Asked(1) /\ Rep = 1 /\ (Rep0 = 0 => Long = 1)
      /\ DecodeCopy(dec.reps[i], len.value, used + len.bits, RepNext[s + 1],
                    MovedToFront(dec.reps, i))

\* MUTANT: what the last match wrote too much is kept.
DecodeEndKeeps ==
  /\ dec.status = "tokens" /\ OutLen >= Declared
  /\ dec' = [dec EXCEPT !.status = "ok"]
  /\ UNCHANGED <<data, enc>>

\* The last match may have written more than was declared.
DecodeEnd ==
  /\ dec.status = "tokens" /\ OutLen >= Declared
  /\ dec' = [dec EXCEPT !.status = "ok", !.out = SubSeq(@, 1, Declared)]
  /\ UNCHANGED <<data, enc>>

---------------------------------------------------------------------------
Dec0  == [k |-> 1, state |-> 0, reps |-> RepsAtStart, out |-> << >>, status |-> "waiting"]

\* A block to encode, or a payload from elsewhere.
Init ==
  /\ dec = Dec0
  /\ \/ /\ data \in Blocks
        /\ enc = [pos |-> 0, state |-> 0, reps |-> RepsAtStart, log |-> << >>,
                  declared |-> Len(data), size |-> "enough",
                  marks |-> <<[at |-> 0, pos |-> 0, state |-> 0, reps |-> RepsAtStart]>>]
     \/ /\ data = << >>
        /\ \E h \in Hostile :
             enc = [pos |-> 0, state |-> 0, reps |-> RepsAtStart, log |-> h.log,
                    declared |-> h.declared, size |-> h.size, marks |-> << >>]

EncodeNext == EncodeLiteral \/ EncodeRep \/ EncodeShortRep \/ EncodeMatch
DecodeNext == \/ DecodeStart \/ DecodeLiteral \/ DecodeMatch \/ DecodeShortRep
              \/ DecodeRep \/ DecodeEnd
Next == EncodeNext \/ DecodeNext
Spec == Init /\ [][Next]_vars

Honest == enc.marks # << >>

---------------------------------------------------------------------------
\* Whenever the decoder has read as many bits as the encoder had written
\* between two tokens, it has its state, recent distances and position; and it
\* is between two tokens only at those places (decode_block, encode_tokens).
InStep ==
  Honest /\ dec.status \in {"tokens", "error"} =>
    \E m \in 1..Len(enc.marks) :
      /\ enc.marks[m].at = dec.k - 1 /\ enc.marks[m].pos = OutLen
      /\ enc.marks[m].state = dec.state /\ enc.marks[m].reps = dec.reps
      /\ dec.status = "tokens"

\* Every parse of every block is decoded to the block.
RoundTrip == Honest /\ dec.status = "ok" => dec.out = data

\* The encoder finds the distance of a match at one place at most among the
\* recent ones: they stay different.
RepsDistinct == \A i, j \in 1..4 : i # j => enc.reps[i] # enc.reps[j]

\* Whatever the payload says, success means as many bytes as were declared,
\* and the output never outgrows them by more than one match.
OutputBounded ==
  /\ dec.status = "ok" => OutLen = Declared
  /\ OutLen < Declared + 2 + 2 * Small + 2^HighBits
=============================================================================
