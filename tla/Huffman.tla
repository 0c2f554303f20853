------------------------------ MODULE Huffman ------------------------------
(***************************************************************************)
(* LZ77 tokens as Huffman-coded bits (src/lz77/huffman.rs), in the four    *)
(* formats there are: one block, blocks of a fixed number of tokens,       *)
(* blocks with a code for each kind of byte before, and blocks split where *)
(* it pays, with their code lengths coded in turn.                         *)
(*                                                                         *)
(* Alphabets and tables are constants, so that small ones can be checked;  *)
(* the bits of a block are there one by one.                               *)
(***************************************************************************)
EXTENDS Integers, Sequences, FiniteSets

CONSTANTS
  Inputs,        \* what is encoded: [format, tokens]
  Hostile,       \* sequences of blocks [n, bits] that no encoder made
  Literals,      \* number of byte values: 256
  LengthTable,   \* LENGTH_TABLE: rows <<base, extra bits>>
  DistTable,     \* DIST_TABLE
  Group,         \* context_group: the kind of each byte
  Cap,           \* most bits of a code: 15
  LenBits,       \* bits of a code length in a header: 4
  ClBits,        \* bits of the length of a code-length code: 3
  ClOrder,       \* CL_ORDER
  BlockSize,     \* tokens of a block
  InitialBlock,  \* initial_block_size
  MinBlock       \* min_block_size

VARIABLES
  data,  \* format and tokens
  enc,   \* tokens done, blocks [n, bits]; of a split format the ranges to come
  dec    \* block and place in it, codes, recent offsets, output, status

vars == <<data, enc, dec>>

Codes == INSTANCE PrefixCode WITH Freqs <- {}, Headers <- {}

---------------------------------------------------------------------------
(* Symbols and tables                                                      *)

Eob         == Literals
LitLen      == 0 .. Literals + Len(LengthTable)     \* LITLEN_SYMBOLS
RepOffset0  == Len(DistTable)
Dist        == 0 .. RepOffset0 + 3                  \* DIST_SYMBOLS
Groups      == {Group[b] : b \in DOMAIN Group}
ContextGroup(byte) == Group[byte]

Covers(row, n) == row[1] <= n /\ n < row[1] + 2^row[2]

\* encode_length: the first row; a length no row covers is the last one's.
EncodeLength(length) ==
  LET rows == {i \in DOMAIN LengthTable : Covers(LengthTable[i], length)}
      i    == CHOOSE k \in rows : \A j \in rows : k <= j
  IN  IF rows = {} THEN [symbol |-> Literals + Len(LengthTable), extra |-> 0, value |-> 0]
      ELSE [symbol |-> Literals + i, extra |-> LengthTable[i][2], value |-> length - LengthTable[i][1]]

\* encode_offset: the last row.
EncodeOffset(offset) ==
  LET rows == {i \in DOMAIN DistTable : Covers(DistTable[i], offset)}
      i    == IF rows = {} THEN Len(DistTable) ELSE CHOOSE k \in rows : \A j \in rows : k >= j
  IN  [symbol |-> i - 1, extra |-> DistTable[i][2], value |-> offset - DistTable[i][1]]

\* decode_length, decode_offset
DecodeLength(symbol, value) == LengthTable[symbol - Literals][1] + value
DecodeOffset(symbol, value) == DistTable[symbol + 1][1] + value

\* MruCache
Recent0 == <<1, 2, 3, 4>>
Find(mru, offset) == {i \in 1..4 : mru[i] = offset}
Promote(mru, i)   == [j \in 1..4 |-> IF j = 1 THEN mru[i] ELSE IF j <= i THEN mru[j - 1] ELSE mru[j]]
Insert(mru, offset) == <<offset, mru[1], mru[2], mru[3]>>

Literal(b)           == [match |-> FALSE, byte |-> b]
Match(offset, length) == [match |-> TRUE, offset |-> offset, length |-> length]

NoPart == [symbol |-> -1, extra |-> 0, value |-> 0]

\* The symbols of one token, and the recent offsets after it.
Symbols(token, mru) ==
  LET found == Find(mru, token.offset)
      i     == CHOOSE k \in found : \A j \in found : k <= j
  IN  IF ~token.match
      THEN [main |-> [symbol |-> token.byte, extra |-> 0, value |-> 0], dist |-> NoPart, mru |-> mru]
      ELSE [main |-> EncodeLength(token.length),
            dist |-> IF found # {} THEN [symbol |-> RepOffset0 + i - 1, extra |-> 0, value |-> 0]
                     ELSE EncodeOffset(token.offset),
            mru  |-> IF found # {} THEN Promote(mru, i) ELSE Insert(mru, token.offset)]

\* The loop both passes of an encoder go through: the symbols of every token.
AllSymbols(tokens) ==
  LET r[k \in 0..Len(tokens)] ==
        IF k = 0 THEN [mru |-> Recent0, out |-> << >>]
        ELSE LET s == r[k - 1]
                 t == Symbols(tokens[k], s.mru)
             IN  [mru |-> t.mru, out |-> Append(s.out, t)]
  IN  r[Len(tokens)].out

\* count_frequencies
LitLenFreq(symbols) == [s \in LitLen |-> Cardinality({k \in DOMAIN symbols : symbols[k].main.symbol = s})]
DistFreq(symbols)   == [s \in Dist |-> Cardinality({k \in DOMAIN symbols : symbols[k].dist.symbol = s})]

CodesFor(freqs) == Codes!Canonical(Codes!CodeLengths(freqs))

Field(value, count) == [value |-> value, count |-> count]
LengthFields(codes) == [i \in 1..Cardinality(DOMAIN codes) |-> Field(codes[i - 1].len, LenBits)]

Part(part, codes) ==
  IF part = NoPart THEN << >> ELSE <<Codes!AsField(codes[part.symbol]), Field(part.value, part.extra)>>

\* The fields of the tokens; lit gives the code of the main symbol of each.
TokenFields(symbols, lit, dist) ==
  LET f[k \in 0..Len(symbols)] ==
        IF k = 0 THEN << >>
        ELSE f[k - 1] \o Part(symbols[k].main, lit[k]) \o Part(symbols[k].dist, dist)
  IN  f[Len(symbols)]

---------------------------------------------------------------------------
(* encode_block (and huffman_encode, which is one block of it)             *)

\* Tokens as symbols, and the two codes for them.
WithCodes(symbols) ==
  [symbols |-> symbols, lit |-> CodesFor(LitLenFreq(symbols)), dist |-> CodesFor(DistFreq(symbols))]

BlockFields(tokens) ==
  LET fields(b) == LET same == [k \in DOMAIN b.symbols |-> b.lit]
                   IN  LengthFields(b.lit) \o LengthFields(b.dist) \o TokenFields(b.symbols, same, b.dist)
  IN  fields(WithCodes(AllSymbols(tokens)))

---------------------------------------------------------------------------
(* encode_block_context1                                                   *)

\* The byte before each token; there is none after a match.
Before(tokens, k) == IF k = 1 \/ tokens[k - 1].match THEN 0 ELSE tokens[k - 1].byte

\* The code of one kind: merged if it has no token, else with a place for
\* every symbol that some kind uses.
GroupCodes(symbols, groupAt, g) ==
  LET merged == LitLenFreq(symbols)
      own    == [s \in LitLen |-> Cardinality({k \in DOMAIN symbols : groupAt[k] = g /\ symbols[k].main.symbol = s})]
      patched == [s \in LitLen |-> IF merged[s] > 0 /\ own[s] = 0 THEN 1 ELSE own[s]]
  IN  CodesFor(IF \A s \in LitLen : own[s] = 0 THEN merged ELSE patched)

Context1Fields(tokens) ==
  LET groupAt == [k \in DOMAIN tokens |-> ContextGroup(Before(tokens, k))]
      fields(symbols, lit, dist) ==
        LET ofGroup == [k \in DOMAIN tokens |-> lit[groupAt[k]]]
            headers[g \in 0..Cardinality(Groups)] ==
              IF g = 0 THEN << >> ELSE headers[g - 1] \o LengthFields(lit[g - 1])
        IN  headers[Cardinality(Groups)] \o LengthFields(dist) \o TokenFields(symbols, ofGroup, dist)
      codes(symbols) ==
        fields(symbols, [g \in Groups |-> GroupCodes(symbols, groupAt, g)], CodesFor(DistFreq(symbols)))
  IN  codes(AllSymbols(tokens))

---------------------------------------------------------------------------
(* rle_encode_lengths, encode_block_rle                                    *)

RepeatLast == Cap + 1     \* 16: 3 to 6 more of the length before
Zeros3     == Cap + 2     \* 17: 3 to 10 zeros
Zeros11    == Cap + 3     \* 18: 11 to 138 zeros
Cl         == 0 .. Cap + 3
Upto(n, most) == IF n < most THEN n ELSE most

ZeroRun(run) ==
  LET z[n \in 0..run] ==
        IF n = 0 THEN << >>
        ELSE IF n >= 11 THEN <<[symbol |-> Zeros11, extra |-> 7, value |-> Upto(n, 138) - 11]>> \o z[n - Upto(n, 138)]
        ELSE IF n >= 3 THEN <<[symbol |-> Zeros3, extra |-> 3, value |-> n - 3]>>
        ELSE <<[symbol |-> 0, extra |-> 0, value |-> 0]>> \o z[n - 1]
  IN  z[run]

\* MUTANT: a run of seven is said in one symbol.
LengthRunLong(length, run) ==
  LET once == [symbol |-> length, extra |-> 0, value |-> 0]
      more[n \in 0..run] ==
        IF n = 0 THEN << >>
        ELSE IF n >= 3 THEN <<[symbol |-> RepeatLast, extra |-> 2, value |-> Upto(n, 7) - 3]>> \o more[n - Upto(n, 7)]
        ELSE <<once>> \o more[n - 1]
  IN  <<once>> \o more[run - 1]

LengthRun(length, run) ==
  LET once == [symbol |-> length, extra |-> 0, value |-> 0]
      more[n \in 0..run] ==
        IF n = 0 THEN << >>
        ELSE IF n >= 3 THEN <<[symbol |-> RepeatLast, extra |-> 2, value |-> Upto(n, 6) - 3]>> \o more[n - Upto(n, 6)]
        ELSE <<once>> \o more[n - 1]
  IN  <<once>> \o more[run - 1]

RunAt(lengths, i) ==
  CHOOSE r \in 1 .. Len(lengths) + 1 - i :
    /\ \A j \in i .. i + r - 1 : lengths[j] = lengths[i]
    /\ i + r <= Len(lengths) => lengths[i + r] # lengths[i]

RleLengths(lengths) ==
  LET run(length, n) == IF length = 0 THEN ZeroRun(n) ELSE LengthRun(length, n)
      rle[i \in 0 .. Len(lengths)] ==
        IF i = 0 THEN << >>
        ELSE rle[i - 1] \o IF i > 1 /\ lengths[i] = lengths[i - 1] THEN << >>
                           ELSE run(lengths[i], RunAt(lengths, i))
  IN  rle[Len(lengths)]

\* What a split block's header is made from: the runs of the lengths of both
\* codes, and a code for these in turn.
AllLengths(b) ==
  LET nLit == Cardinality(LitLen)
  IN  [i \in 1 .. nLit + Cardinality(Dist) |-> IF i <= nLit THEN b.lit[i - 1].len ELSE b.dist[i - nLit - 1].len]

WithClCode(b, rle) ==
  [symbols |-> b.symbols, lit |-> b.lit, dist |-> b.dist, rle |-> rle,
   cl |-> CodesFor([s \in Cl |-> Cardinality({k \in DOMAIN rle : rle[k].symbol = s})])]

WithRuns(b) == WithClCode(b, RleLengths(AllLengths(b)))
SplitBlock(tokens) == WithRuns(WithCodes(AllSymbols(tokens)))

\* At least four of the lengths of the code-length code are written.
Hclen(b) ==
  CHOOSE h \in 4 .. Len(ClOrder) :
    /\ \A i \in h + 1 .. Len(ClOrder) : b.cl[ClOrder[i]].len = 0
    /\ h = 4 \/ b.cl[ClOrder[h]].len > 0

SplitFields(b) ==
  LET same == [k \in DOMAIN b.symbols |-> b.lit]
      coded[k \in 0..Len(b.rle)] == IF k = 0 THEN << >> ELSE coded[k - 1] \o Part(b.rle[k], b.cl)
  IN  <<Field(Hclen(b) - 4, 4)>>
      \o [i \in 1..Hclen(b) |-> Field(b.cl[ClOrder[i]].len, ClBits)]
      \o coded[Len(b.rle)] \o TokenFields(b.symbols, same, b.dist)

SizeOf(part, codes) == IF part = NoPart THEN 0 ELSE codes[part.symbol].len + part.extra

\* MUTANT: the extra bits are left out.
EstimateBitsBare(b) ==
  LET size(part, codes) == IF part = NoPart THEN 0 ELSE codes[part.symbol].len
      lengths[k \in 0..Len(b.rle)] == IF k = 0 THEN 0 ELSE lengths[k - 1] + size(b.rle[k], b.cl)
      body[k \in 0..Len(b.symbols)] ==
        IF k = 0 THEN 0 ELSE body[k - 1] + size(b.symbols[k].main, b.lit) + size(b.symbols[k].dist, b.dist)
  IN  4 + Hclen(b) * ClBits + lengths[Len(b.rle)] + body[Len(b.symbols)]

\* estimate_block_bits: the same sizes added up, and nothing written.
EstimateBits(b) ==
  LET lengths[k \in 0..Len(b.rle)] == IF k = 0 THEN 0 ELSE lengths[k - 1] + SizeOf(b.rle[k], b.cl)
      body[k \in 0..Len(b.symbols)] ==
        IF k = 0 THEN 0 ELSE body[k - 1] + SizeOf(b.symbols[k].main, b.lit) + SizeOf(b.symbols[k].dist, b.dist)
  IN  4 + Hclen(b) * ClBits + lengths[Len(b.rle)] + body[Len(b.symbols)]

\* huffman_encode_split: what find_splits is given, one initial block each.
Ranges(tokens) ==
  LET n == Len(tokens)
  IN  [k \in 1 .. (n + InitialBlock - 1) \div InitialBlock |->
         [from |-> (k - 1) * InitialBlock, to |-> Upto(k * InitialBlock, n)]]

---------------------------------------------------------------------------
(* The encoders: one block per action                                      *)

Honest == data.format # "hostile"

Block(tokens, fields) == [n |-> Len(tokens), bits |-> Codes!Written(fields)]

Taken(to) == SubSeq(data.tokens, enc.done + 1, to)
Emit(to, fields) ==
  /\ enc' = [enc EXCEPT !.done = to, !.blocks = Append(@, Block(Taken(to), fields))]
  /\ UNCHANGED <<data, dec>>

\* huffman_encode: all of them, also none.
EncodePlain ==
  /\ data.format = "plain" /\ enc.blocks = << >>
  /\ Emit(Len(data.tokens), BlockFields(data.tokens))

\* huffman_encode_blocked
EncodeBlocked ==
  /\ data.format = "blocked" /\ enc.done < Len(data.tokens)
  /\ LET to == Upto(enc.done + BlockSize, Len(data.tokens)) IN Emit(to, BlockFields(Taken(to)))

\* huffman_encode_context1
EncodeContext1 ==
  /\ data.format = "context1" /\ enc.done < Len(data.tokens)
  /\ LET to == Upto(enc.done + BlockSize, Len(data.tokens)) IN Emit(to, Context1Fields(Taken(to)))

\* find_splits: a range is halved where the halves are smaller, and their left
\* one looked at first; a range that stays whole is a block.
EncodeSplit ==
  LET r     == Head(enc.ranges)
      mid   == r.from + (r.to - r.from) \div 2
      left  == [from |-> r.from, to |-> mid]
      right == [from |-> mid, to |-> r.to]
      bits  == [p \in {r, left, right} |-> EstimateBits(SplitBlock(SubSeq(data.tokens, p.from + 1, p.to)))]
  IN  /\ data.format = "split" /\ enc.ranges # << >>
      /\ IF r.to - r.from <= MinBlock \/ bits[left] + bits[right] >= bits[r]
         THEN enc' = [done   |-> r.to, ranges |-> Tail(enc.ranges),
                      blocks |-> LET tokens == SubSeq(data.tokens, r.from + 1, r.to)
                                 IN  Append(enc.blocks, Block(tokens, SplitFields(SplitBlock(tokens))))]
         ELSE enc' = [enc EXCEPT !.ranges = <<left, right>> \o Tail(@)]
      /\ UNCHANGED <<data, dec>>

---------------------------------------------------------------------------
(* The decoders: a block's header, then token after token.  The one of the *)
(* plain blocks reports what is wrong; the others panic.                   *)

Encoded == IF data.format = "plain" THEN enc.blocks # << >>
           ELSE ~Honest \/ enc.done = Len(data.tokens)
ThisBlock == enc.blocks[dec.block]

ReadLengths(bits, pos, symbols) ==
  [s \in symbols |-> Codes!ReadBits(bits, pos + s * LenBits, LenBits)]

\* The code of the code lengths, of which a header has so many.
ClCode(bits, hclen) ==
  LET place(s) == CHOOSE i \in DOMAIN ClOrder : ClOrder[i] = s
  IN  Codes!Canonical([s \in Cl |-> IF place(s) > hclen THEN 0
                                    ELSE Codes!ReadBits(bits, 5 + (place(s) - 1) * ClBits, ClBits)])

\* One run more of lengths; a place of 0 is for none that can be read.
RunRead(s, sym, bits, cl) ==
  LET at          == s.pos + cl[sym].len
      last        == IF s.lengths = << >> THEN 0 ELSE s.lengths[Len(s.lengths)]
      many(n, x)  == s.lengths \o [i \in 1..n |-> x]
      run(n, least, x) == [pos |-> at + n, lengths |-> many(least + Codes!ReadBits(bits, at, n), x)]
  IN  IF sym = Codes!NoSymbol THEN [s EXCEPT !.pos = 0]
      ELSE IF sym <= Cap THEN [pos |-> at, lengths |-> Append(s.lengths, sym)]
      ELSE IF sym = RepeatLast THEN run(2, 3, last)
      ELSE IF sym = Zeros3 THEN run(3, 3, 0)
      ELSE run(7, 11, 0)

\* The code lengths of a split block: runs until there are enough, and what is
\* too much is cut off.
RunsRead(bits, hclen, cl) ==
  LET total == Cardinality(LitLen) + Cardinality(Dist)
      r[k \in 0..total] ==
        IF k = 0 THEN [pos |-> 5 + hclen * ClBits, lengths |-> << >>]
        ELSE LET s == r[k - 1]
             IN  IF s.pos = 0 \/ Len(s.lengths) >= total THEN s
                 ELSE RunRead(s, Codes!ReadSymbol(bits, s.pos, cl), bits, cl)
  IN  r[total]

\* What the tokens of a block are read with.
Opened(pos, lit, dist) ==
  dec' = [dec EXCEPT !.status = "tokens", !.left = ThisBlock.n, !.pos = pos,
                     !.lit = [g \in Groups |-> Codes!Canonical(lit[g])], !.dist = Codes!Canonical(dist),
                     !.mru = Recent0, !.prev = 0]
Failed == dec' = [dec EXCEPT !.status = "failed"]

Opening == dec.status = "blocks" /\ Encoded /\ dec.block <= Len(enc.blocks)
PlainEnd == 1 + LenBits * (Cardinality(LitLen) + Cardinality(Dist))

\* huffman_decode
OpenPlain ==
  /\ Opening /\ data.format = "plain"
  /\ LET bits == ThisBlock.bits
         lit  == ReadLengths(bits, 1, LitLen)
         dist == ReadLengths(bits, 1 + LenBits * Cardinality(LitLen), Dist)
     IN  Opened(PlainEnd, [g \in Groups |-> lit], dist)
  /\ UNCHANGED <<data, enc>>

\* MUTANT: codes that overlap are let in.
OpenBlockedUnchecked ==
  /\ Opening /\ data.format \in {"blocked", "hostile"}
  /\ LET bits == ThisBlock.bits
         lit  == ReadLengths(bits, 1, LitLen)
         dist == ReadLengths(bits, 1 + LenBits * Cardinality(LitLen), Dist)
     IN  IF ThisBlock.n > 0 THEN Opened(PlainEnd, [g \in Groups |-> lit], dist) ELSE Failed
  /\ UNCHANGED <<data, enc>>

\* huffman_decode_blocked_checked
OpenBlocked ==
  /\ Opening /\ data.format \in {"blocked", "hostile"}
  /\ LET bits == ThisBlock.bits
         lit  == ReadLengths(bits, 1, LitLen)
         dist == ReadLengths(bits, 1 + LenBits * Cardinality(LitLen), Dist)
     IN  IF Codes!PrefixFree(lit) /\ Codes!PrefixFree(dist) /\ ThisBlock.n > 0
         THEN Opened(PlainEnd, [g \in Groups |-> lit], dist) ELSE Failed
  /\ UNCHANGED <<data, enc>>

\* huffman_decode_context1
OpenContext1 ==
  /\ Opening /\ data.format = "context1"
  /\ LET bits   == ThisBlock.bits
         header == LenBits * Cardinality(LitLen)
         distAt == 1 + Cardinality(Groups) * header
     IN  Opened(distAt + LenBits * Cardinality(Dist),
                [g \in Groups |-> ReadLengths(bits, 1 + g * header, LitLen)],
                ReadLengths(bits, distAt, Dist))
  /\ UNCHANGED <<data, enc>>

\* The first lengths are those of literals and lengths, the others of distances.
OpenedSplit(runs) ==
  LET lit == [s \in LitLen |-> runs.lengths[s + 1]]
  IN  IF runs.pos = 0 THEN Failed
      ELSE Opened(runs.pos, [g \in Groups |-> lit], [s \in Dist |-> runs.lengths[Cardinality(LitLen) + s + 1]])

\* huffman_decode_split, decode_block_rle
OpenSplit ==
  /\ Opening /\ data.format = "split"
  /\ LET bits  == ThisBlock.bits
         hclen == Codes!ReadBits(bits, 1, 4) + 4
     IN  OpenedSplit(RunsRead(bits, hclen, ClCode(bits, hclen)))
  /\ UNCHANGED <<data, enc>>

Reading == dec.status = "tokens" /\ dec.left > 0
Symbol  == Codes!ReadSymbol(ThisBlock.bits, dec.pos, dec.lit[ContextGroup(dec.prev)])
AfterSymbol == dec.pos + dec.lit[ContextGroup(dec.prev)][Symbol].len

DecodeLiteral ==
  /\ Reading /\ Symbol \in 0 .. Literals - 1
  /\ dec' = [dec EXCEPT !.left = @ - 1, !.pos = AfterSymbol, !.out = Append(@, Literal(Symbol)),
                        !.prev = IF data.format = "context1" THEN Symbol ELSE 0]
  /\ UNCHANGED <<data, enc>>

\* The distance is a recent one, or has extra bits behind its code.
DistanceRead(length, dist, distAt) ==
  LET valueAt == distAt + dec.dist[dist].len
      more    == DistTable[dist + 1][2]
      offset  == DecodeOffset(dist, Codes!ReadBits(ThisBlock.bits, valueAt, more))
      rep     == dist - RepOffset0 + 1
      read(off, mru, pos) == [dec EXCEPT !.left = @ - 1, !.pos = pos, !.mru = mru, !.prev = 0,
                                         !.out = Append(@, Match(off, length))]
  IN  IF dist = Codes!NoSymbol THEN Failed
      ELSE IF dist >= RepOffset0 THEN dec' = read(dec.mru[rep], Promote(dec.mru, rep), valueAt)
      ELSE dec' = read(offset, Insert(dec.mru, offset), valueAt + more)
MatchRead(symbol, at) ==
  LET extra == LengthTable[symbol - Literals][2]
  IN  DistanceRead(DecodeLength(symbol, Codes!ReadBits(ThisBlock.bits, at, extra)),
                   Codes!ReadSymbol(ThisBlock.bits, at + extra, dec.dist), at + extra)

DecodeMatch ==
  /\ Reading /\ Symbol > Eob
  /\ MatchRead(Symbol, AfterSymbol)
  /\ UNCHANGED <<data, enc>>

\* No code begins here, or it is cut off, or it is the one never written.
DecodeNothing ==
  /\ Reading /\ Symbol \in {Codes!NoSymbol, Eob}
  /\ Failed /\ UNCHANGED <<data, enc>>

NextBlock ==
  /\ dec.status = "tokens" /\ dec.left = 0
  /\ dec' = [dec EXCEPT !.status = "blocks", !.block = @ + 1]
  /\ UNCHANGED <<data, enc>>

Done ==
  /\ dec.status = "blocks" /\ Encoded /\ dec.block > Len(enc.blocks)
  /\ dec' = [dec EXCEPT !.status = "ok"]
  /\ UNCHANGED <<data, enc>>

---------------------------------------------------------------------------
NoCodes == [g \in Groups |-> << >>]
Init ==
  /\ dec = [status |-> "blocks", block |-> 1, left |-> 0, pos |-> 1, lit |-> NoCodes, dist |-> << >>,
            mru |-> Recent0, prev |-> 0, out |-> << >>]
  /\ \/ data \in Inputs /\ enc = [done |-> 0, blocks |-> << >>, ranges |-> Ranges(data.tokens)]
     \/ /\ data = [format |-> "hostile", tokens |-> << >>]
        /\ \E blocks \in Hostile : enc = [done |-> 0, blocks |-> blocks, ranges |-> << >>]

EncodeNext == EncodePlain \/ EncodeBlocked \/ EncodeContext1 \/ EncodeSplit
OpenNext   == OpenPlain \/ OpenBlocked \/ OpenContext1 \/ OpenSplit
DecodeNext == DecodeLiteral \/ DecodeMatch \/ DecodeNothing \/ NextBlock \/ Done
Next == EncodeNext \/ OpenNext \/ DecodeNext
Spec == Init /\ [][Next]_vars

---------------------------------------------------------------------------
\* Whatever the format, the tokens come back, one by one.
RoundTrip ==
  Honest => /\ dec.status # "failed"
            /\ dec.out = SubSeq(data.tokens, 1, Len(dec.out))
            /\ dec.status = "ok" => dec.out = data.tokens

\* The ranges to come begin where the last block ended, follow each other and
\* end with the tokens; and a block takes what its estimate said, so that the
\* choice between halves and a whole was one (estimate_block_bits, find_splits).
SplitsSound ==
  data.format = "split" =>
    /\ \A k \in DOMAIN enc.ranges :
         /\ enc.ranges[k].from = IF k = 1 THEN enc.done ELSE enc.ranges[k - 1].to
         /\ enc.ranges[k].from < enc.ranges[k].to
    /\ IF enc.ranges = << >> THEN enc.done = Len(data.tokens)
       ELSE enc.ranges[Len(enc.ranges)].to = Len(data.tokens)
    /\ enc.blocks # << >> =>
         LET last == enc.blocks[Len(enc.blocks)]
             bits == EstimateBits(SplitBlock(SubSeq(data.tokens, enc.done - last.n + 1, enc.done)))
         IN  Len(last.bits) = ((bits + 7) \div 8) * 8

\* The checked decoder never reads with two codes that overlap, and its success
\* is what its blocks say: each has tokens, and as many come out.
HostileContained ==
  data.format = "hostile" =>
    /\ dec.status = "tokens" =>
         /\ dec.left < ThisBlock.n => dec.out # << >>
         /\ \A g \in Groups : \A s, t \in LitLen :
              s # t /\ dec.lit[g][s].len > 0 /\ dec.lit[g][t].len >= dec.lit[g][s].len =>
                SubSeq(Codes!BitsOf(dec.lit[g][t]), 1, dec.lit[g][s].len) # Codes!BitsOf(dec.lit[g][s])
    /\ dec.status = "ok" =>
         LET sum[k \in 0..Len(enc.blocks)] == IF k = 0 THEN 0 ELSE sum[k - 1] + enc.blocks[k].n
         IN  Len(dec.out) = sum[Len(enc.blocks)] /\ \A k \in DOMAIN enc.blocks : enc.blocks[k].n > 0
=============================================================================
