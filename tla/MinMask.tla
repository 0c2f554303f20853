------------------------------- MODULE MinMask -------------------------------
(***************************************************************************)
(* Mask and residual (src/codecs/minmask/{mod,masks}.rs): the input is one *)
(* stream of bits in blocks; each block is a mask the decoder can render   *)
(* from what it has, perhaps complemented, and the bits it left wrong.     *)
(*                                                                         *)
(* The encoder renders masks from the whole stream, the decoder from what  *)
(* it has rebuilt, bit by bit where a mask reaches into its own block.     *)
(* Which masks are looked at closely rests on estimates of entropy: so     *)
(* many blocks as Astray says take any candidate, the others the cheapest, *)
(* and each the cheapest complement and residual.                          *)
(***************************************************************************)
EXTENDS BitWords

CONSTANTS
  Texts,       \* what is encoded: rows of bytes
  Hostile,     \* what else is decoded: [whole, len, repr, block, spare, bits]
  Reprs,       \* layouts to try: "linear", "planes"
  BlockBits,   \* BLOCK_BITS, by number from 0
  PatternLens, FastPatterns, TwoStageLens,   \* PATTERN_LENS, and the numbers of some
  Strides, FastStrides,                      \* STRIDES, and how many are tried fast
  LfsrPolys, PolyBits,                       \* LFSR_POLYS, and the bits of a number
  FamilyBits, IndexBits, IdBits,
  BmMax,       \* BM_MAX_BITS
  KeyBits, FewMatches, ManyMatches,          \* bits of a key of the index, distances taken
  MaxInput,    \* MAX_INPUT, in bytes
  Astray,      \* blocks for which an estimate may lead to another than the cheapest mask
  MaxCut,      \* bytes that may be lost
  RiceBits, EnumMax, Half, PrimPoly, MaxT, Total, FreqBits, FlushBytes, Scale   \* of Residual

VARIABLES
  data,  \* the bytes
  enc,   \* [repr, block, thorough, off, bits, reckoned, astray, status]
  dec    \* [payload, status, out]

vars == <<data, enc, dec>>

Wrong == INSTANCE Residual WITH Inputs <- {}, Flips <- 0
Byte  == 0 .. 2^ByteBits - 1

---------------------------------------------------------------------------
(* to_bits, from_bits                                                      *)

\* Where bit p of byte i is: high bits first, or one plane after the other.
PlaceOf(repr, len, i, p) == IF repr = "linear" THEN ByteBits * i + (ByteBits - 1 - p) ELSE p * len + i
ToBits(bytes, repr) ==
  LET len == Len(bytes)
      set == {PlaceOf(repr, len, i, p) : <<i, p>> \in
                {ip \in (0 .. len - 1) \X (0 .. ByteBits - 1) : (bytes[ip[1] + 1] \div 2^ip[2]) % 2 = 1}}
  IN  [len |-> ByteBits * len, ones |-> set]
FromBits(s, repr, len) ==
  [i \in 1..len |-> LET bits == [j \in 1..ByteBits |-> Bit(s, PlaceOf(repr, len, i - 1, ByteBits - j))] IN NumberOf(bits)]

ByteStep(repr) == IF repr = "linear" THEN ByteBits ELSE 1

---------------------------------------------------------------------------
(* What masks are made of                                                  *)

\* pattern: phase 0 where the block begins.
PatternBit(len, bits, i) == (bits \div 2^(i % len)) % 2
\* majority_pattern
Majority(x, len) ==
  LET ones(j)  == Cardinality({i \in x.ones : i % len = j})
      total(j) == x.len \div len + IF j < x.len % len THEN 1 ELSE 0
  IN  NumberOf([k \in 1..len |-> IF 2 * ones(len - k) > total(len - k) THEN 1 ELSE 0])

\* A sequence whose first bits are given and each later one is the sum of some
\* before it (lfsr, bm_generate).
Generated(n, first, taps) ==
  LET m[k \in 0..n] ==
        IF k = 0 THEN << >>
        ELSE LET s == m[k - 1]
             IN  Append(s, IF k <= Len(first) THEN first[k] ELSE Cardinality({j \in taps : s[k - j] = 1}) % 2)
      bits == m[n]
  IN  Vector(n, LAMBDA i : bits[i + 1])

\* lfsr: bit k of the seed first.
LfsrTaps(poly) == {LfsrPolys[poly][1], LfsrPolys[poly][1] - LfsrPolys[poly][2]}
LfsrFirst(poly, seed) == [k \in 1 .. LfsrPolys[poly][1] |-> (seed \div 2^(k - 1)) % 2]
LfsrSeed(x, poly) == NumberOf([k \in 1 .. LfsrPolys[poly][1] |-> Bit(x, LfsrPolys[poly][1] - k)])

\* MUTANT: the older register is not moved along.
FitUnshifted(x) ==
  LET step[k \in 0 .. x.len] ==
        IF k = 0 THEN [c |-> {0}, b |-> {0}, l |-> 0, shift |-> 1]
        ELSE LET s == step[k - 1]
                 odd == Cardinality({j \in s.c : j <= s.l /\ k - 1 - j \in x.ones}) % 2 = 1
                 c == (s.c \ s.b) \cup (s.b \ s.c)
             IN  IF ~odd THEN [s EXCEPT !.shift = @ + 1]
                 ELSE IF 2 * s.l <= k - 1 THEN [c |-> c, b |-> s.c, l |-> k - s.l, shift |-> 1]
                 ELSE [s EXCEPT !.c = c, !.shift = @ + 1]
  IN  [taps |-> {j \in step[x.len].c : j \in 1 .. step[x.len].l}, l |-> step[x.len].l]

\* bm_fit: the shortest register that generates the block, as the set of its
\* taps and its length (Berlekamp-Massey over bits).
Fit(x) ==
  LET step[k \in 0 .. x.len] ==
        IF k = 0 THEN [c |-> {0}, b |-> {0}, l |-> 0, shift |-> 1]
        ELSE LET s == step[k - 1]
                 odd == Cardinality({j \in s.c : j <= s.l /\ k - 1 - j \in x.ones}) % 2 = 1
                 moved == {j + s.shift : j \in s.b}
                 c == (s.c \ moved) \cup (moved \ s.c)
             IN  IF ~odd THEN [s EXCEPT !.shift = @ + 1]
                 ELSE IF 2 * s.l <= k - 1 THEN [c |-> c, b |-> s.c, l |-> k - s.l, shift |-> 1]
                 ELSE [s EXCEPT !.c = c, !.shift = @ + 1]
  IN  [taps |-> {j \in step[x.len].c : j \in 1 .. step[x.len].l}, l |-> step[x.len].l]

\* add_delta_byte: 2 B[i-s] - B[i-2s], with zeros before the first.
AddDelta(byte(_), i, stride) ==
  LET at(back) == IF i >= back THEN byte(i - back) ELSE 0
  IN  (2 * at(stride) - at(2 * stride)) % 2^ByteBits
StreamByte(s, b) == NumberOf([j \in 1..ByteBits |-> Bit(s, ByteBits * b + j - 1)])
DeltaBit(byte(_), k, stride) ==
  (AddDelta(byte, k \div ByteBits, stride) \div 2^(ByteBits - 1 - (k % ByteBits))) % 2

---------------------------------------------------------------------------
(* Mask: its family, and what describes it                                 *)

Families == <<"zero", "pattern", "stride", "prev", "match", "delta", "lfsr", "bm", "two">>
IdOf(family) == (CHOOSE i \in DOMAIN Families : Families[i] = family) - 1

\* The bits a mask is described in, family and all (write).
Described(m) ==
  Put(IdOf(m.family), FamilyBits) \o
    CASE m.family \in {"zero", "prev"}    -> << >>
      [] m.family = "pattern"             -> Put(m.len, IndexBits) \o Put(m.bits, PatternLens[m.len + 1])
      [] m.family \in {"stride", "delta"} -> Put(m.idx, IndexBits)
      [] m.family = "match"               -> PutGamma(m.dist)
      [] m.family = "lfsr"                -> Put(m.poly, PolyBits) \o Put(m.seed, LfsrPolys[m.poly + 1][1])
      [] m.family = "bm"                  -> PutGamma(m.conn.len + 1) \o PutBits(m.conn) \o PutBits(m.seed)
      [] m.family = "two"                 -> PutGamma(m.dist) \o Put(m.len, IndexBits) \o Put(m.bits, PatternLens[m.len + 1])

\* cost
MaskCost(m) ==
  FamilyBits +
    CASE m.family \in {"zero", "prev"}    -> 0
      [] m.family = "pattern"             -> IndexBits + PatternLens[m.len + 1]
      [] m.family \in {"stride", "delta"} -> IndexBits
      [] m.family = "match"               -> GammaLen(m.dist)
      [] m.family = "lfsr"                -> PolyBits + LfsrPolys[m.poly + 1][1]
      [] m.family = "bm"                  -> GammaLen(m.conn.len + 1) + 2 * m.conn.len
      [] m.family = "two"                 -> GammaLen(m.dist) + IndexBits + PatternLens[m.len + 1]

\* Mask::read
ReadPattern(bits, pos, with(_, _)) ==
  Then(Get(bits, pos, IndexBits), LAMBDA len :
    IF len.v >= Len(PatternLens) THEN Nothing
    ELSE Then(Get(bits, len.pos, PatternLens[len.v + 1]), LAMBDA b : Read(with(len.v, b.v), b.pos)))
ReadStride(bits, pos, family) ==
  Then(Get(bits, pos, IndexBits), LAMBDA idx :
    IF idx.v >= Len(Strides) THEN Nothing ELSE Read([family |-> family, idx |-> idx.v], idx.pos))
ReadLfsr(bits, pos) ==
  Then(Get(bits, pos, PolyBits), LAMBDA poly :
    Then(Get(bits, poly.pos, LfsrPolys[poly.v + 1][1]), LAMBDA seed :
      Read([family |-> "lfsr", poly |-> poly.v, seed |-> seed.v], seed.pos)))
ReadRegister(bits, pos) ==
  Then(GetGamma(bits, pos), LAMBDA l :
    IF l.v - 1 > BmMax THEN Nothing
    ELSE Then(GetBits(bits, l.pos, l.v - 1), LAMBDA conn : Then(GetBits(bits, conn.pos, l.v - 1), LAMBDA seed :
           Read([family |-> "bm", conn |-> conn.v, seed |-> seed.v], seed.pos))))

ReadMask(bits, pos, repr) ==
  Then(Get(bits, pos, FamilyBits), LAMBDA id :
    IF id.v >= Len(Families) THEN Nothing
    ELSE LET family == Families[id.v + 1]
             p == id.pos
         IN  CASE family \in {"zero", "prev"} -> Read([family |-> family], p)
               [] family = "pattern" ->
                    ReadPattern(bits, p, LAMBDA len, b : [family |-> "pattern", len |-> len, bits |-> b])
               [] family = "stride"  -> ReadStride(bits, p, "stride")
               [] family = "match"   -> Then(GetGamma(bits, p), LAMBDA d : Read([family |-> "match", dist |-> d.v], d.pos))
               [] family = "delta"   -> IF repr = "linear" THEN ReadStride(bits, p, "delta") ELSE Nothing
               [] family = "lfsr"    -> ReadLfsr(bits, p)
               [] family = "bm"      -> ReadRegister(bits, p)
               [] family = "two"     -> Then(GetGamma(bits, p), LAMBDA d :
                    ReadPattern(bits, d.pos, LAMBDA len, b : [family |-> "two", dist |-> d.v, len |-> len, bits |-> b])))

---------------------------------------------------------------------------
(* render and reconstruct: the encoder's mask, and the decoder's block     *)

CopyFamilies == {"stride", "prev", "match", "two"}
Distance(m, repr, size) ==
  CASE m.family = "stride" -> Strides[m.idx + 1] * ByteStep(repr)
    [] m.family = "prev"   -> size
    [] OTHER               -> m.dist

PatternOf(m, n) == Vector(n, LAMBDA i : PatternBit(PatternLens[m.len + 1], m.bits, i))

\* What a mask makes of its description alone.
Rendered(m, n) ==
  CASE m.family = "zero"    -> Zeros(n)
    [] m.family = "pattern" -> PatternOf(m, n)
    [] m.family = "lfsr"    -> Generated(n, LfsrFirst(m.poly + 1, m.seed), LfsrTaps(m.poly + 1))
    [] m.family = "bm"      -> Generated(n, PutBits(m.seed), {j + 1 : j \in m.conn.ones})

\* render, from the whole stream and its bytes.
Render(m, s, bytes, off, n, repr, size) ==
  CASE m.family = "delta" ->
         Vector(n, LAMBDA i : DeltaBit(LAMBDA b : bytes[b + 1], off + i, Strides[m.idx + 1]))
    [] m.family \in CopyFamilies ->
         LET copy == Slice(s, off - Distance(m, repr, size), n)
         IN  IF m.family = "two" THEN Xored(copy, PatternOf(m, n)) ELSE copy
    [] OTHER -> Rendered(m, n)

\* MUTANT: a distance of one less than the block is taken for a whole one.
ReachesInsideLate(d, n) == d + 1 < n

\* A block whose sources are not all before it is copied bit by bit.
ReachesInside(d, n) == d < n

\* The block rebuilt in the stream, each bit from the ones before it.
BitByBit(s, off, e, complement, bit(_, _)) ==
  LET t[i \in 0 .. e.len] ==
        IF i = 0 THEN s
        ELSE LET before == t[i - 1]
             IN  Set(before, off + i - 1, (bit(before, i - 1) + Bit(e, i - 1) + complement) % 2)
  IN  t[e.len]
AtOnce(s, off, mask, e, complement) ==
  LET x == Xored(mask, e) IN WrittenAt(s, off, IF complement = 1 THEN Negated(x) ELSE x)

\* reconstruct
Rebuilt(m, s, off, e, complement, repr, size) ==
  IF m.family = "delta"
  THEN Read(BitByBit(s, off, e, complement, LAMBDA t, i :
              DeltaBit(LAMBDA b : StreamByte(t, b), off + i, Strides[m.idx + 1])), 0)
  ELSE IF m.family \in CopyFamilies
  THEN LET d == Distance(m, repr, size)
           flip(i) == IF m.family = "two" THEN PatternBit(PatternLens[m.len + 1], m.bits, i) ELSE 0
       IN  IF d = 0 THEN Nothing
           ELSE IF ReachesInside(d, e.len) THEN Read(BitByBit(s, off, e, complement, LAMBDA t, i : (Bit(t, off + i - d) + flip(i)) % 2), 0)
           ELSE Read(AtOnce(s, off, Render(m, s, << >>, off, e.len, repr, size), e, complement), 0)
  ELSE Read(AtOnce(s, off, Rendered(m, e.len), e, complement), 0)

---------------------------------------------------------------------------
(* candidates                                                              *)

\* MatchIndex::distances: back to the latest places, on whole bytes, whose key
\* is that of the anchor.
Matches(s, anchor, many) ==
  LET key(p) == PutBits(Slice(s, p, KeyBits))
      places == {p \in {ByteBits * q : q \in 0 .. s.len \div ByteBits} : p < anchor /\ key(p) = key(anchor)}
  IN  IF anchor + KeyBits > s.len THEN {}
      ELSE {anchor - p : p \in {q \in places : Cardinality({r \in places : r > q}) < many}}

PatternsFor(x, lens) ==
  {[family |-> "pattern", len |-> l, bits |-> Majority(x, PatternLens[l + 1])] : l \in lens}
MatchesFor(s, off, n, thorough) ==
  LET middle == off + ((n \div 2) \div ByteBits) * ByteBits
  IN  {[family |-> "match", dist |-> d] :
         d \in IF thorough THEN Matches(s, off, ManyMatches) \cup Matches(s, middle, ManyMatches)
               ELSE Matches(s, off, FewMatches)}
RegistersFor(x) ==
  LET fit == Fit(x)
  IN  {[family |-> "lfsr", poly |-> p - 1, seed |-> LfsrSeed(x, p)] : p \in DOMAIN LfsrPolys}
        \cup IF x.len <= BmMax /\ 2 * fit.l < x.len
             THEN {[family |-> "bm", conn |-> [len |-> fit.l, ones |-> {j - 1 : j \in fit.taps}],
                    seed |-> Slice(x, 0, fit.l)]}
             ELSE {}

Candidates(s, x, off, repr, thorough) ==
  LET strides == 0 .. (IF thorough THEN Len(Strides) ELSE FastStrides) - 1
  IN  {[family |-> "zero"], [family |-> "prev"]}
        \cup PatternsFor(x, IF thorough THEN 0 .. Len(PatternLens) - 1 ELSE FastPatterns)
        \cup {[family |-> "stride", idx |-> i] : i \in strides}
        \cup {[family |-> "delta", idx |-> i] : i \in {j \in strides : repr = "linear" /\ (thorough \/ j = 0)}}
        \cup MatchesFor(s, off, x.len, thorough)
        \cup IF thorough THEN RegistersFor(x) ELSE {}

\* A copy xored with the pattern most of what it left wrong has.
TwoStages(copies, s, x, off, repr, size) ==
  {LET d == Distance(m, repr, size)
   IN  [family |-> "two", dist |-> d, len |-> l,
        bits |-> Majority(Xored(x, Slice(s, off - d, x.len)), PatternLens[l + 1])] :
     <<m, l>> \in {c \in copies : c.family \in CopyFamilies} \X TwoStageLens}

---------------------------------------------------------------------------
(* best_choice and a block's record                                        *)

WrongBits(m, complement, s, x, off, repr, size) ==
  LET e == Xored(x, Render(m, s, data, off, x.len, repr, size)) IN IF complement = 1 THEN Negated(e) ELSE e

\* Of two ways the cheaper, as they are before turned over, and among codecs
\* the first.
Before(v, w) ==
  \/ v.cost < w.cost
  \/ v.cost = w.cost /\ v.complement < w.complement
  \/ v.cost = w.cost /\ v.complement = w.complement /\ v.codec < w.codec

\* The cheapest way to write a mask's errors, described and all.
Cheapest(m, s, x, off, repr, size) ==
  LET fixed == MaskCost(m) + 1 + IdBits
      ways  == UNION {{[complement |-> c, codec |-> k, e |-> e, cost |-> Wrong!Cost(Wrong!All[k], e)] :
                       k \in DOMAIN Wrong!All, e \in {WrongBits(m, c, s, x, off, repr, size)}} : c \in {0, 1}}
      best  == CHOOSE w \in ways : w.cost >= 0 /\ \A v \in ways : v.cost >= 0 => ~Before(v, w)
  IN  [best EXCEPT !.cost = @ + fixed]

Record(m, way) ==
  Described(m) \o <<way.complement>> \o Put(way.codec - 1, IdBits) \o Wrong!Encoded(Wrong!All[way.codec], way.e)

---------------------------------------------------------------------------
(* compress_config, a block at a time                                      *)

\* What may be written of the block x of the stream s, [bits, cost, astray].
ChoicesFor(s, x, off, repr, thorough, size) ==
  LET plain == Candidates(s, x, off, repr, thorough)
      all   == IF thorough THEN plain \cup TwoStages(plain, s, x, off, repr, size) ELSE plain
      ways  == {[mask |-> m, way |-> Cheapest(m, s, x, off, repr, size)] : m \in all}
      least == Min({w.way.cost : w \in ways})
  IN  {[bits |-> Record(w.mask, w.way), cost |-> w.way.cost, astray |-> IF w.way.cost = least THEN 0 ELSE 1] : w \in ways}

EncodeBlock ==
  /\ enc.status = "on" /\ enc.off < ByteBits * Len(data)
  /\ \E s \in {ToBits(data, enc.repr)} :
     \E x \in {Slice(s, enc.off, Min({BlockBits[enc.block], s.len - enc.off}))} :
     \E w \in ChoicesFor(s, x, enc.off, enc.repr, enc.thorough, BlockBits[enc.block]) :
       /\ enc.astray + w.astray <= Astray
       /\ enc' = [enc EXCEPT !.off = Min({@ + BlockBits[enc.block], ByteBits * Len(data)}), !.bits = Appended(@, w.bits),
                             !.reckoned = @ + w.cost, !.astray = @ + w.astray]
  /\ UNCHANGED <<data, dec>>

Finish ==
  /\ enc.status = "on" /\ enc.off = ByteBits * Len(data)
  /\ enc' = [enc EXCEPT !.status = "done", !.bits = WholeBytes(@)]
  /\ dec' = [dec EXCEPT !.payload = [whole |-> TRUE, len |-> Len(data), repr |-> enc.repr, block |-> enc.block,
                                     spare |-> 0, bits |-> WholeBytes(enc.bits)]]
  /\ UNCHANGED data

\* The end of what was written is lost.
Cut ==
  /\ enc.status = "done" /\ dec.status = "start"
  /\ \E k \in 1 .. Min({MaxCut, Len(enc.bits) \div ByteBits}) :
       dec' = [dec EXCEPT !.payload.bits = SubSeq(@, 1, Len(@) - ByteBits * k)]
  /\ enc' = [enc EXCEPT !.status = "cut"]
  /\ UNCHANGED data

---------------------------------------------------------------------------
(* decompress                                                              *)

\* One block's record, and the stream with the block in it.
BlockRead(s, bits, pos, off, n, repr, size) ==
  Then(ReadMask(bits, pos, repr), LAMBDA m : Then(Get(bits, m.pos, 1), LAMBDA c : Then(Get(bits, c.pos, IdBits), LAMBDA id :
    Then(Wrong!Decoded(Wrong!All[id.v + 1], n, bits, id.pos), LAMBDA e :
      IF m.v.family = "bm" /\ m.v.conn.len > n THEN Nothing
      ELSE Then(Rebuilt(m.v, s, off, e.v, c.v, repr, size), LAMBDA t : Read(t.v, e.pos))))))

Decompressed(p) ==
  IF ~p.whole \/ p.block \notin DOMAIN BlockBits \/ p.len > MaxInput \/ p.spare # 0 THEN Nothing
  ELSE LET total == ByteBits * p.len
           size  == BlockBits[p.block]
           stream[k \in 0 .. (total + size - 1) \div size] ==
             IF k = 0 THEN Read(Zeros(total), 0)
             ELSE Then(stream[k - 1], LAMBDA s :
                    BlockRead(s.v, p.bits, s.pos, (k - 1) * size, Min({size, total - (k - 1) * size}), p.repr, size))
       IN  Then(stream[(total + size - 1) \div size], LAMBDA s : Read(FromBits(s.v, p.repr, p.len), s.pos))

Ended(got) == IF got.ok THEN [dec EXCEPT !.status = "done", !.out = got.v] ELSE [dec EXCEPT !.status = "error"]
Decompress ==
  /\ enc.status \in {"done", "cut", "none"} /\ dec.status = "start"
  /\ dec' = Ended(Decompressed(dec.payload))
  /\ UNCHANGED <<data, enc>>

---------------------------------------------------------------------------
NoPayload == [whole |-> FALSE]
Begun(payload) == [status |-> "start", payload |-> payload, out |-> << >>]
Fresh(repr, block, thorough, status) ==
  [repr |-> repr, block |-> block, thorough |-> thorough, off |-> 0, bits |-> << >>, reckoned |-> 0, astray |-> 0, status |-> status]

Init ==
  \/ /\ data \in Texts
     /\ \E repr \in Reprs, block \in DOMAIN BlockBits, thorough \in BOOLEAN : enc = Fresh(repr, block, thorough, "on")
     /\ dec = Begun(NoPayload)
  \/ /\ data = << >> /\ enc = Fresh("linear", 0, FALSE, "none")
     /\ \E p \in Hostile : dec = Begun(p)

Next == EncodeBlock \/ Finish \/ Cut \/ Decompress
Spec == Init /\ [][Next]_vars

---------------------------------------------------------------------------
\* Whichever masks are chosen, the blocks the decoder rebuilds bit by bit are
\* the ones the encoder saw whole, and every record takes the bits by which it
\* was chosen (decompress, reported_bits_match_serialized_size).
BlocksRebuilt ==
  /\ enc.status = "on" => Len(enc.bits) = enc.reckoned
  /\ enc.status = "done" => dec.status # "error" /\ (dec.status = "done" => dec.out = data)

\* The register found for a block generates it, and no shorter one does (what
\* Berlekamp and Massey promise of bm_fit): its residual is empty.
RegisterShortest ==
  enc.status = "on" /\ enc.off < ByteBits * Len(data) =>
    \A x \in {Slice(ToBits(data, enc.repr), enc.off, Min({BlockBits[enc.block], ByteBits * Len(data) - enc.off}))} :
      LET generates(l, taps) == Generated(x.len, [i \in 1..l |-> Bit(x, i - 1)], taps) = x
      IN  \A fit \in {Fit(x)} :
            /\ generates(fit.l, fit.taps)
            /\ \A l \in 0 .. fit.l - 1 : \A taps \in SUBSET (1..l) : ~generates(l, taps)

\* A payload that lost its last byte is refused: no bit of any record is made
\* up. Whatever else is read ends in an error or in as many bytes as announced.
OthersRefused ==
  /\ enc.status = "cut" => dec.status # "done"
  /\ enc.status = "none" /\ dec.status = "done" =>
       /\ Len(dec.out) = dec.payload.len /\ dec.payload.len <= MaxInput
       /\ \A i \in DOMAIN dec.out : dec.out[i] \in Byte
=============================================================================
