----------------------------- MODULE RleHuffman -----------------------------
(***************************************************************************)
(* The run-length codec (src/codecs/rle_huffman.rs).  A block is encoded   *)
(* twice, byte by byte (mode 0) and run by run (mode 1), and the shorter   *)
(* payload is kept.  A payload is its fields; what is coded is there bit   *)
(* by bit.                                                                 *)
(***************************************************************************)
EXTENDS Integers, Sequences, FiniteSets

CONSTANTS
  Blocks,        \* the blocks that are encoded
  Hostile,       \* payloads that no encoder made
  Values,        \* number of byte values: 256
  Cap,           \* MAX_CODE_LEN
  LengthGroups,  \* LENGTH_GROUPS: rows [first, count, extra, base]
  MaxRun,        \* MAX_RUN
  CountBytes     \* bytes of the two counts of mode 1: 4 + 2

VARIABLES
  data,  \* the block
  enc,   \* the payload, the one not kept, and whether an encoder made them
  dec    \* what decoding gives: [status, out]

vars == <<data, enc, dec>>

Codes == INSTANCE PrefixCode WITH Freqs <- {}, Headers <- {}

Byte    == 0 .. Values - 1
Classes == UNION {g.first .. g.first + g.count - 1 : g \in {LengthGroups[i] : i \in DOMAIN LengthGroups}}

---------------------------------------------------------------------------
(* Runs and their lengths                                                  *)

\* The run at i: as long as its value lasts, but not past MaxRun.
RunAt(text, i) ==
  CHOOSE r \in 1 .. Len(text) + 1 - i :
    /\ r <= MaxRun /\ \A j \in i .. i + r - 1 : text[j] = text[i]
    /\ r = MaxRun \/ i + r = Len(text) + 1 \/ text[i + r] # text[i]

\* rle_encode
Runs(text) ==
  LET r[k \in 0..Len(text)] ==
        IF k = 0 THEN [at |-> 1, runs |-> << >>]
        ELSE LET s == r[k - 1]
             IN  IF s.at > Len(text) THEN s
                 ELSE LET n == RunAt(text, s.at)
                      IN  [at |-> s.at + n, runs |-> Append(s.runs, [value |-> text[s.at], length |-> n])]
  IN  r[Len(text)].runs

\* MUTANT: a group also takes the first length behind it.
LengthClassPast(n) ==
  LET fit == {i \in DOMAIN LengthGroups :
                LET g == LengthGroups[i] IN g.base <= n /\ n <= g.base + g.count * 2^g.extra}
      g   == LengthGroups[CHOOSE i \in fit : \A j \in fit : i <= j]
  IN  [class |-> g.first + (n - g.base) \div 2^g.extra, value |-> (n - g.base) % 2^g.extra, extra |-> g.extra]

\* encode_length_class: groups overlap, and the first that fits is taken.
LengthClass(n) ==
  LET fit == {i \in DOMAIN LengthGroups :
                LET g == LengthGroups[i] IN g.base <= n /\ n < g.base + g.count * 2^g.extra}
      g   == LengthGroups[CHOOSE i \in fit : \A j \in fit : i <= j]
  IN  [class |-> g.first + (n - g.base) \div 2^g.extra, value |-> (n - g.base) % 2^g.extra, extra |-> g.extra]

\* decode_length_class
GroupOf(class) ==
  LET in == {i \in DOMAIN LengthGroups : class \in LengthGroups[i].first .. LengthGroups[i].first + LengthGroups[i].count - 1}
  IN  LengthGroups[CHOOSE i \in in : \A j \in in : i <= j]
ClassBase(class) == LET g == GroupOf(class) IN g.base + (class - g.first) * 2^g.extra

---------------------------------------------------------------------------
(* encode_mode0, encode_mode1                                              *)

CodesFor(freqs) == Codes!Canonical(Codes!CodeLengths(freqs))
LengthsOf(codes) == [s \in DOMAIN codes |-> codes[s].len]
Occurs(f, x) == Cardinality({k \in DOMAIN f : f[k] = x})
Field(value, count) == [value |-> value, count |-> count]

Mode0With(text, codes) ==
  [mode |-> 0, declared |-> Len(text), lengths |-> LengthsOf(codes),
   bits |-> Codes!Written([i \in DOMAIN text |-> Codes!AsField(codes[text[i]])])]

EncodeMode0(text) ==
  Mode0With(text, CodesFor([b \in Byte |-> Occurs(text, b)]))

\* Values by their place among those that occur.
Palette(runs) == {runs[k].value : k \in DOMAIN runs}
IndexOf(palette, v) == Cardinality({u \in palette : u < v})

Mode1With(n, runs, palette, classes, valCodes, lenCodes) ==
  LET f[k \in 0..Len(runs)] ==
        IF k = 0 THEN << >>
        ELSE f[k - 1] \o <<Codes!AsField(valCodes[IndexOf(palette, runs[k].value)]),
                           Codes!AsField(lenCodes[classes[k].class]),
                           Field(classes[k].value, classes[k].extra)>>
  IN  [mode |-> 1, declared |-> n, runs |-> Len(runs), palette |-> palette, truncated |-> FALSE,
       valLengths |-> LengthsOf(valCodes), lengths |-> LengthsOf(lenCodes), bits |-> Codes!Written(f[Len(runs)])]

EncodeMode1(text) ==
  LET with(runs, palette, classes) ==
        LET indices == [k \in DOMAIN runs |-> IndexOf(palette, runs[k].value)]
            ofClass == [k \in DOMAIN runs |-> classes[k].class]
        IN  Mode1With(Len(text), runs, palette, classes,
              CodesFor([i \in 0 .. Cardinality(palette) - 1 |-> Occurs(indices, i)]),
              CodesFor([c \in Classes |-> Occurs(ofClass, c)]))
      of(runs) == with(runs, Palette(runs), [k \in DOMAIN runs |-> LengthClass(runs[k].length - 1)])
  IN  of(Runs(text))

\* Bytes behind the header; code lengths are packed two to a byte.
Size(p) == Cardinality(DOMAIN p.lengths) \div 2 + Len(p.bits) \div 8
           + IF p.mode = 1 THEN CountBytes + 2 * Cardinality(p.palette) ELSE 0

EmptyPayload == [mode |-> 0, declared |-> 0, lengths |-> << >>, bits |-> << >>]

\* rle_huffman_encode
Encode ==
  LET keep(p0, p1) == IF Size(p0) <= Size(p1) THEN [honest |-> TRUE, payload |-> p0, other |-> p1]
                      ELSE [honest |-> TRUE, payload |-> p1, other |-> p0]
  IN  /\ enc = << >>
      /\ enc' = IF data = << >> THEN [honest |-> TRUE, payload |-> EmptyPayload, other |-> EmptyPayload]
                ELSE keep(EncodeMode0(data), EncodeMode1(data))
      /\ UNCHANGED <<data, dec>>

---------------------------------------------------------------------------
(* decode_mode0, decode_mode1                                              *)

\* rebuild_canonical_codes: of no lengths at all, a code for the first symbol.
Rebuilt(lengths) ==
  IF \A s \in DOMAIN lengths : lengths[s] = 0
  THEN [s \in DOMAIN lengths |-> [len |-> IF s = 0 THEN 1 ELSE 0, bits |-> 0]]
  ELSE Codes!Canonical(lengths)

Error == [status |-> "error", out |-> << >>]
Ok(out) == [status |-> "ok", out |-> out]

DecodeMode0(p) ==
  LET with(codes) ==
        LET r[k \in 0..p.declared] ==
              IF k = 0 THEN [pos |-> 1, out |-> << >>]
              ELSE LET s   == r[k - 1]
                       sym == IF s.pos = 0 THEN Codes!NoSymbol ELSE Codes!ReadSymbol(p.bits, s.pos, codes)
                   IN  IF sym = Codes!NoSymbol THEN [s EXCEPT !.pos = 0]
                       ELSE [pos |-> s.pos + codes[sym].len, out |-> Append(s.out, sym)]
        IN  IF r[p.declared].pos = 0 THEN Error ELSE Ok(r[p.declared].out)
  IN  with(Rebuilt(p.lengths))

ValueOf(palette, i) == CHOOSE v \in palette : IndexOf(palette, v) = i

\* One run; a position of 0 stands for an error.
RunRead(p, s, valCodes, lenCodes) ==
  LET i  == Codes!ReadSymbol(p.bits, s.pos, valCodes)
      at == s.pos + valCodes[i].len
      c  == Codes!ReadSymbol(p.bits, at, lenCodes)
      from == at + lenCodes[c].len
      length == ClassBase(c) + Codes!ReadBits(p.bits, from, GroupOf(c).extra) + 1
  IN  IF s.pos = 0 THEN s
      ELSE IF i = Codes!NoSymbol THEN [s EXCEPT !.pos = 0]
      ELSE IF c = Codes!NoSymbol THEN [s EXCEPT !.pos = 0]
      ELSE IF Len(s.out) + length > p.declared THEN [s EXCEPT !.pos = 0]
      ELSE [pos |-> from + GroupOf(c).extra, out |-> s.out \o [j \in 1..length |-> ValueOf(p.palette, i)]]

\* MUTANT: runs that give less than was declared are not noticed.
DecodeMode1Short(p) ==
  LET with(valCodes, lenCodes) ==
        LET r[k \in 0..p.runs] ==
              IF k = 0 THEN [pos |-> 1, out |-> << >>] ELSE RunRead(p, r[k - 1], valCodes, lenCodes)
            end(s) == IF s.pos = 0 THEN Error ELSE Ok(s.out)
        IN  end(r[p.runs])
  IN  IF p.palette = {} \/ p.truncated \/ \E i \in DOMAIN p.valLengths : p.valLengths[i] > Cap THEN Error
      ELSE with(Rebuilt(p.valLengths), Rebuilt(p.lengths))

DecodeMode1(p) ==
  LET with(valCodes, lenCodes) ==
        LET r[k \in 0..p.runs] ==
              IF k = 0 THEN [pos |-> 1, out |-> << >>] ELSE RunRead(p, r[k - 1], valCodes, lenCodes)
            end(s) == IF s.pos = 0 \/ Len(s.out) # p.declared THEN Error ELSE Ok(s.out)
        IN  end(r[p.runs])
  IN  IF p.palette = {} \/ p.truncated \/ \E i \in DOMAIN p.valLengths : p.valLengths[i] > Cap THEN Error
      ELSE with(Rebuilt(p.valLengths), Rebuilt(p.lengths))

\* rle_huffman_decode_checked, behind the magic number.
Decoded(p) ==
  IF p.declared = 0 THEN Ok(<< >>)
  ELSE IF p.mode = 0 THEN DecodeMode0(p)
  ELSE IF p.mode = 1 THEN DecodeMode1(p)
  ELSE Error

Decode ==
  /\ enc # << >> /\ dec = << >>
  /\ dec' = Decoded(enc.payload)
  /\ UNCHANGED <<data, enc>>

Init ==
  /\ dec = << >>
  /\ \/ data \in Blocks /\ enc = << >>
     \/ data = << >> /\ \E p \in Hostile : enc = [honest |-> FALSE, payload |-> p, other |-> p]

Next == Encode \/ Decode
Spec == Init /\ [][Next]_vars

---------------------------------------------------------------------------
\* Both payloads give the block back, whichever is kept, and that is the one
\* that is not longer (rle_huffman_encode).
RoundTrip ==
  enc # << >> /\ dec # << >> /\ enc.honest =>
    /\ dec = Ok(data) /\ Decoded(enc.other) = Ok(data)
    /\ Size(enc.payload) <= Size(enc.other)

\* The runs of a block follow each other, none is longer than a class can say,
\* and only a longest one is followed by another of its value.
RunsSound ==
  LET runs == Runs(data)
      end[k \in 0..Len(runs)] == IF k = 0 THEN 0 ELSE end[k - 1] + runs[k].length
  IN  /\ end[Len(runs)] = Len(data)
      /\ \A k \in DOMAIN runs :
           LET c == LengthClass(runs[k].length - 1)
           IN  /\ \A i \in end[k - 1] + 1 .. end[k] : data[i] = runs[k].value
               /\ c.class \in Classes /\ c.value < 2^c.extra /\ c.extra = GroupOf(c.class).extra
               /\ ClassBase(c.class) + c.value + 1 = runs[k].length
               /\ k < Len(runs) /\ runs[k + 1].value = runs[k].value => runs[k].length = MaxRun

\* Whatever a payload says, success means as many bytes as it declared, all
\* of them among the values it listed.
HostileContained ==
  enc # << >> /\ dec # << >> /\ dec.status = "ok" =>
    /\ Len(dec.out) = enc.payload.declared
    /\ enc.payload.mode = 1 => \A i \in DOMAIN dec.out : dec.out[i] \in enc.payload.palette
=============================================================================
