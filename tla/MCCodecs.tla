------------------------------ MODULE MCCodecs ------------------------------
(* Every codec with small numbers: one is chosen at the start and runs alone,  *)
(* on blocks it made itself and on payloads no encoder made.                   *)
EXTENDS Coders, FiniteSets
VARIABLES more, at, tokens
codecVars == <<part, data, enc, dec, more, at, tokens>>

Row(v, n) == [i \in 1..n |-> v]
Rows(S, low, high) == UNION {[1..n -> S] : n \in low..high}

---------------------------------------------------------------------------
(* The coders of bits: two totals, one that divides the range's top and one    *)
(* that does not, and a part of one in each.                                   *)

MCShares == {[table |-> 1, cum |-> 0, freq |-> 1, total |-> 3], [table |-> 1, cum |-> 1, freq |-> 1, total |-> 3],
             [table |-> 1, cum |-> 2, freq |-> 1, total |-> 3],
             [table |-> 2, cum |-> 0, freq |-> 6, total |-> 7], [table |-> 2, cum |-> 6, freq |-> 1, total |-> 7]}

\* Every short text for the mixing model, and runs that end its counters.
MCTexts == Rows({0, 1, 3}, 0, 5) \cup {Row(0, 20), Row(3, 60)}

---------------------------------------------------------------------------
(* Prefix codes: every table of four frequencies, and some whose tree is too   *)
(* deep for the cap; every row of four lengths, as a file may give them.       *)

Table(row) == [i \in 0 .. Len(row) - 1 |-> row[i + 1]]
MCFreqs == UNION {[0..n -> 0..2] : n \in 0..3} \cup {Table(<<1,1,2,3,5,8>>), Table(<<8,5,3,2,1,1>>), Table(<<1,1,1,8,4,2>>)}
MCLengths == UNION {[0..n -> 0..3] : n \in 0..3}

Codes == INSTANCE PrefixCode WITH Cap <- 3, Freqs <- MCFreqs, Headers <- MCLengths

Match(o, l) == [match |-> TRUE, offset |-> o, length |-> l]
Literal(b)  == [match |-> FALSE, byte |-> b]
MCTokens == {Literal(0), Literal(7), Match(3, 4), Match(6, 5), Match(8, 6)}
LiteralRow(counts) ==
  LET upto[b \in 0..Len(counts)] == IF b = 0 THEN << >> ELSE upto[b - 1] \o Row(Literal(b - 1), counts[b])
  IN  upto[Len(counts)]
MCTokenRows ==
  Rows(MCTokens, 0, 2) \cup
  {<<Literal(0), Literal(1), Match(1,3), Match(7,5), Literal(1), Match(7,3), Literal(2), Match(3,4), Match(7,6)>>,
   [i \in 1..8 |-> IF i <= 4 THEN Literal(0) ELSE Match(i, 3)],
   <<Literal(0), Literal(0), Literal(1), Literal(1), Literal(2), Literal(2), Match(8,4), Match(8,4), Match(8,4), Literal(0)>>,
   LiteralRow(Row(1, 8)), LiteralRow(<<8,5,3,1,1,1,0,1>>)}
MCInputs == [format : {"plain", "blocked", "context1", "split"}, tokens : MCTokenRows]
MCLengthTable == <<<<3,0>>, <<4,1>>, <<6,0>>>>
MCDistTable == <<<<1,0>>, <<2,0>>, <<3,0>>, <<4,0>>, <<5,1>>, <<7,1>>>>
MCGroup == [b \in 0..7 |-> IF b = 7 THEN 1 ELSE 0]
MCClOrder == <<8, 9, 10, 0, 4, 3, 5, 2, 6, 1, 7>>
\* A header of 22 lengths, three bits each, from the symbols that have one.
MCHeader(S) ==
  LET len == [k \in 0..21 |-> IF \E p \in S : p[1] = k THEN (CHOOSE p \in S : p[1] = k)[2] ELSE 0]
  IN  [i \in 1..66 |-> (len[(i - 1) \div 3] \div 2 ^ ((i - 1) % 3)) % 2]
MCCodeSets == {{}, {<<0,1>>,<<1,1>>}, {<<0,1>>,<<1,1>>,<<2,1>>}, {<<8,1>>,<<9,1>>,<<12,1>>},
               {<<9,1>>,<<10,2>>,<<16,1>>,<<18,2>>,<<21,2>>}, {<<9,1>>,<<10,2>>,<<16,1>>,<<18,2>>,<<21,2>>,<<20,7>>}}
MCBlockedHostile ==
  {<<[n |-> n, bits |-> MCHeader(S) \o t]>> : n \in 0..2, S \in MCCodeSets, t \in [1..6 -> {0, 1}]}
    \cup {<< >>, <<[n |-> 1, bits |-> << >>]>>}

Huff == INSTANCE Huffman WITH
  Inputs <- MCInputs, Hostile <- MCBlockedHostile, Literals <- 8, LengthTable <- MCLengthTable, DistTable <- MCDistTable,
  Group <- MCGroup, Cap <- 7, LenBits <- 3, ClBits <- 3, ClOrder <- MCClOrder, BlockSize <- 2, InitialBlock <- 8, MinBlock <- 4

\* The split format where the code of the code lengths is deeper than the bits
\* its own lengths are written in.
MCDeepInputs == [format : {"split"}, tokens : {LiteralRow(<<n, 5, 3, 1, 1, m, k, 1>>) : n \in 1..8, m \in 0..2, k \in 0..2}]

Split == INSTANCE Huffman WITH
  Inputs <- MCDeepInputs, Hostile <- {}, Literals <- 8, LengthTable <- MCLengthTable, DistTable <- MCDistTable,
  Group <- MCGroup, Cap <- 7, LenBits <- 3, ClBits <- 2, ClOrder <- MCClOrder, BlockSize <- 2, InitialBlock <- 32, MinBlock <- 32

---------------------------------------------------------------------------
(* The LZMA-style codec: its coder of one token after another, and its parse.  *)

MCLzmaHostile ==
  {[declared |-> 0, size |-> "headerless", log |-> << >>], [declared |-> 0, size |-> "short", log |-> << >>],
   [declared |-> 2, size |-> "short", log |-> << >>]}
    \cup {[declared |-> d, size |-> "enough", log |-> [k \in 1..11 |-> [ctx |-> <<"any">>, bit |-> bits[k]]]] :
            d \in {0, 1, 3}, bits \in {b \o c : b \in [1..8 -> {0, 1}], c \in {<<0, 0, 0>>, <<1, 0, 1>>}}}

\* Every short row, one of long matches, and two whose matches are far back.
MCLzmaBlocks ==
  Rows({0, 1, 3}, 0, 4) \cup {Row(0, 8), <<0,1,2,3,3,1,0,2,2,0,1,2>>, <<0,1,2,3,3,1,0,2,2,1,3,0,2,0,1,2>>}

Lzma == INSTANCE LzmaStyle WITH
  Blocks <- MCLzmaBlocks, Hostile <- MCLzmaHostile,
  ByteBits <- 2, Lc <- 1, PosStates <- 4, LowBits <- 1, HighBits <- 2, SlotBits <- 3, EndPos <- 6, AlignBits <- 1,
  MaxDistance <- 15, MaxMatch <- 9

Hash3(b) == (b[1] + b[2] + b[3]) % 3
PriceList(l, s, r, a, m) ==
  [literal |-> l, shortRep |-> s, rep |-> r, repLen |-> [k \in 1..20 |-> k * a],
   matchLen |-> [k \in 1..20 |-> m + IF k = 4 THEN 0 ELSE 3], dist |-> [k \in 1..20 |-> k]]
MCPrices == {PriceList(8, 3, <<1,2,3,4>>, 1, 6), PriceList(4, 4, <<2,1,2,1>>, 0, 1), PriceList(9, 9, <<8,8,8,1>>, 2, 0)}
Pattern(n, a, b, c, m) == [i \in 1..n |-> (a * i + b * (i \div 3) + c * (i \div 5)) % m]
MCParsed ==
  Rows({0, 1}, 1, 7) \cup {Pattern(n, a, b, c, 3) : n \in {12, 17}, a \in {0, 1}, b \in {0, 1}, c \in 0..2}
    \cup {<<0,1,2,0,1,2,0,1,1,2,0,1,0,0,1,2,0,1>>, <<0,1,2,3,0,1,2,0,0,1,2,3>>, <<0,1,2,3,0,1,2,2,0,1,2,3>>,
          <<1,2,0,3,3,1,2,0,0,1,2,0,3,3,0>>, <<0,0,1,1,3,0,0,1,0,0,1,1,3,3>>}

Parse == INSTANCE LzmaParse WITH
  prices <- enc, tree <- dec, path <- more,
  Blocks <- MCParsed, PriceLists <- MCPrices, MinMatch <- 3, MaxMatch <- 9, MaxWindow <- 11, NiceLen <- 6, TreeDepth <- 3,
  Hash <- Hash3

---------------------------------------------------------------------------
(* The statistical codecs.                                                     *)

MCPpmHostile ==
  {[declared |-> 0, size |-> "headerless", targets |-> << >>], [declared |-> 0, size |-> "short", targets |-> << >>],
   [declared |-> 2, size |-> "short", targets |-> << >>]}
    \cup {[declared |-> d, size |-> "enough", targets |-> t] : d \in {0, 1, 4}, t \in [1..7 -> {0, 2, 9}]}

Ppmd == INSTANCE Ppm WITH Blocks <- Rows(0..2, 0, 6), Bytes <- 3, MaxOrder <- 2, Limit <- 3, Hostile <- MCPpmHostile

MCBwtBlocks(low, high) ==
  UNION {{[index |-> i, size |-> s, coded |-> c] : i \in 0 .. s + 1, c \in [1..s -> {0, 1}]} : s \in low..high}
MCBwtHostile ==
  {[declared |-> d, blocks |-> <<b>>] : d \in {2, 4}, b \in MCBwtBlocks(0, 5)} \cup
  {[declared |-> d, blocks |-> <<[index |-> 1, size |-> 2, coded |-> <<1, 0>>], b>>] : d \in {2, 3}, b \in MCBwtBlocks(0, 2)}

Sorted == INSTANCE Bwt WITH Blocks <- Rows(0..2, 0, 6) \cup [1..9 -> {0, 1}], BlockSize <- 4, Hostile <- MCBwtHostile

StrideHash(t, x) == LET s[k \in 0..Len(x)] == IF k = 0 THEN t ELSE s[k - 1] * 5 + x[k] IN s[Len(x)] % 7
MCModels == {"column", "linear", "delta", "plane", "bits", "match"}
MCStrided ==
  [1..3 -> {0, 1, 3}] \cup {<< >>, <<2>>} \cup {Pattern(12, a, b, 0, 4) : a \in 0..2, b \in {0, 1}}
    \cup {[i \in 1..20 |-> IF i % 4 = 0 THEN 3 ELSE (i \div 4) % 2], Pattern(16, 3, 2, 0, 4), <<0,1,3,0,1,3,0,1,2,0,1,3>>}
MCMasks == {MCModels, MCModels \ {"match"}, {"linear"}, {}}
MCStrideHostile ==
  [declared : {0, 2, 3, 99}, stride : 0..3, record : {0, 2, 9, 20}, models : {MCModels, {}}]
    \cup [declared : {1}, stride : {1}, record : {0}, models : {{"future"}}]

Stride == INSTANCE StrideCm WITH
  payload <- more, Blocks <- MCStrided, Masks <- MCMasks, Hostile <- MCStrideHostile, ByteBits <- 2,
  Strides <- <<1, 2, 3>>, StrideSlack <- 2, MaxLen <- 40, MaxRecord <- 4, RecordStep <- 2, RecordSample <- 3, RecordLeast <- 2,
  MatchMin <- 2, SlotBits <- 14, SlotLimit <- 5, Phases <- 2, TableSize <- 16, Spread <- 3, Hash <- StrideHash

---------------------------------------------------------------------------
(* Lanes of deltas, runs, and the filter of calls.                             *)

MCDelta == Rows({0, 1, 3}, 0, 4) \cup {Row(0, n) \o <<1,2,3,0,2,1,3,3>> : n \in {0, 3, 6, 9, 13}} \cup {Row(0, 34) \o <<1,1,2,2,3,3>>}
Delta == INSTANCE DeltaAns WITH
  Blocks <- MCDelta, ByteBits <- 2, Base <- 4, Total <- 8, FlushBytes <- 4, Lanes <- 2, Losses <- {0, 1, 3}

LengthGroup(first, count, extra, base) == [first |-> first, count |-> count, extra |-> extra, base |-> base]
MCGroups == <<LengthGroup(0,2,0,0), LengthGroup(2,2,1,2), LengthGroup(4,2,2,6), LengthGroup(6,1,2,12), LengthGroup(7,1,2,16)>>
MCRunned == Rows({0, 1, 3}, 0, 4) \cup {Row(0, a) \o Row(2, b) \o Row(0, c) : a \in 1..21, b \in {0, 1, 7}, c \in {0, 13, 45}}
MCMode1 ==
  [mode : {1}, declared : {0, 2, 3}, runs : 0..2, palette : {{}, {1}, {1, 2}}, truncated : BOOLEAN,
   valLengths : {[i \in 0..0 |-> 0], [i \in 0..1 |-> 1], [i \in 0..1 |-> 6]},
   lengths : {[c \in 0..7 |-> 0], [c \in 0..7 |-> IF c \in {1, 4, 7} THEN 1 ELSE 0]}, bits : [1..4 -> {0, 1}]]
MCRunHostile ==
  [mode : {0, 2}, declared : {0, 1, 3}, lengths : [0..3 -> 0..2], bits : {<<0,1,1>>, <<1,1,1,1,1,1>>}] \cup
  {p \in MCMode1 : DOMAIN p.valLengths = 0 .. Cardinality(p.palette) - 1 \/ p.palette = {}}

Runs == INSTANCE RleHuffman WITH
  Blocks <- MCRunned, Hostile <- MCRunHostile, Values <- 4, Cap <- 5, LengthGroups <- MCGroups, MaxRun <- 20, CountBytes <- 0

MCFiltered ==
  Rows(0..3, 0, 5) \cup {<<a, b>> \o c \o <<1, d>> : a \in {2, 3}, b \in {2, 3}, c \in [1..3 -> {0, 2, 3}], d \in 0..3}
    \cup {Row(3, a) \o Row(1, b) : a \in 0..15, b \in {0, 1, 4}}
Filter == INSTANCE Filters WITH
  filtered <- enc, packed <- dec, back <- more,
  Blocks <- MCFiltered, Hostile <- Rows(0..3, 1, 6), Base <- 4, Calls <- {2, 3}, AddressBytes <- 2, Half <- 2

---------------------------------------------------------------------------
(* What the modules assume of these numbers, and the two tables of logistic    *)
(* values of the stride codec, the second of which inverts the first.          *)

ASSUME RangeCoderAssumption
ASSUME CarrylessAssumption
ASSUME BwtCmAssumption
ASSUME Lzma!LengthAssumption
ASSUME Ppmd!PpmAssumption
ASSUME Stride!StretchInverts

\* A codec that needs fewer variables leaves the others alone.
CodecInit ==
  \/ CodersInit /\ more = 0 /\ at = 0 /\ tokens = 0
  \/ part = "codes"     /\ Codes!Init     /\ more = 0 /\ at = 0 /\ tokens = 0
  \/ part = "huffman"   /\ Huff!Init      /\ more = 0 /\ at = 0 /\ tokens = 0
  \/ part = "lzma"      /\ Lzma!Init      /\ more = 0 /\ at = 0 /\ tokens = 0
  \/ part = "parse"     /\ Parse!Init
  \/ part = "ppm"       /\ Ppmd!Init      /\ more = 0 /\ at = 0 /\ tokens = 0
  \/ part = "bwt"       /\ Sorted!Init    /\ more = 0 /\ at = 0 /\ tokens = 0
  \/ part = "stride"    /\ Stride!Init    /\ at = 0 /\ tokens = 0
  \/ part = "delta"     /\ Delta!Init     /\ more = 0 /\ at = 0 /\ tokens = 0
  \/ part = "runs"      /\ Runs!Init      /\ more = 0 /\ at = 0 /\ tokens = 0
  \/ part = "filter"    /\ Filter!Init    /\ at = 0 /\ tokens = 0

CoderNext     == CodersNext /\ UNCHANGED <<more, at, tokens>>
CodesNext     == part = "codes"     /\ Codes!Next     /\ UNCHANGED <<part, more, at, tokens>>
HuffNext      == part = "huffman"   /\ Huff!Next      /\ UNCHANGED <<part, more, at, tokens>>
LzmaNext      == part = "lzma"      /\ Lzma!Next      /\ UNCHANGED <<part, more, at, tokens>>
ParseNext     == part = "parse"     /\ Parse!Next     /\ UNCHANGED part
PpmNext       == part = "ppm"       /\ Ppmd!Next      /\ UNCHANGED <<part, more, at, tokens>>
BwtNext       == part = "bwt"       /\ Sorted!Next    /\ UNCHANGED <<part, more, at, tokens>>
StrideNext    == part = "stride"    /\ Stride!Next    /\ UNCHANGED <<part, at, tokens>>
DeltaNext     == part = "delta"     /\ Delta!Next     /\ UNCHANGED <<part, more, at, tokens>>
RunsNext      == part = "runs"      /\ Runs!Next      /\ UNCHANGED <<part, more, at, tokens>>
FilterNext    == part = "filter"    /\ Filter!Next    /\ UNCHANGED <<part, at, tokens>>
CodecNext == \/ CoderNext \/ CodesNext \/ HuffNext \/ LzmaNext \/ ParseNext \/ PpmNext \/ BwtNext
             \/ StrideNext \/ DeltaNext \/ RunsNext \/ FilterNext

SplitInit == part = "split" /\ Split!Init /\ more = 0 /\ at = 0 /\ tokens = 0
SplitNext == Split!Next /\ UNCHANGED <<part, more, at, tokens>>
SplitSpec == SplitInit /\ [][SplitNext]_codecVars

---------------------------------------------------------------------------
\* Prefix codes are prefix-free within the cap, whatever frequencies they are
\* made of; lengths a file gives are accepted only when no two codes clash; a
\* lookup finds the one code that fits; and each Huffman format gives back
\* its tokens, with a file's blocks contained (huffman.rs).
HuffmanFaithful ==
  /\ part = "codes" => Codes!CodesSound /\ Codes!KraftIsPrefixFree /\ Codes!LookupFindsCode
  /\ part = "huffman" => Huff!RoundTrip /\ Huff!SplitsSound /\ Huff!HostileContained

\* The split format gives back the tokens it was given, however deep the code
\* of the code lengths is (huffman.rs).
SplitComesBack == part = "split" => Split!RoundTrip

\* The LZMA-style decoder is in the encoder's state after every token and
\* gives back the block, whatever the token was; the match tree stays a
\* search tree however its walks are cut, so that it reports no match that is
\* none, and the nearest ones where nothing was cut; and the parse is a path
\* through edges it priced that the coder can code (lzma_style.rs).
LzmaFaithful ==
  /\ part = "lzma" => Lzma!InStep /\ Lzma!RoundTrip /\ Lzma!RepsDistinct /\ Lzma!OutputBounded
  /\ part = "parse" => Parse!TreeSorted /\ Parse!MatchesTrue /\ Parse!NearestFound
                      /\ Parse!PathKept /\ Parse!ParseCodable

\* Models of contexts are the same on either side of every byte or bit, though
\* PPM's decoder is written apart from its encoder; shares stay within their
\* totals and counters in their words; and the stride codec's match and columns
\* are the bytes that are there (ppm.rs, stride_cm.rs).
ContextsFaithful ==
  /\ part = "ppm" => Ppmd!InStep /\ Ppmd!RoundTrip /\ Ppmd!SharesSound
  /\ part = "stride" => Stride!RoundTrip /\ Stride!NumbersFit /\ Stride!MatchTrue

\* Suffixes come out sorted from names that may clash, the transform inverts,
\* and an index or a size no encoder wrote is refused; counts scaled to a fixed
\* total keep every symbol that occurs, states stay in the interval that makes
\* a byte read for each one written, and lanes dealt out and merged give the
\* block; runs come back through their classes at every length and through
\* their varints below the 4 MiB that three bytes count, a file's runs stay
\* within its length, and the filter of calls inverts at overlapping addresses
\* (bwt_codec.rs, entropy/mod.rs, delta_ans.rs, rle_huffman.rs, codecs/mod.rs,
\* bcj_filter.rs).
BytesFaithful ==
  /\ part = "bwt" => Sorted!SuffixesSorted /\ Sorted!RoundTrip /\ Sorted!HostileContained
  /\ part = "delta" => Delta!SharesSound /\ Delta!StatesInterval /\ Delta!RoundTrip
  /\ part = "runs" => Runs!RoundTrip /\ Runs!RunsSound /\ Runs!HostileContained
  /\ part = "filter" => Filter!FilterInverts /\ Filter!RunsComeBack /\ Filter!HostileContained
=============================================================================
