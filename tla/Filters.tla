------------------------------ MODULE Filters ------------------------------
(***************************************************************************)
(* The two transforms that stand before or beside a codec: the filter of   *)
(* calls and jumps (src/codecs/bcj_filter.rs) and the plain run-length     *)
(* code (rle_encode and rle_decode of src/codecs/mod.rs).                  *)
(***************************************************************************)
EXTENDS Integers, Sequences

CONSTANTS
  Blocks,        \* what is transformed: rows of bytes
  Hostile,       \* run-length payloads no encoder made
  Base,          \* values of a byte: 256
  Calls,         \* 0xE8 and 0xE9
  AddressBytes,  \* bytes of an address: 4
  Half           \* a byte's top bit says that a count goes on: 128

VARIABLES
  data,      \* the block
  filtered,  \* after bcj_encode
  packed,    \* after rle_encode, or a hostile payload
  back       \* [filter, runs]: what the inverses give

vars == <<data, filtered, packed, back>>

---------------------------------------------------------------------------
(* Calls and jumps                                                         *)

Number(bytes) ==
  LET n[k \in 0..Len(bytes)] == IF k = 0 THEN 0 ELSE n[k - 1] + bytes[k] * Base^(k - 1) IN n[Len(bytes)]
BytesOf(n) == [k \in 1..AddressBytes |-> (n \div Base^(k - 1)) % Base]

\* The address behind the opcode at i (from 0), moved by i either way.
Moved(text, i, sign) ==
  LET at == i + 2
      to == (Number(SubSeq(text, at, at + AddressBytes - 1)) + sign * i) % Base^AddressBytes
  IN  [j \in DOMAIN text |-> IF j \in at .. at + AddressBytes - 1 THEN BytesOf(to)[j - at + 1] ELSE text[j]]

\* MUTANT: an address is looked through for more opcodes.
ScannedThrough(text, sign) ==
  LET r[k \in 0..Len(text)] ==
        IF k = 0 THEN [i |-> 0, text |-> text]
        ELSE LET s == r[k - 1]
             IN  IF s.i + AddressBytes >= Len(s.text) THEN s
                 ELSE IF s.text[s.i + 1] \in Calls THEN [i |-> s.i + 1, text |-> Moved(s.text, s.i, sign)]
                 ELSE [s EXCEPT !.i = @ + 1]
  IN  r[Len(text)].text

\* An opcode is followed by an address, as long as a whole one follows.
Scanned(text, sign) ==
  LET r[k \in 0..Len(text)] ==
        IF k = 0 THEN [i |-> 0, text |-> text]
        ELSE LET s == r[k - 1]
             IN  IF s.i + AddressBytes >= Len(s.text) THEN s
                 ELSE IF s.text[s.i + 1] \in Calls
                 THEN [i |-> s.i + 1 + AddressBytes, text |-> Moved(s.text, s.i, sign)]
                 ELSE [s EXCEPT !.i = @ + 1]
  IN  r[Len(text)].text

\* bcj_encode, bcj_decode
BcjEncode(text) == Scanned(text, 1)
BcjDecode(text) == Scanned(text, -1)

---------------------------------------------------------------------------
(* Runs, each a value and a count of one to three bytes                    *)

\* varint_encode
VarintEncode(n) ==
  IF n < Half THEN <<n>>
  ELSE IF n < Half * Half THEN <<Half + (n % Half), n \div Half>>
  ELSE <<Half + (n % Half), Half + ((n \div Half) % Half), (n \div (Half * Half)) % Base>>

RunAt(text, i) ==
  CHOOSE n \in 1 .. Len(text) + 1 - i :
    /\ \A j \in i .. i + n - 1 : text[j] = text[i]
    /\ i + n = Len(text) + 1 \/ text[i + n] # text[i]

\* rle_encode
RleEncode(text) ==
  LET r[k \in 0..Len(text)] ==
        IF k = 0 THEN [at |-> 1, out |-> << >>]
        ELSE LET s == r[k - 1]
             IN  IF s.at > Len(text) THEN s
                 ELSE LET n == RunAt(text, s.at)
                      IN  [at |-> s.at + n, out |-> s.out \o <<text[s.at]>> \o VarintEncode(n)]
  IN  r[Len(text)].out

\* MUTANT: the second byte's top bit is taken as a part of the count.
VarintDecodeFull(bytes, pos) ==
  LET has(k) == pos + k <= Len(bytes)
      b(k) == bytes[pos + k]
  IN  IF ~has(0) THEN [value |-> 0, size |-> 0]
      ELSE IF b(0) < Half THEN [value |-> b(0), size |-> 1]
      ELSE IF ~has(1) THEN [value |-> 0, size |-> 0]
      ELSE IF b(1) < Half THEN [value |-> (b(0) % Half) + b(1) * Half, size |-> 2]
      ELSE IF ~has(2) THEN [value |-> 0, size |-> 0]
      ELSE [value |-> (b(0) % Half) + b(1) * Half + b(2) * Half * Half, size |-> 3]

\* varint_decode; a size of 0 stands for the end of the data.
VarintDecode(bytes, pos) ==
  LET has(k) == pos + k <= Len(bytes)
      b(k) == bytes[pos + k]
  IN  IF ~has(0) THEN [value |-> 0, size |-> 0]
      ELSE IF b(0) < Half THEN [value |-> b(0), size |-> 1]
      ELSE IF ~has(1) THEN [value |-> 0, size |-> 0]
      ELSE IF b(1) < Half THEN [value |-> (b(0) % Half) + b(1) * Half, size |-> 2]
      ELSE IF ~has(2) THEN [value |-> 0, size |-> 0]
      ELSE [value |-> (b(0) % Half) + (b(1) % Half) * Half + b(2) * Half * Half, size |-> 3]

\* rle_decode: a count of zero is an error, as is the end inside a count.
RleDecode(bytes) ==
  LET r[k \in 0..Len(bytes)] ==
        IF k = 0 THEN [at |-> 1, out |-> << >>, ok |-> TRUE]
        ELSE LET s == r[k - 1]
                 v == VarintDecode(bytes, s.at + 1)
             IN  IF s.at > Len(bytes) \/ ~s.ok THEN s
                 ELSE IF v.size = 0 \/ v.value = 0 THEN [s EXCEPT !.ok = FALSE]
                 ELSE [s EXCEPT !.at = @ + 1 + v.size, !.out = @ \o [j \in 1..v.value |-> bytes[s.at]]]
  IN  r[Len(bytes)]

---------------------------------------------------------------------------
None == [made |-> FALSE, text |-> << >>]
Made(text) == [made |-> TRUE, text |-> text]

Filter ==
  /\ ~filtered.made /\ ~packed.made
  /\ filtered' = Made(BcjEncode(data))
  /\ UNCHANGED <<data, packed, back>>

Pack ==
  /\ ~packed.made /\ filtered.made
  /\ packed' = Made(RleEncode(data))
  /\ UNCHANGED <<data, filtered, back>>

Unfilter ==
  /\ filtered.made /\ ~back.filter.made
  /\ back' = [back EXCEPT !.filter = Made(BcjDecode(filtered.text))]
  /\ UNCHANGED <<data, filtered, packed>>

Unpack ==
  /\ packed.made /\ ~back.runs.made
  /\ LET r == RleDecode(packed.text)
     IN  back' = [back EXCEPT !.runs = Made(r.out), !.ok = r.ok]
  /\ UNCHANGED <<data, filtered, packed>>

Init ==
  /\ back = [filter |-> None, runs |-> None, ok |-> TRUE]
  /\ filtered = None
  /\ \/ data \in Blocks /\ packed = None
     \/ data = << >> /\ \E p \in Hostile : packed = Made(p)

Next == Filter \/ Pack \/ Unfilter \/ Unpack
Spec == Init /\ [][Next]_vars

---------------------------------------------------------------------------
\* bcj_decode undoes bcj_encode, whatever addresses wrap and wherever the text
\* ends: both take the same bytes for opcodes, for neither changes one.
FilterInverts ==
  filtered.made =>
    /\ back.filter.made => back.filter.text = data
    /\ Len(filtered.text) = Len(data)

\* Every block comes back, however long its runs are (rle_decode).
EveryRunComesBack ==
  filtered.made /\ back.runs.made => back.ok /\ back.runs.text = data

\* Blocks come back whose runs the third byte of a count can still count.
RunsComeBack ==
  (\A i \in DOMAIN data : RunAt(data, i) < Base * Half * Half) => EveryRunComesBack

\* Whatever the payload, success leaves at least a byte for every four: the
\* counts of zero that would let it say nothing at length are errors.
HostileContained ==
  back.runs.made /\ ~filtered.made /\ back.ok =>
    Len(packed.text) <= 4 * Len(back.runs.text)
=============================================================================
