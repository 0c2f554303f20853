------------------------------ MODULE Transform ------------------------------
(***************************************************************************)
(* The transforms by domain (src/transform/mod.rs): text is cut in blocks, *)
(* each sorted by its rotations and moved to front; a file of bases is     *)
(* parted into headers, exceptions and bases of two bits.  Whether text    *)
(* looks too regular to sort is left open: it is a threshold on entropy.   *)
(*                                                                         *)
(* A byte is a number; among those of a file of bases 0-3 are ACGT, 4-7    *)
(* acgt, 8 is '>' and 9 a line feed.                                       *)
(***************************************************************************)
EXTENDS Integers, Sequences, FiniteSets, SequencesExt

CONSTANTS
  Texts,      \* texts that are transformed
  Genomes,    \* files of bases
  BlockSize,  \* BWT_BLOCK_SIZE
  Bytes,      \* values of a byte
  PerByte     \* bases packed in a byte: 4

VARIABLES
  data,  \* the input: [domain, bytes]
  enc,   \* what the transform made of it
  dec    \* what the inverse gives back

vars == <<data, enc, dec>>

Least2(a, b) == IF a < b THEN a ELSE b
Reversed(s) == [i \in DOMAIN s |-> s[Len(s) + 1 - i]]

---------------------------------------------------------------------------
(* bwt_forward, bwt_inverse                                                *)

\* The byte k after the one at i, round the end; positions count from 0.
Rotated(text, i, k) == text[((i + k) % Len(text)) + 1]

\* Is the rotation at a before the one at b?  Where they are the same a stable
\* sort keeps the earlier one first.
SortsBefore(text, a, b) ==
  LET n == Len(text)
      differ == {k \in 0 .. n - 1 : Rotated(text, a, k) # Rotated(text, b, k)}
      first == CHOOSE k \in differ : \A j \in differ : k <= j
  IN  IF differ = {} THEN a < b ELSE Rotated(text, a, first) < Rotated(text, b, first)

\* The row of each rotation.
RowOf(text, i) == Cardinality({j \in 0 .. Len(text) - 1 : SortsBefore(text, j, i)})

BwtForward(text) ==
  LET rows == [i \in 0 .. Len(text) - 1 |-> RowOf(text, i)]
      at(row) == CHOOSE i \in DOMAIN rows : rows[i] = row
  IN  IF text = << >> THEN [last |-> << >>, index |-> 0]
      ELSE [last |-> [r \in DOMAIN text |-> Rotated(text, at(r - 1), Len(text) - 1)], index |-> rows[0]]

\* MUTANT: equal bytes are counted from the end of the column.
BwtInverseFromEnd(last, index) ==
  LET n == Len(last)
      lf[i \in 0 .. n - 1] == Cardinality({j \in 1..n : last[j] < last[i + 1]})
                              + Cardinality({j \in i + 2 .. n : last[j] = last[i + 1]})
      pos[k \in 0..n] == IF k = 0 THEN index ELSE LET p == pos[k - 1] IN lf[p]
  IN  Reversed([k \in 1..n |-> last[pos[k - 1] + 1]])

\* The text from its last byte back, along the mapping of last to first.
BwtInverse(last, index) ==
  LET n == Len(last)
      lf[i \in 0 .. n - 1] == Cardinality({j \in 1..n : last[j] < last[i + 1]})
                              + Cardinality({j \in 1..i : last[j] = last[i + 1]})
      pos[k \in 0..n] == IF k = 0 THEN index ELSE LET p == pos[k - 1] IN lf[p]
  IN  Reversed([k \in 1..n |-> last[pos[k - 1] + 1]])

---------------------------------------------------------------------------
(* mtf_encode, mtf_decode: the list after each byte                        *)

AllBytes == [i \in 1..Bytes |-> i - 1]
ToFront(list, at) == <<list[at]>> \o RemoveAt(list, at)

MtfEncode(text) ==
  LET list[k \in 0..Len(text)] ==
        IF k = 0 THEN AllBytes ELSE LET l == list[k - 1] IN ToFront(l, SelectInSeq(l, LAMBDA b : b = text[k]))
  IN  [k \in DOMAIN text |-> SelectInSeq(list[k - 1], LAMBDA b : b = text[k]) - 1]

\* MUTANT: the byte changes places with the first.
MtfDecodeSwaps(ranks) ==
  LET list[k \in 0..Len(ranks)] ==
        IF k = 0 THEN AllBytes
        ELSE LET l == list[k - 1] IN [l EXCEPT ![1] = l[ranks[k] + 1], ![ranks[k] + 1] = l[1]]
  IN  [k \in DOMAIN ranks |-> list[k - 1][ranks[k] + 1]]

MtfDecode(ranks) ==
  LET list[k \in 0..Len(ranks)] == IF k = 0 THEN AllBytes ELSE LET l == list[k - 1] IN ToFront(l, ranks[k] + 1)
  IN  [k \in DOMAIN ranks |-> list[k - 1][ranks[k] + 1]]

---------------------------------------------------------------------------
(* dna_forward, dna_inverse                                                *)

IsBase(b) == b < 8
Bits(b)   == IF IsBase(b) THEN b % 4 ELSE 0
Header    == 8
LineFeed  == 9

\* The bytes one after the other: a header from its mark to the end of the
\* line, wherever in a line the mark is, and everything else.
Parted(bytes) ==
  LET p[k \in 0..Len(bytes)] ==
        IF k = 0 THEN [seq |-> << >>, headers |-> << >>, entries |-> << >>, inside |-> FALSE]
        ELSE LET s == p[k - 1]
                 b == bytes[k]
             IN  IF s.inside
                 THEN [s EXCEPT !.headers = Append(@, b), !.entries[Len(s.entries)].len = @ + 1, !.inside = b # LineFeed]
                 ELSE IF b = Header
                 THEN [s EXCEPT !.headers = Append(@, b), !.entries = Append(@, [at |-> Len(s.seq), len |-> 1]), !.inside = TRUE]
                 ELSE [s EXCEPT !.seq = Append(@, b)]
  IN  p[Len(bytes)]

\* Bases to a byte, the first in its highest bits.
PackedBases(seq) ==
  LET base(i) == IF i <= Len(seq) THEN Bits(seq[i]) ELSE 0
      sum(b) == LET s[k \in 0..PerByte] == IF k = 0 THEN 0 ELSE s[k - 1] + base((b - 1) * PerByte + k) * 4^(PerByte - k)
                IN  s[PerByte]
  IN  [b \in 1 .. (Len(seq) + PerByte - 1) \div PerByte |-> sum(b)]

DnaOf(parted, length) ==
  [length |-> length, headers |-> parted.headers, entries |-> parted.entries, count |-> Len(parted.seq),
   others |-> {<<i - 1, parted.seq[i]>> : i \in {j \in DOMAIN parted.seq : ~IsBase(parted.seq[j])}},
   packed |-> PackedBases(parted.seq)]
DnaForward(bytes) == DnaOf(Parted(bytes), Len(bytes))

\* MUTANT: an exception is taken for a base.
UnpackedPlain(made) ==
  [i \in 1..made.count |->
     (made.packed[(i - 1) \div PerByte + 1] \div 4^(PerByte - 1 - ((i - 1) % PerByte))) % 4]

Unpacked(made) ==
  [i \in 1..made.count |->
     LET other == {e \in made.others : e[1] = i - 1}
     IN  IF other # {} THEN (CHOOSE e \in other : TRUE)[2]
         ELSE (made.packed[(i - 1) \div PerByte + 1] \div 4^(PerByte - 1 - ((i - 1) % PerByte))) % 4]

\* The sequence up to each header's place, and the header.
Rebuilt(made, seq) ==
  LET r[k \in 0..Len(made.entries)] ==
        IF k = 0 THEN [out |-> << >>, seq |-> 0, header |-> 0]
        ELSE LET s  == r[k - 1]
                 e  == made.entries[k]
                 to == IF e.at < s.seq THEN s.seq ELSE Least2(e.at, Len(seq))
             IN  [out    |-> s.out \o SubSeq(seq, s.seq + 1, to) \o SubSeq(made.headers, s.header + 1, s.header + e.len),
                  seq    |-> to,
                  header |-> s.header + e.len]
      all == r[Len(made.entries)]
  IN  all.out \o SubSeq(seq, all.seq + 1, Len(seq))
DnaInverse(made) == Rebuilt(made, Unpacked(made))

---------------------------------------------------------------------------
(* apply_transform, inverse_transform                                      *)

Chunks(text) ==
  [k \in 1 .. (Len(text) + BlockSize - 1) \div BlockSize |->
     SubSeq(text, (k - 1) * BlockSize + 1, Least2(k * BlockSize, Len(text)))]
SortedBlock(b) == [index |-> b.index, ranks |-> MtfEncode(b.last)]

\* No blocks at all says that the text follows as it was.
Apply ==
  /\ enc.status = "start"
  /\ \/ /\ data.domain = "text" /\ data.bytes # << >>
        /\ \/ enc' = [status |-> "blocks", blocks |-> << >>, raw |-> data.bytes]
           \/ enc' = [status |-> "blocks", raw |-> << >>,
                      blocks |-> [k \in DOMAIN Chunks(data.bytes) |-> SortedBlock(BwtForward(Chunks(data.bytes)[k]))]]
     \/ /\ data.domain = "bases" /\ data.bytes # << >>
        /\ enc' = [status |-> "bases", made |-> DnaForward(data.bytes)]
     \/ /\ data.domain = "other" \/ data.bytes = << >>
        /\ enc' = [status |-> "raw", raw |-> data.bytes]
  /\ UNCHANGED <<data, dec>>

Undo ==
  /\ enc.status # "start" /\ ~dec.ready
  /\ dec' = [ready |-> TRUE, out |->
       CASE enc.status = "raw" -> enc.raw
         [] enc.status = "bases" -> DnaInverse(enc.made)
         [] enc.status = "blocks" ->
              IF enc.blocks = << >> THEN enc.raw
              ELSE FlattenSeq([k \in DOMAIN enc.blocks |-> BwtInverse(MtfDecode(enc.blocks[k].ranks), enc.blocks[k].index)])]
  /\ UNCHANGED <<data, enc>>

Init ==
  /\ data \in [domain : {"text", "other"}, bytes : Texts] \cup [domain : {"bases"}, bytes : Genomes]
  /\ enc = [status |-> "start"]
  /\ dec = [ready |-> FALSE, out |-> << >>]

Next == Apply \/ Undo
Spec == Init /\ [][Next]_vars

---------------------------------------------------------------------------
\* A base in capitals, which is how the inverse writes them all.
Capital(b) == IF b \in 4..7 THEN b - 4 ELSE b
\* Is the byte at i of a header?
InHeader(bytes, i) ==
  \E j \in 1..i : bytes[j] = Header /\ \A k \in j .. i - 1 : bytes[k] # LineFeed

\* Text comes back byte for byte, also where it repeats itself, and so do the
\* headers and what is no base between bases; bases outside headers come back
\* as the same bases, at their places, but in capitals, since their case is not
\* kept (dna_forward): InputComesBack does not hold of them.
TransformsInvert ==
  dec.ready =>
    dec.out = IF data.domain = "bases"
          THEN [i \in DOMAIN data.bytes |-> IF InHeader(data.bytes, i) THEN data.bytes[i] ELSE Capital(data.bytes[i])]
          ELSE data.bytes

\* "All transforms are lossless and invertible" (transform/mod.rs): the inverse
\* gives back the bytes that were transformed, whatever they were.
InputComesBack == dec.ready => dec.out = data.bytes

\* Rows are in the order of their rotations, and bytes of one context together
\* (bwt_forward): the column of firsts that the inverse counts is sorted.
RotationsSorted ==
  LET inOrder(rows) ==
        /\ {rows[i] : i \in DOMAIN rows} = 0 .. Len(data.bytes) - 1
        /\ \A i, j \in DOMAIN rows : data.bytes[i + 1] < data.bytes[j + 1] => rows[i] < rows[j]
  IN  data.domain = "text" /\ enc.status = "start" =>
        inOrder([i \in 0 .. Len(data.bytes) - 1 |-> RowOf(data.bytes, i)])
=============================================================================
