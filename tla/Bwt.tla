-------------------------------- MODULE Bwt --------------------------------
(***************************************************************************)
(* The BWT codec (src/codecs/bwt_codec.rs): the suffix array by induced    *)
(* sorting, the transform and its inverse, and the blocks of a payload.    *)
(* The entropy coder of the transformed bytes is BwtCm: here a coded block *)
(* is what it decodes to.                                                  *)
(***************************************************************************)
EXTENDS Integers, Sequences, FiniteSets

CONSTANTS
  Blocks,     \* the inputs that are compressed
  BlockSize,  \* BWT_BLOCK_SIZE
  Hostile     \* payloads that no encoder made: [declared, blocks]

VARIABLES
  data,  \* the input
  enc,   \* encoder: bytes done, declared length, number of blocks, blocks
  dec    \* decoder: block it is at, output, status

vars == <<data, enc, dec>>

---------------------------------------------------------------------------
(* sais_core: text is a sequence whose last symbol is its only smallest;   *)
(* positions count from 0.                                                 *)

Empty == -1                         \* u32::MAX
Sym(text, i) == text[i + 1]

\* Is the suffix at i less than the next one?
Smaller(text) ==
  LET s[i \in 0..Len(text) - 1] ==
        IF i = Len(text) - 1 THEN TRUE
        ELSE Sym(text, i) < Sym(text, i + 1) \/ (Sym(text, i) = Sym(text, i + 1) /\ s[i + 1])
  IN  s

Leftmost(isS, i) == i > 0 /\ isS[i] /\ ~isS[i - 1]

\* Bucket borders: places of the suffixes that begin with c.
Head0(text, c) == Cardinality({i \in DOMAIN text : text[i] < c})
Tail0(text, c) == Cardinality({i \in DOMAIN text : text[i] <= c})
Symbols(text)  == {text[i] : i \in DOMAIN text}

\* seed_lms: each position at the tail of its bucket, in the order given.
Seeded(text, positions) ==
  LET s[k \in 0..Len(positions)] ==
        IF k = 0 THEN [sa    |-> [i \in 0..Len(text) - 1 |-> Empty],
                       tails |-> [c \in Symbols(text) |-> Tail0(text, c)]]
        ELSE LET r == s[k - 1]
                 c == Sym(text, positions[k])
             IN  [sa    |-> [r.sa EXCEPT ![r.tails[c] - 1] = positions[k]],
                  tails |-> [r.tails EXCEPT ![c] = @ - 1]]
  IN  s[Len(positions)].sa

\* induce, first half: L suffixes to the heads of their buckets, left to right.
InducedL(text, isS, sa0) ==
  LET l[i \in 0..Len(text)] ==
        IF i = 0 THEN [sa |-> sa0, heads |-> [c \in Symbols(text) |-> Head0(text, c)]]
        ELSE LET r == l[i - 1]
                 j == r.sa[i - 1] - 1
             IN  IF j < 0 \/ isS[j] THEN r
                 ELSE LET c == Sym(text, j)
                      IN  [sa |-> [r.sa EXCEPT ![r.heads[c]] = j], heads |-> [r.heads EXCEPT ![c] = @ + 1]]
  IN  l[Len(text)].sa

\* induce, second half: S suffixes to the tails, right to left.
InducedS(text, isS, sa0) ==
  LET n == Len(text)
      s[i \in 0..n] ==
        IF i = 0 THEN [sa |-> sa0, tails |-> [c \in Symbols(text) |-> Tail0(text, c)]]
        ELSE LET r == s[i - 1]
                 j == r.sa[n - i] - 1
             IN  IF j < 0 \/ ~isS[j] THEN r
                 ELSE LET c == Sym(text, j)
                      IN  [sa |-> [r.sa EXCEPT ![r.tails[c] - 1] = j], tails |-> [r.tails EXCEPT ![c] = @ - 1]]
  IN  s[n].sa

Induced(text, isS, sa) == InducedS(text, isS, InducedL(text, isS, sa))

\* MUTANT: the types of the symbols are not compared.
SameLeftmostByText(text, isS, a, b) ==
  \E k \in 1 .. Len(text) - 1 :
    /\ a + k < Len(text) /\ b + k < Len(text)
    /\ Leftmost(isS, a + k) \/ Leftmost(isS, b + k)
    /\ \A j \in 0..k-1 : Sym(text, a + j) = Sym(text, b + j)

\* Two LMS substrings are the same, to the end of both.
SameLeftmost(text, isS, a, b) ==
  \E k \in 1 .. Len(text) - 1 :
    /\ a + k < Len(text) /\ b + k < Len(text)
    /\ Leftmost(isS, a + k) \/ Leftmost(isS, b + k)
    /\ \A j \in 0..k : Sym(text, a + j) = Sym(text, b + j) /\ isS[a + j] = isS[b + j]

Ascending(S) ==
  LET s[k \in 0..Cardinality(S)] ==
        IF k = 0 THEN << >>
        ELSE LET t == s[k - 1]
             IN  Append(t, CHOOSE i \in S : i \notin {t[j] : j \in DOMAIN t} /\ Cardinality({j \in S : j < i}) = k - 1)
  IN  s[Cardinality(S)]
Reversed(s) == [i \in DOMAIN s |-> s[Len(s) + 1 - i]]

\* LMS positions in the order one round of induction gives their substrings.
SortedLms(text, isS, lms) ==
  LET first    == Induced(text, isS, Seeded(text, Reversed(lms)))
      isLms(p) == Leftmost(isS, p)
  IN  SelectSeq([i \in 1..Len(text) |-> first[i - 1]], isLms)

\* Names of the LMS substrings, by rank: equal ones share theirs.
Names(text, isS, sorted) ==
  LET names[k \in 1..Len(sorted)] ==
        IF k = 1 THEN 0
        ELSE names[k - 1] + IF SameLeftmost(text, isS, sorted[k - 1], sorted[k]) THEN 0 ELSE 1
  IN  names

\* The text of the names, in the order of their positions.
Reduced(lms, sorted, names) == [k \in DOMAIN lms |-> names[CHOOSE r \in DOMAIN sorted : sorted[r] = lms[k]]]

RECURSIVE SaisCore(_)

\* Suffixes of the reduced text in order: by name, if no two share one.
OrderOf(reduced) ==
  IF Cardinality({reduced[k] : k \in DOMAIN reduced}) < Len(reduced) THEN SaisCore(reduced)
  ELSE [r \in DOMAIN reduced |-> (CHOOSE k \in DOMAIN reduced : reduced[k] = r - 1) - 1]

Ranked(lms, order) == [r \in DOMAIN lms |-> lms[order[r] + 1]]
NamedOrder(text, isS, lms, sorted) == OrderOf(Reduced(lms, sorted, Names(text, isS, sorted)))
SaisOf(text, isS, lms) ==
  Induced(text, isS, Seeded(text, Reversed(Ranked(lms, NamedOrder(text, isS, lms, SortedLms(text, isS, lms))))))
SaisWith(text, isS) == SaisOf(text, isS, Ascending({i \in 0 .. Len(text) - 1 : Leftmost(isS, i)}))
Listed(sa) == [i \in 1..Cardinality(DOMAIN sa) |-> sa[i - 1]]

SaisCore(text) ==
  IF Len(text) = 1 THEN <<0>>
  ELSE IF Len(text) = 2 THEN IF text[1] < text[2] THEN <<0, 1>> ELSE <<1, 0>>
  ELSE Listed(SaisWith(text, Smaller(text)))

\* suffix_array_sais: with a sentinel behind the bytes, whose suffix goes first.
SuffixArray(text) ==
  IF Len(text) <= 1 THEN [i \in DOMAIN text |-> 0]
  ELSE Tail(SaisCore([i \in 1..Len(text) + 1 |-> IF i <= Len(text) THEN text[i] + 1 ELSE 0]))

---------------------------------------------------------------------------
(* bwt_forward, bwt_inverse                                                *)

Transformed(text, rest, index) ==
  [bwt |-> <<text[Len(text)]>> \o [k \in DOMAIN rest |-> text[rest[k]]], index |-> index]

\* MUTANT: the row of the sentinel is not counted.
ForwardByUncounted(text, sa) ==
  IF Len(text) = 0 THEN [bwt |-> << >>, index |-> 0]
  ELSE Transformed(text, SelectSeq(sa, LAMBDA s : s # 0), (CHOOSE k \in DOMAIN sa : sa[k] = 0) - 1)

\* The byte before each suffix in order, without the one of the whole text,
\* and the row that one would be in; row 0 is the suffix of the sentinel.
ForwardBy(text, sa) ==
  IF Len(text) = 0 THEN [bwt |-> << >>, index |-> 0]
  ELSE Transformed(text, SelectSeq(sa, LAMBDA s : s # 0), CHOOSE k \in DOMAIN sa : sa[k] = 0)

Forward(text) == ForwardBy(text, SuffixArray(text))

\* The row the LF mapping leads to from stored position j (from 0).
RowFrom(bwt, j) ==
  1 + Cardinality({i \in DOMAIN bwt : bwt[i] < bwt[j + 1]})
    + Cardinality({i \in 1..j : bwt[i] = bwt[j + 1]})

\* Rows past index are stored one slot earlier.
SlotOf(row, index) == IF row < index THEN row ELSE row - 1

\* The rows visited, from the end of the text to its start.
Rows(bwt, index) ==
  LET r[i \in 1..Len(bwt)] ==
        IF i = 1 THEN 0
        ELSE LET j == SlotOf(r[i - 1], index)
             IN  IF j \in 0 .. Len(bwt) - 1 THEN RowFrom(bwt, j) ELSE Len(bwt) + 1
  IN  r

Inverse(bwt, index) ==
  LET n    == Len(bwt)
      rows == Rows(bwt, index)
  IN  [i \in 1..n |-> bwt[SlotOf(rows[n + 1 - i], index) + 1]]

---------------------------------------------------------------------------
(* bwt_compress, bwt_decompress                                            *)

Honest == enc.honest

Coded(size, f) == [index |-> f.index, size |-> size, coded |-> f.bwt]

CompressChunk ==
  LET left  == Len(data) - enc.done
      size  == IF left < BlockSize THEN left ELSE BlockSize
  IN  /\ Honest /\ left > 0
      /\ enc' = [enc EXCEPT !.done = @ + size,
                            !.blocks = Append(@, Coded(size, Forward(SubSeq(data, enc.done + 1, enc.done + size))))]
      /\ UNCHANGED <<data, dec>>

\* MUTANT: a block that says it has no row for the whole text is let in.
AcceptsNoRow(b, written) ==
  b.size <= BlockSize /\ b.index <= b.size /\ written + b.size <= enc.declared

Accepts(b, written) ==
  /\ b.size <= BlockSize /\ b.index # 0 /\ b.index <= b.size
  /\ written + b.size <= enc.declared

\* A block cut short, or refused, ends the output where it is.
DecompressBlock ==
  LET b == enc.blocks[dec.next]
  IN  /\ Honest => enc.done = Len(data)
      /\ dec.status = "blocks" /\ dec.next \in DOMAIN enc.blocks
      /\ dec' = IF Accepts(b, Len(dec.out))
                THEN [dec EXCEPT !.next = @ + 1, !.out = @ \o Inverse(b.coded, b.index)]
                ELSE [dec EXCEPT !.status = "done"]
      /\ UNCHANGED <<data, enc>>

DecompressEnd ==
  /\ Honest => enc.done = Len(data)
  /\ dec.status = "blocks" /\ dec.next \notin DOMAIN enc.blocks
  /\ dec' = [dec EXCEPT !.status = "done"]
  /\ UNCHANGED <<data, enc>>

Init ==
  /\ dec = [next |-> 1, out |-> << >>, status |-> "blocks"]
  /\ \/ /\ data \in Blocks
        /\ enc = [done |-> 0, declared |-> Len(data), blocks |-> << >>, honest |-> TRUE]
     \/ /\ data = << >>
        /\ \E h \in Hostile :
             enc = [done |-> 0, declared |-> h.declared, blocks |-> h.blocks, honest |-> FALSE]

Next == CompressChunk \/ DecompressBlock \/ DecompressEnd
Spec == Init /\ [][Next]_vars

---------------------------------------------------------------------------
Suffix(text, p) == SubSeq(text, p + 1, Len(text))
\* The order of sequences in a dictionary.
Before(a, b) ==
  \E k \in 0 .. Len(a) :
    /\ k <= Len(b) /\ \A i \in 1..k : a[i] = b[i]
    /\ IF k = Len(a) THEN k < Len(b) ELSE k < Len(b) /\ a[k + 1] < b[k + 1]

\* Induced sorting gives every suffix once, in order (suffix_array_sais).
SuffixesSorted ==
  LET inOrder(sa) ==
        /\ Len(sa) = Len(data) /\ {sa[k] : k \in DOMAIN sa} = 0 .. Len(data) - 1
        /\ \A k \in 1 .. Len(sa) - 1 : Before(Suffix(data, sa[k]), Suffix(data, sa[k + 1]))
  IN  enc.done = 0 => inOrder(SuffixArray(data))

\* All the chunks of an input come back, each with a row that is accepted.
RoundTrip == Honest /\ dec.status = "done" => dec.out = data

\* Whatever a payload says: the walk through an accepted block stays inside it,
\* and the output within the declared length (bwt_decompress, bwt_inverse).
HostileContained ==
  /\ Len(dec.out) <= enc.declared
  /\ \A i \in DOMAIN enc.blocks :
       LET b == enc.blocks[i]
           rows == Rows(b.coded, b.index)
       IN  Accepts(b, 0) => \A k \in DOMAIN rows : SlotOf(rows[k], b.index) \in 0 .. b.size - 1
=============================================================================
