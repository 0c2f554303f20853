----------------------------- MODULE PrefixCode -----------------------------
(***************************************************************************)
(* Huffman codes (src/lz77/huffman.rs): lengths from frequencies, limited  *)
(* to what a header can say, canonical codes from lengths, the table they  *)
(* are read with, and the bits of a stream.                                *)
(*                                                                         *)
(* As a machine: an encoder builds a code from frequencies, or a header    *)
(* gives the lengths; a decoder then looks any bits up.                    *)
(***************************************************************************)
EXTENDS Integers, Sequences, FiniteSets

CONSTANTS
  Cap,      \* most bits of a code: the 15 of build_huffman_codes
  Freqs,    \* frequencies a code is built from: functions on 0 .. n-1
  Headers   \* lengths that a file gives: functions on 0 .. n-1

VARIABLES
  data,  \* where the code comes from: [source, values]
  enc,   \* the lengths and codes, once there are any
  dec    \* bits that are looked up and what they mean

vars == <<data, enc, dec>>

---------------------------------------------------------------------------
(* build_huffman_codes                                                     *)

Used(freqs) == {s \in DOMAIN freqs : freqs[s] > 0}

Lighter(a, b) == a.freq < b.freq \/ (a.freq = b.freq /\ a.id < b.id)
Lightest(nodes) == CHOOSE a \in nodes : \A b \in nodes \ {a} : Lighter(a, b)

\* The heap after k of its merges, and how deep each symbol is by then.
TreeDepths(freqs) ==
  LET used == Used(freqs)
      n    == Cardinality(DOMAIN freqs)
      last == Cardinality(used) - 1
      heap[k \in 0..last] ==
        IF k = 0 THEN [nodes |-> {[freq |-> freqs[s], id |-> s, leaves |-> {s}] : s \in used},
                       depth |-> [s \in DOMAIN freqs |-> 0]]
        ELSE LET h == heap[k - 1]
                 a == Lightest(h.nodes)
                 b == Lightest(h.nodes \ {a})
                 both == a.leaves \cup b.leaves
             IN  [nodes |-> (h.nodes \ {a, b}) \cup
                              {[freq |-> a.freq + b.freq, id |-> n + k - 1, leaves |-> both]},
                  depth |-> [s \in DOMAIN freqs |-> h.depth[s] + IF s \in both THEN 1 ELSE 0]]
  IN  heap[last].depth

CountOf(lengths, symbols, l) == Cardinality({s \in symbols : lengths[s] = l})
Capped(n, cap) == IF n > cap THEN cap ELSE n

\* The redistribution of limit_code_lengths: for each symbol that was too deep
\* one of the deepest level that has any makes room for two, until the top.
Redistributed(counts, overflow) ==
  LET r[k \in 0..overflow] ==
        IF k = 0 THEN counts
        ELSE LET c    == r[k - 1]
                 full == {b \in 1 .. Cap - 1 : c[b] > 0}
                 bits == CHOOSE b \in full : \A a \in full : a <= b
                 made == [c EXCEPT ![bits] = @ - 1]
                 two  == [made EXCEPT ![bits + 1] = @ + 2]
             IN  IF full = {} THEN c ELSE [two EXCEPT ![Cap] = @ - 1]
  IN  r[overflow]

\* MUTANT: what is too deep is cut off, and nothing moved.
LimitedOnly(depths) == [s \in DOMAIN depths |-> Capped(depths[s], Cap)]

\* limit_code_lengths: the longest of the new lengths go to the symbols that
\* were deepest, the earlier symbol first.
Limited(depths) ==
  LET used   == {s \in DOMAIN depths : depths[s] > 0}
      capped == [s \in DOMAIN depths |-> Capped(depths[s], Cap)]
      counts == Redistributed([l \in 1..Cap |-> CountOf(capped, used, l)],
                              Cardinality({s \in used : depths[s] > Cap}))
      rank(s) == Cardinality({t \in used : capped[t] > capped[s] \/ (capped[t] = capped[s] /\ t <= s)})
      upTo[l \in 1..Cap + 1] == IF l = Cap + 1 THEN 0 ELSE upTo[l + 1] + counts[l]
      fits(s) == {l \in 1..Cap : upTo[l] >= rank(s)}
  IN  IF \A s \in used : depths[s] <= Cap THEN depths
      ELSE [s \in DOMAIN depths |->
              IF s \notin used THEN 0
              ELSE IF fits(s) = {} THEN capped[s]
              ELSE CHOOSE l \in fits(s) : \A m \in fits(s) : m <= l]

\* One symbol alone has a code of one bit.
CodeLengths(freqs) ==
  LET used == Used(freqs)
  IN  IF Cardinality(used) <= 1 THEN [s \in DOMAIN freqs |-> IF s \in used THEN 1 ELSE 0]
      ELSE Limited(TreeDepths(freqs))

---------------------------------------------------------------------------
(* canonical_codes, lengths_are_prefix_free                                *)

\* MUTANT: a shorter code is not followed by a bit.
CanonicalUnshifted(lengths) ==
  [s \in DOMAIN lengths |->
     [len |-> lengths[s], bits |-> Cardinality({t \in DOMAIN lengths :
        lengths[t] > 0 /\ (lengths[t] < lengths[s] \/ (lengths[t] = lengths[s] /\ t < s))})]]

Canonical(lengths) ==
  LET first[l \in 0..Cap] ==
        IF l = 0 THEN 0
        ELSE 2 * (first[l - 1] + IF l = 1 THEN 0 ELSE CountOf(lengths, DOMAIN lengths, l - 1))
  IN  [s \in DOMAIN lengths |->
         [len  |-> lengths[s],
          bits |-> IF lengths[s] = 0 THEN 0
                   ELSE first[lengths[s]]
                        + Cardinality({t \in DOMAIN lengths : t < s /\ lengths[t] = lengths[s]})]]

\* MUTANT: one code too many is let in.
PrefixFreeAlmost(lengths) ==
  LET weight[l \in 0..Cap] ==
        IF l = 0 THEN 0 ELSE weight[l - 1] + CountOf(lengths, DOMAIN lengths, l) * 2^(Cap - l)
  IN  (\A s \in DOMAIN lengths : lengths[s] <= Cap) /\ weight[Cap] <= 2^Cap + 1

PrefixFree(lengths) ==
  LET weight[l \in 0..Cap] ==
        IF l = 0 THEN 0 ELSE weight[l - 1] + CountOf(lengths, DOMAIN lengths, l) * 2^(Cap - l)
  IN  (\A s \in DOMAIN lengths : lengths[s] <= Cap) /\ weight[Cap] <= 2^Cap

---------------------------------------------------------------------------
(* reverse_bits, BitWriter, BitReader, build_decode_table                  *)

\* A code's bits, the highest first, as a stream has them; of a number that
\* needs more than its length the lowest ones.
BitsOf(code) == [i \in 1..code.len |-> (code.bits \div 2^(code.len - i)) % 2]

\* reverse_bits, write_code: a number whose lowest bit is the code's highest.
AsField(code) ==
  LET sum[i \in 0..code.len] ==
        IF i = 0 THEN 0 ELSE sum[i - 1] + BitsOf(code)[i] * 2^(i - 1)
  IN  [value |-> sum[code.len], count |-> code.len]

Ones(value) == {i \in 0..24 : 2^i <= value /\ (value \div 2^i) % 2 = 1}

\* write_bits, finish: the fields one after the other, padded to whole bytes.
\* A value is or-ed in at its place whatever its length is said to be.
Written(fields) ==
  LET from[k \in 0..Len(fields)] == IF k = 0 THEN 0 ELSE from[k - 1] + fields[k].count
      ones == UNION {{from[k - 1] + i + 1 : i \in Ones(fields[k].value)} : k \in DOMAIN fields}
      size == ((from[Len(fields)] + 7) \div 8) * 8
  IN  [i \in 1..size |-> IF i \in ones THEN 1 ELSE 0]

\* read_bits: past the end there are zeros.
ReadBits(bits, pos, count) ==
  LET at(i) == IF pos + i <= Len(bits) THEN bits[pos + i] ELSE 0
      sum[i \in 0..count] == IF i = 0 THEN 0 ELSE sum[i - 1] + at(i - 1) * 2^(i - 1)
  IN  sum[count]

\* A symbol's code is what comes next, the padding of the table included.
Begins(bits, pos, code) ==
  /\ code.len > 0
  /\ \A i \in 1..code.len :
       BitsOf(code)[i] = IF pos + i - 1 <= Len(bits) THEN bits[pos + i - 1] ELSE 0

NoSymbol == -1

\* build_decode_table, read_huffman_checked: of codes that overlap the later
\* symbol's entry stays; none, or one running past the end, is no symbol.
ReadSymbol(bits, pos, codes) ==
  LET found == {s \in DOMAIN codes : Begins(bits, pos, codes[s])}
      last  == CHOOSE s \in found : \A t \in found : t <= s
  IN  IF found = {} \/ pos + codes[last].len - 1 > Len(bits) THEN NoSymbol ELSE last

---------------------------------------------------------------------------
None == [lengths |-> << >>, codes |-> << >>]

Build ==
  /\ data.source = "frequencies" /\ enc = None
  /\ LET lengths == CodeLengths(data.values)
     IN  enc' = [lengths |-> lengths, codes |-> Canonical(lengths)]
  /\ UNCHANGED <<data, dec>>

\* A header's lengths are used when they can be a code at all.
Accept ==
  /\ data.source = "header" /\ enc = None
  /\ PrefixFree(data.values)
  /\ enc' = [lengths |-> data.values, codes |-> Canonical(data.values)]
  /\ UNCHANGED <<data, dec>>

Windows == [1..Cap -> {0, 1}] \cup [1..1 -> {0, 1}]

LookUp(bits) ==
  /\ enc # None /\ dec = << >>
  /\ dec' = [bits |-> bits, symbol |-> ReadSymbol(bits, 1, enc.codes)]
  /\ UNCHANGED <<data, enc>>

Init ==
  /\ data \in [source : {"frequencies"}, values : Freqs] \cup [source : {"header"}, values : Headers]
  /\ enc = None /\ dec = << >>

Next == Build \/ Accept \/ \E bits \in Windows : LookUp(bits)
Spec == Init /\ [][Next]_vars

---------------------------------------------------------------------------
\* What the encoder builds fits in a header and is accepted by the decoder's
\* check, has a code for every symbol that occurs and for no other, and gives
\* no symbol a longer code than a rarer one (limit_code_lengths included).
CodesSound ==
  data.source = "frequencies" /\ enc # None =>
    /\ PrefixFree(enc.lengths)
    /\ \A s \in DOMAIN data.values : enc.lengths[s] > 0 <=> data.values[s] > 0
    /\ \A s, t \in Used(data.values) : data.values[s] > data.values[t] => enc.lengths[s] <= enc.lengths[t]

\* The sum of lengths_are_prefix_free lets in those headers whose canonical
\* codes really begin none of each other, and no more.
KraftIsPrefixFree ==
  data.source = "header" =>
    LET codes == Canonical(data.values)
        used  == {s \in DOMAIN codes : codes[s].len > 0}
    IN  PrefixFree(data.values) <=>
          \A s, t \in used : s # t => ~Begins(BitsOf(codes[s]), 1, codes[t])
                                      \/ codes[t].len > codes[s].len

\* Bits mean the one symbol whose code they begin with, or none at all.
LookupFindsCode ==
  dec # << >> =>
    LET found == {s \in DOMAIN enc.codes : /\ enc.lengths[s] \in 1..Len(dec.bits)
                                           /\ BitsOf(enc.codes[s]) = SubSeq(dec.bits, 1, enc.lengths[s])}
    IN  IF found = {} THEN dec.symbol = NoSymbol ELSE found = {dec.symbol}
=============================================================================
