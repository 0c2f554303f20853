-------------------------------- MODULE Rans --------------------------------
(***************************************************************************)
(* The rANS coder and the tables it codes with (src/entropy/mod.rs).  A    *)
(* table gives every symbol a share of Total slots; the coder's state is   *)
(* one number, kept between Low and Base * Low by bytes put out and taken  *)
(* in.                                                                     *)
(***************************************************************************)
EXTENDS Integers, Sequences, FiniteSets

CONSTANTS
  Total,      \* TOTAL: slots of a table, 4096
  Base,       \* values of a byte: 256
  FlushBytes  \* bytes the last state is written in: 8

Low == Total * Base       \* RANS_L

MaxOf(a, b) == IF a > b THEN a ELSE b
MinOf(a, b) == IF a < b THEN a ELSE b
SumOver(f, n) == LET s[k \in 0..n] == IF k = 0 THEN 0 ELSE s[k - 1] + f[k - 1] IN s[n]

---------------------------------------------------------------------------
(* normalize_freqs: counts of the symbols 0 .. n - 1                       *)

Counted(counts) == {s \in DOMAIN counts : counts[s] > 0}

Proportional(counts, sum) ==
  [s \in DOMAIN counts |-> IF counts[s] = 0 THEN 0 ELSE MaxOf((counts[s] * Total) \div sum, 1)]
Fraction(counts, sum) == [s \in DOMAIN counts |-> (counts[s] * Total) % sum]

\* How many of S come before s when sorted by key, and by symbol where keys tie.
Rank(S, s, key) == Cardinality({t \in S : key[t] < key[s] \/ (key[t] = key[s] /\ t < s)})

\* What is left over goes to the largest fractions.
Distributed(freqs, counts, frac, left) ==
  LET key == [s \in DOMAIN frac |-> 0 - frac[s]]
      C   == Counted(counts)
  IN  [s \in DOMAIN freqs |-> IF s \in C /\ Rank(C, s, key) < left THEN freqs[s] + 1 ELSE freqs[s]]

\* MUTANT: symbols may be left without a slot.
ReclaimedAll(freqs, frac, excess) ==
  LET S == DOMAIN freqs
      pass(f, over) ==
        LET can == {s \in S : f[s] > 0}
        IN  [s \in DOMAIN f |-> IF s \in can /\ Rank(can, s, frac) < over THEN f[s] - 1 ELSE f[s]]
      r[k \in 0..excess] == IF k = 0 THEN freqs
                            ELSE LET f == r[k - 1] IN pass(f, SumOver(f, Cardinality(S)) - Total)
  IN  r[excess]

\* What is too much comes from the smallest fractions, one slot of each in a
\* pass, and as many passes as it takes.
Reclaimed(freqs, frac, excess) ==
  LET S == DOMAIN freqs
      pass(f, over) ==
        LET can == {s \in S : f[s] > 1}
        IN  [s \in DOMAIN f |-> IF s \in can /\ Rank(can, s, frac) < over THEN f[s] - 1 ELSE f[s]]
      r[k \in 0..excess] == IF k = 0 THEN freqs
                            ELSE LET f == r[k - 1] IN pass(f, SumOver(f, Cardinality(S)) - Total)
  IN  r[excess]

Uniform(n) == [s \in 0..n-1 |-> Total \div n + IF s < Total % n THEN 1 ELSE 0]

\* normalize_with, ties pinned
Normalized(counts) ==
  LET n == Cardinality(DOMAIN counts)
      of(sum, freqs, frac) ==
        LET given == SumOver(freqs, n)
        IN  IF given < Total THEN Distributed(freqs, counts, frac, Total - given)
            ELSE Reclaimed(freqs, frac, given - Total)
      with(sum) == IF sum = 0 THEN Uniform(n) ELSE of(sum, Proportional(counts, sum), Fraction(counts, sum))
  IN  with(SumOver(counts, n))

---------------------------------------------------------------------------
(* The coder                                                               *)

\* build_table, build_decode_table
Cumul(freqs, s) == SumOver(freqs, s)
Sums(freqs) == SumOver(freqs, Cardinality(DOMAIN freqs)) = Total
SymbolAt(freqs, slot) ==
  CHOOSE s \in DOMAIN freqs : Cumul(freqs, s) <= slot /\ slot < Cumul(freqs, s) + freqs[s]

\* C(x) and its inverse, for a symbol of that share from cumul on.
Coded(x, freq, cumul) == (x \div freq) * Total + cumul + (x % freq)
Uncoded(x, freq, cumul) == freq * (x \div Total) + (x % Total) - cumul

\* MUTANT: a byte is put out one too late.
RenormalizedLate(state, out, freq) ==
  LET r[k \in 0..FlushBytes] ==
        IF k = 0 THEN [state |-> state, out |-> out]
        ELSE LET s == r[k - 1]
             IN  IF s.state <= Base * Base * freq THEN s
                 ELSE [state |-> s.state \div Base, out |-> Append(s.out, s.state % Base)]
  IN  r[FlushBytes]

\* Bytes are put out until the symbol fits.
Renormalized(state, out, freq) ==
  LET r[k \in 0..FlushBytes] ==
        IF k = 0 THEN [state |-> state, out |-> out]
        ELSE LET s == r[k - 1]
             IN  IF s.state < Base * Base * freq THEN s
                 ELSE [state |-> s.state \div Base, out |-> Append(s.out, s.state % Base)]
  IN  r[FlushBytes]

\* encode_symbol
Put(enc, freqs, s) ==
  LET ready == Renormalized(enc.state, enc.out, freqs[s])
  IN  [state |-> Coded(ready.state, freqs[s], Cumul(freqs, s)), out |-> ready.out]

Backwards(f) == [i \in DOMAIN f |-> f[Len(f) + 1 - i]]

\* finish: the state behind the bytes, and all of them reversed.
Finished(enc) ==
  Backwards(enc.out \o [i \in 1..FlushBytes |-> (enc.state \div Base^(i - 1)) % Base])

NewEncoder == [state |-> Low, out |-> << >>]

\* RansDecoder::new, of FlushBytes bytes or more
NewDecoder(bytes) ==
  LET x[i \in 0..FlushBytes] == IF i = 0 THEN 0 ELSE x[i - 1] * Base + bytes[i]
  IN  [state |-> x[FlushBytes], pos |-> FlushBytes, ok |-> TRUE]

\* Bytes are taken in until the state is no longer low, or none are left.
Refilled(dec, bytes) ==
  LET r[k \in 0..FlushBytes] ==
        IF k = 0 THEN dec
        ELSE LET d == r[k - 1]
             IN  IF d.state >= Low \/ ~d.ok THEN d
                 ELSE IF d.pos >= Len(bytes) THEN [d EXCEPT !.ok = FALSE]
                 ELSE [d EXCEPT !.state = @ * Base + bytes[d.pos + 1], !.pos = @ + 1]
  IN  r[FlushBytes]

\* decode_symbol: the symbol that owns the slot, and the decoder after it.
Taken(dec, freqs, bytes) ==
  LET s == SymbolAt(freqs, dec.state % Total)
  IN  [symbol |-> s,
       dec |-> Refilled([dec EXCEPT !.state = Uncoded(@, freqs[s], Cumul(freqs, s))], bytes)]
=============================================================================
