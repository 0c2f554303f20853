------------------------------ MODULE OrderOne ------------------------------
(***************************************************************************)
(* A byte coded by the byte before it (src/context_model.rs), with tables  *)
(* whose sums are exact, and the split of a stream by the colour its bytes *)
(* have on a chessboard (src/ajedrez.rs).                                  *)
(***************************************************************************)
EXTENDS Rans, SequencesExt

CONSTANTS
  Streams,   \* what is coded, none empty
  Boards,    \* what is split: [kind, bytes, width]
  Damages    \* what may happen to a model or a payload: "none", and others

VARIABLES
  data,  \* the stream or board
  enc,   \* [status, left, coder, bytes]; of a board, its two streams
  dec    \* [status, tables, coder, out, damage]

vars == <<data, enc, dec>>

Byte == 0 .. Base - 1

---------------------------------------------------------------------------
(* build_freq_table_from_counts, build_freq_table                          *)

\* MUTANT: what is left over is not handed out.
FromCountsFloor(counts) ==
  LET used == Counted(counts)
      rest == Total - Cardinality(used)
      sum  == SumOver(counts, Base)
  IN  IF used = {} THEN Uniform(Base)
      ELSE [s \in DOMAIN counts |-> IF s \in used THEN 1 + (counts[s] * rest) \div sum ELSE 0]

\* One slot for each symbol that occurs, the rest in proportion.
FromCounts(counts) ==
  LET used == Counted(counts)
      rest == Total - Cardinality(used)
      sum  == SumOver(counts, Base)
      freqs == [s \in DOMAIN counts |-> IF s \in used THEN 1 + (counts[s] * rest) \div sum ELSE 0]
      frac  == [s \in DOMAIN counts |-> (counts[s] * rest) % sum]
  IN  IF used = {} THEN Uniform(Base)
      ELSE Distributed(freqs, counts, frac, Total - SumOver(freqs, Base))

\* MUTANT: a symbol may give its only slot away.
ReclaimedAny(freqs, frac, excess) ==
  [s \in DOMAIN freqs |->
     IF freqs[s] > 0 /\ Rank({t \in DOMAIN freqs : freqs[t] > 0}, s, frac) < excess THEN freqs[s] - 1 ELSE freqs[s]]

\* What is too much comes from symbols with more than one slot, in one pass.
ReclaimedOnce(freqs, frac, excess) ==
  LET can == {s \in DOMAIN freqs : freqs[s] > 1}
  IN  [s \in DOMAIN freqs |-> IF s \in can /\ Rank(can, s, frac) < excess THEN freqs[s] - 1 ELSE freqs[s]]

FreqTable(counts) ==
  LET sum   == SumOver(counts, Base)
      given(freqs, frac) ==
        LET all == SumOver(freqs, Base)
        IN  IF all < Total THEN Distributed(freqs, counts, frac, Total - all)
            ELSE ReclaimedOnce(freqs, frac, all - Total)
  IN  IF sum = 0 THEN Uniform(Base) ELSE given(Proportional(counts, sum), Fraction(counts, sum))

---------------------------------------------------------------------------
(* split, merge: the colour of the field at i, from 0                      *)

Width(board) == IF board.width = 0 THEN 1 ELSE board.width
\* MUTANT: rows all begin with the same colour.
WhiteStripes(board, i) == (i % Width(board)) % 2 = 0

White(board, i) == (i \div Width(board) + (i % Width(board))) % 2 = 0
Inverted(b) == Base - 1 - b

Side(board, colour) ==
  FlattenSeq([i \in DOMAIN board.bytes |->
    IF White(board, i - 1) # colour THEN << >>
    ELSE <<IF colour THEN board.bytes[i] ELSE Inverted(board.bytes[i])>>])

Split ==
  /\ data.kind = "board" /\ enc.status = "start"
  /\ enc' = [status |-> "split", p |-> Side(data, TRUE), i |-> Side(data, FALSE)]
  /\ UNCHANGED <<data, dec>>

\* The next of the stream of each field's colour.
Merged(board, p, i, n) ==
  LET upTo(k) == Cardinality({j \in 0 .. k - 1 : White(board, j)})
  IN  [k \in 1..n |-> IF White(board, k - 1) THEN p[upTo(k)] ELSE Inverted(i[k - upTo(k)])]

Merge ==
  /\ data.kind = "board" /\ enc.status = "split" /\ dec.status = "start"
  /\ dec' = [dec EXCEPT !.status = "done", !.out = Merged(data, enc.p, enc.i, Len(data.bytes))]
  /\ UNCHANGED <<data, enc>>

---------------------------------------------------------------------------
(* ContextModel: train, encode                                             *)

\* The byte before the one at i; before the first it is zero.
Context(bytes, i) == IF i = 1 THEN 0 ELSE bytes[i - 1]

Counts(bytes, ctx) ==
  [b \in Byte |-> Cardinality({i \in DOMAIN bytes : bytes[i] = b /\ Context(bytes, i) = ctx})]
Trained(bytes) == [ctx \in Byte |-> FromCounts(Counts(bytes, ctx))]

\* MUTANT: from the first byte to the last.
EncodeByteForward ==
  /\ data.kind = "stream" /\ enc.status = "start" /\ enc.left > 0
  /\ LET at == Len(data.bytes) + 1 - enc.left
     IN  enc' = [enc EXCEPT !.left = @ - 1, !.coder = Put(@, enc.tables[Context(data.bytes, at)], data.bytes[at])]
  /\ UNCHANGED <<data, dec>>

\* From the last byte to the first, each with the table of the one before.
EncodeByte ==
  /\ data.kind = "stream" /\ enc.status = "start" /\ enc.left > 0
  /\ enc' = [enc EXCEPT !.left = @ - 1,
                        !.coder = Put(@, enc.tables[Context(data.bytes, enc.left)], data.bytes[enc.left])]
  /\ UNCHANGED <<data, dec>>

EncodeEnd ==
  /\ data.kind = "stream" /\ enc.status = "start" /\ enc.left = 0
  /\ enc' = [enc EXCEPT !.status = "done", !.bytes = Finished(enc.coder)]
  /\ UNCHANGED <<data, dec>>

---------------------------------------------------------------------------
(* serialize_model, deserialize_model: a share is two bytes, low one first *)

Serialized(tables) ==
  FlattenSeq([k \in 1 .. Base * Base |->
    LET freq == tables[(k - 1) \div Base][(k - 1) % Base] IN <<freq % Base, (freq \div Base) % Base>>])

Deserialized(bytes) ==
  [ctx \in Byte |-> [s \in Byte |-> LET k == 2 * (ctx * Base + s) IN bytes[k + 1] + Base * bytes[k + 2]]]

\* The model as it was written, one byte short, or with a share that grew.
ModelBytes(damage) ==
  LET b == Serialized(enc.tables)
  IN  CASE damage = "short"  -> Front(b)
        [] damage = "raised" -> [b EXCEPT ![1] = (@ + 1) % Base]
        [] OTHER             -> b

\* A model that is too short, or with a row that does not add up, is refused;
\* so is a payload too short to hold a state.
Load ==
  /\ data.kind = "stream" /\ enc.status = "done" /\ dec.status = "start"
  /\ \E damage \in Damages :
       LET model  == ModelBytes(damage)
           bytes  == IF damage = "cut" THEN Front(enc.bytes) ELSE enc.bytes
           tables == Deserialized(model)
       IN  dec' = IF \/ Len(model) < 2 * Base * Base
                     \/ \E ctx \in Byte : ~Sums(tables[ctx])
                     \/ Len(bytes) < FlushBytes
                  THEN [dec EXCEPT !.status = "error", !.damage = damage]
                  ELSE [dec EXCEPT !.status = "run", !.damage = damage, !.tables = tables, !.coder = NewDecoder(bytes)]
  /\ UNCHANGED <<data, enc>>

\* decode: forward, each byte the context of the next.
DecodeByte ==
  /\ dec.status = "run" /\ Len(dec.out) < Len(data.bytes)
  /\ LET ctx == IF dec.out = << >> THEN 0 ELSE Last(dec.out)
         bytes == IF dec.damage = "cut" THEN Front(enc.bytes) ELSE enc.bytes
         t == Taken(dec.coder, dec.tables[ctx], bytes)
     IN  dec' = IF t.dec.ok THEN [dec EXCEPT !.coder = t.dec, !.out = Append(@, t.symbol)]
                ELSE [dec EXCEPT !.status = "error"]
  /\ UNCHANGED <<data, enc>>

DecodeEnd ==
  /\ dec.status = "run" /\ Len(dec.out) = Len(data.bytes)
  /\ dec' = [dec EXCEPT !.status = "done"]
  /\ UNCHANGED <<data, enc>>

Init ==
  /\ \/ /\ data \in [kind : {"stream"}, bytes : Streams]
        /\ enc = [status |-> "start", tables |-> Trained(data.bytes), left |-> Len(data.bytes),
                  coder |-> NewEncoder, bytes |-> << >>]
     \/ /\ data \in Boards
        /\ enc = [status |-> "start"]
  /\ dec = [status |-> "start", tables |-> << >>, coder |-> NewEncoder, out |-> << >>, damage |-> "none"]

Next == Split \/ Merge \/ EncodeByte \/ EncodeEnd \/ Load \/ DecodeByte \/ DecodeEnd
Spec == Init /\ [][Next]_vars

---------------------------------------------------------------------------
\* What was split or coded comes back; a decoder of a whole payload ends at its
\* last byte in the state the encoder began from, and only one of a payload or
\* model that was damaged is an error.
RoundTrip ==
  /\ dec.status = "done" => dec.out = data.bytes
  /\ dec.status = "done" /\ data.kind = "stream" => dec.coder.pos = Len(enc.bytes) /\ dec.coder.state = Low
  /\ dec.status = "error" => dec.damage # "none"
  /\ enc.status = "split" => Len(enc.p) - Len(enc.i) \in {-1, 0, 1}

\* Every row adds up to Total, with a slot for each byte that follows that
\* context and, where any does, for no other (build_freq_table_from_counts).
RowsSound ==
  data.kind = "stream" /\ enc.left = Len(data.bytes) =>
    \A ctx \in Byte :
      LET counts == Counts(data.bytes, ctx)
      IN  /\ Sums(enc.tables[ctx])
          /\ \A b \in Byte : enc.tables[ctx][b] > 0 <=> (counts[b] > 0 \/ Counted(counts) = {})

\* The other table gives each byte that occurs a slot, and no other, and adds up
\* to Total wherever one pass can take back what is too many: one slot of each
\* byte that has more than one.  What such a pass leaves is left over
\* (build_freq_table): FreqTableSums does not hold there.
FreqTableNear ==
  data.kind = "stream" /\ enc.left = Len(data.bytes) =>
    LET counts == [b \in Byte |-> Cardinality({i \in DOMAIN data.bytes : data.bytes[i] = b})]
        scaled == Proportional(counts, Len(data.bytes))
        near(freqs, over, can) ==
          /\ \A b \in Byte : freqs[b] > 0 <=> counts[b] > 0
          /\ SumOver(freqs, Base) = Total + MaxOf(over - can, 0)
    IN  near(FreqTable(counts), SumOver(scaled, Base) - Total, Cardinality({b \in Byte : scaled[b] > 1}))

\* "Suma exactamente 4096" (ajedrez.rs, build_freq_table and its test): the table
\* of any stream that is not empty adds up to Total.
FreqTableSums ==
  data.kind = "stream" /\ data.bytes # << >> =>
    SumOver(FreqTable([b \in Byte |-> Cardinality({i \in DOMAIN data.bytes : data.bytes[i] = b})]), Base) = Total
=============================================================================
