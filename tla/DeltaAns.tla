------------------------------ MODULE DeltaAns ------------------------------
(***************************************************************************)
(* The delta codec (src/codecs/delta_ans.rs): a block becomes differences, *)
(* the differences are dealt to lanes, and each lane is coded by rANS with *)
(* a table both sides make from the lane's counts.  Which difference gives *)
(* the least entropy is left open.                                         *)
(***************************************************************************)
EXTENDS Rans

CONSTANTS
  Blocks,     \* what is encoded: rows of bytes
  ByteBits,   \* bits of a byte: 8
  Lanes,      \* NUM_LANES
  Losses      \* how many bytes may be missing from the end of a lane

VARIABLES
  data,  \* the block
  enc,   \* [status, delta, lane, left, coder, lanes]: lanes as written
  dec    \* [status, lane, coder, out, lanes]: lanes as read

vars == <<data, enc, dec>>

Byte == 0 .. Base - 1

---------------------------------------------------------------------------
(* Differences                                                             *)

BitXor(a, b) ==
  LET x[i \in 0..ByteBits] ==
        IF i = 0 THEN 0 ELSE x[i - 1] + 2^(i - 1) * ((a \div 2^(i - 1) + b \div 2^(i - 1)) % 2)
  IN  x[ByteBits]

Deltas == 0..4
StrideOf(delta) == IF delta = 2 THEN 2 ELSE IF delta = 3 THEN 4 ELSE 1

\* xor_delta_stride, arith_delta
Residual(text, delta) ==
  LET s == StrideOf(delta)
  IN  [i \in DOMAIN text |->
         IF delta = 4 \/ i <= s THEN text[i]
         ELSE IF delta = 1 THEN (text[i] - text[i - 1]) % Base
         ELSE BitXor(text[i], text[i - s])]

\* MUTANT: differences are undone with the differences before them.
RestoredFlat(residual, delta) ==
  LET s == StrideOf(delta)
  IN  [i \in DOMAIN residual |->
         IF delta = 4 \/ i <= s THEN residual[i]
         ELSE IF delta = 1 THEN (residual[i] + residual[i - 1]) % Base
         ELSE BitXor(residual[i], residual[i - s])]

\* Their inverses, from the bytes already restored.
Restored(residual, delta) ==
  LET s == StrideOf(delta)
      r[n \in 0..Len(residual)] ==
        IF n = 0 THEN << >>
        ELSE LET out == r[n - 1]
             IN  Append(out, IF delta = 4 \/ n <= s THEN residual[n]
                             ELSE IF delta = 1 THEN (residual[n] + out[n - 1]) % Base
                             ELSE BitXor(residual[n], out[n - s]))
  IN  r[Len(residual)]

\* split_lanes, merge_lanes
LaneOf(text, lane) ==
  [k \in 1 .. (Len(text) + Lanes - lane) \div Lanes |-> text[(k - 1) * Lanes + lane]]
Merged(lanes, n) == [i \in 1..n |-> lanes[((i - 1) % Lanes) + 1][(i - 1) \div Lanes + 1]]

CountsOf(text) == [b \in Byte |-> Cardinality({i \in DOMAIN text : text[i] = b})]

---------------------------------------------------------------------------
(* delta_ans_encode: a lane is coded from its last symbol to its first     *)

Symbols == LaneOf(Residual(data, enc.delta), enc.lane)
Freqs   == Normalized(CountsOf(Symbols))

Choose ==
  /\ enc.status = "start" /\ data # << >>
  /\ \E d \in Deltas :
       enc' = [enc EXCEPT !.status = "lane", !.delta = d, !.left = Len(LaneOf(data, 1))]
  /\ UNCHANGED <<data, dec>>

EncodeSymbol ==
  /\ enc.status = "lane" /\ enc.left > 0
  /\ enc' = [enc EXCEPT !.coder = Put(@, Freqs, Symbols[enc.left]), !.left = @ - 1]
  /\ UNCHANGED <<data, dec>>

\* An empty lane has no bytes; another ends with the coder's state.
EndLane ==
  /\ enc.status = "lane" /\ enc.left = 0
  /\ enc' = [enc EXCEPT
       !.lanes = Append(@, [count |-> Len(Symbols), counts |-> CountsOf(Symbols),
                            bytes |-> IF Symbols = << >> THEN << >> ELSE Finished(enc.coder)]),
       !.coder = NewEncoder, !.lane = @ + 1,
       !.left = IF enc.lane = Lanes THEN 0 ELSE Len(LaneOf(data, enc.lane + 1)),
       !.status = IF enc.lane = Lanes THEN "done" ELSE "lane"]
  /\ UNCHANGED <<data, dec>>

EncodeNothing ==
  /\ enc.status = "start" /\ data = << >>
  /\ enc' = [enc EXCEPT !.status = "done"]
  /\ UNCHANGED <<data, dec>>

---------------------------------------------------------------------------
(* delta_ans_decode                                                        *)

Lane == enc.lanes[dec.lane]
Bytes == SubSeq(Lane.bytes, 1, Len(Lane.bytes) - dec.lost)

\* The payload as it was written, or cut short inside its first lane.
Open ==
  /\ enc.status = "done" /\ dec.status = "start"
  /\ IF data = << >> THEN dec' = [dec EXCEPT !.status = "done"]
     ELSE \E lost \in {n \in Losses : n <= Len(enc.lanes[1].bytes)} :
            dec' = [dec EXCEPT !.status = "lane", !.lost = lost]
  /\ UNCHANGED <<data, enc>>

Begin ==
  /\ dec.status = "lane"
  /\ dec' = IF dec.lane > Lanes THEN [dec EXCEPT !.status = "merge"]
            ELSE IF Lane.count = 0 THEN [dec EXCEPT !.lanes = Append(@, << >>), !.lane = @ + 1]
            ELSE IF ~Sums(Normalized(Lane.counts)) \/ Len(Bytes) < FlushBytes THEN [dec EXCEPT !.status = "error"]
            ELSE [dec EXCEPT !.status = "symbols", !.out = << >>, !.coder = NewDecoder(Bytes)]
  /\ UNCHANGED <<data, enc>>

DecodeSymbol ==
  /\ dec.status = "symbols" /\ Len(dec.out) < Lane.count
  /\ LET t == Taken(dec.coder, Normalized(Lane.counts), Bytes)
     IN  dec' = IF t.dec.ok THEN [dec EXCEPT !.coder = t.dec, !.out = Append(@, t.symbol)]
                ELSE [dec EXCEPT !.status = "error"]
  /\ UNCHANGED <<data, enc>>

KeepLane ==
  /\ dec.status = "symbols" /\ Len(dec.out) = Lane.count
  /\ dec' = [dec EXCEPT !.status = "lane", !.lanes = Append(@, dec.out), !.lane = @ + 1, !.lost = 0]
  /\ UNCHANGED <<data, enc>>

Merge ==
  /\ dec.status = "merge"
  /\ dec' = [dec EXCEPT !.status = "done", !.out = Restored(Merged(dec.lanes, Len(data)), enc.delta)]
  /\ UNCHANGED <<data, enc>>

Init ==
  /\ data \in Blocks
  /\ enc = [status |-> "start", delta |-> 0, lane |-> 1, left |-> 0, coder |-> NewEncoder, lanes |-> << >>]
  /\ dec = [status |-> "start", lane |-> 1, lost |-> 0, out |-> << >>, lanes |-> << >>,
            coder |-> [state |-> 0, pos |-> 0, ok |-> TRUE]]

Next == Choose \/ EncodeSymbol \/ EndLane \/ EncodeNothing \/ Open \/ Begin \/ DecodeSymbol \/ KeepLane \/ Merge
Spec == Init /\ [][Next]_vars

---------------------------------------------------------------------------
\* The block comes back, and a lane is used up to its last byte and back to
\* the state it began from, so that one that was cut short is an error.
RoundTrip ==
  /\ dec.status = "done" => dec.out = data
  /\ dec.status = "symbols" /\ Len(dec.out) = Lane.count =>
       dec.lost = 0 /\ dec.coder.pos = Len(Bytes) /\ dec.coder.state = Low
  /\ dec.status = "error" => dec.lost > 0

\* Between two symbols either coder's state has its place in the interval that
\* both renormalisations keep it in (encode_symbol, decode_symbol).
StatesInterval ==
  /\ enc.coder.state \in Low .. Base * Low - 1
  /\ dec.status = "symbols" => dec.coder.state \in Low .. Base * Low - 1

\* Counts become shares of exactly Total slots, a symbol that occurs has one,
\* and one that does not has none (normalize_freqs).
SharesSound ==
  enc.status = "lane" =>
    LET sound(freqs) ==
          /\ SumOver(freqs, Base) = Total
          /\ \A b \in Byte : freqs[b] > 0 <=> (Symbols = << >> \/ \E i \in DOMAIN Symbols : Symbols[i] = b)
    IN  sound(Freqs)
=============================================================================
