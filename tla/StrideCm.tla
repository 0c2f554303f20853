------------------------------ MODULE StrideCm ------------------------------
(***************************************************************************)
(* The stride-aware context-mixing codec (src/codecs/stride_cm.rs).  Each  *)
(* bit is predicted by counters under several contexts, mixed by trained   *)
(* weights and refined; the coder itself is CarrylessCoder, here a log of  *)
(* [p, bit] that gives another bit when asked with another p.  Counters    *)
(* are in one map, keyed by the table they are in and their place there;   *)
(* one that was never told anything is at its initial value.               *)
(***************************************************************************)
EXTENDS Integers, Sequences, FiniteSets

CONSTANTS
  Blocks,        \* what is coded: rows of bytes
  Masks,         \* sets of models: encode() tries two, encode_with() takes any
  Hostile,       \* headers no encoder made: [declared, stride, record, models]
  ByteBits,      \* bits of a byte: 8
  Strides,       \* STRIDES
  StrideSlack,   \* bytes a sample has besides four elements: 64
  MaxLen,        \* MAX_LEN
  MaxRecord,     \* MAX_RECORD
  RecordStep,    \* detect_record compares every 97th byte,
  RecordSample,  \* 8192 of them at most,
  RecordLeast,   \* 64 at least
  MatchMin,      \* MATCH_MIN
  SlotBits,      \* bits of a counter's probability: 22
  SlotLimit,     \* SLOT_LIMIT
  Phases,        \* PHASES
  TableSize, Spread, Hash(_, _)  \* hashed table: its size, the factor of c0, hash(tag, bytes)

VARIABLES
  data,     \* the block
  payload,  \* header, and whether an encoder made it
  enc,      \* encoder: bytes done, whether one is begun, model, log
  dec       \* decoder: status, output, the byte begun, model, bits read

vars == <<data, payload, enc, dec>>

MaxInputs == 16
AllModels == {"column", "linear", "delta", "plane", "bits", "match"}
Byte == 0 .. 2^ByteBits - 1
Mod(n) == n % 2^ByteBits
Clamp(n, lo, hi) == IF n < lo THEN lo ELSE IF n > hi THEN hi ELSE n
Distance(a, b) == IF a > b THEN a - b ELSE b - a

---------------------------------------------------------------------------
(* Logistic helpers                                                        *)

T == <<1, 2, 3, 6, 10, 16, 27, 45, 73, 120, 194, 310, 488, 747, 1101, 1546, 2047, 2549, 2994, 3348,
       3607, 3785, 3901, 3975, 4022, 4050, 4068, 4079, 4085, 4089, 4092, 4093, 4094>>

Squash(d) ==
  LET i == (d \div 128) + 17
      w == d % 128
  IN  IF d > 2047 THEN 4095 ELSE IF d < -2047 THEN 1
      ELSE (T[i] * (128 - w) + T[i + 1] * w + 64) \div 128

\* The least d that squashes to p or more: by the step of T that p is in, and
\* the first of its 128 parts.
Stretch(p) ==
  LET i == CHOOSE i \in 1..32 : p <= T[i + 1] /\ (i = 1 \/ T[i] < p)
      up == T[i + 1] - T[i]
      d == 128 * (i - 17) + (128 * (p - T[i]) - 64 + up - 1) \div up
  IN  IF p > T[33] THEN 2047 ELSE Clamp(d, -2047, 2047)

\* MUTANT: the first step of a counter goes past what it saw.
RateHasty(n) == 131072 \div (2 * n + 1)

\* rate: 1 / (n + 1.5)
Rate(n) == 131072 \div (2 * n + 3)

SlotInit == [p |-> 2^(SlotBits - 1), n |-> 0]
P12(slot) == slot.p \div 2^(SlotBits - 12)

\* slot_update
SlotTold(slot, bit) ==
  [p |-> slot.p + (((2^SlotBits - 1) * bit - slot.p) * Rate(slot.n)) \div 65536,
   n |-> IF slot.n < SlotLimit THEN slot.n + 1 ELSE SlotLimit]

Buckets == 33
ApmInit == [k \in 0..Buckets-1 |-> Squash(k * 128 - 2048) * 16]

\* Apm::update
ApmTold(t, bit) == t + (bit * (65536 + 128) - 2 * bit - t) \div 128

---------------------------------------------------------------------------
(* The model                                                               *)

NewModel(stride, record, models) ==
  [stride |-> stride, record |-> record, models |-> models,
   slots |-> << >>, weights |-> << >>, apm |-> << >>,
   seen |-> << >>, ptr |-> 0, len |-> 0, byte |-> 0, holds |-> TRUE,
   bases |-> << >>, predicted |-> << >>, agree |-> << >>, error |-> << >>,
   c0 |-> 1, c1 |-> 0, bitpos |-> 0, phase |-> 0]

At(f, key, default) == IF key \in DOMAIN f THEN f[key] ELSE default
Put(f, key, value) == [k \in DOMAIN f \cup {key} |-> IF k = key THEN value ELSE f[k]]

\* The predictors whose expected bit is a context.
Active(m) == IF "bits" \in m.models THEN m.models \cap {"column", "linear", "plane"} ELSE {}

\* Hashed contexts that a byte sets, and how many are asked: the match model
\* is counted among them, so that one of them stays at 0.
HashCount(m) == 4 + Cardinality(m.models \ {"bits"})

\* error_class
ErrorClass(a, b) ==
  LET d == Distance(a, b)
  IN  IF d < 2 THEN d ELSE IF d < 4 THEN 2 ELSE IF d < 16 THEN 3 ELSE 4

\* MUTANT: the place does not move on with the match.
TrackMatchStays(m, hist) ==
  LET i    == Len(hist)
      key  == Hash(20, [k \in 1..MatchMin |-> hist[i + 1 - k]])
      held == i > 0 /\ m.len > 0 /\ m.ptr < i /\ hist[m.ptr + 1] = hist[i]
      cand == At(m.seen, key, 0)
      begins == ~held /\ i >= MatchMin /\ cand > 0 /\ cand < i
      ptr  == IF begins THEN cand ELSE m.ptr
      len  == IF held THEN m.len + 1 ELSE IF begins THEN 1 ELSE 0
      byte == IF len > 0 /\ ptr < i THEN hist[ptr + 1] ELSE 0
  IN  [m EXCEPT !.ptr = ptr, !.len = len, !.byte = byte, !.holds = TRUE,
                !.seen = IF i >= MatchMin THEN Put(@, key, i) ELSE @]

\* track_match: the match holds while the byte it predicted was the byte that
\* came; without one, the place this context was last seen at begins another.
TrackMatch(m, hist) ==
  LET i    == Len(hist)
      key  == Hash(20, [k \in 1..MatchMin |-> hist[i + 1 - k]])
      held == i > 0 /\ m.len > 0 /\ m.ptr < i /\ hist[m.ptr + 1] = hist[i]
      cand == At(m.seen, key, 0)
      begins == ~held /\ i >= MatchMin /\ cand > 0 /\ cand < i
      ptr  == IF held THEN m.ptr + 1 ELSE IF begins THEN cand ELSE m.ptr
      len  == IF held THEN m.len + 1 ELSE IF begins THEN 1 ELSE 0
      byte == IF len > 0 /\ ptr < i THEN hist[ptr + 1] ELSE 0
  IN  [m EXCEPT !.ptr = ptr, !.len = len, !.byte = byte, !.holds = TRUE,
                !.seen = IF i >= MatchMin THEN Put(@, key, i) ELSE @]

\* What the predictor says of the byte that is `back` before the next one.
Predictor(name, hist, m, back) ==
  LET at(b) == IF b >= 1 /\ b <= Len(hist) THEN hist[Len(hist) + 1 - b] ELSE 0
      s == m.stride
      r == m.record
  IN  IF name = "column" THEN at(back + s)
      ELSE IF name = "linear" THEN Mod(2 * at(back + s) - at(back + 2 * s))
      ELSE Mod(at(back + s) + at(back + r) - at(back + r + s))

\* The hashed contexts, in the order they are set.
Bases(m, hist) ==
  LET at(b) == IF b >= 1 /\ b <= Len(hist) THEN hist[Len(hist) + 1 - b] ELSE 0
      s == m.stride
      phase == Len(hist) % s
      on(name, tag, bytes) == IF name \in m.models THEN <<Hash(tag, bytes)>> ELSE << >>
  IN  <<Hash(2, <<at(1), at(2)>>), Hash(3, <<at(1), at(2), at(3)>>),
        Hash(4, <<at(1), at(2), at(3), at(4)>>),
        Hash(6, <<at(1), at(2), at(3), at(4), at(5), at(6)>>)>>
      \o on("column", 10, <<at(s), phase>>)
      \o on("linear", 11, <<Predictor("linear", hist, m, 0), phase>>)
      \o on("delta", 12, <<Mod(at(s) - at(2 * s)), phase, at(1)>>)
      \o on("plane", 13, <<Predictor("plane", hist, m, 0), phase, at(m.record) \div 2^(ByteBits \div 2)>>)

\* start_byte
Started(m, hist) ==
  LET n == Len(hist)
      set == Bases(m, hist)
      element == IF m.stride <= n THEN hist[n + 1 - m.stride] ELSE 0
      tracked == IF "match" \in m.models THEN TrackMatch(m, hist) ELSE m
  IN  [tracked EXCEPT
         !.bases = [j \in 1..HashCount(m) |-> IF j <= Len(set) THEN set[j] ELSE 0],
         !.predicted = [p \in Active(m) |-> Predictor(p, hist, m, 0)],
         !.error = [p \in Active(m) |-> ErrorClass(element, Predictor(p, hist, m, m.stride))],
         !.agree = [p \in Active(m) |-> 1],
         !.c0 = 1, !.c1 = IF n = 0 THEN 0 ELSE hist[n], !.bitpos = 0, !.phase = n % m.stride]

MatchClass(len) ==
  Cardinality({k \in {1, 4, 8, 16, 32, 64, 256} : k <= len})

BitOf(byte, i) == (byte \div 2^(ByteBits - 1 - i)) % 2
Flag(b) == IF b THEN 1 ELSE 0
Phase(m) == IF m.phase < Phases THEN m.phase ELSE Phases - 1

\* The counters that are asked for the next bit, in the order of the inputs.
Asked(m) ==
  LET bit(p) == IF p \in Active(m)
                THEN <<<<p, Phase(m), m.bitpos, m.agree[p], BitOf(m.predicted[p], m.bitpos), m.error[p]>>>>
                ELSE << >>
  IN  <<<<"o0", m.c0>>, <<"o1", m.c1, m.c0>>>>
      \o [j \in 1..HashCount(m) |-> <<"table", (m.bases[j] + m.c0 * Spread) % TableSize>>]
      \o bit("column") \o bit("linear") \o bit("plane")
      \o IF "match" \in m.models
         THEN <<<<"match", MatchClass(m.len), BitOf(m.byte, m.bitpos), m.bitpos, Flag(m.holds)>>>>
         ELSE << >>

\* Without a match the match counter says nothing; the last input is a bias.
InputsOf(m, asked) ==
  [k \in 1 .. Len(asked) + 1 |->
     IF k > Len(asked) THEN 256
     ELSE IF asked[k][1] = "match" /\ m.len = 0 THEN 0
     ELSE Stretch(P12(At(m.slots, asked[k], SlotInit)))]
InputsNow(m) == InputsOf(m, Asked(m))

WeightSet(m) == <<Phase(m), m.c0>>
WeightsOf(m, n) == At(m.weights, WeightSet(m), [k \in 1..n |-> 16384])

\* Mixer::predict
MixedOf(m, inputs) ==
  LET w == WeightsOf(m, Len(inputs))
      dot[k \in 0..Len(inputs)] == IF k = 0 THEN 0 ELSE dot[k - 1] + w[k] * inputs[k]
  IN  Squash(Clamp(dot[Len(inputs)] \div 65536, -2047, 2047))

ApmRow(m) == At(m.apm, m.c0, ApmInit)
ApmAt(mixed) == (Stretch(mixed) + 2048) * 23

\* Apm::pp and predict, before the coder's four low bits.
PredictOf(m, mixed) ==
  LET s  == ApmAt(mixed)
      wt == s % 4096
      refined == (ApmRow(m)[s \div 4096] * (4096 - wt) + ApmRow(m)[(s \div 4096) + 1] * wt) \div 65536
  IN  Clamp((3 * mixed + refined + 2) \div 4, 1, 4095)
Predict(m) == PredictOf(m, MixedOf(m, InputsNow(m)))

\* update of the counters: one that is asked twice is told twice.
ToldSlots(m, asked, bit) ==
  LET told[k \in 0..Len(asked)] ==
        IF k = 0 THEN m.slots
        ELSE LET s == told[k - 1]
             IN  IF asked[k][1] = "match" /\ m.len = 0 THEN s
                 ELSE Put(s, asked[k], SlotTold(At(s, asked[k], SlotInit), bit))
  IN  told[Len(asked)]

\* update: the mixer's weights, the refinement's bucket, what still agrees.
UpdatedWith(m, bit, asked, inputs, mixed) ==
  LET err   == bit * 4096 - mixed
      s     == ApmAt(mixed)
      index == (s \div 4096) + (s % 4096) \div 2048
      missed == "match" \in m.models /\ m.len > 0 /\ BitOf(m.byte, m.bitpos) # bit
  IN  [m EXCEPT
         !.slots = ToldSlots(m, asked, bit),
         !.weights = Put(@, WeightSet(m), [k \in DOMAIN inputs |->
                       WeightsOf(m, Len(inputs))[k] + (inputs[k] * err) \div 2048]),
         !.apm = Put(@, m.c0, [ApmRow(m) EXCEPT ![index] = ApmTold(@, bit)]),
         !.agree = [p \in DOMAIN @ |-> IF BitOf(m.predicted[p], m.bitpos) = bit THEN @[p] ELSE 0],
         !.len = IF missed THEN 0 ELSE @, !.holds = @ /\ ~missed,
         !.c0 = 2 * @ + bit, !.bitpos = @ + 1]

\* update
Updated(m, bit) ==
  LET withInputs(asked, inputs) == UpdatedWith(m, bit, asked, inputs, MixedOf(m, inputs))
      with(asked) == withInputs(asked, InputsOf(m, asked))
  IN  with(Asked(m))

---------------------------------------------------------------------------
(* Parameter detection                                                     *)

Sum(f) == LET s[k \in 0..Len(f)] == IF k = 0 THEN 0 ELSE s[k - 1] + f[k] IN s[Len(f)]

LongEnough(text, s) == Len(text) >= 4 * s + StrideSlack

\* The mean miss of the linear predictor, in 1024ths.
MeanMiss(text, s) ==
  LET miss(i) == LET d == Mod(text[i] - (2 * text[i - s] - text[i - 2 * s]))
                 IN  IF d <= Mod(0 - d) THEN d ELSE Mod(0 - d)
  IN  (Sum([k \in 1 .. Len(text) - 2 * s |-> miss(k + 2 * s)]) * 1024) \div (Len(text) - 2 * s)

\* detect_stride: the first of the strides with the least miss.
DetectStride(text) ==
  LET tried == {k \in DOMAIN Strides : LongEnough(text, Strides[k])}
      least == {k \in tried : \A j \in tried : MeanMiss(text, Strides[k]) <= MeanMiss(text, Strides[j])}
  IN  IF tried = {} THEN 1 ELSE Strides[CHOOSE k \in least : \A j \in least : k <= j]

Min2(a, b) == IF a < b THEN a ELSE b

\* detect_record: the first distance with the least sum of differences.
DetectRecord(text, stride) ==
  LET lo == 2 * stride + 1
      hi == Min2(MaxRecord, Len(text) \div 4)
      count == Min2(RecordSample, (Len(text) - hi + RecordStep - 1) \div RecordStep)
      place(k) == hi + 1 + (k - 1) * RecordStep
      cost(d) == Sum([k \in 1..count |-> Distance(text[place(k)], text[place(k) - d])])
      best == {d \in lo..hi : \A e \in lo..hi : cost(d) <= cost(e)}
  IN  IF hi <= lo \/ count < RecordLeast THEN 0 ELSE CHOOSE d \in best : \A e \in best : d <= e

---------------------------------------------------------------------------
(* encode_with: one action a byte begun, one a bit                          *)

Fresh(p) == NewModel(p.stride, p.record, p.models)
Idle == [done |-> 0, open |-> FALSE, model |-> << >>, log |-> << >>]

EncodeHeader ==
  /\ payload.made = "no" /\ enc.model = << >>
  /\ \E models \in Masks :
       LET stride == DetectStride(data)
           p == [made |-> "encoding", declared |-> Len(data), stride |-> stride, models |-> models,
                 record |-> IF "plane" \in models THEN DetectRecord(data, stride) ELSE 0]
       IN  payload' = p /\ enc' = [enc EXCEPT !.model = Fresh(p)]
  /\ UNCHANGED <<data, dec>>

EncodeByte ==
  /\ payload.made = "encoding" /\ ~enc.open /\ enc.done < Len(data)
  /\ enc' = [enc EXCEPT !.open = TRUE, !.model = Started(@, SubSeq(data, 1, enc.done))]
  /\ UNCHANGED <<data, payload, dec>>

EncodeBit ==
  /\ enc.open
  /\ LET bit == BitOf(data[enc.done + 1], enc.model.bitpos)
         whole == enc.model.bitpos + 1 = ByteBits
     IN  enc' = [done |-> IF whole THEN enc.done + 1 ELSE enc.done, open |-> ~whole,
                 model |-> Updated(enc.model, bit),
                 log |-> Append(enc.log, [p |-> 16 * Predict(enc.model), bit |-> bit])]
  /\ UNCHANGED <<data, payload, dec>>

EncodeEnd ==
  /\ payload.made = "encoding" /\ ~enc.open /\ enc.done = Len(data)
  /\ payload' = [payload EXCEPT !.made = "yes"]
  /\ UNCHANGED <<data, enc, dec>>

---------------------------------------------------------------------------
(* decode                                                                  *)

\* MUTANT: the longest record is one too long.
AcceptsShorter(p) ==
  /\ p.declared <= MaxLen /\ p.record < MaxRecord /\ p.models \subseteq AllModels
  /\ \E k \in DOMAIN Strides : p.stride = Strides[k]

Accepts(p) ==
  /\ p.declared <= MaxLen /\ p.record <= MaxRecord /\ p.models \subseteq AllModels
  /\ \E k \in DOMAIN Strides : p.stride = Strides[k]

DecodeHeader ==
  /\ payload.made \in {"yes", "never"} /\ dec.status = "start"
  /\ dec' = IF Accepts(payload) THEN [dec EXCEPT !.status = "reading", !.model = Fresh(payload)]
            ELSE [dec EXCEPT !.status = "refused"]
  /\ UNCHANGED <<data, payload, enc>>

DecodeByte ==
  /\ dec.status = "reading" /\ ~dec.open
  /\ dec' = IF Len(dec.out) = payload.declared THEN [dec EXCEPT !.status = "done"]
            ELSE [dec EXCEPT !.open = TRUE, !.byte = 0, !.model = Started(@, dec.out)]
  /\ UNCHANGED <<data, payload, enc>>

\* The bits an encoder logged, or whatever another payload gives.
BitsAt(k, p) ==
  IF payload.made = "never" THEN {0, 1}
  ELSE {IF enc.log[k].p = p THEN enc.log[k].bit ELSE 1 - enc.log[k].bit}

DecodeBit ==
  /\ dec.open
  /\ \E bit \in BitsAt(dec.read + 1, 16 * Predict(dec.model)) :
       LET whole == dec.model.bitpos + 1 = ByteBits
           byte  == 2 * dec.byte + bit
       IN  dec' = [dec EXCEPT !.read = @ + 1, !.model = Updated(@, bit), !.byte = byte, !.open = ~whole,
                              !.out = IF whole THEN Append(@, byte) ELSE @]
  /\ UNCHANGED <<data, payload, enc>>

Init ==
  /\ enc = Idle
  /\ dec = [status |-> "start", out |-> << >>, open |-> FALSE, byte |-> 0, model |-> << >>, read |-> 0]
  /\ \/ data \in Blocks /\ payload = [made |-> "no"]
     \/ \E h \in Hostile :
          /\ data = << >>
          /\ payload = [made |-> "never", declared |-> h.declared, stride |-> h.stride,
                        record |-> h.record, models |-> h.models]

Next == EncodeHeader \/ EncodeByte \/ EncodeBit \/ EncodeEnd \/ DecodeHeader \/ DecodeByte \/ DecodeBit
Spec == Init /\ [][Next]_vars

---------------------------------------------------------------------------
\* The decoder, whose history is its own output, gives the block back and ends
\* with the very model the encoder ended with (encode_with, decode).
RoundTrip ==
  payload.made = "yes" =>
    /\ dec.status # "refused"
    /\ dec.out = SubSeq(data, 1, Len(dec.out))
    /\ dec.status = "done" => dec.out = data /\ dec.model = enc.model

Sides == {[m |-> enc.model, text |-> SubSeq(data, 1, enc.done), open |-> enc.open],
          [m |-> dec.model, text |-> dec.out, open |-> dec.open]}

Word == 0 .. 65535
\* Every counter keeps to its bits, the inputs to their array, every refined probability to sixteen, and
\* what the coder is given is neither 0 nor 1 (slot_update, Apm, predict).
NumbersFit ==
  \A side \in Sides :
    side.open =>
      /\ \A k \in DOMAIN side.m.slots : side.m.slots[k].p \in 0 .. 2^SlotBits - 1 /\ side.m.slots[k].n <= SlotLimit
      /\ \A c \in DOMAIN side.m.apm : \A k \in DOMAIN side.m.apm[c] : side.m.apm[c][k] \in Word
      /\ Predict(side.m) \in 1..4095 /\ Len(Asked(side.m)) < MaxInputs

\* A match of n has been right for the n - 1 bytes just coded, its place is
\* behind the next byte, and it is over at its first wrong bit (track_match).
MatchTrue ==
  \A side \in Sides :
    side.open /\ side.m.len > 0 =>
      /\ side.m.ptr < Len(side.text) /\ side.m.byte = side.text[side.m.ptr + 1]
      /\ \A k \in 1 .. side.m.len - 1 : side.text[side.m.ptr + 1 - k] = side.text[Len(side.text) + 1 - k]
      /\ side.m.c0 = 2^side.m.bitpos + side.m.byte \div 2^(ByteBits - side.m.bitpos)

\* squash and stretch invert each other as closely as whole numbers allow.
StretchInverts ==
  \A p \in 2..4094 : Squash(Stretch(p)) >= p /\ Squash(Stretch(p) - 1) < p
=============================================================================
