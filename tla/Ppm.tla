-------------------------------- MODULE Ppm --------------------------------
(***************************************************************************)
(* The PPM codec (src/codecs/ppm.rs): a byte is coded in the longest       *)
(* context that has seen it, after an escape from each longer one.         *)
(*                                                                         *)
(* The range coder is ideal: a symbol is coded as its share of a total,    *)
(* and a decoder that asks with the same total is given some value within  *)
(* that share (RangeCoder shows it).  What is coded is one byte per        *)
(* action, in the encoder and in the decoder.                              *)
(***************************************************************************)
EXTENDS Integers, Sequences, FiniteSets

CONSTANTS
  Blocks,    \* the blocks that are encoded
  Bytes,     \* number of byte values
  MaxOrder,  \* MAX_ORDER
  Limit,     \* total above which counts are halved
  Hostile    \* payloads that no encoder made: [declared, size, targets]

Byte == 0 .. Bytes - 1

\* Halving leaves every symbol at least one, so there must be room for all.
PpmAssumption == MaxOrder \in Nat /\ Bytes \in Nat \ {0} /\ Limit >= Bytes

VARIABLES
  data,  \* the block
  enc,   \* encoder: pos, model, log of shares; and, as history, the model and
         \*   the length of the log before each byte (marks)
  dec    \* decoder: next share, model, output, status

vars == <<data, enc, dec>>

---------------------------------------------------------------------------
(* FreqTable                                                               *)

CountsBefore(syms, i) ==
  LET n[j \in 1..i] == IF j = 1 THEN 0 ELSE n[j-1] + syms[j-1].count IN n[i]
Counts(syms) == CountsBefore(syms, Len(syms) + 1)

Places(syms, byte) == {i \in DOMAIN syms : syms[i].sym = byte}
Place(syms, byte)  == CHOOSE i \in Places(syms, byte) : TRUE

EmptyTable == [syms |-> << >>, total |-> 0]

\* MUTANT: rounded down.
RescaledDown(table) ==
  LET syms == [i \in DOMAIN table.syms |-> [table.syms[i] EXCEPT !.count = @ \div 2]]
  IN  [syms |-> syms, total |-> Counts(syms)]

\* rescale
Rescaled(table) ==
  LET syms == [i \in DOMAIN table.syms |-> [table.syms[i] EXCEPT !.count = (@ + 1) \div 2]]
  IN  [syms |-> syms, total |-> Counts(syms)]

\* update: a new symbol goes last.
CountedIn(table, byte) ==
  LET syms == IF Places(table.syms, byte) = {}
              THEN Append(table.syms, [sym |-> byte, count |-> 1])
              ELSE [table.syms EXCEPT ![Place(table.syms, byte)].count = @ + 1]
      next == [syms |-> syms, total |-> table.total + 1]
  IN  IF next.total > Limit THEN Rescaled(next) ELSE next

---------------------------------------------------------------------------
(* History and PpmModel: contexts are named by the bytes they consist of.  *)

HistoryLen(text) == IF Len(text) < MaxOrder THEN Len(text) ELSE MaxOrder
Key(text, order) == SubSeq(text, Len(text) - order + 1, Len(text))

NoContexts == [key \in {} |-> EmptyTable]
TableOf(model, key) == IF key \in DOMAIN model THEN model[key] ELSE EmptyTable

\* PpmModel::update
Learnt(model, text, byte, from) ==
  LET keys == {Key(text, o) : o \in from .. HistoryLen(text)}
  IN  [key \in DOMAIN model \cup keys |->
         IF key \in keys THEN CountedIn(TableOf(model, key), byte) ELSE model[key]]

\* The symbols of a context that no longer one has excluded.
Live(model, key, excluded) ==
  LET allowed(s) == s.sym \notin excluded IN SelectSeq(TableOf(model, key).syms, allowed)
SymsOf(model, key) == LET syms == TableOf(model, key).syms IN {syms[i].sym : i \in DOMAIN syms}

Share(cum, freq, total) == [cum |-> cum, freq |-> freq, total |-> total]

---------------------------------------------------------------------------
(* encode_byte_ppm, ppm_compress                                           *)

\* One order: the byte in its share, or an escape and the exclusion of what
\* the context has seen; a context with nothing to say costs nothing.
CodedAt(r, model, text, order, byte) ==
  LET live  == Live(model, Key(text, order), r.excluded)
      total == Counts(live)
      denom == total + Len(live)
      i     == Place(live, byte)
  IN  IF r.order # -1 \/ total = 0 THEN r
      ELSE IF Places(live, byte) # {}
      THEN [r EXCEPT !.log = Append(@, Share(CountsBefore(live, i), live[i].count, denom)), !.order = order]
      ELSE [r EXCEPT !.log = Append(@, Share(total, Len(live), denom)),
                     !.excluded = @ \cup SymsOf(model, Key(text, order))]

\* Order -1: what is left, each alike.
CodedUniform(r, byte) ==
  LET left == Byte \ r.excluded
  IN  IF r.order # -1 THEN r
      ELSE [r EXCEPT !.log = Append(@, Share(Cardinality({b \in left : b < byte}), 1, Cardinality(left))),
                     !.order = 0]

CodedByte(model, text, byte) ==
  LET top == HistoryLen(text) + 1
      r[o \in 0..top] == IF o = top THEN [log |-> << >>, excluded |-> {}, order |-> -1]
                         ELSE CodedAt(r[o + 1], model, text, o, byte)
  IN  CodedUniform(r[0], byte)

Honest == enc.marks # << >>

EncodeByte ==
  LET text  == SubSeq(data, 1, enc.pos)
      byte  == data[enc.pos + 1]
      coded == CodedByte(enc.model, text, byte)
      model == Learnt(enc.model, text, byte, coded.order)
      log   == enc.log \o coded.log
  IN  /\ Honest /\ enc.pos < Len(data)
      /\ enc' = [enc EXCEPT !.pos = @ + 1, !.model = model, !.log = log,
                            !.marks = Append(@, [at |-> Len(log), model |-> model])]
      /\ UNCHANGED <<data, dec>>

---------------------------------------------------------------------------
(* decode_byte_ppm, ppm_decompress_checked                                 *)

\* get_freq for the k-th share: a value in it, the lowest or the highest.  For
\* another total than it was coded with, or a payload from elsewhere, any.
TargetAt(k, total, high) ==
  LET s == IF k \in DOMAIN enc.log THEN enc.log[k] ELSE Share(0, 1, 0)
      t == IF high THEN s.cum + s.freq - 1 ELSE s.cum
  IN  IF t < total THEN t ELSE total - 1

\* MUTANT: a byte that was excluded can still be found.
FoundAtAnyway(r, model, text, order, high) ==
  LET live   == Live(model, Key(text, order), {})
      total  == Counts(live)
      target == TargetAt(r.k, total + Len(live), high)
      i      == CHOOSE j \in DOMAIN live : CountsBefore(live, j) <= target
                                           /\ target < CountsBefore(live, j + 1)
  IN  IF r.order # -1 \/ total = 0 THEN r
      ELSE IF target < total THEN [r EXCEPT !.k = @ + 1, !.order = order, !.byte = live[i].sym]
      ELSE [r EXCEPT !.k = @ + 1, !.excluded = @ \cup SymsOf(model, Key(text, order))]

FoundAt(r, model, text, order, high) ==
  LET live   == Live(model, Key(text, order), r.excluded)
      total  == Counts(live)
      target == TargetAt(r.k, total + Len(live), high)
      i      == CHOOSE j \in DOMAIN live : CountsBefore(live, j) <= target
                                           /\ target < CountsBefore(live, j + 1)
  IN  IF r.order # -1 \/ total = 0 THEN r
      ELSE IF target < total THEN [r EXCEPT !.k = @ + 1, !.order = order, !.byte = live[i].sym]
      ELSE [r EXCEPT !.k = @ + 1, !.excluded = @ \cup SymsOf(model, Key(text, order))]

\* None (order -1 still) when every symbol has been escaped from.
FoundUniform(r, high) ==
  LET left   == Byte \ r.excluded
      target == TargetAt(r.k, Cardinality(left), high)
  IN  IF r.order # -1 \/ left = {} THEN r
      ELSE [r EXCEPT !.k = @ + 1, !.order = 0,
                     !.byte = CHOOSE b \in left : Cardinality({a \in left : a < b}) = target]

FoundByte(model, text, high) ==
  LET top == HistoryLen(text) + 1
      r[o \in 0..top] == IF o = top THEN [k |-> dec.k, excluded |-> {}, order |-> -1, byte |-> 0]
                         ELSE FoundAt(r[o + 1], model, text, o, high)
  IN  FoundUniform(r[0], high)

DecodeStart ==
  /\ dec.status = "waiting" /\ (Honest => enc.pos = Len(data))
  /\ dec' = [dec EXCEPT !.status = IF enc.size = "headerless" THEN "error"
                                   ELSE IF enc.declared = 0 THEN "ok"
                                   ELSE IF enc.size = "short" THEN "error"
                                   ELSE "bytes"]
  /\ UNCHANGED <<data, enc>>

DecodeByte(high) ==
  LET found == FoundByte(dec.model, dec.out, high)
  IN  /\ dec.status = "bytes" /\ Len(dec.out) < enc.declared
      /\ dec' = IF found.order = -1 THEN [dec EXCEPT !.status = "error"]
                ELSE [dec EXCEPT !.k = found.k, !.out = Append(@, found.byte),
                                 !.model = Learnt(@, dec.out, found.byte, found.order)]
      /\ UNCHANGED <<data, enc>>

DecodeEnd ==
  /\ dec.status = "bytes" /\ Len(dec.out) = enc.declared
  /\ dec' = [dec EXCEPT !.status = "ok"]
  /\ UNCHANGED <<data, enc>>

---------------------------------------------------------------------------
Init ==
  /\ dec = [k |-> 1, model |-> NoContexts, out |-> << >>, status |-> "waiting"]
  /\ \/ /\ data \in Blocks
        /\ enc = [pos |-> 0, model |-> NoContexts, log |-> << >>, declared |-> Len(data),
                  size |-> "enough", marks |-> <<[at |-> 0, model |-> NoContexts]>>]
     \/ /\ data = << >>
        /\ \E h \in Hostile :
             enc = [pos |-> 0, model |-> NoContexts, declared |-> h.declared, size |-> h.size,
                    log |-> [i \in DOMAIN h.targets |-> Share(h.targets[i], 1, 0)], marks |-> << >>]

Next == \/ EncodeByte \/ DecodeStart \/ DecodeEnd
        \/ \E high \in BOOLEAN : DecodeByte(high)
Spec == Init /\ [][Next]_vars

---------------------------------------------------------------------------
\* After each byte the decoder has the contexts and counts the encoder had
\* there, and has read as many shares (encode_byte_ppm, decode_byte_ppm: the
\* two are written separately and must exclude, skip and learn alike).
InStep ==
  Honest /\ dec.status \in {"bytes", "error"} =>
    /\ dec.status = "bytes"
    /\ dec.k - 1 = enc.marks[Len(dec.out) + 1].at
    /\ dec.model = enc.marks[Len(dec.out) + 1].model

\* The block comes back.
RoundTrip == Honest /\ dec.status = "ok" => dec.out = data

\* No context says a symbol is impossible that it has seen, and its total stays
\* within what leaves each a share of any range (update, rescale, encode_freq).
SharesSound ==
  /\ \A i \in DOMAIN enc.log : Honest =>
       LET s == enc.log[i]
       IN  s.freq >= 1 /\ s.cum >= 0 /\ s.cum + s.freq <= s.total /\ s.total <= Limit + Bytes
  /\ \A m \in {enc.model, dec.model} : \A key \in DOMAIN m :
       LET t == m[key]
       IN  /\ t.total = Counts(t.syms) /\ t.total <= Limit
           /\ \A i, j \in DOMAIN t.syms : t.syms[i].count >= 1
                                          /\ (t.syms[i].sym = t.syms[j].sym => i = j)
=============================================================================
