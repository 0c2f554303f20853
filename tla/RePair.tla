------------------------------- MODULE RePair -------------------------------
(***************************************************************************)
(* Grammar compression (src/grammar/mod.rs, src/repair_fast.rs): the pair  *)
(* that occurs most becomes a rule, over and over, until none is frequent, *)
(* there are too many rules, the sequence no longer shrinks or time is up. *)
(* The sequence goes to and fro between two buffers.                       *)
(*                                                                         *)
(* The heap of repair_encode is made anew after every replacement, so its  *)
(* first entry is never stale; the clock may stop an encoder at any turn.  *)
(***************************************************************************)
EXTENDS Integers, Sequences, FiniteSets, SequencesExt

CONSTANTS
  Blocks,     \* what is encoded: rows of bytes, none empty
  Bytes,      \* values of a byte: 256
  MaxRules,   \* max_rules, MAX_RULES
  Window,     \* stall_window: rules between two looks at the length
  Shrink,     \* percent a window must take off: 1
  Frequent    \* values of min_freq that repair_encode_fast is given: 4 and others

VARIABLES
  data,  \* the block
  enc,   \* [by, least, buffers, use, rules, before, stalls, status]
  dec    \* [rules, stack, out, status]

vars == <<data, enc, dec>>

---------------------------------------------------------------------------
(* Pairs and their replacement                                             *)

PairsOf(seq) == {<<seq[i], seq[i + 1]>> : i \in 1 .. Len(seq) - 1}
\* Overlapping ones are counted too: aaa holds aa twice.
Frequency(seq, pair) == Cardinality({i \in 1 .. Len(seq) - 1 : <<seq[i], seq[i + 1]>> = pair})

Smaller(a, b) == a[1] < b[1] \/ (a[1] = b[1] /\ a[2] < b[2])

\* Of the most frequent pairs the heap has the largest on top, and the scan of
\* the flat table stops at the smallest.
Best(seq, by) ==
  LET pairs == PairsOf(seq)
      most  == {p \in pairs : \A q \in pairs : Frequency(seq, q) <= Frequency(seq, p)}
  IN  CHOOSE p \in most : \A q \in most \ {p} : IF by = "heap" THEN Smaller(q, p) ELSE Smaller(p, q)

\* MUTANT: occurrences that overlap are all replaced.
ReplacedOverlapping(seq, pair, symbol) ==
  LET hit(i) == i \in 1 .. Len(seq) - 1 /\ <<seq[i], seq[i + 1]>> = pair
  IN  FlattenSeq([i \in DOMAIN seq |-> IF hit(i) THEN <<symbol>> ELSE IF hit(i - 1) THEN << >> ELSE <<seq[i]>>])

\* From left to right; an occurrence that begins inside one is none.
Replaced(seq, pair, symbol) ==
  LET hit[i \in 0..Len(seq)] ==
        i \in 1 .. Len(seq) - 1 /\ <<seq[i], seq[i + 1]>> = pair /\ ~hit[i - 1]
  IN  FlattenSeq([i \in DOMAIN seq |-> IF hit[i] THEN <<symbol>> ELSE IF hit[i - 1] THEN << >> ELSE <<seq[i]>>])

---------------------------------------------------------------------------
(* repair_encode ("heap") and repair_encode_fast ("flat")                  *)

Sequence == enc.buffers[enc.use]
Other == 3 - enc.use

\* At the rules that end a window, the length is compared with the last one's.
EndsWindow(rules) == enc.by = "heap" /\ Len(rules) % Window = 0 /\ Len(rules) > Window
Shrunk(seq) == (100 * (enc.before - Len(seq))) \div enc.before >= Shrink

\* MUTANT: a stalled encoder gives back the buffer it read.
ReplaceKeepsBuffer ==
  /\ enc.status = "run" /\ Len(enc.rules) < MaxRules
  /\ Len(Sequence) > 1
  /\ LET pair  == Best(Sequence, enc.by)
         seq   == Replaced(Sequence, pair, Bytes + Len(enc.rules))
         rules == Append(enc.rules, pair)
         stall == EndsWindow(rules) /\ ~Shrunk(seq)
     IN  /\ Frequency(Sequence, pair) >= enc.least
         /\ enc' = [enc EXCEPT !.rules = rules, !.buffers[Other] = seq,
              !.use = IF stall /\ enc.stalls = 1 THEN @ ELSE Other,
              !.before = IF EndsWindow(rules) THEN Len(seq) ELSE @,
              !.stalls = IF ~EndsWindow(rules) THEN @ ELSE IF stall THEN @ + 1 ELSE 0,
              !.status = IF stall /\ enc.stalls = 1 THEN "done" ELSE "run"]
  /\ UNCHANGED <<data, dec>>

\* One rule: the sequence is written to the other buffer, which is then the
\* one in use, on the way out as well.
Replace ==
  /\ enc.status = "run" /\ Len(enc.rules) < MaxRules
  /\ Len(Sequence) > 1
  /\ LET pair  == Best(Sequence, enc.by)
         seq   == Replaced(Sequence, pair, Bytes + Len(enc.rules))
         rules == Append(enc.rules, pair)
         stall == EndsWindow(rules) /\ ~Shrunk(seq)
     IN  /\ Frequency(Sequence, pair) >= enc.least
         /\ enc' = [enc EXCEPT !.rules = rules, !.buffers[Other] = seq, !.use = Other,
              !.before = IF EndsWindow(rules) THEN Len(seq) ELSE @,
              !.stalls = IF ~EndsWindow(rules) THEN @ ELSE IF stall THEN @ + 1 ELSE 0,
              !.status = IF stall /\ enc.stalls = 1 THEN "done" ELSE "run"]
  /\ UNCHANGED <<data, dec>>

\* No pair is frequent enough, or there are rules enough, or no time is left.
Stop ==
  /\ enc.status = "run"
  /\ enc' = [enc EXCEPT !.status = "done"]
  /\ UNCHANGED <<data, dec>>

---------------------------------------------------------------------------
(* repair_serialize, repair_deserialize                                    *)

Serialized(length, rules, seq) ==
  <<length, Len(rules), Len(seq)>> \o FlattenSeq([k \in DOMAIN rules |-> rules[k]]) \o seq

Deserialized(words) ==
  [rules |-> [k \in 1..words[2] |-> <<words[2 * k + 2], words[2 * k + 3]>>],
   seq   |-> SubSeq(words, 2 * words[2] + 4, 2 * words[2] + 3 + words[3])]

Load ==
  /\ enc.status = "done" /\ dec.status = "start"
  /\ LET result == Deserialized(Serialized(Len(data), enc.rules, Sequence))
     IN  dec' = [status |-> "run", rules |-> result.rules, stack |-> result.seq, out |-> << >>]
  /\ UNCHANGED <<data, enc>>

---------------------------------------------------------------------------
(* repair_decode: the stack's top is the first of "stack"                  *)

EmitByte ==
  /\ dec.status = "run" /\ dec.stack # << >> /\ Head(dec.stack) < Bytes
  /\ dec' = [dec EXCEPT !.out = Append(@, Head(dec.stack)), !.stack = Tail(@)]
  /\ UNCHANGED <<data, enc>>

\* MUTANT: the left half is pushed first, and so comes out last.
ExpandSwapped ==
  /\ dec.status = "run" /\ dec.stack # << >> /\ Head(dec.stack) >= Bytes
  /\ LET rule == dec.rules[Head(dec.stack) - Bytes + 1]
     IN  dec' = [dec EXCEPT !.stack = <<rule[2], rule[1]>> \o Tail(@)]
  /\ UNCHANGED <<data, enc>>

Expand ==
  /\ dec.status = "run" /\ dec.stack # << >> /\ Head(dec.stack) >= Bytes
  /\ LET rule == dec.rules[Head(dec.stack) - Bytes + 1]
     IN  dec' = [dec EXCEPT !.stack = <<rule[1], rule[2]>> \o Tail(@)]
  /\ UNCHANGED <<data, enc>>

Finish ==
  /\ dec.status = "run" /\ dec.stack = << >>
  /\ dec' = [dec EXCEPT !.status = "done"]
  /\ UNCHANGED <<data, enc>>

Init ==
  /\ data \in Blocks
  /\ \E by \in {"heap", "flat"}, asked \in Frequent :
       enc = [by |-> by, least |-> IF by = "heap" \/ asked < 2 THEN 2 ELSE asked, buffers |-> <<data, << >>>>, use |-> 1, rules |-> << >>,
              before |-> Len(data), stalls |-> 0, status |-> "run"]
  /\ dec = [status |-> "start", rules |-> << >>, stack |-> << >>, out |-> << >>]

Next == Replace \/ Stop \/ Load \/ EmitByte \/ Expand \/ Finish
Spec == Init /\ [][Next]_vars

---------------------------------------------------------------------------
\* What each symbol stands for, by the rules alone.
Meaning(rules) ==
  LET m[s \in 0 .. Bytes + Len(rules) - 1] ==
        IF s < Bytes THEN <<s>> ELSE m[rules[s - Bytes + 1][1]] \o m[rules[s - Bytes + 1][2]]
  IN  m
MeaningOf(rules, seq) == LET m == Meaning(rules) IN FlattenSeq([i \in DOMAIN seq |-> m[seq[i]]])

\* Wherever the encoder is stopped, what it gives back stands for the block;
\* a rule names only bytes and rules before it, so that every expansion ends,
\* has made the sequence shorter, and is still used (repair_encode's loops and
\* the buffer its ways out return).
GrammarKept ==
  /\ \A k \in DOMAIN enc.rules : \A h \in 1..2 : enc.rules[k][h] \in 0 .. Bytes + k - 2
  /\ MeaningOf(enc.rules, Sequence) = data
  /\ Len(Sequence) + Len(enc.rules) <= Len(data)
  /\ \A k \in DOMAIN enc.rules :
       LET symbol == Bytes + k - 1
       IN  \/ \E i \in DOMAIN Sequence : Sequence[i] = symbol
           \/ \E j \in k + 1 .. Len(enc.rules) : symbol \in {enc.rules[j][1], enc.rules[j][2]}

\* The decoder's stack always holds what is still missing of the block.
StackHoldsRest ==
  dec.status # "start" => dec.out \o MeaningOf(dec.rules, dec.stack) = data
=============================================================================
