------------------------------ MODULE Selector ------------------------------
(***************************************************************************)
(* The selector of the library (src/selector.rs): of the eight Huffman     *)
(* formats the smallest that decodes to the block, then the codec that the *)
(* classifier chose if it is smaller still and decodes.  An encoder is     *)
(* here its result: a payload's size and what decoding it does.            *)
(***************************************************************************)
EXTENDS Integers, Sequences, FiniteSets, SequencesExt

CONSTANTS
  Sizes,    \* lengths of a block and of a payload
  Formats   \* the tags of the formats, in the order they are pushed

Codecs == {"Lz77Huffman", "LzmaStyle", "DeltaAns", "RleHuffman", "Passthrough"}

\* What a decoder does with a payload: gives back the block, other bytes, an
\* error, or panics; "none" is an encoder that gave no payload.
Outcomes == {"block", "other", "error", "panic"}

VARIABLES
  data,  \* [size, format, choice, candidate]
  enc,   \* [status, left, best, codec]: formats left to try, the best payload
  dec    \* what decompress_block gives

vars == <<data, enc, dec>>

---------------------------------------------------------------------------
(* compress_lz77_huffman                                                   *)

\* A payload: its tag, 0 for the bytes as they are, and size with the tag.
Raw           == [tag |-> 0, size |-> data.size + 1]
Tagged(tag)   == [tag |-> tag, size |-> data.format[tag].size + 1]

\* sort_by_key is stable: of one size the one pushed first.
Sorted(format) ==
  LET at(tag) == SelectInSeq(Formats, LAMBDA t : t = tag)
  IN  SetToSortSeq(DOMAIN format, LAMBDA a, b : \/ format[a].size < format[b].size
                                                \/ format[a].size = format[b].size /\ at(a) < at(b))

\* MUTANT: what is smaller is not decoded to see.
TryFormatUnseen ==
  /\ enc.status = "formats" /\ enc.left # << >>
  /\ LET tag == Head(enc.left)
     IN  enc' = [enc EXCEPT !.left = Tail(@), !.best = IF Tagged(tag).size < @.size THEN Tagged(tag) ELSE @]
  /\ UNCHANGED <<data, dec>>

\* Not smaller, it is passed; a panic of its decoder is caught.
TryFormat ==
  /\ enc.status = "formats" /\ enc.left # << >>
  /\ LET tag == Head(enc.left)
         valid == data.format[tag].outcome = "block"
     IN  enc' = [enc EXCEPT !.left = Tail(@), !.best = IF Tagged(tag).size < @.size /\ valid THEN Tagged(tag) ELSE @]
  /\ UNCHANGED <<data, dec>>

---------------------------------------------------------------------------
(* compress_block_adaptive                                                 *)

\* MUTANT: the tag that bytes as they are do not need is counted on both sides.
BaselineKept ==
  /\ enc.status = "formats" /\ enc.left = << >>
  /\ enc' = [enc EXCEPT !.status = "candidate", !.codec = "Lz77Huffman"]
  /\ UNCHANGED <<data, dec>>

\* A block that no format makes smaller goes through as it is, without a tag.
Baseline ==
  /\ enc.status = "formats" /\ enc.left = << >>
  /\ enc' = [enc EXCEPT !.status = "candidate",
       !.codec = IF data.size < enc.best.size THEN "Passthrough" ELSE "Lz77Huffman",
       !.best = IF data.size < @.size THEN [tag |-> 0, size |-> data.size] ELSE @]
  /\ UNCHANGED <<data, dec>>

\* The codec chosen: the baseline is no candidate, nor is an encoder that
\* failed or panicked; the bytes as they are always are one.
CandidateOf ==
  CASE data.choice = "Lz77Huffman" -> [size |-> 0, outcome |-> "none"]
    [] data.choice = "Passthrough" -> [size |-> data.size, outcome |-> "block"]
    [] OTHER                       -> data.candidate

Candidate ==
  /\ enc.status = "candidate"
  /\ enc' = IF CandidateOf.outcome # "none" /\ CandidateOf.size < enc.best.size /\ CandidateOf.outcome = "block"
            THEN [enc EXCEPT !.status = "done", !.codec = data.choice, !.best = [tag |-> 0, size |-> CandidateOf.size]]
            ELSE [enc EXCEPT !.status = "done"]
  /\ UNCHANGED <<data, dec>>

---------------------------------------------------------------------------
(* decompress_block, decompress_lz77_huffman                               *)

\* A panic of any decoder is an error; a tag of 0 is the bytes that follow.
Decompressed ==
  LET caught(outcome) == IF outcome = "panic" THEN "error" ELSE outcome
  IN  CASE enc.codec = "Passthrough" -> "block"
        [] enc.codec = "Lz77Huffman" -> IF enc.best.tag = 0 THEN "block" ELSE caught(data.format[enc.best.tag].outcome)
        [] OTHER                     -> caught(data.candidate.outcome)

Decompress ==
  /\ enc.status = "done" /\ dec = "start"
  /\ dec' = Decompressed
  /\ UNCHANGED <<data, enc>>

Init ==
  /\ data \in [size : Sizes, choice : Codecs,
               format : [{Formats[k] : k \in DOMAIN Formats} -> [size : Sizes, outcome : {"block", "other", "panic"}]],
               candidate : [size : Sizes, outcome : Outcomes \cup {"none"}]]
  /\ enc = [status |-> "formats", left |-> Sorted(data.format), best |-> Raw, codec |-> "none"]
  /\ dec = "start"

Next == TryFormat \/ Baseline \/ Candidate \/ Decompress
Spec == Init /\ [][Next]_vars

---------------------------------------------------------------------------
\* What was selected always decodes to the block, whatever any encoder or
\* decoder does, is never larger than it, and no payload that decodes to the
\* block is smaller: not the candidate's, nor any format's with its tag.
LeastThatDecodes ==
  /\ dec # "start" => dec = "block"
  /\ enc.status = "done" =>
       /\ enc.best.size <= data.size
       /\ \A tag \in DOMAIN data.format : data.format[tag].outcome = "block" => enc.best.size <= Tagged(tag).size
       /\ CandidateOf.outcome = "block" => enc.best.size <= CandidateOf.size
=============================================================================
