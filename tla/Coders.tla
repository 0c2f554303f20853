------------------------------- MODULE Coders -------------------------------
(***************************************************************************)
(* The two coders of bits under the codecs, and the model that gives one   *)
(* of them its probabilities; one of the three runs.                       *)
(***************************************************************************)
EXTENDS BwtCm

VARIABLE part  \* which one

CodersInit ==
  \/ part = "range"     /\ RangeInit
  \/ part = "carryless" /\ CarrylessInit
  \/ part = "mixing"    /\ MixInit
CodersNext ==
  /\ \/ part = "range"     /\ RangeNext
     \/ part = "carryless" /\ CarrylessNext
     \/ part = "mixing"    /\ MixNext
  /\ UNCHANGED part
CodersSpec == CodersInit /\ [][CodersNext]_<<part, coderVars>>

---------------------------------------------------------------------------
\* The coders under the codecs: no carry is lost through any run of cached
\* bytes, every symbol has room and every bit a probability, the bounds of the
\* coder without carries never close on each other, and each decoder gives
\* back what was coded (range_coder.rs, bwt_cm.rs).
CodersExact ==
  /\ part = "range" => CarriesKept /\ RoomLeft /\ DecodesWhatWasCoded
  /\ part = "carryless" => BoundsApart /\ BitsComeBack

\* The mixing model is the same on either side of every byte, whatever the
\* bytes: it sees the two before and how long the last one has run, its
\* counters stay in their words, and the bytes come back (bwt_cm.rs).
MixingFaithful == part = "mixing" => BytesComeBack /\ CountersFit /\ ContextsTrue
=============================================================================
