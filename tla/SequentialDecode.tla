-------------------------- MODULE SequentialDecode --------------------------
(***************************************************************************)
(* What decoding a container promises: its blocks come out one after the   *)
(* other, in order, until the first that cannot be decoded, and success is *)
(* reported only once the hash of all of them has been compared.           *)
(***************************************************************************)
EXTENDS Naturals, Sequences

VARIABLES
  verdicts,   \* for each block "ok", or why it cannot be decoded
  hashOk,     \* the footer, if there is one, is the hash of the blocks
  written,    \* positions of the blocks the output was given
  result

vars == <<verdicts, hashOk, written, result>>

Init == written = <<>> /\ result = "none"

Write ==
  LET here == Len(written) + 1 IN
  /\ here <= Len(verdicts) /\ verdicts[here] = "ok"
  /\ \/ written' = Append(written, here) /\ UNCHANGED result
     \/ result' = "io" /\ UNCHANGED written

Stop ==
  LET here == Len(written) + 1 IN
  /\ IF here <= Len(verdicts)
     THEN verdicts[here] # "ok" /\ result' = verdicts[here]
     ELSE result' = IF hashOk THEN "ok" ELSE "digest"
  /\ UNCHANGED written

Next == result = "none" /\ (Write \/ Stop) /\ UNCHANGED <<verdicts, hashOk>>

Spec == Init /\ [][Next]_vars
=============================================================================
