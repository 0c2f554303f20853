------------------------------- MODULE MCLz77 -------------------------------
(***************************************************************************)
(* Every block of up to MaxLen bytes over a small alphabet.                *)
(***************************************************************************)
EXTENDS Lz77

Triples == Byte \X Byte \X Byte
\* No two triples share a hash, or all with the same first two bytes do.
MCPerfect   == [t \in Triples |-> 9 * t[1] + 3 * t[2] + t[3]]
MCColliding == [t \in Triples |-> 3 * t[1] + t[2]]
=============================================================================
