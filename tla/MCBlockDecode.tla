--------------------------- MODULE MCBlockDecode ---------------------------
(***************************************************************************)
(* Files of up to three blocks on three threads.                           *)
(***************************************************************************)
EXTENDS BlockDecode, TLC

CONSTANTS w1, w2, w3

Fine   == [declared |-> TRUE, run |-> "ok", size |-> TRUE, crc |-> TRUE]
Block(codec, len, checks) == [codec |-> codec, len |-> len, checks |-> checks]

\* A cheap codec and one that needs most of the budget for one full block.
MCFactor == ("store" :> 1 @@ "ppm" :> 4)

\* What can go wrong with a block, in the order it is looked for.
MCFaulty ==
  {Block("store", 1, c) : c \in
     {Fine, [Fine EXCEPT !.declared = FALSE, !.crc = FALSE], [Fine EXCEPT !.run = "panic"],
      [Fine EXCEPT !.run = "error", !.size = FALSE], [Fine EXCEPT !.size = FALSE, !.crc = FALSE],
      [Fine EXCEPT !.crc = FALSE]}}

\* Blocks that differ in what they need, one of them more than there is.
MCCosts == {Block("store", 1, Fine), Block("store", 2, Fine), Block("ppm", 1, Fine), Block("ppm", 2, Fine)}

\* Both at once.
MCBlocks == MCFaulty \cup MCCosts

MCWorkers3 == {w1, w2, w3}
=============================================================================
