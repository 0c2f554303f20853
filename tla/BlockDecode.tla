---------------------------- MODULE BlockDecode ----------------------------
(***************************************************************************)
(* Decoding the blocks of a container in parallel (src/adaptive.rs).       *)
(*                                                                         *)
(* write_blocks takes the next blocks whose working memory fits a budget,  *)
(* decodes them on the threads of a pool, which take them in any order and *)
(* finish in any order, and then writes their results in file order; the   *)
(* hash of everything is compared at the end.                              *)
(*                                                                         *)
(* Abstractions.  A block is a record of what its codec and its checks     *)
(* will say; what it decodes to is its position.  The container was parsed *)
(* before (parse_container).                                               *)
(***************************************************************************)
EXTENDS Integers, Sequences, FiniteSets, LeastOf

CONSTANTS
  MaxBlocks,   \* bound on the blocks of a file
  BlockSet,    \* blocks a file may hold
  Workers,     \* threads of the pool
  Factor,      \* decode_cost: working memory per unit of a block, by codec
  Budget,      \* DECODE_MEMORY_BUDGET
  MaxUsize,    \* largest usize: sums and products saturate there
  Faults       \* {"write"} when the output may refuse bytes

Threads == Cardinality(Workers)

Checks == [declared : BOOLEAN, run : {"ok", "error", "panic"}, size : BOOLEAN, crc : BOOLEAN]
Errors == {"length", "error", "panic", "size", "crc"}
Idle   == 0          \* a worker with no block

ASSUME DecodeAssumption ==
  /\ MaxBlocks \in Nat
  /\ \A b \in BlockSet : b.checks \in Checks /\ b.codec \in DOMAIN Factor /\ b.len \in Nat
  /\ \A c \in DOMAIN Factor : Factor[c] \in Nat
  /\ IsFiniteSet(Workers) /\ Threads \in Nat \ {0}
  /\ MaxUsize \in Nat /\ Budget \in 0 .. MaxUsize - 1

VARIABLES
  blocks, digest,  \* the parsed container, and what its footer will say
  pc,              \* "group", "decode", "emit", "done"
  next,            \* first block of the group, or of the rest
  last,            \* last block of the group
  cell,            \* results of the group: "waiting", "running", a result
  busy,            \* the block each worker decodes
  written, hashed, \* what the output and the hasher were given
  result

input == <<blocks, digest>>
vars == <<input, pc, next, last, cell, busy, written, hashed, result>>

Positions == 1..Len(blocks)

---------------------------------------------------------------------------
(* One block.                                                              *)

\* A mutant: a decoder that returns is believed.
DecodeBlockUnchecked(b) ==
  IF ~b.checks.declared THEN "length"
  ELSE IF b.checks.run # "ok" THEN b.checks.run
  ELSE "ok"

\* check_declared_lengths, the codec under catch_unwind, the length, the CRC:
\* the first that objects names the error.
DecodeBlock(b) ==
  IF ~b.checks.declared THEN "length"
  ELSE IF b.checks.run # "ok" THEN b.checks.run
  ELSE IF ~b.checks.size THEN "size"
  ELSE IF ~b.checks.crc THEN "crc"
  ELSE "ok"

Saturate(x) == IF x > MaxUsize THEN MaxUsize ELSE x

DecodeCost(b) == Saturate(b.len * Factor[b.codec])

---------------------------------------------------------------------------
(* The group.                                                              *)

\* Working memory of the first k blocks from position i, as the loop adds it.
Total(i) ==
  LET sum[k \in 0 .. Len(blocks) - i + 1] ==
        IF k = 0 THEN 0 ELSE Saturate(sum[k - 1] + DecodeCost(blocks[i + k - 1]))
  IN  sum

\* As many blocks as there are threads and blocks left, or those before the
\* first that takes the total over the budget; the first is always taken.
Cut(i, total) ==
  LET most == IF Len(blocks) - i + 1 < Threads THEN Len(blocks) - i + 1 ELSE Threads
      over == {t \in 1 .. most - 1 : total[t + 1] > Budget}
  IN  IF over # {} THEN Least(over) ELSE most

\* Mutants: sums that wrap; a group that stops at any block over the budget, so
\* an expensive one is never taken; threads with no block.
WrappingTotal(i) ==
  LET sum[k \in 0 .. Len(blocks) - i + 1] ==
        IF k = 0 THEN 0 ELSE (sum[k - 1] + DecodeCost(blocks[i + k - 1])) % (MaxUsize + 1)
  IN  sum
GroupWrapping(i) == Cut(i, WrappingTotal(i))
GroupMaybeNone(i) == IF Total(i)[1] > Budget THEN 0 ELSE Cut(i, Total(i))
GroupPastEnd(i) == Threads
GroupWithinBudget(i) == Cut(i, Total(i))

Init ==
  /\ blocks \in UNION {[1..n -> BlockSet] : n \in 0..MaxBlocks}
  /\ digest \in {"none", "right", "wrong"}
  /\ pc = "group" /\ next = 1 /\ last = 0
  /\ cell = [i \in 1..Len(blocks) |-> "none"]
  /\ busy = [w \in Workers |-> Idle]
  /\ written = <<>> /\ hashed = <<>>
  /\ result = "none"

TakeGroup ==
  /\ pc = "group" /\ next <= Len(blocks)
  /\ last' = next + GroupWithinBudget(next) - 1
  /\ cell' = [i \in Positions |-> IF i \in next..last' THEN "waiting" ELSE "none"]
  /\ pc' = "decode"
  /\ UNCHANGED <<input, next, busy, written, hashed, result>>

\* A worker takes any block of the group that nobody has.
Start(w, i) ==
  /\ pc = "decode" /\ busy[w] = Idle /\ i \in Positions /\ cell[i] = "waiting"
  /\ busy' = [busy EXCEPT ![w] = i]
  /\ cell' = [cell EXCEPT ![i] = "running"]
  /\ UNCHANGED <<input, pc, next, last, written, hashed, result>>

Finish(w) ==
  /\ pc = "decode" /\ busy[w] # Idle
  /\ cell' = [cell EXCEPT ![busy[w]] = DecodeBlock(blocks[busy[w]])]
  /\ busy' = [busy EXCEPT ![w] = Idle]
  /\ UNCHANGED <<input, pc, next, last, written, hashed, result>>

\* A mutant: a block goes on to the output as soon as any thread has it.
CollectEarly ==
  /\ pc = "decode"
  /\ \E i \in next..last : cell[i] \notin {"waiting", "running"}
  /\ pc' = "emit"
  /\ UNCHANGED <<input, next, last, cell, busy, written, hashed, result>>

\* collect: the group is complete when every one of its results is.
Collect ==
  /\ pc = "decode"
  /\ \A i \in next..last : cell[i] \notin {"waiting", "running"}
  /\ pc' = "emit"
  /\ UNCHANGED <<input, next, last, cell, busy, written, hashed, result>>

End(r) == pc' = "done" /\ result' = r

\* A mutant: results are written as a set, the last of the group first.
EmitBackwards ==
  /\ pc = "emit" /\ next <= last
  /\ IF cell[last] = "ok"
     THEN /\ hashed' = IF digest = "none" THEN hashed ELSE Append(hashed, last)
          /\ written' = Append(written, last)
          /\ next' = next + 1
          /\ pc' = IF next = last THEN "group" ELSE "emit"
          /\ UNCHANGED result
     ELSE End(cell[last]) /\ UNCHANGED <<written, hashed, next>>
  /\ UNCHANGED <<input, last, cell, busy>>

\* The next result of the group: hashed if there is a hash to check, written.
Emit ==
  /\ pc = "emit" /\ next <= last
  /\ \/ /\ cell[next] = "ok"
        /\ hashed' = IF digest = "none" THEN hashed ELSE Append(hashed, next)
        /\ \/ /\ written' = Append(written, next)
              /\ next' = next + 1
              /\ pc' = IF next = last THEN "group" ELSE "emit"
              /\ UNCHANGED result
           \/ /\ "write" \in Faults
              /\ End("io")
              /\ UNCHANGED <<written, next>>
     \/ /\ cell[next] # "ok"
        /\ End(cell[next])
        /\ UNCHANGED <<written, hashed, next>>
  /\ UNCHANGED <<input, last, cell, busy>>

\* A mutant: the hash is compared only when nothing was written.
VerifySkipped ==
  /\ pc = "group" /\ next > Len(blocks)
  /\ End(IF digest = "wrong" /\ written = <<>> THEN "digest" ELSE "ok")
  /\ UNCHANGED <<input, next, last, cell, busy, written, hashed>>

Verify ==
  /\ pc = "group" /\ next > Len(blocks)
  /\ End(IF digest = "wrong" THEN "digest" ELSE "ok")
  /\ UNCHANGED <<input, next, last, cell, busy, written, hashed>>

Next ==
  \/ TakeGroup
  \/ \E w \in Workers : (\E i \in Positions : Start(w, i)) \/ Finish(w)
  \/ Collect \/ Emit \/ Verify

\* The caller is scheduled, and so are the threads of the pool: an idle one
\* takes a block, one that has a block returns.
Fairness ==
  /\ WF_vars(TakeGroup) /\ WF_vars(Collect) /\ WF_vars(Emit) /\ WF_vars(Verify)
  /\ \A w \in Workers : WF_vars(\E i \in Positions : Start(w, i)) /\ WF_vars(Finish(w))

Spec == Init /\ [][Next]_vars /\ Fairness
---------------------------------------------------------------------------
(* Properties.                                                             *)

\* Types of all variables.
TypeOK ==
  /\ blocks \in Seq(BlockSet) /\ digest \in {"none", "right", "wrong"}
  /\ pc \in {"group", "decode", "emit", "done"}
  /\ next \in 1..Len(blocks)+1 /\ last \in 0..Len(blocks)
  /\ cell \in [Positions -> Errors \cup {"none", "waiting", "running", "ok"}]
  /\ busy \in [Workers -> Positions \cup {Idle}]
  /\ written \in Seq(Positions) /\ hashed \in Seq(Positions)
  /\ result \in Errors \cup {"none", "ok", "io", "digest"}

Bad == {i \in Positions : DecodeBlock(blocks[i]) # "ok"}

\* The output holds the first blocks of the file in file order, and the hash
\* was fed the same bytes in the same order, whichever thread decoded what
\* and whichever finished first.
OutputInOrder ==
  /\ written = [k \in 1..next-1 |-> k]
  /\ digest # "none" => hashed = written \/ (result = "io" /\ hashed = Append(written, next))

\* Nothing corrupt reaches the output: what is written has passed the length
\* checks before its codec ran, the codec, and the length and CRC after it.
OnlySoundWritten ==
  \A k \in 1..Len(written) :
    blocks[written[k]].checks = [declared |-> TRUE, run |-> "ok", size |-> TRUE, crc |-> TRUE]

\* What a run reports does not depend on the schedule: the error of the first
\* block that has one, with everything before it written and nothing after;
\* success only if every block decoded, was written and the hash agreed.
FirstErrorWins ==
  pc = "done" =>
    IF Bad # {} /\ result # "io"
    THEN result = DecodeBlock(blocks[Least(Bad)]) /\ next = Least(Bad)
    ELSE /\ \A i \in 1..next-1 : i \notin Bad
         /\ result # "io" => next = Len(blocks) + 1 /\ result = IF digest = "wrong" THEN "digest" ELSE "ok"

\* Working memory the group really needs, with no saturation.
Need(i, j) ==
  LET need[k \in 0 .. j - i + 1] ==
        IF k = 0 THEN 0 ELSE need[k - 1] + blocks[i + k - 1].len * Factor[blocks[i + k - 1].codec]
  IN  need[j - i + 1]

\* The blocks that decode at once stay within the budget, or are one block;
\* there is a thread for each; and no block was left out that would have fit.
BudgetKept ==
  pc = "decode" =>
    /\ last = next \/ Need(next, last) <= Budget
    /\ last - next < Threads
    /\ last = Len(blocks) \/ last - next + 1 = Threads \/ Need(next, last + 1) > Budget

\* No thread still decodes a block when results are looked at, an error is
\* reported or the next group is chosen.
Joined == pc # "decode" => \A w \in Workers : busy[w] = Idle

\* Every file is decoded or refused: no group is empty, and no thread or group
\* waits for another for ever.
Terminates == <>(pc = "done")

\* The parallel decoder implements the sequential one.
Abs == INSTANCE SequentialDecode WITH
  verdicts <- [i \in Positions |-> DecodeBlock(blocks[i])], hashOk <- (digest # "wrong")
DecodesSequentially == Abs!Spec
=============================================================================
