-------------------------- MODULE BlockDecodeProofs --------------------------
(***************************************************************************)
(* Proofs about BlockDecode for any number of blocks and threads and any   *)
(* schedule.                                                               *)
(***************************************************************************)
EXTENDS BlockDecode, SequenceTheorems

\* However much memory the blocks need, a group has at least one block, at
\* most one for each thread, and none past the end of the file.
LEMMA CutBounds ==
  ASSUME Threads \in Nat \ {0}, blocks \in Seq(BlockSet), NEW i \in 1..Len(blocks), NEW total
  PROVE  /\ Cut(i, total) \in 1 .. Len(blocks) - i + 1
         /\ Cut(i, total) <= Threads
<1> DEFINE most == IF Len(blocks) - i + 1 < Threads THEN Len(blocks) - i + 1 ELSE Threads
           over == {t \in 1 .. most - 1 : total[t + 1] > Budget}
<1>1. most \in 1 .. Len(blocks) - i + 1 /\ most <= Threads
  BY LenProperties
<1>2. CASE over = {}
  BY <1>1, <1>2 DEF Cut
<1>3. CASE over # {}
  <2>1. over \subseteq Nat
    BY <1>1
  <2>2. Least(over) \in over
    <3> HIDE DEF over
    <3> QED
      BY <1>3, <2>1, LeastIsLeast
  <2> QED
    BY <1>1, <1>3, <2>2 DEF Cut
<1> QED
  BY <1>2, <1>3

\* A group of more than one block is within the budget, by the total the code
\* computes.
LEMMA CutWithinBudget ==
  ASSUME Threads \in Nat \ {0}, blocks \in Seq(BlockSet), NEW i \in 1..Len(blocks), NEW total,
         total[Cut(i, total)] \in Nat, Budget \in Nat, Cut(i, total) > 1
  PROVE  total[Cut(i, total)] <= Budget
<1> DEFINE most == IF Len(blocks) - i + 1 < Threads THEN Len(blocks) - i + 1 ELSE Threads
           over == {t \in 1 .. most - 1 : total[t + 1] > Budget}
           cut  == Cut(i, total)
<1>1. cut \in 1..most
  <2>1. most \in Nat /\ most >= 1 /\ over \subseteq Nat
    BY LenProperties
  <2>2. CASE over = {}
    BY <2>1, <2>2 DEF Cut
  <2>3. CASE over # {}
    <3>1. Least(over) \in over
      <4> HIDE DEF over
      <4> QED
        BY <2>1, <2>3, LeastIsLeast
    <3> QED
      BY <2>1, <2>3, <3>1 DEF Cut
  <2> QED
    BY <2>2, <2>3
<1>2. cut - 1 \notin over
  <2>1. CASE over = {}
    BY <2>1
  <2>2. CASE over # {}
    <3>1. cut = Least(over)
      BY <2>2 DEF Cut
    <3>2. \A y \in over : cut <= y
      <4>1. over \subseteq Nat
        BY LenProperties
      <4> HIDE DEF over, cut
      <4> QED
        BY <2>2, <3>1, <4>1, LeastIsLeast
    <3> HIDE DEF over
    <3> QED
      BY <1>1, <3>2
  <2> QED
    BY <2>1, <2>2
<1>3. cut - 1 \in 1..most-1 /\ cut \in Nat /\ cut - 1 + 1 = cut
  BY <1>1, LenProperties
<1>4. ~(total[cut - 1 + 1] > Budget)
  BY <1>2, <1>3
<1> HIDE DEF cut
<1>5. ~(total[cut] > Budget)
  BY <1>3, <1>4
<1>6. total[cut] <= Budget
  <2>1. total[cut] \in Nat
    BY DEF cut
  <2> QED
    BY <1>5, <2>1
<1> QED
  BY <1>6 DEF cut

USE DEF input, Positions, End

\* A group has a block at least, and no more than there are threads or blocks
\* left.
LEMMA Group ==
  ASSUME blocks \in Seq(BlockSet), NEW i \in 1..Len(blocks)
  PROVE  GroupWithinBudget(i) \in 1 .. Len(blocks) - i + 1 /\ GroupWithinBudget(i) <= Threads
BY CutBounds, DecodeAssumption DEF DecodeAssumption, GroupWithinBudget

\* A block's outcome is success or one of the errors, never a cell state.
LEMMA Outcomes ==
  ASSUME blocks \in Seq(BlockSet), NEW i \in 1..Len(blocks)
  PROVE  DecodeBlock(blocks[i]) \in Errors \cup {"ok"}
<1>1. blocks[i] \in BlockSet
  BY ElementOfSeq
<1>2. blocks[i].checks \in Checks
  BY <1>1, DecodeAssumption DEF DecodeAssumption
<1> QED
  BY <1>2 DEF DecodeBlock, Checks, Errors

\* Where the walk over the file is.
Place ==
  /\ blocks \in Seq(BlockSet) /\ digest \in {"none", "right", "wrong"}
  /\ pc \in {"group", "decode", "emit", "done"}
  /\ next \in 1..Len(blocks)+1 /\ last \in 0..Len(blocks)
  /\ pc \in {"decode", "emit"} => next <= last
  /\ result = "none" <=> pc # "done"

\* A cell of the group says that its block is waiting or with a worker, or
\* what decoding it gave; one block is with one worker.
Cells ==
  /\ cell \in [Positions -> Errors \cup {"none", "waiting", "running", "ok"}]
  /\ busy \in [Workers -> Positions \cup {Idle}]
  /\ pc \in {"decode", "emit"} => \A i \in next..last :
       cell[i] = DecodeBlock(blocks[i]) \/ (pc = "decode" /\ cell[i] \in {"waiting", "running"})
  /\ pc = "decode" => \A i \in Positions : i \notin next..last => cell[i] = "none"
  /\ \A w \in Workers : busy[w] # Idle =>
       pc = "decode" /\ busy[w] \in next..last /\ cell[busy[w]] = "running"
  /\ \A v, w \in Workers : busy[v] = busy[w] /\ busy[v] # Idle => v = w

Progress == \A i \in 1..next-1 : DecodeBlock(blocks[i]) = "ok"

Reported ==
  pc = "done" =>
    \/ result = "io" /\ next <= Len(blocks) /\ DecodeBlock(blocks[next]) = "ok"
    \/ next <= Len(blocks) /\ result = DecodeBlock(blocks[next]) /\ result \in Errors
    \/ next = Len(blocks) + 1 /\ result = IF digest = "wrong" THEN "digest" ELSE "ok"

Streams ==
  /\ written \in Seq(Nat) /\ Len(written) = next - 1
  /\ \A k \in 1..next-1 : written[k] = k
  /\ digest # "none" => hashed = written \/ (result = "io" /\ hashed = Append(written, next))

IInv == Place /\ Cells /\ Progress /\ Reported /\ Streams

\* The invariant holds before the first group is taken.
LEMMA InitInv == Init => IInv
<1> SUFFICES ASSUME Init PROVE IInv
  OBVIOUS
<1>1. blocks \in Seq(BlockSet)
  <2>1. PICK n \in 0..MaxBlocks : blocks \in [1..n -> BlockSet]
    BY DEF Init
  <2>2. n \in Nat
    BY DecodeAssumption DEF DecodeAssumption
  <2> QED
    BY <2>1, <2>2, SeqDef
<1>2. Len(blocks) \in Nat
  BY <1>1, LenProperties
<1>3. Place
  BY <1>1, <1>2 DEF Init, Place
<1>4. Cells
  BY <1>1, <1>2 DEF Init, Cells, Idle
<1>5. Progress /\ Reported
  BY DEF Init, Progress, Reported
<1>6. Streams
  BY EmptySeq DEF Init, Streams
<1> QED
  BY <1>3, <1>4, <1>5, <1>6 DEF IInv

\* Steps before the group is complete touch neither the output nor the place.
LEMMA WorkStep ==
  ASSUME IInv, NEW w \in Workers, (\E i \in Positions : Start(w, i)) \/ Finish(w)
  PROVE  IInv'
<1> USE DEF IInv
<1>0. pc = "decode" /\ UNCHANGED <<blocks, digest, pc, next, last, written, hashed, result>>
  BY DEF Start, Finish
<1>1. Place' /\ Progress' /\ Reported' /\ Streams'
  BY <1>0 DEF Place, Progress, Reported, Streams
<1>2. Cells'
  <2>1. ASSUME NEW i \in Positions, Start(w, i) PROVE Cells'
    <3>1. cell' \in [Positions -> Errors \cup {"none", "waiting", "running", "ok"}]
          /\ busy' \in [Workers -> Positions \cup {Idle}]
      BY <1>0, <2>1 DEF Start, Cells
    <3>2. i \in next..last
      <4>1. cell[i] = "waiting"
        BY <2>1 DEF Start
      <4> QED
        BY <1>0, <4>1 DEF Cells, Place
    <3> QED
      BY <1>0, <2>1, <3>1, <3>2 DEF Start, Cells, Idle
  <2>2. CASE Finish(w)
    <3>1. busy[w] \in Positions /\ busy[w] \in next..last
      BY <2>2 DEF Finish, Cells
    <3>2. DecodeBlock(blocks[busy[w]]) \in Errors \cup {"ok"}
      BY <3>1, Outcomes DEF Place
    <3>3. cell' \in [Positions -> Errors \cup {"none", "waiting", "running", "ok"}]
          /\ busy' \in [Workers -> Positions \cup {Idle}]
      BY <1>0, <2>2, <3>1, <3>2 DEF Finish, Cells
    <3>4. \A i \in Positions : cell'[i] = IF i = busy[w] THEN DecodeBlock(blocks[i]) ELSE cell[i]
      BY <1>0, <2>2, <3>1 DEF Finish, Cells
    <3>5. \A v \in Workers : busy'[v] = IF v = w THEN Idle ELSE busy[v]
      BY <2>2 DEF Finish, Cells
    <3> QED
      BY <1>0, <2>2, <3>1, <3>3, <3>4, <3>5 DEF Finish, Cells, Place
  <2> QED
    BY <2>1, <2>2
<1> QED
  BY <1>1, <1>2

\* Taking a group: all before it are good, and its cells wait.
LEMMA TakeGroupStep == ASSUME IInv, TakeGroup PROVE IInv'
<1> USE DEF IInv
<1>0. /\ pc = "group" /\ pc' = "decode" /\ next \in 1..Len(blocks)
      /\ UNCHANGED <<blocks, digest, next, busy, written, hashed, result>>
  BY LenProperties DEF TakeGroup, Place
<1>1. last' \in next..Len(blocks)
  BY <1>0, Group, LenProperties DEF TakeGroup, Place
<1>2. Place'
  BY <1>0, <1>1, LenProperties DEF Place
<1>3. Cells'
  BY <1>0, <1>1 DEF TakeGroup, Cells
<1>4. Progress' /\ Reported' /\ Streams'
  BY <1>0 DEF Progress, Reported, Streams, Place
<1> QED
  BY <1>2, <1>3, <1>4

\* Collecting: every cell of the group holds the verdict of its block.
LEMMA CollectStep == ASSUME IInv, Collect PROVE IInv'
<1> USE DEF IInv
<1>0. /\ pc = "decode" /\ pc' = "emit"
      /\ UNCHANGED <<blocks, digest, next, last, cell, busy, written, hashed, result>>
  BY DEF Collect
<1>1. Cells'
  <2>1. \A w \in Workers : busy[w] = Idle
    BY <1>0 DEF Collect, Cells
  <2>2. \A i \in next..last : cell[i] = DecodeBlock(blocks[i])
    BY <1>0 DEF Collect, Cells
  <2> QED
    BY <1>0, <2>1, <2>2 DEF Cells
<1> QED
  BY <1>0, <1>1 DEF Place, Progress, Reported, Streams

\* Emitting: a good result lengthens the output, the first bad one is
\* reported.
LEMMA EmitStep == ASSUME IInv, Emit PROVE IInv'
<1> USE DEF IInv
<1>0. /\ pc = "emit" /\ next \in 1..Len(blocks) /\ next <= last /\ last \in 1..Len(blocks)
      /\ UNCHANGED <<blocks, digest, last, cell, busy>>
      /\ cell[next] = DecodeBlock(blocks[next])
      /\ result = "none" /\ \A w \in Workers : busy[w] = Idle
  BY LenProperties DEF Emit, Place, Cells
<1>1. CASE /\ cell[next] = "ok" /\ written' = Append(written, next) /\ next' = next + 1
           /\ pc' = IF next = last THEN "group" ELSE "emit"
           /\ hashed' = IF digest = "none" THEN hashed ELSE Append(hashed, next)
           /\ UNCHANGED result
  <2>1. Place'
    BY <1>0, <1>1, LenProperties DEF Place
  <2>2. Cells'
    <3>1. \A i \in next'..last : cell[i] = DecodeBlock(blocks[i])
      BY <1>0, <1>1 DEF Cells
    <3>2. pc' # "decode"
      BY <1>1
    <3>3. /\ cell' \in [Positions' -> Errors \cup {"none", "waiting", "running", "ok"}]
          /\ busy' \in [Workers -> Positions' \cup {Idle}]
      BY <1>0 DEF Cells
    <3>4. \A w \in Workers : busy'[w] = Idle
      BY <1>0
    <3>5. \A i \in next'..last' : cell'[i] = DecodeBlock(blocks'[i])
      BY <1>0, <3>1
    <3> HIDE DEF IInv
    <3> QED
      BY <3>2, <3>3, <3>4, <3>5 DEF Cells
  <2>3. Progress'
    <3>1. \A i \in 1..next : i \in 1..next-1 \/ i = next
      BY <1>0
    <3>2. \A i \in 1..next : DecodeBlock(blocks[i]) = "ok"
      BY <1>0, <1>1, <3>1 DEF Progress
    <3>3. next' - 1 = next /\ blocks' = blocks
      BY <1>0, <1>1
    <3> HIDE DEF IInv
    <3> QED
      BY <3>2, <3>3 DEF Progress
  <2>4. Reported'
    BY <1>0, <1>1 DEF Reported
  <2>5. Streams'
    <3>1. written' \in Seq(Nat) /\ Len(written') = next /\ written'[next] = next
          /\ \A k \in 1..next-1 : written'[k] = written[k]
      BY <1>0, <1>1, AppendProperties DEF Streams
    <3> QED
      BY <1>0, <1>1, <3>1 DEF Streams
  <2> QED
    BY <2>1, <2>2, <2>3, <2>4, <2>5
<1>2. CASE /\ cell[next] = "ok" /\ pc' = "done" /\ result' = "io" /\ UNCHANGED <<written, next>>
           /\ hashed' = IF digest = "none" THEN hashed ELSE Append(hashed, next)
  BY <1>0, <1>2 DEF Place, Cells, Progress, Reported, Streams
<1>3. CASE cell[next] # "ok" /\ pc' = "done" /\ result' = cell[next] /\ UNCHANGED <<written, hashed, next>>
  <2>1. cell[next] \in Errors
    BY <1>0, <1>3, Outcomes DEF Place
  <2>2. cell[next] # "none" /\ cell[next] # "io"
    BY <2>1 DEF Errors
  <2>3. Place' /\ Cells' /\ Progress' /\ Reported'
    BY <1>0, <1>3, <2>1, <2>2 DEF Place, Cells, Progress, Reported
  <2>4. Streams'
    BY <1>0, <1>3, <2>2 DEF Streams
  <2> QED
    BY <2>3, <2>4
<1> QED
  BY <1>1, <1>2, <1>3 DEF Emit

\* The hash has seen every block by the time it is compared.
LEMMA VerifyStep == ASSUME IInv, Verify PROVE IInv'
<1> USE DEF IInv
<1>1. Place' /\ Cells' /\ Progress' /\ Reported'
  BY LenProperties DEF Verify, Place, Cells, Progress, Reported
<1>2. Streams'
  BY DEF Verify, Streams, Place
<1> QED
  BY <1>1, <1>2

\* No step breaks the invariant.
LEMMA InvStep == IInv /\ [Next]_vars => IInv'
<1> SUFFICES ASSUME IInv, [Next]_vars PROVE IInv'
  OBVIOUS
<1>1. CASE UNCHANGED vars
  BY <1>1 DEF vars, IInv, Place, Cells, Progress, Reported, Streams
<1> QED
  BY <1>1, TakeGroupStep, WorkStep, CollectStep, EmitStep, VerifyStep DEF Next

\* Whatever the schedule, the invariant holds in every state.
THEOREM Inductive == Spec => []IInv
BY InitInv, InvStep, PTL DEF Spec

\* The output is the file's blocks in order, and the hash saw the same.
THEOREM OutputStaysInOrder == Spec => []OutputInOrder
<1>1. IInv => OutputInOrder
  <2> SUFFICES ASSUME IInv PROVE written = [k \in 1..next-1 |-> k]
    BY DEF OutputInOrder, IInv, Streams
  <2> QED
    BY SeqDef, LenProperties DEF IInv, Streams, Place
<1> QED
  BY <1>1, Inductive, PTL

\* No block is still being decoded once its group is collected.
THEOREM AlwaysJoined == Spec => []Joined
<1>1. IInv => Joined
  BY DEF IInv, Cells, Joined
<1> QED
  BY <1>1, Inductive, PTL

\* The outcome is that of the first block that has an error, whatever the
\* schedule of any number of threads over any number of blocks.
THEOREM FirstErrorAlwaysWins == Spec => []FirstErrorWins
<1>1. IInv => FirstErrorWins
  <2> SUFFICES ASSUME IInv, pc = "done" PROVE FirstErrorWins
    BY DEF FirstErrorWins
  <2> USE DEF IInv
  <2>0. \A i \in 1..next-1 : i \notin Bad
    BY DEF Progress, Bad
  <2>1. CASE result = "io"
    BY <2>0, <2>1 DEF FirstErrorWins
  <2>2. CASE next <= Len(blocks) /\ result = DecodeBlock(blocks[next]) /\ result \in Errors
    <3>1. next \in Bad
      BY <2>2 DEF Bad, Errors, Place
    <3>2. Bad \subseteq Nat /\ Least(Bad) \in Bad /\ \A y \in Bad : Least(Bad) <= y
      <4>1. Bad \subseteq Nat
        BY DEF Bad
      <4> QED
        BY <3>1, <4>1, LeastIsLeast
    <3>3. Least(Bad) = next
      <4>1. Least(Bad) <= next /\ Least(Bad) \in 1..Len(blocks)
        BY <3>1, <3>2 DEF Bad
      <4> QED
        BY <2>0, <3>2, <4>1 DEF Place
    <3> QED
      BY <2>0, <2>2, <3>1, <3>3 DEF FirstErrorWins, Errors
  <2>3. CASE next = Len(blocks) + 1 /\ result = IF digest = "wrong" THEN "digest" ELSE "ok"
    <3>1. Bad = {}
      BY <2>0, <2>3 DEF Bad
    <3> QED
      BY <2>0, <2>3, <3>1 DEF FirstErrorWins
  <2> QED
    BY <2>1, <2>2, <2>3 DEF Reported
<1> QED
  BY <1>1, Inductive, PTL

\* The verdicts are one for each block.
LEMMA Verdicts ==
  ASSUME blocks \in Seq(BlockSet)
  PROVE  Len([i \in Positions |-> DecodeBlock(blocks[i])]) = Len(blocks)
<1>1. Len(blocks) \in Nat
  BY LenProperties
<1> QED
  BY <1>1

\* Parallel decoding implements decoding one block after the other.
THEOREM ParallelImplementsSequential == Spec => DecodesSequentially
<1>1. Init => Abs!Init
  BY DEF Init, Abs!Init
<1>2. IInv /\ [Next]_vars => [Abs!Next]_(Abs!vars)
  <2> SUFFICES ASSUME IInv, [Next]_vars PROVE [Abs!Next]_(Abs!vars)
    OBVIOUS
  <2> DEFINE errs == [i \in Positions |-> DecodeBlock(blocks[i])]
             here == Len(written) + 1
             Wrote == \/ written' = Append(written, next) /\ UNCHANGED result
                      \/ result' = "io" /\ UNCHANGED written
  <2>0. /\ Len(errs) = Len(blocks) /\ here = next /\ Len(blocks) \in Nat /\ next \in 1..Len(blocks)+1
        /\ \A i \in 1..Len(blocks) : errs[i] = DecodeBlock(blocks[i])
    BY Verdicts, LenProperties DEF IInv, Place, Streams
  <2>1. UNCHANGED <<blocks, digest>> => UNCHANGED <<errs, digest # "wrong">>
    OBVIOUS
  <2>2. CASE UNCHANGED <<blocks, digest, written, result>>
    BY <2>1, <2>2 DEF Abs!vars
  <2>3. CASE Emit
    <3>1. /\ next \in 1..Len(blocks) /\ cell[next] = DecodeBlock(blocks[next]) /\ result = "none"
          /\ UNCHANGED <<blocks, digest>>
      BY <2>0, <2>3 DEF Emit, IInv, Place, Cells
    <3>2. CASE cell[next] = "ok" /\ Wrote
      <4>0. here <= Len(errs) /\ errs[here] = "ok" /\ Append(written, next) = Append(written, here)
        <5>1. here <= Len(errs)
          BY <2>0, <3>1
        <5>2. errs[next] = "ok"
          BY <2>0, <3>1, <3>2
        <5> HIDE DEF errs, here
        <5> QED
          BY <2>0, <5>1, <5>2
      <4>1. Abs!Write
        BY <3>2, <4>0, Zenon DEF Abs!Write
      <4> QED
        BY <2>1, <3>1, <4>1 DEF Abs!Next
    <3>3. CASE cell[next] # "ok" /\ result' = cell[next] /\ UNCHANGED written
      <4>1. Abs!Stop
        BY <2>0, <3>1, <3>3 DEF Abs!Stop
      <4> QED
        BY <2>1, <3>1, <4>1 DEF Abs!Next
    <3>4. \/ cell[next] = "ok" /\ Wrote
          \/ cell[next] # "ok" /\ result' = cell[next] /\ UNCHANGED written
      BY <2>3 DEF Emit
    <3> QED
      BY <3>2, <3>3, <3>4
  <2>4. CASE Verify
    <3>1. next = Len(blocks) + 1 /\ result = "none" /\ UNCHANGED <<blocks, digest, written>>
          /\ result' = IF digest = "wrong" THEN "digest" ELSE "ok"
      BY <2>0, <2>4 DEF Verify, IInv, Place
    <3>2. Abs!Stop
      BY <2>0, <3>1 DEF Abs!Stop
    <3> QED
      BY <2>1, <3>1, <3>2 DEF Abs!Next
  <2> QED
    BY <2>2, <2>3, <2>4 DEF Next, TakeGroup, Start, Finish, Collect, vars
<1> QED
  BY <1>1, <1>2, Inductive, PTL DEF Spec, Abs!Spec, DecodesSequentially

---------------------------------------------------------------------------
(* Types, and what is written.                                             *)

\* Every reachable state is well typed.
THEOREM TypeCorrect == Spec => []TypeOK
<1> DEFINE Fed == hashed \in Seq(Positions)
<1>1. Init => Fed
  BY DEF Init
<1>2. IInv /\ Fed /\ [Next]_vars => Fed'
  <2> SUFFICES ASSUME IInv, Fed, [Next]_vars PROVE Fed'
    OBVIOUS
  <2>1. UNCHANGED blocks
    BY DEF Next, TakeGroup, Start, Finish, Collect, Emit, Verify, vars
  <2>2. CASE UNCHANGED hashed
    BY <2>1, <2>2
  <2>3. CASE Emit
    <3>1. next \in Positions
      BY <2>3 DEF Emit, IInv, Place
    <3>2. hashed' = hashed \/ hashed' = Append(hashed, next)
      BY <2>3 DEF Emit
    <3>3. Append(hashed, next) \in Seq(Positions)
      BY <3>1, AppendProperties
    <3> QED
      BY <2>1, <3>2, <3>3
  <2> QED
    BY <2>2, <2>3 DEF Next, TakeGroup, Start, Finish, Collect, Verify, vars
<1>3. IInv /\ Fed => TypeOK
  <2> SUFFICES ASSUME IInv, Fed PROVE TypeOK
    OBVIOUS
  <2>1. written \in Seq(Positions)
    <3>1. \A k \in 1..Len(written) : written[k] \in Positions
      BY LenProperties, SMTT(30) DEF IInv, Streams, Place
    <3> QED
      <4>1. written = [k \in 1..Len(written) |-> written[k]] /\ Len(written) \in Nat
        BY LenProperties DEF IInv, Streams
      <4> QED
        BY <3>1, <4>1, IsASeq
  <2>2. result \in Errors \cup {"none", "ok", "io", "digest"}
    BY DEF IInv, Place, Reported
  <2> QED
    BY <2>1, <2>2 DEF TypeOK, IInv, Place, Cells
<1> QED
  BY <1>1, <1>2, <1>3, Inductive, PTL DEF Spec

\* Only a block that passed every check is ever written, whichever thread
\* decoded it (adaptive.rs: decode_block and write_blocks).
THEOREM NothingCorruptWritten == Spec => []OnlySoundWritten
<1>1. IInv => OnlySoundWritten
  <2> SUFFICES ASSUME IInv, NEW k \in 1..Len(written)
               PROVE  blocks[written[k]].checks = [declared |-> TRUE, run |-> "ok", size |-> TRUE, crc |-> TRUE]
    BY DEF OnlySoundWritten
  <2>1. written[k] = k /\ k \in 1..Len(blocks) /\ DecodeBlock(blocks[k]) = "ok"
    BY LenProperties DEF IInv, Streams, Progress, Place
  <2>2. blocks[k].checks \in Checks
    BY <2>1, ElementOfSeq, DecodeAssumption DEF DecodeAssumption, IInv, Place
  <2>3. blocks[k].checks.declared /\ blocks[k].checks.run = "ok" /\ blocks[k].checks.size /\ blocks[k].checks.crc
    BY <2>1, <2>2 DEF DecodeBlock, Checks
  <2> QED
    BY <2>1, <2>2, <2>3 DEF Checks
<1> QED
  BY <1>1, Inductive, PTL

---------------------------------------------------------------------------
(* The budget.                                                             *)

\* What a block costs, with no saturation.
Cost(k) == blocks[k].len * Factor[blocks[k].codec]

\* What a block costs to decode is a number, whatever its codec.
LEMMA CostIsNat ==
  ASSUME blocks \in Seq(BlockSet), NEW k \in 1..Len(blocks)
  PROVE  Cost(k) \in Nat
<1>1. blocks[k] \in BlockSet
  BY ElementOfSeq
<1>2. blocks[k].len \in Nat /\ Factor[blocks[k].codec] \in Nat
  BY <1>1, DecodeAssumption DEF DecodeAssumption
<1>3. \A a, b \in Nat : a * b \in Nat
  OBVIOUS
<1> QED BY <1>2, <1>3 DEF Cost

\* Sums that saturate are the sums, saturated.
LEMMA SaturatedSum ==
  ASSUME NEW a \in Nat, NEW b \in Nat
  PROVE  Saturate(Saturate(a) + Saturate(b)) = Saturate(a + b)
BY DecodeAssumption DEF Saturate, DecodeAssumption

\* The total the loop adds up is the working memory needed, saturated.
LEMMA TotalIsNeed ==
  ASSUME blocks \in Seq(BlockSet), NEW i \in 1..Len(blocks), NEW n \in 0 .. Len(blocks) - i + 1
  PROVE  Need(i, i + n - 1) \in Nat /\ Total(i)[n] = Saturate(Need(i, i + n - 1))
<1> DEFINE N    == Len(blocks) - i + 1
           cost == [k \in 1..N |-> Cost(i + k - 1)]
<1>0. Len(blocks) \in Nat /\ N \in Nat /\ n \in Nat /\ n <= N
  <2>1. Len(blocks) \in Nat
    BY LenProperties
  <2> QED BY <2>1
<1>1. cost \in [1..N -> Nat] /\ \A k \in 1..N : cost[k] = Cost(i + k - 1)
  <2>1. \A k \in 1..N : i + k - 1 \in 1..Len(blocks)
    BY <1>0
  <2> HIDE DEF N
  <2>2. \A k \in 1..N : Cost(i + k - 1) \in Nat
    BY <2>1, CostIsNat
  <2> QED BY <2>2
<1> HIDE DEF N, cost
<1>2. PICK f \in [0..N -> Nat] : f[0] = 0 /\ \A k \in 1..N : f[k] = f[k - 1] + cost[k]
  BY <1>0, <1>1, Sums
<1>3. \A k \in 1..N : f[k] = f[k - 1] + Cost(i + k - 1) /\ f[k - 1] \in Nat /\ Cost(i + k - 1) \in Nat
  <2> SUFFICES ASSUME NEW k \in 1..N PROVE f[k] = f[k - 1] + cost[k] /\ f[k - 1] \in Nat /\ cost[k] \in Nat
    BY <1>1
  <2>1. k - 1 \in 0..N
    BY <1>0
  <2> QED BY <1>1, <1>2, <2>1
<1>4. Total(i)[n] = Saturate(f[n])
  <2> DEFINE AddsUp(s) == s = [k \in 0..N |-> IF k = 0 THEN 0 ELSE Saturate(s[k - 1] + DecodeCost(blocks[i + k - 1]))]
             g == [k \in 0..N |-> Saturate(f[k])]
             P == {k \in 0..N : Total(i)[k] = Saturate(f[k])}
  <2>1. Saturate(0) = 0
    BY DecodeAssumption DEF Saturate, DecodeAssumption
  <2>2. \A k \in 1..N : Saturate(f[k]) = Saturate(Saturate(f[k - 1]) + DecodeCost(blocks[i + k - 1]))
    <3> SUFFICES ASSUME NEW k \in 1..N
                 PROVE  Saturate(f[k]) = Saturate(Saturate(f[k - 1]) + DecodeCost(blocks[i + k - 1]))
      OBVIOUS
    <3>1. DecodeCost(blocks[i + k - 1]) = Saturate(Cost(i + k - 1))
      BY DEF DecodeCost, Cost
    <3> QED BY <1>3, <3>1, SaturatedSum, ZenonT(60)
  <2>3. AddsUp(g)
    <3>1. \A k \in 1..N : g[k - 1] = Saturate(f[k - 1])
      BY <1>0
    <3> QED BY <1>2, <2>1, <2>2, <3>1, <1>0
  <2>4. Total(i) = CHOOSE s : AddsUp(s)
    BY DEF Total, N
  <2>5. AddsUp(Total(i))
    <3> HIDE DEF AddsUp, g
    <3> QED BY <2>3, <2>4
  <2>6. 0 \in P
    BY <1>0, <1>2, <2>1, <2>5
  <2>7. \A k \in 1..N : k - 1 \in P => k \in P
    <3> SUFFICES ASSUME NEW k \in 1..N, k - 1 \in P PROVE k \in P
      OBVIOUS
    <3>1. k \in 0..N /\ k # 0
      BY <1>0
    <3>2. Total(i)[k] = Saturate(Total(i)[k - 1] + DecodeCost(blocks[i + k - 1]))
      BY <2>5, <3>1, Zenon
    <3> QED BY <2>2, <3>1, <3>2
  <2>8. 0..N \subseteq P
    <3> HIDE DEF P
    <3> QED BY <1>0, <2>6, <2>7, UpTo
  <2> QED BY <1>0, <2>8
<1>5. Need(i, i + n - 1) = f[n]
  <2> DEFINE Adds(s) == s = [k \in 0..n |-> IF k = 0 THEN 0 ELSE s[k - 1] + Cost(i + k - 1)]
             g == [k \in 0..n |-> f[k]]
             need == CHOOSE s : Adds(s)
             P == {k \in 0..n : need[k] = f[k]}
  <2>1. Adds(g)
    <3>1. \A k \in 1..n : g[k - 1] = f[k - 1] /\ k \in 1..N
      BY <1>0
    <3> QED BY <1>2, <1>3, <3>1, <1>0
  <2>2. Adds(need)
    <3> HIDE DEF Adds, g
    <3> QED BY <2>1
  <2>3. Need(i, i + n - 1) = need[n]
    <3>1. (i + n - 1) - i + 1 = n
      BY <1>0
    <3> QED BY <3>1 DEF Need, Cost
  <2> HIDE DEF need
  <2>4. 0 \in P
    BY <1>0, <1>2, <2>2
  <2>5. \A k \in 1..n : k - 1 \in P => k \in P
    <3> SUFFICES ASSUME NEW k \in 1..n, need[k - 1] = f[k - 1] PROVE need[k] = f[k]
      OBVIOUS
    <3>1. need[k] = need[k - 1] + Cost(i + k - 1)
      <4>1. k \in 0..n /\ k # 0
        BY <1>0
      <4> QED BY <2>2, <4>1, Zenon
    <3>2. k \in 1..N
      BY <1>0
    <3> QED BY <1>3, <3>1, <3>2
  <2>6. 0..n \subseteq P
    <3> HIDE DEF P
    <3> QED BY <1>0, <2>4, <2>5, UpTo
  <2> QED BY <1>0, <2>3, <2>6
<1> QED BY <1>0, <1>2, <1>4, <1>5

\* A group that is neither as large as the pool nor the rest of the file ends
\* before a block that takes the total over the budget.
LEMMA CutAsLate ==
  ASSUME blocks \in Seq(BlockSet), NEW i \in 1..Len(blocks), NEW total
  PROVE  \/ Cut(i, total) = Threads \/ Cut(i, total) = Len(blocks) - i + 1
         \/ Cut(i, total) < Len(blocks) - i + 1 /\ total[Cut(i, total) + 1] > Budget
<1> DEFINE most == IF Len(blocks) - i + 1 < Threads THEN Len(blocks) - i + 1 ELSE Threads
           over == {t \in 1 .. most - 1 : total[t + 1] > Budget}
<1>0. Len(blocks) \in Nat /\ Threads \in Nat
  BY LenProperties, DecodeAssumption DEF DecodeAssumption
<1>1. CASE over = {}
  BY <1>1 DEF Cut
<1>2. CASE over # {}
  <2>1. over \subseteq Nat
    BY <1>0
  <2>2. Least(over) \in over
    <3> HIDE DEF over
    <3> QED BY <1>2, <2>1, LeastIsLeast
  <2>3. Cut(i, total) = Least(over)
    BY <1>2 DEF Cut
  <2>4. most <= Len(blocks) - i + 1
    BY <1>0
  <2> QED BY <1>0, <2>2, <2>3, <2>4
<1> QED BY <1>1, <1>2

\* The group that is decoding is the one the loop cut off.
Grouped == pc = "decode" => next \in 1..Len(blocks) /\ last = next + GroupWithinBudget(next) - 1

\* Only the loop that takes a group chooses where it ends.
LEMMA GroupedStep == ASSUME IInv, Grouped, [Next]_vars PROVE Grouped'
<1>1. UNCHANGED blocks
  BY DEF Next, TakeGroup, Start, Finish, Collect, Emit, Verify, vars
<1>2. CASE TakeGroup
  <2>1. /\ pc = "group" /\ next <= Len(blocks) /\ next' = next
        /\ last' = next + GroupWithinBudget(next) - 1
    BY <1>2 DEF TakeGroup
  <2>2. next \in 1..Len(blocks)
    BY <2>1, LenProperties DEF IInv, Place
  <2>3. GroupWithinBudget(next)' = GroupWithinBudget(next)
    BY <1>1, <2>1 DEF GroupWithinBudget, Total, Cut, DecodeCost, Threads
  <2> QED BY <1>1, <2>1, <2>2, <2>3 DEF Grouped
<1>3. CASE UNCHANGED <<pc, next, last>>
  <2>1. GroupWithinBudget(next)' = GroupWithinBudget(next)
    BY <1>1, <1>3 DEF GroupWithinBudget, Total, Cut, DecodeCost, Threads
  <2> QED BY <1>1, <1>3, <2>1 DEF Grouped
<1>4. CASE pc' # "decode"
  BY <1>4 DEF Grouped
<1> QED BY <1>2, <1>3, <1>4 DEF Next, Start, Finish, Collect, Emit, Verify, vars

\* The blocks that decode at once need no more memory than the budget, or are
\* one block; each has a thread; and no block that would fit is left out,
\* whatever the sizes, the codecs and the number of threads (adaptive.rs:
\* write_blocks).
THEOREM GroupsKeepBudget == Spec => []BudgetKept
<1>1. Init => Grouped
  BY DEF Init, Grouped
<1>2. IInv /\ Grouped => BudgetKept
  <2> SUFFICES ASSUME IInv, Grouped, pc = "decode" PROVE BudgetKept
    BY DEF BudgetKept
  <2> DEFINE total == Total(next)
             cut   == Cut(next, total)
             rest  == Len(blocks) - next + 1
  <2>0. blocks \in Seq(BlockSet) /\ Len(blocks) \in Nat /\ next \in 1..Len(blocks) /\ Threads \in Nat \ {0}
        /\ Budget \in Nat /\ MaxUsize \in Nat /\ Budget < MaxUsize
    BY LenProperties, DecodeAssumption DEF IInv, Place, Grouped, DecodeAssumption
  <2>1. last = next + cut - 1 /\ cut \in 1..rest /\ cut <= Threads
    BY <2>0, CutBounds DEF Grouped, GroupWithinBudget
  <2>2. ASSUME NEW n \in 0..rest
        PROVE  /\ Need(next, next + n - 1) \in Nat /\ total[n] \in Nat
               /\ total[n] <= Budget <=> Need(next, next + n - 1) <= Budget
    <3>1. Need(next, next + n - 1) \in Nat /\ total[n] = Saturate(Need(next, next + n - 1))
      BY <2>0, TotalIsNeed
    <3> QED BY <2>0, <3>1 DEF Saturate
  <2> HIDE DEF total, cut
  <2>3. last = next \/ Need(next, last) <= Budget
    <3>1. total[cut] \in Nat
      BY <2>0, <2>1, <2>2
    <3>2. cut > 1 => total[cut] <= Budget
      BY <2>0, <3>1, CutWithinBudget DEF cut
    <3> QED BY <2>0, <2>1, <2>2, <3>2
  <2>4. last = Len(blocks) \/ last - next + 1 = Threads \/ Need(next, last + 1) > Budget
    <3>1. cut = Threads \/ cut = rest \/ (cut < rest /\ total[cut + 1] > Budget)
      BY <2>0, CutAsLate DEF cut
    <3>2. cut < rest => /\ Need(next, next + (cut + 1) - 1) \in Nat /\ total[cut + 1] \in Nat
                        /\ total[cut + 1] <= Budget <=> Need(next, next + (cut + 1) - 1) <= Budget
      BY <2>0, <2>1, <2>2, SMTT(30)
    <3>3. next + (cut + 1) - 1 = last + 1
      BY <2>0, <2>1
    <3> QED BY <2>0, <2>1, <3>1, <3>2, <3>3
  <2> QED BY <2>0, <2>1, <2>3, <2>4 DEF BudgetKept
<1> QED BY <1>1, <1>2, GroupedStep, Inductive, PTL DEF Spec
=============================================================================
