----------------------------- MODULE Container -----------------------------
(***************************************************************************)
(* The container format (src/adaptive.rs): what the writer lays out, what  *)
(* the reader accepts, and the lengths inside a block's payload that are   *)
(* compared with the container's before a codec runs.  A file is the       *)
(* fields the reader takes from it, in the order it takes them, and its    *)
(* length; lengths of headers keep their proportions, not their sizes.     *)
(***************************************************************************)
EXTENDS Integers, Sequences, FiniteSets

CONSTANTS
  Lengths,     \* of inputs that are written
  Packed,      \* of their compressed blocks
  Cuts,        \* how many bytes a file may lose, or win
  Strange,     \* files no writer made: [magic, len, declared, count, heads]
  Payloads,    \* what a block may declare: [payload, expected]
  BlockSize,   \* BLOCK_SIZE
  MaxUsize     \* usize::MAX of the build

VARIABLES
  file,   \* the file
  honest, \* its original length and blocks if a writer made it, else << >>
  read,   \* reader: [status, pos, blocks, reserved]
  block   \* a block's payload, the length expected of it, and the verdict

containerVars == <<file, honest, read, block>>

FileHeader  == 16   \* FILE_HEADER_LEN
BlockHeader == 14   \* BLOCK_HEADER_LEN
Digest      == 32   \* FILE_DIGEST_LEN

Least2(a, b) == IF a < b THEN a ELSE b
DivUp(a, b)  == (a + b - 1) \div b

\* CONTAINER_FORMATS: the formats read, with the length of their footer.
Footer(magic) == IF magic = "NX13" THEN 0 ELSE Digest
Formats == {"NX13", "NX14", "NX15"}

NoBlock == [payload |-> [kind |-> "plain", len |-> 0], expected |-> 0, verdict |-> "no block"]

Codecs == 0..7
Unknown == 8   \* any other codec number

---------------------------------------------------------------------------
(* adaptive_compress                                                       *)

BlockLen(len, index) == Least2(BlockSize, len - index * BlockSize)
SumOf(row) == LET s[k \in 0..Len(row)] == IF k = 0 THEN 0 ELSE s[k - 1] + row[k] IN s[Len(row)]

Laid(len, codecs, packed) ==
  [magic |-> "NX15", declared |-> len, count |-> Len(packed),
   len |-> FileHeader + Len(packed) * BlockHeader + SumOf(packed) + Digest,
   heads |-> [k \in DOMAIN packed |-> [codec |-> codecs[k], orig |-> BlockLen(len, k - 1), comp |-> packed[k]]]]

Write ==
  /\ file = << >> /\ block = NoBlock
  /\ \E len \in Lengths :
       LET n == DivUp(len, BlockSize)
       IN  \E packed \in [1..n -> Packed], codecs \in [1..n -> {0, 7}] :
             /\ file' = Laid(len, codecs, packed)
             /\ honest' = [len |-> len, packed |-> packed, whole |-> TRUE]
  /\ UNCHANGED <<read, block>>

\* The file loses bytes at its end, or some are put behind it.
DamageFile ==
  /\ file # << >> /\ honest # << >> /\ honest.whole /\ read.status = "start"
  /\ \E n \in Cuts :
       /\ n # 0 /\ file.len + n >= 0
       /\ file' = [file EXCEPT !.len = @ + n]
  /\ honest' = [honest EXCEPT !.whole = FALSE]
  /\ UNCHANGED <<read, block>>

---------------------------------------------------------------------------
(* parse_container                                                         *)

Fail(why) == [read EXCEPT !.status = why]
Within(pos, n) == pos + n <= MaxUsize /\ pos + n <= file.len

\* MUTANT: any number of blocks is reserved for.
ParseHeaderReserves ==
  /\ file # << >> /\ read.status = "start"
  /\ LET footer == Footer(file.magic)
     IN  read' =
           IF file.len < 4 \/ file.magic \notin Formats THEN Fail("bad magic")
           ELSE IF file.len < FileHeader + footer THEN Fail("truncated")
           ELSE IF file.declared > MaxUsize THEN Fail("too large")
           ELSE [read EXCEPT !.status = "blocks", !.pos = FileHeader, !.reserved = file.count]
  /\ UNCHANGED <<file, honest, block>>

\* The file's own header; the number of blocks must fit into the file and
\* be that of the declared length.
ParseHeader ==
  /\ file # << >> /\ read.status = "start"
  /\ LET footer == Footer(file.magic)
     IN  read' =
           IF file.len < 4 \/ file.magic \notin Formats THEN Fail("bad magic")
           ELSE IF file.len < FileHeader + footer THEN Fail("truncated")
           ELSE IF file.declared > MaxUsize THEN Fail("too large")
           ELSE IF file.count > (file.len - FileHeader - footer) \div BlockHeader THEN Fail("truncated")
           ELSE IF file.count # DivUp(file.declared, BlockSize) THEN Fail("bad layout")
           ELSE [read EXCEPT !.status = "blocks", !.pos = FileHeader, !.reserved = file.count]
  /\ UNCHANGED <<file, honest, block>>

\* MUTANT: a block may be of any length.
ParseBlockLoose ==
  /\ read.status = "blocks" /\ Len(read.blocks) < file.count
  /\ LET h   == file.heads[Len(read.blocks) + 1]
         pos == read.pos + BlockHeader
     IN  read' =
           IF ~Within(read.pos, 2) THEN Fail("truncated")
           ELSE IF h.codec \notin Codecs THEN Fail("unknown codec")
           ELSE IF ~Within(read.pos, BlockHeader) THEN Fail("truncated")
           ELSE IF ~Within(pos, h.comp) THEN Fail("truncated")
           ELSE [read EXCEPT !.pos = pos + h.comp, !.blocks = Append(@, [codec |-> h.codec, orig |-> h.orig, at |-> pos, comp |-> h.comp])]
  /\ UNCHANGED <<file, honest, block>>

\* One block: only the last may be shorter than BlockSize.
ParseBlock ==
  /\ read.status = "blocks" /\ Len(read.blocks) < file.count
  /\ LET h   == file.heads[Len(read.blocks) + 1]
         pos == read.pos + BlockHeader
     IN  read' =
           IF ~Within(read.pos, 2) THEN Fail("truncated")
           ELSE IF h.codec \notin Codecs THEN Fail("unknown codec")
           ELSE IF ~Within(read.pos, BlockHeader) THEN Fail("truncated")
           ELSE IF h.orig # BlockLen(file.declared, Len(read.blocks)) THEN Fail("bad layout")
           ELSE IF ~Within(pos, h.comp) THEN Fail("truncated")
           ELSE [read EXCEPT !.pos = pos + h.comp, !.blocks = Append(@, [codec |-> h.codec, orig |-> h.orig, at |-> pos, comp |-> h.comp])]
  /\ UNCHANGED <<file, honest, block>>

\* MUTANT: what is behind the footer does not matter.
ParseEndLoose ==
  /\ read.status = "blocks" /\ Len(read.blocks) = file.count
  /\ read' = IF read.pos + Footer(file.magic) > file.len THEN Fail("truncated") ELSE [read EXCEPT !.status = "ok"]
  /\ UNCHANGED <<file, honest, block>>

\* The footer is all that is left.
ParseEnd ==
  /\ read.status = "blocks" /\ Len(read.blocks) = file.count
  /\ LET end == read.pos + Footer(file.magic)
     IN  read' = IF end > file.len THEN Fail("truncated")
                 ELSE IF end < file.len THEN Fail("trailing bytes")
                 ELSE [read EXCEPT !.status = "ok"]
  /\ UNCHANGED <<file, honest, block>>

---------------------------------------------------------------------------
(* check_declared_lengths: a payload is the lengths it declares            *)

\* MUTANT: every lane may hold as much as the first.
LaneLenFirst(expected, lanes, lane) == DivUp(expected, lanes)

LaneLen(expected, lanes, lane) == (expected + lanes - 1 - lane) \div lanes

Verdict(truncated, consistent) ==
  IF truncated THEN "truncated" ELSE IF consistent THEN "ok" ELSE "mismatch"

\* Where each part of a row ends, a head of that size before each.
EndsOf(start, head, sizes) ==
  LET end[k \in 0..Len(sizes)] == IF k = 0 THEN start ELSE end[k - 1] + head + sizes[k] IN end

\* DeltaAns: lanes [symbols, coded], each behind its counts. An empty lane has
\* no bytes, whatever it declares.
DeltaEnds(p) ==
  EndsOf(6, 1032, [k \in DOMAIN p.lanes |-> IF p.lanes[k].symbols > 0 THEN p.lanes[k].coded ELSE 0])
DeltaVerdict(p, expected, end) ==
  LET n == Len(p.lanes)
  IN  Verdict(p.len < 6 \/ \E k \in 1..n : end[k - 1] + 1032 > p.len \/ end[k] > p.len,
              /\ p.declared = expected /\ n > 0
              /\ \A k \in 1..n : p.lanes[k].symbols = LaneLen(expected, n, k - 1))

\* MUTANT: the tokens of the blocks are not counted.
Lz77VerdictUncounted(p, expected, end) ==
  LET n == Len(p.blocks)
  IN  Verdict(p.len < 8 \/ \E k \in 1..n : end[k - 1] + 8 > p.len \/ end[k] > p.len, p.tokens <= expected)

\* Lz77Huffman: blocks [tokens, bytes] that together have the tokens declared.
Lz77Ends(p) == EndsOf(8, 8, [k \in DOMAIN p.blocks |-> p.blocks[k].bytes])
Lz77Verdict(p, expected, end) ==
  LET n == Len(p.blocks)
  IN  Verdict(p.len < 8 \/ \E k \in 1..n : end[k - 1] + 8 > p.len \/ end[k] > p.len,
              p.tokens <= expected /\ SumOf([k \in 1..n |-> p.blocks[k].tokens]) = p.tokens)

\* The other payloads declare their length, a run-length one its runs as well.
Checked(p, expected) ==
  IF p.kind = "delta" THEN DeltaVerdict(p, expected, DeltaEnds(p))
  ELSE IF p.kind = "lz77" THEN Lz77Verdict(p, expected, Lz77Ends(p))
  ELSE IF p.kind = "runs" THEN Verdict(p.len < 9 \/ (p.declared = expected /\ p.len > 9 /\ p.mode = 1 /\ p.len < 14),
                                       p.declared = expected /\ ((p.len > 9 /\ p.mode = 1) => p.runs <= expected))
  ELSE IF p.kind = "plain" THEN Verdict(FALSE, p.len = expected)
  ELSE Verdict(p.len < 4, p.declared = expected)

CheckLengths ==
  /\ block.verdict = "none"
  /\ block' = [block EXCEPT !.verdict = Checked(block.payload, block.expected)]
  /\ UNCHANGED <<file, honest, read>>

\* What a file is: its heads are those of the blocks that it has room for.
IsContainer(f) ==
  /\ f = [magic |-> f.magic, declared |-> f.declared, count |-> f.count, len |-> f.len, heads |-> f.heads]
  /\ f.declared \in Nat /\ f.count \in Nat /\ f.len \in Nat
  /\ FileHeader + f.count * BlockHeader <= f.len =>
       \A k \in 1..f.count : f.heads[k] \in [codec : Nat, orig : Nat, comp : Nat]

IsPayload(p) ==
  /\ p.kind = "delta" => p.lanes \in Seq([symbols : Nat, coded : Nat]) /\ p.len \in Nat
  /\ p.kind = "lz77"  => p.blocks \in Seq([tokens : Nat, bytes : Nat]) /\ p.tokens \in Nat /\ p.len \in Nat
  /\ p.kind = "runs"  => p.runs \in Nat /\ p.len \in Nat

\* A file that is written fits into memory; anything else may be declared.
ASSUME ContainerAssumption ==
  /\ BlockSize \in Nat \ {0} /\ MaxUsize \in Nat
  /\ Lengths \subseteq Nat /\ Packed \subseteq Nat /\ Cuts \subseteq Int
  /\ \A len \in Lengths : \A packed \in [1..DivUp(len, BlockSize) -> Packed] :
       FileHeader + Len(packed) * BlockHeader + SumOf(packed) + Digest <= MaxUsize
  /\ \A f \in Strange : IsContainer(f)
  /\ \A b \in Payloads : b.expected \in Nat /\ IsPayload(b.payload)

ContainerInit ==
  /\ read = [status |-> "start", pos |-> 0, blocks |-> << >>, reserved |-> 0]
  /\ honest = << >>
  /\ \/ file = << >> /\ block = NoBlock
     \/ file \in Strange /\ block = NoBlock
     \/ file = << >> /\ \E b \in Payloads : block = [payload |-> b.payload, expected |-> b.expected, verdict |-> "none"]

ContainerNext == Write \/ DamageFile \/ ParseHeader \/ ParseBlock \/ ParseEnd \/ CheckLengths
ContainerSpec == ContainerInit /\ [][ContainerNext]_containerVars

---------------------------------------------------------------------------
\* A file that was written is read back block by block from where each was
\* put, and one that lost bytes or won some is refused, whatever they were.
WholeOrRefused ==
  honest # << >> =>
    /\ honest.whole => /\ read.status \in {"start", "blocks", "ok", "too large"}
                       /\ (read.status = "too large" => honest.len > MaxUsize)
    /\ read.status = "ok" =>
         /\ honest.whole /\ Len(read.blocks) = Len(honest.packed)
         /\ SumOf([k \in DOMAIN read.blocks |-> read.blocks[k].orig]) = honest.len
         /\ \A k \in DOMAIN read.blocks :
              /\ read.blocks[k].comp = honest.packed[k]
              /\ read.blocks[k].at = FileHeader + k * BlockHeader + SumOf(SubSeq(honest.packed, 1, k - 1))

\* Whatever a file declares, room is made for no more blocks than have their
\* headers in it, what is read is inside it, and success accounts for each of
\* its bytes and for each byte of the length it declares.
HostileAccounted ==
  /\ read.reserved * BlockHeader <= (IF file = << >> THEN 0 ELSE file.len)
  /\ \A k \in DOMAIN read.blocks : read.blocks[k].at + read.blocks[k].comp <= file.len
  /\ read.status = "ok" =>
       /\ FileHeader + SumOf([k \in DOMAIN read.blocks |-> BlockHeader + read.blocks[k].comp])
            + Footer(file.magic) = file.len
       /\ SumOf([k \in DOMAIN read.blocks |-> read.blocks[k].orig]) = file.declared

\* Lengths that pass leave a decoder nothing to run past: lanes are those the
\* bytes were dealt to, so that none ends early or has bytes left when they are
\* merged, every part is inside the payload, and no codec is promised more
\* tokens or runs than the block has bytes (check_declared_lengths).
LengthsAgree ==
  block.verdict = "ok" =>
    LET p == block.payload
        n == block.expected
    IN  /\ p.kind = "delta" =>
             /\ \A i \in 0 .. n - 1 : i \div Len(p.lanes) < p.lanes[(i % Len(p.lanes)) + 1].symbols
             /\ SumOf([k \in DOMAIN p.lanes |-> p.lanes[k].symbols]) = n
             /\ \A k \in DOMAIN p.lanes : p.lanes[k].symbols > 0 => p.lanes[k].coded <= p.len - 6 - 1032 * k
        /\ p.kind = "lz77" =>
             /\ SumOf([k \in DOMAIN p.blocks |-> p.blocks[k].tokens]) <= n
             /\ SumOf([k \in DOMAIN p.blocks |-> 8 + p.blocks[k].bytes]) + 8 <= p.len
        /\ (p.kind = "runs" /\ p.mode = 1 /\ p.len > 9) => p.runs <= n

\* A container is read whole or refused, whatever it lost or declares, with
\* room made for no more blocks than it has headers for; and the lengths inside
\* a payload that pass leave no decoder a byte, lane or run too many
\* (parse_container, check_declared_lengths).
ContainerFaithful == WholeOrRefused /\ HostileAccounted /\ LengthsAgree
=============================================================================
