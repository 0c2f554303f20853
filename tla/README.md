# A TLA+ verification of nexcomp

nexcomp is a lossless compressor written in Rust: a command line
(`src/main.rs`) over a library. It cuts its input into blocks of 4 MiB,
compresses every block with several codecs in parallel and keeps the smallest
result, writes the blocks into a container (NX15) with a CRC per block and a
BLAKE3 hash of the whole, and optionally seals the container with a password
(NXE3). Paths below are relative to the repository's source directory `src/`.

Contents: [the system](#the-system), [the modules](#the-modules),
[the runs](#the-runs), [bounds](#bounds), [fairness](#fairness),
[the proofs](#the-proofs), [divergences found](#divergences-found),
[what is not modelled](#what-is-not-modelled), [the plan](#the-plan).

## The system

| component | state it keeps | operations | what is hard about it |
|---|---|---|---|
| output placement (`main.rs` 108–226) | directory entries, inodes, a temporary beside the destination | resolve the destination, refuse read-only, stage, copy permissions, write, rename, clean up | every call may fail; the process may be killed between two of them; other runs and other programs change the directory meanwhile |
| block decoding (`adaptive.rs` 468–576) | position in the container, the results of a group, a running hash | choose a group within a memory budget, decode it on a pool of threads, write it, compare the hash | threads finish in any order; decoders panic; the verdict on the whole comes after all of it was written; sums that saturate |
| codec selection (`adaptive.rs` 92–227, `classifier_v2.rs`) | the best output so far of each run of candidates | encode candidates in parallel, reduce pairwise, compare with the BCJ-filtered form | the shape of the reduction is up to the pool; ties; candidates that panic |
| container (`adaptive.rs` 236–466) | none: a function of bytes | write, parse, check declared lengths | lengths of 32 and 64 bits that contradict each other |
| command line and sealed file (`main.rs`, `crypto/mod.rs`) | the password, what was read, what is written | find a password, seal, peel, check, derive, open | an order of checks in which the slow one and the question come last; wrappers of older releases |
| range coder (`range_coder.rs`), coder without a carry (`codecs/bwt_cm.rs`) | low, range, cache, pending bytes; two bounds | encode and decode bits and shares, flush | carries, ranges that become too small |
| Huffman (`lz77/huffman.rs`) | code lengths, tables, bits of a stream | build, limit, canonise, encode four formats, decode | codes too deep for their field; headers no encoder wrote |
| LZ77 (`lz77/`) | hash heads and chains, recent distances; prices of the optimal parse | insert, find, lazy parse, shortest path, decode, serialize | positions inserted twice, overlapping copies, window edges |
| LZMA-style codec (`codecs/lzma_style.rs`, `lzma_state.rs`, `literal_coder.rs`) | a state machine, recent distances, adaptive probabilities, a match tree | parse, encode, decode | two sides must make the same updates, on every path |
| PPM, BWT, BwtCm, StrideCm (`codecs/`) | tables and contexts of a block | model, encode, decode | encoder and decoder written apart; rescaling; hashed slots that are reused |
| rANS, DeltaAns, RleHuffman, filters (`entropy/`, `codecs/`) | tables of a block, lanes, runs | normalise, encode, decode | counts scaled to a total, class boundaries, overlapping addresses |
| library only: Re-Pair, transforms, order-1 model, chessboard split, optimal parse, selector, MinMask | each its own | encode, decode | stopping in the middle, stale heaps, masks that reach into the block being rebuilt |

How they interact. `compress` reads a file, selects a codec for every block
(*codec selection* calls the encoders), writes the *container*, perhaps seals
it, and hands the bytes to *output placement* in one piece. `decompress` opens
the seal, then *output placement* opens a temporary and *block decoding* writes
to it block by block; the verdict of the hash decides between rename and
removal. The only shared state between processes is the file system; between
threads, the list of candidates of a block and the results of a group. Codecs
are functions of their block: what they are to each other is a payload.

What makes each part correct:

- output placement: a reader sees the old file or all of a verified output,
  never anything between; a run that fails leaves no temporary and no damage; a
  read-only file is refused, permissions are kept, a link stays a link.
- block decoding: whatever the schedule, output, hash and the error reported
  are those of a sequential decoder; memory stays within the budget; every file
  is decoded or refused.
- codec selection: the result is a function of the block, never worse than the
  baseline, and always exists.
- container and seal: what was written is read back; what was cut, extended,
  altered or made up is refused before a length of it is used; no password is
  asked for, and no key derived, for a file that would be refused anyway.
- every codec: a payload gives back its block; encoder and decoder have the
  same models at every step; a payload no encoder made is refused or stays
  within what it declares.
- LZ77: every match is real, within the window and of a legal length; tokens
  cover the block once; chains join positions of one hash and lead back; a match
  a literal was spent on is taken.

`PROJECT.json` lists under "hazards" where each of these could go wrong.

## The modules

| module | models | role |
|---|---|---|
| `AtomicReplace` | what output placement promises | abstract specification |
| `StagedOutput` | `main.rs` 108–226, one action per system call | detailed specification |
| `MCStagedOutput`, `StagedOutputProofs` | — | instances, theorems |
| `SequentialDecode` | what decoding a container promises | abstract specification |
| `BlockDecode` | `write_blocks`, `group_within_budget`, `decode_cost`, `decode_block` | detailed specification |
| `MCBlockDecode`, `BlockDecodeProofs` | — | instances, theorems |
| `CodecSelect` | `select_best_codec`, `encode_candidate`, `compress_block_adaptive`, `classify` | specification |
| `MCCodecSelect`, `CodecSelectProofs` | — | instances, theorems |
| `Lz77` | `lz77/` `hash.rs`, `encoder.rs`, `decoder.rs`, and `MruCache` of `huffman.rs` | specification |
| `MCLz77`, `Lz77Proofs` | — | instances, theorems |
| `LeastOf` | — | what a set of numbers with a least member gives in place of induction; quotients |
| `Container`, `Command` | `adaptive.rs` 236–466; `main.rs` and `crypto/mod.rs` | one file, one or two runs |
| `MCArchive`, `ArchiveProofs` | — | instances of both beside all others, theorems |
| `RangeCoder`, `CarrylessCoder`, `PrefixCode` | `range_coder.rs`, the coder of `bwt_cm.rs`, codes of `huffman.rs` | coders |
| `Coders`, `CoderProofs` | — | the coders of bits and the mixing model together, theorems |
| `Huffman`, `LzmaStyle`, `LzmaParse`, `Ppm`, `Bwt`, `BwtCm`, `StrideCm`, `Rans`, `DeltaAns`, `RleHuffman`, `Filters` | the codecs of those names | codecs |
| `MCCodecs` | — | instances of all coders and codecs |
| `RePair`, `Transform`, `OrderOne`, `LzOptimal`, `Selector` | `grammar/mod.rs` and `repair_fast.rs`; `transform/mod.rs`; `context_model.rs` and `ajedrez.rs`; `lz77/` `optimal.rs`, `serial.rs`, `mod.rs`; `selector.rs` | library |
| `BitWords`, `SetCodes`, `Residual`, `MinMask` | `codecs/minmask/` `bits.rs`, `enumerative.rs`, `bch.rs`, `residual.rs`, `masks.rs` and `mod.rs` | library |
| `MCLibrary` | — | instances of these two rows |

Operators named "mutant" in a comment are plausible wrong versions of the
definition that follows them. `Next` never takes them; they are there to show
that each property fails if the code went wrong in that way (PROJECT.json,
"mutants").

`MCCodecs` holds the codecs, `MCLibrary` extends it by the library, `MCArchive`
extends that by the container and the command line, and one run checks them all.
The variable `part` picks one at the start and never changes, so that every
behaviour is one of that component alone, and the properties of these modules
are conjunctions that name the properties of each. `MCArchive` extends
`Container` and `Command`, and `MCCodecs` extends `Coders`, whose operators have
names of their own, so that the run checks the very definitions the theorems
are about.

### StagedOutput

A directory entry is `absent`, a `file`, a `link` or a `device`; a file is an
inode with an owner (whose output it holds), a number of blocks and a mode. Each
process is one run of the program and creates at most one file, so its inode
carries its name. The temporaries `<dst>.part<pid>-<k>` belong to one pid, so
they are `slot[p][k]`, apart from the other paths.

The actions follow the code: `Resolve` (`destination`), `RefuseReadOnly`,
`ChooseStaging` (`can_stage`), `StagedName` (one `create_new`, retried under the
next name while the name is taken), `CopyPermissions`, `OpenDirect` for a
destination that cannot be staged, `WriteBlock`, `DecodeError`, `WriteError`,
`Flush`, `Rename`, `Remove`. An archive that goes wrong at block *v*, or in the
hash after the last, is the input `verdict`. `Crash` kills a run anywhere. The
environment may change permissions, remove a path, move a file over it or create
a link, at most `EnvSteps` times, between any two calls.

`AtomicReplace` has two actions: a run fails and changes nothing, or succeeds
and replaces one entry with all of its output in the same instant. The mapping
shows each path by what reading it gives.

### BlockDecode

A block is its codec, its length and what each of its checks will say. The
caller takes a group (`TakeGroup`), threads start and finish its blocks in any
order, `Collect` waits for all, `Emit` looks at one result after the other,
`Verify` compares the hash. A decoder may return an error, panic, or return
bytes that fail the length or CRC check. The output may refuse bytes.

`SequentialDecode` writes block after block until the first that is bad.

### CodecSelect

The metrics of a block are integers (shares in hundredths, entropy in tenths);
`Candidates` is the list the thresholds produce, in order. What each candidate
gives is fixed with the block: a codec is a function. A *segment* is a run of
neighbouring candidates that have been reduced to their best. `Encode` adds a
segment of one, `Reduce` merges two neighbours, and `Join` compares the plain
form with the filtered one. Every shape rayon could give the reduction, its
sequential folds included, is a sequence of these two steps.

### Lz77 and LzOptimal

Positions count from 0 as in the code; the constants of `types.rs` and the
numbers in `filter_hash_match` are parameters, so that a window of four
positions has its slots reused and a chain of three steps ends. A hash function
is a parameter too: one without collisions, one with many. A turn of the
encoder's loop is `EncodeTail`, `EncodeLiteral`, `EncodeLazily` (a longer match
at pos+1 or pos+2) or `EncodeMatch`; the positions a match covers are inserted
one by one (`Cover`). A search is the sequence `Walk` of the candidates a chain
gives, slots that were reused included, and the first longest of those that
count. The decoder copies a match byte by byte, reading what it has just
written. Tokens go from encoder to decoder as they are; the coders between the
two are `Huffman` and the bytes of `LzOptimal`.

Two history variables: `starts`, the position each token stands for, and
`promised`, the length of the match for which the encoder went on to `pos`. That
match is not kept but searched for again (`LazyReachesBest`), with the position
inserted in between at the front of its chain. The run searches chains to their
end; with a `MaxChain` of two the second search runs out one step too soon and
the match is lost, which costs size only.

`LzOptimal` is the other encoder: one action is one position of one parse, the
prices of the next parse come from the codes the last one would have had, and
`ParseIsShortest` compares each cost with the least over all paths of edges.

### Container and Command

`Container`: the writer's file is the fields in the order the reader takes them
and a length; a cut or an extension changes the length, a strange file declares
what it likes. `ParseHeader`, `ParseBlock` and `ParseEnd` read it with the widths
of `usize`, and `check_declared_lengths` is one operator per kind of payload.
`WholeOrRefused` says what a cut file may do, `HostileAccounted` that what a
made-up file makes the reader allocate is there in its bytes, `LengthsAgree` that
the lengths inside a payload leave no decoder a byte, a lane or a run too many.

`Command`: a run has sources of a password (argument, file, environment,
terminal, and the terminal a second time), some absent, unreadable, not unicode
or ended by a newline. Sealing and opening go through the same sources in the
code's order; a sealed file is `Peel`ed, its header checked against the limits,
the password asked for, the key derived, the frame opened, and the payload's
lengths compared. Files of the older wrapper NXE2, of releases before, and files
that are none of these are opened too; what is sealed may be cut or altered.
The cipher is ideal: a frame opens for the key and header it was made with.

### The coders

`RangeCoder` is the LZMA coder with carries through cached bytes and PPM's coder
of shares, with bytes of `B` values: adaptive bits, plain bits and shares of
tables in any sequence, among them every carry through a row of cached bytes. The
history variable `exact` is the low end of the interval as it would be if it were
never cut to a word. `CarrylessCoder` is the other one, two bounds without a carry,
over the same bytes and stream; `Coders` has one of the two, or the mixing model that
gives the second one its probabilities. `CarriesKept` and
`BoundsApart` are about the numbers themselves; `DecodesWhatWasCoded` about the
decoder asking for the same operations. Where a codec is modelled above them, the coder is ideal: a log
of what was coded with what probability, and a decoder that asks with another
one is given another bit.

`PrefixCode` builds lengths, caps them, makes them canonical and looks bits up;
it is also given lengths as a file may declare them. `Huffman` codes tokens in
the four formats; bits are there one by one, and alphabets, tables and block
sizes are constants.

### The codecs

- `LzmaStyle`: any parse of a block is encoded, token by token, and decoded; a
  probability is named by its table and place, so equal names on both sides mean
  equal models. `LzmaParse`: the binary tree of matches and the cheapest path.
  Prices are inputs. A walk down the tree begins each comparison at the length it
  trusts the subtree to share with the position (`Shared`), as the code does, so a
  tree out of order would report matches that are none. `MatchesTrue` says that
  every match reported is real and exactly as long as it says, whatever was cut by
  depth or window and whatever subtrees were taken over; `TreeSorted` is why: below
  each node are older positions on their proper sides. `NearestFound` says that the
  nearest match of each length is there, of buckets that hold no more positions
  than a walk may visit; of larger ones the tree does lose matches.
- `Ppm`: contexts, exclusion, escapes and rescaling, one byte per action on
  either side. Encoder and decoder are written apart in the code and in the model.
- `Bwt`: the suffix array by induced sorting, recursion on names included, the
  transform, its inverse and the blocks of a payload. `BwtCm` is the mixing model of
  its bytes in the code's 16-bit numbers, with bytes of `ByteBits` bits: `Models` is
  the model through the bits of a byte as it is coded, `Read` as it is read. It
  extends `CarrylessCoder`, for its bytes, and is a case of `Coders`.
- `StrideCm`: slots in three counters, the mixer, the refinement, predictors,
  the match model and the detection of stride and record length. Contexts are
  kept apart where the code hashes them into one table; the table of the match
  model, whose collisions matter, has its collisions.
- `Rans`, `DeltaAns`: frequencies made exact, the state and its bytes, lanes dealt
  out and merged. Which difference is chosen rests on an entropy and is left
  open. `RleHuffman`: both modes and the choice between them.
- `Filters`: the filter of calls with overlapping addresses, and the plain
  run-length code with its varints.

### The library

- `RePair`: both encoders, one replacement per action, with every reason to
  stop; the clock may stop them at any turn. The decoder is its stack.
- `Transform`: rotations sorted, move to front, bases parted from headers and
  exceptions, and the inverses. Whether text looks too regular is left open.
- `OrderOne`: rows of exact sums, coding by the byte before, the stored model with
  what may happen to it, and the chessboard split. `Selector`: a payload is its
  size and what decoding it does, and every combination is tried.
- `BitWords`, `SetCodes` (the enumerative and the BCH code), `Residual`, `MinMask`: a vector is its length and
  the set of its ones, with the bits of its last word that are past its length;
  numbers are limbs of two halves; an element of a field is the set of its
  exponents. `Residual` writes one vector in each of eight ways at the exact
  number of bits it was reckoned at and reads it with a bit damaged or not.
  `MinMask` encodes a stream block by block: masks rendered from the whole stream
  in the encoder, from what is rebuilt in the decoder, bit by bit where a mask
  reaches into its own block. Which masks are looked at closely rests on
  estimates in floating point: `Astray` blocks take any candidate, the others the
  cheapest.

## The runs

| run | question | instance |
|---|---|---|
| `staged_two` | two runs over the same file or link: is anything but old and whole ever readable, does a failure leave something or do damage, do the steps implement atomic replacement? | 2 runs, 2 paths, 2 blocks, every call but the removal may fail, kills |
| `staged_env` | are foreign files left alone, is an undisturbed replacement exact (links, permissions), and does a run that started end, among other programs? | 1 run, 2 paths of any kind, stale temporaries, 1 step of another program |
| `staged_chain` | is a failed decode harmless behind a link to a link? (no) | 3 paths |
| `staged_chmod` | does a private file stay private? (not if the call fails) | 2 paths |
| `decode` | order, verdict and content of the output, the budget, and termination, under every schedule | up to 3 blocks of 9 kinds, 3 threads, sums beyond `MaxUsize` |
| `select` | is the earliest smallest kept, never worse than the baseline, and does every block get a result, under every schedule? | 10 kinds of block, of one job and of two |
| `lz77_blocks` | does every block come back, are tokens in range and chains of one hash, is a match that was promised found again? | all blocks of up to 12 bytes of 2 values, window 6, hashes of two bytes, chains searched to their end |
| `lz77_chain` | do chains always lead back? (no) | up to 9 bytes |
| `formats` | does what one side of a format writes come back on the other, is what nobody wrote refused, is the least chosen, is nothing asked for in vain? Each coder, codec, part of the library, the container and the command line | twenty-two instances, see below |
| `huffman_split` | does the split format give back its tokens? (not when the code of the code lengths is deep) | 72 rows of literals, fields of two bits |
| `library_case` | is every transform invertible? (not for bases in small letters) | the library's of `formats` |
| `library_sum` | does every frequency table add up? (not when one pass is too little) | the library's of `formats` |

Six runs expect a violation; see [divergences](#divergences-found).
`CHECK_DEADLOCK` is off in every run because every model stops by itself: a run
ends, a file is decoded, a block has its codec. The liveness properties say that
output placement, decoding and selection stop nowhere earlier.

What the properties of `formats` say:

- `CodersExact`: no carry is lost, every symbol has room, bounds never close, and
  each decoder gives back what was coded. `HuffmanFaithful`: codes are prefix-free
  within the cap whatever they are made of, lengths of a file are accepted only
  when no two codes clash, a lookup finds the one code that fits, four formats
  come back. `LzmaFaithful`: both sides are in the same state after every token;
  the match tree stays sorted and reports nothing that is not there, and the parse
  is a path the coder can code.
  `MixingFaithful`: the mixing model of BwtCm is the same on both sides at the end of
  every byte, its contexts are the last two bytes and the run they are in, its
  counters and what it interpolates stay in their words, and the bytes come back.
  `ContextsFaithful`: PPM and StrideCm keep the same models on both sides, within
  their words. `BytesFaithful`: suffixes are sorted, the transform inverts, sizes and
  indices no encoder wrote are refused; DeltaAns, RleHuffman, the filter, and the
  run-length code below the 2^22 its three bytes count.
- `ContainerFaithful`: what the writer laid out is read, a cut or extended file is
  refused, and what a file declares is there before it is used (the three parts
  named under *Container and Command*). `OpensForItsPassword`: what was sealed, an
  empty file and the files of older releases included, comes back for the password
  it was sealed with and for no other, and nothing of an altered one is restored.
  `AsksAndWorksInOrder`: no key is derived above the limits, the terminal is used
  only where no other source names a password and one is needed, and a password is
  settled before the slow work.
- `LibraryInverts` and `LibraryChoosesLeast`: see *The library*. They hold of what
  the code does; where a comment promises more, the property says how far the
  promise is kept, and `library_case` and `library_sum` show where it is not. The transforms give
  back all but the case of bases (`TransformsInvert`), the
  frequency table of a stream adds up where one pass can take back what is too
  many (`FreqTableNear`), and tokens come back whose offsets are below
  the window (`SerialExact`). For MinMask,
  `BlocksRebuilt` says that the decoder's blocks are the encoder's and that every
  record has the bits by which it was chosen; `RegisterShortest` that the register
  found for a block generates it and no shorter one does, against all there are;
  `OthersRefused` that a payload which lost its end is refused.

## Bounds

*Output placement*: two blocks are the fewest that can be half written, two runs
the fewest that can meet; the third path is only needed to have a link to a
link. `Attempts` is 2 where stale names matter, so that the first name can be
taken and the second free, or both taken. A failing `create` is in `staged_two`
and not in `staged_env`, where liveness must not be bought by it.

*Block decoding*: with three threads and three blocks there are a full group, a
group that stops early for the budget and a last group that is short; the costs
reach from a block that needs a sixth of the budget to one that needs more than
`usize` holds.

*Codec selection*: results below and above the size of the block itself;
four candidates have all five shapes of a binary reduction, and two jobs race in
every order.

*LZ77*: twelve bytes turn a window of six over twice, with self-overlapping
matches, matches that end at the last byte and lazy steps of one and two; all
four recent offsets are in use.

*Codecs*: widths are scaled so that limits are met within a few steps, and the
inputs are all short ones together with some picked to reach a limit. Bytes of
two bits let a carry run through cached bytes and a 20-byte run saturate a
counter; frequencies whose tree is deeper than the cap of three are among the
tables; blocks of four bytes make the BWT a sequence of blocks; counts are halved
at three; `Total` is 8, so that reclaiming slots from full tables happens, and
`Cap` 7 where a code of eight exists; a walk down the match tree visits three
nodes, and the hash has three values, so that walks are cut by depth and by the
window of 11, with shared prefixes of three bytes and more, and matches are lost; `MaxRun` is 20 and runs of up to 45 are cut
in pieces. Constants that a proof of the code's numbers would need are stated as
assumptions (`RangeCoderAssumption`, `CarrylessAssumption`, `BwtCmAssumption`,
`LengthAssumption`, `PpmAssumption`, `StretchInverts`) and evaluated on the instances.

*Archive*: `BLOCK_SIZE` 4, inputs of none, one, two and three blocks, `usize` ends at
150. Costs of key derivation lie on both sides of every limit. Two runs of the
command suffice to seal and open.

*Library*: blocks of up to seven bytes of two values and patterns of 14 for
Re-Pair, four rules, a stall window of one; blocks of four for the transforms;
a window of 8 for the optimal parse, with offsets that just fit and one that does not. MinMask: words of
four bits, bytes of two, blocks of seven and four bits, so that blocks begin
inside words and bytes; one block may take any mask (`Astray`), up to two bytes
are lost (`MaxCut`); codes of length 7 and 15.

## Fairness

- `StagedOutput`: a process that has started is scheduled (`WF(Step(p))`).
  Nothing is assumed of its being started, of faults or of other programs; a
  killed process counts as ended.
- `BlockDecode`: the caller and each thread of the pool are scheduled, and an
  idle thread takes a waiting block: rayon's workers steal until the work of the
  call is done. That a decoder returns is assumed; its loops are bounded by
  lengths checked before (`check_declared_lengths`).
- `CodecSelect`: the pool works on the lists it was given, in whatever order,
  and the caller goes on when they are reduced.
- `Lz77`, the codecs, the archive and the library have only safety properties:
  they are sequential, and each of their loops is bounded by the block or by a
  length that was checked.

No property relies on strong fairness.

## The proofs

All theorems hold for every value of the constants allowed by the named
assumptions (`ConstantsAssumption`, `LinkAssumption`, `DecodeAssumption`,
`SelectAssumption`, `Lz77Assumption`, `CommandAssumption`,
`ContainerAssumption`, `RangeCoderAssumption`, `CarrylessAssumption`,
`BwtCmAssumption`), which TLC evaluates on every instance. Where a theorem needs more, it says so in its statement.

Sums, ends of parts, chains and marks of a text are defined by recursion or as a
last member. The provers cannot use an induction principle, but they can take
the least number at which a formula fails: `LeastOf` shows once that a set of
numbers that is not empty has a least member, and from it that what holds of 0
and goes from each number to the next holds up to *n* (`UpTo`), that a row of
numbers has its sums as a function (`Sums`) and a start its iterates
(`Iterates`). Every argument along a recursion below cites one of these. It also
holds what division gives (`Parts`, `PartedOnce`, `QuotientTwice`), as the provers
know little of products of two variables.

- `StagedOutputProofs`: `TypeCorrect`, `DestinationsStayWhole`,
  `ReadersSeeWholeOutputs`, `StagedImplementsAtomic`, `FailuresStayIntact`,
  `NothingLeftBehind`, `StaleLeftAlone`, `ReplacesWhatItSaw`. `DestinationWhole`
  alone is not inductive: that a rename publishes something whole depends on who can still write to the inode. `IInv`
  adds *Staging* (a run that stages has its own inode open), *Hidden* (that inode
  is at no path before the rename), *Early* and *Through* (who writes straight
  through and to what), *Written* and *Complete* (how much a run has written at
  each point, and that it reaches the rename only with all of it and a good
  verdict) and *Foreign* (files of others are whole unless written through).
  `Alone` is the key lemma: before its rename nobody else has a run's inode open.
  `StagedImplementsAtomic` and `FailuresStayIntact` assume `Stageable`, that no
  path is a device or a chain of links and that no other program interferes; each
  step then maps to a replacement, a failure or a stutter. `staged_chain` shows
  that without it the second does not hold. `NothingLeftBehind` assumes only that
  removing a temporary does not fail, and adds *Tidy*: which of its own names a
  run occupies at each point.
  `StaleLeftAlone` adds *Held* to `IInv`: from its creation to its end the staged
  file is at the name last tried, so that no step reaches a name that was taken.
  `ReplacesWhatItSaw` assumes that permissions can be set (`staged_chmod` shows
  what happens when they cannot) and adds
  *Calm*: what a run has found out about its destination (where the link leads,
  that it is a plain file or nothing, that it may be written, its permissions) is
  still so until somebody else changes the directory. `OthersStep` is the point:
  what other runs do before their rename touches only inodes no path shows
  (`Alone`).
- `BlockDecodeProofs`: `TypeCorrect`, `OutputStaysInOrder`, `AlwaysJoined`,
  `FirstErrorAlwaysWins`, `NothingCorruptWritten`, `ParallelImplementsSequential`.
  The invariant is *Place* (where the group is), *Cells* (what each cell may hold:
  the verdict of its own block once a thread has finished it, and a thread for
  each running one), *Progress* (all before `next` are good), *Streams* (what was
  written and hashed) and *Reported*. `CutBounds` shows that a group is never
  empty, never longer than the threads and never past the end; `CutWithinBudget`
  that its (saturated) total is within the budget unless it is one block.
  `GroupsKeepBudget` is about the true sums: no group costs more than the budget
  unless it is one block, and no block that would fit is left out while there are
  threads. Saturated and true sums agree until one passes `MaxUsize`; the budget is
  below it (`DecodeAssumption`, as the code's constant is), so it is passed by then.
- `CodecSelectProofs`: `TypeCorrect`, `ReductionHoldsBest`,
  `CompressionIsDeterministic`, `NeverWorseThanBaseline`. The invariant is that
  segments are disjoint and each holds the earliest of its smallest outputs;
  `BetterIsBest` shows that the closure given to `reduce_with` keeps this when
  neighbours merge, which is why the shape of the reduction does not matter.
  `CandidateList` shows that the baseline always comes first.
- `Lz77Proofs`: `TypeCorrect`, `DecodesWhatWasEncoded`, `TokensStayInRange`,
  `TokensAlwaysTile`, `RecentStaysDistinct`. Nothing is assumed of what the chains
  hold: `HashMatchSound` and `RepMatchSound` show that a candidate is compared
  with the data before it becomes a match, so that a chain that leads astray costs
  size, never content. The invariant says that tokens lie end to end and each
  stands for its bytes (`TokenTrue`), that recent offsets are usable, and where the
  output of the decoder ends inside the token it is at. `TilingGrows` is about
  every step that emits, `OutputGrows` about every byte decoded.
  `ChainsStayByHash`: a link of the table leads from a position to one of the
  same hash, at the same place or before, as long as its slot has not been given
  to another position. The strengthening *Linked* speaks of the newest position
  *m* that was inserted: every head, and every link of the last `Window` positions
  up to *m*, is at most *m* and of its hash; the next position inserted is *m*
  again or *m* + 1, which is what the lazy search does. `SlotsApart` (two positions
  less than a window apart differ in their slots) and `InsertLinks` carry it
  through an insertion.
  `LazyReachesWhatItSaw`: a match for which a literal was given up is found when
  it is searched for again, or a longer one (`LazyReachesBest`), in every state
  whose search comes to its end within `MaxChain` steps: at no position, at one out
  of the window, or at one seen before (`SearchEnds`). The run takes `MaxChain`
  large enough for that in every state it reaches, and checks the property without
  the condition; a shorter chain does lose the match. The argument: up to the
  place where a search stops for good its positions go down (`Downwards`, from
  *Linked*), so that their slots differ from the slot of the position that enters
  (`SlotsApart`); the search after it sees that position first and then the same
  ones (`SearchAgain`), and has a step left for the match (`SearchGoesOn`). The
  match kept before was the first of the longest, so it is not one a search that
  turns in place would hide. `LazyInv` adds what the promise is about: it is made
  only for a position that can be hashed, and none is left while a match is
  covered.
- `ArchiveProofs`, of the command line: `CommandInvariant`, `SealedComesBack`, `AskedInOrder`. The
  invariant has three parts. *FileSound* is about the file: it holds what it was
  made of, or was altered and opens for nobody. *Sealing* and *Unsealing* say at each step what
  a run has established: when the payload is the container of the input, when the
  password is the one asked for, what was asked because nothing else named one, and
  what is known of the file when a key has been derived. `PasswordAnswer` goes through the sources in the order of the
  code, `TrimmedIsText` through the end of a line; `DamagedOpensForNobody` shows
  that any of the changes to a sealed file reaches the header or the frame, which
  the ideal cipher refuses.
- `ArchiveProofs`, of the container: `ContainerInvariant`, `ReadWholeOrRefused`. *ReadInside* (the
  reader is within the file), *ReadAddsUp* (what it has read adds up to where it
  is, and the room it made is for blocks that are there) and *ReadAsLaid* (of a
  file that is as its writer laid it out, each block read is the block written, at
  its place) are kept by each step of the reader; `VerdictGiven` ties the verdict to
  what was read. Under it lie lemmas on the writer's file and on the sums of a row
  (`SumOfMore`, `EndsAre`), on the least number of parts that are enough
  (`DivUpIs`), and for the lengths inside a payload the agreement of the check with
  the decoder's own sums: `DeltaAgrees` for the lanes of DeltaAns, whose symbols
  are dealt out in turn, `Lz77Agrees` for the blocks of tokens.

- `CoderProofs`, of the range coder: `CarriesAreKept`, `RoomIsLeft`,
  `RangeGivesBack`. What an encoder writes is right only because of bytes it
  writes later, so no invariant of its present state says that the decoder is
  right. The invariant (`RangeInv`) says that there is a row of *marks*, one after
  each operation: how many bytes have been shifted out, the low end of the
  interval, its width and the probabilities. Each follows from the one before by
  its operation (*Narrowed*: the interval becomes a part of itself; *Grown*: it
  moves up by a byte as often as the code's tests say). The encoder is a *view* of
  the last mark: what was written, the byte that waits, the row of 0xFF behind it
  and `low` are the mark's number; `low` with the range stays below the
  carry that the waiting byte can take (`Sound`; where the waiting byte is 0xFF
  already, no carry can come). `ShiftKeeps` shows that `shift_low` keeps this,
  through a row of any length. `finish` shifts five times and leaves bytes that
  lie in the last interval; since each interval is a part of the one before,
  seen from the same byte, they lie in all of them (`AllInside`, back along the
  row). The decoder is a view of the mark of what it has decoded: its `code` is
  the distance of what it has read from the low end (*Follows*). That distance
  lies in the part the encoder chose and in no other, so each comparison, the sign
  of the difference and the target find the same symbol; it has read five bytes
  more than the mark has shifted, which are there. For
  `RoomLeft` either value of a bit must leave a range that lacks at most one byte
  (`BoundIs`, `GrownIs`), where adaptation stops: at `Divisor - 1`, on either side
  (`AdaptedLikely`). That and the rest of `RangeCoderAssumption` hold of the code's
  numbers: bytes of 2^8 values, 2^11, the divisor 2^5, totals of at most 2^24.
- `CoderProofs`, of the coder without a carry: `BoundsStayApart`,
  `CarrylessGivesBack`. The first is an invariant by itself: a middle leaves a
  value for either bit (`MidBetween`), and bounds that have the bytes they share
  shifted out differ in the next one (`ShiftIs`: shifting a number by whole bytes
  and filling it with anything brings its next byte to the top). The second is
  argued along a row as above. *HasTrace* says that there is a row of bounds, one
  for each bit coded, from which each next one follows, with the bytes that were
  written between them; the encoder is at its end, the decoder somewhere on it with
  a window on the four bytes from there. When the last lower bound has been written
  whole, the window at the last point is that bound; `WindowGoes` takes it back
  over one bit (a window between the bounds after a shift lay between them before
  it), `AllWithin` over all of them. So the decoder finds the window on the side of
  the middle where the encoder went.
- `CoderProofs`, of the mixing model: `MixingStaysFaithful`, for bytes of any
  number of bits and any texts. `Models` and `Read` walk over the bits of a byte; each
  is a function whose values exist and are unique (`ModelsIs`, by the course lemma of
  `LeastOf`). `TextTold` does the same for the bytes of a text: the *story* of a text
  is the row of models at the ends of its bytes. The invariant (`Sides`) puts both
  models on the story of the data, each where it has got to, and says of every bit in
  the log which probability the story gives it. Then the decoder asks with that
  probability and is told the bit that was coded (`ByteReads`), so it takes the
  encoder's step. `ByteTold` shows that the partial byte reaches its leading bit after
  `ByteBits` bits and not before (`BitsGrow`, `TwoGrows`), `StoryTrue` that the
  contexts and the run are those of the text. That numbers fit is one fact about a
  counter (`AdaptFits`) and one about a share of the way between two (`BetweenIs`: the
  shift of a signed number rounds down, and never below the lower one).
- `CodersStayExact` joins the first two: `CodersExact`, the property of the run, for every
  value of the constants of `Coders`. Under it lie lemmas on numbers of bytes
  (`NumberGrows`, `RowNumber` and `CarryRuns` of the one, `BytesGrow` and
  `BytesJoin` of the other) and on quotients (`PartedOnce`); the powers of the base
  are a function in the model, since the provers do not know `^`.

Only model-checked:

- liveness (`Terminates`, three times), which is out of the provers' reach;
- `HuffmanFaithful`, `LzmaFaithful`, `ContextsFaithful`, `BytesFaithful`,
  `LibraryInverts` and `LibraryChoosesLeast`. Each speaks of
  several components at once, and what these return is the result of a recursion
  over data: trees, suffix arrays, rows of tokens, words of bits. Operators declared
  recursive shut the provers out, and where a recursion is written as a function,
  what it gives for every input needs an induction over its data. The coders
  and the mixing model were in reach because a step of theirs has no recursion, or
  one along a row, and what a whole row of steps does follows from a least number at
  which it would fail.

## Divergences found

Six have a run:

- `staged_chain`: `CHANGELOG.md` says a symlinked destination "is followed to
  the file it names, which stays intact when a decode fails". `destination`
  follows one link. If that names another link, the result is no plain file, so
  it is opened with `truncate` and written straight through, and a decode that
  fails has emptied the file.
- `staged_chmod`: the comment of `staged_file` says that "restoring over a
  private file keeps it private". The result of `set_permissions` is dropped; if
  it fails, the output replaces the private file with default permissions.
- `lz77_chain`: `hash.rs` says that `prev` holds the "previous position with
  same hash". The lazy search inserts pos+1, and the turn that starts there
  inserts it again; its link is then itself. Older positions of that hash are
  lost to later searches, which stay on the spot until `MAX_CHAIN`. What is
  decoded is right all the same (`lz77_blocks` and the theorems include these
  chains).
- `huffman_split`: `huffman.rs` writes the lengths of the code-length code in
  three bits each, and nothing keeps that code within seven bits. A block whose
  code lengths occur often enough in a Fibonacci-like way gives one of eight; the
  field takes in the next one's bit and the tokens are lost. The program writes
  the blocked format, which has no such field; the split format is offered by the
  library.
- `library_case`: `transform/mod.rs` 7 says "All transforms are lossless and
  invertible." and line 265 of the inverse "reconstruct original data exactly".
  A base is two bits, the same for small and capital letters, and the inverse
  writes capitals: a FASTA file with small letters (soft-masked ones are) comes
  back changed, with no error. Offered by the library only.
- `library_sum`: `ajedrez.rs` 210 guarantees "Suma exactamente 4096", its test at 514
  for any input that is not empty. Slots given in excess are taken back in one
  pass, one of each byte that has more than one. With one byte 2^20 times and each
  other once the sum is 4349.

Seen while modelling, and modelled as the code has it; most are comments:

- `codecs/rle_huffman.rs` 217 and 231: classes 240–247 are said to end at 5983;
  eight classes of 512 from 1984 end at 6079, and overlap the next group. The
  encoder takes the first class that fits, so a run has one class all the same.
- `codecs/mod.rs` 120–124: the third byte of a count is `(count >> 14) as u8`, so a
  run of 2^22 bytes or more loses its high bits. The program never calls
  `rle_encode`.
- `lz77/serial.rs` 6 says of an offset "22 bits (covers up to 4MB window)", `types.rs` 9
  that one is `1..=MAX_WINDOW`, and the encoders take a match exactly 2^22 back:
  serialized it becomes 0 and the payload is refused when read. The test at 125
  names 2^22 - 1 as the most. The program's own files use `huffman.rs` and not these
  bytes. A match takes five bytes, not the four the comment at 5 says.
- `lz77/huffman.rs`: limiting code lengths takes more from the short codes than the
  Kraft sum needs; codes stay prefix-free. Length code 285 is never
  used: 284 with its extra bits reaches 258 and comes first. What `context1` patches
  afterwards is never needed.
- `codecs/stride_cm.rs` 30 speaks of "up to 8 hashed models"; with the match model
  there are nine. Of the refinement's 33 buckets only the first 24 are reached.
- `grammar/mod.rs`: the heap is made anew after every replacement, so the branch
  for stale entries is never taken; the length given to `repair_decode` is not
  compared with anything.
- `codecs/minmask/residual.rs`: an RLE residual of no bits has its first run's bit
  read and not checked.
- `main.rs` 244: a newline at the end of a password file is dropped, one at the end
  of the environment variable is kept.

## What is not modelled

- A loss of power: the code never calls `fsync` and no document promises
  anything about it. A kill is modelled; what was flushed then stays.
- Hard links, and directories in the path that change.
- The window between the read-only check and the rename is modelled, and other
  programs do step into it; the promise about permissions is stated for runs
  that nobody disturbs.
- The metrics of the classifier are inputs; `f64` comparisons at a threshold are
  integer ones. So are the prices of the LZMA-style parse, the difference
  `DeltaAns` prefers, whether text is too regular to sort, and MinMask's estimates
  of which masks deserve a closer look. Each is a choice the models leave open, so
  that what is checked holds whichever way it falls.
- MinMask's choice among whole configurations, which keeps the smallest of them.
- Hashes of contexts: `StrideCm` keeps contexts apart that the code may send to the
  same slot. What both sides do with a shared slot is the same function of what
  is in it, so a clash costs size only.
- `classifier/mod.rs` and `neural/mod.rs`: no command reaches them; they are
  estimates in floating point with nothing to be in step with.
- Helpers no caller uses: `find_best_match`, the varint pair of `rle_huffman.rs`,
  the order of ties that older releases took from their sort.
- Ciphers, hash functions, CRC and the thread pool are libraries, modelled by how
  the code uses them. Argument parsing, messages and printed ratios are left out.
- Benchmarks, fuzz targets, scripts and tests are no part of the program; tests
  were read for what they assert.

## The plan

1. Done: every component a command reaches, and the library's own, with the
   exceptions above; the proofs listed.
2. Next in proofs: that `Rans` and `PrefixCode`, which are loops over a table, keep
   their sums; that chains lead strictly back where no position is inserted twice;
   that the models of `StrideCm` stay in step, whose two sides run the same
   operators as those of `BwtCm` do, with more of them.
3. Next in models: a container cut while it is being decoded, composed of
   `Container`, `BlockDecode` and `StagedOutput`, where each now takes what the
   other gives as an input; hashed contexts of `StrideCm` with clashes.
