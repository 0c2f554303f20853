------------------------------ MODULE MCLibrary ------------------------------
(* The parts of the library no command reaches, with small numbers, beside the *)
(* codecs: one part of all is chosen at the start and runs alone.              *)
EXTENDS MCCodecs, TLC

---------------------------------------------------------------------------
MCGrammar == Rows({0, 1}, 1, 7) \cup {Row(0, 12)} \cup {Pattern(14, a, b, c, 3) : a \in {0, 1}, b \in {0, 1}, c \in 0..2}

Grammar == INSTANCE RePair WITH
  Blocks <- MCGrammar, Bytes <- 3, MaxRules <- 4, Window <- 1, Shrink <- 30, Frequent <- {1, 3}

MCGenomes == Rows({0, 1, 6, 8, 9, 10}, 0, 4) \cup {<<a, 8, b, 9, c, d, 3>> : a, b, c, d \in {2, 5, 8, 9, 10}}
Transforms == INSTANCE Transform WITH
  Texts <- Rows({0, 1, 3}, 0, 5) \cup [1..7 -> {0, 1}], Genomes <- MCGenomes, BlockSize <- 4, Bytes <- 4, PerByte <- 2

\* A stream of one byte over and over and each other once: its table is full.
MCStreams == Rows({0, 1, 3}, 1, 4) \cup {Row(0, 9) \o <<1, 2, 3>>, Row(2, 26) \o <<0, 1, 3>>, Pattern(9, 1, 1, 0, 4), Pattern(8, 3, 0, 1, 4)}
Ordered == INSTANCE OrderOne WITH
  Total <- 8, Base <- 4, FlushBytes <- 4, Streams <- MCStreams, Damages <- {"none", "short", "raised", "cut"},
  Boards <- [kind : {"board"}, bytes : Rows({0, 3}, 0, 6) \cup {Pattern(11, 1, 1, 0, 4)}, width : 0..4]

\* Rows in which a match reaches as far back as a serialized offset can, and
\* one further; lengths that are not tried; and a chain that collides.
MCCheapest ==
  Rows({0, 1}, 1, 6) \cup {Pattern(n, a, b, 1, 3) : n \in {11, 13}, a, b \in 0..2} \cup {Row(2, 10), Row(1, 2) \o Row(0, 9)}
    \cup {<<1, 2, 3>> \o Row(0, k) \o <<1, 2, 3, 0>> : k \in 3..6}
MCHash(a, b, c) == (a + 2 * b) % 2
MCSerialHostile == Rows(0..2, 0, 5) \cup {<<a, 1, 0, 2, 3, b, 1>> : a, b \in 0..3}
Optimal == INSTANCE LzOptimal WITH
  Blocks <- MCCheapest, Hostile <- MCSerialHostile, Parses <- 3, Literals <- 4,
  LengthTable <- <<<<3, 0>>, <<4, 0>>, <<5, 1>>, <<7, 2>>>>, DistTable <- <<<<1, 0>>, <<2, 0>>, <<3, 1>>, <<5, 2>>>>,
  Cap <- 15, Window <- 8, MaxMatch <- 9, MaxChain <- 3, Dense <- 5, Sparse <- {4, 6}, Hash <- MCHash, LenBits <- 5

Selected == INSTANCE Selector WITH Sizes <- 0..3, Formats <- <<6, 1>>

\* All short vectors, and long ones with few bits set; words of four bits.
MCFew(n, most) == {[len |-> n, ones |-> S] : S \in {T \in SUBSET (0 .. n - 1) : Cardinality(T) <= most}}
MCVectors == MCFew(0, 0) \cup UNION {MCFew(n, n) : n \in 1..5} \cup MCFew(7, 3) \cup MCFew(15, 1)
MCPrimitive == 3 :> {3, 1, 0} @@ 4 :> {4, 1, 0}
Wrong == INSTANCE Residual WITH
  Inputs <- MCVectors, Flips <- 1, W <- 4, ByteBits <- 2, MaxZeros <- 6, RiceBits <- 2, EnumMax <- 2, Half <- 16,
  PrimPoly <- MCPrimitive, MaxT <- 3, Total <- 8, FreqBits <- 4, FlushBytes <- 4, Scale <- 16

\* Texts of up to three blocks that repeat, rise and do neither.
MCMasked == {<< >>, <<2>>, <<2, 1, 2>>, <<1, 2, 1, 2, 3>>, <<0, 1, 2, 3, 0>>, <<2, 3, 2, 3, 2, 3>>}
MCBitsOf(n, width) == [i \in 1..width |-> (n \div 2^(width - i)) % 2]
MCRecords == {MCBitsOf(family, 4) \o start \o end :
  family \in 0..9, start \in [1..5 -> {0, 1}], end \in {Row(0, 9), <<1, 0, 0, 0, 1, 1, 0, 1, 0, 1>>, <<0, 0, 0, 1, 0, 1, 1, 1>>}}
MCForeign ==
  [whole : {TRUE}, len : {2}, repr : {"linear", "planes"}, block : {1}, spare : {0}, bits : MCRecords]
    \cup [whole : BOOLEAN, len : {0, 9}, repr : {"linear"}, block : {1, 2}, spare : {0, 1}, bits : {<< >>}]
Masked == INSTANCE MinMask WITH
  Texts <- MCMasked, Hostile <- MCForeign, Reprs <- {"linear", "planes"}, BlockBits <- (0 :> 7 @@ 1 :> 4),
  PatternLens <- <<2, 4>>, FastPatterns <- {0}, TwoStageLens <- {1}, Strides <- <<1, 2>>, FastStrides <- 1,
  LfsrPolys <- <<<<3, 2>>, <<4, 3>>>>, PolyBits <- 1, FamilyBits <- 4, IndexBits <- 2, IdBits <- 3, BmMax <- 7,
  KeyBits <- 4, FewMatches <- 1, ManyMatches <- 2, MaxInput <- 8, Astray <- 1, MaxCut <- 2,
  W <- 4, ByteBits <- 2, MaxZeros <- 6, RiceBits <- 2, EnumMax <- 2, Half <- 16, PrimPoly <- MCPrimitive, MaxT <- 3,
  Total <- 8, FreqBits <- 4, FlushBytes <- 4, Scale <- 16

---------------------------------------------------------------------------
PartsInit ==
  \/ part = "grammar" /\ Grammar!Init
  \/ part = "transform" /\ Transforms!Init
  \/ part = "order" /\ Ordered!Init
  \/ part = "optimal" /\ Optimal!Init
  \/ part = "select" /\ Selected!Init
  \/ part = "residual" /\ Wrong!Init
  \/ part = "minmask" /\ Masked!Init

others == <<part, more, at, tokens>>
GrammarNext == part = "grammar" /\ Grammar!Next /\ UNCHANGED others
TransformNext == part = "transform" /\ Transforms!Next /\ UNCHANGED others
OrderNext == part = "order" /\ Ordered!Next /\ UNCHANGED others
OptimalNext == part = "optimal" /\ Optimal!Next /\ UNCHANGED others
SelectNext == part = "select" /\ Selected!Next /\ UNCHANGED others
ResidualNext == part = "residual" /\ Wrong!Next /\ UNCHANGED others
MinMaskNext == part = "minmask" /\ Masked!Next /\ UNCHANGED others
LibraryInit == PartsInit /\ more = 0 /\ at = 0 /\ tokens = 0
LibraryNext == \/ GrammarNext \/ TransformNext \/ OrderNext \/ OptimalNext \/ SelectNext \/ ResidualNext \/ MinMaskNext
LibrarySpec == LibraryInit /\ [][LibraryNext]_codecVars

---------------------------------------------------------------------------
\* What the library takes apart it puts together again: a grammar stands for
\* its block whenever its encoder is stopped; text comes back from its
\* transform, and all of a genome but the case of its bases; bytes coded in the
\* context of the one before come back from tables that add up, and the table
\* of a whole stream adds up wherever one pass is enough; and the bits a mask
\* left wrong take exactly the bits they were reckoned at and lead the decoder,
\* which has only what came before, to the same block
\* (grammar/mod.rs, repair_fast.rs, transform/mod.rs, context_model.rs,
\* ajedrez.rs, minmask/{mod,masks,residual,bch,enumerative,bits}.rs).
LibraryInverts ==
  /\ part = "grammar" => Grammar!GrammarKept /\ Grammar!StackHoldsRest
  /\ part = "transform" => Transforms!TransformsInvert /\ Transforms!RotationsSorted
  /\ part = "order" => Ordered!RoundTrip /\ Ordered!RowsSound /\ Ordered!FreqTableNear
  /\ part = "residual" => Wrong!ExactlyReckoned /\ Wrong!ReadBack /\ Wrong!OnlyEncodingsTaken
  /\ part = "minmask" => Masked!BlocksRebuilt /\ Masked!RegisterShortest /\ Masked!OthersRefused

\* What the library chooses is the least there is: the tokens of a parse are
\* the cheapest path through the block, parse after parse, and come back from
\* their bytes where their offsets fit in them; and the payload selected is the
\* smallest that decodes
\* (lz77/optimal.rs, lz77/serial.rs, selector.rs).
LibraryChoosesLeast ==
  /\ part = "optimal" => Optimal!AllReached /\ Optimal!ParseIsShortest /\ Optimal!SerialExact
  /\ part = "select" => Selected!LeastThatDecodes

\* "All transforms are lossless and invertible." (transform/mod.rs): a block
\* comes back byte for byte from whichever transform its domain calls for.
EveryTransformUndone == part = "transform" => Transforms!InputComesBack

\* "Suma exactamente 4096" (ajedrez.rs): the frequencies of any stream that is
\* not empty add up to the total the coder divides by.
EveryTableSums == part = "order" => Ordered!FreqTableSums
=============================================================================
