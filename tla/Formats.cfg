SPECIFICATION Spec
CONSTANTS
  B = 4
  ProbTotal = 8
  Divisor = 4
  Contexts = {"a", "b"}
  Shares <- MCShares
  MaxOps = 4
  Scale = 16
  Probs = {1, 5, 8, 15}
  Texts <- MCTexts
  ByteBits = 2
  Inputs <- MCSizes
  Given <- MCGiven
  Costs <- MCCosts
  Nxe2Kdf <- MCNxe2Kdf
  DefaultKdf <- MCDefaultKdf
  MaxKdf <- MCMaxKdf
  Legacy <- MCLegacy
  MaxRuns = 2
  Lengths <- MCInputLengths
  Packed <- MCPacked
  Cuts <- MCCuts
  Strange <- MCStrange
  Payloads <- MCPayloads
  BlockSize = 4
  MaxUsize = 150
INVARIANTS
  CodersExact
  MixingFaithful
  HuffmanFaithful
  LzmaFaithful
  ContextsFaithful
  BytesFaithful
  LibraryInverts
  LibraryChoosesLeast
  ContainerFaithful
  OpensForItsPassword
  AsksAndWorksInOrder
\* Each part stops.
CHECK_DEADLOCK FALSE
