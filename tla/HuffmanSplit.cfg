SPECIFICATION SplitSpec
CONSTANTS
  B = 4
  ProbTotal = 8
  Divisor = 4
  Contexts = {"a", "b"}
  Shares <- MCShares
  MaxOps = 4
  Scale = 16
  Probs = {1, 5, 8, 15}
  Texts <- MCTexts
  ByteBits = 2
INVARIANT SplitComesBack
\* The codec stops.
CHECK_DEADLOCK FALSE
