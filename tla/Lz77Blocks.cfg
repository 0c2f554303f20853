SPECIFICATION Spec
CONSTANTS
  Byte = {0, 1}
  MaxLen = 12
  Window = 6
  MaxMatch = 5
  MaxChain = 12
  Near = 2
  Far = 4
  Steps = 1
  Hash <- MCColliding
INVARIANTS
  TypeOK
  RoundTrip
  TokensInRange
  TokensTile
  RecentDistinct
  ChainsByHash
  LazyReachesBest
\* Encoding and decoding end.
CHECK_DEADLOCK FALSE
