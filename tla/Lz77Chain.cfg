SPECIFICATION Spec
CONSTANTS
  Byte = {0, 1}
  MaxLen = 9
  Window = 16
  MaxMatch = 5
  MaxChain = 4
  Near = 2
  Far = 4
  Steps = 1
  Hash <- MCPerfect
INVARIANTS
  ChainsGoBack
\* Encoding and decoding end.
CHECK_DEADLOCK FALSE
