SPECIFICATION Spec
CONSTANTS
  p1 = p1
  p2 = p2
  fa = fa
  fb = fb
  fc = fc
  fd = fd
  nobody = nobody
  Torn <- nobody
  Procs <- MCOne
  Paths <- MCPaths3
  FileAt <- MCFileAt3
  LinkTo <- MCLinkTo3
  NBlocks = 2
  Attempts = 2
  InitModes = {"open"}
  InitSlots = {"free"}
  EnvActs = {}
  EnvSteps = 0
  Files = {fa, fb, fc}
  InitKinds <- MCKindsChain
  Faults = {}
INVARIANTS
  FailedDecodeIntact
\* Every run ends, and nobody has to start one.
CHECK_DEADLOCK FALSE
