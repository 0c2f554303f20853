SPECIFICATION Spec
CONSTANTS
  p1 = p1
  p2 = p2
  fa = fa
  fb = fb
  fc = fc
  fd = fd
  nobody = nobody
  Torn <- nobody
  Procs <- MCTwo
  Paths <- MCPaths2
  FileAt <- MCFileAt2
  LinkTo <- MCLinkTo2
  NBlocks = 2
  Attempts = 1
  Files = {fa, fb}
  InitKinds <- MCKindsStaged
  InitModes = {"open", "readonly"}
  InitSlots = {"free"}
  Faults = {"create", "write", "rename", "crash", "chmod"}
  EnvActs = {}
  EnvSteps = 0
INVARIANTS
  DestinationWhole
  NoLitter
  FailedDecodeIntact
PROPERTIES
  ReadersSeeOneStep
  ReplacesAtomically
\* Every run ends, and nobody has to start one.
CHECK_DEADLOCK FALSE
