SPECIFICATION Spec
CONSTANTS
  p1 = p1
  p2 = p2
  fa = fa
  fb = fb
  fc = fc
  fd = fd
  nobody = nobody
  Torn <- nobody
  Procs <- MCOne
  Paths <- MCPaths2
  FileAt <- MCFileAt2
  LinkTo <- MCLinkTo2
  NBlocks = 2
  Attempts = 2
  InitModes = {"open", "private"}
  InitSlots = {"free"}
  EnvActs = {}
  EnvSteps = 0
  Files = {fa, fb}
  InitKinds <- MCKindsStaged
  Faults = {"chmod"}
PROPERTIES
  PrivateStaysPrivate
\* Every run ends, and nobody has to start one.
CHECK_DEADLOCK FALSE
