SPECIFICATION Spec
CONSTANTS
  p1 = p1
  p2 = p2
  fa = fa
  fb = fb
  fc = fc
  fd = fd
  nobody = nobody
  Torn <- nobody
  Procs <- MCOne
  Paths <- MCPaths2
  FileAt <- MCFileAt2
  LinkTo <- MCLinkTo2
  NBlocks = 1
  Attempts = 2
  Files = {fa, fb, fc}
  InitKinds <- MCKindsAny
  InitModes = {"open", "private", "readonly"}
  InitSlots = {"free", "taken"}
\* Not "create": fairness must not end the search for a name by making it fail.
  Faults = {"write", "rename", "unlink", "crash"}
  EnvActs = {"chmod", "remove", "replace", "link"}
  EnvSteps = 1
INVARIANTS
  TypeOK
PROPERTIES
  ForeignUntouched
  UndisturbedReplacement
  Terminates
\* Every run ends, and nobody has to start one.
CHECK_DEADLOCK FALSE
