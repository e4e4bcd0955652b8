SPECIFICATION FairSpec
CONSTANTS
  Program <- MCProgram
  TrapBase = 21
  Vector <- OneVector
  Vectored = TRUE
  NoAddr = NoAddr
  Accesses = {a1}
  NoAccess = NoAccess
  Targets = {"ram"}
INVARIANTS InstLoadGetsOwnData
PROPERTIES InProgramOrder StopRaisesWait KeepsExecuting
