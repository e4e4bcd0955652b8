SPECIFICATION CsrCoreFair
CONSTANTS
  Program <- MaskProgram
  TrapBase = 13
  Vector <- MaskVector
  Vectored = TRUE
  NoAddr = NoAddr
  Accesses = {a1}
  NoAccess = NoAccess
  Targets = {"ram"}
  Platform = {16}
  Timer = 7
  MaxDelay = 8
  Starts = {3}
INVARIANTS EntersPending
