SPECIFICATION CsrCoreFair
CONSTANTS
  Program <- FirmwareProgram
  TrapBase = 24
  Vector <- FirmwareVector
  Vectored = TRUE
  NoAddr = NoAddr
  Accesses = {a1}
  NoAccess = NoAccess
  Targets = {"ram"}
  Platform = {16}
  Timer = 7
  MaxDelay = 8
  Starts = {13, 34, 44}
INVARIANTS EntersPending DisabledIsQuiet MaskedIsQuiet
PROPERTIES SleepEnds PendingIsTaken
