SPECIFICATION Spec
CONSTANTS
  NChannels = 2
  WordBytes = 2
  AddrMod = 4
  SizeMod = 8
  TimeMod = 4
  WaitMod = 4
  Bytes = {0, 1, 2, 3}
  NoByte = NoByte
  NoAccess = NoAccess
  PCp = PCp
  Settle = 8
  Targets = {"ram", "periph"}
  Scenarios <- Reload
INVARIANTS CodeLoaded
