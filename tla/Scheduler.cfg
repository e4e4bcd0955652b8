SPECIFICATION Spec
CONSTANTS
  N = 9
  NoEvent = NoEvent
  Forever = {"p0", "p2", "p7"}
  Clocks = {"clk", "clk_100", "c2", "c0", "gated"}
  Drives <- MCDrives
  Waits <- MCWaits
  Derived <- MCDerived
  Gated <- MCGated
  Shift = 5
  TimeMod = 128
  EndTime = 32
CHECK_DEADLOCK FALSE
INVARIANTS SlotsPartition SameEdgeTogether DerivedSeesSource GateIsClean
PROPERTIES RunsInOrder DeltasComplete
