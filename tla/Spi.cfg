SPECIFICATION FairSpec
CONSTANTS
  NBits = 4
  Confs <- MCConfs
  MinFast = 2
  MaxFast = 3
  MaxBytes = 10
  NoByte = NoByte
  NoSlave = NoSlave
INVARIANTS TxHasRoom
PROPERTIES WireInOrder EchoInOrder PollMeansDone Finishes
