SPECIFICATION FairSpec
CONSTANTS
  NBits = 3
  CntMod = 32
  ResetDiv = 20
  Bytes <- MCBytes
  Div = 20
  Divs = {19, 21}
  MaxArm = 3
  Lags = {0, 2, 97}
  NoByte = NoByte
PROPERTIES StopsSender DeliversInOrder Delivers
