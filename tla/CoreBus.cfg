SPECIFICATION FairSpec
CONSTANTS
  Accesses = {a1}
  NoAccess = NoAccess
  Targets = {"ram", "periph"}
INVARIANTS LoadGetsOwnData AnswerIsSeen StallOwnsBus StallInv
PROPERTIES LoadCompletes
