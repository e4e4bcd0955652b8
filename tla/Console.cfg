SPECIFICATION Spec
CONSTANTS
  Lines = 3
  Cols = 2
  Rows = 2
  HSyncEnd = 19
  HTot = 23
  VSync = 7
  VTot = 9
  InitMsg <- MCMsg
  Blank = Blank
  Uninit = Uninit
  Glyphs = {0, 10, 33, 34}
  Programs <- MCPrograms
  Apart = 4
  ApartFont = 6
  ApartRead = 12
  ApartScroll = 8
  Settle = 18
INVARIANTS WrittenAsTold ReadsOverwritten FrameShowsText
