------------------------------ MODULE Console ------------------------------
(***************************************************************************)
(* The text console of the video block (src/Source/hdmi.h): its register   *)
(* on clk_core, and on clk_pix the text buffer with its cursor, the beam,  *)
(* and the font.  Both processes are functions from the registers of       *)
(* before the edge; as in Spi the last assignment counts.  A glyph row     *)
(* stands for its eight pixels, so char_line holds one and is not shifted. *)
(* Left out: colours, blinking, the trace port and the serial outputs.     *)
(***************************************************************************)
EXTENDS Integers, Sequences

CONSTANTS
  Lines, Cols,       \* of the text, 40 and 80
  Rows,              \* pixel rows of a line of text, 12
  HSyncEnd, HTot,    \* hse and htot, 752 and 800
  VSync, VTot,       \* vss = vse - 2 and vtot, 491 and 525
  InitMsg,           \* what the console writes itself after reset
  Blank, Uninit      \* rows of pixels: none set, not written yet

NewLine == 10
ReadChar == 1        \* reads the character at the cursor, writes none
FirstGlyph == 32     \* characters below it share the glyph of NewLine

HRes == 8 * Cols
VRes == Rows * Lines
Cell(line, col) == line * Cols + col
Cells == 0 .. Lines * Cols
NextLine(line) == IF line = Lines - 1 THEN 0 ELSE line + 1
Glyph(char) == IF char < FirstGlyph THEN 10 ELSE char - FirstGlyph

-----------------------------------------------------------------------------
(* The register, on clk_core.                                              *)
CoreReset ==
  [char |-> 0, keep |-> FALSE, pos |-> <<0, 0>>, posEn |-> FALSE,
   fontWe |-> FALSE, fontAddr |-> <<0, 0>>, fontData |-> Uninit,
   mode |-> TRUE, cls |-> FALSE, ok |-> FALSE, waits |-> FALSE,
   en |-> FALSE, data |-> 0, done |-> FALSE]

\* MUTANT: the character in the register is dropped with the next edge
KeptShort(c, w) == [w EXCEPT !.char = 0, !.posEn = FALSE, !.cls = FALSE]

(* Nothing addresses the console: what it shows clk_pix stays for a second *)
(* edge, since clk_pix has half the frequency.                             *)
Kept(c, w) ==
  IF c.keep THEN w ELSE [w EXCEPT !.char = 0, !.posEn = FALSE, !.cls = FALSE]

\* MUTANT: an earlier answer still counts when a character is asked for
PlacedOk(w, a) == [w EXCEPT !.pos = <<a.line, a.col>>, !.char = a.char, !.posEn = TRUE]

(* printat: a character other than 0 is a request to read as well.         *)
Placed(w, a) ==
  [w EXCEPT !.pos = <<a.line, a.col>>, !.char = a.char, !.posEn = TRUE,
            !.ok = @ /\ a.char = 0]

Written(w, a) ==
  LET v == [w EXCEPT !.posEn = FALSE, !.keep = TRUE] IN
  CASE a.cmd = "char" -> IF a.char # 0 THEN [v EXCEPT !.char = a.char] ELSE v
    [] a.cmd = "at"   -> Placed(v, a)
    [] a.cmd = "mode" -> [v EXCEPT !.mode = a.on]
    [] a.cmd = "cls"  -> [v EXCEPT !.cls = TRUE]
    [] a.cmd = "font" -> [v EXCEPT !.fontAddr = a.glyph, !.fontData = a.data, !.fontWe = TRUE]
    [] a.cmd = "nop"  -> v

(* A read waits until clk_pix has read a character; that of an earlier     *)
(* read is good enough.                                                    *)
Answered(c, p, w) ==
  LET v == IF c.waits /\ c.ok
           THEN [w EXCEPT !.data = p.charRd, !.en = TRUE, !.done = TRUE, !.waits = FALSE]
           ELSE w
  IN IF c.done THEN [v EXCEPT !.data = 0, !.en = FALSE, !.done = FALSE] ELSE v

CoreEdge(c, p, a) ==
  LET w == [c EXCEPT !.keep = FALSE, !.en = FALSE, !.data = 0,
                     !.fontWe = @ /\ ~p.release, !.ok = @ \/ p.rdpp]
  IN Answered(c, p,
       CASE a.cmd = "none" -> Kept(c, w)
         [] a.cmd = "read" -> [w EXCEPT !.waits = TRUE]
         [] OTHER -> Written(w, a))

-----------------------------------------------------------------------------
(* clk_pix.  The registers of the two memories are among its own.  The     *)
(* write enable of the font, low when active, is reset to 0.               *)
PixReset ==
  [hcnt |-> 0, vcnt |-> VRes - 1, rhsync |-> FALSE, rvsync |-> FALSE, rvsyncp |-> FALSE,
   rde |-> FALSE, inFrame |-> FALSE, pipe |-> 0, addr |-> 0, wen |-> FALSE,
   char |-> 0, wdata |-> 0, rd |-> FALSE, rdp |-> FALSE, rdpp |-> FALSE, charRd |-> 0,
   curLine |-> 0, curCol |-> 0, startLine |-> 0, endLine |-> 0, inc |-> FALSE,
   initCnt |-> 2 * Len(InitMsg), clsp |-> FALSE,
   fontAddr |-> <<0, 0>>, fontWen |-> TRUE, release |-> FALSE,
   lineBlank |-> FALSE, bufBlank |-> FALSE, line |-> 0, col |-> 0, div |-> 0,
   charLine |-> Blank, bufChar |-> 0, fontRow |-> Uninit]

HSync(p) == p.hcnt >= HSyncEnd - 2 /\ p.hcnt < HSyncEnd
VSyncs(p) == p.vcnt >= VSync /\ p.vcnt < VSync + 2

(* The beam.                                                               *)
Beam(p, w) ==
  [w EXCEPT !.hcnt = IF p.hcnt < HTot THEN p.hcnt + 1 ELSE 0,
            !.vcnt = CASE p.hcnt < HTot -> @
                       [] p.hcnt >= HTot /\ p.vcnt < VTot -> @ + 1
                       [] p.hcnt >= HTot /\ p.vcnt >= VTot -> 0,
            !.rhsync = HSync(p),
            !.rde = p.hcnt < HRes /\ p.vcnt < VRes,
            !.rvsync = (@ \/ (HSync(p) /\ VSyncs(p))) /\ ~(HSync(p) /\ ~VSyncs(p)),
            !.rvsyncp = p.rvsync,
            !.inFrame = p.vcnt < VRes]

Slot(p) == p.hcnt % 8 = 4

(* A character goes to the cursor, which moves on; the text scrolls when   *)
(* it meets its first line.                                                *)
Put(p, w) ==
  LET eol == p.curCol = Cols - 1 \/ p.char = NewLine
      next == NextLine(p.curLine)
      v == [w EXCEPT !.char = 0, !.wdata = p.char, !.wen = (p.char # ReadChar),
                     !.rd = TRUE, !.addr = Cell(p.curLine, p.curCol)]
  IN IF eol
     THEN [v EXCEPT !.inc = @ \/ next = p.startLine,
                    !.curLine = next, !.endLine = next, !.curCol = 0]
     ELSE [v EXCEPT !.curCol = p.curCol + 1]

(* One slot in eight is the display's; a character waits for another.      *)
Access(p, w) ==
  CASE Slot(p) -> [w EXCEPT !.pipe = 1, !.addr = Cell(p.line, p.col)]
    [] ~Slot(p) /\ p.char # 0 -> Put(p, w)
    [] OTHER -> w

(* What the register shows, and the message of the start.                  *)
Taken(p, c, w) ==
  LET v == IF c.char # 0 THEN [w EXCEPT !.char = c.char] ELSE w
      u == IF c.posEn
           THEN [v EXCEPT !.startLine = 0, !.endLine = Lines - 1,
                          !.curLine = c.pos[1], !.curCol = c.pos[2]]
           ELSE v
  IN CASE p.initCnt = 0 -> u
       [] p.initCnt # 0 /\ p.initCnt % 2 = 0 -> [u EXCEPT !.initCnt = @ - 1]
       [] OTHER -> [u EXCEPT !.initCnt = @ - 1,
                             !.char = InitMsg[Len(InitMsg) - (p.initCnt \div 2)]]

(* CLS moves the cursor only.  The first line follows the cursor one edge  *)
(* after it has moved.                                                     *)
Moved(p, c, w) ==
  LET v == IF c.cls /\ ~p.clsp
           THEN [w EXCEPT !.curCol = 0, !.curLine = 0, !.startLine = 0, !.endLine = 0]
           ELSE w
  IN IF p.inc THEN [v EXCEPT !.startLine = NextLine(p.curLine), !.inc = FALSE] ELSE v

(* The font is read for the display, or else may be written.               *)
Font(p, c, w) ==
  CASE p.pipe = 2 ->
         [w EXCEPT !.lineBlank = IF p.bufChar = NewLine THEN c.mode ELSE @,
                   !.fontAddr = <<Glyph(p.bufChar), p.div>>]
    [] p.pipe # 2 /\ c.fontWe ->
         [w EXCEPT !.fontAddr = c.fontAddr, !.fontWen = TRUE, !.release = TRUE]
    [] OTHER -> w

(* The line ends at the cursor; what is read becomes pixels.               *)
Shown(p, c, w) ==
  CASE p.pipe = 3 /\ p.line = p.curLine /\ p.col = p.curCol -> [w EXCEPT !.lineBlank = c.mode]
    [] p.pipe = 4 -> [w EXCEPT !.charLine = IF p.lineBlank \/ p.bufBlank THEN Blank ELSE p.fontRow]
    [] OTHER -> w

\* MUTANT: the lines behind the last one are shown
BeamBackUnblanked(p, c, w) ==
  IF p.rhsync /\ ~HSync(p)
  THEN LET v == [w EXCEPT !.lineBlank = FALSE, !.col = 0]
       IN CASE p.inFrame /\ p.div = Rows - 1 -> [v EXCEPT !.div = 0, !.line = NextLine(p.line)]
            [] p.inFrame /\ p.div # Rows - 1 -> [v EXCEPT !.div = @ + 1]
            [] OTHER -> v
  ELSE w

(* The end of hsync: the next row of pixels, of this line or of the next;  *)
(* behind the last line of the text nothing is shown.                      *)
BeamBack(p, c, w) ==
  IF p.rhsync /\ ~HSync(p)
  THEN LET v == [w EXCEPT !.lineBlank = FALSE, !.col = 0]
       IN CASE p.inFrame /\ p.div = Rows - 1 ->
                 [v EXCEPT !.div = 0, !.line = NextLine(p.line),
                           !.bufBlank = IF p.line = p.endLine THEN c.mode ELSE @]
            [] p.inFrame /\ p.div # Rows - 1 -> [v EXCEPT !.div = @ + 1]
            [] OTHER -> v
  ELSE w

(* The end of vsync: the first line of the text.                           *)
BeamUp(p, w) ==
  IF p.rvsyncp /\ ~p.rvsync
  THEN [w EXCEPT !.line = p.startLine, !.div = 0, !.bufBlank = FALSE]
  ELSE w

NextCol(p, w) == IF p.hcnt % 8 = 3 /\ p.rde THEN [w EXCEPT !.col = p.col + 1] ELSE w

(* One edge: text and font are the memories before it.                     *)
PixEdge(p, c, text, font) ==
  LET w0 == [p EXCEPT !.pipe = IF @ \in 1 .. 3 THEN @ + 1 ELSE 0,
                      !.clsp = c.cls, !.wen = FALSE, !.fontWen = FALSE, !.release = FALSE,
                      !.rd = FALSE, !.rdp = p.rd, !.rdpp = p.rdp,
                      !.bufChar = text[p.addr], !.fontRow = font[p.fontAddr]]
      w1 == Access(p, Beam(p, w0))
      w2 == IF p.rdp THEN [w1 EXCEPT !.charRd = p.bufChar] ELSE w1
      w3 == Font(p, c, Moved(p, c, Taken(p, c, w2)))
  IN NextCol(p, BeamUp(p, BeamBack(p, c, Shown(p, c, w3))))

(* The memories, written in the edge after.                                *)
TextAfter(p, text) == IF p.wen THEN [text EXCEPT ![p.addr] = p.wdata] ELSE text
FontAfter(p, c, font) == IF p.fontWen THEN [font EXCEPT ![p.fontAddr] = c.fontData] ELSE font

=============================================================================
