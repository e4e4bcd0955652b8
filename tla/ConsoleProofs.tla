--------------------------- MODULE ConsoleProofs ---------------------------
(***************************************************************************)
(* What the program wrote is in the console and on the screen, and what it *)
(* read is what it overwrote, for every size of the text, every message of *)
(* the start, every program and every phase of the beam and the clocks,    *)
(* when the accesses keep the distances and the beam the blanking.         *)
(***************************************************************************)
EXTENDS ConsoleText, NaturalsInduction, WellFoundedInduction, TLAPS

(* The distances.  The first four are the smallest ones that work: with    *)
(* one of them less by one the run Console finds a property violated.      *)
KeepsDistances ==
  /\ Apart >= 4 /\ ApartFont >= 6 /\ ApartScroll >= 8 /\ ApartRead >= 12
  /\ Settle >= 14 /\ Settle >= 4 * Len(InitMsg) + 10

-----------------------------------------------------------------------------
(* The part of the terminal that concerns the text, and what a character,  *)
(* CLS and PRINT_AT do to it.                                              *)
View(t) ==
  [text |-> t.text, line |-> t.line, col |-> t.col, start |-> t.start, end |-> t.end,
   over |-> t.over]

Type(v, char) ==
  LET here == Cell(v.line, v.col)
      eol == v.col = Cols - 1 \/ char = NewLine
      next == NextLine(v.line)
  IN IF char = 0 THEN v ELSE
     [text |-> IF char = ReadChar THEN v.text ELSE [v.text EXCEPT ![here] = char],
      line |-> IF eol THEN next ELSE v.line,
      col |-> IF eol THEN 0 ELSE v.col + 1,
      start |-> IF eol /\ next = v.start THEN NextLine(next) ELSE v.start,
      end |-> IF eol THEN next ELSE v.end,
      over |-> v.text[here]]

Home(v) ==
  [text |-> v.text, line |-> 0, col |-> 0, start |-> 0, end |-> 0, over |-> v.over]

Place(v, pos) ==
  [text |-> v.text, line |-> pos[1], col |-> pos[2], start |-> 0, end |-> Lines - 1,
   over |-> v.over]

(* What clk_pix makes of the register's contents.                          *)
Put1(v, r) == IF r.posEn THEN Place(v, r.pos) ELSE v
Seen(v, r) == IF r.cls THEN Home(v) ELSE Type(Put1(v, r), r.char)

-----------------------------------------------------------------------------
(* The terminal the console is going to be: when the memory and the first  *)
(* line have been written, when the character that waits for its slot has  *)
(* been put, and when clk_pix has seen the register.                       *)
Stored(q, t, over) ==
  [text |-> TextAfter(q, t), line |-> q.curLine, col |-> q.curCol,
   start |-> IF q.inc THEN NextLine(q.curLine) ELSE q.startLine, end |-> q.endLine,
   over |-> over]

S == Stored(p, text, term.over)
Waiting == Type(S, p.char)
Fresh == c.keep \/ odd
Coming == IF Fresh THEN Seen(Waiting, c) ELSE Waiting

(* The register holds something about the text.                            *)
Holds == c.char # 0 \/ c.posEn \/ c.cls
HoldsChar == Fresh /\ c.char # 0

Odd == IF odd THEN 1 ELSE 0
Reset == last = "reset"
Base == IF Reset THEN 4 * Len(InitMsg) ELSE 2

ProgramInv ==
  /\ todo \in Seq(Commands)
  /\ \A i \in 2 .. Len(todo) : todo[i].cmd = "read" => Asks(todo[i - 1])
  /\ todo # <<>> /\ todo[1].cmd = "read" => last = "at"
  /\ reading => last = "other"

PixFields ==
  {"hcnt", "pipe", "addr", "wen", "char", "wdata", "rd", "rdp", "rdpp", "charRd", "curLine",
   "curCol", "startLine", "endLine", "inc", "initCnt", "clsp", "fontAddr", "fontWen",
   "release", "bufChar"}

CoreFields ==
  {"char", "keep", "pos", "posEn", "fontWe", "fontAddr", "fontData", "cls", "ok", "waits",
   "en", "data", "done"}

TermFields == {"text", "line", "col", "start", "end", "over", "font"}

ShapeInv ==
  /\ PixFields \subseteq DOMAIN p /\ CoreFields \subseteq DOMAIN c
  /\ TermFields \subseteq DOMAIN term
  /\ p.hcnt \in Nat /\ p.initCnt \in 0 .. 2 * Len(InitMsg)
  /\ since \in 0 .. Settle /\ behind \in 0 .. Settle /\ since <= behind
  /\ odd \in BOOLEAN /\ reading \in BOOLEAN

(* How long the register holds what.                                       *)
HoldsInv ==
  /\ c.keep => since = 0 /\ ~reading
  /\ Holds => /\ c.keep \/ (since = 1 /\ ~reading) \/ (since = 0 /\ reading)
              /\ ~Reset /\ last # "answer"
  /\ c.char # 0 => behind <= 1 /\ behind = (IF reading THEN since + 1 ELSE since)
  /\ c.cls => c.char = 0 /\ ~c.posEn /\ last = "other" /\ ~reading

StartInv ==
  /\ Reset => since = behind /\ ~reading /\ ~scrolled
  /\ last = "answer" => behind = Settle
  /\ p.initCnt > 0 => Reset /\ since <= 2 * (2 * Len(InitMsg) - p.initCnt) + Odd

(* How long after the last character its traces are gone.                  *)
Ages(q, b, base, o) ==
  /\ q.char # 0 => b <= base + o + (IF Slot(q) THEN 0 ELSE 2)
  /\ q.rd => b <= base + 4 + o
  /\ q.wen \/ q.inc => q.rd
  /\ q.rdp => b <= base + 6 + o
  /\ q.rdpp => b <= base + 8 + o

AgeInv ==
  /\ Ages(p, behind, Base, Odd)
  /\ p.clsp => since <= 2 + Odd /\ last = "other" /\ ~reading /\ (Fresh => ~c.cls)

(* Nothing that moves the cursor meets a line that still has to scroll.    *)
ScrollInv ==
  /\ p.inc => p.char = 0
  /\ Holds /\ Fresh => /\ ~p.inc /\ ~Scrolls(S, p.char)
                       /\ p.char # 0 => ~Slot(p)
  /\ ~scrolled => /\ ~p.inc /\ ~Scrolls(S, p.char)
                  /\ Fresh => ~Scrolls(Put1(Waiting, c), c.char)

TextInv == ~Reset => Coming = View(term)

(* The message of the start: how much of it clk_pix has taken and put.     *)
Bare(v) ==
  [text |-> v.text, line |-> v.line, col |-> v.col, start |-> v.start, end |-> v.end]

TakenChars == Len(InitMsg) - ((p.initCnt + 1) \div 2)
PutChars == IF p.char = 0 THEN TakenChars ELSE TakenChars - 1

MessageInv ==
  Reset =>
    /\ term = Greeted[Len(InitMsg)]
    /\ p.startLine = 0 /\ ~p.inc
    /\ p.char # 0 => /\ TakenChars > 0 /\ p.char = InitMsg[TakenChars]
                     /\ Slot(p) => p.initCnt % 2 = 0
    /\ Bare(S) = Bare(Greeted[PutChars])

FontAge == CASE last = "font" -> since [] last = "answer" -> since + 6 [] OTHER -> since + 4

FontComing ==
  LET f == FontAfter(p, c, font)
  IN IF c.fontWe THEN [f EXCEPT ![c.fontAddr] = c.fontData] ELSE f

FontInv ==
  /\ FontComing = term.font
  /\ p.release => p.fontWen /\ p.fontAddr = c.fontAddr /\ FontAge <= 4 + Odd
  /\ p.release /\ odd => ~c.fontWe
  /\ c.fontWe /\ ~p.release => FontAge <= Odd + (IF p.pipe = 2 THEN 0 ELSE 2)
  /\ c.fontWe => ~Reset
  /\ p.fontWen => p.release \/ (Reset /\ since <= Odd)

(* The program has asked: the character it will read is on its way from    *)
(* the register to the memory and back, at one place at a time.            *)
Asked == last = "at" \/ reading

AnswerInv ==
  /\ c.waits <=> reading /\ ~c.en
  /\ c.en <=> c.done
  /\ c.en => reading /\ since >= 1 /\ c.ok /\ ~p.rdpp /\ c.data = term.over
  /\ reading /\ ~c.en /\ c.ok => since = 0 \/ behind <= 12 + Odd

OnItsWay ==
  /\ HoldsChar => ~c.ok /\ p.char = 0 /\ ~p.rd /\ ~p.rdp /\ ~p.rdpp
  /\ p.char # 0 => ~c.ok /\ ~HoldsChar /\ ~p.rd /\ ~p.rdp /\ ~p.rdpp
  /\ p.rd => text[p.addr] = term.over /\ ~c.ok /\ ~p.rdp /\ ~p.rdpp
  /\ p.rdp => p.bufChar = term.over /\ ~c.ok /\ ~p.rdpp
  /\ p.rdpp \/ c.ok => p.charRd = term.over /\ ~p.rd /\ ~p.rdp /\ p.char = 0 /\ ~HoldsChar
  /\ c.ok /\ p.rdpp => odd
  /\ c.ok \/ p.rdpp \/ p.rdp \/ p.rd \/ p.char # 0 \/ HoldsChar

ReadInv == Asked => OnItsWay

ConsoleInv ==
  /\ ProgramInv /\ ShapeInv /\ HoldsInv /\ StartInv /\ AgeInv /\ ScrollInv /\ TextInv
  /\ MessageInv /\ FontInv /\ AnswerInv /\ ReadInv

-----------------------------------------------------------------------------
(* What an edge of clk_pix does.                                           *)
Puts(q) == ~Slot(q) /\ q.char # 0
EndsLine(q) == q.curCol = Cols - 1 \/ q.char = NewLine
Homes(q, r) == r.cls /\ ~q.clsp
TakesFont(q, r) == q.pipe # 2 /\ r.fontWe

(* The fields the text and the font depend on.                             *)
Same(q, w) ==
  /\ PixFields \subseteq DOMAIN w
  /\ w.pipe = q.pipe /\ w.addr = q.addr /\ w.wen = q.wen /\ w.char = q.char
  /\ w.wdata = q.wdata /\ w.rd = q.rd /\ w.rdp = q.rdp /\ w.rdpp = q.rdpp
  /\ w.charRd = q.charRd /\ w.curLine = q.curLine /\ w.curCol = q.curCol
  /\ w.startLine = q.startLine /\ w.endLine = q.endLine /\ w.inc = q.inc
  /\ w.initCnt = q.initCnt /\ w.clsp = q.clsp /\ w.fontAddr = q.fontAddr
  /\ w.fontWen = q.fontWen /\ w.release = q.release /\ w.bufChar = q.bufChar

LEMMA BeamSame ==
  ASSUME NEW q, NEW w, PixFields \subseteq DOMAIN w, q.hcnt \in Nat
  PROVE  /\ Same(w, Beam(q, w)) /\ Beam(q, w).hcnt \in Nat
         /\ Beam(q, w).hcnt = q.hcnt + 1 \/ Beam(q, w).hcnt = 0
BY DEF Beam, Same, PixFields

LEMMA ShownSame ==
  ASSUME NEW q, NEW r, NEW w, PixFields \subseteq DOMAIN w
  PROVE  Same(w, Shown(q, r, w)) /\ Shown(q, r, w).hcnt = w.hcnt
BY DEF Shown, Same, PixFields

LEMMA BeamBackSame ==
  ASSUME NEW q, NEW r, NEW w, PixFields \subseteq DOMAIN w
  PROVE  Same(w, BeamBack(q, r, w)) /\ BeamBack(q, r, w).hcnt = w.hcnt
BY DEF BeamBack, Same, PixFields

LEMMA BeamUpSame ==
  ASSUME NEW q, NEW w, PixFields \subseteq DOMAIN w
  PROVE  Same(w, BeamUp(q, w)) /\ BeamUp(q, w).hcnt = w.hcnt
BY DEF BeamUp, Same, PixFields

LEMMA NextColSame ==
  ASSUME NEW q, NEW w, PixFields \subseteq DOMAIN w
  PROVE  Same(w, NextCol(q, w)) /\ NextCol(q, w).hcnt = w.hcnt
BY DEF NextCol, Same, PixFields

(* The four operators that do concern the text.                            *)
AccessDoes(q, w, v) ==
  /\ PixFields \subseteq DOMAIN v
  /\ v.hcnt = w.hcnt /\ v.rdp = w.rdp /\ v.rdpp = w.rdpp
  /\ v.charRd = w.charRd /\ v.startLine = w.startLine /\ v.initCnt = w.initCnt
  /\ v.clsp = w.clsp /\ v.fontAddr = w.fontAddr /\ v.fontWen = w.fontWen
  /\ v.release = w.release /\ v.bufChar = w.bufChar
  /\ v.pipe = (IF Slot(q) THEN 1 ELSE w.pipe)
  /\ Puts(q) => /\ v.addr = Cell(q.curLine, q.curCol)
                /\ v.wdata = q.char /\ v.char = 0
                /\ (v.wen <=> q.char # ReadChar) /\ v.rd
  /\ ~Puts(q) => v.wdata = w.wdata /\ v.char = w.char /\ v.wen = w.wen /\ v.rd = w.rd
  /\ Puts(q) /\ EndsLine(q) =>
       /\ v.inc <=> w.inc \/ NextLine(q.curLine) = q.startLine
       /\ v.curLine = NextLine(q.curLine) /\ v.endLine = NextLine(q.curLine)
       /\ v.curCol = 0
  /\ Puts(q) /\ ~EndsLine(q) =>
       /\ v.inc = w.inc /\ v.curLine = w.curLine /\ v.endLine = w.endLine
       /\ v.curCol = q.curCol + 1
  /\ ~Puts(q) =>
       /\ v.inc = w.inc /\ v.curLine = w.curLine /\ v.endLine = w.endLine
       /\ v.curCol = w.curCol

LEMMA AccessFields ==
  ASSUME NEW q, NEW w, PixFields \subseteq DOMAIN w
  PROVE  AccessDoes(q, w, Access(q, w))
<1> DEFINE v0 == [w EXCEPT !.char = 0, !.wdata = q.char, !.wen = (q.char # ReadChar),
                           !.rd = TRUE, !.addr = Cell(q.curLine, q.curCol)]
<1>5. /\ PixFields \subseteq DOMAIN v0
      /\ v0.hcnt = w.hcnt /\ v0.rdp = w.rdp /\ v0.rdpp = w.rdpp
      /\ v0.charRd = w.charRd /\ v0.startLine = w.startLine /\ v0.initCnt = w.initCnt
      /\ v0.clsp = w.clsp /\ v0.fontAddr = w.fontAddr /\ v0.fontWen = w.fontWen
      /\ v0.release = w.release /\ v0.bufChar = w.bufChar /\ v0.pipe = w.pipe
      /\ v0.addr = Cell(q.curLine, q.curCol) /\ v0.wdata = q.char /\ v0.char = 0
      /\ (v0.wen <=> q.char # ReadChar) /\ v0.rd
      /\ v0.inc = w.inc /\ v0.curLine = w.curLine /\ v0.endLine = w.endLine
  BY DEF PixFields
<1>1. CASE Slot(q)
  BY <1>1 DEF Access, AccessDoes, Puts, PixFields
<1>2. CASE Puts(q) /\ EndsLine(q)
  <2>1. Put(q, w) = [v0 EXCEPT !.inc = @ \/ NextLine(q.curLine) = q.startLine,
                               !.curLine = NextLine(q.curLine),
                               !.endLine = NextLine(q.curLine), !.curCol = 0]
    BY <1>2 DEF Put, EndsLine
  <2>2. Access(q, w) = Put(q, w) BY <1>2 DEF Access, Puts
  <2> HIDE DEF v0
  <2>3. Access(q, w).inc <=> v0.inc \/ NextLine(q.curLine) = q.startLine
    BY <1>5, <2>1, <2>2 DEF PixFields
  <2> QED BY <1>2, <1>5, <2>1, <2>2, <2>3 DEF AccessDoes, Puts, PixFields
<1>3. CASE Puts(q) /\ ~EndsLine(q)
  <2>1. Put(q, w) = [v0 EXCEPT !.curCol = q.curCol + 1] BY <1>3 DEF Put, EndsLine
  <2>2. Access(q, w) = Put(q, w) BY <1>3 DEF Access, Puts
  <2> HIDE DEF v0
  <2> QED BY <1>3, <1>5, <2>1, <2>2 DEF AccessDoes, Puts, PixFields
<1>4. CASE ~Slot(q) /\ ~Puts(q)
  BY <1>4 DEF Access, AccessDoes, Puts, PixFields
<1> QED BY <1>1, <1>2, <1>3, <1>4 DEF Puts

TakenDoes(q, r, w, v) ==
  /\ PixFields \subseteq DOMAIN v
  /\ v.hcnt = w.hcnt /\ v.pipe = w.pipe /\ v.addr = w.addr /\ v.wen = w.wen
  /\ v.wdata = w.wdata /\ v.rd = w.rd /\ v.rdp = w.rdp /\ v.rdpp = w.rdpp
  /\ v.charRd = w.charRd /\ v.inc = w.inc
  /\ v.clsp = w.clsp /\ v.fontAddr = w.fontAddr /\ v.fontWen = w.fontWen
  /\ v.release = w.release /\ v.bufChar = w.bufChar
  /\ v.startLine = (IF r.posEn THEN 0 ELSE w.startLine)
  /\ v.endLine = (IF r.posEn THEN Lines - 1 ELSE w.endLine)
  /\ v.curLine = (IF r.posEn THEN r.pos[1] ELSE w.curLine)
  /\ v.curCol = (IF r.posEn THEN r.pos[2] ELSE w.curCol)
  /\ v.initCnt = (IF q.initCnt = 0 THEN 0 ELSE q.initCnt - 1)
  /\ v.char = (IF q.initCnt % 2 = 1
               THEN InitMsg[Len(InitMsg) - (q.initCnt \div 2)]
               ELSE IF r.char # 0 THEN r.char ELSE w.char)

LEMMA TakenFields ==
  ASSUME NEW q, NEW r, NEW w, PixFields \subseteq DOMAIN w, q.initCnt \in Nat,
         w.initCnt = q.initCnt
  PROVE  TakenDoes(q, r, w, Taken(q, r, w))
<1> DEFINE v0 == IF r.char # 0 THEN [w EXCEPT !.char = r.char] ELSE w
           u == IF r.posEn
                THEN [v0 EXCEPT !.startLine = 0, !.endLine = Lines - 1,
                                !.curLine = r.pos[1], !.curCol = r.pos[2]]
                ELSE v0
           Good(v, char, cnt) ==
             /\ PixFields \subseteq DOMAIN v
             /\ v.hcnt = w.hcnt /\ v.pipe = w.pipe /\ v.addr = w.addr /\ v.wen = w.wen
             /\ v.wdata = w.wdata /\ v.rd = w.rd /\ v.rdp = w.rdp /\ v.rdpp = w.rdpp
             /\ v.charRd = w.charRd /\ v.inc = w.inc
             /\ v.clsp = w.clsp /\ v.fontAddr = w.fontAddr /\ v.fontWen = w.fontWen
             /\ v.release = w.release /\ v.bufChar = w.bufChar
             /\ v.startLine = (IF r.posEn THEN 0 ELSE w.startLine)
             /\ v.endLine = (IF r.posEn THEN Lines - 1 ELSE w.endLine)
             /\ v.curLine = (IF r.posEn THEN r.pos[1] ELSE w.curLine)
             /\ v.curCol = (IF r.posEn THEN r.pos[2] ELSE w.curCol)
             /\ v.initCnt = cnt /\ v.char = char
           own == IF r.char # 0 THEN r.char ELSE w.char
           msg == InitMsg[Len(InitMsg) - (q.initCnt \div 2)]
<1>1. Good(u, own, q.initCnt) BY DEF PixFields
<1>2. q.initCnt % 2 \in 0 .. 1 /\ 0 % 2 = 0 OBVIOUS
<1> HIDE DEF u
<1>3. CASE q.initCnt = 0
  <2>1. Taken(q, r, w) = u BY <1>3 DEF Taken, u
  <2> QED BY <1>1, <1>2, <1>3, <2>1 DEF TakenDoes
<1>4. CASE q.initCnt # 0 /\ q.initCnt % 2 = 0
  <2>1. Taken(q, r, w) = [u EXCEPT !.initCnt = @ - 1] BY <1>4 DEF Taken, u
  <2>2. Good([u EXCEPT !.initCnt = @ - 1], own, q.initCnt - 1) BY <1>1 DEF PixFields
  <2> QED BY <1>2, <1>4, <2>1, <2>2 DEF TakenDoes
<1>5. CASE q.initCnt # 0 /\ q.initCnt % 2 # 0
  <2>1. Taken(q, r, w) = [u EXCEPT !.initCnt = @ - 1, !.char = msg] BY <1>5 DEF Taken, u
  <2> HIDE DEF msg
  <2>2. Good([u EXCEPT !.initCnt = @ - 1, !.char = msg], msg, q.initCnt - 1)
    BY <1>1 DEF PixFields
  <2> QED BY <1>2, <1>5, <2>1, <2>2 DEF msg, TakenDoes
<1> QED BY <1>3, <1>4, <1>5

MovedDoes(q, r, w, v) ==
  /\ PixFields \subseteq DOMAIN v
  /\ v.hcnt = w.hcnt /\ v.pipe = w.pipe /\ v.addr = w.addr /\ v.wen = w.wen
  /\ v.char = w.char /\ v.wdata = w.wdata /\ v.rd = w.rd /\ v.rdp = w.rdp
  /\ v.rdpp = w.rdpp /\ v.charRd = w.charRd /\ v.initCnt = w.initCnt
  /\ v.clsp = w.clsp /\ v.fontAddr = w.fontAddr /\ v.fontWen = w.fontWen
  /\ v.release = w.release /\ v.bufChar = w.bufChar
  /\ v.curLine = (IF Homes(q, r) THEN 0 ELSE w.curLine)
  /\ v.curCol = (IF Homes(q, r) THEN 0 ELSE w.curCol)
  /\ v.endLine = (IF Homes(q, r) THEN 0 ELSE w.endLine)
  /\ v.startLine = (IF q.inc THEN NextLine(q.curLine)
                    ELSE IF Homes(q, r) THEN 0 ELSE w.startLine)
  /\ v.inc <=> ~q.inc /\ w.inc

LEMMA MovedFields ==
  ASSUME NEW q, NEW r, NEW w, PixFields \subseteq DOMAIN w
  PROVE  MovedDoes(q, r, w, Moved(q, r, w))
BY DEF Moved, MovedDoes, Homes, PixFields

FontDoes(q, r, w, v) ==
  /\ PixFields \subseteq DOMAIN v
  /\ v.hcnt = w.hcnt /\ v.pipe = w.pipe /\ v.addr = w.addr /\ v.wen = w.wen
  /\ v.char = w.char /\ v.wdata = w.wdata /\ v.rd = w.rd /\ v.rdp = w.rdp
  /\ v.rdpp = w.rdpp /\ v.charRd = w.charRd /\ v.initCnt = w.initCnt
  /\ v.clsp = w.clsp /\ v.bufChar = w.bufChar
  /\ v.curLine = w.curLine /\ v.curCol = w.curCol /\ v.endLine = w.endLine
  /\ v.startLine = w.startLine /\ v.inc = w.inc
  /\ TakesFont(q, r) => v.fontAddr = r.fontAddr /\ v.fontWen /\ v.release
  /\ ~TakesFont(q, r) => v.fontWen = w.fontWen /\ v.release = w.release

LEMMA FontFields ==
  ASSUME NEW q, NEW r, NEW w, PixFields \subseteq DOMAIN w
  PROVE  FontDoes(q, r, w, Font(q, r, w))
BY DEF Font, FontDoes, TakesFont, PixFields

PixDoes(q, r, t, n) ==
  /\ PixFields \subseteq DOMAIN n
  /\ n.hcnt = q.hcnt + 1 \/ n.hcnt = 0
  /\ n.pipe = (IF Slot(q) THEN 1 ELSE IF q.pipe \in 1 .. 3 THEN q.pipe + 1 ELSE 0)
  /\ Puts(q) => n.addr = Cell(q.curLine, q.curCol) /\ n.wdata = q.char
  /\ n.wen <=> Puts(q) /\ q.char # ReadChar
  /\ (n.rd <=> Puts(q)) /\ n.rdp = q.rd /\ n.rdpp = q.rdp
  /\ n.bufChar = t[q.addr] /\ n.charRd = (IF q.rdp THEN q.bufChar ELSE q.charRd)
  /\ n.initCnt = (IF q.initCnt = 0 THEN 0 ELSE q.initCnt - 1)
  /\ n.char = (IF q.initCnt % 2 = 1
               THEN InitMsg[Len(InitMsg) - (q.initCnt \div 2)]
               ELSE IF r.char # 0 THEN r.char
               ELSE IF Puts(q) THEN 0 ELSE q.char)
  /\ n.curLine = (IF Homes(q, r) THEN 0 ELSE IF r.posEn THEN r.pos[1]
                  ELSE IF Puts(q) /\ EndsLine(q) THEN NextLine(q.curLine)
                  ELSE q.curLine)
  /\ n.endLine = (IF Homes(q, r) THEN 0 ELSE IF r.posEn THEN Lines - 1
                  ELSE IF Puts(q) /\ EndsLine(q) THEN NextLine(q.curLine)
                  ELSE q.endLine)
  /\ n.curCol = (IF Homes(q, r) THEN 0 ELSE IF r.posEn THEN r.pos[2]
                 ELSE IF Puts(q) /\ EndsLine(q) THEN 0
                 ELSE IF Puts(q) THEN q.curCol + 1
                 ELSE q.curCol)
  /\ n.startLine = (IF q.inc THEN NextLine(q.curLine)
                    ELSE IF Homes(q, r) \/ r.posEn THEN 0
                    ELSE q.startLine)
  /\ n.inc <=> ~q.inc /\ Puts(q) /\ EndsLine(q) /\ NextLine(q.curLine) = q.startLine
  /\ n.clsp = r.cls
  /\ TakesFont(q, r) => n.fontAddr = r.fontAddr
  /\ (n.fontWen <=> TakesFont(q, r)) /\ (n.release <=> TakesFont(q, r))

LEMMA PixMoves ==
  ASSUME NEW q, NEW r, NEW t, NEW f, PixFields \subseteq DOMAIN q, q.hcnt \in Nat,
         q.initCnt \in Nat
  PROVE  PixDoes(q, r, t, PixEdge(q, r, t, f))
<1> DEFINE w0 == [q EXCEPT !.pipe = IF @ \in 1 .. 3 THEN @ + 1 ELSE 0,
                      !.clsp = r.cls, !.wen = FALSE, !.fontWen = FALSE, !.release = FALSE,
                      !.rd = FALSE, !.rdp = q.rd, !.rdpp = q.rdp,
                      !.bufChar = t[q.addr], !.fontRow = f[q.fontAddr]]
           wb == Beam(q, w0)
           w1 == Access(q, wb)
           w2 == IF q.rdp THEN [w1 EXCEPT !.charRd = q.bufChar] ELSE w1
           w3 == Taken(q, r, w2)
           w4 == Moved(q, r, w3)
           w5 == Font(q, r, w4)
           w6 == Shown(q, r, w5)
           w7 == BeamBack(q, r, w6)
           w8 == BeamUp(q, w7)
           n == NextCol(q, w8)
<1>1. PixEdge(q, r, t, f) = n BY DEF PixEdge
<1>2. /\ PixFields \subseteq DOMAIN w0
      /\ w0.pipe = (IF q.pipe \in 1 .. 3 THEN q.pipe + 1 ELSE 0)
      /\ w0.clsp = r.cls /\ ~w0.wen /\ ~w0.fontWen /\ ~w0.release
      /\ ~w0.rd /\ w0.rdp = q.rd /\ w0.rdpp = q.rdp /\ w0.bufChar = t[q.addr]
      /\ w0.addr = q.addr /\ w0.char = q.char /\ w0.wdata = q.wdata /\ w0.charRd = q.charRd
      /\ w0.curLine = q.curLine /\ w0.curCol = q.curCol /\ w0.startLine = q.startLine
      /\ w0.endLine = q.endLine /\ w0.inc = q.inc /\ w0.initCnt = q.initCnt
  BY DEF PixFields
<1> HIDE DEF w0
<1>3. Same(w0, wb) /\ (wb.hcnt = q.hcnt + 1 \/ wb.hcnt = 0) BY <1>2, BeamSame DEF Same
<1> HIDE DEF wb
<1>4. PixFields \subseteq DOMAIN wb BY <1>3 DEF Same
<1>5. w1 = Access(q, wb) OBVIOUS
<1> HIDE DEF w1
<1>40. AccessDoes(q, wb, w1) BY <1>4, <1>5, AccessFields, Zenon
<1>6. /\ PixFields \subseteq DOMAIN w2
      /\ w2.hcnt = w1.hcnt /\ w2.pipe = w1.pipe /\ w2.addr = w1.addr /\ w2.wen = w1.wen
      /\ w2.char = w1.char /\ w2.wdata = w1.wdata /\ w2.rd = w1.rd /\ w2.rdp = w1.rdp
      /\ w2.rdpp = w1.rdpp /\ w2.charRd = (IF q.rdp THEN q.bufChar ELSE w1.charRd)
      /\ w2.curLine = w1.curLine /\ w2.curCol = w1.curCol /\ w2.endLine = w1.endLine
      /\ w2.startLine = w1.startLine /\ w2.inc = w1.inc /\ w2.initCnt = w1.initCnt
      /\ w2.clsp = w1.clsp /\ w2.fontAddr = w1.fontAddr /\ w2.fontWen = w1.fontWen
      /\ w2.release = w1.release /\ w2.bufChar = w1.bufChar
  <2>1. PixFields \subseteq DOMAIN w1 BY <1>40 DEF AccessDoes
  <2> QED BY <2>1 DEF PixFields
<1>7. w3 = Taken(q, r, w2) OBVIOUS
<1> HIDE DEF w2, w3
<1>8. w2.initCnt = q.initCnt
  <2>1. w1.initCnt = wb.initCnt BY <1>40 DEF AccessDoes
  <2> QED BY <2>1, <1>2, <1>3, <1>6 DEF Same
<1>41. TakenDoes(q, r, w2, w3) BY <1>6, <1>7, <1>8, TakenFields
<1>9. PixFields \subseteq DOMAIN w3 BY <1>41 DEF TakenDoes
<1>10. w4 = Moved(q, r, w3) OBVIOUS
<1> HIDE DEF w4
<1>42. MovedDoes(q, r, w3, w4) BY <1>9, <1>10, MovedFields, Zenon
<1>11. PixFields \subseteq DOMAIN w4 BY <1>42 DEF MovedDoes
<1>12. w5 = Font(q, r, w4) OBVIOUS
<1> HIDE DEF w5
<1>43. FontDoes(q, r, w4, w5) BY <1>11, <1>12, FontFields, Zenon
<1>13. PixFields \subseteq DOMAIN w5 BY <1>43 DEF FontDoes
<1>14. Same(w5, w6) /\ w6.hcnt = w5.hcnt BY <1>13, ShownSame
<1> HIDE DEF w6
<1>15. Same(w6, w7) /\ w7.hcnt = w6.hcnt BY <1>14, BeamBackSame DEF Same
<1> HIDE DEF w7
<1>16. Same(w7, w8) /\ w8.hcnt = w7.hcnt BY <1>15, BeamUpSame DEF Same
<1> HIDE DEF w8
<1>17. Same(w8, n) /\ n.hcnt = w8.hcnt BY <1>16, NextColSame DEF Same
<1> HIDE DEF n
<1>18. Same(w5, n) /\ n.hcnt = w5.hcnt BY <1>14, <1>15, <1>16, <1>17 DEF Same
<1>20. /\ w1.hcnt = wb.hcnt /\ w1.rdp = q.rd /\ w1.rdpp = q.rdp
       /\ w1.charRd = q.charRd /\ w1.startLine = q.startLine
       /\ w1.clsp = r.cls /\ ~w1.fontWen
       /\ ~w1.release /\ w1.bufChar = t[q.addr]
       /\ w1.pipe = (IF Slot(q) THEN 1 ELSE w0.pipe)
       /\ (w1.rd <=> Puts(q)) /\ (w1.wen <=> Puts(q) /\ q.char # ReadChar)
       /\ w1.char = (IF Puts(q) THEN 0 ELSE q.char)
       /\ Puts(q) => w1.addr = Cell(q.curLine, q.curCol) /\ w1.wdata = q.char
  BY <1>2, <1>3, <1>40 DEF Same, AccessDoes
<1>21. /\ w1.curLine = (IF Puts(q) /\ EndsLine(q) THEN NextLine(q.curLine) ELSE q.curLine)
       /\ w1.endLine = (IF Puts(q) /\ EndsLine(q) THEN NextLine(q.curLine) ELSE q.endLine)
       /\ w1.curCol = (IF Puts(q) /\ EndsLine(q) THEN 0
                       ELSE IF Puts(q) THEN q.curCol + 1 ELSE q.curCol)
       /\ w1.inc <=> q.inc \/ (Puts(q) /\ EndsLine(q) /\ NextLine(q.curLine) = q.startLine)
  BY <1>2, <1>3, <1>40 DEF Same, AccessDoes
<1>30. /\ PixFields \subseteq DOMAIN n
       /\ n.hcnt = q.hcnt + 1 \/ n.hcnt = 0
       /\ n.pipe = (IF Slot(q) THEN 1 ELSE IF q.pipe \in 1 .. 3 THEN q.pipe + 1 ELSE 0)
       /\ n.clsp = r.cls
       /\ n.bufChar = t[q.addr] /\ n.charRd = (IF q.rdp THEN q.bufChar ELSE q.charRd)
       /\ n.initCnt = (IF q.initCnt = 0 THEN 0 ELSE q.initCnt - 1)
  BY <1>2, <1>3, <1>6, <1>18, <1>20, <1>41, <1>42, <1>43 DEF Same, TakenDoes, MovedDoes, FontDoes
<1>31. /\ n.wen <=> Puts(q) /\ q.char # ReadChar
       /\ (n.rd <=> Puts(q)) /\ n.rdp = q.rd /\ n.rdpp = q.rdp
       /\ Puts(q) => n.addr = Cell(q.curLine, q.curCol) /\ n.wdata = q.char
  BY <1>6, <1>18, <1>20, <1>41, <1>42, <1>43 DEF Same, TakenDoes, MovedDoes, FontDoes
<1>32. n.char = (IF q.initCnt % 2 = 1
                 THEN InitMsg[Len(InitMsg) - (q.initCnt \div 2)]
                 ELSE IF r.char # 0 THEN r.char
                 ELSE IF Puts(q) THEN 0 ELSE q.char)
  BY <1>6, <1>18, <1>20, <1>41, <1>42, <1>43 DEF Same, TakenDoes, MovedDoes, FontDoes
<1>33. n.curLine = (IF Homes(q, r) THEN 0 ELSE IF r.posEn THEN r.pos[1]
                    ELSE IF Puts(q) /\ EndsLine(q) THEN NextLine(q.curLine)
                    ELSE q.curLine)
  BY <1>6, <1>18, <1>21, <1>41, <1>42, <1>43 DEF Same, TakenDoes, MovedDoes, FontDoes
<1>34. n.endLine = (IF Homes(q, r) THEN 0 ELSE IF r.posEn THEN Lines - 1
                    ELSE IF Puts(q) /\ EndsLine(q) THEN NextLine(q.curLine)
                    ELSE q.endLine)
  BY <1>6, <1>18, <1>21, <1>41, <1>42, <1>43 DEF Same, TakenDoes, MovedDoes, FontDoes
<1>35. n.curCol = (IF Homes(q, r) THEN 0 ELSE IF r.posEn THEN r.pos[2]
                   ELSE IF Puts(q) /\ EndsLine(q) THEN 0
                   ELSE IF Puts(q) THEN q.curCol + 1
                   ELSE q.curCol)
  BY <1>6, <1>18, <1>21, <1>41, <1>42, <1>43 DEF Same, TakenDoes, MovedDoes, FontDoes
<1>36. n.startLine = (IF q.inc THEN NextLine(q.curLine)
                      ELSE IF Homes(q, r) \/ r.posEn THEN 0
                      ELSE q.startLine)
  BY <1>6, <1>18, <1>20, <1>41, <1>42, <1>43 DEF Same, TakenDoes, MovedDoes, FontDoes
<1>37. n.inc <=> ~q.inc /\ Puts(q) /\ EndsLine(q) /\ NextLine(q.curLine) = q.startLine
  BY <1>6, <1>18, <1>21, <1>41, <1>42, <1>43 DEF Same, TakenDoes, MovedDoes, FontDoes
<1>38. /\ TakesFont(q, r) => n.fontAddr = r.fontAddr
       /\ (n.fontWen <=> TakesFont(q, r)) /\ (n.release <=> TakesFont(q, r))
  BY <1>6, <1>18, <1>20, <1>41, <1>42, <1>43 DEF Same, TakenDoes, MovedDoes, FontDoes
<1> QED
  BY <1>1, <1>30, <1>31, <1>32, <1>33, <1>34, <1>35, <1>36, <1>37, <1>38 DEF PixDoes

-----------------------------------------------------------------------------
(* What an edge of clk_core does with access a.                            *)
Stores(a) == a.cmd \notin {"none", "read"}
Answers(r) == r.waits /\ r.ok

RegisterDoes(r, a, n) ==
  /\ CoreFields \subseteq DOMAIN n
  /\ n.keep <=> Stores(a)
  /\ a.cmd = "none" /\ ~r.keep => n.char = 0 /\ ~n.posEn /\ ~n.cls
  /\ (a.cmd = "none" /\ r.keep) \/ a.cmd = "read" =>
       n.char = r.char /\ n.posEn = r.posEn /\ n.pos = r.pos /\ n.cls = r.cls
  /\ Stores(a) =>
       /\ n.char = (IF a.cmd \in {"char", "at"} /\ (a.char # 0 \/ a.cmd = "at") THEN a.char
                    ELSE r.char)
       /\ n.posEn <=> a.cmd = "at"
       /\ a.cmd = "at" => n.pos = <<a.line, a.col>>
       /\ n.cls <=> a.cmd = "cls" \/ r.cls

FontWriteDoes(r, q, a, n) ==
  /\ a.cmd = "font" => n.fontWe /\ n.fontAddr = a.glyph /\ n.fontData = a.data
  /\ a.cmd # "font" => /\ n.fontWe <=> r.fontWe /\ ~q.release
                       /\ n.fontAddr = r.fontAddr /\ n.fontData = r.fontData

AnswerDoes(r, q, a, n) ==
  /\ n.ok <=> (r.ok \/ q.rdpp) /\ ~Asks(a)
  /\ n.waits <=> (r.waits \/ a.cmd = "read") /\ ~Answers(r)
  /\ n.en <=> Answers(r) /\ ~r.done
  /\ n.done <=> Answers(r) /\ ~r.done
  /\ Answers(r) /\ ~r.done => n.data = q.charRd

CoreDoes(r, q, a, n) ==
  RegisterDoes(r, a, n) /\ FontWriteDoes(r, q, a, n) /\ AnswerDoes(r, q, a, n)

IsCommand(a) == a.cmd \in {"char", "at", "mode", "cls", "font", "nop", "read", "none"}

LEMMA CoreMoves ==
  ASSUME NEW r, NEW q, NEW a, CoreFields \subseteq DOMAIN r, IsCommand(a)
  PROVE  CoreDoes(r, q, a, CoreEdge(r, q, a))
<1> DEFINE w == [r EXCEPT !.keep = FALSE, !.en = FALSE, !.data = 0,
                          !.fontWe = @ /\ ~q.release, !.ok = @ \/ q.rdpp]
           u == CASE a.cmd = "none" -> Kept(r, w)
                  [] a.cmd = "read" -> [w EXCEPT !.waits = TRUE]
                  [] OTHER -> Written(w, a)
           n == Answered(r, q, u)
<1>1. CoreEdge(r, q, a) = n BY DEF CoreEdge
<1>2. /\ CoreFields \subseteq DOMAIN w /\ ~w.keep /\ ~w.en
      /\ w.fontWe <=> r.fontWe /\ ~q.release
      /\ w.ok <=> r.ok \/ q.rdpp
      /\ w.char = r.char /\ w.posEn = r.posEn /\ w.pos = r.pos /\ w.cls = r.cls
      /\ w.fontAddr = r.fontAddr /\ w.fontData = r.fontData /\ w.waits = r.waits
      /\ w.done = r.done
  BY DEF CoreFields
<1> HIDE DEF w
<1>3. /\ RegisterDoes(r, a, u) /\ FontWriteDoes(r, q, a, u)
      /\ u.ok <=> (r.ok \/ q.rdpp) /\ ~Asks(a)
      /\ u.waits <=> r.waits \/ a.cmd = "read"
      /\ ~u.en /\ u.done = r.done
  <2> USE DEF RegisterDoes, FontWriteDoes, Stores, Asks
  <2>1. CASE a.cmd = "none"
    <3>1. u = Kept(r, w) BY <2>1
    <3> QED BY <1>2, <2>1, <3>1 DEF Kept, CoreFields
  <2>2. CASE a.cmd = "read"
    <3>1. u = [w EXCEPT !.waits = TRUE] BY <2>2
    <3> QED BY <1>2, <2>2, <3>1 DEF CoreFields
  <2>3. CASE a.cmd \notin {"none", "read"}
    <3> DEFINE v == [w EXCEPT !.posEn = FALSE, !.keep = TRUE]
    <3>1. u = Written(w, a) BY <2>3
    <3>2. /\ CoreFields \subseteq DOMAIN v /\ v.keep /\ ~v.en /\ ~v.posEn
          /\ v.fontWe = w.fontWe /\ v.ok = w.ok /\ v.char = w.char /\ v.pos = w.pos
          /\ v.cls = w.cls /\ v.fontAddr = w.fontAddr /\ v.fontData = w.fontData
          /\ v.waits = w.waits /\ v.done = w.done
      BY <1>2 DEF CoreFields
    <3> HIDE DEF u
    <3>3. CASE a.cmd = "char"
      <4>1. u = IF a.char # 0 THEN [v EXCEPT !.char = a.char] ELSE v
        BY <3>1, <3>3 DEF Written
      <4> HIDE DEF v
      <4> QED BY <1>2, <3>2, <3>3, <4>1 DEF CoreFields
    <3>4. CASE a.cmd = "at"
      <4>1. u = Placed(v, a) BY <3>1, <3>4 DEF Written
      <4> HIDE DEF v
      <4> QED BY <1>2, <3>2, <3>4, <4>1 DEF CoreFields, Placed
    <3>5. CASE a.cmd = "mode"
      <4>1. u = [v EXCEPT !.mode = a.on] BY <3>1, <3>5 DEF Written
      <4> HIDE DEF v
      <4> QED BY <1>2, <3>2, <3>5, <4>1 DEF CoreFields
    <3>6. CASE a.cmd = "cls"
      <4>1. u = [v EXCEPT !.cls = TRUE] BY <3>1, <3>6 DEF Written
      <4> HIDE DEF v
      <4> QED BY <1>2, <3>2, <3>6, <4>1 DEF CoreFields
    <3>7. CASE a.cmd = "font"
      <4>1. u = [v EXCEPT !.fontAddr = a.glyph, !.fontData = a.data, !.fontWe = TRUE]
        BY <3>1, <3>7 DEF Written
      <4> HIDE DEF v
      <4> QED BY <1>2, <3>2, <3>7, <4>1 DEF CoreFields
    <3>8. CASE a.cmd = "nop"
      <4>1. u = v BY <3>1, <3>8 DEF Written
      <4> HIDE DEF v
      <4> QED BY <1>2, <3>2, <3>8, <4>1 DEF CoreFields
    <3> QED BY <2>3, <3>3, <3>4, <3>5, <3>6, <3>7, <3>8 DEF IsCommand
  <2> QED BY <2>1, <2>2, <2>3
<1> HIDE DEF u
<1>4. RegisterDoes(r, a, n) /\ FontWriteDoes(r, q, a, n)
  BY <1>3 DEF Answered, CoreFields, RegisterDoes, FontWriteDoes
<1>5. AnswerDoes(r, q, a, n)
  BY <1>3 DEF Answered, CoreFields, RegisterDoes, AnswerDoes, Answers
<1> QED BY <1>1, <1>4, <1>5 DEF CoreDoes

-----------------------------------------------------------------------------
(* The terminal's operators act on its view.                               *)
LEMMA TypedView ==
  ASSUME NEW t, TermFields \subseteq DOMAIN t, NEW char
  PROVE  /\ View(Typed(t, char)) = Type(View(t), char)
         /\ TermFields \subseteq DOMAIN Typed(t, char) /\ Typed(t, char).font = t.font
<1> DEFINE here == Cell(t.line, t.col)
           next == NextLine(t.line)
           eol == t.col = Cols - 1 \/ char = NewLine
           v == [t EXCEPT !.over = t.text[here],
                          !.text = IF char = ReadChar THEN @ ELSE [@ EXCEPT ![here] = char]]
<1>1. /\ TermFields \subseteq DOMAIN v /\ v.over = t.text[here]
      /\ v.text = (IF char = ReadChar THEN t.text ELSE [t.text EXCEPT ![here] = char])
      /\ v.line = t.line /\ v.col = t.col /\ v.start = t.start /\ v.end = t.end
      /\ v.font = t.font
  BY DEF TermFields
<1>2. CASE char = 0
  BY <1>2 DEF Typed, View, Type
<1>3. CASE char # 0 /\ ~eol
  <2>1. Typed(t, char) = [v EXCEPT !.col = @ + 1] BY <1>3 DEF Typed
  <2> HIDE DEF v
  <2> QED BY <1>1, <1>3, <2>1 DEF View, Type, TermFields
<1>4. CASE char # 0 /\ eol
  <2>1. Typed(t, char) = [v EXCEPT !.line = next, !.col = 0, !.end = next,
                                   !.start = IF next = @ THEN NextLine(next) ELSE @]
    BY <1>4 DEF Typed
  <2> HIDE DEF v
  <2> QED BY <1>1, <1>4, <2>1 DEF View, Type, TermFields
<1> QED BY <1>2, <1>3, <1>4

LEMMA PositionedView ==
  ASSUME NEW t, TermFields \subseteq DOMAIN t, NEW a
  PROVE  /\ View(Positioned(t, a)) =
              (IF a.cmd = "at" THEN Place(View(t), <<a.line, a.col>>) ELSE View(t))
         /\ TermFields \subseteq DOMAIN Positioned(t, a) /\ Positioned(t, a).font = t.font
BY DEF Positioned, View, Place, TermFields

(* What clk_pix makes of a store is what the terminal makes of it.         *)
LEMMA StoreSeen ==
  ASSUME NEW t, TermFields \subseteq DOMAIN t, NEW a, IsCommand(a), Stores(a), NEW r, NEW n,
         RegisterDoes(r, a, n), r.char = 0, ~r.cls
  PROVE  /\ Seen(View(t), n) = View(Told(t, a))
         /\ TermFields \subseteq DOMAIN Told(t, a)
         /\ Told(t, a).font = (IF a.cmd = "font" THEN [t.font EXCEPT ![a.glyph] = a.data]
                               ELSE t.font)
         /\ a.cmd \in {"char", "at"} =>
              /\ Put1(View(t), n) = View(Positioned(t, a))
              /\ n.char = a.char
<1> USE DEF RegisterDoes, Stores
<1>1. CASE a.cmd \in {"char", "at"}
  <2>1. Told(t, a) = Typed(Positioned(t, a), a.char) BY <1>1 DEF Told
  <2>2. ~n.cls /\ n.char = a.char BY <1>1
  <2>3. Put1(View(t), n) = View(Positioned(t, a)) BY <1>1, PositionedView DEF Put1
  <2>4. TermFields \subseteq DOMAIN Positioned(t, a) /\ Positioned(t, a).font = t.font
    BY PositionedView, Zenon
  <2>5. /\ View(Told(t, a)) = Type(View(Positioned(t, a)), a.char)
        /\ TermFields \subseteq DOMAIN Told(t, a) /\ Told(t, a).font = t.font
    BY <2>1, <2>4, TypedView
  <2> QED BY <1>1, <2>2, <2>3, <2>5 DEF Seen
<1>2. CASE a.cmd = "cls"
  <2>1. Told(t, a) = [t EXCEPT !.line = 0, !.col = 0, !.start = 0, !.end = 0]
    BY <1>2 DEF Told
  <2> QED BY <1>2, <2>1 DEF Seen, View, Home, TermFields
<1>3. CASE a.cmd = "font"
  <2>1. Told(t, a) = [t EXCEPT !.font[a.glyph] = a.data] BY <1>3 DEF Told
  <2> QED BY <1>3, <2>1 DEF Seen, Put1, Type, View, TermFields
<1>4. CASE a.cmd \in {"mode", "nop"}
  <2>1. Told(t, a) = t \/ Told(t, a) = [t EXCEPT !.mode = a.on] BY <1>4 DEF Told
  <2> QED BY <1>4, <2>1 DEF Seen, Put1, Type, View, TermFields
<1> QED BY <1>1, <1>2, <1>3, <1>4 DEF IsCommand

-----------------------------------------------------------------------------
(* An edge of clk_pix carries out what is under way and takes what the     *)
(* register shows: the terminal the console is going to be is the same.    *)
LEMMA PixView ==
  ASSUME NEW q, NEW r, NEW t, NEW n, NEW o, PixDoes(q, r, t, n), q.initCnt = 0,
         r.cls => r.char = 0 /\ ~r.posEn /\ ~q.clsp,
         q.inc => q.char = 0,
         r.char # 0 \/ r.posEn \/ r.cls =>
           ~q.inc /\ ~Scrolls(Stored(q, t, o), q.char) /\ (q.char # 0 => ~Slot(q))
  PROVE  LET was == Seen(Type(Stored(q, t, o), q.char), r)
             is == Type(Stored(n, TextAfter(q, t), o), n.char)
         IN Bare(is) = Bare(was) /\ (was.over = o => is = was)
<1> DEFINE S0 == Stored(q, t, o)
           W0 == Type(S0, q.char)
           was == Seen(W0, r)
           t1 == TextAfter(q, t)
           S1 == Stored(n, t1, o)
           is == Type(S1, n.char)
<1> SUFFICES Bare(is) = Bare(was) /\ (was.over = o => is = was) OBVIOUS
<1>1. q.initCnt % 2 # 1 BY q.initCnt = 0
<1>2. Homes(q, r) <=> r.cls BY DEF Homes
<1>3. TextAfter(n, t1) = W0.text \/ (~Puts(q) /\ TextAfter(n, t1) = t1)
  BY DEF PixDoes, Puts, TextAfter, Type, Stored
<1>4. S0.text = t1 /\ S0.line = q.curLine /\ S0.col = q.curCol /\ S0.end = q.endLine
      /\ S0.over = o /\ S0.start = (IF q.inc THEN NextLine(q.curLine) ELSE q.startLine)
  BY DEF Stored
<1>5. S1.text = TextAfter(n, t1) /\ S1.line = n.curLine /\ S1.col = n.curCol
      /\ S1.end = n.endLine /\ S1.over = o
      /\ S1.start = (IF n.inc THEN NextLine(n.curLine) ELSE n.startLine)
  BY DEF Stored
<1>6. CASE Puts(q)
  <2> DEFINE eol == EndsLine(q)
             next == NextLine(q.curLine)
  <2>1. q.char # 0 /\ ~Slot(q) /\ ~q.inc BY <1>6 DEF Puts
  <2>2. /\ W0.text = TextAfter(n, t1)
        /\ W0.line = (IF eol THEN next ELSE q.curLine)
        /\ W0.col = (IF eol THEN 0 ELSE q.curCol + 1)
        /\ W0.start = (IF eol /\ next = q.startLine THEN NextLine(next) ELSE q.startLine)
        /\ W0.end = (IF eol THEN next ELSE q.endLine)
    BY <1>3, <1>4, <1>6, <2>1 DEF Type, EndsLine
  <2>3. n.inc <=> eol /\ next = q.startLine BY <1>6, <2>1 DEF PixDoes
  <2>4. r.char # 0 \/ r.posEn \/ r.cls => ~n.inc
    BY <1>4, <2>1, <2>3 DEF Scrolls, EndsLine
  <2>5. n.char = r.char BY <1>1, <1>6, <2>1 DEF PixDoes
  <2> HIDE DEF S0, W0, S1, t1
  <2>6. CASE r.cls
    <3>1. Bare(S1) = Bare(was)
      BY <1>1, <1>2, <1>5, <1>6, <2>1, <2>2, <2>4, <2>6 DEF PixDoes, Bare, Seen, Home
    <3>2. n.char = 0 BY <2>5, <2>6
    <3>3. is = S1 BY <3>2 DEF Type
    <3>4. S1 = [text |-> S1.text, line |-> S1.line, col |-> S1.col, start |-> S1.start,
                end |-> S1.end, over |-> o] BY <1>5 DEF S1, Stored
    <3>5. was = [text |-> was.text, line |-> was.line, col |-> was.col, start |-> was.start,
                end |-> was.end, over |-> was.over] BY <2>6 DEF Seen, Home
    <3> HIDE DEF is, was
    <3> QED BY <3>1, <3>3, <3>4, <3>5 DEF Bare
  <2>7. CASE ~r.cls
    <3> DEFINE P0 == Put1(W0, r)
    <3>1. Bare(S1) = Bare(P0)
      BY <1>1, <1>2, <1>5, <1>6, <2>1, <2>2, <2>3, <2>4, <2>7 DEF PixDoes, Bare, Put1, Place
    <3>2. was = Type(P0, r.char) BY <2>7 DEF Seen
    <3>4. S1 = [text |-> S1.text, line |-> S1.line, col |-> S1.col, start |-> S1.start,
                end |-> S1.end, over |-> o] BY <1>5 DEF S1, Stored
    <3>5. P0 = [text |-> P0.text, line |-> P0.line, col |-> P0.col, start |-> P0.start,
                end |-> P0.end, over |-> P0.over]
      BY <2>1 DEF Put1, Place, W0, Type, S0, Stored
    <3> HIDE DEF P0
    <3> QED BY <2>5, <3>1, <3>2, <3>4, <3>5 DEF Bare, Type
  <2> QED BY <2>6, <2>7
<1>7. CASE ~Puts(q)
  <2>1. TextAfter(n, t1) = t1 /\ ~n.inc BY <1>7 DEF PixDoes, TextAfter
  <2>2. CASE q.char # 0
    <3>1. r.char = 0 /\ ~r.posEn /\ ~r.cls /\ ~q.inc BY <1>7, <2>2 DEF Puts
    <3>2. n.char = q.char BY <1>1, <1>7, <3>1 DEF PixDoes
    <3>3. S1 = S0
      BY <1>2, <1>7, <2>1, <3>1 DEF PixDoes, Stored
    <3>4. was = W0 BY <3>1 DEF Seen, Put1, Type
    <3> QED BY <3>2, <3>3, <3>4
  <2>3. CASE q.char = 0
    <3>1. n.char = r.char BY <1>1, <1>7, <2>3 DEF PixDoes
    <3>2. W0 = S0 BY <2>3 DEF Type
    <3>3. CASE r.cls
      <4>1. S1 = was BY <1>2, <1>4, <1>7, <2>1, <3>2, <3>3 DEF PixDoes, Stored, Seen, Home
      <4> QED BY <3>1, <3>3, <4>1 DEF Type
    <3>4. CASE ~r.cls
      <4>1. S1 = Put1(S0, r)
        BY <1>2, <1>4, <1>7, <2>1, <3>4 DEF PixDoes, Stored, Put1, Place
      <4> QED BY <3>1, <3>2, <3>4, <4>1 DEF Seen
    <3> QED BY <3>3, <3>4
  <2> QED BY <2>2, <2>3
<1> QED BY <1>6, <1>7

-----------------------------------------------------------------------------
(* The steps: an edge, with a store, with a read, or without an access.    *)
EdgeDone(a) ==
  /\ CoreDoes(c, p, a, c') /\ odd' = ~odd
  /\ odd => PixDoes(p, c, text, p') /\ text' = TextAfter(p, text) /\ font' = FontAfter(p, c, font)
  /\ ~odd => p' = p /\ text' = text /\ font' = font

StoreStep(a) ==
  /\ IsCommand(a) /\ Stores(a) /\ EdgeDone(a)
  /\ ~reading /\ p.initCnt = 0
  /\ since >= 3 \/ last = "answer"
  /\ behind >= 3
  /\ Reset => since >= 4 * Len(InitMsg) + 9 /\ since >= 13
  /\ a.cmd = "font" => FontAge >= 5
  /\ Asks(a) => behind >= 11
  /\ scrolled /\ MovesCursor(a) => behind >= 7
  /\ since' = 0 /\ last' = Kind(a) /\ ~reading' /\ reading' \in BOOLEAN
  /\ behind' = (IF IsCharacter(a) THEN 0 ELSE Later(behind))
  /\ scrolled' = (IF IsCharacter(a) THEN Scrolls(Positioned(term, a), a.char) ELSE scrolled)
  /\ term' = Told(term, a)

ReadStep(a) ==
  /\ IsCommand(a) /\ a.cmd = "read" /\ EdgeDone(a)
  /\ ~reading /\ p.initCnt = 0 /\ last = "at" /\ (since = 0 \/ since >= 3)
  /\ since' = 0 /\ last' = "other" /\ reading' /\ reading' \in BOOLEAN
  /\ behind' = Later(behind)
  /\ term' = term /\ scrolled' = scrolled

WaitStep ==
  /\ EdgeDone(Idle)
  /\ since' = (IF reading /\ c.en THEN 0 ELSE Later(since))
  /\ last' = (IF reading /\ c.en THEN "answer" ELSE last)
  /\ behind' = (IF reading /\ c.en THEN Settle ELSE Later(behind))
  /\ reading' = (reading /\ ~c.en)
  /\ term' = term /\ scrolled' = scrolled

LEMMA EdgesDo ==
  ASSUME ShapeInv, NEW a, IsCommand(a), Edges(a)
  PROVE  EdgeDone(a)
<1>1. p.initCnt \in Nat BY ConsoleTextAssumption DEF ShapeInv
<1>2. CoreDoes(c, p, a, c') BY CoreMoves DEF Edges, ShapeInv
<1>3. ASSUME odd PROVE PixDoes(p, c, text, p') BY <1>1, <1>3, PixMoves DEF Edges, ShapeInv
<1> QED BY <1>2, <1>3 DEF EdgeDone, Edges

LEMMA CommandsAre ==
  ASSUME NEW a \in Commands
  PROVE  IsCommand(a) /\ a.cmd # "none"
BY DEF Commands, IsCommand

LEMMA Steps ==
  ASSUME ConsoleInv, KeepsDistances, Next
  PROVE  (\E a : StoreStep(a)) \/ (\E a : ReadStep(a)) \/ WaitStep
<1>0. ShapeInv /\ ProgramInv /\ HoldsInv /\ StartInv BY DEF ConsoleInv
<1>1. CASE Waits
  <2>1. IsCommand(Idle) BY DEF IsCommand, Idle
  <2>2. EdgeDone(Idle) BY <1>0, <1>1, <2>1, EdgesDo DEF Waits
  <2> QED BY <1>1, <2>2 DEF Waits, WaitStep
<1>2. CASE Accesses
  <2> DEFINE a == Head(todo)
  <2>1. a \in Commands BY <1>0, <1>2 DEF Accesses, ProgramInv
  <2>2. IsCommand(a) /\ a.cmd # "none" BY <2>1, CommandsAre
  <2>3. EdgeDone(a) BY <1>0, <1>2, <2>2, EdgesDo DEF Accesses
  <2>4. /\ {Apart, ApartFont, ApartRead, ApartScroll, Settle} \subseteq Nat
        /\ Len(InitMsg) \in Nat
    BY ConsoleTextAssumption
  <2>5. since \in Nat /\ behind \in Nat /\ since <= behind BY <1>0, <2>4 DEF ShapeInv
  <2>6. /\ ~reading /\ p.initCnt = 0 /\ MayCome(a)
        /\ since' = 0 /\ last' = Kind(a) /\ reading' = (a.cmd = "read")
        /\ behind' = (IF IsCharacter(a) THEN 0 ELSE Later(behind))
        /\ scrolled' = (IF IsCharacter(a) THEN Scrolls(Positioned(term, a), a.char)
                        ELSE scrolled)
        /\ term' = Told(term, a)
    BY <1>2 DEF Accesses
  <2>7. a = todo[1] /\ todo # <<>> BY <1>0, <1>2 DEF Accesses, ProgramInv
  <2>8. since + 1 >= Distance(a) BY <2>6 DEF MayCome
  <2> HIDE DEF a
  <2>9. Reset => since >= 4 * Len(InitMsg) + 9 /\ since >= 13
    BY <2>4, <2>5, <2>8 DEF Distance, Reset, KeepsDistances
  <2>10. CASE a.cmd = "read"
    <3>1. last = "at" BY <1>0, <2>7, <2>10 DEF ProgramInv
    <3>2. since = 0 \/ since >= 3
      BY <2>4, <2>5, <2>8, <2>10, <3>1 DEF Distance, KeepsDistances
    <3>3. Kind(a) = "other" /\ ~IsCharacter(a) /\ Told(term, a) = term
      BY <2>10 DEF Kind, Asks, IsCharacter, Told
    <3>4. ReadStep(a) BY <2>2, <2>3, <2>6, <2>10, <3>1, <3>2, <3>3 DEF ReadStep
    <3> QED BY <3>4
  <2>11. CASE a.cmd # "read"
    <3>1. since >= 3 \/ last = "answer"
      BY <2>4, <2>5, <2>8, <2>9, <2>11 DEF Distance, KeepsDistances, Reset
    <3>2. behind >= 3 BY <1>0, <2>4, <2>5, <3>1 DEF StartInv, KeepsDistances
    <3>3. a.cmd = "font" => FontAge >= 5
      <4>1. CASE last = "font"
        <5>1. a.cmd = "font" => Distance(a) = ApartFont BY <4>1 DEF Distance
        <5>2. FontAge = since BY <4>1 DEF FontAge
        <5> QED BY <2>4, <2>5, <2>8, <5>1, <5>2 DEF KeepsDistances
      <4>2. CASE last = "answer"
        <5>1. FontAge = since + 6 BY <4>2 DEF FontAge
        <5> QED BY <2>5, <5>1
      <4>3. CASE last # "font" /\ last # "answer"
        <5>1. FontAge = since + 4 BY <4>3 DEF FontAge
        <5> QED BY <2>5, <3>1, <4>3, <5>1
      <4> QED BY <4>1, <4>2, <4>3
    <3>4. Asks(a) => behind >= 11 BY <2>4, <2>5, <2>6 DEF MayCome, KeepsDistances
    <3>5. scrolled /\ MovesCursor(a) => behind >= 7
      BY <2>4, <2>5, <2>6 DEF MayCome, KeepsDistances
    <3>6. StoreStep(a)
      BY <2>2, <2>3, <2>6, <2>9, <2>11, <3>1, <3>2, <3>3, <3>4, <3>5 DEF StoreStep, Stores
    <3> QED BY <3>6
  <2> QED BY <2>10, <2>11
<1> QED BY <1>1, <1>2 DEF Next

-----------------------------------------------------------------------------
(* Each step preserves the parts of the invariant.                         *)
Stepping == \/ \E a : StoreStep(a)
            \/ \E a : ReadStep(a)
            \/ WaitStep

LEMMA NatConstants ==
  /\ {Apart, ApartFont, ApartRead, ApartScroll, Settle} \subseteq Nat
  /\ Len(InitMsg) \in Nat /\ Lines \in Nat /\ Cols \in Nat /\ Len(InitMsg) < Lines
  /\ Lines > 0 /\ Cols > 0
BY ConsoleTextAssumption

LEMMA ProgramKept ==
  ASSUME ConsoleInv, Next
  PROVE  ProgramInv'
<1>0. ProgramInv /\ HoldsInv BY DEF ConsoleInv
<1>1. CASE Waits
  <2>1. todo' = todo /\ last' = (IF reading /\ c.en THEN "answer" ELSE last)
        /\ reading' = (reading /\ ~c.en)
    BY <1>1 DEF Waits
  <2> QED BY <1>0, <2>1 DEF ProgramInv, Asks
<1>2. CASE Accesses
  <2> DEFINE a == Head(todo)
  <2>1. todo' = Tail(todo) /\ todo # <<>> /\ last' = Kind(a) /\ reading' = (a.cmd = "read")
    BY <1>2 DEF Accesses
  <2>2. todo \in Seq(Commands) BY <1>0 DEF ProgramInv
  <2>3. todo' \in Seq(Commands) BY <2>1, <2>2
  <2>4. /\ Len(todo') = Len(todo) - 1 /\ Len(todo) \in Nat
        /\ \A i \in 1 .. Len(todo') : todo'[i] = todo[i + 1]
    BY <2>1, <2>2
  <2>5. \A i \in 2 .. Len(todo) : todo[i].cmd = "read" => Asks(todo[i - 1])
    BY <1>0 DEF ProgramInv
  <2>6. ASSUME NEW i \in 2 .. Len(todo'), todo'[i].cmd = "read"
        PROVE  Asks(todo'[i - 1])
    <3>1. i - 1 \in 1 .. Len(todo') /\ i \in 1 .. Len(todo') /\ i + 1 \in 2 .. Len(todo)
          /\ (i + 1) - 1 = i /\ (i - 1) + 1 = i
      BY <2>4
    <3>2. todo'[i] = todo[i + 1] /\ todo'[i - 1] = todo[i] BY <2>4, <3>1
    <3> QED BY <2>5, <2>6, <3>1, <3>2
  <2>7. ASSUME todo' # <<>>, todo'[1].cmd = "read" PROVE last' = "at"
    <3>1. Len(todo') >= 1 BY <2>3, <2>7
    <3>2. 2 \in 2 .. Len(todo) /\ todo'[1] = todo[2] BY <2>4, <3>1
    <3>3. Asks(todo[1]) BY <2>5, <2>7, <3>2
    <3> QED BY <2>1, <2>2, <3>3 DEF Kind, Asks
  <2>8. reading' => last' = "other" BY <2>1 DEF Kind, Asks
  <2> QED BY <2>3, <2>6, <2>7, <2>8 DEF ProgramInv
<1> QED BY <1>1, <1>2 DEF Next

LEMMA ShapeKept ==
  ASSUME ConsoleInv, Stepping
  PROVE  ShapeInv'
<1>0. ShapeInv BY DEF ConsoleInv
<1> USE NatConstants
<1>1. ASSUME NEW a, EdgeDone(a)
      PROVE  /\ PixFields \subseteq DOMAIN p' /\ CoreFields \subseteq DOMAIN c'
             /\ p'.hcnt \in Nat /\ p'.initCnt \in 0 .. 2 * Len(InitMsg) /\ odd' \in BOOLEAN
  <2>1. CASE odd
    <3>1. /\ PixFields \subseteq DOMAIN p' /\ (p'.hcnt = p.hcnt + 1 \/ p'.hcnt = 0)
          /\ p'.initCnt = (IF p.initCnt = 0 THEN 0 ELSE p.initCnt - 1)
      BY <1>1, <2>1 DEF EdgeDone, PixDoes
    <3>2. CoreFields \subseteq DOMAIN c' BY <1>1 DEF EdgeDone, CoreDoes, RegisterDoes
    <3>3. odd' = FALSE BY <1>1, <2>1 DEF EdgeDone
    <3>4. p'.hcnt \in Nat /\ p'.initCnt \in 0 .. 2 * Len(InitMsg)
      BY <1>0, <3>1 DEF ShapeInv
    <3> QED BY <3>1, <3>2, <3>3, <3>4
  <2>2. CASE ~odd BY <1>0, <1>1, <2>2 DEF EdgeDone, CoreDoes, RegisterDoes, ShapeInv
  <2> QED BY <2>1, <2>2
<1>2. since \in 0 .. Settle /\ behind \in 0 .. Settle /\ since <= behind BY <1>0 DEF ShapeInv
<1>3. CASE \E a : StoreStep(a)
  <2>1. PICK a : StoreStep(a) BY <1>3
  <2>2. TermFields \subseteq DOMAIN Told(term, a)
    <3>1. TermFields \subseteq DOMAIN term BY <1>0 DEF ShapeInv
    <3>2. TermFields \subseteq DOMAIN Positioned(term, a) BY <3>1, PositionedView, Zenon
    <3>3. TermFields \subseteq DOMAIN Typed(Positioned(term, a), a.char)
      BY <3>2, TypedView, Zenon
    <3> QED BY <3>1, <3>3 DEF Told
  <2>3. EdgeDone(a) BY <2>1 DEF StoreStep
  <2>4. since' \in 0 .. Settle /\ behind' \in 0 .. Settle /\ since' <= behind'
    BY <1>2, <2>1 DEF StoreStep, Later
  <2> QED BY <1>1, <2>1, <2>2, <2>3, <2>4 DEF ShapeInv, StoreStep
<1>4. CASE \E a : ReadStep(a)
  <2>1. PICK a : ReadStep(a) BY <1>4
  <2>2. EdgeDone(a) BY <2>1 DEF ReadStep
  <2>4. since' \in 0 .. Settle /\ behind' \in 0 .. Settle /\ since' <= behind'
    BY <1>2, <2>1 DEF ReadStep, Later
  <2> QED BY <1>0, <1>1, <2>1, <2>2, <2>4 DEF ShapeInv, ReadStep
<1>5. CASE WaitStep
  <2>2. EdgeDone(Idle) BY <1>5 DEF WaitStep
  <2>4. since' \in 0 .. Settle /\ behind' \in 0 .. Settle /\ since' <= behind'
    BY <1>2, <1>5 DEF WaitStep, Later
  <2> QED BY <1>0, <1>1, <1>5, <2>2, <2>4 DEF ShapeInv, WaitStep
<1> QED BY <1>3, <1>4, <1>5 DEF Stepping

LEMMA HoldsKept ==
  ASSUME ConsoleInv, KeepsDistances, Stepping
  PROVE  HoldsInv'
<1>0. ShapeInv /\ HoldsInv /\ StartInv /\ ProgramInv BY DEF ConsoleInv
<1> USE NatConstants
<1>2. since \in 0 .. Settle /\ behind \in 0 .. Settle /\ since <= behind BY <1>0 DEF ShapeInv
<1>3. ASSUME NEW a, StoreStep(a) PROVE HoldsInv'
  <2>1. RegisterDoes(c, a, c') BY <1>3 DEF StoreStep, EdgeDone, CoreDoes
  <2>2. ~Holds BY <1>0, <1>2, <1>3 DEF HoldsInv, StoreStep
  <2>3. c'.char # 0 => IsCharacter(a)
    BY <1>3, <2>1, <2>2 DEF StoreStep, RegisterDoes, IsCharacter, Holds
  <2>4. c'.cls => c'.char = 0 /\ ~c'.posEn /\ Kind(a) = "other"
    BY <1>3, <2>1, <2>2 DEF StoreStep, RegisterDoes, Holds, Kind, Asks
  <2>5. c'.keep BY <1>3, <2>1 DEF StoreStep, RegisterDoes
  <2>6. last' \in {"font", "at", "other"} BY <1>3 DEF StoreStep, Kind
  <2> QED
    BY <1>3, <2>3, <2>4, <2>5, <2>6 DEF StoreStep, HoldsInv, Holds, Reset
<1>4. ASSUME NEW a, ReadStep(a) PROVE HoldsInv'
  <2>1. RegisterDoes(c, a, c') BY <1>4 DEF ReadStep, EdgeDone, CoreDoes
  <2>2. c'.char = c.char /\ c'.posEn = c.posEn /\ c'.cls = c.cls /\ ~c'.keep
    BY <1>4, <2>1 DEF ReadStep, RegisterDoes, Stores
  <2>3. Holds => since = 0 BY <1>0, <1>2, <1>4 DEF HoldsInv, ReadStep
  <2>4. c.char # 0 => behind = 0 BY <1>0, <1>4, <2>3 DEF HoldsInv, Holds, ReadStep
  <2>5. ~c.cls BY <1>0, <1>4 DEF HoldsInv, ReadStep
  <2>6. c'.char # 0 => behind' = 1
    BY <1>2, <1>4, <2>2, <2>4 DEF ReadStep, Later, KeepsDistances
  <2>7. since' = 0 /\ reading' /\ last' = "other" BY <1>4 DEF ReadStep
  <2>8. ~c'.cls /\ ~c'.keep BY <2>2, <2>5
  <2> QED BY <2>6, <2>7, <2>8 DEF HoldsInv, Holds, Reset
<1>5. ASSUME WaitStep PROVE HoldsInv'
  <2>1. RegisterDoes(c, Idle, c') /\ Idle.cmd = "none"
    BY <1>5 DEF WaitStep, EdgeDone, CoreDoes, Idle
  <2>2. ~c'.keep BY <2>1 DEF RegisterDoes, Stores
  <2>3. CASE ~c.keep
    <3>1. c'.char = 0 /\ ~c'.posEn /\ ~c'.cls BY <2>1, <2>3 DEF RegisterDoes
    <3> QED BY <2>2, <3>1 DEF HoldsInv, Holds
  <2>4. CASE c.keep
    <3>1. c'.char = c.char /\ c'.posEn = c.posEn /\ c'.cls = c.cls
      BY <2>1, <2>4 DEF RegisterDoes
    <3>2. since = 0 /\ ~reading BY <1>0, <2>4 DEF HoldsInv
    <3>3. since' = Later(0) /\ last' = last /\ behind' = Later(behind) /\ ~reading'
      BY <1>5, <3>2 DEF WaitStep
    <3>4. c.char # 0 => behind = 0 BY <1>0, <3>2 DEF HoldsInv
    <3>5. since' = 1 BY <3>3 DEF Later, KeepsDistances
    <3>6. c.char # 0 => behind' = 1 BY <3>3, <3>4 DEF Later, KeepsDistances
    <3>7. Holds' <=> Holds BY <3>1 DEF Holds
    <3>8. Holds => ~Reset /\ last # "answer" BY <1>0 DEF HoldsInv
    <3>9. c.cls => c.char = 0 /\ ~c.posEn /\ last = "other" /\ ~reading BY <1>0 DEF HoldsInv
    <3> QED BY <2>2, <3>1, <3>3, <3>5, <3>6, <3>7, <3>8, <3>9 DEF HoldsInv, Reset
  <2> QED BY <2>3, <2>4
<1> QED BY <1>3, <1>4, <1>5 DEF Stepping

LEMMA StartKept ==
  ASSUME ConsoleInv, Stepping
  PROVE  StartInv'
<1>0. ShapeInv /\ StartInv /\ ProgramInv BY DEF ConsoleInv
<1> USE NatConstants
<1>2. /\ since \in 0 .. Settle /\ behind \in 0 .. Settle /\ since <= behind
      /\ p.initCnt \in 0 .. 2 * Len(InitMsg) /\ odd \in BOOLEAN
  BY <1>0 DEF ShapeInv
<1>1. ASSUME NEW a, EdgeDone(a)
      PROVE  /\ odd' = ~odd
             /\ ~odd => p'.initCnt = p.initCnt
             /\ odd => p'.initCnt = (IF p.initCnt = 0 THEN 0 ELSE p.initCnt - 1)
  BY <1>1 DEF EdgeDone, PixDoes
<1>3. ASSUME NEW a, StoreStep(a) PROVE StartInv'
  <2>1. last' \in {"font", "at", "other"} BY <1>3 DEF StoreStep, Kind
  <2>2. p'.initCnt = 0 BY <1>1, <1>3 DEF StoreStep
  <2> QED BY <2>1, <2>2 DEF StartInv, Reset
<1>4. ASSUME NEW a, ReadStep(a) PROVE StartInv'
  <2>2. p'.initCnt = 0 BY <1>1, <1>4 DEF ReadStep
  <2> QED BY <1>4, <2>2 DEF StartInv, Reset, ReadStep
<1>5. ASSUME WaitStep PROVE StartInv'
  <2>1. EdgeDone(Idle) BY <1>5 DEF WaitStep
  <2>2. Reset' => Reset BY <1>5 DEF WaitStep, Reset
  <2>3. Reset => ~reading /\ since = behind /\ since' = Later(since) /\ behind' = Later(behind)
                 /\ Reset' /\ ~reading' /\ ~scrolled'
    BY <1>0, <1>5 DEF StartInv, WaitStep, Reset
  <2>4. last' = "answer" => behind' = Settle
    BY <1>0, <1>2, <1>5 DEF StartInv, WaitStep, Later
  <2>5. ASSUME p'.initCnt > 0
        PROVE  Reset' /\ since' <= 2 * (2 * Len(InitMsg) - p'.initCnt) + Odd'
    <3>1. p.initCnt > 0 BY <1>1, <1>2, <2>1, <2>5
    <3>2. Reset /\ since <= 2 * (2 * Len(InitMsg) - p.initCnt) + Odd BY <1>0, <3>1 DEF StartInv
    <3>3. since' <= since + 1 BY <1>2, <2>3, <3>2 DEF Later
    <3>4. since' \in Nat BY <1>2, <2>3, <3>2 DEF Later
    <3>5. CASE odd
      <4>1. p'.initCnt = p.initCnt - 1 BY <1>1, <1>2, <2>1, <3>1, <3>5
      <4>2. ~odd' BY <1>1, <2>1, <3>5
      <4>3. Odd = 1 /\ Odd' = 0 BY <3>5, <4>2 DEF Odd
      <4>4. \A l, i, x, y \in Nat : x <= 2 * (2 * l - i) + 1 /\ y <= x + 1 =>
              y <= 2 * (2 * l - (i - 1)) + 0
        OBVIOUS
      <4>5. p.initCnt \in Nat /\ since \in Nat /\ Len(InitMsg) \in Nat BY <1>2
      <4>6. since' <= 2 * (2 * Len(InitMsg) - (p.initCnt - 1)) + 0
        BY <3>2, <3>3, <3>4, <4>3, <4>4, <4>5
      <4> QED BY <2>3, <3>2, <4>1, <4>3, <4>6
    <3>6. CASE ~odd
      <4>1. p'.initCnt = p.initCnt /\ Odd = 0 /\ Odd' = 1
        BY <1>1, <1>2, <2>1, <3>1, <3>6 DEF Odd
      <4> QED BY <1>2, <2>3, <3>2, <3>3, <3>4, <4>1
    <3> QED BY <3>5, <3>6
  <2> QED BY <2>2, <2>3, <2>4, <2>5 DEF StartInv
<1> QED BY <1>3, <1>4, <1>5 DEF Stepping

(* The slots of two edges in a row differ.                                 *)
LEMMA SlotsApart ==
  ASSUME NEW q, NEW r, NEW t, NEW n, PixDoes(q, r, t, n), q.hcnt \in Nat, Slot(q)
  PROVE  ~Slot(n)
<1>1. n.hcnt = q.hcnt + 1 \/ n.hcnt = 0 BY DEF PixDoes
<1>2. \A h \in Nat : h % 8 = 4 => (h + 1) % 8 # 4 OBVIOUS
<1>3. 0 % 8 # 4 OBVIOUS
<1> QED BY <1>1, <1>2, <1>3 DEF Slot

LEMMA AgesPix ==
  ASSUME NEW q, NEW r, NEW t, NEW n, PixDoes(q, r, t, n), q.hcnt \in Nat, q.initCnt \in Nat,
         NEW b \in Nat, NEW base \in Nat, NEW b2 \in Nat, b2 <= b + 1, Ages(q, b, base, 1),
         r.char # 0 \/ q.initCnt > 0 => b + 1 <= base
  PROVE  Ages(n, b2, base, 0)
<1>1. n.char # 0 => b2 <= base + (IF Slot(n) THEN 0 ELSE 2)
  <2>1. SUFFICES ASSUME n.char # 0 PROVE b2 <= base + (IF Slot(n) THEN 0 ELSE 2) OBVIOUS
  <2>2. CASE r.char # 0 \/ q.initCnt > 0 BY <2>2
  <2>3. CASE r.char = 0 /\ q.initCnt = 0
    <3>1. q.initCnt % 2 # 1 BY <2>3
    <3>2. n.char = q.char /\ ~Puts(q) BY <2>1, <2>3, <3>1 DEF PixDoes
    <3>3. Slot(q) BY <2>1, <3>2 DEF Puts
    <3>4. ~Slot(n) BY <3>3, SlotsApart
    <3>5. b <= base + 1 BY <2>1, <3>2, <3>3 DEF Ages
    <3> QED BY <3>4, <3>5
  <2> QED BY <2>2, <2>3
<1>2. n.rd => b2 <= base + 4
  <2>1. SUFFICES ASSUME n.rd PROVE b2 <= base + 4 OBVIOUS
  <2>2. q.char # 0 /\ ~Slot(q) BY <2>1 DEF PixDoes, Puts
  <2> QED BY <2>2 DEF Ages
<1>3. n.wen \/ n.inc => n.rd BY DEF PixDoes
<1>4. n.rdp => b2 <= base + 6 BY DEF PixDoes, Ages
<1>5. n.rdpp => b2 <= base + 8 BY DEF PixDoes, Ages
<1> QED BY <1>1, <1>2, <1>3, <1>4, <1>5 DEF Ages

LEMMA AgesStay ==
  ASSUME NEW q, NEW b \in Nat, NEW base \in Nat, NEW b2 \in Nat, b2 <= b + 1,
         Ages(q, b, base, 0)
  PROVE  Ages(q, b2, base, 1)
BY DEF Ages

LEMMA AgesNow ==
  ASSUME NEW q, NEW o \in 0 .. 1, q.wen \/ q.inc => q.rd
  PROVE  Ages(q, 0, 2, o)
BY DEF Ages

LEMMA AgesStep ==
  ASSUME ConsoleInv, NEW a, EdgeDone(a)
  PROVE  Ages(p', Later(behind), Base, Odd')
<1>0. ShapeInv /\ StartInv /\ AgeInv /\ HoldsInv BY DEF ConsoleInv
<1> USE NatConstants
<1>1. /\ behind \in Nat /\ since \in Nat /\ Base \in Nat /\ p.initCnt \in Nat /\ p.hcnt \in Nat
      /\ p.initCnt <= 2 * Len(InitMsg)
  BY <1>0 DEF ShapeInv, Base
<1>2. Later(behind) \in Nat /\ Later(behind) <= behind + 1 BY <1>1 DEF Later
<1>3. CASE odd
  <2>1. PixDoes(p, c, text, p') /\ ~odd' BY <1>3 DEF EdgeDone
  <2>2. Odd = 1 /\ Odd' = 0 BY <1>3, <2>1 DEF Odd
  <2>3. c.char # 0 => behind + 1 <= Base
    BY <1>0, <1>1 DEF HoldsInv, Holds, Base
  <2>4. p.initCnt > 0 => behind + 1 <= Base
    <3>1. SUFFICES ASSUME p.initCnt > 0 PROVE behind + 1 <= Base OBVIOUS
    <3>2. Reset /\ behind <= 2 * (2 * Len(InitMsg) - p.initCnt) + 1
      BY <1>0, <2>2, <3>1 DEF StartInv
    <3>3. \A l, i, x \in Nat : i > 0 /\ x <= 2 * (2 * l - i) + 1 => x + 1 <= 4 * l OBVIOUS
    <3> QED BY <1>1, <3>1, <3>2, <3>3 DEF Base
  <2>5. Ages(p, behind, Base, 1) BY <1>0, <2>2 DEF AgeInv
  <2>6. c.char # 0 \/ p.initCnt > 0 => behind + 1 <= Base BY <2>3, <2>4
  <2> HIDE DEF Odd
  <2> QED BY <1>1, <1>2, <2>1, <2>2, <2>5, <2>6, AgesPix
<1>4. CASE ~odd
  <2>1. p' = p /\ odd' BY <1>4 DEF EdgeDone
  <2>2. Odd = 0 /\ Odd' = 1 BY <1>4, <2>1 DEF Odd
  <2>3. Ages(p, behind, Base, 0) BY <1>0, <2>2 DEF AgeInv
  <2>4. Ages(p, Later(behind), Base, 1) BY <1>1, <1>2, <2>3, AgesStay
  <2> QED BY <2>1, <2>2, <2>4
<1> QED BY <1>3, <1>4

(* While the program waits for an answer that has come, nothing moves.     *)
LEMMA AnsweredQuiet ==
  ASSUME ConsoleInv, c.en, NEW a, EdgeDone(a)
  PROVE  p'.char = 0 /\ ~p'.rd /\ ~p'.rdp /\ ~p'.rdpp
<1>0. ShapeInv /\ StartInv /\ AnswerInv /\ ReadInv BY DEF ConsoleInv
<1>1. reading /\ c.ok /\ ~p.rdpp BY <1>0 DEF AnswerInv
<1>2. p.char = 0 /\ ~p.rd /\ ~p.rdp /\ ~HoldsChar
  BY <1>0, <1>1 DEF ReadInv, Asked, OnItsWay
<1>3. p.initCnt = 0 BY <1>0, <1>1, NatConstants DEF StartInv, ShapeInv
<1>4. CASE odd
  <2>1. PixDoes(p, c, text, p') BY <1>4 DEF EdgeDone
  <2>2. c.char = 0 BY <1>2, <1>4 DEF HoldsChar, Fresh
  <2>3. p.initCnt % 2 # 1 /\ ~Puts(p) BY <1>2, <1>3 DEF Puts
  <2>4. p'.char = 0 BY <1>2, <2>1, <2>2, <2>3 DEF PixDoes
  <2> QED BY <1>1, <1>2, <2>1, <2>3, <2>4 DEF PixDoes
<1>5. CASE ~odd BY <1>1, <1>2, <1>5 DEF EdgeDone
<1> QED BY <1>4, <1>5

LEMMA AgeKept ==
  ASSUME ConsoleInv, KeepsDistances, Stepping
  PROVE  AgeInv'
<1>0. ShapeInv /\ StartInv /\ AgeInv /\ HoldsInv BY DEF ConsoleInv
<1> USE NatConstants
<1>1. /\ behind \in 0 .. Settle /\ since \in 0 .. Settle /\ Base \in Nat /\ odd \in BOOLEAN
      /\ since <= behind
  BY <1>0 DEF ShapeInv, Base
<1>2. Odd \in 0 .. 1 /\ Odd' \in 0 .. 1 BY DEF Odd
<1>3. ASSUME NEW a, StoreStep(a) PROVE AgeInv'
  <2>1. EdgeDone(a) BY <1>3 DEF StoreStep
  <2>2. Ages(p', Later(behind), Base, Odd') BY <2>1, AgesStep
  <2>3. Base' = 2 BY <1>3 DEF StoreStep, Base, Reset, Kind
  <2>4. Ages(p', behind', Base', Odd')
    <3>1. CASE IsCharacter(a)
      <4>1. behind' = 0 BY <1>3, <3>1 DEF StoreStep
      <4> HIDE DEF Odd
      <4>2. p'.wen \/ p'.inc => p'.rd BY <2>2 DEF Ages
      <4> QED BY <1>2, <2>3, <4>1, <4>2, AgesNow
    <3>2. CASE ~IsCharacter(a) /\ Reset
      <4>1. behind' = Later(behind) BY <1>3, <3>2 DEF StoreStep
      <4>2. Later(behind) >= 4 * Len(InitMsg) + 10 /\ Later(behind) \in Nat
        BY <1>0, <1>1, <1>3, <3>2 DEF StoreStep, StartInv, Later, KeepsDistances
      <4>3. Base = 4 * Len(InitMsg) BY <3>2 DEF Base
      <4>4. p'.char = 0 /\ ~p'.rd /\ ~p'.rdp /\ ~p'.rdpp
        BY <1>2, <2>2, <4>2, <4>3 DEF Ages
      <4> QED BY <2>2, <4>4 DEF Ages
    <3>3. CASE ~IsCharacter(a) /\ ~Reset
      <4>1. behind' = Later(behind) BY <1>3, <3>3 DEF StoreStep
      <4>2. Base = 2 BY <3>3 DEF Base
      <4> QED BY <2>2, <2>3, <4>1, <4>2
    <3> QED BY <3>1, <3>2, <3>3
  <2>5. ~p'.clsp
    <3>1. ~Holds BY <1>0, <1>1, <1>3 DEF HoldsInv, StoreStep
    <3>2. CASE odd BY <2>1, <3>1, <3>2 DEF EdgeDone, PixDoes, Holds
    <3>3. CASE ~odd
      <4>1. p' = p BY <2>1, <3>3 DEF EdgeDone
      <4>2. Odd = 0 BY <3>3 DEF Odd
      <4>3. p.clsp => since <= 2 /\ last = "other" BY <1>0, <4>2 DEF AgeInv
      <4>4. since >= 3 \/ last = "answer" BY <1>3 DEF StoreStep
      <4> QED BY <1>1, <4>1, <4>3, <4>4
    <3> QED BY <3>2, <3>3
  <2> QED BY <2>4, <2>5 DEF AgeInv
<1>4. ASSUME NEW a, ReadStep(a) PROVE AgeInv'
  <2>1. EdgeDone(a) BY <1>4 DEF ReadStep
  <2>2. Ages(p', Later(behind), Base, Odd') BY <2>1, AgesStep
  <2>3. Base' = 2 /\ Base = 2 /\ behind' = Later(behind)
    BY <1>4 DEF ReadStep, Base, Reset
  <2>4. ~p'.clsp
    <3>1. ~p.clsp BY <1>0, <1>4 DEF AgeInv, ReadStep
    <3>2. ~c.cls BY <1>0, <1>4 DEF HoldsInv, ReadStep
    <3>3. CASE odd BY <2>1, <3>2, <3>3 DEF EdgeDone, PixDoes
    <3>4. CASE ~odd BY <2>1, <3>1, <3>4 DEF EdgeDone
    <3> QED BY <3>3, <3>4
  <2> QED BY <2>2, <2>3, <2>4 DEF AgeInv
<1>5. ASSUME WaitStep PROVE AgeInv'
  <2>1. EdgeDone(Idle) BY <1>5 DEF WaitStep
  <2>2. Ages(p', Later(behind), Base, Odd') BY <2>1, AgesStep
  <2>3. Ages(p', behind', Base', Odd')
    <3>1. CASE reading /\ c.en
      <4>1. p'.char = 0 /\ ~p'.rd /\ ~p'.rdp /\ ~p'.rdpp BY <2>1, <3>1, AnsweredQuiet
      <4> QED BY <2>2, <4>1 DEF Ages
    <3>2. CASE ~(reading /\ c.en)
      <4>1. behind' = Later(behind) /\ last' = last BY <1>5, <3>2 DEF WaitStep
      <4>2. Base' = Base BY <4>1 DEF Base, Reset
      <4> QED BY <2>2, <4>1, <4>2
    <3> QED BY <3>1, <3>2
  <2>4. ASSUME p'.clsp
        PROVE  since' <= 2 + Odd' /\ last' = "other" /\ ~reading' /\ (Fresh' => ~c'.cls)
    <3>1. RegisterDoes(c, Idle, c') /\ Idle.cmd = "none"
      BY <2>1 DEF EdgeDone, CoreDoes, Idle
    <3>2. ~c'.keep BY <3>1 DEF RegisterDoes, Stores
    <3>3. CASE odd
      <4>1. c.cls /\ ~odd' BY <2>1, <2>4, <3>3 DEF EdgeDone, PixDoes
      <4>2. since <= 1 /\ last = "other" /\ ~reading BY <1>0, <4>1 DEF HoldsInv, Holds
      <4>5. since' = Later(since) /\ last' = last /\ ~reading' BY <1>5, <4>2 DEF WaitStep
      <4>6. since' <= 2 BY <1>1, <4>2, <4>5 DEF Later
      <4>7. ~Fresh' BY <3>2, <4>1 DEF Fresh
      <4>8. since' \in Nat BY <1>1, <4>5 DEF Later
      <4> QED BY <1>2, <4>2, <4>5, <4>6, <4>7, <4>8
    <3>4. CASE ~odd
      <4>1. p.clsp /\ odd' BY <2>1, <2>4, <3>4 DEF EdgeDone
      <4>2. Odd = 0 /\ Odd' = 1 BY <3>4, <4>1 DEF Odd
      <4>3. since <= 2 /\ last = "other" /\ ~reading /\ (Fresh => ~c.cls)
        BY <1>0, <4>1, <4>2 DEF AgeInv
      <4>4. ~c'.cls
        <5>1. CASE c.keep BY <3>1, <4>3, <5>1 DEF RegisterDoes, Fresh
        <5>2. CASE ~c.keep BY <3>1, <5>2 DEF RegisterDoes
        <5> QED BY <5>1, <5>2
      <4>5. since' = Later(since) /\ last' = last /\ ~reading' BY <1>5, <4>3 DEF WaitStep
      <4>6. since' <= 3 BY <1>1, <4>3, <4>5 DEF Later
      <4> QED BY <4>2, <4>3, <4>4, <4>5, <4>6
    <3> QED BY <3>3, <3>4
  <2> QED BY <2>3, <2>4 DEF AgeInv
<1> QED BY <1>3, <1>4, <1>5 DEF Stepping

-----------------------------------------------------------------------------
(* A set of numbers has a least one: where a proof would go by induction,  *)
(* a least counterexample is looked at.                                    *)
LEMMA Least ==
  ASSUME NEW T \in SUBSET Nat, T # {}
  PROVE  \E x \in T : \A y \in T : x <= y
<1>1. IsWellFoundedOn(OpToRel(<, Nat), Nat) BY NatLessThanWellFounded
<1>2. PICK x \in T : \A y \in T : ~(<<y, x>> \in OpToRel(<, Nat)) BY <1>1, WFMin
<1>3. \A y \in T : ~(y < x)
  <2> TAKE y \in T
  <2>1. y < x => <<y, x>> \in OpToRel(<, Nat) BY DEF OpToRel
  <2> QED BY <2>1, <1>2
<1>4. \A y \in T : x <= y BY <1>3
<1> QED BY <1>4

(* The terminals behind the first characters of a message.                 *)
IsGreeting(g, msg, n) ==
  g = [i \in 0 .. n |-> IF i = 0 THEN TermInit ELSE Typed(g[i - 1], msg[i])]

(* There are such terminals, and the model's are them.                     *)
LEMMA Greetings ==
  ASSUME NEW msg, NEW n \in Nat
  PROVE  \E g : IsGreeting(g, msg, n)
<1> DEFINE bad == {m \in Nat : ~\E g : IsGreeting(g, msg, m)}
<1>1. SUFFICES ASSUME bad # {} PROVE FALSE OBVIOUS
<1>2. PICK m \in bad : \A y \in bad : m <= y BY <1>1, Least
<1>3. m # 0
  <2>1. IsGreeting([i \in 0 .. 0 |-> TermInit], msg, 0) BY DEF IsGreeting
  <2> QED BY <1>2, <2>1
<1>4. m - 1 \in Nat /\ m - 1 \notin bad BY <1>2, <1>3
<1>5. PICK g : IsGreeting(g, msg, m - 1) BY <1>4
<1>6. IsGreeting([i \in 0 .. m |-> IF i = m THEN Typed(g[m - 1], msg[m]) ELSE g[i]], msg, m)
  <2>1. m \in Nat /\ m > 0 BY <1>2, <1>3
  <2> QED BY <2>1, <1>5 DEF IsGreeting
<1> QED BY <1>2, <1>6

LEMMA GreetedStep ==
  /\ Greeted[0] = TermInit
  /\ \A i \in 1 .. Len(InitMsg) : Greeted[i] = Typed(Greeted[i - 1], InitMsg[i])
<1>1. PICK g : IsGreeting(g, InitMsg, Len(InitMsg)) BY NatConstants, Greetings
<1>2. Greeted = [i \in 0 .. Len(InitMsg) |->
                   IF i = 0 THEN TermInit ELSE Typed(Greeted[i - 1], InitMsg[i])]
  BY <1>1, Zenon DEF Greeted, IsGreeting
<1>3. 0 \in 0 .. Len(InitMsg) /\ \A i \in 1 .. Len(InitMsg) : i \in 0 .. Len(InitMsg) /\ i # 0
  BY NatConstants
<1> HIDE DEF Greeted
<1> QED BY <1>2, <1>3

(* A line at most is written for each character, so nothing scrolls.       *)
GreetedAt(i) ==
  /\ TermFields \subseteq DOMAIN Greeted[i]
  /\ Greeted[i].line \in 0 .. i /\ Greeted[i].start = 0
  /\ Greeted[i].font = TermInit.font

LEMMA GreetedUpTo ==
  ASSUME NEW i \in 0 .. Len(InitMsg)
  PROVE  GreetedAt(i)
<1> DEFINE bad == {k \in 0 .. Len(InitMsg) : ~GreetedAt(k)}
<1>1. SUFFICES ASSUME bad # {} PROVE FALSE OBVIOUS
<1>0. bad \in SUBSET Nat BY NatConstants
<1>2. PICK m \in bad : \A y \in bad : m <= y
  <2> HIDE DEF bad
  <2> QED BY <1>0, <1>1, Least
<1>3. m # 0
  <2>1. GreetedAt(0) BY GreetedStep DEF GreetedAt, TermInit, TermFields
  <2> QED BY <1>2, <2>1
<1>4. m \in 1 .. Len(InitMsg) /\ m - 1 \in 0 .. Len(InitMsg) /\ m - 1 \notin bad
  BY <1>2, <1>3, NatConstants
<1>5. GreetedAt(m - 1) BY <1>4
<1> DEFINE t == Greeted[m - 1]
           u == Greeted[m]
<1>6. u = Typed(t, InitMsg[m]) BY <1>4, GreetedStep
<1>7. TermFields \subseteq DOMAIN t BY <1>5 DEF GreetedAt
<1>8. /\ View(u) = Type(View(t), InitMsg[m])
      /\ TermFields \subseteq DOMAIN u /\ u.font = t.font
  BY <1>6, <1>7, TypedView
<1>9. /\ u.line = t.line \/ u.line = NextLine(t.line)
      /\ u.start = t.start \/ NextLine(t.line) = t.start
  <2>1. u.line = View(u).line /\ u.start = View(u).start
        /\ View(t).line = t.line /\ View(t).start = t.start
    BY DEF View
  <2> HIDE DEF t, u
  <2> QED BY <1>8, <2>1 DEF Type
<1>10. NextLine(t.line) = t.line + 1
  BY <1>4, <1>5, NatConstants DEF GreetedAt, NextLine
<1>11. GreetedAt(m)
  <2>1. t.line \in 0 .. m - 1 /\ t.start = 0 /\ t.font = TermInit.font BY <1>5 DEF GreetedAt
  <2> HIDE DEF t
  <2>2. u.line \in 0 .. m /\ u.start = 0 BY <1>4, <1>9, <1>10, <2>1
  <2> QED BY <1>8, <2>1, <2>2 DEF GreetedAt
<1> QED BY <1>2, <1>11

(* Apart from the last of them, none ends on the last line.                *)
LEMMA GreetedStill ==
  ASSUME NEW i \in 0 .. Len(InitMsg), NEW v, Bare(v) = Bare(Greeted[i]), NEW char,
         char = 0 \/ i < Len(InitMsg)
  PROVE  ~Scrolls(v, char)
<1>1. GreetedAt(i) BY GreetedUpTo
<1>2. v.line = Greeted[i].line /\ v.start = 0 BY <1>1 DEF Bare, GreetedAt
<1>3. i < Len(InitMsg) => NextLine(v.line) # 0
  BY <1>1, <1>2, NatConstants DEF GreetedAt, NextLine
<1> QED BY <1>2, <1>3 DEF Scrolls

-----------------------------------------------------------------------------
(* Where the last character found what it overwrote is all the same to     *)
(* what comes next.                                                        *)
LEMMA BareFields ==
  ASSUME NEW v, NEW w
  PROVE  Bare(v) = Bare(w) <=>
           /\ v.text = w.text /\ v.line = w.line /\ v.col = w.col
           /\ v.start = w.start /\ v.end = w.end
BY DEF Bare

LEMMA BareType ==
  ASSUME NEW v, NEW w, Bare(v) = Bare(w), NEW char
  PROVE  /\ Bare(Type(v, char)) = Bare(Type(w, char))
         /\ char # 0 => Type(v, char) = Type(w, char)
         /\ Scrolls(v, char) <=> Scrolls(w, char)
<1>1. /\ v.text = w.text /\ v.line = w.line /\ v.col = w.col
      /\ v.start = w.start /\ v.end = w.end
  BY BareFields
<1>2. Scrolls(v, char) <=> Scrolls(w, char) BY <1>1 DEF Scrolls
<1>3. char # 0 => Type(v, char) = Type(w, char) BY <1>1 DEF Type
<1>4. char = 0 => Type(v, char) = v /\ Type(w, char) = w BY DEF Type
<1> QED BY <1>2, <1>3, <1>4

LEMMA BarePut ==
  ASSUME NEW v, NEW w, Bare(v) = Bare(w), NEW r
  PROVE  Bare(Put1(v, r)) = Bare(Put1(w, r))
BY BareFields DEF Put1, Place, Bare

LEMMA BareStored ==
  ASSUME NEW q, NEW t, NEW o, NEW o2
  PROVE  Bare(Stored(q, t, o)) = Bare(Stored(q, t, o2))
BY DEF Bare, Stored

LEMMA BareView ==
  ASSUME NEW t
  PROVE  Bare(View(t)) = Bare(t)
BY DEF Bare, View

(* An edge of clk_pix while no line scrolls and nothing is cleared.        *)
LEMMA PixBare ==
  ASSUME NEW q, NEW r, NEW t, NEW n, NEW o, PixDoes(q, r, t, n),
         ~r.cls, ~q.inc, ~n.inc
  PROVE  Bare(Stored(n, TextAfter(q, t), o)) =
           Bare(Put1(IF Puts(q) THEN Type(Stored(q, t, o), q.char) ELSE Stored(q, t, o), r))
<1> DEFINE S0 == Stored(q, t, o)
           t1 == TextAfter(q, t)
           S1 == Stored(n, t1, o)
<1>1. ~Homes(q, r) BY DEF Homes
<1>2. S0.text = t1 /\ S0.line = q.curLine /\ S0.col = q.curCol /\ S0.end = q.endLine
      /\ S0.start = q.startLine
  BY DEF Stored
<1>3. S1.text = TextAfter(n, t1) /\ S1.line = n.curLine /\ S1.col = n.curCol
      /\ S1.end = n.endLine /\ S1.start = n.startLine
  BY DEF Stored
<1> HIDE DEF S0, S1, t1
<1>4. CASE Puts(q)
  <2> DEFINE W0 == Type(S0, q.char)
             eol == EndsLine(q)
             next == NextLine(q.curLine)
  <2>1. q.char # 0 BY <1>4 DEF Puts
  <2>2. ~(eol /\ next = q.startLine) BY <1>4 DEF PixDoes
  <2>3. /\ W0.text = TextAfter(n, t1)
        /\ W0.line = (IF eol THEN next ELSE q.curLine)
        /\ W0.col = (IF eol THEN 0 ELSE q.curCol + 1)
        /\ W0.start = q.startLine
        /\ W0.end = (IF eol THEN next ELSE q.endLine)
    BY <1>2, <1>4, <2>1, <2>2 DEF Type, EndsLine, PixDoes, TextAfter
  <2> HIDE DEF W0
  <2> DEFINE V == Put1(W0, r)
  <2>4. S1.text = V.text /\ S1.line = V.line /\ S1.col = V.col /\ S1.start = V.start
        /\ S1.end = V.end
    BY <1>1, <1>3, <1>4, <2>3 DEF PixDoes, Put1, Place
  <2> HIDE DEF V
  <2>5. Bare(S1) = Bare(V) BY <2>4, BareFields
  <2> QED BY <1>4, <2>5 DEF V, W0, S0, S1, t1
<1>5. CASE ~Puts(q)
  <2> DEFINE V == Put1(S0, r)
  <2>1. TextAfter(n, t1) = t1 BY <1>5 DEF PixDoes, TextAfter
  <2>2. S1.text = V.text /\ S1.line = V.line /\ S1.col = V.col /\ S1.start = V.start
        /\ S1.end = V.end
    BY <1>1, <1>2, <1>3, <1>5, <2>1 DEF PixDoes, Put1, Place
  <2> HIDE DEF V
  <2>3. Bare(S1) = Bare(V) BY <2>2, BareFields
  <2> QED BY <1>5, <2>3 DEF V, S0, S1, t1
<1> QED BY <1>4, <1>5

-----------------------------------------------------------------------------
(* The message of the start is put, one character after the other.         *)
LEMMA MessageKept ==
  ASSUME ConsoleInv, Stepping
  PROVE  MessageInv'
<1>0. ShapeInv /\ HoldsInv /\ StartInv /\ ScrollInv /\ MessageInv BY DEF ConsoleInv
<1>1. SUFFICES ASSUME Reset' PROVE MessageInv' BY DEF MessageInv
<1>2. WaitStep
  <2>1. ASSUME NEW a, StoreStep(a) PROVE FALSE
    BY <1>1, <2>1 DEF StoreStep, Reset, Kind
  <2>2. ASSUME NEW a, ReadStep(a) PROVE FALSE BY <1>1, <2>2 DEF ReadStep, Reset
  <2> QED BY <2>1, <2>2 DEF Stepping
<1>3. Reset /\ term' = term BY <1>1, <1>2 DEF WaitStep, Reset
<1>4. EdgeDone(Idle) BY <1>2 DEF WaitStep
<1>5. /\ term = Greeted[Len(InitMsg)] /\ p.startLine = 0 /\ ~p.inc
      /\ p.char # 0 => /\ TakenChars > 0 /\ p.char = InitMsg[TakenChars]
                       /\ Slot(p) => p.initCnt % 2 = 0
      /\ Bare(S) = Bare(Greeted[PutChars])
  BY <1>0, <1>3 DEF MessageInv
<1>6. p.initCnt \in 0 .. 2 * Len(InitMsg) /\ Len(InitMsg) \in Nat
  BY <1>0, NatConstants DEF ShapeInv
<1>7. CASE ~odd
  <2>1. p' = p /\ text' = text BY <1>4, <1>7 DEF EdgeDone
  <2> QED BY <1>3, <1>5, <2>1 DEF MessageInv, TakenChars, PutChars, S
<1>8. CASE odd
  <2>1. PixDoes(p, c, text, p') /\ text' = TextAfter(p, text) BY <1>4, <1>8 DEF EdgeDone
  <2>2. c.char = 0 /\ ~c.posEn /\ ~c.cls BY <1>0, <1>3 DEF HoldsInv, Holds
  <2>3. ~scrolled BY <1>0, <1>3 DEF StartInv
  <2>4. ~Scrolls(S, p.char) BY <1>0, <2>3 DEF ScrollInv
  <2>5. ~p'.inc
    <3>1. S.start = p.startLine /\ S.line = p.curLine /\ S.col = p.curCol
      BY <1>5 DEF S, Stored
    <3> QED BY <2>1, <2>4, <3>1 DEF PixDoes, Puts, EndsLine, Scrolls
  <2>6. p'.startLine = 0 BY <1>5, <2>1, <2>2 DEF PixDoes, Homes
  <2> DEFINE m == p.initCnt
             L == Len(InitMsg)
  <2>7. /\ p'.initCnt = (IF m = 0 THEN 0 ELSE m - 1)
        /\ p'.char = (IF m % 2 = 1 THEN InitMsg[L - (m \div 2)]
                      ELSE IF Puts(p) THEN 0 ELSE p.char)
    BY <2>1, <2>2 DEF PixDoes
  <2>8. Bare(S') = Bare(IF Puts(p) THEN Type(S, p.char) ELSE S)
    <3>1. Bare(S') = Bare(Put1(IF Puts(p) THEN Type(S, p.char) ELSE S, c))
      BY <1>3, <1>5, <2>1, <2>2, <2>5, PixBare DEF S
    <3> QED BY <2>2, <3>1 DEF Put1
  <2>9. TakenChars \in 0 .. L /\ TakenChars = L - ((m + 1) \div 2)
    BY <1>6 DEF TakenChars
  <2>10. TakenChars' = L - ((p'.initCnt + 1) \div 2) BY DEF TakenChars
  <2>11. ASSUME p.char # 0, Puts(p)
         PROVE  Bare(S') = Bare(Greeted[TakenChars])
    <3>1. PutChars = TakenChars - 1 /\ TakenChars \in 1 .. L /\ PutChars \in 0 .. L
      BY <1>5, <2>9, <2>11 DEF PutChars
    <3>2. Greeted[TakenChars] = Typed(Greeted[PutChars], p.char)
      BY <1>5, <2>11, <3>1, GreetedStep
    <3>3. TermFields \subseteq DOMAIN Greeted[PutChars] BY <3>1, GreetedUpTo DEF GreetedAt
    <3>4. View(Greeted[TakenChars]) = Type(View(Greeted[PutChars]), p.char)
      BY <3>2, <3>3, TypedView
    <3>5. Bare(S) = Bare(View(Greeted[PutChars])) BY <1>5, BareView
    <3>6. Bare(Type(S, p.char)) = Bare(View(Greeted[TakenChars])) BY <3>4, <3>5, BareType
    <3> QED BY <2>8, <2>11, <3>6, BareView
  <2>12. ASSUME p.char = 0 PROVE Bare(S') = Bare(Greeted[TakenChars])
    BY <1>5, <2>8, <2>12 DEF PutChars, Puts
  <2>13. CASE m % 2 = 1
    <3>1. \A l \in Nat : \A i \in 0 .. 2 * l : i % 2 = 1 =>
            /\ i # 0 /\ (i - 1) % 2 = 0 /\ l - (i \div 2) \in 1 .. l
            /\ l - (((i - 1) + 1) \div 2) = l - (i \div 2)
            /\ l - (i \div 2) = (l - ((i + 1) \div 2)) + 1
      OBVIOUS
    <3>10. /\ m # 0 /\ (m - 1) % 2 = 0 /\ L - (m \div 2) \in 1 .. L
           /\ L - (((m - 1) + 1) \div 2) = L - (m \div 2)
           /\ L - (m \div 2) = (L - ((m + 1) \div 2)) + 1
      <4> HIDE DEF m, L
      <4>1. m \in 0 .. 2 * L /\ L \in Nat BY <1>6 DEF m, L
      <4> QED BY <2>13, <3>1, <4>1
    <3>2. p'.initCnt = m - 1 /\ (m - 1) % 2 = 0 /\ TakenChars' = L - (m \div 2)
          /\ TakenChars' = TakenChars + 1
      <4>1. p'.initCnt = m - 1 BY <2>7, <3>10
      <4> QED BY <2>9, <2>10, <3>10, <4>1
    <3>3. TakenChars' \in 1 .. L BY <3>2, <3>10
    <3>4. p'.char = InitMsg[TakenChars'] BY <2>7, <2>13, <3>2
    <3>5. p.char # 0 => Puts(p) BY <1>5, <2>13 DEF Puts
    <3>6. Bare(S') = Bare(Greeted[TakenChars]) BY <2>11, <2>12, <3>5
    <3>7. Bare(S') = Bare(Greeted[PutChars'])
      <4>1. CASE p'.char # 0
        <5>1. PutChars' = TakenChars BY <2>9, <3>2, <4>1 DEF PutChars
        <5> QED BY <3>6, <5>1
      <4>2. CASE p'.char = 0
        <5>1. PutChars' = TakenChars' BY <4>2 DEF PutChars
        <5>2. Greeted[TakenChars'] = Typed(Greeted[TakenChars], 0)
          <6>1. TakenChars = TakenChars' - 1 BY <2>9, <3>2
          <6> QED BY <3>3, <3>4, <4>2, <6>1, GreetedStep
        <5>3. Greeted[TakenChars'] = Greeted[TakenChars] BY <5>2 DEF Typed
        <5> QED BY <3>6, <5>1, <5>3
      <4> QED BY <4>1, <4>2
    <3> QED BY <1>3, <1>5, <2>5, <2>6, <3>2, <3>3, <3>4, <3>7 DEF MessageInv
  <2>14. CASE m % 2 # 1
    <3>1. \A l \in Nat : \A i \in 0 .. 2 * l : i % 2 # 1 =>
            /\ i % 2 = 0
            /\ i # 0 => ((i - 1) + 1) \div 2 = (i + 1) \div 2
            /\ (0 + 1) \div 2 = 0
      OBVIOUS
    <3>2. m % 2 = 0 /\ TakenChars' = TakenChars BY <1>6, <2>7, <2>9, <2>10, <2>14, <3>1
    <3>3. p'.char = (IF Puts(p) THEN 0 ELSE p.char) BY <2>7, <2>14
    <3>4. CASE Puts(p) \/ p.char = 0
      <4>1. p'.char = 0 BY <3>3, <3>4
      <4>2. Bare(S') = Bare(Greeted[TakenChars]) BY <2>11, <2>12, <3>4 DEF Puts
      <4>3. PutChars' = TakenChars BY <3>2, <4>1 DEF PutChars
      <4> QED BY <1>3, <1>5, <2>5, <2>6, <4>1, <4>2, <4>3 DEF MessageInv
    <3>5. CASE ~Puts(p) /\ p.char # 0
      <4>1. p'.char = p.char BY <3>3, <3>5
      <4>2. Slot(p) BY <3>5 DEF Puts
      <4>3. ~Slot(p')
        <5>1. p.hcnt \in Nat BY <1>0 DEF ShapeInv
        <5> QED BY <2>1, <4>2, <5>1, SlotsApart
      <4>4. PutChars' = PutChars BY <3>2, <4>1 DEF PutChars
      <4>5. Bare(S') = Bare(Greeted[PutChars']) BY <1>5, <2>8, <3>5, <4>4
      <4> QED BY <1>3, <1>5, <2>5, <2>6, <3>2, <3>5, <4>1, <4>3, <4>5 DEF MessageInv
    <3> QED BY <3>4, <3>5
  <2> QED BY <2>13, <2>14
<1> QED BY <1>7, <1>8

-----------------------------------------------------------------------------
(* What clk_pix finds in the register does not disturb what is under way.  *)
Fits(q, r, t, o) ==
  /\ r.cls => r.char = 0 /\ ~r.posEn /\ ~q.clsp
  /\ q.inc => q.char = 0
  /\ r.char # 0 \/ r.posEn \/ r.cls =>
       ~q.inc /\ ~Scrolls(Stored(q, t, o), q.char) /\ (q.char # 0 => ~Slot(q))

LEMMA RegisterFits ==
  ASSUME ConsoleInv, Fresh
  PROVE  Fits(p, c, text, term.over)
<1>0. HoldsInv /\ AgeInv /\ ScrollInv BY DEF ConsoleInv
<1>1. c.cls => c.char = 0 /\ ~c.posEn BY <1>0 DEF HoldsInv
<1>2. p.clsp => ~c.cls BY <1>0 DEF AgeInv
<1> QED BY <1>0, <1>1, <1>2 DEF ScrollInv, Holds, Fits, S

LEMMA PixScrolls ==
  ASSUME NEW q, NEW r, NEW t, NEW n, NEW o, PixDoes(q, r, t, n), q.initCnt = 0,
         Fits(q, r, t, o), ~q.inc, ~Scrolls(Stored(q, t, o), q.char),
         ~Scrolls(Put1(Type(Stored(q, t, o), q.char), r), r.char)
  PROVE  ~n.inc /\ ~Scrolls(Stored(n, TextAfter(q, t), o), n.char)
<1> DEFINE S0 == Stored(q, t, o)
           W0 == Type(S0, q.char)
           S1 == Stored(n, TextAfter(q, t), o)
<1>1. ~n.inc
  <2>1. S0.start = q.startLine /\ S0.line = q.curLine /\ S0.col = q.curCol BY DEF Stored
  <2> HIDE DEF S0
  <2> QED BY <2>1 DEF PixDoes, Puts, EndsLine, Scrolls, S0
<1>2. n.char = (IF r.char # 0 THEN r.char ELSE IF Puts(q) THEN 0 ELSE q.char)
  <2>1. q.initCnt % 2 # 1 BY q.initCnt = 0
  <2> QED BY <2>1 DEF PixDoes
<1>3. CASE r.char # 0
  <2>1. ~r.cls /\ (q.char # 0 => Puts(q)) BY <1>3 DEF Fits, Puts
  <2>2. Bare(S1) = Bare(Put1(IF Puts(q) THEN W0 ELSE S0, r)) BY <1>1, <2>1, PixBare
  <2>3. (IF Puts(q) THEN W0 ELSE S0) = W0 BY <2>1 DEF Type
  <2>4. Bare(S1) = Bare(Put1(W0, r)) BY <2>2, <2>3
  <2>5. ~Scrolls(Put1(W0, r), r.char) OBVIOUS
  <2> HIDE DEF S0, W0, S1
  <2>6. ~Scrolls(S1, r.char) BY <2>4, <2>5, BareType
  <2> QED BY <1>1, <1>2, <1>3, <2>6 DEF S1
<1>4. CASE r.char = 0 /\ ~Puts(q) /\ q.char # 0
  <2>1. ~r.cls /\ ~r.posEn BY <1>4 DEF Fits, Puts
  <2>2. Bare(S1) = Bare(S0)
    <3>1. Bare(S1) = Bare(Put1(IF Puts(q) THEN W0 ELSE S0, r)) BY <1>1, <2>1, PixBare
    <3> QED BY <1>4, <2>1, <3>1 DEF Put1
  <2>5. ~Scrolls(S0, q.char) OBVIOUS
  <2> HIDE DEF S0, W0, S1
  <2>6. ~Scrolls(S1, q.char) BY <2>2, <2>5, BareType
  <2> QED BY <1>1, <1>2, <1>4, <2>6 DEF S1
<1>5. CASE r.char = 0 /\ (Puts(q) \/ q.char = 0)
  <2>1. n.char = 0 BY <1>2, <1>5
  <2> QED BY <1>1, <2>1 DEF Scrolls
<1> QED BY <1>3, <1>4, <1>5

-----------------------------------------------------------------------------
(* A store finds the register empty, and the console about to be what the  *)
(* terminal is.                                                            *)
LEMMA ToldOver ==
  ASSUME NEW t, TermFields \subseteq DOMAIN t, NEW a, ~IsCharacter(a)
  PROVE  Told(t, a).over = t.over
<1>1. CASE a.cmd \in {"char", "at"}
  <2>1. a.char = 0 BY <1>1 DEF IsCharacter
  <2>2. Told(t, a) = Positioned(t, a) BY <1>1, <2>1 DEF Told, Typed
  <2> QED BY <2>2 DEF Positioned, TermFields
<1>2. CASE a.cmd \notin {"char", "at"} BY <1>2 DEF Told, TermFields
<1> QED BY <1>1, <1>2

ResetDone == Reset => p.char = 0 /\ ~p.inc /\ ~p.rd

LEMMA StoreAfterReset ==
  ASSUME ConsoleInv, NEW a, StoreStep(a)
  PROVE  ResetDone
<1>0. ShapeInv /\ StartInv /\ AgeInv BY DEF ConsoleInv
<1>1. SUFFICES ASSUME Reset PROVE p.char = 0 /\ ~p.inc /\ ~p.rd BY DEF ResetDone
<1>2. since \in Nat /\ since = behind /\ since >= 4 * Len(InitMsg) + 9
      /\ Len(InitMsg) \in Nat /\ Base = 4 * Len(InitMsg) /\ Odd \in 0 .. 1
  BY <1>0, <1>1, NatConstants DEF ShapeInv, StartInv, StoreStep, Base, Odd
<1>3. Ages(p, behind, Base, Odd) BY <1>0 DEF AgeInv
<1> HIDE DEF Base, Odd
<1> QED BY <1>2, <1>3 DEF Ages

LEMMA GreetingDone ==
  ASSUME ConsoleInv, Reset, p.char = 0, p.initCnt = 0
  PROVE  S = View(term)
<1>1. MessageInv BY DEF ConsoleInv
<1>2. TakenChars = Len(InitMsg)
  <2>1. (p.initCnt + 1) \div 2 = 0 BY p.initCnt = 0
  <2> QED BY <2>1, NatConstants DEF TakenChars
<1>3. PutChars = Len(InitMsg) BY <1>2 DEF PutChars
<1>4. Bare(S) = Bare(term) BY <1>1, <1>3 DEF MessageInv
<1>5. /\ S.text = term.text /\ S.line = term.line /\ S.col = term.col
      /\ S.start = term.start /\ S.end = term.end
  BY <1>4, BareFields
<1>6. S = [text |-> S.text, line |-> S.line, col |-> S.col, start |-> S.start,
           end |-> S.end, over |-> term.over]
  BY DEF S, Stored
<1> HIDE DEF S
<1> QED BY <1>5, <1>6 DEF View

LEMMA StoreWaits ==
  ASSUME ConsoleInv, NEW a, StoreStep(a)
  PROVE  ~Holds /\ Waiting = View(term)
<1>0. ShapeInv /\ HoldsInv /\ MessageInv /\ TextInv BY DEF ConsoleInv
<1>1. ~Holds
  <2>1. since \in Nat BY <1>0, NatConstants DEF ShapeInv
  <2> QED BY <1>0, <2>1 DEF HoldsInv, StoreStep
<1>2. CASE ~Reset
  <2>1. Coming = View(term) BY <1>0, <1>2 DEF TextInv
  <2>2. Coming = Waiting
    BY <1>1 DEF Coming, Seen, Holds, Put1, Type
  <2> QED BY <1>1, <2>1, <2>2
<1>3. CASE Reset
  <2>1. p.char = 0 BY <1>3, StoreAfterReset DEF ResetDone
  <2>2. p.initCnt = 0 BY DEF StoreStep
  <2>3. S = View(term) BY <1>3, <2>1, <2>2, GreetingDone
  <2> QED BY <1>1, <2>1, <2>3 DEF Waiting, Type
<1> QED BY <1>2, <1>3

LEMMA StoreFinds ==
  ASSUME ConsoleInv, NEW a, StoreStep(a)
  PROVE  /\ Bare(Waiting') = Bare(View(term))
         /\ ~IsCharacter(a) => Waiting' = View(term)
<1>0. ShapeInv BY DEF ConsoleInv
<1>1. ~Holds /\ Waiting = View(term) BY StoreWaits
<1>2. EdgeDone(a) /\ p.initCnt = 0 /\ term' = Told(term, a) BY DEF StoreStep
<1> DEFINE is(o) == Type(Stored(p', text', o), p'.char)
<1>3. is(term.over) = View(term)
  <2>1. CASE ~odd
    <3>1. p' = p /\ text' = text BY <1>2, <2>1 DEF EdgeDone
    <3> QED BY <1>1, <3>1 DEF Waiting, S
  <2>2. CASE odd
    <3>1. PixDoes(p, c, text, p') /\ text' = TextAfter(p, text) BY <1>2, <2>2 DEF EdgeDone
    <3>2. Fits(p, c, text, term.over) BY <2>2, RegisterFits DEF Fresh
    <3> DEFINE was == Seen(Type(Stored(p, text, term.over), p.char), c)
    <3>3. was = View(term) BY <1>1 DEF Waiting, S, Seen, Holds, Put1, Type
    <3>4. was.over = term.over BY <3>3 DEF View
    <3>5. Type(Stored(p', TextAfter(p, text), term.over), p'.char) = was
      BY <1>2, <3>1, <3>2, <3>4, PixView DEF Fits
    <3> HIDE DEF was
    <3> QED BY <3>1, <3>3, <3>5
  <2> QED BY <2>1, <2>2
<1>4. Waiting' = is(term'.over) BY DEF Waiting, S
<1>5. Bare(is(term'.over)) = Bare(is(term.over)) BY BareStored, BareType
<1>6. ~IsCharacter(a) => term'.over = term.over BY <1>0, <1>2, ToldOver DEF ShapeInv
<1> HIDE DEF is
<1> QED BY <1>3, <1>4, <1>5, <1>6

(* Without a store the register keeps what it holds for another edge.      *)
Quiet ==
  /\ ~c'.keep /\ term' = term /\ scrolled' = scrolled /\ (Reset' <=> Reset)
  /\ Holds' => /\ c.keep /\ c'.char = c.char /\ c'.posEn = c.posEn /\ c'.pos = c.pos
               /\ c'.cls = c.cls
  /\ (Holds /\ c.keep) => Holds'
  /\ odd' = ~odd
  /\ odd => PixDoes(p, c, text, p') /\ text' = TextAfter(p, text)
  /\ ~odd => p' = p /\ text' = text

LEMMA QuietSteps ==
  ASSUME ConsoleInv, (\E a : ReadStep(a)) \/ WaitStep
  PROVE  Quiet
<1>0. ShapeInv /\ HoldsInv /\ StartInv BY DEF ConsoleInv
<1>1. ASSUME NEW a, ReadStep(a) PROVE Quiet
  <2>1. RegisterDoes(c, a, c') /\ EdgeDone(a) BY <1>1 DEF ReadStep, EdgeDone, CoreDoes
  <2>2. /\ c'.char = c.char /\ c'.posEn = c.posEn /\ c'.pos = c.pos /\ c'.cls = c.cls
        /\ ~c'.keep
    BY <1>1, <2>1 DEF ReadStep, RegisterDoes, Stores
  <2>3. Holds => c.keep
    <3>1. since \in Nat BY <1>0, NatConstants DEF ShapeInv
    <3> QED BY <1>0, <1>1, <3>1 DEF HoldsInv, ReadStep
  <2>4. term' = term /\ scrolled' = scrolled /\ (Reset' <=> Reset)
    BY <1>1 DEF ReadStep, Reset
  <2> QED BY <2>1, <2>2, <2>3, <2>4 DEF Quiet, Holds, EdgeDone
<1>2. ASSUME WaitStep PROVE Quiet
  <2>1. RegisterDoes(c, Idle, c') /\ EdgeDone(Idle) /\ Idle.cmd = "none"
    BY <1>2 DEF WaitStep, EdgeDone, CoreDoes, Idle
  <2>2. ~c'.keep BY <2>1 DEF RegisterDoes, Stores
  <2>3. c.keep => /\ c'.char = c.char /\ c'.posEn = c.posEn /\ c'.pos = c.pos
                  /\ c'.cls = c.cls
    BY <2>1 DEF RegisterDoes
  <2>4. ~c.keep => c'.char = 0 /\ ~c'.posEn /\ ~c'.cls BY <2>1 DEF RegisterDoes
  <2>5. term' = term /\ scrolled' = scrolled /\ (Reset' <=> Reset)
    BY <1>0, <1>2 DEF WaitStep, Reset, StartInv
  <2> QED BY <2>1, <2>2, <2>3, <2>4, <2>5 DEF Quiet, Holds, EdgeDone
<1> QED BY <1>1, <1>2

-----------------------------------------------------------------------------
(* The terminal the console is going to be is the terminal.                *)
LEMMA StoreTold ==
  ASSUME ConsoleInv, NEW a, StoreStep(a)
  PROVE  /\ Seen(View(term), c') = View(term')
         /\ TermFields \subseteq DOMAIN term'
         /\ term'.font = (IF a.cmd = "font" THEN [term.font EXCEPT ![a.glyph] = a.data]
                          ELSE term.font)
         /\ a.cmd \in {"char", "at"} =>
              Put1(View(term), c') = View(Positioned(term, a)) /\ c'.char = a.char
         /\ c'.keep /\ (c'.char # 0 <=> IsCharacter(a)) /\ (Holds' => MovesCursor(a))
         /\ (c'.cls => c'.char = 0)
<1>0. ShapeInv BY DEF ConsoleInv
<1>1. ~Holds BY StoreWaits
<1>2. RegisterDoes(c, a, c') /\ IsCommand(a) /\ Stores(a) /\ term' = Told(term, a)
  BY DEF StoreStep, EdgeDone, CoreDoes
<1>3. c.char = 0 /\ ~c.posEn /\ ~c.cls BY <1>1 DEF Holds
<1>4. TermFields \subseteq DOMAIN term BY <1>0 DEF ShapeInv
<1>5. c'.keep /\ (c'.char # 0 <=> IsCharacter(a)) /\ (Holds' => MovesCursor(a))
      /\ (c'.cls => c'.char = 0)
  BY <1>2, <1>3 DEF RegisterDoes, IsCharacter, MovesCursor, Holds
<1> QED BY <1>2, <1>3, <1>4, <1>5, StoreSeen

LEMMA TextKept ==
  ASSUME ConsoleInv, Stepping
  PROVE  TextInv'
<1>0. ShapeInv /\ HoldsInv /\ StartInv /\ TextInv BY DEF ConsoleInv
<1>1. ASSUME NEW a, StoreStep(a) PROVE TextInv'
  <2>1. /\ Seen(View(term), c') = View(term') /\ c'.keep
        /\ c'.char # 0 <=> IsCharacter(a)
        /\ c'.cls => c'.char = 0
    BY <1>1, StoreTold
  <2>2. Coming' = Seen(Waiting', c') BY <2>1 DEF Coming, Fresh
  <2>3. /\ Bare(Waiting') = Bare(View(term))
        /\ ~IsCharacter(a) => Waiting' = View(term)
    BY <1>1, StoreFinds
  <2>4. CASE IsCharacter(a)
    <3>1. c'.char # 0 /\ ~c'.cls BY <2>1, <2>4
    <3>2. Bare(Put1(Waiting', c')) = Bare(Put1(View(term), c')) BY <2>3, BarePut
    <3>3. Type(Put1(Waiting', c'), c'.char) = Type(Put1(View(term), c'), c'.char)
      BY <3>1, <3>2, BareType
    <3>4. Seen(Waiting', c') = Seen(View(term), c') BY <3>1, <3>3 DEF Seen
    <3> QED BY <2>1, <2>2, <3>4 DEF TextInv
  <2>5. CASE ~IsCharacter(a)
    <3>1. Waiting' = View(term) BY <2>3, <2>5
    <3>2. Coming' = View(term') BY <2>1, <2>2, <3>1
    <3> QED BY <3>2 DEF TextInv
  <2> QED BY <2>4, <2>5
<1>2. ASSUME Quiet PROVE TextInv'
  <2>0. SUFFICES ASSUME ~Reset' PROVE Coming' = View(term') BY DEF TextInv
  <2>1. ~Reset /\ term' = term BY <1>2, <2>0 DEF Quiet
  <2>2. Coming = View(term) BY <1>0, <2>1 DEF TextInv
  <2>3. CASE odd
    <3>1. /\ PixDoes(p, c, text, p') /\ text' = TextAfter(p, text)
          /\ ~c'.keep /\ ~odd'
      BY <1>2, <2>3 DEF Quiet
    <3>2. Fits(p, c, text, term.over) BY <2>3, RegisterFits DEF Fresh
    <3>3. p.initCnt = 0 BY <1>0, <2>1, NatConstants DEF StartInv, ShapeInv
    <3> DEFINE was == Seen(Type(Stored(p, text, term.over), p.char), c)
    <3>4. was = View(term) BY <2>2, <2>3 DEF Coming, Waiting, S, Fresh
    <3>5. was.over = term.over BY <3>4 DEF View
    <3>6. Type(Stored(p', TextAfter(p, text), term.over), p'.char) = was
      BY <3>1, <3>2, <3>3, <3>5, PixView DEF Fits
    <3>7. Coming' = Waiting' BY <3>1 DEF Coming, Fresh
    <3> HIDE DEF was
    <3>8. Waiting' = was BY <2>1, <3>1, <3>6 DEF Waiting, S
    <3> QED BY <2>1, <3>4, <3>7, <3>8
  <2>4. CASE ~odd
    <3>1. p' = p /\ text' = text BY <1>2, <2>4 DEF Quiet
    <3>2. Waiting' = Waiting BY <2>1, <3>1 DEF Waiting, S
    <3>3. Coming' = Seen(Waiting, c') BY <1>2, <2>4, <3>2 DEF Quiet, Coming, Fresh
    <3>4. CASE Holds'
      <4>1. Coming = Seen(Waiting, c) BY <1>2, <3>4 DEF Quiet, Coming, Fresh
      <4>2. Seen(Waiting, c') = Seen(Waiting, c) BY <1>2, <3>4 DEF Quiet, Seen, Put1
      <4> QED BY <2>1, <2>2, <3>3, <4>1, <4>2
    <3>5. CASE ~Holds'
      <4>1. Seen(Waiting, c') = Waiting BY <3>5 DEF Holds, Seen, Put1, Type
      <4>2. Coming = Waiting
        <5>1. CASE Fresh
          <6>1. ~Holds BY <1>2, <2>4, <3>5, <5>1 DEF Quiet, Fresh
          <6> QED BY <6>1 DEF Coming, Holds, Seen, Put1, Type
        <5>2. CASE ~Fresh BY <5>2 DEF Coming
        <5> QED BY <5>1, <5>2
      <4> QED BY <2>1, <2>2, <3>3, <4>1, <4>2
    <3> QED BY <3>4, <3>5
  <2> QED BY <2>3, <2>4
<1> QED BY <1>1, <1>2, QuietSteps DEF Stepping

-----------------------------------------------------------------------------
LEMMA IncWaits ==
  ASSUME ConsoleInv, NEW a, EdgeDone(a)
  PROVE  p'.inc => p'.char = 0
<1>0. ShapeInv /\ StartInv /\ ScrollInv BY DEF ConsoleInv
<1>1. CASE ~odd BY <1>0, <1>1 DEF EdgeDone, ScrollInv
<1>2. CASE odd
  <2>1. PixDoes(p, c, text, p') BY <1>2 DEF EdgeDone
  <2>2. SUFFICES ASSUME p'.inc PROVE p'.char = 0 OBVIOUS
  <2>3. /\ ~p.inc /\ Puts(p) /\ EndsLine(p) /\ NextLine(p.curLine) = p.startLine
    BY <2>1, <2>2 DEF PixDoes
  <2>4. Scrolls(S, p.char) BY <2>3 DEF Puts, EndsLine, Scrolls, S, Stored
  <2>5. scrolled BY <1>0, <2>4 DEF ScrollInv
  <2>6. p.initCnt = 0 BY <1>0, <2>5, NatConstants DEF StartInv, ShapeInv
  <2>7. c.char = 0 BY <1>0, <1>2, <2>4 DEF ScrollInv, Fresh, Holds
  <2>8. p.initCnt % 2 # 1 BY <2>6
  <2> QED BY <2>1, <2>3, <2>7, <2>8 DEF PixDoes
<1> QED BY <1>1, <1>2

(* A store that moves the cursor comes when no line has to scroll and the  *)
(* last character, if it still waits, will be put with the next edge.      *)
LEMMA StoreScrolls ==
  ASSUME ConsoleInv, KeepsDistances, NEW a, StoreStep(a), ~scrolled \/ MovesCursor(a)
  PROVE  ~p'.inc /\ ~Scrolls(S', p'.char)
<1>0. ShapeInv /\ AgeInv /\ ScrollInv /\ StartInv BY DEF ConsoleInv
<1>1. ~Holds BY StoreWaits
<1>2. /\ EdgeDone(a) /\ p.initCnt = 0 BY DEF StoreStep
<1>3. behind \in Nat /\ Odd \in 0 .. 1 BY <1>0, NatConstants DEF ShapeInv, Odd
<1>4. CASE p.char = 0 /\ (odd \/ ~p.inc)
  <2>1. p'.char = 0 /\ ~p'.inc
    <3>1. CASE odd
      <4>1. PixDoes(p, c, text, p') BY <1>2, <3>1 DEF EdgeDone
      <4>2. p.initCnt % 2 # 1 /\ ~Puts(p) BY <1>2, <1>4 DEF Puts
      <4> QED BY <1>1, <1>4, <4>1, <4>2 DEF PixDoes, Holds
    <3>2. CASE ~odd BY <1>2, <1>4, <3>2 DEF EdgeDone
    <3> QED BY <3>1, <3>2
  <2> QED BY <2>1 DEF Scrolls
<1>5. CASE ~scrolled
  <2>1. ~p.inc /\ ~Scrolls(S, p.char) BY <1>0, <1>5 DEF ScrollInv
  <2>2. Bare(S') = Bare(Stored(p', text', term.over)) BY BareStored DEF S
  <2>3. CASE ~odd
    <3>1. p' = p /\ text' = text BY <1>2, <2>3 DEF EdgeDone
    <3>2. Bare(S') = Bare(S) BY <2>2, <3>1 DEF S
    <3>3. ~Scrolls(S', p.char) BY <2>1, <3>2, BareType
    <3> QED BY <2>1, <3>1, <3>3
  <2>4. CASE odd
    <3>1. PixDoes(p, c, text, p') /\ text' = TextAfter(p, text) BY <1>2, <2>4 DEF EdgeDone
    <3>2. Fits(p, c, text, term.over) BY <2>4, RegisterFits DEF Fresh
    <3>3. ~Scrolls(Put1(Type(Stored(p, text, term.over), p.char), c), c.char)
      BY <1>1 DEF Holds, Scrolls
    <3>4. ~p'.inc /\ ~Scrolls(Stored(p', TextAfter(p, text), term.over), p'.char)
      BY <1>2, <2>1, <3>1, <3>2, <3>3, PixScrolls DEF S
    <3>5. Bare(S') = Bare(Stored(p', TextAfter(p, text), term.over)) BY <2>2, <3>1
    <3> QED BY <3>4, <3>5, BareType
  <2> QED BY <2>3, <2>4
<1>6. CASE scrolled
  <2>1. behind >= 7 /\ ~Reset BY <1>0, <1>6 DEF StoreStep, StartInv
  <2>2. Base = 2 BY <2>1 DEF Base
  <2>3. Ages(p, behind, 2, Odd) BY <1>0, <2>2 DEF AgeInv
  <2>4. p.char = 0
    <3> HIDE DEF Odd
    <3> QED BY <1>3, <2>1, <2>3 DEF Ages
  <2>5. ~odd => ~p.inc
    <3>1. SUFFICES ASSUME ~odd PROVE ~p.inc OBVIOUS
    <3>2. Odd = 0 BY <3>1 DEF Odd
    <3>3. ~p.rd
      <4> HIDE DEF Odd
      <4> QED BY <1>3, <2>1, <2>3, <3>2 DEF Ages
    <3> QED BY <2>3, <3>3 DEF Ages
  <2> QED BY <1>4, <2>4, <2>5
<1> QED BY <1>5, <1>6

LEMMA AgesOver ==
  ASSUME NEW q, NEW b \in Nat, NEW o \in 0 .. 1, b >= 4, Ages(q, b, 2, o)
  PROVE  q.char # 0 => ~Slot(q)
BY DEF Ages

LEMMA StoreSlot ==
  ASSUME ConsoleInv, KeepsDistances, NEW a, StoreStep(a)
  PROVE  p'.char # 0 => ~Slot(p')
<1>0. ShapeInv BY DEF ConsoleInv
<1>1. SUFFICES ASSUME p'.char # 0, Slot(p') PROVE FALSE OBVIOUS
<1>2. Ages(p', Later(behind), Base, Odd') BY AgesStep DEF StoreStep
<1>3. ~Reset
  <2>1. SUFFICES ASSUME Reset PROVE FALSE OBVIOUS
  <2>2. p.char = 0 BY <2>1, StoreAfterReset DEF ResetDone
  <2>3. ~Holds BY StoreWaits
  <2>4. CASE odd
    <3>1. PixDoes(p, c, text, p') /\ p.initCnt = 0 BY <2>4 DEF StoreStep, EdgeDone
    <3>2. p.initCnt % 2 # 1 BY <3>1
    <3> QED BY <1>1, <2>2, <2>3, <3>1, <3>2 DEF PixDoes, Holds
  <2>5. CASE ~odd BY <1>1, <2>2, <2>5 DEF StoreStep, EdgeDone
  <2> QED BY <2>4, <2>5
<1>4. Base = 2 BY <1>3 DEF Base
<1>5. Odd' \in 0 .. 1 BY DEF Odd
<1>6. Later(behind) >= 4 /\ Later(behind) \in Nat
  BY <1>0, NatConstants DEF StoreStep, Later, ShapeInv, KeepsDistances
<1> QED BY <1>1, <1>2, <1>4, <1>5, <1>6, AgesOver

LEMMA ScrollKept ==
  ASSUME ConsoleInv, KeepsDistances, Stepping
  PROVE  ScrollInv'
<1>0. ShapeInv /\ StartInv /\ ScrollInv /\ HoldsInv BY DEF ConsoleInv
<1>1. ASSUME NEW a, StoreStep(a) PROVE ScrollInv'
  <2>1. p'.inc => p'.char = 0 BY <1>1, IncWaits DEF StoreStep
  <2>2. p'.char # 0 => ~Slot(p') BY <1>1, StoreSlot
  <2>3. /\ c'.char # 0 <=> IsCharacter(a)
        /\ Holds' => MovesCursor(a)
        /\ a.cmd \in {"char", "at"} =>
             Put1(View(term), c') = View(Positioned(term, a)) /\ c'.char = a.char
    BY <1>1, StoreTold
  <2>4. ~scrolled \/ MovesCursor(a) => ~p'.inc /\ ~Scrolls(S', p'.char)
    BY <1>1, StoreScrolls
  <2>5. Holds' => ~p'.inc /\ ~Scrolls(S', p'.char) BY <2>3, <2>4
  <2>6. ASSUME ~scrolled'
        PROVE  /\ ~p'.inc /\ ~Scrolls(S', p'.char)
               /\ ~Scrolls(Put1(Waiting', c'), c'.char)
    <3>1. CASE IsCharacter(a)
      <4>1. /\ ~Scrolls(Positioned(term, a), a.char) /\ MovesCursor(a)
            /\ a.cmd \in {"char", "at"}
        BY <1>1, <2>6, <3>1 DEF StoreStep, MovesCursor, IsCharacter
      <4>2. Bare(Waiting') = Bare(View(term)) BY <1>1, StoreFinds
      <4>3. Bare(Put1(Waiting', c')) = Bare(View(Positioned(term, a)))
        BY <2>3, <4>1, <4>2, BarePut
      <4>4. Bare(Put1(Waiting', c')) = Bare(Positioned(term, a)) BY <4>3, BareView
      <4>5. ~Scrolls(Put1(Waiting', c'), a.char) BY <4>1, <4>4, BareType
      <4> QED BY <2>3, <2>4, <4>1, <4>5
    <3>2. CASE ~IsCharacter(a)
      <4>1. ~scrolled BY <1>1, <2>6, <3>2 DEF StoreStep
      <4>2. c'.char = 0 BY <2>3, <3>2
      <4>3. ~Scrolls(Put1(Waiting', c'), c'.char) BY <4>2 DEF Scrolls
      <4> QED BY <2>4, <4>1, <4>3
    <3> QED BY <3>1, <3>2
  <2> QED BY <2>1, <2>2, <2>5, <2>6 DEF ScrollInv
<1>2. ASSUME Quiet, NEW a, EdgeDone(a) PROVE ScrollInv'
  <2>1. p'.inc => p'.char = 0 BY <1>2, IncWaits
  <2>2. term' = term /\ scrolled' = scrolled /\ ~c'.keep /\ odd' = ~odd BY <1>2 DEF Quiet
  <2>3. CASE ~odd
    <3>1. p' = p /\ text' = text BY <1>2, <2>3 DEF Quiet
    <3>2. S' = S /\ Waiting' = Waiting BY <2>2, <3>1 DEF S, Waiting
    <3>3. Holds' => /\ Holds /\ Fresh /\ c'.char = c.char
                    /\ Put1(Waiting, c') = Put1(Waiting, c)
      BY <1>2 DEF Quiet, Holds, Fresh, Put1
    <3>4. ~Holds' => ~Scrolls(Put1(Waiting, c'), c'.char) BY DEF Holds, Scrolls
    <3>5. Holds' => ~p'.inc /\ ~Scrolls(S', p'.char) /\ (p'.char # 0 => ~Slot(p'))
      BY <1>0, <3>1, <3>2, <3>3 DEF ScrollInv
    <3>6. ~scrolled' => /\ ~p'.inc /\ ~Scrolls(S', p'.char)
                        /\ ~Scrolls(Put1(Waiting', c'), c'.char)
      BY <1>0, <2>2, <3>1, <3>2, <3>3, <3>4 DEF ScrollInv
    <3> QED BY <2>1, <3>5, <3>6 DEF ScrollInv
  <2>4. CASE odd
    <3>1. ~Fresh' BY <2>2, <2>4 DEF Fresh
    <3>2. ASSUME ~scrolled' PROVE ~p'.inc /\ ~Scrolls(S', p'.char)
      <4>1. CASE Reset
        <5>1. Reset' BY <1>2, <4>1 DEF Quiet
        <5>2. MessageInv' /\ ShapeInv' BY MessageKept, ShapeKept
        <5>3. /\ ~p'.inc /\ Bare(S') = Bare(Greeted[PutChars'])
              /\ p'.char # 0 => TakenChars' > 0
          BY <5>1, <5>2 DEF MessageInv
        <5>4. TakenChars' \in 0 .. Len(InitMsg)
          <6>1. p'.initCnt \in 0 .. 2 * Len(InitMsg) BY <5>2 DEF ShapeInv
          <6> QED BY <6>1, NatConstants DEF TakenChars
        <5>5. /\ PutChars' \in 0 .. Len(InitMsg)
              /\ p'.char # 0 => PutChars' < Len(InitMsg)
          <6>1. PutChars' = (IF p'.char = 0 THEN TakenChars' ELSE TakenChars' - 1)
            BY DEF PutChars
          <6>2. PICK t : t = TakenChars' BY Zenon
          <6>3. t \in 0 .. Len(InitMsg) /\ (p'.char # 0 => t > 0) BY <5>3, <5>4, <6>2, Zenon
          <6>4. PutChars' = (IF p'.char = 0 THEN t ELSE t - 1) BY <6>1, <6>2, Zenon
          <6>5. /\ (IF p'.char = 0 THEN t ELSE t - 1) \in 0 .. Len(InitMsg)
                /\ p'.char # 0 => (IF p'.char = 0 THEN t ELSE t - 1) < Len(InitMsg)
            BY <6>3, NatConstants
          <6> QED BY <6>4, <6>5, Zenon
        <5> QED BY <5>3, <5>5, GreetedStill
      <4>2. CASE ~Reset
        <5>1. p.initCnt = 0 BY <1>0, <4>2, NatConstants DEF StartInv, ShapeInv
        <5>2. PixDoes(p, c, text, p') /\ text' = TextAfter(p, text)
          BY <1>2, <2>4 DEF Quiet
        <5>3. Fits(p, c, text, term.over) /\ Fresh BY <2>4, RegisterFits DEF Fresh
        <5>4. ~p.inc /\ ~Scrolls(S, p.char) /\ ~Scrolls(Put1(Waiting, c), c.char)
          BY <1>0, <2>2, <3>2, <5>3 DEF ScrollInv
        <5>5. ~p'.inc /\ ~Scrolls(Stored(p', TextAfter(p, text), term.over), p'.char)
          BY <5>1, <5>2, <5>3, <5>4, PixScrolls DEF S, Waiting
        <5> QED BY <2>2, <5>2, <5>5 DEF S
      <4> QED BY <4>1, <4>2
    <3> QED BY <2>1, <3>1, <3>2 DEF ScrollInv
  <2> QED BY <2>3, <2>4
<1> QED BY <1>1, <1>2, QuietSteps DEF Stepping, ReadStep, WaitStep

-----------------------------------------------------------------------------
(* A step that does not write the font.                                    *)
FontQuiet ==
  /\ c'.fontWe <=> c.fontWe /\ ~p.release
  /\ c'.fontAddr = c.fontAddr /\ c'.fontData = c.fontData /\ term'.font = term.font
  /\ FontAge' \in Nat /\ FontAge' <= FontAge + 1
  /\ Reset' => Reset
  /\ Reset /\ since <= 0 => Reset' /\ since' <= 1

LEMMA FontAges ==
  ASSUME ConsoleInv
  PROVE  FontAge \in Nat /\ since \in Nat /\ Odd \in 0 .. 1
BY NatConstants DEF ConsoleInv, ShapeInv, FontAge, Odd

LEMMA FontQuietSteps ==
  ASSUME ConsoleInv, KeepsDistances, Stepping
  PROVE  \/ FontQuiet /\ \E a : EdgeDone(a)
         \/ \E a : StoreStep(a) /\ a.cmd = "font"
<1>0. ShapeInv /\ ProgramInv /\ AnswerInv BY DEF ConsoleInv
<1>1. since \in Nat /\ FontAge \in Nat BY FontAges
<1>2. ASSUME NEW a, StoreStep(a), a.cmd # "font" PROVE FontQuiet
  <2>1. FontWriteDoes(c, p, a, c') BY <1>2 DEF StoreStep, EdgeDone, CoreDoes
  <2>2. term'.font = term.font BY <1>2, StoreTold
  <2>3. last' \in {"at", "other"} /\ since' = 0 BY <1>2 DEF StoreStep, Kind
  <2>4. FontAge' = 4 BY <2>3 DEF FontAge
  <2>5. FontAge >= 3 BY <1>1, <1>2 DEF StoreStep, FontAge
  <2>6. Reset => since >= 9
    <3>1. Reset => since >= 13 BY <1>2 DEF StoreStep
    <3> QED BY <1>1, <3>1
  <2> HIDE DEF FontAge
  <2> QED BY <1>1, <1>2, <2>1, <2>2, <2>3, <2>4, <2>5, <2>6 DEF FontWriteDoes, FontQuiet, Reset
<1>3. ASSUME NEW a, ReadStep(a) PROVE FontQuiet
  <2>1. FontWriteDoes(c, p, a, c') /\ a.cmd # "font"
    BY <1>3 DEF ReadStep, EdgeDone, CoreDoes
  <2>2. FontAge' = 4 /\ FontAge >= 4 BY <1>1, <1>3 DEF ReadStep, FontAge
  <2>3. term' = term /\ ~Reset /\ ~Reset' BY <1>3 DEF ReadStep, Reset
  <2> HIDE DEF FontAge
  <2> QED BY <1>1, <2>1, <2>2, <2>3 DEF FontWriteDoes, FontQuiet
<1>4. ASSUME WaitStep PROVE FontQuiet
  <2>1. FontWriteDoes(c, p, Idle, c') /\ Idle.cmd # "font"
    BY <1>4 DEF WaitStep, EdgeDone, CoreDoes, Idle
  <2>2. CASE reading /\ c.en
    <3>1. last = "other" /\ since >= 1 BY <1>0, <2>2 DEF ProgramInv, AnswerInv
    <3>2. last' = "answer" /\ since' = 0 /\ term' = term BY <1>4, <2>2 DEF WaitStep
    <3>3. FontAge' = 6 BY <3>2 DEF FontAge
    <3>4. FontAge >= 5 BY <1>1, <3>1 DEF FontAge
    <3> HIDE DEF FontAge
    <3> QED BY <1>1, <2>1, <3>1, <3>2, <3>3, <3>4 DEF FontWriteDoes, FontQuiet, Reset
  <2>3. CASE ~(reading /\ c.en)
    <3>1. last' = last /\ since' = Later(since) /\ term' = term BY <1>4, <2>3 DEF WaitStep
    <3>2. since' \in Nat /\ since' <= since + 1 BY <1>1, <3>1 DEF Later
    <3>3. FontAge' \in Nat /\ FontAge' <= FontAge + 1 BY <1>1, <3>1, <3>2 DEF FontAge
    <3>4. Reset' <=> Reset BY <3>1 DEF Reset
    <3>5. since <= 0 => since' <= 1 BY <1>1, <3>2
    <3> HIDE DEF FontAge
    <3> QED BY <2>1, <3>1, <3>3, <3>4, <3>5 DEF FontWriteDoes, FontQuiet
  <2> QED BY <2>2, <2>3
<1> QED BY <1>2, <1>3, <1>4 DEF Stepping, StoreStep, ReadStep, WaitStep

(* The font is going to be the terminal's.                                 *)
LEMMA WrittenTwice ==
  ASSUME NEW f, NEW x, NEW y
  PROVE  [[f EXCEPT ![x] = y] EXCEPT ![x] = y] = [f EXCEPT ![x] = y]
OBVIOUS

LEMMA FontQuietKept ==
  ASSUME ConsoleInv, FontQuiet, NEW a, EdgeDone(a)
  PROVE  FontInv'
<1>0. ShapeInv /\ FontInv BY DEF ConsoleInv
<1>1. since \in Nat /\ FontAge \in Nat /\ Odd \in 0 .. 1 BY FontAges
<1>2. c'.fontWe => ~Reset' BY <1>0 DEF FontInv, FontQuiet
<1>3. CASE odd
  <2>1. /\ PixDoes(p, c, text, p') /\ font' = FontAfter(p, c, font) /\ ~odd'
    BY <1>3 DEF EdgeDone
  <2>2. Odd = 1 /\ Odd' = 0 BY <1>3, <2>1 DEF Odd
  <2>3. /\ p'.release <=> TakesFont(p, c)
        /\ p'.fontWen <=> TakesFont(p, c)
        /\ TakesFont(p, c) => p'.fontAddr = c.fontAddr
        /\ p.pipe = 2 => p'.pipe # 2
    BY <2>1 DEF PixDoes
  <2>4. c'.fontWe <=> c.fontWe BY <1>0, <1>3 DEF FontInv, FontQuiet
  <2>5. c.fontWe => ~p.release /\ ~p.fontWen BY <1>0, <1>3 DEF FontInv
  <2>6. c.fontWe => FontAge <= 1 + (IF p.pipe = 2 THEN 0 ELSE 2)
    BY <1>0, <2>2, <2>5 DEF FontInv
  <2>7. FontComing' = FontComing
    <3>1. CASE c.fontWe
      <4> DEFINE g == [font EXCEPT ![c.fontAddr] = c.fontData]
      <4>1. font' = font BY <2>1, <2>5, <3>1 DEF FontAfter
      <4>2. FontComing = g BY <2>5, <3>1 DEF FontComing, FontAfter
      <4>3. FontAfter(p', c', font') \in {font, g}
        BY <2>3, <4>1 DEF FontAfter, FontQuiet
      <4>4. FontComing' = [FontAfter(p', c', font') EXCEPT ![c.fontAddr] = c.fontData]
        BY <2>4, <3>1 DEF FontComing, FontQuiet
      <4>5. [g EXCEPT ![c.fontAddr] = c.fontData] = g BY WrittenTwice
      <4> HIDE DEF FontComing
      <4> QED BY <4>2, <4>3, <4>4, <4>5
    <3>2. CASE ~c.fontWe
      <4>1. FontComing = font' BY <2>1, <3>2 DEF FontComing
      <4>2. ~p'.fontWen BY <2>3, <3>2 DEF TakesFont
      <4>3. FontComing' = font' BY <2>4, <3>2, <4>2 DEF FontComing, FontAfter
      <4> QED BY <4>1, <4>3
    <3> QED BY <3>1, <3>2
  <2>8. p'.release => p'.fontWen /\ p'.fontAddr = c'.fontAddr /\ FontAge' <= 4 + Odd'
    <3>1. SUFFICES ASSUME p'.release
                   PROVE  p'.fontWen /\ p'.fontAddr = c'.fontAddr /\ FontAge' <= 4 + Odd'
      OBVIOUS
    <3>2. c.fontWe /\ TakesFont(p, c) BY <2>3, <3>1 DEF TakesFont
    <3>3. FontAge' <= 4
      <4>1. FontAge <= 3 BY <1>1, <2>6, <3>2
      <4>2. FontAge' \in Nat /\ FontAge' <= FontAge + 1 BY DEF FontQuiet
      <4> HIDE DEF FontAge
      <4> QED BY <1>1, <4>1, <4>2
    <3> QED BY <2>2, <2>3, <3>2, <3>3 DEF FontQuiet
  <2>9. c'.fontWe /\ ~p'.release => FontAge' <= Odd' + (IF p'.pipe = 2 THEN 0 ELSE 2)
    <3>1. SUFFICES ASSUME c'.fontWe, ~p'.release
                   PROVE  FontAge' <= Odd' + (IF p'.pipe = 2 THEN 0 ELSE 2)
      OBVIOUS
    <3>2. p.pipe = 2 /\ c.fontWe BY <2>3, <2>4, <3>1 DEF TakesFont
    <3>3. FontAge <= 1 /\ p'.pipe # 2 BY <2>3, <2>6, <3>2
    <3>4. FontAge' \in Nat /\ FontAge' <= FontAge + 1 BY DEF FontQuiet
    <3> HIDE DEF FontAge
    <3>5. FontAge' <= 2 BY <1>1, <3>3, <3>4
    <3>6. Odd' + (IF p'.pipe = 2 THEN 0 ELSE 2) = 2 BY <2>2, <3>3
    <3> QED BY <3>5, <3>6
  <2>10. term'.font = term.font BY DEF FontQuiet
  <2>11. FontComing' = term'.font BY <1>0, <2>7, <2>10 DEF FontInv
  <2> HIDE DEF FontAge, FontComing
  <2> QED BY <1>2, <2>1, <2>3, <2>8, <2>9, <2>11 DEF FontInv
<1>4. CASE ~odd
  <2>1. p' = p /\ font' = font /\ odd' BY <1>4 DEF EdgeDone
  <2>2. Odd = 0 /\ Odd' = 1 BY <1>4, <2>1 DEF Odd
  <2>3. FontComing' = FontComing
    <3>1. CASE p.release
      <4> DEFINE g == [font EXCEPT ![c.fontAddr] = c.fontData]
      <4>1. p.fontWen /\ p.fontAddr = c.fontAddr BY <1>0, <3>1 DEF FontInv
      <4>2. FontComing' = g BY <2>1, <3>1, <4>1 DEF FontComing, FontAfter, FontQuiet
      <4>3. FontComing = (IF c.fontWe THEN [g EXCEPT ![c.fontAddr] = c.fontData] ELSE g)
        BY <4>1 DEF FontComing, FontAfter
      <4>4. [g EXCEPT ![c.fontAddr] = c.fontData] = g BY WrittenTwice
      <4> HIDE DEF FontComing, g
      <4> QED BY <4>2, <4>3, <4>4
    <3>2. CASE ~p.release
      <4>1. c'.fontWe <=> c.fontWe BY <3>2 DEF FontQuiet
      <4>2. FontAfter(p', c', font') = FontAfter(p, c, font)
        BY <2>1 DEF FontAfter, FontQuiet
      <4> QED BY <4>1, <4>2 DEF FontComing, FontQuiet
    <3> QED BY <3>1, <3>2
  <2>4. FontComing' = term'.font BY <1>0, <2>3 DEF FontInv, FontQuiet
  <2>5. FontAge' \in Nat /\ FontAge' <= FontAge + 1 BY DEF FontQuiet
  <2>6. p'.release => p'.fontWen /\ p'.fontAddr = c'.fontAddr /\ FontAge' <= 4 + Odd'
    <3>1. p.release => p.fontWen /\ p.fontAddr = c.fontAddr /\ FontAge <= 4
      BY <1>0, <2>2 DEF FontInv
    <3> HIDE DEF FontAge
    <3>2. FontAge <= 4 => FontAge' <= 4 + 1 BY <1>1, <2>5
    <3>3. 4 + Odd' = 4 + 1 BY <2>2
    <3>4. c'.fontAddr = c.fontAddr BY DEF FontQuiet
    <3> QED BY <2>1, <3>1, <3>2, <3>3, <3>4
  <2>7. p'.release => ~c'.fontWe BY <2>1 DEF FontQuiet
  <2>8. c'.fontWe /\ ~p'.release => FontAge' <= Odd' + (IF p'.pipe = 2 THEN 0 ELSE 2)
    <3>1. c.fontWe /\ ~p.release => FontAge <= (IF p.pipe = 2 THEN 0 ELSE 2)
      BY <1>0, <2>2 DEF FontInv
    <3> HIDE DEF FontAge
    <3>2. c'.fontWe /\ ~p'.release => FontAge <= (IF p'.pipe = 2 THEN 0 ELSE 2)
      BY <2>1, <3>1 DEF FontQuiet
    <3>3. FontAge <= (IF p'.pipe = 2 THEN 0 ELSE 2) =>
            FontAge' <= 1 + (IF p'.pipe = 2 THEN 0 ELSE 2)
      BY <1>1, <2>5
    <3> QED BY <2>2, <3>2, <3>3
  <2>9. p'.fontWen => p'.release \/ (Reset' /\ since' <= Odd')
    BY <1>0, <2>1, <2>2 DEF FontInv, FontQuiet
  <2> HIDE DEF FontAge, FontComing
  <2> QED BY <1>2, <2>4, <2>6, <2>7, <2>8, <2>9 DEF FontInv
<1> QED BY <1>3, <1>4

LEMMA FontStoreKept ==
  ASSUME ConsoleInv, NEW a, StoreStep(a), a.cmd = "font"
  PROVE  FontInv'
<1>0. ShapeInv /\ FontInv BY DEF ConsoleInv
<1>1. since \in Nat /\ FontAge \in Nat /\ Odd \in 0 .. 1 BY FontAges
<1>2. FontAge >= 5 /\ (Reset => since >= 13) BY DEF StoreStep
<1>3. /\ EdgeDone(a) /\ FontWriteDoes(c, p, a, c') /\ last' = "font" /\ since' = 0
  <2>1. EdgeDone(a) /\ last' = Kind(a) /\ since' = 0 BY DEF StoreStep
  <2>2. FontWriteDoes(c, p, a, c') BY <2>1 DEF EdgeDone, CoreDoes
  <2>3. Kind(a) = "font" BY DEF Kind, Asks
  <2> QED BY <2>1, <2>2, <2>3, Zenon
<1>4. FontAge' = 0 /\ ~Reset' BY <1>3 DEF FontAge, Reset
<1>5. c'.fontWe /\ c'.fontAddr = a.glyph /\ c'.fontData = a.data BY <1>3 DEF FontWriteDoes
<1>6. term'.font = [term.font EXCEPT ![a.glyph] = a.data] BY StoreTold
<1>7. ~c.fontWe
  <2>1. SUFFICES ASSUME c.fontWe PROVE FALSE OBVIOUS
  <2>2. p.release => odd
    <3>1. SUFFICES ASSUME p.release, ~odd PROVE FALSE OBVIOUS
    <3>2. Odd = 0 BY <3>1 DEF Odd
    <3>3. FontAge <= 4 BY <1>0, <3>1, <3>2 DEF FontInv
    <3> QED BY <1>1, <1>2, <3>3
  <2>3. ~p.release BY <1>0, <2>1, <2>2 DEF FontInv
  <2>4. FontAge <= Odd + (IF p.pipe = 2 THEN 0 ELSE 2) BY <1>0, <2>1, <2>3 DEF FontInv
  <2> HIDE DEF FontAge
  <2> QED BY <1>1, <1>2, <2>4
<1>8. FontComing = FontAfter(p, c, font) BY <1>7 DEF FontComing
<1>9. ~p'.fontWen /\ ~p'.release /\ font' = FontComing
  <2>1. CASE odd
    <3>1. PixDoes(p, c, text, p') /\ font' = FontAfter(p, c, font) BY <1>3, <2>1 DEF EdgeDone
    <3> QED BY <1>7, <1>8, <3>1 DEF PixDoes, TakesFont
  <2>2. CASE ~odd
    <3>1. p' = p /\ font' = font BY <1>3, <2>2 DEF EdgeDone
    <3>2. Odd = 0 BY <2>2 DEF Odd
    <3>3. ~p.release
      <4>1. p.release => FontAge <= 4 BY <1>0, <3>2 DEF FontInv
      <4> QED BY <1>1, <1>2, <4>1
    <3>4. ~p.fontWen
      <4>1. p.fontWen => Reset /\ since <= 0 BY <1>0, <3>2, <3>3 DEF FontInv
      <4> QED BY <1>1, <1>2, <4>1
    <3> QED BY <1>8, <3>1, <3>3, <3>4 DEF FontAfter
  <2> QED BY <2>1, <2>2
<1>10. FontComing' = term'.font
  <2>1. FontComing' = [font' EXCEPT ![a.glyph] = a.data]
    BY <1>5, <1>9 DEF FontComing, FontAfter
  <2> QED BY <1>0, <1>6, <1>9, <2>1 DEF FontInv
<1>11. Odd' \in 0 .. 1 BY DEF Odd
<1>12. 0 <= Odd' + (IF p'.pipe = 2 THEN 0 ELSE 2) BY DEF Odd
<1> HIDE DEF FontAge, FontComing
<1> QED BY <1>4, <1>9, <1>10, <1>12 DEF FontInv

LEMMA FontKept ==
  ASSUME ConsoleInv, KeepsDistances, Stepping
  PROVE  FontInv'
BY FontQuietSteps, FontQuietKept, FontStoreKept, Zenon

-----------------------------------------------------------------------------
(* A read waits for one answer.                                            *)
LEMMA AnswerKept ==
  ASSUME ConsoleInv, KeepsDistances, Stepping
  PROVE  AnswerInv'
<1>0. ShapeInv /\ ProgramInv /\ AgeInv /\ AnswerInv /\ ReadInv BY DEF ConsoleInv
<1>1. since \in Nat /\ behind \in Nat /\ Settle \in Nat /\ since <= behind
  BY <1>0, NatConstants DEF ShapeInv
<1>2. ASSUME NEW a, StoreStep(a) PROVE AnswerInv'
  <2>1. AnswerDoes(c, p, a, c') /\ a.cmd # "read" /\ ~reading /\ ~reading'
    BY <1>2 DEF StoreStep, EdgeDone, CoreDoes, Stores
  <2>2. ~c.waits /\ ~c.en /\ ~c.done BY <1>0, <2>1 DEF AnswerInv
  <2>3. ~c'.waits /\ ~c'.en /\ ~c'.done BY <2>1, <2>2 DEF AnswerDoes, Answers
  <2> QED BY <2>1, <2>3 DEF AnswerInv
<1>3. ASSUME NEW a, ReadStep(a) PROVE AnswerInv'
  <2>1. AnswerDoes(c, p, a, c') /\ a.cmd = "read" /\ ~reading /\ reading' /\ since' = 0
    BY <1>3 DEF ReadStep, EdgeDone, CoreDoes
  <2>2. ~c.waits /\ ~c.en /\ ~c.done BY <1>0, <2>1 DEF AnswerInv
  <2>3. c'.waits /\ ~c'.en /\ ~c'.done BY <2>1, <2>2 DEF AnswerDoes, Answers
  <2> QED BY <2>1, <2>3 DEF AnswerInv
<1>4. ASSUME WaitStep PROVE AnswerInv'
  <2>1. /\ AnswerDoes(c, p, Idle, c') /\ EdgeDone(Idle)
        /\ Idle.cmd = "none" /\ ~Asks(Idle)
    BY <1>4 DEF WaitStep, EdgeDone, CoreDoes, Idle, Asks
  <2>2. reading' <=> reading /\ ~c.en BY <1>4 DEF WaitStep
  <2>3. CASE ~reading \/ c.en
    <3>1. ~c.waits BY <1>0, <2>3 DEF AnswerInv
    <3>2. ~c'.waits /\ ~c'.en /\ ~c'.done BY <2>1, <3>1 DEF AnswerDoes, Answers
    <3> QED BY <2>2, <2>3, <3>2 DEF AnswerInv
  <2>4. CASE reading /\ ~c.en /\ c.ok
    <3>1. c.waits /\ ~c.done BY <1>0, <2>4 DEF AnswerInv
    <3>2. /\ ~c'.waits /\ c'.en /\ c'.done /\ c'.ok /\ c'.data = p.charRd
      BY <2>1, <2>4, <3>1 DEF AnswerDoes, Answers
    <3>3. OnItsWay BY <1>0, <2>4 DEF ReadInv, Asked
    <3>4. p.charRd = term.over /\ ~p.rdp /\ (p.rdpp => odd) BY <2>4, <3>3 DEF OnItsWay
    <3>5. ~p'.rdpp
      <4>1. CASE odd BY <2>1, <3>4, <4>1 DEF EdgeDone, PixDoes
      <4>2. CASE ~odd BY <2>1, <3>4, <4>2 DEF EdgeDone
      <4> QED BY <4>1, <4>2
    <3>6. since' >= 1 /\ term' = term
      <4>1. since' = Later(since) /\ term' = term BY <1>4, <2>4 DEF WaitStep
      <4> QED BY <1>1, <4>1 DEF Later, KeepsDistances
    <3>7. reading' BY <2>2, <2>4
    <3> QED BY <3>2, <3>4, <3>5, <3>6, <3>7 DEF AnswerInv
  <2>5. CASE reading /\ ~c.en /\ ~c.ok
    <3>1. c.waits /\ ~c.done BY <1>0, <2>5 DEF AnswerInv
    <3>2. /\ c'.waits /\ ~c'.en /\ ~c'.done /\ (c'.ok <=> p.rdpp)
      BY <2>1, <2>5, <3>1 DEF AnswerDoes, Answers
    <3>3. p.rdpp => behind' <= 12 + Odd'
      <4>1. SUFFICES ASSUME p.rdpp PROVE behind' <= 12 + Odd' OBVIOUS
      <4>2. Base = 2 BY <1>0, <2>5 DEF ProgramInv, Base, Reset
      <4>3. behind <= 10 + Odd
        <5> HIDE DEF Odd
        <5>1. Odd \in 0 .. 1 BY DEF Odd
        <5> QED BY <1>0, <1>1, <4>1, <4>2, <5>1 DEF AgeInv, Ages
      <4>4. behind' = Later(behind) BY <1>4, <2>5 DEF WaitStep
      <4>5. behind' <= 12 /\ behind' \in Nat BY <1>1, <4>3, <4>4 DEF Later, Odd
      <4> QED BY <4>5 DEF Odd
    <3>4. reading' BY <2>2, <2>5
    <3> HIDE DEF Odd
    <3> QED BY <3>2, <3>3, <3>4 DEF AnswerInv
  <2> QED BY <2>3, <2>4, <2>5
<1> QED BY <1>2, <1>3, <1>4 DEF Stepping

-----------------------------------------------------------------------------
(* The character asked for stays on its way.                               *)
LEMMA OnItsWayStays ==
  ASSUME ConsoleInv, OnItsWay, Quiet, ~odd, c'.ok <=> c.ok \/ p.rdpp
  PROVE  OnItsWay'
<1>1. p' = p /\ text' = text /\ odd' /\ term' = term BY DEF Quiet
<1>2. HoldsChar' <=> HoldsChar BY <1>1 DEF Quiet, HoldsChar, Holds, Fresh
<1> HIDE DEF HoldsChar
<1> QED BY <1>1, <1>2 DEF OnItsWay

LEMMA OnItsWayMoves ==
  ASSUME ConsoleInv, OnItsWay, Quiet, odd, ~Reset, c'.ok <=> c.ok \/ p.rdpp
  PROVE  OnItsWay'
<1>0. ShapeInv /\ StartInv /\ TextInv BY DEF ConsoleInv
<1>1. /\ PixDoes(p, c, text, p') /\ text' = TextAfter(p, text) /\ term' = term
      /\ ~odd' /\ ~c'.keep
  BY DEF Quiet
<1>2. ~HoldsChar' BY <1>1 DEF HoldsChar, Fresh
<1>3. HoldsChar <=> c.char # 0 BY DEF HoldsChar, Fresh
<1>4. p.initCnt % 2 # 1
  <2>1. p.initCnt = 0 BY <1>0, NatConstants DEF ShapeInv, StartInv
  <2> QED BY <2>1
<1>5. /\ p'.rd <=> Puts(p)
      /\ p'.rdp = p.rd /\ p'.rdpp = p.rdp
      /\ p'.char = (IF c.char # 0 THEN c.char ELSE IF Puts(p) THEN 0 ELSE p.char)
      /\ p'.bufChar = text[p.addr]
      /\ p'.charRd = (IF p.rdp THEN p.bufChar ELSE p.charRd)
      /\ Puts(p) => p.char # 0 /\ p'.addr = Cell(p.curLine, p.curCol)
  BY <1>1, <1>4 DEF PixDoes, Puts
<1>6. Puts(p) => text'[p'.addr] = term.over
  <2>1. SUFFICES ASSUME Puts(p) PROVE text'[p'.addr] = term.over OBVIOUS
  <2>2. p.char # 0 /\ c.char = 0 BY <1>3, <1>5, <2>1 DEF OnItsWay
  <2>3. Coming = View(term) /\ Fresh BY <1>0 DEF TextInv, Fresh
  <2>4. Coming.over = Waiting.over BY <2>2, <2>3 DEF Coming, Seen, Home, Put1, Place, Type
  <2>5. Waiting.over = S.text[Cell(S.line, S.col)] BY <2>2 DEF Waiting, Type
  <2>6. S.text = text' /\ S.line = p.curLine /\ S.col = p.curCol BY <1>1 DEF S, Stored
  <2>7. Coming.over = term.over BY <2>3 DEF View
  <2> QED BY <1>5, <2>1, <2>4, <2>5, <2>6, <2>7
<1>7. CASE HoldsChar \/ p.char # 0
  <2>1. ~c.ok /\ ~p.rd /\ ~p.rdp /\ ~p.rdpp /\ (HoldsChar => p.char = 0)
    BY <1>7 DEF OnItsWay
  <2>2. ~c'.ok /\ ~p'.rdp /\ ~p'.rdpp /\ (p'.rd <=> Puts(p))
    BY <1>5, <2>1
  <2>3. p'.rd \/ p'.char # 0 BY <1>3, <1>5, <1>7
  <2>4. p'.char # 0 => ~p'.rd BY <1>3, <1>5, <2>1
  <2> HIDE DEF HoldsChar
  <2> QED BY <1>1, <1>2, <1>6, <2>2, <2>3, <2>4 DEF OnItsWay
<1>8. CASE ~HoldsChar /\ p.char = 0
  <2>1. p'.char = 0 /\ ~p'.rd BY <1>3, <1>5, <1>8
  <2>2. CASE p.rd
    <3>1. ~c.ok /\ ~p.rdp /\ ~p.rdpp /\ text[p.addr] = term.over
      BY <2>2 DEF OnItsWay
    <3>2. ~c'.ok /\ p'.rdp /\ ~p'.rdpp /\ p'.bufChar = term.over BY <1>5, <2>2, <3>1
    <3> HIDE DEF HoldsChar
    <3> QED BY <1>1, <1>2, <2>1, <3>2 DEF OnItsWay
  <2>3. CASE p.rdp
    <3>1. ~c.ok /\ ~p.rd /\ ~p.rdpp /\ p.bufChar = term.over
      BY <2>3 DEF OnItsWay
    <3>2. ~c'.ok /\ ~p'.rdp /\ p'.rdpp /\ p'.charRd = term.over BY <1>5, <2>3, <3>1
    <3> HIDE DEF HoldsChar
    <3> QED BY <1>1, <1>2, <2>1, <3>2 DEF OnItsWay
  <2>4. CASE p.rdpp \/ c.ok
    <3>1. ~p.rd /\ ~p.rdp /\ p.charRd = term.over
      BY <2>4 DEF OnItsWay
    <3>2. c'.ok /\ ~p'.rdp /\ ~p'.rdpp /\ p'.charRd = term.over BY <1>5, <2>4, <3>1
    <3> HIDE DEF HoldsChar
    <3> QED BY <1>1, <1>2, <2>1, <3>2 DEF OnItsWay
  <2> QED BY <1>8, <2>2, <2>3, <2>4 DEF OnItsWay
<1> QED BY <1>7, <1>8

(* A request finds nothing on its way.                                     *)
LEMMA AsksFindsNothing ==
  ASSUME ConsoleInv, NEW a, StoreStep(a), Asks(a)
  PROVE  p'.char = 0 /\ ~p'.rd /\ ~p'.rdp /\ ~p'.rdpp
<1>0. ShapeInv /\ StartInv /\ AgeInv BY DEF ConsoleInv
<1>1. ~Holds BY StoreWaits
<1>2. behind \in Nat /\ Len(InitMsg) \in Nat /\ Odd \in 0 .. 1
  BY <1>0, NatConstants DEF ShapeInv, Odd
<1>3. behind >= Base + 9 /\ Base \in Nat
  BY <1>0, <1>2 DEF StoreStep, Base, StartInv
<1>4. Ages(p, behind, Base, Odd) BY <1>0 DEF AgeInv
<1>5. p.char = 0 /\ ~p.rd /\ ~p.rdp /\ (p.rdpp => Odd = 1)
  <2> HIDE DEF Odd, Base
  <2> QED BY <1>2, <1>3, <1>4 DEF Ages
<1>6. EdgeDone(a) /\ p.initCnt = 0 BY DEF StoreStep
<1>7. CASE odd
  <2>1. PixDoes(p, c, text, p') BY <1>6, <1>7 DEF EdgeDone
  <2>2. p.initCnt % 2 # 1 /\ ~Puts(p) /\ c.char = 0 BY <1>1, <1>5, <1>6 DEF Puts, Holds
  <2> QED BY <1>5, <2>1, <2>2 DEF PixDoes
<1>8. CASE ~odd
  <2>1. p' = p BY <1>6, <1>8 DEF EdgeDone
  <2>2. Odd = 0 BY <1>8 DEF Odd
  <2> QED BY <1>5, <2>1, <2>2
<1> QED BY <1>7, <1>8

LEMMA ReadKept ==
  ASSUME ConsoleInv, Stepping
  PROVE  ReadInv'
<1>0. ShapeInv /\ ProgramInv /\ ReadInv BY DEF ConsoleInv
<1>1. SUFFICES ASSUME Asked' PROVE OnItsWay' BY DEF ReadInv
<1>2. ASSUME NEW a, StoreStep(a) PROVE OnItsWay'
  <2>1. Asks(a) BY <1>1, <1>2 DEF Asked, StoreStep, Kind
  <2>2. AnswerDoes(c, p, a, c') BY <1>2 DEF StoreStep, EdgeDone, CoreDoes
  <2>3. ~c'.ok BY <2>1, <2>2 DEF AnswerDoes
  <2>4. IsCharacter(a) BY <2>1 DEF Asks, IsCharacter
  <2>5. HoldsChar' BY <1>2, <2>4, StoreTold DEF HoldsChar, Fresh
  <2>6. p'.char = 0 /\ ~p'.rd /\ ~p'.rdp /\ ~p'.rdpp BY <1>2, <2>1, AsksFindsNothing
  <2> HIDE DEF HoldsChar
  <2> QED BY <2>3, <2>5, <2>6 DEF OnItsWay
<1>3. ASSUME Quiet, Asked, c'.ok <=> c.ok \/ p.rdpp PROVE OnItsWay'
  <2>1. OnItsWay BY <1>0, <1>3 DEF ReadInv
  <2>2. ~Reset BY <1>0, <1>3 DEF Asked, ProgramInv, Reset
  <2> QED BY <1>3, <2>1, <2>2, OnItsWayStays, OnItsWayMoves
<1>4. ASSUME NEW a, ReadStep(a) PROVE OnItsWay'
  <2>1. AnswerDoes(c, p, a, c') /\ a.cmd = "read" /\ last = "at"
    BY <1>4 DEF ReadStep, EdgeDone, CoreDoes
  <2>2. c'.ok <=> c.ok \/ p.rdpp BY <2>1 DEF AnswerDoes, Asks
  <2> QED BY <1>3, <1>4, <2>1, <2>2, QuietSteps DEF Asked
<1>5. ASSUME WaitStep PROVE OnItsWay'
  <2>1. AnswerDoes(c, p, Idle, c') /\ Idle.cmd = "none"
    BY <1>5 DEF WaitStep, EdgeDone, CoreDoes, Idle
  <2>2. c'.ok <=> c.ok \/ p.rdpp BY <2>1 DEF AnswerDoes, Asks
  <2>3. Asked BY <1>1, <1>5 DEF Asked, WaitStep
  <2> QED BY <1>3, <1>5, <2>2, <2>3, QuietSteps
<1> QED BY <1>2, <1>4, <1>5 DEF Stepping

-----------------------------------------------------------------------------
(* The invariant.                                                          *)
LEMMA InvStarts ==
  ASSUME Init
  PROVE  ConsoleInv
<1>1. /\ c = CoreReset /\ p = PixReset /\ text = [x \in Cells |-> 0]
      /\ font = [x \in FontRows |-> x] /\ odd \in BOOLEAN /\ todo \in Programs
      /\ since = 0 /\ last = "reset" /\ behind = 0 /\ scrolled = FALSE /\ reading = FALSE
      /\ term = Greeted[Len(InitMsg)]
  BY DEF Init
<1>2. /\ c.char = 0 /\ ~c.keep /\ ~c.posEn /\ ~c.cls /\ ~c.fontWe /\ ~c.ok /\ ~c.waits
      /\ ~c.en /\ ~c.done /\ c.fontAddr = <<0, 0>> /\ c.fontData = Uninit
      /\ CoreFields \subseteq DOMAIN c
  BY <1>1 DEF CoreReset, CoreFields
<1>3. /\ PixFields \subseteq DOMAIN p
      /\ p.hcnt = 0 /\ p.char = 0 /\ ~p.wen /\ ~p.rd /\ ~p.rdp /\ ~p.rdpp
      /\ p.curLine = 0 /\ p.curCol = 0 /\ p.startLine = 0 /\ p.endLine = 0 /\ ~p.inc
      /\ p.initCnt = 2 * Len(InitMsg) /\ ~p.clsp /\ p.fontAddr = <<0, 0>> /\ p.fontWen
      /\ ~p.release
  BY <1>1 DEF PixReset, PixFields
<1>4. GreetedAt(Len(InitMsg)) /\ Reset /\ Odd \in 0 .. 1
  BY <1>1, GreetedUpTo, NatConstants DEF Reset, Odd
<1>5. ProgramInv
  <2>1. todo \in Seq(Commands) /\ ReadsWhatItAsked(todo) BY <1>1, ConsoleTextAssumption
  <2>2. \A i \in DOMAIN todo : todo[i].cmd = "read" => i > 1 /\ Asks(todo[i - 1])
    BY <2>1 DEF ReadsWhatItAsked
  <2>3. DOMAIN todo = 1 .. Len(todo) /\ Len(todo) \in Nat BY <2>1
  <2>4. ASSUME todo # <<>> PROVE todo[1].cmd # "read"
    <3>1. 1 \in DOMAIN todo BY <2>1, <2>4
    <3> QED BY <2>2, <3>1
  <2>5. \A i \in 2 .. Len(todo) : i \in DOMAIN todo BY <2>3
  <2> QED BY <1>1, <2>1, <2>2, <2>4, <2>5 DEF ProgramInv
<1>6. ShapeInv
  <2>1. p.hcnt \in Nat /\ p.initCnt \in 0 .. 2 * Len(InitMsg) BY <1>3, NatConstants
  <2>2. since \in 0 .. Settle /\ behind \in 0 .. Settle /\ since <= behind
    BY <1>1, NatConstants
  <2>3. TermFields \subseteq DOMAIN term BY <1>1, <1>4 DEF GreetedAt
  <2>4. reading \in BOOLEAN /\ odd \in BOOLEAN BY <1>1
  <2> QED BY <1>2, <1>3, <2>1, <2>2, <2>3, <2>4, Zenon DEF ShapeInv
<1>7. HoldsInv BY <1>2 DEF HoldsInv, Holds
<1>8. StartInv
  <2> HIDE DEF Odd
  <2> QED BY <1>1, <1>3, <1>4, NatConstants DEF StartInv
<1>9. AgeInv BY <1>3 DEF AgeInv, Ages
<1>10. MessageInv
  <2>1. TakenChars = 0
    <3>1. \A l \in Nat : (2 * l + 1) \div 2 = l OBVIOUS
    <3>2. p.initCnt + 1 = 2 * Len(InitMsg) + 1 BY <1>3
    <3> QED BY <3>1, <3>2, NatConstants DEF TakenChars
  <2>2. PutChars = 0 BY <1>3, <2>1 DEF PutChars
  <2>3. S.text = text /\ S.line = 0 /\ S.col = 0 /\ S.start = 0 /\ S.end = 0
    BY <1>3 DEF S, Stored, TextAfter
  <2>4. Greeted[0] = TermInit BY GreetedStep
  <2>5. Bare(S) = Bare(TermInit) BY <1>1, <2>3, BareFields DEF TermInit
  <2> QED BY <1>1, <1>3, <2>2, <2>4, <2>5 DEF MessageInv
<1>11. ScrollInv
  <2>1. ~Holds BY <1>2 DEF Holds
  <2> QED BY <1>2, <1>3, <2>1 DEF ScrollInv, Scrolls
<1>12. TextInv BY <1>4 DEF TextInv
<1>13. FontInv
  <2>1. FontComing = TermInit.font
    <3>1. FontComing = [font EXCEPT ![<<0, 0>>] = Uninit]
      BY <1>2, <1>3 DEF FontComing, FontAfter
    <3>2. [font EXCEPT ![<<0, 0>>] = Uninit] =
            [x \in FontRows |-> IF x = <<0, 0>> THEN Uninit ELSE x]
      BY <1>1
    <3> QED BY <3>1, <3>2 DEF TermInit
  <2>2. term.font = TermInit.font BY <1>1, <1>4 DEF GreetedAt
  <2>3. since <= Odd BY <1>1 DEF Odd
  <2> HIDE DEF FontComing, Odd
  <2> QED BY <1>2, <1>3, <1>4, <2>1, <2>2, <2>3 DEF FontInv
<1>14. AnswerInv BY <1>1, <1>2 DEF AnswerInv
<1>15. ReadInv BY <1>1 DEF ReadInv, Asked
<1> QED
  BY <1>5, <1>6, <1>7, <1>8, <1>9, <1>10, <1>11, <1>12, <1>13, <1>14, <1>15 DEF ConsoleInv

LEMMA InvStays ==
  ASSUME ConsoleInv, UNCHANGED vars
  PROVE  ConsoleInv'
<1>1. /\ c' = c /\ p' = p /\ text' = text /\ font' = font /\ odd' = odd /\ todo' = todo
      /\ since' = since /\ last' = last /\ behind' = behind /\ scrolled' = scrolled
      /\ reading' = reading /\ term' = term
  BY DEF vars
<1>2. S' = S /\ Waiting' = Waiting /\ Coming' = Coming /\ Reset' = Reset /\ Odd' = Odd
  BY <1>1 DEF S, Waiting, Coming, Fresh, Reset, Odd
<1>3. ProgramInv' /\ ShapeInv' BY <1>1 DEF ConsoleInv, ProgramInv, ShapeInv
<1>4. HoldsInv' /\ StartInv' BY <1>1 DEF ConsoleInv, HoldsInv, StartInv, Holds, Reset, Odd
<1>5. AgeInv' BY <1>1 DEF ConsoleInv, AgeInv, Base, Fresh, Reset, Odd
<1>6. ScrollInv' BY <1>1, <1>2 DEF ConsoleInv, ScrollInv, Holds, Fresh
<1>7. TextInv' BY <1>1, <1>2 DEF ConsoleInv, TextInv
<1>8. MessageInv' BY <1>1, <1>2 DEF ConsoleInv, MessageInv, TakenChars, PutChars
<1>9. FontInv' BY <1>1, <1>2 DEF ConsoleInv, FontInv, FontComing, FontAge
<1>10. AnswerInv' BY <1>1, <1>2 DEF ConsoleInv, AnswerInv
<1>11. ReadInv' BY <1>1 DEF ConsoleInv, ReadInv, Asked, OnItsWay, HoldsChar, Fresh
<1> QED
  BY <1>3, <1>4, <1>5, <1>6, <1>7, <1>8, <1>9, <1>10, <1>11 DEF ConsoleInv

LEMMA InvKept ==
  ASSUME KeepsDistances, ConsoleInv, [Next]_vars
  PROVE  ConsoleInv'
<1>1. CASE Next
  <2>1. Stepping BY <1>1, Steps DEF Stepping
  <2> QED
    BY <1>1, <2>1, ProgramKept, ShapeKept, HoldsKept, StartKept, AgeKept, ScrollKept,
       TextKept, MessageKept, FontKept, AnswerKept, ReadKept DEF ConsoleInv
<1>2. CASE UNCHANGED vars BY <1>2, InvStays
<1> QED BY <1>1, <1>2

(* The console is always about to be the terminal, when the accesses keep  *)
(* the distances.                                                          *)
THEOREM ConsoleInvHolds == KeepsDistances => (Spec => []ConsoleInv)
<1>1. Init => ConsoleInv BY InvStarts
<1>2. KeepsDistances /\ ConsoleInv /\ [Next]_vars => ConsoleInv' BY InvKept
<1>3. SUFFICES ASSUME KeepsDistances PROVE Spec => []ConsoleInv OBVIOUS
<1>4. ConsoleInv /\ [Next]_vars => ConsoleInv' BY <1>2, <1>3
<1> QED BY <1>1, <1>4, PTL DEF Spec

-----------------------------------------------------------------------------
(* A settled console is at rest: nothing is under way behind the longest   *)
(* of the ages.                                                            *)
AtRest ==
  /\ p.char = 0 /\ ~p.wen /\ ~p.inc /\ p.initCnt = 0 /\ ~Holds
  /\ ~p.release /\ ~p.fontWen /\ ~c.fontWe

LEMMA SettledRests ==
  ASSUME ConsoleInv, KeepsDistances, Settled
  PROVE  AtRest
<1>0. /\ ShapeInv /\ HoldsInv /\ StartInv /\ AgeInv /\ FontInv
  BY DEF ConsoleInv
<1>2. /\ since = Settle /\ behind = Settle /\ ~reading
      /\ Settle \in Nat /\ Settle >= 14 /\ Settle >= 4 * Len(InitMsg) + 10
      /\ Len(InitMsg) \in Nat
  BY <1>0, NatConstants DEF ShapeInv, Settled, KeepsDistances
<1>3. Odd \in 0 .. 1 /\ Base \in Nat /\ Settle >= Base + 10
  BY <1>2 DEF Odd, Base
<1>4. p.char = 0 /\ ~p.wen /\ ~p.inc
  <2>1. Ages(p, Settle, Base, Odd) BY <1>0, <1>2 DEF AgeInv
  <2> HIDE DEF Odd, Base
  <2> QED BY <1>2, <1>3, <2>1 DEF Ages
<1>5. ~Holds BY <1>0, <1>2 DEF HoldsInv
<1>6. p.initCnt = 0
  <2>1. SUFFICES ASSUME p.initCnt > 0 PROVE FALSE
    BY <1>0, NatConstants DEF ShapeInv
  <2>2. Settle <= 2 * (2 * Len(InitMsg) - p.initCnt) + Odd BY <1>0, <1>2, <2>1 DEF StartInv
  <2>3. \A l, i, x \in Nat : \A o \in 0 .. 1 :
          i > 0 /\ x >= 4 * l + 10 => ~(x <= 2 * (2 * l - i) + o)
    OBVIOUS
  <2>4. p.initCnt \in Nat BY <1>0, NatConstants DEF ShapeInv
  <2> HIDE DEF Odd
  <2> QED BY <1>2, <1>3, <2>1, <2>2, <2>3, <2>4
<1>7. ~p.release /\ ~c.fontWe /\ ~p.fontWen
  <2>1. FontAge \in Nat /\ FontAge >= 14 BY <1>2 DEF FontAge
  <2> HIDE DEF FontAge
  <2>2. ~p.release
    <3>1. p.release => FontAge <= 4 + Odd BY <1>0 DEF FontInv
    <3> HIDE DEF Odd
    <3> QED BY <1>3, <2>1, <3>1
  <2>3. ~c.fontWe
    <3>1. c.fontWe => FontAge <= Odd + (IF p.pipe = 2 THEN 0 ELSE 2)
      BY <1>0, <2>2 DEF FontInv
    <3> HIDE DEF Odd
    <3> QED BY <1>3, <2>1, <3>1
  <2>4. ~p.fontWen
    <3>1. p.fontWen => since <= Odd BY <1>0, <2>2 DEF FontInv
    <3> HIDE DEF Odd
    <3> QED BY <1>2, <1>3, <3>1
  <2> QED BY <2>2, <2>3, <2>4
<1> QED BY <1>4, <1>5, <1>6, <1>7 DEF AtRest

LEMMA SettledIsTold ==
  ASSUME ConsoleInv, KeepsDistances
  PROVE  WrittenAsTold
<1>0. TextInv /\ FontInv BY DEF ConsoleInv
<1>1. SUFFICES ASSUME Settled
               PROVE  /\ text = term.text /\ font = term.font
                      /\ <<p.curLine, p.curCol>> = <<term.line, term.col>>
                      /\ <<p.startLine, p.endLine>> = <<term.start, term.end>>
  BY DEF WrittenAsTold
<1>2. AtRest BY <1>1, SettledRests
<1>3. p.char = 0 /\ ~p.wen /\ ~p.inc /\ p.initCnt = 0 BY <1>2 DEF AtRest
<1>4. S = View(term)
  <2>1. CASE Reset BY <1>3, <2>1, GreetingDone
  <2>2. CASE ~Reset
    <3>1. Coming = View(term) BY <1>0, <2>2 DEF TextInv
    <3>2. Waiting = S BY <1>3 DEF Waiting, Type
    <3>3. Coming = Waiting BY <1>2 DEF AtRest, Coming, Holds, Seen, Put1, Type
    <3> QED BY <3>1, <3>2, <3>3
  <2> QED BY <2>1, <2>2
<1>5. /\ text = term.text /\ p.curLine = term.line /\ p.curCol = term.col
      /\ p.startLine = term.start /\ p.endLine = term.end
  <2>1. /\ S.text = text /\ S.line = p.curLine /\ S.col = p.curCol
        /\ S.start = p.startLine /\ S.end = p.endLine
    BY <1>3 DEF S, Stored, TextAfter
  <2> HIDE DEF S
  <2> QED BY <1>4, <2>1 DEF View
<1>6. font = term.font BY <1>0, <1>2 DEF AtRest, FontInv, FontComing, FontAfter
<1> QED BY <1>5, <1>6

LEMMA AnswerIsTold ==
  ASSUME ConsoleInv, KeepsDistances
  PROVE  ReadsOverwritten
<1>0. ShapeInv /\ ProgramInv /\ HoldsInv /\ AgeInv /\ AnswerInv /\ ReadInv
  BY DEF ConsoleInv
<1>1. SUFFICES ASSUME reading, ~c.en PROVE since < Settle
  BY <1>0 DEF ReadsOverwritten, AnswerInv
<1>2. /\ since \in Nat /\ behind \in Nat /\ since <= behind /\ Settle \in Nat /\ Settle >= 14
      /\ Odd \in 0 .. 1
  BY <1>0, NatConstants DEF ShapeInv, KeepsDistances, Odd
<1>3. Ages(p, behind, 2, Odd) BY <1>0, <1>1 DEF AgeInv, ProgramInv, Base, Reset
<1>4. OnItsWay BY <1>0, <1>1 DEF ReadInv, Asked
<1>5. CASE c.ok
  <2>1. since = 0 \/ behind <= 12 + Odd BY <1>0, <1>1, <1>5 DEF AnswerInv
  <2> HIDE DEF Odd
  <2> QED BY <1>2, <2>1
<1>6. CASE HoldsChar
  <2>1. behind <= 1 BY <1>0, <1>6 DEF HoldsInv, HoldsChar
  <2> QED BY <1>2, <2>1
<1>7. CASE p.rdpp \/ p.rdp \/ p.rd \/ p.char # 0
  <2>1. behind <= 10 + Odd
    <3> HIDE DEF Odd
    <3> QED BY <1>2, <1>3, <1>7 DEF Ages
  <2> HIDE DEF Odd
  <2> QED BY <1>2, <2>1
<1> QED BY <1>4, <1>5, <1>6, <1>7 DEF OnItsWay

(* What the program wrote is in the buffer, each character once, in order  *)
(* and where the terminal has it, and each row of the font, when the       *)
(* console has settled; so are the cursor and the lines on display.        *)
THEOREM WritesArrive == KeepsDistances => (Spec => []WrittenAsTold)
<1>1. KeepsDistances /\ ConsoleInv => WrittenAsTold BY SettledIsTold
<1>2. SUFFICES ASSUME KeepsDistances PROVE Spec => []WrittenAsTold OBVIOUS
<1>3. ConsoleInv => WrittenAsTold BY <1>1, <1>2
<1>4. Spec => []ConsoleInv BY <1>2, ConsoleInvHolds
<1> QED BY <1>3, <1>4, PTL

(* A read is answered within 13 edges of clk_core, and with the character  *)
(* its own request found at its place.                                     *)
THEOREM ReadsArrive == KeepsDistances => (Spec => []ReadsOverwritten)
<1>1. KeepsDistances /\ ConsoleInv => ReadsOverwritten BY AnswerIsTold
<1>2. SUFFICES ASSUME KeepsDistances PROVE Spec => []ReadsOverwritten OBVIOUS
<1>3. ConsoleInv => ReadsOverwritten BY <1>1, <1>2
<1>4. Spec => []ConsoleInv BY <1>2, ConsoleInvHolds
<1> QED BY <1>3, <1>4, PTL

-----------------------------------------------------------------------------
(* The beam.  Hsync is behind the text and ends while no character is      *)
(* fetched; behind it the first one of the next row is, before the line    *)
(* has ended; the text has ended when vsync begins, and a row of pixels    *)
(* follows it.                                                             *)
LastSlot == HTot - ((HTot + 4) % 8)

FrameFits ==
  /\ {Rows, HSyncEnd, VSync, VTot} \subseteq Nat /\ Rows > 0
  /\ HRes + 1 < HSyncEnd /\ HSyncEnd % 8 <= 3
  /\ HSyncEnd < LastSlot /\ LastSlot + 3 <= HTot
  /\ VRes <= VSync /\ VSync + 2 <= VTot

(* What the registers of the beam are at each place of it, from reset on.  *)
Fetch(h) == IF (h + 4) % 8 \in 1 .. 4 THEN (h + 4) % 8 ELSE 0
Upto(h) == IF h < HRes THEN (h + 4) \div 8 ELSE Cols

BeamFields ==
  {"hcnt", "vcnt", "rhsync", "rvsync", "rvsyncp", "rde", "inFrame", "pipe", "addr",
   "fontAddr", "fontRow", "bufChar", "lineBlank", "bufBlank", "line", "col", "div",
   "charLine"}

BeamInv ==
  /\ BeamFields \subseteq DOMAIN p
  /\ p.hcnt \in 0 .. HTot /\ p.vcnt \in 0 .. VTot
  /\ p.rhsync <=> p.hcnt \in {HSyncEnd - 1, HSyncEnd}
  /\ p.rde <=> p.hcnt \in 1 .. HRes /\ p.vcnt < VRes
  /\ p.hcnt >= 1 => (p.inFrame <=> p.vcnt < VRes)
  /\ p.rvsync <=> IF p.hcnt >= HSyncEnd - 1 THEN p.vcnt \in VSync .. VSync + 1
                  ELSE p.vcnt \in VSync + 1 .. VSync + 2
  /\ p.rvsyncp <=> IF p.hcnt >= HSyncEnd THEN p.vcnt \in VSync .. VSync + 1
                   ELSE p.vcnt \in VSync + 1 .. VSync + 2
  /\ p.hcnt >= 4 => p.pipe = Fetch(p.hcnt)
  /\ p.hcnt < 4 => p.pipe = 0 \/ (p.pipe = 4 /\ p.hcnt = 0)
  /\ p.col = (IF p.vcnt < VRes /\ p.hcnt \in 4 .. HSyncEnd THEN Upto(p.hcnt) ELSE 0)

(* The terminal's lines are lines, and its mode is the console's.          *)
ModeFields == TermFields \cup {"mode"}

ModeInv ==
  /\ "mode" \in DOMAIN c /\ ModeFields \subseteq DOMAIN term
  /\ c.mode = term.mode
  /\ {term.line, term.start, term.end} \subseteq 0 .. Lines - 1

(* The beam is at the row of pixels it shows or will show next: of which   *)
(* line of the text, which row, and whether it is behind the last line.    *)
InText(q) ==
  \/ q.vcnt < VRes \/ q.vcnt > VSync + 2
  \/ q.vcnt = VSync + 2 /\ q.hcnt >= HSyncEnd

Row(q) ==
  IF q.vcnt >= VRes THEN 0 ELSE IF q.hcnt > HSyncEnd THEN q.vcnt + 1 ELSE q.vcnt

Below(t, row) == t.mode /\ row > (t.end - t.start) % Lines

AtRow(q, t) ==
  /\ q.div = Row(q) % Rows
  /\ q.line = (t.start + (Row(q) \div Rows)) % Lines
  /\ q.bufBlank <=> Below(t, Row(q) \div Rows)

(* A character of a line, whether the line has ended at it, and its pixels.*)
CharAt(t, line, k) == t.text[Cell(line, k)]
EndsAt(t, line, k) == CharAt(t, line, k) = NewLine \/ (line = t.line /\ k = t.col)
Ended(t, line, k) == t.mode /\ \E j \in 0 .. k : EndsAt(t, line, j)
RowAt(q, t, k) == t.font[<<Glyph(CharAt(t, q.line, k)), q.div>>]
Pixels(q, t, k) ==
  IF q.bufBlank \/ Ended(t, q.line, k) THEN Blank ELSE RowAt(q, t, k)

(* The beam shows one character and fetches the next.                      *)
Ahead(q) == q.hcnt > HSyncEnd
Fetching(q) == InText(q) /\ (Ahead(q) \/ (q.vcnt < VRes /\ q.hcnt <= HRes))
Fetched(q) == q.pipe = 0 /\ ~Slot(q) /\ (Ahead(q) => q.hcnt > LastSlot + 4)

AtChar(q, t) ==
  /\ q.pipe = 1 => q.addr = Cell(q.line, q.col)
  /\ q.pipe = 2 => q.bufChar = CharAt(t, q.line, q.col)
  /\ q.pipe = 3 => q.fontAddr = <<Glyph(CharAt(t, q.line, q.col)), q.div>>
  /\ q.pipe = 4 => q.fontRow = RowAt(q, t, q.col)
  /\ q.lineBlank => Ended(t, q.line, q.col)
  /\ q.col > 0 /\ Ended(t, q.line, q.col - 1) => q.lineBlank
  /\ q.pipe \in 3 .. 4 /\ t.mode /\ CharAt(t, q.line, q.col) = NewLine => q.lineBlank
  /\ q.pipe = 4 /\ t.mode /\ q.line = t.line /\ q.col = t.col => q.lineBlank
  /\ Fetched(q) => (q.lineBlank <=> Ended(t, q.line, q.col)) /\ q.charLine = Pixels(q, t, q.col)
  /\ ~Fetched(q) /\ q.hcnt \in 4 .. HRes => q.col > 0 /\ q.charLine = Pixels(q, t, q.col - 1)

FreshInv ==
  fresh => /\ Settled
           /\ InText(p) => AtRow(p, term)
           /\ Fetching(p) => AtChar(p, term)

FrameInv == BeamInv /\ ModeInv /\ FreshInv
-----------------------------------------------------------------------------
(* What an edge of clk_pix does to the beam.                               *)
Place1(q, w) ==
  /\ w.hcnt = q.hcnt /\ w.vcnt = q.vcnt /\ w.rhsync = q.rhsync /\ w.rvsync = q.rvsync
  /\ w.rvsyncp = q.rvsyncp /\ w.rde = q.rde /\ w.inFrame = q.inFrame
Fetch1(q, w) ==
  /\ w.addr = q.addr /\ w.fontAddr = q.fontAddr
  /\ w.fontRow = q.fontRow /\ w.bufChar = q.bufChar
Shown1(q, w) ==
  /\ w.lineBlank = q.lineBlank /\ w.charLine = q.charLine
Line1(q, w) == w.bufBlank = q.bufBlank /\ w.line = q.line /\ w.div = q.div

(* The stages that leave the beam alone.                                   *)
Alike(q, w) ==
  /\ BeamFields \subseteq DOMAIN w
  /\ Place1(q, w) /\ Fetch1(q, w) /\ Shown1(q, w) /\ Line1(q, w) /\ w.col = q.col

LEMMA TakenAlike ==
  ASSUME NEW q, NEW r, NEW w, BeamFields \subseteq DOMAIN w
  PROVE  Alike(w, Taken(q, r, w))
<1> USE DEF Alike, Place1, Fetch1, Shown1, Line1, BeamFields
<1> DEFINE v == IF r.char # 0 THEN [w EXCEPT !.char = r.char] ELSE w
           u == IF r.posEn
                THEN [v EXCEPT !.startLine = 0, !.endLine = Lines - 1,
                               !.curLine = r.pos[1], !.curCol = r.pos[2]]
                ELSE v
<1>1. Alike(w, v) OBVIOUS
<1>2. u = v \/ u = [v EXCEPT !.startLine = 0, !.endLine = Lines - 1,
                             !.curLine = r.pos[1], !.curCol = r.pos[2]]
  OBVIOUS
<1> HIDE DEF v
<1>3. Alike(v, u) BY <1>1, <1>2
<1> DEFINE msg == InitMsg[Len(InitMsg) - (q.initCnt \div 2)]
<1>4. \/ Taken(q, r, w) = u \/ Taken(q, r, w) = [u EXCEPT !.initCnt = @ - 1]
      \/ Taken(q, r, w) = [u EXCEPT !.initCnt = @ - 1, !.char = msg]
  BY DEF Taken, v
<1> HIDE DEF u, msg
<1> QED BY <1>1, <1>3, <1>4

LEMMA MovedAlike ==
  ASSUME NEW q, NEW r, NEW w, BeamFields \subseteq DOMAIN w
  PROVE  Alike(w, Moved(q, r, w))
BY DEF Moved, Alike, Place1, Fetch1, Shown1, Line1, BeamFields

Advances(q, n) ==
  /\ n.hcnt = (IF q.hcnt < HTot THEN q.hcnt + 1 ELSE 0)
  /\ n.vcnt = (IF q.hcnt < HTot THEN q.vcnt ELSE IF q.vcnt < VTot THEN q.vcnt + 1 ELSE 0)
  /\ n.rhsync <=> HSync(q)
  /\ n.rde <=> q.hcnt < HRes /\ q.vcnt < VRes
  /\ n.rvsync <=> (q.rvsync \/ (HSync(q) /\ VSyncs(q))) /\ ~(HSync(q) /\ ~VSyncs(q))
  /\ n.rvsyncp <=> q.rvsync
  /\ n.inFrame <=> q.vcnt < VRes

LEMMA BeamAdvances ==
  ASSUME NEW q, NEW w, BeamFields \subseteq DOMAIN w,
         q.hcnt \in Nat, q.vcnt \in Nat, {HTot, VTot} \subseteq Nat,
         w.hcnt = q.hcnt, w.vcnt = q.vcnt, w.rvsync = q.rvsync
  PROVE  LET v == Beam(q, w)
         IN /\ BeamFields \subseteq DOMAIN v
            /\ Advances(q, v) /\ Fetch1(w, v) /\ Shown1(w, v) /\ Line1(w, v) /\ v.col = w.col
<1> DEFINE v == Beam(q, w)
<1>1. /\ BeamFields \subseteq DOMAIN v
      /\ Fetch1(w, v) /\ Shown1(w, v) /\ Line1(w, v) /\ v.col = w.col
  BY DEF Beam, BeamFields, Fetch1, Shown1, Line1
<1>2. /\ v.hcnt = (IF q.hcnt < HTot THEN q.hcnt + 1 ELSE 0)
      /\ v.rhsync <=> HSync(q)
      /\ v.rde <=> q.hcnt < HRes /\ q.vcnt < VRes
      /\ v.rvsyncp <=> q.rvsync
      /\ v.inFrame <=> q.vcnt < VRes
  BY DEF Beam, BeamFields
<1>3. v.vcnt = (IF q.hcnt < HTot THEN q.vcnt ELSE IF q.vcnt < VTot THEN q.vcnt + 1 ELSE 0)
  BY DEF Beam, BeamFields
<1>4. v.rvsync <=> (q.rvsync \/ (HSync(q) /\ VSyncs(q))) /\ ~(HSync(q) /\ ~VSyncs(q))
  BY DEF Beam, BeamFields
<1> HIDE DEF v
<1> QED BY <1>1, <1>2, <1>3, <1>4 DEF Advances, v

LEMMA AccessAddr ==
  ASSUME NEW q, NEW w, BeamFields \subseteq DOMAIN w
  PROVE  LET v == Access(q, w)
         IN /\ BeamFields \subseteq DOMAIN v
            /\ Place1(w, v) /\ Shown1(w, v) /\ Line1(w, v) /\ v.col = w.col
            /\ v.fontAddr = w.fontAddr /\ v.fontRow = w.fontRow /\ v.bufChar = w.bufChar
            /\ Slot(q) => v.addr = Cell(q.line, q.col)
            /\ ~Slot(q) /\ q.char = 0 => v.addr = w.addr
BY DEF Access, Put, BeamFields, Place1, Shown1, Line1

LEMMA FontShows ==
  ASSUME NEW q, NEW r, NEW w, BeamFields \subseteq DOMAIN w
  PROVE  LET v == Font(q, r, w)
         IN /\ BeamFields \subseteq DOMAIN v
            /\ Place1(w, v) /\ Line1(w, v) /\ v.col = w.col
            /\ v.addr = w.addr /\ v.fontRow = w.fontRow /\ v.bufChar = w.bufChar
            /\ v.charLine = w.charLine
            /\ v.lineBlank = (IF q.pipe = 2 /\ q.bufChar = NewLine THEN r.mode ELSE w.lineBlank)
            /\ q.pipe = 2 => v.fontAddr = <<Glyph(q.bufChar), q.div>>
            /\ q.pipe # 2 /\ ~r.fontWe => v.fontAddr = w.fontAddr
BY DEF Font, BeamFields, Place1, Line1

Meets(q) == q.pipe = 3 /\ q.line = q.curLine /\ q.col = q.curCol

LEMMA ShownShows ==
  ASSUME NEW q, NEW r, NEW w, BeamFields \subseteq DOMAIN w
  PROVE  LET v == Shown(q, r, w)
         IN /\ BeamFields \subseteq DOMAIN v
            /\ Place1(w, v) /\ Fetch1(w, v) /\ Line1(w, v) /\ v.col = w.col
            /\ v.lineBlank = (IF Meets(q) THEN r.mode ELSE w.lineBlank)
            /\ v.charLine = (IF q.pipe # 4 THEN w.charLine
                             ELSE IF q.lineBlank \/ q.bufBlank THEN Blank ELSE q.fontRow)
BY DEF Shown, Meets, BeamFields, Place1, Fetch1, Line1

Back(q) == q.rhsync /\ ~HSync(q)
Up(q) == q.rvsyncp /\ ~q.rvsync
NextLineBack(q) == Back(q) /\ q.inFrame /\ q.div = Rows - 1

BackDoes(q, r, w, v) ==
  /\ BeamFields \subseteq DOMAIN v
  /\ Place1(w, v) /\ Fetch1(w, v) /\ v.charLine = w.charLine
  /\ v.lineBlank = (IF Back(q) THEN FALSE ELSE w.lineBlank)
  /\ v.col = (IF Back(q) THEN 0 ELSE w.col)
  /\ v.div = (IF NextLineBack(q) THEN 0 ELSE IF Back(q) /\ q.inFrame THEN w.div + 1
              ELSE w.div)
  /\ v.line = (IF NextLineBack(q) THEN NextLine(q.line) ELSE w.line)
  /\ v.bufBlank = (IF NextLineBack(q) /\ q.line = q.endLine THEN r.mode ELSE w.bufBlank)

LEMMA BeamBackMoves ==
  ASSUME NEW q, NEW r, NEW w, BeamFields \subseteq DOMAIN w
  PROVE  BackDoes(q, r, w, BeamBack(q, r, w))
BY DEF BeamBack, BackDoes, Back, NextLineBack, BeamFields, Place1, Fetch1

LEMMA BeamUpMoves ==
  ASSUME NEW q, NEW w, BeamFields \subseteq DOMAIN w
  PROVE  LET v == BeamUp(q, w)
         IN /\ BeamFields \subseteq DOMAIN v
            /\ Place1(w, v) /\ Fetch1(w, v) /\ Shown1(w, v) /\ v.col = w.col
            /\ v.line = (IF Up(q) THEN q.startLine ELSE w.line)
            /\ v.div = (IF Up(q) THEN 0 ELSE w.div)
            /\ v.bufBlank = (IF Up(q) THEN FALSE ELSE w.bufBlank)
BY DEF BeamUp, Up, BeamFields, Place1, Fetch1, Shown1

LEMMA NextColMoves ==
  ASSUME NEW q, NEW w, BeamFields \subseteq DOMAIN w
  PROVE  LET v == NextCol(q, w)
         IN /\ BeamFields \subseteq DOMAIN v
            /\ Place1(w, v) /\ Fetch1(w, v) /\ Shown1(w, v) /\ Line1(w, v)
            /\ v.col = (IF q.hcnt % 8 = 3 /\ q.rde THEN q.col + 1 ELSE w.col)
BY DEF NextCol, BeamFields, Place1, Fetch1, Shown1, Line1

Fetches(q, r, t, f, n) ==
  /\ n.pipe = (IF Slot(q) THEN 1 ELSE IF q.pipe \in 1 .. 3 THEN q.pipe + 1 ELSE 0)
  /\ q.char = 0 => n.addr = (IF Slot(q) THEN Cell(q.line, q.col) ELSE q.addr)
  /\ n.bufChar = t[q.addr]
  /\ q.pipe = 2 => n.fontAddr = <<Glyph(q.bufChar), q.div>>
  /\ q.pipe # 2 /\ ~r.fontWe => n.fontAddr = q.fontAddr
  /\ n.fontRow = f[q.fontAddr]

Draws(q, r, n) ==
  /\ n.lineBlank <=>
       /\ ~Back(q)
       /\ IF Meets(q) \/ (q.pipe = 2 /\ q.bufChar = NewLine) THEN r.mode ELSE q.lineBlank
  /\ n.charLine = (IF q.pipe # 4 THEN q.charLine
                   ELSE IF q.lineBlank \/ q.bufBlank THEN Blank ELSE q.fontRow)

Turns(q, r, n) ==
  /\ n.col = (IF q.hcnt % 8 = 3 /\ q.rde THEN q.col + 1 ELSE IF Back(q) THEN 0 ELSE q.col)
  /\ n.div = (IF Up(q) \/ NextLineBack(q) THEN 0
              ELSE IF Back(q) /\ q.inFrame THEN q.div + 1 ELSE q.div)
  /\ n.line = (IF Up(q) THEN q.startLine ELSE IF NextLineBack(q) THEN NextLine(q.line)
               ELSE q.line)
  /\ n.bufBlank <=>
       /\ ~Up(q)
       /\ IF NextLineBack(q) /\ q.line = q.endLine THEN r.mode ELSE q.bufBlank

BeamDoes(q, r, t, f, n) ==
  /\ BeamFields \subseteq DOMAIN n
  /\ Advances(q, n) /\ Fetches(q, r, t, f, n) /\ Draws(q, r, n) /\ Turns(q, r, n)

LEMMA BeamMoves ==
  ASSUME NEW q, NEW r, NEW t, NEW f, PixFields \subseteq DOMAIN q,
         BeamFields \subseteq DOMAIN q, q.hcnt \in Nat, q.vcnt \in Nat,
         q.initCnt \in Nat, {HTot, VTot} \subseteq Nat
  PROVE  BeamDoes(q, r, t, f, PixEdge(q, r, t, f))
<1> DEFINE w0 == [q EXCEPT !.pipe = IF @ \in 1 .. 3 THEN @ + 1 ELSE 0,
                      !.clsp = r.cls, !.wen = FALSE, !.fontWen = FALSE, !.release = FALSE,
                      !.rd = FALSE, !.rdp = q.rd, !.rdpp = q.rdp,
                      !.bufChar = t[q.addr], !.fontRow = f[q.fontAddr]]
           wb == Beam(q, w0)
           w1 == Access(q, wb)
           w2 == IF q.rdp THEN [w1 EXCEPT !.charRd = q.bufChar] ELSE w1
           w3 == Taken(q, r, w2)
           w4 == Moved(q, r, w3)
           w5 == Font(q, r, w4)
           w6 == Shown(q, r, w5)
           w7 == BeamBack(q, r, w6)
           w8 == BeamUp(q, w7)
           n == NextCol(q, w8)
<1>1. PixEdge(q, r, t, f) = n BY DEF PixEdge
<1>2. PixDoes(q, r, t, n) BY <1>1, PixMoves
<1>3. /\ BeamFields \subseteq DOMAIN w0
      /\ Place1(q, w0) /\ Shown1(q, w0) /\ Line1(q, w0) /\ w0.col = q.col
      /\ w0.addr = q.addr /\ w0.fontAddr = q.fontAddr
      /\ w0.bufChar = t[q.addr] /\ w0.fontRow = f[q.fontAddr]
  BY DEF BeamFields, Place1, Shown1, Line1
<1> HIDE DEF w0
<1>4. /\ BeamFields \subseteq DOMAIN wb
      /\ Advances(q, wb) /\ Fetch1(w0, wb) /\ Shown1(w0, wb) /\ Line1(w0, wb)
      /\ wb.col = w0.col
  BY <1>3, BeamAdvances DEF Place1
<1> HIDE DEF wb
<1>5. /\ BeamFields \subseteq DOMAIN w1
      /\ Place1(wb, w1) /\ Shown1(wb, w1) /\ Line1(wb, w1) /\ w1.col = wb.col
      /\ w1.fontAddr = wb.fontAddr /\ w1.fontRow = wb.fontRow /\ w1.bufChar = wb.bufChar
      /\ Slot(q) => w1.addr = Cell(q.line, q.col)
      /\ ~Slot(q) /\ q.char = 0 => w1.addr = wb.addr
  BY <1>4, AccessAddr
<1> HIDE DEF w1
<1>6. Alike(w1, w2)
  BY <1>5 DEF Alike, Place1, Fetch1, Shown1, Line1, BeamFields
<1> HIDE DEF w2
<1>7. Alike(w2, w3) BY <1>6, TakenAlike DEF Alike
<1> HIDE DEF w3
<1>8. Alike(w3, w4) BY <1>7, MovedAlike DEF Alike
<1> HIDE DEF w4
<1>9. Alike(w1, w4)
  BY <1>6, <1>7, <1>8 DEF Alike, Place1, Fetch1, Shown1, Line1
<1>10. /\ BeamFields \subseteq DOMAIN w5
       /\ Place1(w4, w5) /\ Line1(w4, w5) /\ w5.col = w4.col
       /\ w5.addr = w4.addr /\ w5.fontRow = w4.fontRow /\ w5.bufChar = w4.bufChar
       /\ w5.charLine = w4.charLine
       /\ w5.lineBlank = (IF q.pipe = 2 /\ q.bufChar = NewLine THEN r.mode ELSE w4.lineBlank)
       /\ q.pipe = 2 => w5.fontAddr = <<Glyph(q.bufChar), q.div>>
       /\ q.pipe # 2 /\ ~r.fontWe => w5.fontAddr = w4.fontAddr
  BY <1>8, FontShows DEF Alike
<1> HIDE DEF w5
<1>11. /\ BeamFields \subseteq DOMAIN w6
       /\ Place1(w5, w6) /\ Fetch1(w5, w6) /\ Line1(w5, w6) /\ w6.col = w5.col
       /\ w6.lineBlank = (IF Meets(q) THEN r.mode ELSE w5.lineBlank)
       /\ w6.charLine = (IF q.pipe # 4 THEN w5.charLine
                         ELSE IF q.lineBlank \/ q.bufBlank THEN Blank ELSE q.fontRow)
  BY <1>10, ShownShows
<1> HIDE DEF w6
<1>12. BackDoes(q, r, w6, w7) BY <1>11, BeamBackMoves
<1>13. /\ BeamFields \subseteq DOMAIN w8
       /\ Place1(w7, w8) /\ Fetch1(w7, w8) /\ Shown1(w7, w8) /\ w8.col = w7.col
       /\ w8.line = (IF Up(q) THEN q.startLine ELSE w7.line)
       /\ w8.div = (IF Up(q) THEN 0 ELSE w7.div)
       /\ w8.bufBlank = (IF Up(q) THEN FALSE ELSE w7.bufBlank)
  BY <1>12, BeamUpMoves DEF BackDoes
<1> HIDE DEF w8
<1>14. /\ BeamFields \subseteq DOMAIN n
       /\ Place1(w8, n) /\ Fetch1(w8, n) /\ Shown1(w8, n) /\ Line1(w8, n)
       /\ n.col = (IF q.hcnt % 8 = 3 /\ q.rde THEN q.col + 1 ELSE w8.col)
  BY <1>13, NextColMoves
<1> HIDE DEF n
<1>15. Advances(q, n)
  BY <1>4, <1>5, <1>9, <1>10, <1>11, <1>12, <1>13, <1>14 DEF Advances, Alike, Place1, BackDoes
<1>16. Fetches(q, r, t, f, n)
  <2>1. n.addr = w1.addr /\ n.fontAddr = w5.fontAddr
    BY <1>9, <1>10, <1>11, <1>12, <1>13, <1>14 DEF Alike, Fetch1, BackDoes
  <2>2. n.bufChar = t[q.addr] /\ n.fontRow = f[q.fontAddr] /\ wb.addr = q.addr
        /\ w4.fontAddr = q.fontAddr
    BY <1>3, <1>4, <1>5, <1>9, <1>10, <1>11, <1>12, <1>13, <1>14 DEF Alike, Fetch1, BackDoes
  <2> QED BY <1>2, <1>5, <1>10, <2>1, <2>2 DEF PixDoes, Fetches
<1>17. Draws(q, r, n)
  <2>1. w4.lineBlank = q.lineBlank /\ w4.charLine = q.charLine
    BY <1>3, <1>4, <1>5, <1>9 DEF Alike, Shown1
  <2> QED BY <2>1, <1>10, <1>11, <1>12, <1>13, <1>14 DEF Shown1, Draws, BackDoes
<1>18. Turns(q, r, n)
  <2>1. w6.col = q.col /\ w6.div = q.div /\ w6.line = q.line /\ w6.bufBlank = q.bufBlank
    BY <1>3, <1>4, <1>5, <1>9, <1>10, <1>11 DEF Alike, Line1
  <2>2. /\ n.col = (IF q.hcnt % 8 = 3 /\ q.rde THEN q.col + 1 ELSE IF Back(q) THEN 0 ELSE q.col)
        /\ n.line = (IF Up(q) THEN q.startLine ELSE IF NextLineBack(q) THEN NextLine(q.line)
                     ELSE q.line)
    BY <2>1, <1>12, <1>13, <1>14 DEF Line1, BackDoes
  <2>3. n.div = (IF Up(q) \/ NextLineBack(q) THEN 0
                 ELSE IF Back(q) /\ q.inFrame THEN q.div + 1 ELSE q.div)
    BY <2>1, <1>12, <1>13, <1>14 DEF Line1, BackDoes
  <2>4. n.bufBlank <=>
          /\ ~Up(q)
          /\ IF NextLineBack(q) /\ q.line = q.endLine THEN r.mode ELSE q.bufBlank
    BY <2>1, <1>12, <1>13, <1>14 DEF Line1, BackDoes
  <2> QED BY <2>2, <2>3, <2>4 DEF Turns
<1> QED BY <1>1, <1>14, <1>15, <1>16, <1>17, <1>18 DEF BeamDoes

-----------------------------------------------------------------------------
(* The registers of the beam are where they should be.                     *)
LEMMA FrameConstants ==
  ASSUME FrameFits
  PROVE  /\ {HTot, VTot, HSyncEnd, VSync, Rows, Lines, Cols, HRes, VRes, LastSlot} \subseteq Nat
         /\ Rows > 0 /\ Lines > 0 /\ Cols > 0 /\ HRes > 0 /\ VRes > 0
         /\ HRes + 1 < HSyncEnd /\ HSyncEnd < LastSlot /\ LastSlot + 3 <= HTot
         /\ VRes <= VSync /\ VSync + 2 <= VTot
<1>1. /\ HTot \in Nat /\ Lines \in Nat /\ Cols \in Nat /\ Lines > 0 /\ Cols > 0
      /\ {Rows, HSyncEnd, VSync, VTot} \subseteq Nat /\ Rows > 0
  BY ConsoleTextAssumption DEF FrameFits
<1>2. VRes \in Nat /\ VRes > 0 BY <1>1 DEF VRes
<1>3. HRes \in Nat /\ HRes > 0 BY <1>1 DEF HRes
<1>4. LastSlot \in Nat BY <1>1 DEF LastSlot, FrameFits
<1> QED BY <1>1, <1>2, <1>3, <1>4 DEF FrameFits, HRes, VRes, LastSlot

LEMMA FrameProducts ==
  ASSUME FrameFits
  PROVE  /\ HRes = 8 * Cols /\ VRes = Rows * Lines
         /\ HSyncEnd % 8 <= 3 /\ LastSlot = HTot - ((HTot + 4) % 8) /\ (HTot + 4) % 8 >= 3
<1>1. HTot \in Nat BY FrameConstants
<1> QED BY <1>1 DEF FrameFits, HRes, VRes, LastSlot

Steady(n) == BeamDoes(p, c, text, font, n)

LEMMA PlaceKept ==
  ASSUME FrameFits, BeamInv, NEW n, Steady(n)
  PROVE  /\ n.hcnt \in 0 .. HTot /\ n.vcnt \in 0 .. VTot
         /\ n.rhsync <=> n.hcnt \in {HSyncEnd - 1, HSyncEnd}
         /\ n.rde <=> n.hcnt \in 1 .. HRes /\ n.vcnt < VRes
         /\ n.hcnt >= 1 => (n.inFrame <=> n.vcnt < VRes)
<1>0. /\ {HTot, VTot, HSyncEnd, HRes, VRes} \subseteq Nat
      /\ HRes + 1 < HSyncEnd /\ HSyncEnd + 3 < HTot
      /\ p.hcnt \in 0 .. HTot /\ p.vcnt \in 0 .. VTot
      /\ n.hcnt = (IF p.hcnt < HTot THEN p.hcnt + 1 ELSE 0)
      /\ n.vcnt = (IF p.hcnt < HTot THEN p.vcnt ELSE IF p.vcnt < VTot THEN p.vcnt + 1 ELSE 0)
      /\ n.rhsync <=> (p.hcnt >= HSyncEnd - 2 /\ p.hcnt < HSyncEnd)
      /\ n.rde <=> p.hcnt < HRes /\ p.vcnt < VRes
      /\ n.inFrame <=> p.vcnt < VRes
  BY FrameConstants DEF BeamInv, Steady, BeamDoes, Advances, HSync
<1>1. n.hcnt \in 0 .. HTot /\ n.vcnt \in 0 .. VTot BY <1>0
<1>2. n.rhsync <=> n.hcnt \in {HSyncEnd - 1, HSyncEnd} BY <1>0
<1>3. n.rde <=> n.hcnt \in 1 .. HRes /\ n.vcnt < VRes BY <1>0
<1>4. n.hcnt >= 1 => (n.inFrame <=> n.vcnt < VRes) BY <1>0
<1> QED BY <1>1, <1>2, <1>3, <1>4

LEMMA SyncKept ==
  ASSUME FrameFits, BeamInv, NEW n, Steady(n)
  PROVE  /\ n.rvsync <=> IF n.hcnt >= HSyncEnd - 1 THEN n.vcnt \in VSync .. VSync + 1
                         ELSE n.vcnt \in VSync + 1 .. VSync + 2
         /\ n.rvsyncp <=> IF n.hcnt >= HSyncEnd THEN n.vcnt \in VSync .. VSync + 1
                          ELSE n.vcnt \in VSync + 1 .. VSync + 2
<1> USE FrameConstants DEF BeamInv, Steady, BeamDoes, Advances, HSync, VSyncs
<1>1. n.rvsync <=> IF n.hcnt >= HSyncEnd - 1 THEN n.vcnt \in VSync .. VSync + 1
                   ELSE n.vcnt \in VSync + 1 .. VSync + 2
  OBVIOUS
<1>2. n.rvsyncp <=> IF n.hcnt >= HSyncEnd THEN n.vcnt \in VSync .. VSync + 1
                    ELSE n.vcnt \in VSync + 1 .. VSync + 2
  OBVIOUS
<1> QED BY <1>1, <1>2

LEMMA PipeKept ==
  ASSUME FrameFits, BeamInv, NEW n, Steady(n)
  PROVE  /\ n.hcnt >= 4 => n.pipe = Fetch(n.hcnt)
         /\ n.hcnt < 4 => n.pipe = 0 \/ (n.pipe = 4 /\ n.hcnt = 0)
<1>0. /\ p.hcnt \in 0 .. HTot /\ HTot \in Nat
      /\ p.hcnt >= 4 => p.pipe = Fetch(p.hcnt)
      /\ p.hcnt < 4 => p.pipe = 0 \/ (p.pipe = 4 /\ p.hcnt = 0)
      /\ (HTot + 4) % 8 >= 3
      /\ n.hcnt = (IF p.hcnt < HTot THEN p.hcnt + 1 ELSE 0)
      /\ n.pipe = (IF p.hcnt % 8 = 4 THEN 1 ELSE IF p.pipe \in 1 .. 3 THEN p.pipe + 1 ELSE 0)
  BY FrameConstants, FrameProducts DEF BeamInv, Steady, BeamDoes, Advances, Fetches, Slot
<1>1. CASE p.hcnt < 4
  BY <1>0, <1>1 DEF Fetch
<1>2. CASE p.hcnt >= 4
  BY <1>0, <1>2 DEF Fetch
<1> QED BY <1>0, <1>1, <1>2

LEMMA BacksUps ==
  ASSUME FrameFits, BeamInv
  PROVE  /\ Back(p) <=> p.hcnt = HSyncEnd
         /\ Up(p) <=> p.hcnt = HSyncEnd - 1 /\ p.vcnt = VSync + 2
BY FrameConstants DEF Back, Up, BeamInv, HSync

LEMMA ColKept ==
  ASSUME FrameFits, BeamInv, NEW n, Steady(n)
  PROVE  n.col = (IF n.vcnt < VRes /\ n.hcnt \in 4 .. HSyncEnd THEN Upto(n.hcnt) ELSE 0)
<1>1. /\ p.hcnt \in 0 .. HTot /\ p.vcnt \in 0 .. VTot
      /\ p.rde <=> p.hcnt \in 1 .. HRes /\ p.vcnt < VRes
      /\ p.col = (IF p.vcnt < VRes /\ p.hcnt \in 4 .. HSyncEnd THEN Upto(p.hcnt) ELSE 0)
      /\ n.hcnt = (IF p.hcnt < HTot THEN p.hcnt + 1 ELSE 0)
      /\ n.vcnt = (IF p.hcnt < HTot THEN p.vcnt ELSE IF p.vcnt < VTot THEN p.vcnt + 1 ELSE 0)
      /\ n.col = (IF p.hcnt % 8 = 3 /\ p.rde THEN p.col + 1
                  ELSE IF p.hcnt = HSyncEnd THEN 0 ELSE p.col)
  BY BacksUps DEF BeamInv, Steady, BeamDoes, Advances, Turns
<1>2. CASE p.hcnt >= HSyncEnd BY <1>1, <1>2, FrameConstants
<1>3. CASE p.hcnt < HSyncEnd /\ p.vcnt >= VRes BY <1>1, <1>3, FrameConstants
<1>4. CASE p.hcnt < HSyncEnd /\ p.vcnt < VRes
  <2>1. n.hcnt = p.hcnt + 1 /\ n.vcnt = p.vcnt BY <1>1, <1>4, FrameConstants
  <2>2. CASE p.hcnt < 3 BY <1>1, <1>4, <2>1, <2>2, FrameConstants
  <2>3. CASE p.hcnt >= 3 /\ p.hcnt < HRes
    <3>1. /\ HRes = 8 * Cols /\ Cols \in Nat /\ HRes + 1 < HSyncEnd /\ HSyncEnd \in Nat
          /\ HRes \in Nat
      BY FrameConstants, FrameProducts
    <3>2. p.hcnt \in Nat BY <1>1
    <3>3. p.rde /\ p.hcnt # HSyncEnd BY <1>1, <1>4, <2>3, <3>1
    <3>4. CASE p.hcnt = 3
      <4>1. p.col = 0 /\ n.col = 1 /\ n.hcnt = 4 BY <1>1, <2>1, <3>3, <3>4
      <4>2. Upto(4) = 1 BY <3>1, <3>4, <2>3 DEF Upto
      <4>3. 4 \in 4 .. HSyncEnd BY <2>3, <3>1, <3>4
      <4> QED BY <1>4, <2>1, <4>1, <4>2, <4>3
    <3>5. CASE p.hcnt > 3
      <4>0. p.hcnt \in 4 .. HSyncEnd BY <2>3, <3>1, <3>2, <3>5
      <4>1. p.col = (p.hcnt + 4) \div 8 BY <1>1, <1>4, <2>3, <4>0 DEF Upto
      <4>2. n.col = (IF p.hcnt % 8 = 3 THEN p.col + 1 ELSE p.col) BY <1>1, <3>3
      <4>3. n.col = (n.hcnt + 4) \div 8 BY <2>1, <3>2, <4>1, <4>2
      <4>4. n.hcnt = HRes => n.col = Cols BY <3>1, <4>3
      <4>5. n.hcnt \in 4 .. HSyncEnd /\ n.hcnt <= HRes BY <2>1, <2>3, <3>1, <4>0
      <4>6. n.col = Upto(n.hcnt) BY <3>1, <4>3, <4>4, <4>5 DEF Upto
      <4> QED BY <1>4, <2>1, <3>1, <4>5, <4>6, FrameConstants
    <3> QED BY <2>3, <3>2, <3>4, <3>5
  <2>4. CASE p.hcnt >= 3 /\ p.hcnt >= HRes
    <3>1. /\ HRes = 8 * Cols /\ Cols \in Nat /\ HRes >= 8 /\ HRes + 1 < HSyncEnd
          /\ HSyncEnd \in Nat /\ HRes \in Nat /\ Cols > 0
      BY FrameConstants, FrameProducts
    <3>2. p.hcnt \in 8 .. HSyncEnd - 1 BY <1>1, <1>4, <2>4, <3>1
    <3>3. ~(p.hcnt % 8 = 3 /\ p.rde) BY <1>1, <2>4, <3>1, <3>2
    <3>4. p.col = Cols
      <4>1. Upto(p.hcnt) = Cols BY <2>4, <3>1, <3>2 DEF Upto
      <4> QED BY <1>1, <1>4, <3>1, <3>2, <4>1
    <3>5. n.col = Cols BY <1>1, <3>1, <3>2, <3>3, <3>4
    <3>6. n.hcnt \in 4 .. HSyncEnd /\ ~(n.hcnt < HRes) BY <2>1, <2>4, <3>1, <3>2
    <3>7. Upto(n.hcnt) = Cols BY <3>6 DEF Upto
    <3> QED BY <1>4, <2>1, <3>5, <3>6, <3>7
  <2> QED BY <1>1, <2>2, <2>3, <2>4, FrameConstants
<1> QED BY <1>1, <1>2, <1>3, <1>4, FrameConstants

LEMMA BeamStarts ==
  ASSUME FrameFits, Init
  PROVE  BeamInv
<1>1. /\ p.hcnt = 0 /\ p.vcnt = VRes - 1 /\ ~p.rhsync /\ ~p.rvsync /\ ~p.rvsyncp /\ ~p.rde
      /\ p.pipe = 0 /\ p.col = 0 /\ BeamFields \subseteq DOMAIN p
  BY DEF Init, PixReset, BeamFields
<1> QED BY <1>1, FrameConstants DEF BeamInv

LEMMA BeamKept ==
  ASSUME FrameFits, BeamInv, ShapeInv, Next
  PROVE  /\ BeamInv'
         /\ odd => BeamDoes(p, c, text, font, p')
         /\ ~odd => p' = p /\ text' = text /\ font' = font
<1>1. PICK a : Edges(a) BY DEF Next, Accesses, Waits
<1>2. CASE ~odd BY <1>1, <1>2 DEF Edges, BeamInv
<1>3. CASE odd
  <2>0. p.initCnt \in Nat BY NatConstants DEF ShapeInv
  <2>1. p.hcnt \in Nat /\ p.vcnt \in Nat BY FrameConstants DEF BeamInv
  <2>2. Steady(p')
    BY <1>1, <1>3, <2>0, <2>1, BeamMoves, FrameConstants DEF Edges, BeamInv, ShapeInv, Steady
  <2>3. BeamInv'
    <3>1. BeamFields \subseteq DOMAIN p' BY <2>2 DEF Steady, BeamDoes
    <3> QED BY <2>2, <3>1, PlaceKept, SyncKept, PipeKept, ColKept DEF BeamInv
  <2> QED BY <1>3, <2>2, <2>3 DEF Steady
<1> QED BY <1>2, <1>3

-----------------------------------------------------------------------------
(* The terminal's lines and its mode.                                      *)
LEMMA CoreMode ==
  ASSUME NEW r, NEW q, NEW a, CoreFields \cup {"mode"} \subseteq DOMAIN r, IsCommand(a)
  PROVE  LET n == CoreEdge(r, q, a)
         IN "mode" \in DOMAIN n /\ n.mode = (IF a.cmd = "mode" THEN a.on ELSE r.mode)
<1> DEFINE w == [r EXCEPT !.keep = FALSE, !.en = FALSE, !.data = 0,
                          !.fontWe = @ /\ ~q.release, !.ok = @ \/ q.rdpp]
           u == CASE a.cmd = "none" -> Kept(r, w)
                  [] a.cmd = "read" -> [w EXCEPT !.waits = TRUE]
                  [] OTHER -> Written(w, a)
           n == Answered(r, q, u)
           Modes(v, m) == "mode" \in DOMAIN v /\ v.mode = m
<1>1. CoreEdge(r, q, a) = n BY DEF CoreEdge
<1>2. Modes(w, r.mode) OBVIOUS
<1> HIDE DEF w
<1>3. Modes(u, IF a.cmd = "mode" THEN a.on ELSE r.mode)
  <2>1. CASE a.cmd = "none"
    <3>1. u = Kept(r, w) BY <2>1
    <3> QED BY <1>2, <2>1, <3>1 DEF Kept
  <2>2. CASE a.cmd = "read"
    <3>1. u = [w EXCEPT !.waits = TRUE] BY <2>2
    <3> QED BY <1>2, <2>2, <3>1
  <2>3. CASE a.cmd \notin {"none", "read"}
    <3> DEFINE v == [w EXCEPT !.posEn = FALSE, !.keep = TRUE]
    <3>1. u = Written(w, a) BY <2>3
    <3>2. Modes(v, r.mode) BY <1>2
    <3>3. CASE a.cmd = "char"
      <4>1. u = IF a.char # 0 THEN [v EXCEPT !.char = a.char] ELSE v
        BY <3>1, <3>3 DEF Written
      <4> HIDE DEF v, u
      <4> QED BY <3>2, <3>3, <4>1
    <3>4. CASE a.cmd = "at"
      <4>1. u = Placed(v, a) BY <3>1, <3>4 DEF Written
      <4> HIDE DEF v, u
      <4> QED BY <3>2, <3>4, <4>1 DEF Placed
    <3>5. CASE a.cmd = "mode"
      <4>1. u = [v EXCEPT !.mode = a.on] BY <3>1, <3>5 DEF Written
      <4> HIDE DEF v, u
      <4> QED BY <3>2, <3>5, <4>1
    <3>6. CASE a.cmd = "cls"
      <4>1. u = [v EXCEPT !.cls = TRUE] BY <3>1, <3>6 DEF Written
      <4> HIDE DEF v, u
      <4> QED BY <3>2, <3>6, <4>1
    <3>7. CASE a.cmd = "font"
      <4>1. u = [v EXCEPT !.fontAddr = a.glyph, !.fontData = a.data, !.fontWe = TRUE]
        BY <3>1, <3>7 DEF Written
      <4> HIDE DEF v, u
      <4> QED BY <3>2, <3>7, <4>1
    <3>8. CASE a.cmd = "nop"
      <4>1. u = v BY <3>1, <3>8 DEF Written
      <4> HIDE DEF v, u
      <4> QED BY <3>2, <3>8, <4>1
    <3> QED BY <2>3, <3>3, <3>4, <3>5, <3>6, <3>7, <3>8 DEF IsCommand
  <2> QED BY <2>1, <2>2, <2>3
<1> HIDE DEF u
<1>4. Modes(n, u.mode) BY <1>3 DEF Answered
<1> QED BY <1>1, <1>3, <1>4

LEMMA TypedLines ==
  ASSUME NEW t, ModeFields \subseteq DOMAIN t, NEW char
  PROVE  LET u == Typed(t, char)
         IN /\ ModeFields \subseteq DOMAIN u /\ u.mode = t.mode
            /\ u.line \in {t.line, NextLine(t.line)}
            /\ u.end \in {t.end, NextLine(t.line)}
            /\ u.start \in {t.start, NextLine(NextLine(t.line))}
<1> DEFINE here == Cell(t.line, t.col)
           v == [t EXCEPT !.over = t.text[here],
                          !.text = IF char = ReadChar THEN @ ELSE [@ EXCEPT ![here] = char]]
           next == NextLine(t.line)
           u == Typed(t, char)
<1>1. /\ ModeFields \subseteq DOMAIN v /\ v.mode = t.mode /\ v.line = t.line
      /\ v.end = t.end /\ v.start = t.start
  BY DEF ModeFields, TermFields
<1>2. \/ u = t \/ u = [v EXCEPT !.col = @ + 1]
      \/ u = [v EXCEPT !.line = next, !.col = 0, !.end = next,
                       !.start = IF next = @ THEN NextLine(next) ELSE @]
  BY DEF Typed
<1> HIDE DEF v, u
<1>3. /\ ModeFields \subseteq DOMAIN u /\ u.mode = t.mode
      /\ u.line \in {t.line, NextLine(t.line)}
      /\ u.end \in {t.end, NextLine(t.line)}
      /\ u.start \in {t.start, NextLine(NextLine(t.line))}
  BY <1>1, <1>2 DEF ModeFields, TermFields
<1> QED BY <1>3 DEF u

AreLines(t) == {t.line, t.start, t.end} \subseteq 0 .. Lines - 1

LEMMA ToldLines ==
  ASSUME NEW t, ModeFields \subseteq DOMAIN t, AreLines(t), NEW a \in Commands
  PROVE  /\ ModeFields \subseteq DOMAIN Told(t, a) /\ AreLines(Told(t, a))
         /\ Told(t, a).mode = (IF a.cmd = "mode" THEN a.on ELSE t.mode)
<1>0. Lines \in Nat /\ Lines > 0 BY NatConstants
<1>1. \A i \in 0 .. Lines - 1 : NextLine(i) \in 0 .. Lines - 1 BY <1>0 DEF NextLine
<1>2. CASE a.cmd \in {"char", "at"}
  <2> DEFINE u == Positioned(t, a)
  <2>1. Told(t, a) = Typed(u, a.char) BY <1>2 DEF Told
  <2>2. ModeFields \subseteq DOMAIN u /\ AreLines(u) /\ u.mode = t.mode
    <3>1. CASE a.cmd = "at"
      <4>1. a.line \in 0 .. Lines - 1 BY <3>1 DEF Commands
      <4>2. u = [t EXCEPT !.line = a.line, !.col = a.col, !.start = 0, !.end = Lines - 1]
        BY <3>1 DEF Positioned
      <4>3. /\ ModeFields \subseteq DOMAIN u /\ u.mode = t.mode
            /\ u.line = a.line /\ u.start = 0 /\ u.end = Lines - 1
        BY <4>2 DEF ModeFields, TermFields
      <4> HIDE DEF u
      <4> QED BY <1>0, <4>1, <4>3 DEF AreLines
    <3>2. CASE a.cmd # "at" BY <3>2 DEF Positioned
    <3> QED BY <3>1, <3>2
  <2> HIDE DEF u
  <2> DEFINE n == Typed(u, a.char)
  <2>3. /\ ModeFields \subseteq DOMAIN n /\ n.mode = u.mode
        /\ n.line \in {u.line, NextLine(u.line)} /\ n.end \in {u.end, NextLine(u.line)}
        /\ n.start \in {u.start, NextLine(NextLine(u.line))}
    BY <2>2, TypedLines
  <2> HIDE DEF n
  <2>4. AreLines(n) BY <1>1, <2>2, <2>3 DEF AreLines
  <2> QED BY <1>2, <2>1, <2>2, <2>3, <2>4 DEF n
<1>3. CASE a.cmd = "cls"
  <2>1. Told(t, a) = [t EXCEPT !.line = 0, !.col = 0, !.start = 0, !.end = 0]
    BY <1>3 DEF Told
  <2> QED BY <1>0, <1>3, <2>1 DEF AreLines, ModeFields, TermFields
<1>4. CASE a.cmd = "mode"
  <2>1. Told(t, a) = [t EXCEPT !.mode = a.on] BY <1>4 DEF Told
  <2> QED BY <1>4, <2>1 DEF AreLines, ModeFields, TermFields
<1>5. CASE a.cmd = "font"
  <2>1. Told(t, a) = [t EXCEPT !.font[a.glyph] = a.data] BY <1>5 DEF Told
  <2> QED BY <1>5, <2>1 DEF AreLines, ModeFields, TermFields
<1>6. CASE a.cmd \in {"read", "nop"}
  <2>1. Told(t, a) = t BY <1>6 DEF Told
  <2> QED BY <1>6, <2>1
<1> QED BY <1>2, <1>3, <1>4, <1>5, <1>6, CommandsAre DEF IsCommand

GreetedLines(i) ==
  ModeFields \subseteq DOMAIN Greeted[i] /\ Greeted[i].mode = TRUE /\ Greeted[i].end \in 0 .. i

LEMMA GreetedLinesUpTo ==
  ASSUME NEW i \in 0 .. Len(InitMsg)
  PROVE  GreetedLines(i)
<1> DEFINE bad == {k \in 0 .. Len(InitMsg) : ~GreetedLines(k)}
<1>1. SUFFICES ASSUME bad # {} PROVE FALSE OBVIOUS
<1>0. bad \in SUBSET Nat BY NatConstants
<1>2. PICK m \in bad : \A y \in bad : m <= y
  <2> HIDE DEF bad
  <2> QED BY <1>0, <1>1, Least
<1>3. m # 0
  <2>1. GreetedLines(0) BY GreetedStep DEF GreetedLines, TermInit, ModeFields, TermFields
  <2> QED BY <1>2, <2>1
<1>4. m \in 1 .. Len(InitMsg) /\ m - 1 \in 0 .. Len(InitMsg) /\ m - 1 \notin bad
  BY <1>2, <1>3, NatConstants
<1>5. GreetedLines(m - 1) BY <1>4
<1> DEFINE t == Greeted[m - 1]
           u == Greeted[m]
<1>6. u = Typed(t, InitMsg[m]) BY <1>4, GreetedStep
<1>7. t.line \in 0 .. m - 1 BY <1>4, GreetedUpTo DEF GreetedAt
<1>8. ModeFields \subseteq DOMAIN u /\ u.mode = t.mode /\ u.end \in {t.end, NextLine(t.line)}
  BY <1>5, <1>6, TypedLines DEF GreetedLines
<1>9. NextLine(t.line) = t.line + 1 BY <1>4, <1>7, NatConstants DEF NextLine
<1>10. t.mode = TRUE /\ t.end \in 0 .. m - 1 BY <1>5 DEF GreetedLines
<1> HIDE DEF t
<1>11. u.end \in 0 .. m BY <1>4, <1>7, <1>8, <1>9, <1>10, NatConstants
<1>12. GreetedLines(m) BY <1>8, <1>10, <1>11 DEF GreetedLines
<1> QED BY <1>2, <1>12

LEMMA ModeStarts ==
  ASSUME Init
  PROVE  ModeInv
<1>1. c = CoreReset /\ term = Greeted[Len(InitMsg)] BY DEF Init
<1>2. GreetedAt(Len(InitMsg)) /\ GreetedLines(Len(InitMsg))
  BY GreetedUpTo, GreetedLinesUpTo, NatConstants
<1>3. "mode" \in DOMAIN c /\ c.mode = TRUE BY <1>1 DEF CoreReset
<1>4. term.line \in 0 .. Lines - 1 /\ term.start \in 0 .. Lines - 1 /\ term.end \in 0 .. Lines - 1
  BY <1>1, <1>2, NatConstants DEF GreetedAt, GreetedLines
<1> QED BY <1>1, <1>2, <1>3, <1>4 DEF ModeInv, GreetedLines

LEMMA ModeKept ==
  ASSUME ModeInv, ShapeInv, ProgramInv, Next
  PROVE  ModeInv'
<1>0. CoreFields \cup {"mode"} \subseteq DOMAIN c BY DEF ModeInv, ShapeInv
<1>1. CASE Waits
  <2>1. IsCommand(Idle) /\ Idle.cmd # "mode" BY DEF IsCommand, Idle
  <2>2. c' = CoreEdge(c, p, Idle) /\ term' = term BY <1>1 DEF Waits, Edges
  <2>3. "mode" \in DOMAIN c' /\ c'.mode = c.mode BY <1>0, <2>1, <2>2, CoreMode
  <2> QED BY <2>2, <2>3 DEF ModeInv
<1>2. CASE Accesses
  <2> DEFINE a == Head(todo)
  <2>1. a \in Commands BY <1>2 DEF Accesses, ProgramInv
  <2>2. c' = CoreEdge(c, p, a) /\ term' = Told(term, a) BY <1>2 DEF Accesses, Edges
  <2>3. IsCommand(a) BY <2>1, CommandsAre
  <2> HIDE DEF a
  <2>4. "mode" \in DOMAIN c' /\ c'.mode = (IF a.cmd = "mode" THEN a.on ELSE c.mode)
    BY <1>0, <2>2, <2>3, CoreMode
  <2>5. /\ ModeFields \subseteq DOMAIN term' /\ AreLines(term')
        /\ term'.mode = (IF a.cmd = "mode" THEN a.on ELSE term.mode)
    BY <2>1, <2>2, ToldLines DEF ModeInv, AreLines
  <2> QED BY <2>4, <2>5 DEF ModeInv, AreLines
<1> QED BY <1>1, <1>2 DEF Next

-----------------------------------------------------------------------------
(* A settled console nothing addresses is the terminal, and stays settled. *)
IsTerm ==
  /\ p.char = 0 /\ ~c.fontWe
  /\ text = term.text /\ font = term.font
  /\ p.curLine = term.line /\ p.curCol = term.col
  /\ p.startLine = term.start /\ p.endLine = term.end

LEMMA SettledStays ==
  ASSUME ConsoleInv, KeepsDistances, Settled, Waits
  PROVE  /\ IsTerm /\ Settled'
         /\ term' = term /\ fresh' = (fresh \/ FrameStarts)
<1>1. AtRest /\ WrittenAsTold BY SettledRests, SettledIsTold
<1>2. IsTerm BY <1>1 DEF AtRest, WrittenAsTold, IsTerm
<1>3. Settled'
  <2>1. since = Settle /\ ~reading BY DEF Settled
  <2>2. since' = Later(since) /\ reading' = FALSE BY <2>1 DEF Waits
  <2>3. Later(Settle) = Settle BY NatConstants DEF Later
  <2> QED BY <2>1, <2>2, <2>3 DEF Settled
<1>4. term' = term /\ fresh' = (fresh \/ FrameStarts) BY DEF Waits
<1> QED BY <1>2, <1>3, <1>4

-----------------------------------------------------------------------------
(* The row of pixels.                                                      *)
LEMMA DivNext ==
  ASSUME NEW n \in Nat, NEW x \in Nat, n > 0
  PROVE  /\ x % n \in 0 .. n - 1 /\ x \div n \in Nat
         /\ x % n = n - 1 => (x + 1) \div n = x \div n + 1 /\ (x + 1) % n = 0
         /\ x % n # n - 1 => (x + 1) \div n = x \div n /\ (x + 1) % n = (x % n) + 1
OBVIOUS

LEMMA ModWrap ==
  ASSUME NEW n \in Nat, NEW x \in Int, n > 0
  PROVE  /\ x % n \in 0 .. n - 1
         /\ x \in 0 .. n - 1 => x % n = x
         /\ x \in n .. 2 * n - 1 => x % n = x - n
         /\ x \in (-n) .. (-1) => x % n = x + n
OBVIOUS

LEMMA DivBound ==
  ASSUME NEW n \in Nat, NEW x \in Nat, NEW m \in Nat, n > 0
  PROVE  x < n * m => x \div n < m
OBVIOUS

(* The next line of the text, and when it is the one behind the last.      *)
LineWraps(n, s, e, k) ==
  /\ (s + k + 1) % n = (IF (s + k) % n = n - 1 THEN 0 ELSE ((s + k) % n) + 1)
  /\ (s + k) % n = e <=> k = (e - s) % n

LEMMA LineNext ==
  ASSUME NEW n \in Nat, NEW s \in 0 .. n - 1, NEW e \in 0 .. n - 1, NEW k \in 0 .. n - 1
  PROVE  LineWraps(n, s, e, k)
<1>1. n > 0 OBVIOUS
<1>2. s + k \in 0 .. 2 * n - 2 /\ e - s \in (1 - n) .. n - 1 OBVIOUS
<1>3. (s + k) % n = (IF s + k < n THEN s + k ELSE s + k - n) BY <1>1, <1>2, ModWrap
<1>4. (e - s) % n = (IF e - s >= 0 THEN e - s ELSE e - s + n) BY <1>1, <1>2, ModWrap
<1>5. (s + k + 1) % n = (IF s + k + 1 < n THEN s + k + 1 ELSE s + k + 1 - n)
  BY <1>1, <1>2, ModWrap
<1> QED BY <1>2, <1>3, <1>4, <1>5 DEF LineWraps

(* The beam goes up to the first line of the text.                         *)
LEMMA RowUp ==
  ASSUME FrameFits, BeamInv, ModeInv, IsTerm, Steady(p'), BeamInv', Up(p)
  PROVE  /\ p'.hcnt = HSyncEnd /\ p'.vcnt = VSync + 2
         /\ AtRow(p', term)
<1>1. /\ p.hcnt = HSyncEnd - 1 /\ p.vcnt = VSync + 2 BY BacksUps
<1>2. /\ p'.hcnt = HSyncEnd /\ p'.vcnt = VSync + 2
  BY <1>1, FrameConstants DEF Steady, BeamDoes, Advances
<1>3. Row(p') = 0 BY <1>2, FrameConstants DEF Row
<1>4. /\ p'.div = 0 /\ p'.line = term.start /\ ~p'.bufBlank
  BY DEF Steady, BeamDoes, Turns, IsTerm
<1>5. /\ 0 % Rows = 0 /\ 0 \div Rows = 0 BY FrameConstants
<1>6. /\ term.start \in 0 .. Lines - 1 /\ term.end \in 0 .. Lines - 1 BY DEF ModeInv
<1>7. (term.start + 0) % Lines = term.start BY <1>6, FrameConstants, ModWrap
<1>8. ~Below(term, 0)
  <2>1. term.end - term.start \in Int BY <1>6, FrameConstants
  <2>2. (term.end - term.start) % Lines \in 0 .. Lines - 1 BY <2>1, FrameConstants, ModWrap
  <2> QED BY <2>2, FrameConstants DEF Below
<1> QED BY <1>2, <1>3, <1>4, <1>5, <1>7, <1>8 DEF AtRow

(* It comes to the next row of pixels.                                     *)
LEMMA RowBack ==
  ASSUME FrameFits, BeamInv, ModeInv, IsTerm, Steady(p'), BeamInv', AtRow(p, term),
         Back(p), p.vcnt < VRes
  PROVE  AtRow(p', term)
<1>1. /\ p.hcnt = HSyncEnd /\ p.vcnt \in Nat /\ HSyncEnd \in Nat /\ HSyncEnd + 1 < HTot
      /\ HTot \in Nat /\ VRes \in Nat /\ VRes <= VSync /\ VSync \in Nat
  BY BacksUps, FrameConstants DEF BeamInv
<1>2. p'.hcnt = HSyncEnd + 1 /\ p'.vcnt = p.vcnt /\ p.inFrame /\ ~Up(p)
  <2>1. p'.hcnt = HSyncEnd + 1 /\ p'.vcnt = p.vcnt BY <1>1 DEF Steady, BeamDoes, Advances
  <2>2. p.inFrame
    <3>1. p.hcnt >= 1 BY <1>1, FrameConstants
    <3> QED BY <3>1 DEF BeamInv
  <2>3. ~Up(p) BY <1>1, BacksUps
  <2> QED BY <2>1, <2>2, <2>3
<1> DEFINE x == p.vcnt
           k == x \div Rows
<1>3. Row(p) = x /\ Row(p') = x + 1 BY <1>1, <1>2 DEF Row
<1>4. /\ Rows \in Nat /\ Rows > 0 /\ Lines \in Nat /\ Lines > 0 BY FrameConstants
<1>5. k \in 0 .. Lines - 1
  <2>1. x < Rows * Lines BY FrameProducts
  <2>2. k \in Nat BY <1>1, <1>4, DivNext
  <2>3. k < Lines BY <1>1, <1>4, <2>1, DivBound
  <2> HIDE DEF k
  <2> QED BY <1>4, <2>2, <2>3
<1>6. /\ term.start \in 0 .. Lines - 1 /\ term.end \in 0 .. Lines - 1
      /\ c.mode = term.mode
  BY DEF ModeInv
<1>7. /\ p.div = x % Rows /\ p.line = (term.start + k) % Lines
      /\ p.bufBlank <=> Below(term, k)
  BY <1>3 DEF AtRow
<1>8. /\ NextLineBack(p) <=> p.div = Rows - 1
      /\ p'.div = (IF p.div = Rows - 1 THEN 0 ELSE p.div + 1)
      /\ p'.line = (IF p.div = Rows - 1 THEN NextLine(p.line) ELSE p.line)
      /\ p'.bufBlank <=> IF p.div = Rows - 1 /\ p.line = term.end THEN term.mode ELSE p.bufBlank
  BY <1>2, <1>6 DEF Steady, BeamDoes, Turns, NextLineBack, IsTerm
<1>9. p'.div = (x + 1) % Rows
  <2>1. (x + 1) % Rows = (IF x % Rows = Rows - 1 THEN 0 ELSE (x % Rows) + 1)
    BY <1>1, <1>4, DivNext
  <2> QED BY <1>7, <1>8, <2>1
<1>10. CASE p.div = Rows - 1
  <2>1. (x + 1) \div Rows = k + 1 BY <1>1, <1>4, <1>7, <1>10, DivNext
  <2> HIDE DEF k
  <2>2. /\ (term.start + k + 1) % Lines = NextLine(p.line)
        /\ p.line = term.end <=> k = (term.end - term.start) % Lines
    <3>1. LineWraps(Lines, term.start, term.end, k) BY <1>4, <1>5, <1>6, LineNext
    <3> QED BY <1>7, <3>1 DEF LineWraps, NextLine
  <2>3. term.start + (k + 1) = term.start + k + 1 BY <1>4, <1>5, <1>6
  <2>4. p'.bufBlank <=> Below(term, k + 1)
    <3>1. PICK e \in Int : e = (term.end - term.start) % Lines
      <4>1. term.end - term.start \in Int BY <1>4, <1>6
      <4> QED BY <1>4, <4>1, ModWrap
    <3>2. p'.bufBlank <=> IF k = e THEN term.mode ELSE term.mode /\ k > e
      BY <1>7, <1>8, <1>10, <2>2, <3>1 DEF Below
    <3>3. k + 1 > e <=> k = e \/ k > e BY <1>4, <1>5, <3>1
    <3> QED BY <3>1, <3>2, <3>3 DEF Below
  <2> QED BY <1>3, <1>8, <1>9, <1>10, <2>1, <2>2, <2>3, <2>4 DEF AtRow
<1>11. CASE p.div # Rows - 1
  <2>1. (x + 1) \div Rows = k BY <1>1, <1>4, <1>7, <1>11, DivNext
  <2> HIDE DEF k
  <2> QED BY <1>3, <1>7, <1>8, <1>9, <1>11, <2>1 DEF AtRow
<1> QED BY <1>10, <1>11

(* Elsewhere it stays where it is.                                         *)
LEMMA RowStays ==
  ASSUME FrameFits, BeamInv, Steady(p'), BeamInv', ~Up(p), InText(p'),
         ~(Back(p) /\ p.vcnt < VRes)
  PROVE  /\ InText(p) /\ Row(p') = Row(p)
         /\ p'.div = p.div /\ p'.line = p.line /\ (p'.bufBlank <=> p.bufBlank)
<1>1. /\ {HTot, VTot, HSyncEnd, VRes, VSync} \subseteq Nat
      /\ p.hcnt \in 0 .. HTot /\ p.vcnt \in 0 .. VTot
      /\ HSyncEnd + 1 < HTot /\ HSyncEnd > 1 /\ VRes > 0 /\ VRes <= VSync /\ VSync + 2 <= VTot
      /\ p'.hcnt = (IF p.hcnt < HTot THEN p.hcnt + 1 ELSE 0)
      /\ p'.vcnt = (IF p.hcnt < HTot THEN p.vcnt ELSE IF p.vcnt < VTot THEN p.vcnt + 1 ELSE 0)
  BY FrameConstants DEF BeamInv, Steady, BeamDoes, Advances
<1>2. ~(p.hcnt = HSyncEnd - 1 /\ p.vcnt = VSync + 2) /\ ~(p.hcnt = HSyncEnd /\ p.vcnt < VRes)
  BY BacksUps
<1>3. InText(p) BY <1>1, <1>2 DEF InText
<1>4. Row(p') = Row(p)
  <2>1. CASE p.hcnt < HTot BY <1>1, <1>2, <2>1 DEF Row
  <2>2. CASE p.hcnt = HTot /\ p.vcnt < VRes
    <3>1. p'.vcnt = p.vcnt + 1 /\ p'.hcnt = 0 /\ p.hcnt > HSyncEnd BY <1>1, <2>2
    <3>2. p'.vcnt < VRes BY <1>1, <2>2, <3>1 DEF InText
    <3> QED BY <1>1, <2>2, <3>1, <3>2 DEF Row
  <2>3. CASE p.hcnt = HTot /\ p.vcnt >= VRes BY <1>1, <2>3 DEF Row
  <2> QED BY <1>1, <2>1, <2>2, <2>3
<1>5. Back(p) => ~p.inFrame
  <2>1. Back(p) => p.hcnt = HSyncEnd BY BacksUps
  <2> QED BY <1>1, <1>2, <2>1 DEF BeamInv
<1>6. ~NextLineBack(p) BY <1>5 DEF NextLineBack
<1> QED BY <1>3, <1>4, <1>5, <1>6 DEF Steady, BeamDoes, Turns

LEMMA RowKept ==
  ASSUME FrameFits, BeamInv, ModeInv, IsTerm, Steady(p'), BeamInv', InText(p'),
         Up(p) \/ (InText(p) => AtRow(p, term))
  PROVE  AtRow(p', term)
<1>1. CASE Up(p) BY <1>1, RowUp
<1>2. CASE ~Up(p) /\ Back(p) /\ p.vcnt < VRes
  <2>1. InText(p) BY <1>2 DEF InText
  <2> QED BY <1>2, <2>1, RowBack
<1>3. CASE ~Up(p) /\ ~(Back(p) /\ p.vcnt < VRes)
  <2>1. AtRow(p, term) BY <1>3, RowStays
  <2> QED BY <1>3, <2>1, RowStays DEF AtRow
<1> QED BY <1>1, <1>2, <1>3

-----------------------------------------------------------------------------
(* The character.  A line that has ended stays so.                         *)
LEMMA EndedNext ==
  ASSUME NEW t, NEW line, NEW k \in Nat
  PROVE  /\ Ended(t, line, k) => Ended(t, line, k + 1)
         /\ Ended(t, line, k) <=>
              t.mode /\ (EndsAt(t, line, k) \/ (k > 0 /\ Ended(t, line, k - 1)))
<1>1. 0 .. k \subseteq 0 .. k + 1 OBVIOUS
<1>2. Ended(t, line, k) => Ended(t, line, k + 1) BY <1>1, Zenon DEF Ended
<1>3. CASE k = 0
  <2>1. 0 .. k = {0} BY <1>3
  <2>2. ~(k > 0) BY <1>3
  <2>3. Ended(t, line, k) <=> t.mode /\ EndsAt(t, line, k) BY <1>3, <2>1, Zenon DEF Ended
  <2> QED BY <1>2, <2>2, <2>3
<1>4. CASE k > 0
  <2>1. 0 .. k = (0 .. k - 1) \cup {k} BY <1>4
  <2>2. Ended(t, line, k) <=> t.mode /\ (EndsAt(t, line, k) \/ Ended(t, line, k - 1))
    BY <2>1, Zenon DEF Ended
  <2> QED BY <1>2, <1>4, <2>2
<1> QED BY <1>3, <1>4

(* What an edge does to the character while its line lasts.                *)
CharMoves ==
  /\ p'.line = p.line /\ p'.div = p.div /\ (p'.bufBlank <=> p.bufBlank)
  /\ p'.lineBlank <=>
       IF Meets(p) \/ (p.pipe = 2 /\ p.bufChar = NewLine) THEN term.mode ELSE p.lineBlank
  /\ Meets(p) <=> p.pipe = 3 /\ p.line = term.line /\ p.col = term.col
  /\ p.col \in Nat /\ p'.col = (IF p.hcnt % 8 = 3 /\ p.rde THEN p.col + 1 ELSE p.col)
  /\ p'.pipe = (IF Slot(p) THEN 1 ELSE IF p.pipe \in 1 .. 3 THEN p.pipe + 1 ELSE 0)
  /\ Slot(p) => p'.addr = Cell(p.line, p.col)
  /\ p'.bufChar = term.text[p.addr]
  /\ p.pipe = 2 => p'.fontAddr = <<Glyph(p.bufChar), p.div>>
  /\ p'.fontRow = term.font[p.fontAddr]
  /\ p'.charLine = (IF p.pipe # 4 THEN p.charLine
                    ELSE IF p.lineBlank \/ p.bufBlank THEN Blank ELSE p.fontRow)

(* Where the beam is in it.                                                *)
CharPlace ==
  /\ p.hcnt \in 0 .. HTot /\ HTot \in Nat /\ HRes \in Nat /\ HSyncEnd \in Nat
  /\ LastSlot \in Nat /\ HRes < HSyncEnd /\ HSyncEnd < LastSlot /\ LastSlot % 8 = 4
  /\ HTot \in LastSlot + 3 .. LastSlot + 7
  /\ p'.hcnt = (IF p.hcnt < HTot THEN p.hcnt + 1 ELSE 0)
  /\ Ahead(p) \/ p.hcnt <= HRes
  /\ ~Ahead(p) => (p.rde <=> p.hcnt >= 1)
  /\ Ahead(p) => ~p.rde
  /\ p.pipe \in 0 .. 4
  /\ p.pipe = 0 => p.hcnt < 4 \/ p.hcnt % 8 \in 1 .. 4
  /\ p.pipe \in 1 .. 3 => p.hcnt >= 4 /\ p.hcnt % 8 = p.pipe + 4
  /\ p.pipe = 4 => p.hcnt % 8 = 0 /\ (p.hcnt >= 4 \/ p.hcnt = 0)

LEMMA CharMoved ==
  ASSUME FrameFits, BeamInv, ModeInv, IsTerm, Steady(p'), Fetching(p)
  PROVE  CharMoves
<1>1. ~Back(p) /\ ~Up(p)
  <2>1. p.hcnt > HSyncEnd \/ p.hcnt <= HRes BY DEF Fetching, Ahead
  <2>2. p.hcnt # HSyncEnd /\ p.hcnt # HSyncEnd - 1 BY <2>1, FrameConstants DEF BeamInv
  <2> QED BY <2>2, BacksUps
<1>2. ~NextLineBack(p) BY <1>1 DEF NextLineBack
<1>3. p.col \in Nat
  <2>1. CASE p.vcnt < VRes /\ p.hcnt \in 4 .. HSyncEnd
    <3>1. p.hcnt \in Nat /\ Cols \in Nat BY FrameConstants DEF BeamInv
    <3>2. Upto(p.hcnt) \in Nat BY <3>1 DEF Upto
    <3> QED BY <2>1, <3>2 DEF BeamInv
  <2>2. CASE ~(p.vcnt < VRes /\ p.hcnt \in 4 .. HSyncEnd) BY <2>2 DEF BeamInv
  <2> QED BY <2>1, <2>2
<1>4. c.mode = term.mode BY DEF ModeInv
<1>5. Draws(p, c, p') /\ Turns(p, c, p') /\ Fetches(p, c, term.text, term.font, p')
  BY DEF Steady, BeamDoes, IsTerm
<1>6. /\ p'.lineBlank <=>
           IF Meets(p) \/ (p.pipe = 2 /\ p.bufChar = NewLine) THEN term.mode ELSE p.lineBlank
      /\ p'.charLine = (IF p.pipe # 4 THEN p.charLine
                        ELSE IF p.lineBlank \/ p.bufBlank THEN Blank ELSE p.fontRow)
  BY <1>1, <1>4, <1>5 DEF Draws
<1>7. /\ p'.line = p.line /\ p'.div = p.div /\ (p'.bufBlank <=> p.bufBlank)
      /\ p'.col = (IF p.hcnt % 8 = 3 /\ p.rde THEN p.col + 1 ELSE p.col)
  BY <1>1, <1>2, <1>5 DEF Turns
<1>8. Meets(p) <=> p.pipe = 3 /\ p.line = term.line /\ p.col = term.col
  BY DEF Meets, IsTerm
<1>9. /\ p'.pipe = (IF Slot(p) THEN 1 ELSE IF p.pipe \in 1 .. 3 THEN p.pipe + 1 ELSE 0)
      /\ Slot(p) => p'.addr = Cell(p.line, p.col)
      /\ p'.bufChar = term.text[p.addr]
      /\ p.pipe = 2 => p'.fontAddr = <<Glyph(p.bufChar), p.div>>
      /\ p'.fontRow = term.font[p.fontAddr]
  BY <1>5 DEF Fetches, IsTerm
<1> QED BY <1>3, <1>6, <1>7, <1>8, <1>9 DEF CharMoves

LEMMA CharPlaced ==
  ASSUME FrameFits, BeamInv, Steady(p'), Fetching(p)
  PROVE  CharPlace
<1>1. /\ p.hcnt \in 0 .. HTot /\ {HTot, HRes, HSyncEnd, LastSlot, VRes} \subseteq Nat
      /\ HRes < HSyncEnd /\ HSyncEnd < LastSlot
      /\ p'.hcnt = (IF p.hcnt < HTot THEN p.hcnt + 1 ELSE 0)
  BY FrameConstants DEF BeamInv, Steady, BeamDoes, Advances
<1>2. LastSlot % 8 = 4 /\ HTot \in LastSlot + 3 .. LastSlot + 7
  BY <1>1, FrameConstants, FrameProducts
<1>3. Ahead(p) \/ (p.hcnt <= HRes /\ p.vcnt < VRes) BY DEF Fetching
<1>4. /\ ~Ahead(p) => (p.rde <=> p.hcnt >= 1)
      /\ Ahead(p) => ~p.rde
  <2>1. p.rde <=> p.hcnt \in 1 .. HRes /\ p.vcnt < VRes BY DEF BeamInv
  <2> QED BY <1>1, <1>3, <2>1 DEF Ahead
<1>5. /\ p.hcnt >= 4 => p.pipe = Fetch(p.hcnt)
      /\ p.hcnt < 4 => p.pipe = 0 \/ (p.pipe = 4 /\ p.hcnt = 0)
  BY DEF BeamInv
<1>6. CASE p.hcnt < 4
  <2>1. p.pipe = 0 \/ (p.pipe = 4 /\ p.hcnt = 0) BY <1>5, <1>6
  <2> QED BY <1>1, <1>2, <1>3, <1>4, <1>6, <2>1 DEF CharPlace
<1>7. CASE p.hcnt >= 4
  <2>1. p.hcnt \in Nat /\ p.pipe = Fetch(p.hcnt) BY <1>1, <1>5, <1>7
  <2>2. /\ p.pipe \in 0 .. 4
        /\ p.pipe = 0 => p.hcnt % 8 \in 1 .. 4
        /\ p.pipe \in 1 .. 3 => p.hcnt % 8 = p.pipe + 4
        /\ p.pipe = 4 => p.hcnt % 8 = 0
    <3>1. PICK h \in Nat : h = p.hcnt BY <2>1
    <3>2. /\ Fetch(h) \in 0 .. 4
          /\ Fetch(h) = 0 => h % 8 \in 1 .. 4
          /\ Fetch(h) \in 1 .. 3 => h % 8 = Fetch(h) + 4
          /\ Fetch(h) = 4 => h % 8 = 0
      BY DEF Fetch
    <3> QED BY <2>1, <3>1, <3>2
  <2> QED BY <1>1, <1>2, <1>3, <1>4, <1>7, <2>2 DEF CharPlace
<1> QED BY <1>1, <1>6, <1>7

(* A line of pixels begins: its first character is fetched behind hsync.   *)
LEMMA CharStarts ==
  ASSUME FrameFits, BeamInv, Steady(p'), BeamInv', p.hcnt = HSyncEnd
  PROVE  AtChar(p', term)
<1>1. /\ {HTot, HRes, HSyncEnd, LastSlot} \subseteq Nat /\ HSyncEnd % 8 <= 3
      /\ HRes < HSyncEnd /\ HSyncEnd < LastSlot /\ LastSlot < HTot /\ HRes >= 8
  BY FrameConstants, FrameProducts
<1>2. p'.hcnt = HSyncEnd + 1 BY <1>1 DEF Steady, BeamDoes, Advances
<1>3. p'.pipe = 0
  <2>1. Fetch(HSyncEnd + 1) = 0 BY <1>1 DEF Fetch
  <2>2. p'.hcnt >= 4 BY <1>1, <1>2
  <2> QED BY <1>2, <2>1, <2>2 DEF BeamInv
<1>4. p'.col = 0
  <2>1. p'.hcnt \notin 4 .. HSyncEnd BY <1>1, <1>2
  <2> QED BY <2>1 DEF BeamInv
<1>5. ~p'.lineBlank BY BacksUps DEF Steady, BeamDoes, Draws
<1>6. ~Fetched(p') /\ p'.hcnt \notin 4 .. HRes BY <1>1, <1>2 DEF Fetched, Ahead
<1> QED BY <1>3, <1>4, <1>5, <1>6 DEF AtChar

(* The pixels of its places are the same as before the edge.               *)
LEMMA CharSame ==
  ASSUME CharMoves, NEW k
  PROVE  RowAt(p', term, k) = RowAt(p, term, k) /\ Pixels(p', term, k) = Pixels(p, term, k)
BY DEF CharMoves, RowAt, Pixels

LEMMA CharAsked ==
  ASSUME CharMoves, CharPlace, AtChar(p, term), p.pipe = 0, Slot(p)
  PROVE  AtChar(p', term)
<1>1. p.hcnt % 8 = 4 /\ p.hcnt \in Nat BY DEF Slot, CharPlace
<1>2. p'.hcnt = p.hcnt + 1 /\ p.hcnt >= 4 BY <1>1 DEF CharPlace
<1>3. /\ p'.pipe = 1 /\ p'.addr = Cell(p.line, p.col) /\ p'.col = p.col /\ p'.line = p.line
      /\ p'.lineBlank <=> p.lineBlank
      /\ p'.charLine = p.charLine
  BY <1>1 DEF CharMoves
<1>4. ~Fetched(p') /\ ~Fetched(p) BY <1>3 DEF Fetched
<1>5. p'.hcnt \in 4 .. HRes => p.hcnt \in 4 .. HRes BY <1>1, <1>2 DEF CharPlace
<1> QED BY <1>3, <1>4, <1>5, CharSame DEF AtChar

LEMMA CharRead ==
  ASSUME CharMoves, CharPlace, AtChar(p, term), p.pipe \in 1 .. 3
  PROVE  AtChar(p', term)
<1>1. p.hcnt % 8 = p.pipe + 4 /\ p.hcnt \in Nat /\ p.hcnt >= 4 BY DEF CharPlace
<1>2. ~Slot(p) /\ p.hcnt % 8 # 3 BY <1>1 DEF Slot
<1>3. /\ p'.pipe = p.pipe + 1 /\ p'.col = p.col /\ p'.line = p.line /\ p'.div = p.div
      /\ p'.charLine = p.charLine
  BY <1>2 DEF CharMoves
<1>4. ~Fetched(p') /\ ~Fetched(p) BY <1>3 DEF Fetched
<1>5. p'.hcnt \in 4 .. HRes => p.hcnt \in 4 .. HRes BY <1>1 DEF CharPlace
<1>6. p'.hcnt \in 4 .. HRes => p'.col > 0 /\ p'.charLine = Pixels(p', term, p'.col - 1)
  BY <1>3, <1>4, <1>5, CharSame DEF AtChar
<1>7. CASE p.pipe = 1
  <2>1. p'.bufChar = CharAt(term, p.line, p.col)
    BY <1>7 DEF CharMoves, AtChar, CharAt
  <2>2. p'.lineBlank <=> p.lineBlank BY <1>7 DEF CharMoves
  <2>3. p'.pipe = 2 BY <1>3, <1>7
  <2> QED BY <1>3, <1>4, <1>6, <2>1, <2>2, <2>3 DEF AtChar
<1>8. CASE p.pipe = 2
  <2>1. p.bufChar = CharAt(term, p.line, p.col) BY <1>8 DEF AtChar
  <2>2. p'.fontAddr = <<Glyph(CharAt(term, p.line, p.col)), p.div>>
    BY <1>8, <2>1 DEF CharMoves
  <2>3. p'.lineBlank <=>
          IF CharAt(term, p.line, p.col) = NewLine THEN term.mode ELSE p.lineBlank
    BY <1>8, <2>1 DEF CharMoves
  <2>4. p'.pipe = 3 BY <1>3, <1>8
  <2>5. CharAt(term, p.line, p.col) = NewLine /\ term.mode => Ended(term, p.line, p.col)
    <3>1. p.col \in Nat BY DEF CharMoves
    <3> QED BY <3>1, EndedNext DEF EndsAt
  <2>6. p.col > 0 /\ Ended(term, p.line, p.col - 1) => term.mode BY DEF Ended
  <2> QED BY <1>3, <1>4, <1>6, <2>2, <2>3, <2>4, <2>5, <2>6 DEF AtChar
<1>9. CASE p.pipe = 3
  <2>1. p'.fontRow = RowAt(p, term, p.col) BY <1>9 DEF CharMoves, AtChar, RowAt
  <2>2. p'.lineBlank <=>
          IF p.line = term.line /\ p.col = term.col THEN term.mode ELSE p.lineBlank
    BY <1>9 DEF CharMoves
  <2>3. p'.pipe = 4 BY <1>3, <1>9
  <2>4. p.line = term.line /\ p.col = term.col /\ term.mode => Ended(term, p.line, p.col)
    <3>1. p.col \in Nat BY DEF CharMoves
    <3> QED BY <3>1, EndedNext DEF EndsAt
  <2>5. p.col > 0 /\ Ended(term, p.line, p.col - 1) => term.mode BY DEF Ended
  <2> QED BY <1>3, <1>4, <1>6, <1>9, <2>1, <2>2, <2>3, <2>4, <2>5, CharSame DEF AtChar
<1> QED BY <1>7, <1>8, <1>9

LEMMA CharDrawn ==
  ASSUME CharMoves, CharPlace, AtChar(p, term), p.pipe = 4
  PROVE  AtChar(p', term)
<1>1. p.hcnt % 8 = 0 /\ p.hcnt \in Nat BY DEF CharPlace
<1>2. ~Slot(p) /\ p.hcnt % 8 # 3 BY <1>1 DEF Slot
<1>3. /\ p'.pipe = 0 /\ p'.col = p.col /\ p'.line = p.line /\ p.col \in Nat
      /\ p'.lineBlank <=> p.lineBlank
      /\ p'.charLine = (IF p.lineBlank \/ p.bufBlank THEN Blank ELSE p.fontRow)
  BY <1>2 DEF CharMoves
<1>4. p.lineBlank <=> Ended(term, p.line, p.col)
  <2>1. p.lineBlank => Ended(term, p.line, p.col) BY DEF AtChar
  <2>2. Ended(term, p.line, p.col) <=>
          term.mode /\ (EndsAt(term, p.line, p.col)
                        \/ (p.col > 0 /\ Ended(term, p.line, p.col - 1)))
    BY <1>3, EndedNext
  <2>3. /\ p.col > 0 /\ Ended(term, p.line, p.col - 1) => p.lineBlank
        /\ term.mode /\ CharAt(term, p.line, p.col) = NewLine => p.lineBlank
        /\ term.mode /\ p.line = term.line /\ p.col = term.col => p.lineBlank
    BY DEF AtChar
  <2> QED BY <2>1, <2>2, <2>3 DEF EndsAt
<1>5. p'.charLine = Pixels(p, term, p.col) BY <1>3, <1>4 DEF AtChar, Pixels
<1>6. ~Fetched(p') => p'.hcnt \notin 4 .. HRes
  <2>1. p'.hcnt % 8 # 4 BY <1>1 DEF CharPlace
  <2>2. ~Fetched(p') => Ahead(p') BY <1>3, <2>1 DEF Fetched, Slot
  <2> QED BY <2>2 DEF Ahead, CharPlace
<1>7. p'.col > 0 /\ Ended(term, p'.line, p'.col - 1) => p'.lineBlank
  BY <1>3 DEF AtChar
<1> QED BY <1>3, <1>4, <1>5, <1>6, <1>7, CharSame DEF AtChar

LEMMA CharNext ==
  ASSUME CharMoves, CharPlace, AtChar(p, term), p.hcnt % 8 = 3, p.rde
  PROVE  AtChar(p', term)
<1>1. p.hcnt \in Nat /\ ~Ahead(p) /\ ~Slot(p) /\ p.pipe = 0
  BY DEF CharPlace, Slot
<1>2. Fetched(p) BY <1>1 DEF Fetched
<1>3. /\ p'.pipe = 0 /\ p'.col = p.col + 1 /\ p'.line = p.line /\ p.col \in Nat
      /\ p'.lineBlank <=> p.lineBlank
      /\ p'.charLine = p.charLine
  BY <1>1 DEF CharMoves
<1>4. ~Fetched(p')
  <2>1. p.hcnt < HTot BY <1>1 DEF CharPlace, Ahead
  <2>2. p'.hcnt % 8 = 4 BY <1>1, <2>1 DEF CharPlace
  <2> QED BY <2>2 DEF Fetched, Slot
<1>5. (p.lineBlank <=> Ended(term, p.line, p.col)) /\ p.charLine = Pixels(p, term, p.col)
  BY <1>2 DEF AtChar
<1>6. Ended(term, p.line, p.col) => Ended(term, p.line, p.col + 1) BY <1>3, EndedNext
<1>7. p'.col > 0 /\ p'.col - 1 = p.col BY <1>3
<1> QED BY <1>3, <1>4, <1>5, <1>6, <1>7, CharSame DEF AtChar

LEMMA CharWaits ==
  ASSUME CharMoves, CharPlace, AtChar(p, term), p.pipe = 0, ~Slot(p),
         ~(p.hcnt % 8 = 3 /\ p.rde)
  PROVE  AtChar(p', term)
<1>1. p.hcnt \in Nat /\ p.hcnt % 8 # 4 BY DEF CharPlace, Slot
<1>2. /\ p'.pipe = 0 /\ p'.col = p.col /\ p'.line = p.line
      /\ p'.lineBlank <=> p.lineBlank
      /\ p'.charLine = p.charLine
  BY DEF CharMoves
<1>3. ASSUME Fetched(p') PROVE Fetched(p)
  <2>1. ASSUME Ahead(p) PROVE p.hcnt > LastSlot + 4
    <3>1. p.hcnt # LastSlot + 4 BY <2>1 DEF CharPlace, Ahead
    <3>2. CASE p.hcnt < HTot
      <4>1. p'.hcnt = p.hcnt + 1 BY <3>2 DEF CharPlace
      <4>2. p'.hcnt > LastSlot + 4 BY <1>3, <2>1, <4>1 DEF Fetched, Ahead, CharPlace
      <4> QED BY <1>1, <3>1, <4>1, <4>2 DEF CharPlace
    <3>3. CASE p.hcnt = HTot
      <4>1. HTot # LastSlot + 3 BY <2>1, <3>3 DEF CharPlace, Ahead
      <4> QED BY <3>1, <3>3, <4>1 DEF CharPlace
    <3> QED BY <3>2, <3>3 DEF CharPlace
  <2> QED BY <2>1 DEF Fetched
<1>4. ~Fetched(p') => p'.hcnt \notin 4 .. HRes
  <2>1. SUFFICES ASSUME ~Fetched(p'), p'.hcnt \in 4 .. HRes PROVE FALSE OBVIOUS
  <2>2. p'.hcnt = p.hcnt + 1 /\ p.hcnt >= 3 BY <1>1, <2>1 DEF CharPlace
  <2>3. ~Ahead(p') /\ ~Ahead(p) BY <1>1, <2>1, <2>2 DEF Ahead, CharPlace
  <2>4. p'.hcnt % 8 = 4 BY <1>2, <2>1, <2>3 DEF Fetched, Slot
  <2>5. p.hcnt % 8 = 3 BY <1>1, <2>2, <2>4
  <2>6. p.rde BY <2>2, <2>3 DEF CharPlace
  <2> QED BY <2>5, <2>6
<1> QED BY <1>2, <1>3, <1>4, CharSame DEF AtChar

LEMMA CharKept ==
  ASSUME FrameFits, BeamInv, ModeInv, IsTerm, Steady(p'), BeamInv', Fetching(p'),
         InText(p) \/ Up(p), Fetching(p) => AtChar(p, term)
  PROVE  AtChar(p', term)
<1>1. CASE p.hcnt = HSyncEnd BY <1>1, CharStarts
<1>2. CASE p.hcnt # HSyncEnd
  <2>1. Fetching(p)
    <3>1. /\ {HTot, HRes, HSyncEnd, VRes, VSync} \subseteq Nat
          /\ p.hcnt \in 0 .. HTot /\ p.vcnt \in 0 .. VTot /\ VTot \in Nat
          /\ HRes < HSyncEnd /\ HSyncEnd < HTot /\ VRes <= VSync
          /\ p'.hcnt = (IF p.hcnt < HTot THEN p.hcnt + 1 ELSE 0)
          /\ p.hcnt < HTot => p'.vcnt = p.vcnt
      BY FrameConstants DEF BeamInv, Steady, BeamDoes, Advances
    <3>2. ~Up(p)
      <4>1. Up(p) => p.hcnt = HSyncEnd - 1 /\ p.vcnt = VSync + 2 BY BacksUps
      <4> QED BY <3>1, <4>1 DEF Fetching, Ahead
    <3>3. InText(p) BY <3>2
    <3>4. Ahead(p) \/ (p.vcnt < VRes /\ p.hcnt <= HRes) BY <1>2, <3>1 DEF Fetching, Ahead
    <3> QED BY <3>3, <3>4 DEF Fetching
  <2>2. CharMoves /\ CharPlace BY <2>1, CharMoved, CharPlaced
  <2>3. AtChar(p, term) BY <2>1
  <2>4. p.pipe \in 0 .. 4 BY <2>2 DEF CharPlace
  <2>5. CASE p.hcnt % 8 = 3 /\ p.rde BY <2>2, <2>3, <2>5, CharNext
  <2>6. CASE p.pipe = 0 /\ Slot(p) BY <2>2, <2>3, <2>6, CharAsked
  <2>7. CASE p.pipe = 0 /\ ~Slot(p) /\ ~(p.hcnt % 8 = 3 /\ p.rde)
    BY <2>2, <2>3, <2>7, CharWaits
  <2>8. CASE p.pipe \in 1 .. 3 BY <2>2, <2>3, <2>8, CharRead
  <2>9. CASE p.pipe = 4 BY <2>2, <2>3, <2>9, CharDrawn
  <2> QED BY <2>4, <2>5, <2>6, <2>7, <2>8, <2>9
<1> QED BY <1>1, <1>2

-----------------------------------------------------------------------------
(* A frame in which nothing is written.                                    *)
LEMMA FreshKept ==
  ASSUME ConsoleInv, KeepsDistances, FrameFits, FrameInv, BeamInv', Next
  PROVE  FreshInv'
<1>1. SUFFICES ASSUME fresh' PROVE /\ Settled'
                                   /\ InText(p') => AtRow(p', term')
                                   /\ Fetching(p') => AtChar(p', term')
  BY DEF FreshInv
<1>2. Waits BY <1>1 DEF Next, Accesses
<1>3. fresh \/ (FrameStarts /\ Settled) BY <1>1, <1>2 DEF Waits
<1>4. Settled BY <1>3 DEF FrameInv, FreshInv
<1>5. IsTerm /\ Settled' /\ term' = term BY <1>2, <1>4, SettledStays
<1>6. BeamInv /\ ModeInv BY DEF FrameInv
<1>7. ShapeInv BY DEF ConsoleInv
<1>8. fresh => /\ InText(p) => AtRow(p, term)
               /\ Fetching(p) => AtChar(p, term)
  BY DEF FrameInv, FreshInv
<1>9. CASE ~odd
  <2>1. p' = p BY <1>6, <1>7, <1>9, BeamKept
  <2>2. fresh BY <1>3, <1>9 DEF FrameStarts
  <2> QED BY <1>5, <1>8, <2>1, <2>2
<1>10. CASE odd
  <2>1. Steady(p') BY <1>6, <1>7, <1>10, BeamKept DEF Steady
  <2>2. Up(p) \/ fresh BY <1>3 DEF FrameStarts, Up
  <2>3. InText(p') => InText(p) \/ Up(p)
    <3>1. Back(p) /\ p.vcnt < VRes => InText(p) BY DEF InText
    <3> QED BY <1>6, <2>1, <3>1, RowStays
  <2>4. InText(p') => AtRow(p', term) BY <1>5, <1>6, <1>8, <2>1, <2>2, RowKept
  <2>5. Fetching(p') => AtChar(p', term)
    <3>1. SUFFICES ASSUME Fetching(p') PROVE AtChar(p', term) OBVIOUS
    <3>2. ~Up(p)
      <4>1. Up(p) => p'.hcnt = HSyncEnd /\ p'.vcnt = VSync + 2 BY <1>5, <1>6, <2>1, RowUp
      <4> QED BY <3>1, <4>1, FrameConstants DEF Fetching, Ahead
    <3>3. InText(p) \/ Up(p) BY <2>3, <3>1 DEF Fetching
    <3> QED BY <1>5, <1>6, <1>8, <2>1, <2>2, <3>1, <3>2, <3>3, CharKept
  <2> QED BY <1>5, <2>4, <2>5
<1> QED BY <1>9, <1>10

LEMMA FrameStarted ==
  ASSUME FrameFits, Init
  PROVE  FrameInv
<1>1. ~fresh BY DEF Init
<1> QED BY <1>1, BeamStarts, ModeStarts DEF FrameInv, FreshInv

LEMMA FrameStays ==
  ASSUME FrameInv, UNCHANGED vars
  PROVE  FrameInv'
<1>1. /\ c' = c /\ p' = p /\ since' = since /\ reading' = reading /\ term' = term
      /\ fresh' = fresh
  BY DEF vars
<1>2. BeamInv' BY <1>1 DEF FrameInv, BeamInv
<1>3. ModeInv' BY <1>1 DEF FrameInv, ModeInv
<1>4. FreshInv' BY <1>1 DEF FrameInv, FreshInv, Settled
<1> QED BY <1>2, <1>3, <1>4 DEF FrameInv

LEMMA FrameKept ==
  ASSUME KeepsDistances, FrameFits, ConsoleInv, FrameInv, [Next]_vars
  PROVE  FrameInv'
<1>1. CASE Next
  <2>1. ShapeInv /\ ProgramInv /\ BeamInv /\ ModeInv BY DEF ConsoleInv, FrameInv
  <2>2. BeamInv' BY <1>1, <2>1, BeamKept
  <2>3. ModeInv' BY <1>1, <2>1, ModeKept
  <2> QED BY <1>1, <2>2, <2>3, FreshKept DEF FrameInv
<1>2. CASE UNCHANGED vars BY <1>2, FrameStays
<1> QED BY <1>1, <1>2

(* The pixels of a place of the screen are those the beam has for it.      *)
LEMMA PixelsVisible ==
  ASSUME NEW col, AtRow(p, term), Row(p) = p.vcnt
  PROVE  Pixels(p, term, col) = Visible(term, p.vcnt \div Rows, col, p.vcnt % Rows)
<1> DEFINE row == p.vcnt \div Rows
<1>1. /\ p.div = p.vcnt % Rows /\ p.line = (term.start + row) % Lines
      /\ p.bufBlank <=> Below(term, row)
  BY DEF AtRow
<1>2. Ended(term, p.line, col) <=>
        term.mode /\ \E k \in 0 .. col :
          term.text[Cell(p.line, k)] = NewLine \/ (p.line = term.line /\ k = term.col)
  BY DEF Ended, EndsAt, CharAt
<1>3. RowAt(p, term, col) = term.font[<<Glyph(term.text[Cell(p.line, col)]), p.div>>]
  BY DEF RowAt, CharAt
<1> HIDE DEF row
<1>4. Visible(term, row, col, p.vcnt % Rows) =
        IF term.mode /\ (row > (term.end - term.start) % Lines
                         \/ \E k \in 0 .. col :
                              \/ term.text[Cell(p.line, k)] = NewLine
                              \/ p.line = term.line /\ k = term.col)
        THEN Blank ELSE term.font[<<Glyph(term.text[Cell(p.line, col)]), p.div>>]
  BY <1>1, Zenon DEF Visible
<1>5. p.bufBlank \/ Ended(term, p.line, col) <=>
        term.mode /\ (row > (term.end - term.start) % Lines
                      \/ \E k \in 0 .. col :
                           \/ term.text[Cell(p.line, k)] = NewLine
                           \/ p.line = term.line /\ k = term.col)
  BY <1>1, <1>2 DEF Below
<1> QED BY <1>3, <1>4, <1>5, Zenon DEF Pixels, row

LEMMA FrameIsTold ==
  ASSUME FrameFits, FrameInv
  PROVE  FrameShowsText
<1>1. SUFFICES ASSUME fresh, p.rde
               PROVE  p.charLine = Visible(term, p.vcnt \div Rows, (p.hcnt - 1) \div 8,
                                           p.vcnt % Rows)
  BY DEF FrameShowsText
<1>2. /\ {HTot, HRes, HSyncEnd, VRes, Cols} \subseteq Nat /\ HRes + 1 < HSyncEnd
      /\ HRes = 8 * Cols
      /\ p.hcnt \in 1 .. HRes /\ p.vcnt < VRes
  BY <1>1, FrameConstants, FrameProducts DEF FrameInv, BeamInv
<1>3. ~Ahead(p) /\ Row(p) = p.vcnt BY <1>2 DEF Ahead, Row, FrameInv, BeamInv
<1>4. InText(p) /\ Fetching(p) BY <1>2 DEF InText, Fetching
<1>5. AtRow(p, term) /\ AtChar(p, term) BY <1>1, <1>4 DEF FrameInv, FreshInv
<1>6. p.charLine = Pixels(p, term, (p.hcnt - 1) \div 8)
  <2>1. p.hcnt \in 4 .. HSyncEnd => p.col = Upto(p.hcnt)
    BY <1>2 DEF FrameInv, BeamInv
  <2>2. p.hcnt < 4 => p.col = 0 /\ p.pipe = 0 BY <1>2 DEF FrameInv, BeamInv
  <2>3. p.hcnt >= 4 => p.pipe = Fetch(p.hcnt) BY DEF FrameInv, BeamInv
  <2>4. CASE p.hcnt < 4
    <3>1. Fetched(p) BY <1>2, <1>3, <2>2, <2>4 DEF Fetched, Slot
    <3>2. (p.hcnt - 1) \div 8 = 0 BY <1>2, <2>4
    <3> QED BY <1>5, <2>2, <2>4, <3>1, <3>2 DEF AtChar
  <2>5. CASE p.hcnt >= 4
    <3>1. PICK h \in 4 .. HRes : h = p.hcnt BY <1>2, <2>5
    <3>2. h \in Nat /\ h >= 4 BY <1>2, <3>1
    <3>3. p.col = (h + 4) \div 8
      <4>1. h \in 4 .. HSyncEnd /\ p.col = Upto(h) BY <1>2, <2>1, <3>1
      <4>2. h = HRes => (h + 4) \div 8 = Cols BY <1>2
      <4> QED BY <1>2, <3>1, <4>1, <4>2 DEF Upto
    <3>4. p.pipe = Fetch(h) BY <2>3, <2>5, <3>1
    <3>5. CASE Fetched(p)
      <4>1. h % 8 \in 1 .. 3
        <5>1. Fetch(h) = 0 /\ h % 8 # 4 BY <3>1, <3>4, <3>5 DEF Fetched, Slot
        <5> QED BY <3>2, <5>1 DEF Fetch
      <4>2. (h - 1) \div 8 = (h + 4) \div 8 BY <3>2, <4>1
      <4> QED BY <1>5, <3>1, <3>3, <3>5, <4>2 DEF AtChar
    <3>6. CASE ~Fetched(p)
      <4>1. h % 8 \notin 1 .. 3
        <5>1. Fetch(h) # 0 \/ h % 8 = 4 BY <1>3, <3>1, <3>4, <3>6 DEF Fetched, Slot
        <5> QED BY <3>2, <5>1 DEF Fetch
      <4>2. (h - 1) \div 8 = (h + 4) \div 8 - 1 BY <3>2, <4>1
      <4>3. p.charLine = Pixels(p, term, p.col - 1) BY <1>5, <3>1, <3>6 DEF AtChar
      <4> QED BY <3>1, <3>3, <4>2, <4>3
    <3> QED BY <3>5, <3>6
  <2> QED BY <1>2, <2>4, <2>5
<1> QED BY <1>3, <1>5, <1>6, PixelsVisible

(* A frame in which nothing is written shows the terminal, all of its      *)
(* pixels, whatever was written before and whenever the frame began.       *)
THEOREM FramesShowText == KeepsDistances /\ FrameFits => (Spec => []FrameShowsText)
<1>1. SUFFICES ASSUME KeepsDistances, FrameFits PROVE Spec => []FrameShowsText OBVIOUS
<1>2. Init => FrameInv BY <1>1, FrameStarted
<1>3. ConsoleInv /\ FrameInv /\ [Next]_vars => FrameInv' BY <1>1, FrameKept
<1>4. FrameInv => FrameShowsText BY <1>1, FrameIsTold
<1>5. Spec => []ConsoleInv BY <1>1, ConsoleInvHolds
<1> QED BY <1>2, <1>3, <1>4, <1>5, PTL DEF Spec

=============================================================================
