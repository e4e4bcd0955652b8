---------------------------- MODULE ConsoleText ----------------------------
(***************************************************************************)
(* The console driven by a program, with clk_pix at half the frequency of  *)
(* clk_core and in phase with it (clk_gen.h:2-7), and beside it the        *)
(* terminal the program believes in: each access has its effect at once.   *)
(* The accesses come at any distance the firmware's code can have.         *)
(***************************************************************************)
EXTENDS Console

CONSTANTS
  Glyphs,       \* the numbers of the glyphs in the font
  Programs,     \* sequences of accesses
  Apart,        \* least distance of two accesses, in edges of clk_core
  ApartFont,    \* of two writes of the font
  ApartRead,    \* of a request to read from the character before it
  ApartScroll,  \* of what moves the cursor from a character that scrolled the text
  Settle        \* the console has done what it was told so long ago

VARIABLES
  c, p, text, font,   \* the console
  odd,                \* the next edge of clk_core is one of clk_pix as well
  todo,               \* the rest of the program
  since,              \* edges since its last access, at most Settle
  last,               \* what that was: reset, at, font, other, answer
  behind,             \* edges since the last character, at most Settle
  scrolled,           \* that one scrolled the text
  reading,            \* it waits for data
  term,               \* the terminal
  fresh               \* history: nothing was written in this frame

vars == <<c, p, text, font, odd, todo, since, last, behind, scrolled, reading,
          term, fresh>>

-----------------------------------------------------------------------------
FontRows == Glyphs \X (0 .. Rows - 1)

(* The terminal: text, first and last line on display, the character that  *)
(* was where the last one was put, the font, and whether lines end.        *)
TermInit ==
  [text |-> [x \in Cells |-> 0], line |-> 0, col |-> 0, start |-> 0, end |-> 0,
   over |-> 0, font |-> [x \in FontRows |-> IF x = <<0, 0>> THEN Uninit ELSE x], mode |-> TRUE]

Typed(t, char) ==
  LET here == Cell(t.line, t.col)
      eol == t.col = Cols - 1 \/ char = NewLine
      next == NextLine(t.line)
      v == [t EXCEPT !.over = t.text[here],
                     !.text = IF char = ReadChar THEN @ ELSE [@ EXCEPT ![here] = char]]
  IN CASE char = 0 -> t
       [] char # 0 /\ ~eol -> [v EXCEPT !.col = @ + 1]
       [] char # 0 /\ eol -> [v EXCEPT !.line = next, !.col = 0, !.end = next,
                                       !.start = IF next = @ THEN NextLine(next) ELSE @]

(* The terminal behind the first i characters of the message.              *)
Greeted[i \in 0 .. Len(InitMsg)] ==
  IF i = 0 THEN TermInit ELSE Typed(Greeted[i - 1], InitMsg[i])

Scrolls(t, char) ==
  char # 0 /\ (t.col = Cols - 1 \/ char = NewLine) /\ NextLine(t.line) = t.start

Positioned(t, a) ==
  IF a.cmd = "at"
  THEN [t EXCEPT !.line = a.line, !.col = a.col, !.start = 0, !.end = Lines - 1]
  ELSE t

Told(t, a) ==
  CASE a.cmd \in {"char", "at"} -> Typed(Positioned(t, a), a.char)
    [] a.cmd = "cls" -> [t EXCEPT !.line = 0, !.col = 0, !.start = 0, !.end = 0]
    [] a.cmd = "mode" -> [t EXCEPT !.mode = a.on]
    [] a.cmd = "font" -> [t EXCEPT !.font[a.glyph] = a.data]
    [] OTHER -> t

(* What the terminal shows at a place of the screen: a line ends at a      *)
(* NewLine or at the cursor, the text behind its last line.                *)
Visible(t, row, col, div) ==
  LET line == (t.start + row) % Lines
      ends(k) == t.text[Cell(line, k)] = NewLine \/ (line = t.line /\ k = t.col)
      below == row > (t.end - t.start) % Lines
  IN IF t.mode /\ (below \/ \E k \in 0 .. col : ends(k))
     THEN Blank
     ELSE t.font[<<Glyph(t.text[Cell(line, col)]), div>>]

-----------------------------------------------------------------------------
Character == 0 .. 255

Commands ==
       [cmd : {"char"}, char : Character]
  \cup [cmd : {"at"}, line : 0 .. Lines - 1, col : 0 .. Cols - 1, char : Character]
  \cup [cmd : {"mode"}, on : BOOLEAN]
  \cup [cmd : {"font"}, glyph : FontRows, data : Seq(Nat)]
  \cup [cmd : {"read", "cls", "nop"}]

Idle == [cmd |-> "none"]

Asks(a) == a.cmd = "at" /\ a.char # 0
(* A program reads right behind a request to read.                         *)
ReadsWhatItAsked(program) ==
  \A i \in DOMAIN program : program[i].cmd = "read" => i > 1 /\ Asks(program[i - 1])

ASSUME ConsoleTextAssumption ==
  /\ {Apart, ApartFont, ApartRead, ApartScroll, Settle} \subseteq Nat
  /\ {Lines, Cols, HTot} \subseteq Nat \ {0}
  /\ InitMsg \in Seq(Character) /\ Len(InitMsg) < Lines
  /\ Programs \subseteq Seq(Commands)
  /\ \A program \in Programs : ReadsWhatItAsked(program)

IsCharacter(a) == a.cmd \in {"char", "at"} /\ a.char # 0
MovesCursor(a) == IsCharacter(a) \/ a.cmd \in {"at", "cls"}

Distance(a) ==
  CASE last = "reset" -> Settle
    [] last = "answer" -> 1
    [] last = "font" /\ a.cmd = "font" -> ApartFont
    [] last = "at" /\ a.cmd = "read" /\ since = 0 -> 1   \* the next instruction
    [] OTHER -> Apart

MayCome(a) ==
  /\ since + 1 >= Distance(a)
  /\ Asks(a) => behind + 1 >= ApartRead
  /\ scrolled /\ MovesCursor(a) => behind + 1 >= ApartScroll

Kind(a) ==
  CASE a.cmd = "font" -> "font"
    [] Asks(a) -> "at"
    [] OTHER -> "other"

Settled == since = Settle /\ ~reading

FrameStarts == odd /\ p.rvsyncp /\ ~p.rvsync

(* The edge of clk_core and, in every second one, that of clk_pix.         *)
Edges(a) ==
  /\ c' = CoreEdge(c, p, a)
  /\ odd' = ~odd
  /\ IF odd
     THEN /\ p' = PixEdge(p, c, text, font)
          /\ text' = TextAfter(p, text)
          /\ font' = FontAfter(p, c, font)
     ELSE UNCHANGED <<p, text, font>>

Later(n) == IF n < Settle THEN n + 1 ELSE n

(* The program accesses the console.  It starts long after reset: behind   *)
(* the message of the start.                                               *)
Accesses ==
  /\ todo # <<>> /\ ~reading /\ p.initCnt = 0
  /\ MayCome(Head(todo))
  /\ Edges(Head(todo))
  /\ todo' = Tail(todo)
  /\ since' = 0
  /\ last' = Kind(Head(todo))
  /\ behind' = (IF IsCharacter(Head(todo)) THEN 0 ELSE Later(behind))
  /\ scrolled' = (IF IsCharacter(Head(todo))
                  THEN Scrolls(Positioned(term, Head(todo)), Head(todo).char)
                  ELSE scrolled)
  /\ reading' = (Head(todo).cmd = "read")
  /\ term' = Told(term, Head(todo))
  /\ fresh' = FALSE

Waits ==
  /\ Edges(Idle)
  /\ since' = (IF reading /\ c.en THEN 0 ELSE Later(since))
  /\ last' = (IF reading /\ c.en THEN "answer" ELSE last)
  /\ behind' = (IF reading /\ c.en THEN Settle ELSE Later(behind))
  /\ reading' = (reading /\ ~c.en)
  /\ fresh' = (fresh \/ (FrameStarts /\ Settled))
  /\ UNCHANGED <<todo, term, scrolled>>

Init ==
  /\ c = CoreReset /\ p = PixReset
  /\ text = [x \in Cells |-> 0]
  /\ font = [x \in FontRows |-> x]
  /\ odd \in BOOLEAN
  /\ todo \in Programs
  /\ since = 0 /\ last = "reset" /\ behind = 0 /\ scrolled = FALSE /\ reading = FALSE
  /\ term = Greeted[Len(InitMsg)] /\ fresh = FALSE

Next == Accesses \/ Waits

Spec == Init /\ [][Next]_vars

-----------------------------------------------------------------------------
(* What the program wrote is in the buffer, each character once, in order  *)
(* and where the terminal has it, and each row of the font with its own    *)
(* data, whatever the beam was doing; the cursor and the lines on display  *)
(* are the terminal's, scrolling included.                                 *)
WrittenAsTold ==
  Settled =>
    /\ text = term.text /\ font = term.font
    /\ <<p.curLine, p.curCol>> = <<term.line, term.col>>
    /\ <<p.startLine, p.endLine>> = <<term.start, term.end>>

(* A read is answered in time, since it stalls the core, and with the      *)
(* character its own request found at its place, also when others were     *)
(* written shortly before (invaders.cpp:434: what the missile hit).        *)
ReadsOverwritten ==
  reading => IF c.en THEN c.data = term.over ELSE since < Settle

(* A frame in which nothing is written shows the terminal.                 *)
FrameShowsText ==
  fresh /\ odd /\ p.rde =>
    p.charLine = Visible(term, p.vcnt \div Rows, (p.hcnt - 1) \div 8, p.vcnt % Rows)

=============================================================================
