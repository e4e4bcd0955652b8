----------------------------- MODULE MCConsole -----------------------------
(* A console of three lines of two characters, two pixel rows each, and    *)
(* programs as the firmware has them: text that scrolls, a game that reads *)
(* what it overwrites, glyphs, and changes of the mode.  The distances and *)
(* the beam are ones of which the proofs' hypotheses are true.             *)
EXTENDS ConsoleProofs

Char(ch) == [cmd |-> "char", char |-> ch]
At(line, col, ch) == [cmd |-> "at", line |-> line, col |-> col, char |-> ch]
Read == [cmd |-> "read"]
Mode(on) == [cmd |-> "mode", on |-> on]
Cls == [cmd |-> "cls"]
Nop == [cmd |-> "nop"]
Font65(row, data) == [cmd |-> "font", glyph |-> <<33, row>>, data |-> data]

MCMsg == <<65, NewLine>>

MCPrograms ==
  {<<Char(66), Char(NewLine), Char(NewLine), Char(65), Char(66), Char(66), Nop>>,
   <<Mode(FALSE), At(0, 1, 66), Read, At(0, 1, 65), Read, At(0, 1, 1), Read>>,
   <<Char(66), Nop, At(0, 0, 65), Read, At(2, 1, 0), Char(66)>>,
   <<At(1, 0, 65), Font65(0, <<1, 0>>), Font65(1, <<1, 1>>), At(1, 1, 65), Read>>,
   <<Char(66), Cls, Char(65), Char(0), Mode(FALSE), Mode(TRUE)>>,
   <<Char(NewLine), Char(NewLine), Char(NewLine), At(1, 1, 0),
     Char(65), At(2, 1, 66), Read, Cls>>}

ASSUME MCDistancesAssumption == KeepsDistances
ASSUME MCFrameAssumption == FrameFits

=============================================================================
