-------------------------------- MODULE Boot --------------------------------
(***************************************************************************)
(* Code loading (src/Source/risc-V_core.h, boot mode; mem.h as instruction *)
(* memory).  While the boot pin is up the core copies what the DMA         *)
(* requests to the port of instruction memory; when it falls the core      *)
(* starts at address 0.  The registers of the core that take part are one  *)
(* record: each operator gives their values after an edge.                 *)
(***************************************************************************)
EXTENDS Naturals

CONSTANTS
  Words,      \* addresses of instruction memory, in words
  WordBytes,  \* bytes in a word
  PCp         \* PCp, the address of an instruction, taken for data

(* mode, modep: boot_mode, boot_modep; cs, addr, data: inst_cs_n,          *)
(* inst_addr, PCp; empty: nothing is left to execute (pipe).               *)
BootReset ==
  [mode |-> FALSE, modep |-> TRUE, cs |-> FALSE, addr |-> 0, data |-> PCp, empty |-> TRUE]

Begins(b, pin) == pin /\ ~b.mode
Starts(b) == b.modep /\ ~b.mode

\* MUTANT: the port of instruction memory keeps what it fetched
PortFetch(b, request) ==
  [b EXCEPT !.cs = request.cs, !.data = PCp]

(* The port while code is loaded: whatever is requested, granted or not,   *)
(* read or write.                                                          *)
Port(b, request) ==
  [b EXCEPT !.cs = request.cs, !.addr = request.acc.word, !.data = request.acc.data]

(* Otherwise instructions are fetched, from address 0 after a start; the   *)
(* address stays as it was in the first cycle of boot mode.                *)
BootEdge(b, pin, request, fetch) ==
  LET v == CASE b.modep /\ b.mode -> Port(b, request)
             [] Starts(b) -> [b EXCEPT !.cs = TRUE, !.addr = 0, !.data = PCp]
             [] ~b.modep /\ b.mode -> [b EXCEPT !.cs = TRUE, !.data = PCp]
             [] OTHER -> [b EXCEPT !.cs = TRUE, !.addr = fetch, !.data = PCp]
  IN [v EXCEPT !.mode = pin, !.modep = b.mode, !.empty = b.modep]

(* Instruction memory takes any access for a write while boot_mode is set, *)
(* and all bytes of the word.                                              *)
Loaded(imem, b) ==
  [a \in DOMAIN imem |->
     IF b.mode /\ b.cs /\ a \div WordBytes = b.addr
     THEN IF b.data = PCp THEN PCp ELSE b.data[a % WordBytes]
     ELSE imem[a]]

=============================================================================
