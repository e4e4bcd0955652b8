-------------------------------- MODULE Isa --------------------------------
(***************************************************************************)
(* What the Giorno core promises its programs: instructions take effect    *)
(* one after the other, each once, in the order of the program; an         *)
(* interrupt is taken between two of them, saves where it happened and is  *)
(* not interrupted in turn.                                                *)
(***************************************************************************)
EXTENDS Integers

CONSTANTS
  Program,   \* a function from addresses to instructions [op, off]
  TrapBase,  \* where traps lead
  Vector     \* where the interrupts lead, by their cause

VARIABLES
  pc,        \* address of the next instruction
  mepc,      \* where MRET returns to
  handling,  \* an interrupt was entered and not left
  parity     \* parity of the number of instructions that took effect

vars == <<pc, mepc, handling, parity>>

(* Instructions, by what they do to the control flow.  Addresses count     *)
(* instructions.  What the program does not reach does nothing.            *)
Ops == {"op", "nop", "jump", "branch", "load", "loadinst", "loadx0", "store",
        "alias", "csr", "csrw", "setmepc", "ecall", "mret", "wfi", "illegal"}
Sequential == {"op", "load", "loadinst", "loadx0", "store", "alias", "csr", "csrw"}

Instr(a) == IF a \in DOMAIN Program THEN Program[a] ELSE [op |-> "nop", off |-> 0]

Init == pc = 0 /\ mepc = 0 /\ handling = FALSE /\ parity = 0

Effect(target) ==
  /\ pc' \in target
  /\ parity' = 1 - parity

Step ==
  LET i == Instr(pc) IN
  \/ i.op \in Sequential /\ Effect({pc + 1}) /\ UNCHANGED <<mepc, handling>>
  \/ i.op = "jump" /\ Effect({pc + i.off}) /\ UNCHANGED <<mepc, handling>>
  \/ i.op = "branch" /\ Effect({pc + 1, pc + i.off}) /\ UNCHANGED <<mepc, handling>>
  \/ i.op = "setmepc" /\ Effect({pc + 1}) /\ mepc' = i.off /\ UNCHANGED handling
  \/ i.op = "ecall" /\ Effect({TrapBase}) /\ mepc' = pc /\ UNCHANGED handling
  \/ i.op = "illegal" /\ Effect({TrapBase}) /\ UNCHANGED <<mepc, handling>>
  \/ i.op = "mret" /\ Effect({mepc}) /\ handling' = FALSE /\ UNCHANGED mepc

\* no effect: how often one is executed cannot be told
Nop == Instr(pc).op = "nop" /\ pc' = pc + 1 /\ UNCHANGED <<mepc, handling, parity>>

\* WFI also writes mepc (risc_V_constants.h:205)
Wfi ==
  /\ Instr(pc).op = "wfi" /\ Effect({pc + 1})
  /\ mepc' \in {mepc, pc, pc + 1} /\ UNCHANGED handling

Irq ==
  /\ ~handling /\ handling' = TRUE
  /\ mepc' = pc /\ \E c \in DOMAIN Vector : pc' = Vector[c]
  /\ UNCHANGED parity

Next == Step \/ Nop \/ Wfi \/ Irq

Spec == Init /\ [][Next]_vars

=============================================================================
