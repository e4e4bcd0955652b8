------------------------------ MODULE MCPipe ------------------------------
(* Programs for the pipeline: address n holds the n-th instruction.        *)
EXTENDS CorePipe, TLC

To(op, off) == [op |-> op, off |-> off, csr |-> NoCsr]
Plain(op) == To(op, 0)

(* An instruction of every kind where it matters: a load behind a load, a  *)
(* CSR read behind a jump that skips it, ECALL and an illegal instruction  *)
(* in a branch's shadow, and another illegal one in front of a CSR read.   *)
(* Two nops follow what stops the fetch without a read, as                 *)
(* FIRMWARE/Include/misc.h:65-69 does for WFI.                             *)
MCProgram == <<Plain("load"), Plain("loadinst"), Plain("csr"), To("branch", 2),
  Plain("illegal"), To("jump", 2), Plain("csr"), Plain("ecall"),
  Plain("csrw"), Plain("wfi"), Plain("nop"), Plain("nop"),
  Plain("loadx0"), Plain("nop"), Plain("nop"),
  Plain("alias"), Plain("nop"), Plain("nop"), To("branch", 10), To("jump", -19),
  \* 21: trap handler
  Plain("op"), Plain("csr"), To("setmepc", 9), Plain("op"), Plain("mret"),
  \* 26: interrupt handler
  Plain("store"), Plain("load"), Plain("mret"),
  \* 29: an illegal instruction that is followed by a CSR read
  Plain("illegal"), Plain("csr")>>

ASSUME MCProgramAssumption == Program = MCProgram => WellFormed

(* The timer interrupt only.                                               *)
OneVector == 39 :> 26
=============================================================================
