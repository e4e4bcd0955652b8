------------------------------ MODULE CorePipe ------------------------------
(***************************************************************************)
(* Fetch, decode and execute of the Giorno core (src/Source/risc-V_core.h) *)
(* in front of its data bus (CoreBus): when the program counter advances,  *)
(* what a stall, a jump, a trap or an interrupt leaves in the pipeline.    *)
(*                                                                         *)
(* One step is one edge of clk_mcu.  The instructions run from a program   *)
(* given by what they do to the control flow; addresses count              *)
(* instructions.  The DMA and the interrupt line are free.                 *)
(***************************************************************************)
EXTENDS Integers

CONSTANTS
  Program, TrapBase, Vector,  \* see Isa
  Vectored,    \* mtvec mode: interrupts have an entry of their own
  NoAddr,      \* the address of data in instruction memory
  Accesses, NoAccess, Targets  \* see CoreBus

Causes == DOMAIN Vector

ASSUME CorePipeAssumption ==
  /\ DOMAIN Program \subseteq Nat /\ TrapBase \in Nat
  /\ Causes \subseteq Nat \ {0}
  /\ Vectored \in BOOLEAN
  /\ NoAddr \notin Int

VARIABLES
  cpu_wait, wait_for_interrupt, mask_data_en, rwb, load_mem0, load_mem,
  dma_grant, dma_granted, bus, answer,  \* see CoreBus
  pc, pcp,            \* PC and PCp: next fetch, instruction being decoded
  inst_addr,          \* address on the instruction bus
  instr,              \* address whose word instruction memory delivers
  pipe0, pipe1,       \* bits of pipe: decode and execute have an instruction
  flush,
  id,                 \* ropcode, rfunct3, rimmediate, ... of the decoded one
  rcsr_op_with_read,  \* stop the pipeline for it
  irq, cause,         \* csr2core_i: an interrupt, and which (0 for none)
  start_irq, cur_irq, reset_cur_irq,
  mepc,               \* CSR of csr_irq
  csr_bus,            \* what the data bus asks of csr_irq
  handling, parity    \* history, see Isa

busVars == <<cpu_wait, wait_for_interrupt, mask_data_en, rwb, load_mem0,
             load_mem, dma_grant, dma_granted, bus, answer>>
pipeVars == <<pc, pcp, inst_addr, instr, pipe0, pipe1, flush, id,
              rcsr_op_with_read>>
irqVars == <<irq, cause, start_irq, cur_irq, reset_cur_irq, mepc, csr_bus>>
vars == <<busVars, pipeVars, irqVars, handling, parity>>

Bus == INSTANCE CoreBus
I == INSTANCE Isa WITH pc <- 0  \* for Instr

ASSUME CorePipeBusAssumption == Bus!CoreBusAssumption

(* An access of csr_irq: its operation ("wfi" and "ecall" are coded in the *)
(* byte enables), the register, the operand and the cause of an ECALL.     *)
NoCsr == [op |-> "none", reg |-> "none", val |-> {}, cause |-> 0]
CsrOp(op, reg, val) == [op |-> op, reg |-> reg, val |-> val, cause |-> 0]

NoInstr == [op |-> "none", off |-> 0, addr |-> 0, pcp |-> 0, irq |-> FALSE]

(* The pipeline starts when boot mode is left.                             *)
PipeInit ==
  /\ Bus!CoreInit /\ Bus!SlaveInit
  /\ pc = 0 /\ pcp = 0 /\ inst_addr = 0 /\ instr = 0
  /\ pipe0 = FALSE /\ pipe1 = FALSE /\ flush = TRUE
  /\ id = NoInstr /\ rcsr_op_with_read = FALSE
  /\ start_irq = FALSE /\ cur_irq = 0 /\ reset_cur_irq = FALSE
  /\ csr_bus = NoCsr
  /\ handling = FALSE /\ parity = 0

-----------------------------------------------------------------------------
Decodes == pipe0 /\ ~cpu_wait /\ ~flush
Executes == pipe1 /\ ~cpu_wait /\ ~flush
Loads == {"load", "loadinst", "loadx0"}

MustStartIrq == irq /\ cur_irq = 0

(* The decoded instruction; an interrupt replaces it by an ECALL.  Only    *)
(* CSR reads and WFI should stop the pipeline, but the test for WFI does   *)
(* not look at the opcode (l.432): "alias" is a store or branch it fits.   *)
Decoded ==
  LET i == I!Instr(instr) IN
  [op |-> IF MustStartIrq THEN "ecall" ELSE i.op,
   off |-> i.off, addr |-> instr, pcp |-> pcp, irq |-> MustStartIrq]

\* MUTANT: a CSR write stops the pipeline as well
StopsPipeForWrite == I!Instr(instr).op \in {"csr", "csrw", "wfi", "alias"}

StopsPipe == I!Instr(instr).op \in {"csr", "wfi", "alias"}

LoadDataOk ==
  \/ answer.en /\ ~load_mem /\ ~mask_data_en
  \/ load_mem

(* The first condition stops as soon as possible; cpu_wait takes over.     *)
StopsEarly == (id.op \in Loads \/ rcsr_op_with_read) /\ ~cpu_wait
StopPC == StopsEarly \/ (cpu_wait /\ ~LoadDataOk) \/ wait_for_interrupt

(* redirect holds the new PC when the executed instruction changes it.     *)
NextPC(redirect) ==
  IF redirect # {} THEN CHOOSE a \in redirect : TRUE
  ELSE IF StopPC THEN pc ELSE pc + 1

\* MUTANT: the next fetch overrides the address of the data
FetchOverridesRead(redirect, readsInst) ==
  /\ pc' = NextPC(redirect)
  /\ pcp' = IF StopPC THEN pcp ELSE pc
  /\ inst_addr' = NextPC(redirect)
  /\ instr' = inst_addr
  /\ flush' = (redirect # {})
  /\ pipe0' = (redirect = {} /\ (pipe0 \/ ~StopPC))
  /\ pipe1' = (redirect = {} /\ IF StopPC THEN pipe1 ELSE pipe0)

(* Registers of the fetch stage after the edge.                            *)
Fetch(redirect, readsInst) ==
  /\ pc' = NextPC(redirect)
  /\ pcp' = IF StopPC THEN pcp ELSE pc
  /\ inst_addr' = IF readsInst THEN NoAddr ELSE NextPC(redirect)
  /\ instr' = inst_addr
  /\ flush' = (redirect # {})
  /\ pipe0' = (redirect = {} /\ (pipe0 \/ ~StopPC))
  /\ pipe1' = (redirect = {} /\ IF StopPC THEN pipe1 ELSE pipe0)

\* MUTANT: a jump does not reset rcsr_op_with_read
DecodeKeepsStop(redirect, clearsStop) ==
  /\ id' = IF redirect # {} THEN NoInstr ELSE IF Decodes THEN Decoded ELSE id
  /\ rcsr_op_with_read' = IF Decodes THEN StopsPipe ELSE rcsr_op_with_read

(* ... and of decode, which the jump of the executed instruction resets.   *)
Decode(redirect, clearsStop) ==
  /\ id' = IF redirect # {} THEN NoInstr ELSE IF Decodes THEN Decoded ELSE id
  /\ rcsr_op_with_read' =
       (~clearsStop /\ IF Decodes THEN StopsPipe ELSE rcsr_op_with_read)

Front(redirect, clearsStop, readsInst) ==
  Fetch(redirect, readsInst) /\ Decode(redirect, clearsStop)

\* MUTANT: start_irq is left set by the interrupt it was for
IrqRegsKeepStart(endsStart, traps, leaves) ==
  /\ start_irq' = (start_irq \/ (Decodes /\ MustStartIrq))
  /\ cur_irq' = CASE reset_cur_irq -> 0
                   [] ~reset_cur_irq /\ traps /\ Vectored /\ start_irq -> cause
                   [] OTHER -> cur_irq
  /\ reset_cur_irq' = (~reset_cur_irq /\ leaves)

\* MUTANT: MRET does not end the interrupt
IrqRegsNoLeave(endsStart, traps, leaves) ==
  /\ start_irq' = (~endsStart /\ (start_irq \/ (Decodes /\ MustStartIrq)))
  /\ cur_irq' = IF traps /\ Vectored /\ start_irq THEN cause ELSE cur_irq
  /\ reset_cur_irq' = FALSE

(* Interrupt registers: endsStart and leaves are what ECALL and MRET set.  *)
IrqRegs(endsStart, traps, leaves) ==
  /\ start_irq' = (~endsStart /\ (start_irq \/ (Decodes /\ MustStartIrq)))
  /\ cur_irq' = CASE reset_cur_irq -> 0
                   [] ~reset_cur_irq /\ traps /\ Vectored /\ start_irq -> cause
                   [] OTHER -> cur_irq
  /\ reset_cur_irq' = (~reset_cur_irq /\ leaves)

\* what the executed instruction asks of csr_irq goes on the bus
Asks(access) == csr_bus' = access

Counts == parity' = 1 - parity

-----------------------------------------------------------------------------
(* One action per kind of executed instruction.                            *)

Sequential(ops, readsInst) ==
  /\ Executes /\ id.op \in ops
  /\ Front({}, FALSE, readsInst)
  /\ IrqRegs(FALSE, FALSE, FALSE)
  /\ UNCHANGED handling

ExecOp(r, wakeup) ==
  /\ Sequential({"op", "nop"}, FALSE) /\ Asks(NoCsr)
  /\ Bus!ExecOther(r, wakeup)
  /\ IF id.op = "nop" THEN UNCHANGED parity ELSE Counts

ExecLoad(wakeup) ==
  /\ Sequential({"load"}, FALSE) /\ Asks(NoCsr) /\ Counts
  /\ Bus!ExecLoad(wakeup)

ExecLoadInst(r, wakeup) ==
  /\ Sequential({"loadinst"}, TRUE) /\ Asks(NoCsr) /\ Counts
  /\ Bus!ExecLoadInst(r, wakeup)

ExecLoadX0(wakeup) ==
  /\ Sequential({"loadx0"}, FALSE) /\ Asks(NoCsr) /\ Counts
  /\ Bus!ExecLoadX0(wakeup)

ExecStore(wakeup) ==
  /\ Sequential({"store", "alias"}, FALSE) /\ Asks(NoCsr) /\ Counts
  /\ Bus!ExecStore(wakeup)

ExecCsrRead(wakeup) ==
  /\ Sequential({"csr"}, FALSE) /\ Counts
  /\ Asks(CsrOp("read", "none", {}))
  /\ Bus!ExecCsrRead(wakeup)

ExecCsrWrite(wakeup) ==
  /\ Sequential({"csrw", "setmepc"}, FALSE) /\ Counts
  /\ Asks(IF id.op = "setmepc" THEN CsrOp("rw", "mepc", {id.off})
          ELSE I!Instr(id.addr).csr)
  /\ Bus!ExecCsrWrite(wakeup)

ExecWfi(wakeup) ==
  /\ Sequential({"wfi"}, FALSE) /\ Counts
  /\ Asks(CsrOp("wfi", "mepc", {pcp}))
  /\ Bus!ExecWfi(wakeup)

\* JAL, JALR and taken or not taken branches; targets are relative to PCp
ExecJump(r, wakeup) ==
  /\ Executes /\ id.op \in {"jump", "branch"}
  /\ \/ Front({id.pcp + id.off}, TRUE, FALSE)
     \/ id.op = "branch" /\ Front({}, FALSE, FALSE)
  /\ IrqRegs(FALSE, FALSE, FALSE) /\ Asks(NoCsr)
  /\ Bus!ExecOther(r, wakeup)
  /\ Counts /\ UNCHANGED handling

\* an ECALL of the program has cause 11: "not rs2(0)" and the mode, l.577
EcallCause == 11

\* the base itself is the entry of cause 0
TrapTarget == IF Vectored /\ start_irq /\ cause # 0 THEN Vector[cause] ELSE TrapBase

\* ECALL, and the entry of an interrupt, which decode made an ECALL
ExecEcall(wakeup) ==
  /\ Executes /\ id.op = "ecall"
  /\ Front({TrapTarget}, TRUE, FALSE)
  /\ IrqRegs(TRUE, TRUE, FALSE)
  /\ Asks([op |-> "ecall", reg |-> "mepc", val |-> {id.pcp},
           cause |-> IF start_irq THEN cause ELSE EcallCause])
  /\ Bus!ExecCsrWrite(wakeup)
  /\ handling' = (handling \/ start_irq)
  /\ IF start_irq THEN UNCHANGED parity ELSE Counts

ExecMret(wakeup) ==
  /\ Executes /\ id.op = "mret"
  /\ Front({mepc}, TRUE, FALSE)
  /\ IrqRegs(FALSE, FALSE, TRUE) /\ Asks(CsrOp("rw", "none", {}))
  /\ Bus!ExecCsrWrite(wakeup)
  /\ handling' = FALSE /\ Counts

\* an unknown opcode: the stop condition of the next instruction is kept
ExecIllegal(r, wakeup) ==
  /\ Executes /\ id.op = "illegal"
  /\ Front({TrapTarget}, FALSE, FALSE)
  /\ IrqRegs(FALSE, TRUE, FALSE) /\ Asks(NoCsr)
  /\ Bus!ExecOther(r, wakeup)
  /\ Counts /\ UNCHANGED handling

NoExec(r, wakeup) ==
  /\ ~Executes
  /\ Front({}, FALSE, FALSE)
  /\ start_irq' = (start_irq \/ (Decodes /\ MustStartIrq))
  /\ cur_irq' = IF reset_cur_irq THEN 0 ELSE cur_irq
  /\ reset_cur_irq' = FALSE
  /\ Asks(NoCsr)
  /\ Bus!NoExec(r, wakeup)
  /\ UNCHANGED <<handling, parity>>

Edge(r, wakeup) ==
  \/ ExecOp(r, wakeup) \/ ExecLoad(wakeup)
  \/ ExecLoadInst(r, wakeup) \/ ExecLoadX0(wakeup)
  \/ ExecStore(wakeup) \/ ExecCsrRead(wakeup)
  \/ ExecCsrWrite(wakeup) \/ ExecWfi(wakeup)
  \/ ExecJump(r, wakeup) \/ ExecEcall(wakeup)
  \/ ExecMret(wakeup) \/ ExecIllegal(r, wakeup)
  \/ NoExec(r, wakeup)

-----------------------------------------------------------------------------
(* The core in front of any interrupt controller: all it promises is that  *)
(* an interrupt is pending until its handler runs, and that mepc takes     *)
(* what is on the bus for it.  CsrCore has the real one.                   *)
ValueOf(access) == CHOOSE v \in access.val : TRUE

Init ==
  /\ PipeInit
  /\ mepc = 0 /\ irq = FALSE
  /\ cause \in IF Causes = {} THEN {0} ELSE Causes

AnyCsr ==
  /\ mepc' = IF csr_bus.reg = "mepc" THEN ValueOf(csr_bus) ELSE mepc
  /\ irq' \in {FALSE, cause # 0}
  /\ irq /\ ~handling => irq'
  /\ UNCHANGED cause

Next ==
  /\ Bus!SlaveCycle /\ AnyCsr
  /\ \E wakeup \in BOOLEAN, r \in Bus!DmaRequests : Edge(r, wakeup)

Spec == Init /\ [][Next]_vars

(* The clock keeps running, and an interrupt ends every WFI.               *)
FairSpec == Spec /\ WF_vars(Next) /\ SF_vars(Next /\ wait_for_interrupt /\ ~wait_for_interrupt')

-----------------------------------------------------------------------------
(* A program is written as the firmware is: what stops the fetch without a *)
(* read is followed by two nops (misc.h:65-69), a write of mepc, a plain   *)
(* one by an instruction of its own, not by MRET.                          *)
OpAt(a) == I!Instr(a).op
WellFormed ==
  /\ Vectored = TRUE
  /\ \A a \in DOMAIN Program :
       /\ Program[a].op \in {"wfi", "alias", "loadx0"}
            => OpAt(a + 1) = "nop" /\ OpAt((a + 1) + 1) = "nop"
       /\ Program[a].op = "setmepc" => OpAt(a + 1) # "mret"
       /\ Program[a].op = "csrw" => Program[a].csr.reg # "mepc"
       /\ Program[a].op \in I!Ops

(* The instruction the pipeline will execute next.                         *)
NextInstr ==
  CASE pipe1 -> IF id.irq THEN id.pcp ELSE id.addr
    [] ~pipe1 /\ pipe0 -> pcp
    [] ~pipe1 /\ ~pipe0 -> pc
NewestMepc == IF csr_bus.reg = "mepc" THEN ValueOf(csr_bus) ELSE mepc

(* The pipeline executes what the sequential machine executes: each        *)
(* instruction once and in order, interrupts between two instructions,     *)
(* with the address of the second in mepc, and none inside its handler.    *)
Sequential_ == INSTANCE Isa WITH pc <- NextInstr, mepc <- NewestMepc
InProgramOrder == Sequential_!Spec

(* risc-V_core.h:474 "Then cpu_wait is raised": an instruction that stops  *)
(* the fetch early makes the pipeline wait in the next cycle or flushes    *)
(* it; else one behind it is decoded twice.  Two do not: a load to x0,     *)
(* which the execute stage skips (l.639), and a store or branch that       *)
(* decode takes for WFI (l.432).                                           *)
StopRaisesWait ==
  [][Executes /\ StopsEarly =>
       (cpu_wait' \/ flush' <=> id.op \notin {"loadx0", "alias"})]_vars

(* A load from instruction memory gets the word at its address, not an     *)
(* instruction fetched before or after (risc-V_core.h:737).                *)
InstLoadGetsOwnData == Bus!Writeback /\ load_mem => instr = NoAddr

(* An illegal instruction takes effect in the cycle in which decode stops  *)
(* the fetch for the one behind it, a CSR read or WFI: its trap empties    *)
(* the pipeline but does not take the stop back (risc-V_core.h:875).       *)
DiscardsStop == Executes /\ id.op = "illegal" /\ Decodes /\ StopsPipe

(* Stalls, stops, traps and jumps end, also a stop for an instruction a    *)
(* jump discards; only one that an illegal instruction discards does not:  *)
(* the pipeline goes on executing for ever exactly if there is none.       *)
KeepsExecuting ==
  /\ []<>Executes \/ <>DiscardsStop
  /\ DiscardsStop ~> []~Executes

=============================================================================
