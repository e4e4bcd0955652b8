------------------------------ MODULE CoreBus ------------------------------
(***************************************************************************)
(* The data-bus side of the Giorno core (src/Source/risc-V_core.h): the    *)
(* execute stage drives the bus register blk2mem_t0, lends the bus to the  *)
(* DMA in the cycles it does not need it, stalls on reads and captures the *)
(* answer of the read it waits for.                                        *)
(*                                                                         *)
(* One step is one rising edge of clk_mcu: every register is assigned once *)
(* from the values all registers had before the edge.  The pipeline in     *)
(* front of the execute stage is left free: in a cycle where the core is   *)
(* not stalled it may execute an instruction of any kind, or none.         *)
(***************************************************************************)
EXTENDS Naturals

CONSTANTS
  Accesses,  \* what DMA requests ask for (address, data, byte enables)
  NoAccess,  \* the bus carries nothing of the DMA
  Targets    \* who the core's accesses may be addressed to

Slaves == {"ram", "periph", "none"}

ASSUME CoreBusAssumption ==
  /\ Accesses # {} /\ NoAccess \notin Accesses
  /\ Targets \subseteq Slaves /\ Targets # {}

VARIABLES
  cpu_wait,            \* the pipeline waits for read data (or for an IRQ)
  wait_for_interrupt,  \* the core sleeps in WFI
  mask_data_en,        \* ignore the answer arriving in the first wait cycle
  rwb,                 \* a writeback register is set: read data is expected
  load_mem0,           \* the expected data come from instruction memory ...
  load_mem,            \* ... one cycle later
  dma_grant,           \* dma_grant_o
  dma_granted,         \* a DMA request was granted in the last cycle
  bus,                 \* blk2mem_t0, with the read's owner as history
  answer               \* the registered answer of the addressed slave

coreVars == <<cpu_wait, wait_for_interrupt, mask_data_en, rwb, load_mem0,
              load_mem, dma_grant, dma_granted, bus>>

(* History: who put an access on the bus, the instruction that stalls for  *)
(* its answer ("load"), one that does not ("stray") or the DMA.            *)
Owners == {"load", "stray", "dma"}

DmaRequests == [cs : BOOLEAN, wr : BOOLEAN, acc : Accesses]

CoreInit ==
  /\ cpu_wait = FALSE /\ wait_for_interrupt = FALSE /\ mask_data_en = FALSE
  /\ rwb = FALSE /\ load_mem0 = FALSE /\ load_mem = FALSE
  /\ dma_grant = FALSE /\ dma_granted = FALSE
  /\ bus = [cs |-> FALSE, wr |-> FALSE, owner |-> "stray", to |-> "ram",
             acc |-> NoAccess]

-----------------------------------------------------------------------------
(* Read data for the stalled instruction are on the wires.  Instruction    *)
(* memory is read in every cycle, so its data_en is always up.             *)
Writeback == rwb /\ ~mask_data_en /\ (load_mem \/ answer.en)

\* MUTANT: the mask is kept for the whole stall
CommitMaskKept(wait, wfi, mask, wb, fromInst, wakeup) ==
  LET wakes == wait_for_interrupt /\ wakeup IN
  /\ cpu_wait' = (wait /\ ~Writeback /\ ~wakes)
  /\ wait_for_interrupt' = (wfi /\ ~wakes)
  /\ mask_data_en' = mask
  /\ rwb' = (wb /\ ~Writeback)
  /\ load_mem0' = (fromInst /\ ~Writeback)
  /\ load_mem' = (load_mem0 /\ ~Writeback)

\* MUTANT: load_mem follows load_mem0 without the delay
CommitNoDelay(wait, wfi, mask, wb, fromInst, wakeup) ==
  LET wakes == wait_for_interrupt /\ wakeup IN
  /\ cpu_wait' = (wait /\ ~Writeback /\ ~wakes)
  /\ wait_for_interrupt' = (wfi /\ ~wakes)
  /\ mask_data_en' = (mask /\ ~cpu_wait)
  /\ rwb' = (wb /\ ~Writeback)
  /\ load_mem0' = (fromInst /\ ~Writeback)
  /\ load_mem' = (fromInst /\ ~Writeback)

(* What ends every cycle, whatever was executed: the arguments are the     *)
(* values the execute stage assigned, which writeback and wake-up          *)
(* override because they come later in the process.                        *)
Commit(wait, wfi, mask, wb, fromInst, wakeup) ==
  LET wakes == wait_for_interrupt /\ wakeup IN
  /\ cpu_wait' = (wait /\ ~Writeback /\ ~wakes)
  /\ wait_for_interrupt' = (wfi /\ ~wakes)
  /\ mask_data_en' = (mask /\ ~cpu_wait)
  /\ rwb' = (wb /\ ~Writeback)
  /\ load_mem0' = (fromInst /\ ~Writeback)
  /\ load_mem' = (load_mem0 /\ ~Writeback)

\* MUTANT: the request is granted whether the bus is free or not
LendAlwaysGrants(dma_request, allowed) ==
  LET granted == dma_request.cs /\ allowed IN
  /\ bus' = [cs |-> granted /\ ~dma_granted, wr |-> dma_request.wr,
             owner |-> "dma", to |-> "ram", acc |-> dma_request.acc]
  /\ dma_grant' = dma_request.cs
  /\ dma_granted' = granted

(* The bus is free for the DMA: its request is copied to the bus, unless   *)
(* one was granted just before.                                            *)
Lend(dma_request, allowed) ==
  LET granted == dma_request.cs /\ allowed IN
  /\ bus' = [cs |-> granted /\ ~dma_granted, wr |-> dma_request.wr,
             owner |-> "dma", to |-> "ram", acc |-> dma_request.acc]
  /\ dma_grant' = granted
  /\ dma_granted' = granted

(* The core uses the bus itself; dma_granted is not touched.               *)
Drive(wr, owner, to) ==
  /\ bus' = [cs |-> TRUE, wr |-> wr, owner |-> owner, to |-> to, acc |-> NoAccess]
  /\ dma_grant' = FALSE
  /\ UNCHANGED dma_granted

-----------------------------------------------------------------------------
(* The execute stage, one action per kind of instruction.                  *)

\* OP, OPI, LUI, AUIPC, JAL, JALR, BRANCH, FENCE
ExecOther(dma_request, wakeup) ==
  /\ ~cpu_wait
  /\ Lend(dma_request, TRUE)
  /\ Commit(FALSE, wait_for_interrupt, mask_data_en, FALSE, FALSE, wakeup)

\* MUTANT: the answer to the access before the load is not masked
ExecLoadUnmasked(wakeup) ==
  /\ ~cpu_wait
  /\ \E to \in Targets : Drive(FALSE, "load", to)
  /\ Commit(TRUE, wait_for_interrupt, FALSE, TRUE, FALSE, wakeup)

\* LOAD from data memory or a register
ExecLoad(wakeup) ==
  /\ ~cpu_wait
  /\ \E to \in Targets : Drive(FALSE, "load", to)
  /\ Commit(TRUE, wait_for_interrupt, TRUE, TRUE, FALSE, wakeup)

\* LOAD from instruction memory: the data bus stays free
ExecLoadInst(dma_request, wakeup) ==
  /\ ~cpu_wait
  /\ Lend(dma_request, TRUE)
  /\ Commit(TRUE, wait_for_interrupt, TRUE, TRUE, TRUE, wakeup)

\* LOAD to x0: nothing is issued and the bus register keeps its last access
ExecLoadX0(wakeup) ==
  /\ ~cpu_wait
  /\ bus' = [bus EXCEPT !.wr = FALSE, !.owner = IF @ = "load" THEN "stray" ELSE @]
  /\ dma_grant' = FALSE
  /\ UNCHANGED dma_granted
  /\ Commit(FALSE, wait_for_interrupt, mask_data_en, FALSE, FALSE, wakeup)

ExecStore(wakeup) ==
  /\ ~cpu_wait
  /\ \E to \in Targets : Drive(TRUE, "stray", to)
  /\ Commit(FALSE, wait_for_interrupt, mask_data_en, FALSE, FALSE, wakeup)

\* CSR instruction with rd # x0: stalls like a load
ExecCsrRead(wakeup) ==
  /\ ~cpu_wait
  /\ Drive(FALSE, "load", "periph")
  /\ Commit(TRUE, wait_for_interrupt, TRUE, TRUE, FALSE, wakeup)

\* CSR instruction with rd = x0, ECALL, MRET and IRQ entry: csr_irq answers
\* CSRRS/CSRRC and MRET with a data_en nobody waits for, the others not
ExecCsrWrite(wakeup) ==
  /\ ~cpu_wait
  /\ \E answered \in BOOLEAN : Drive(~answered, "stray", "periph")
  /\ Commit(FALSE, wait_for_interrupt, FALSE, FALSE, FALSE, wakeup)

\* WFI stalls with no read outstanding
ExecWfi(wakeup) ==
  /\ ~cpu_wait
  /\ Drive(TRUE, "stray", "periph")
  /\ Commit(TRUE, TRUE, FALSE, FALSE, FALSE, wakeup)

\* MUTANT: the bus is lent during a stall for data
NoExecLends(dma_request, wakeup) ==
  /\ Lend(dma_request, TRUE)
  /\ Commit(cpu_wait, wait_for_interrupt, mask_data_en, rwb, load_mem0, wakeup)

\* nothing is executed: a stall, or a bubble in the pipeline
NoExec(dma_request, wakeup) ==
  /\ Lend(dma_request, ~cpu_wait \/ wait_for_interrupt)
  /\ Commit(cpu_wait, wait_for_interrupt, mask_data_en, rwb, load_mem0, wakeup)

(* Cycles that leave the data bus to the DMA, and cycles that take it.     *)
FreeCycle(dma_request, wakeup) ==
  \/ ExecOther(dma_request, wakeup)
  \/ ExecLoadInst(dma_request, wakeup)
  \/ NoExec(dma_request, wakeup)

BusyCycle(wakeup) ==
  \/ ExecLoad(wakeup)
  \/ ExecLoadX0(wakeup)
  \/ ExecStore(wakeup)
  \/ ExecCsrRead(wakeup)
  \/ ExecCsrWrite(wakeup)
  \/ ExecWfi(wakeup)

CoreCycle(dma_request, wakeup) ==
  FreeCycle(dma_request, wakeup) \/ BusyCycle(wakeup)

(* The core starts after code was loaded: nothing is executed, and most    *)
(* registers are reset, but not wait_for_interrupt.  The bus is lent, but  *)
(* no grant is given.                                                      *)
BootStart(dma_request, wakeup) ==
  LET lends == dma_request.cs /\ (~cpu_wait \/ wait_for_interrupt) IN
  /\ bus' = [cs |-> lends /\ ~dma_granted, wr |-> dma_request.wr,
             owner |-> "dma", to |-> "ram", acc |-> dma_request.acc]
  /\ dma_grant' = FALSE
  /\ dma_granted' = lends
  /\ cpu_wait' = FALSE /\ mask_data_en' = FALSE /\ rwb' = FALSE
  /\ load_mem0' = FALSE /\ load_mem' = FALSE
  /\ wait_for_interrupt' = (wait_for_interrupt /\ ~wakeup)

-----------------------------------------------------------------------------
(* The slaves: data RAM (mem.h) and the register blocks answer a read one  *)
(* cycle after it was on the bus; no other access raises data_en.          *)
SlaveInit == answer = [en |-> FALSE, ram |-> FALSE, owner |-> "stray",
                       acc |-> NoAccess]

SlaveCycle ==
  LET reads == bus.cs /\ ~bus.wr /\ bus.to # "none" IN
  answer' = [en |-> reads, ram |-> reads /\ bus.to = "ram",
             owner |-> bus.owner, acc |-> bus.acc]

-----------------------------------------------------------------------------
(* The core and its slaves against any DMA and any interrupts.             *)
vars == <<cpu_wait, wait_for_interrupt, mask_data_en, rwb, load_mem0,
          load_mem, dma_grant, dma_granted, bus, answer>>

Init == CoreInit /\ SlaveInit

Next ==
  /\ SlaveCycle
  /\ \E r \in DmaRequests, w \in BOOLEAN : CoreCycle(r, w)

Spec == Init /\ [][Next]_vars

FairSpec == Spec /\ WF_vars(Next)

-----------------------------------------------------------------------------
TypeOK ==
  /\ cpu_wait \in BOOLEAN /\ wait_for_interrupt \in BOOLEAN
  /\ mask_data_en \in BOOLEAN /\ rwb \in BOOLEAN
  /\ load_mem0 \in BOOLEAN /\ load_mem \in BOOLEAN
  /\ dma_grant \in BOOLEAN /\ dma_granted \in BOOLEAN
  /\ bus \in [cs : BOOLEAN, wr : BOOLEAN, owner : Owners, to : Slaves,
              acc : Accesses \cup {NoAccess}]
  /\ answer \in [en : BOOLEAN, ram : BOOLEAN, owner : Owners,
                 acc : Accesses \cup {NoAccess}]

(* What a load from data memory or a CSR read writes back is the answer to *)
(* its own access: never the data of a DMA read that was granted in the    *)
(* cycle before, nor an answer nobody waits for (risc-V_core.h:761, the    *)
(* purpose of mask_data_en).                                               *)
LoadGetsOwnData == Writeback /\ ~load_mem => answer.owner = "load"

(* The mask never hides the answer the core waits for.                     *)
AnswerIsSeen == answer.en /\ answer.owner = "load" => Writeback

(* While the core stalls for a read no DMA access is on the bus after the  *)
(* read was: its answer cannot be overtaken (risc-V_core.h:728).           *)
StallOwnsBus ==
  (rwb /\ ~mask_data_en /\ ~load_mem0) => ~(bus.cs /\ bus.owner = "dma")

(* Why these hold, as an invariant that every edge preserves.  The first   *)
(* cycle of a stall has mask_data_en set and the access on the bus; in the *)
(* later ones the bus is kept idle, so the only answer that can arrive is  *)
(* the one to that access.                                                 *)
StallShape ==
  /\ rwb => cpu_wait
  /\ wait_for_interrupt => cpu_wait /\ ~rwb
  /\ cpu_wait => rwb \/ wait_for_interrupt
  /\ mask_data_en => rwb /\ ~load_mem
  /\ load_mem0 => rwb
  /\ load_mem => load_mem0

FirstStallCycle == rwb /\ mask_data_en /\ ~load_mem0
LaterStallCycle == rwb /\ ~mask_data_en /\ ~load_mem0

StallInv ==
  /\ StallShape
  /\ rwb /\ load_mem0 /\ ~mask_data_en => load_mem
  /\ FirstStallCycle => bus.cs /\ ~bus.wr /\ bus.owner = "load"
  /\ bus.cs /\ bus.owner = "load" => FirstStallCycle
  /\ LaterStallCycle => ~bus.cs
  /\ LaterStallCycle /\ answer.en => answer.owner = "load"
  /\ answer.en /\ answer.owner = "load" => LaterStallCycle

(* A stalled load is answered and the pipeline resumes (Targets without    *)
(* "none": an address where something answers).                            *)
LoadCompletes == rwb ~> ~cpu_wait

=============================================================================
