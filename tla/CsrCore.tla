------------------------------ MODULE CsrCore ------------------------------
(***************************************************************************)
(* The pipeline (CorePipe) with the real interrupt controller (CsrIrq) on  *)
(* its data bus, and an external source that raises its line for a cycle   *)
(* when the program has started it (a DMA transfer ends).  The program is  *)
(* code that enables, waits for and handles interrupts: what the two       *)
(* blocks, each a few registers behind the other, make of it.              *)
(***************************************************************************)
EXTENDS CorePipe

CONSTANTS Platform, Timer, MaxDelay,  \* see CsrIrq
  Starts    \* addresses of the stores that start the external source

VARIABLES
  mstatus, mie, mip, mcause, far, left, wfi, wakeup,  \* see CsrIrq
  running   \* the external source works and has not raised its line

Csr == INSTANCE CsrIrq

csrCoreVars == <<vars, mstatus, mie, mip, mcause, far, left, wfi, wakeup, running>>

CsrCoreInit == PipeInit /\ Csr!CsrInit /\ running = FALSE

(* A delay the program writes may have passed in part when it is written.  *)
OnBus ==
  IF csr_bus.op = "rw" /\ csr_bus.reg = "mtimecmp"
  THEN {[csr_bus EXCEPT !.val = {n}] : n \in 0 .. Csr!ValueOf(csr_bus)}
  ELSE {csr_bus}

(* The line is up for the cycle in which the source ends.                  *)
SourceStep(ends) ==
  /\ ends => running
  /\ running' = ((running /\ ~ends) \/ (Executes /\ id.addr \in Starts /\ ~id.irq))

Tick ==
  \E a \in OnBus, ends \in BOOLEAN, r \in Bus!DmaRequests :
    /\ SourceStep(ends)
    /\ Csr!CsrEdge(a, IF ends THEN Platform ELSE {})
    /\ Bus!SlaveCycle
    /\ Edge(r, wakeup)

CsrCoreSpec == CsrCoreInit /\ [][Tick]_csrCoreVars

(* The clock keeps running and a started source ends.                      *)
CsrCoreFair ==
  /\ CsrCoreSpec
  /\ WF_csrCoreVars(Tick)
  /\ WF_csrCoreVars(Tick /\ running /\ ~running')

-----------------------------------------------------------------------------
(* An interrupt that is entered is one that is pending, and its vector is  *)
(* its own: nothing withdrew or replaced it between its decode, which saw  *)
(* irq, and its ECALL, which sees cause a cycle or more later              *)
(* (risc-V_core.h:370 and 867).                                            *)
EntersPending ==
  Executes /\ start_irq /\ id.op = "ecall" => cause # 0 /\ (cause - 32) \in mip

(* An interrupt that is entered is enabled in mie.  The write that         *)
(* disables it drops what is pending (csr_irq.h:168), but a pulse or a due *)
(* timer in the same edge is or-ed back with the old mie (l.189-195) and   *)
(* stays pending.  So a program may disable a source that can still end    *)
(* only while MIE is clear, and clear its bit in mip behind that; with a   *)
(* timer it moved away before, as timer_irq_handler does, it need not.     *)
DisabledIsQuiet ==
  Executes /\ start_irq /\ id.op = "ecall" => (cause - 32) \in mie

(* csr_irq.h:203 "Actually generate interrupt signal when IRQs are         *)
(* enabled": a program that cleared mstatus.MIE is not interrupted.        *)
MaskedIsQuiet == Executes /\ id.irq => Csr!MIE \in mstatus

(* Every WFI of the program ends: the interrupt it waits for is not lost   *)
(* between the program's enabling it and its going to sleep.               *)
SleepEnds == wait_for_interrupt ~> ~wait_for_interrupt

(* A pending, enabled interrupt is taken.                                  *)
PendingIsTaken ==
  \A i \in Csr!Irqs :
    (i \in mip /\ Csr!MIE \in mstatus) ~> (cur_irq = 32 + i \/ i \notin mip)

=============================================================================
