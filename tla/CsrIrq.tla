------------------------------- MODULE CsrIrq -------------------------------
(***************************************************************************)
(* Machine CSRs and interrupt selection (src/Source/csr_irq.h).  One step  *)
(* is one rising edge of clk_csr_irq: the registers take the access that   *)
(* is on the data bus, lines of the platform and the timer become pending, *)
(* and the pending set of before the edge decides about the interrupt and  *)
(* the wake-up towards the core.                                           *)
(*                                                                         *)
(* mie, mip and mstatus are sets of bit numbers.  The 64-bit mcounter and  *)
(* mtimecmp are kept as their distance: far when the upper word is beyond  *)
(* reach, else the cycles left until the timer expires.                    *)
(***************************************************************************)
EXTENDS Integers

CONSTANTS
  Platform,  \* bits of the external interrupts (16 + index of the line)
  Timer,     \* bit of the timer interrupt, 4 + priv
  MaxDelay   \* longest delay a program asks for

MIE == 3     \* bit of mstatus

Irqs == Platform \cup {Timer}

VARIABLES
  mstatus, mie, mip, mepc, mcause,
  far, left,           \* mtimecmp - mcounter
  wfi,                 \* the core has executed WFI
  irq, cause, wakeup   \* csr2core_o

csrVars == <<mstatus, mie, mip, mepc, mcause, far, left, wfi, irq, cause, wakeup>>

(* wakeup has no reset value.                                              *)
CsrInit ==
  /\ mstatus = {} /\ mie = {} /\ mip = {}
  /\ mepc = 0 /\ mcause = 0
  /\ far = FALSE /\ left = 0
  /\ wfi = FALSE /\ irq = FALSE /\ cause = 0
  /\ wakeup \in BOOLEAN

-----------------------------------------------------------------------------
Addressed(a) == a.op # "none"
Writes(a, reg) == a.op \in {"rw", "rs", "rc"} /\ a.reg = reg
ValueOf(a) == CHOOSE v \in a.val : TRUE

(* CSRRW, CSRRS and CSRRC on a register of bits.                           *)
Applied(a, old) ==
  CASE a.op = "rw" -> a.val
    [] a.op = "rs" -> old \cup a.val
    [] a.op = "rc" -> old \ a.val

After(a, reg, old) == IF Writes(a, reg) THEN Applied(a, old) ELSE old

Expired == ~far /\ left = 0

(* Interrupts start at 32, behind the exceptions; the highest bit wins.    *)
CauseOf(pending) ==
  IF pending = {} THEN 0
  ELSE 32 + (CHOOSE i \in pending : \A j \in pending : j <= i)

(* A write of mie also drops what is pending and no longer enabled; only   *)
(* then the timer and the lines are looked at, with the old mie.           *)
Cleared(a) ==
  CASE Writes(a, "mie") -> mip \cap Applied(a, mie)
    [] Writes(a, "mip") -> Applied(a, mip)
    [] OTHER -> mip

Raised(lines) == mie \cap (lines \cup (IF Expired THEN {Timer} ELSE {}))

\* MUTANT: a write of mie leaves what is pending
PendingAfterMie(a, lines) ==
  (IF Writes(a, "mip") THEN Applied(a, mip) ELSE mip) \cup Raised(lines)

PendingAfter(a, lines) == Cleared(a) \cup Raised(lines)

(* The timer: mtimecmph and mtimecmp are written one after the other.      *)
TimerStep(a) ==
  /\ far' = IF Writes(a, "mtimecmph") THEN a.val # {} ELSE far
  /\ left' = CASE Writes(a, "mtimecmp") -> ValueOf(a)
               [] ~Writes(a, "mtimecmp") /\ left > 0 -> left - 1
               [] OTHER -> 0

\* MUTANT: the interrupt signal does not depend on mstatus.MIE
IrqUnmasked == irq' = (mip # {}) /\ cause' = CauseOf(mip)

(* With mstatus.MIE the pending set of before the edge is shown to the     *)
(* core; without it the two registers are not assigned.                    *)
IrqOut ==
  IF MIE \in mstatus
  THEN irq' = (mip # {}) /\ cause' = CauseOf(mip)
  ELSE UNCHANGED <<irq, cause>>

(* mcause: an interrupt overrides what ECALL or a write put there.         *)
CauseStep(a) ==
  mcause' = CASE MIE \in mstatus /\ mip # {} -> CauseOf(mip)
              [] (MIE \notin mstatus \/ mip = {}) /\ Writes(a, "mcause") -> ValueOf(a)
              [] (MIE \notin mstatus \/ mip = {}) /\ a.op = "ecall" -> a.cause
              [] OTHER -> mcause

\* MUTANT: the wake-up, like the interrupt, needs mstatus.MIE
WakeIfEnabled(a) ==
  LET wakes == wfi /\ mip # {} /\ MIE \in mstatus IN
  /\ wakeup' = wakes
  /\ wfi' = (~wakes /\ IF Addressed(a) THEN a.op = "wfi" ELSE wfi)

(* A sleeping core is woken by anything pending, enabled by MIE or not.    *)
Wake(a) ==
  LET wakes == wfi /\ mip # {} IN
  /\ wakeup' = wakes
  /\ wfi' = (~wakes /\ IF Addressed(a) THEN a.op = "wfi" ELSE wfi)

CsrEdge(a, lines) ==
  /\ mstatus' = After(a, "mstatus", mstatus)
  /\ mie' = After(a, "mie", mie)
  /\ mip' = PendingAfter(a, lines)
  /\ mepc' = IF a.op \in {"ecall", "wfi"} \/ Writes(a, "mepc") THEN ValueOf(a) ELSE mepc
  /\ TimerStep(a)
  /\ IrqOut
  /\ CauseStep(a)
  /\ Wake(a)

=============================================================================
