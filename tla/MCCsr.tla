------------------------------- MODULE MCCsr -------------------------------
(* Interrupt code of the firmware, by what it does to the CSRs.            *)
EXTENDS CsrCore, TLC

To(op, off) == [op |-> op, off |-> off, csr |-> NoCsr]
Plain(op) == To(op, 0)
Csrw(op, reg, val) == [op |-> "csrw", off |-> 0, csr |-> CsrOp(op, reg, val)]
Nop == Plain("nop")

EnableAll == Csrw("rs", "mstatus", {Csr!MIE})    \* MIT_ENABLE
DisableAll == Csrw("rc", "mstatus", {Csr!MIE})   \* MIT_DISABLE
Enable(i) == Csrw("rs", "mie", {i})              \* IT_ENABLE
Disable(i) == Csrw("rc", "mie", {i})             \* IT_DISABLE
Clear(i) == Csrw("rc", "mip", {i})               \* IT_CLEAR

Ext == 16

(* 1: wait_cycles (misc.h:161-180); 12: a transfer of spi_pwm.cpp:34-39;   *)
(* 24: crt0.S default_exc_handler; 25: timer_irq_handler (misc.h:210-222); *)
(* 29: a handler of the external source; 32: it runs while the program     *)
(* jumps, starts it again and at last traps.  40: what the firmware has no *)
(* need for yet, a transfer with a time limit: the source that did not end *)
(* the wait is disabled when it may end at any moment, and interrupts are  *)
(* on again behind that.                                                   *)
FirmwareProgram == <<
  DisableAll, Csrw("rw", "mtimecmph", {}), Csrw("rw", "mtimecmp", {MaxDelay}),
  EnableAll, Enable(Timer), Plain("wfi"), Nop, Nop, Nop, DisableAll,
  To("branch", -10),
  Enable(Ext), Plain("store"), Plain("wfi"), Nop, Nop, Nop, Clear(Ext),
  To("branch", -6), Disable(Ext), To("branch", 11),
  To("branch", 18), To("jump", -22), To("jump", 0),
  Csrw("rw", "mtimecmph", {31}), Disable(Timer), Plain("load"), Plain("mret"),
  Clear(Ext), Plain("mret"),
  Nop,
  EnableAll, Enable(Ext), Plain("store"), Plain("op"), To("jump", 2), Nop,
  To("branch", -4), Plain("ecall"),
  Csrw("rw", "mtimecmph", {}), Csrw("rw", "mtimecmp", {MaxDelay}),
  Enable(Timer), Enable(Ext), Plain("store"), Plain("wfi"), Nop, Nop, Nop,
  Disable(Timer), Disable(Ext), Clear(Timer), Clear(Ext), EnableAll,
  Plain("op"), Plain("op"), Plain("op"), To("jump", -56)>>
FirmwareVector == (32 + Timer :> 25) @@ (32 + Ext :> 29)

(* Interrupts are switched off while the source may still end.             *)
MaskProgram == <<
  Enable(Ext), EnableAll, Plain("store"), Plain("op"), DisableAll,
  Nop, Nop, Nop, Nop, To("jump", -8),
  Clear(Ext), Plain("mret")>>
MaskVector == 32 + Ext :> 11
=============================================================================
