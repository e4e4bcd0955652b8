-------------------------------- MODULE Uart --------------------------------
(***************************************************************************)
(* The UART (src/Source/sUART.h), as a function from the registers of      *)
(* before an edge of clk_peri and what the ports show to the registers     *)
(* after it.  The process assigns signals in order and the last assignment *)
(* counts, while every condition reads the values of before the edge: in   *)
(* the operators below u is before the edge, w what is assigned so far.    *)
(* A byte is a function from the numbers of its bits to them.              *)
(*                                                                         *)
(* The code has NBits = 8 and 16-bit counters.  A counter is kept at 0     *)
(* while it is not looked at: whatever starts the transmitter or the       *)
(* receiver sets it.                                                       *)
(***************************************************************************)
EXTENDS Integers

CONSTANTS
  NBits,     \* data bits of a frame
  CntMod,    \* the counters wrap here
  ResetDiv   \* the division factor after reset

(* States of both byte machines: waiting for a start bit, the data bits    *)
(* 0 .. NBits - 1, the stop bit, the end of the frame.                     *)
Idle == 24
StopBit == NBits
EndBit == 16

Bits == 0 .. NBits - 1
Zero == [i \in Bits |-> 0]

(* A byte shifted to the right by one.                                     *)
Shifted(byte, top) == [i \in Bits |-> IF i = NBits - 1 THEN top ELSE byte[i + 1]]

Reset ==
  [div |-> ResetDiv, boot |-> FALSE, irq |-> FALSE,
   send |-> FALSE, txState |-> Idle, txCnt |-> 0, txByte |-> Zero,
   txReady |-> TRUE, rdy |-> TRUE, tx |-> 1,
   get |-> TRUE, rxState |-> Idle, rxCnt |-> 0, rxByte |-> Zero,
   rxReady |-> FALSE, started |-> FALSE, ended |-> FALSE, dmaReq |-> FALSE,
   rx |-> 1, rxp |-> 1, rts |-> 0, en |-> FALSE, data |-> Zero]

Down(n) == IF n = 0 THEN CntMod - 1 ELSE n - 1

-----------------------------------------------------------------------------
(* The register: bit 8 chooses between arming the receiver and sending a   *)
(* byte, bit 9 turns the receiver off.                                     *)
Written(u, p) ==
  LET w == [u EXCEPT !.div = p.div, !.get = ~p.cancel, !.send = (p.write = "tx")] IN
  CASE p.write = "none" -> u
    [] p.write = "rx" ->
         [w EXCEPT !.rxCnt = 0, !.rxState = Idle, !.rxReady = FALSE,
                   !.started = FALSE, !.rts = 0, !.ended = FALSE]
    [] p.write = "tx" ->
         [w EXCEPT !.txCnt = 0, !.txState = Idle, !.txReady = FALSE, !.txByte = p.byte]

(* A byte from the DMA starts a transmission, whatever the register said.  *)
FromDma(w, p) ==
  IF p.en
  THEN [w EXCEPT !.send = TRUE, !.txByte = p.data, !.txCnt = 0, !.txReady = FALSE,
                 !.rdy = FALSE]
  ELSE w

(* One bit is sent every div + 1 cycles.  CTS is looked at when the        *)
(* counter is 0, that is once in CntMod cycles while it is high.           *)
TxEdge(u, w, p) ==
  CASE ~(u.send /\ u.txCnt = 0) -> w
    [] u.send /\ u.txCnt = 0 /\ u.txState = Idle ->
         IF p.cts = 0
         THEN [w EXCEPT !.rdy = FALSE, !.tx = 0, !.txCnt = u.div, !.txState = 0]
         ELSE [w EXCEPT !.rdy = FALSE]
    [] u.send /\ u.txCnt = 0 /\ u.txState = StopBit ->
         [w EXCEPT !.tx = 1, !.txCnt = u.div, !.txState = EndBit]
    [] u.send /\ u.txCnt = 0 /\ u.txState = EndBit ->
         [w EXCEPT !.tx = 1, !.txState = Idle, !.send = FALSE, !.txReady = TRUE,
                   !.rdy = TRUE, !.irq = TRUE]
    [] OTHER ->
         [w EXCEPT !.txCnt = u.div, !.tx = u.txByte[0], !.txState = u.txState + 1,
                   !.txByte = Shifted(u.txByte, 0)]

(* The edge the receiver waits for: a falling one for the start bit, then  *)
(* every rising one, which moves the sampling to the middle of the bit.    *)
LineEdge(u) ==
  IF u.rxState = Idle THEN u.rx = 0 /\ u.rxp = 1 ELSE u.rx = 1 /\ u.rxp = 0

Sampling(u) == u.started /\ u.rxCnt = 0

\* MUTANT: the request of the DMA is not noted
SyncedNoReq(u, w, p) ==
  IF LineEdge(u)
  THEN [w EXCEPT !.rxCnt = u.div \div 2, !.started = TRUE, !.ended = FALSE]
  ELSE w

Synced(u, w, p) ==
  IF LineEdge(u)
  THEN [w EXCEPT !.rxCnt = u.div \div 2, !.started = TRUE, !.dmaReq = p.req,
                 !.ended = FALSE]
  ELSE w

\* MUTANT: between two bytes RTS is left as it is
RtsKept(u, w, p) == w

(* Behind a byte of a transfer that still requests data RTS stays low, at  *)
(* the end of the transfer it goes high.                                   *)
Rts(u, w, p) ==
  IF u.ended THEN [w EXCEPT !.rts = IF u.dmaReq /\ p.req THEN 0 ELSE 1] ELSE w

ByteEnd(u, w, p) ==
  [w EXCEPT !.rxState = Idle, !.rxReady = TRUE, !.data = u.rxByte, !.en = TRUE,
            !.started = FALSE, !.irq = TRUE, !.rts = IF p.req THEN 0 ELSE 1, !.ended = TRUE]

Sampled(u, w, p) ==
  CASE ~Sampling(u) -> w
    [] Sampling(u) /\ u.rxState = Idle -> [w EXCEPT !.rxCnt = u.div, !.rxState = 0]
    [] Sampling(u) /\ u.rxState = StopBit -> [w EXCEPT !.rxCnt = 0, !.rxState = EndBit]
    [] Sampling(u) /\ u.rxState = EndBit -> ByteEnd(u, w, p)
    [] OTHER ->
         [w EXCEPT !.rxCnt = u.div, !.rxState = u.rxState + 1,
                   !.rxByte = Shifted(u.rxByte, u.rxp)]

(* A byte is shown to the DMA until it is granted; a write of the register *)
(* and the start of boot mode take it back.                                *)
Withdrawn(u, w, p) ==
  IF p.grant \/ p.write # "none" \/ (p.boot /\ ~u.boot) THEN [w EXCEPT !.en = FALSE] ELSE w

\* MUTANT: the grant of a byte also withdraws the next, if that ends now
RxEdgeGrantLast(u, w, p) ==
  IF u.get
  THEN Withdrawn(u, Sampled(u, Rts(u, Synced(u, [w EXCEPT !.rx = p.rx, !.rxp = u.rx], p), p), p), p)
  ELSE w

RxEdge(u, w, p) ==
  IF u.get
  THEN Sampled(u, Rts(u, Synced(u, [Withdrawn(u, w, p) EXCEPT !.rx = p.rx, !.rxp = u.rx], p), p), p)
  ELSE w

Counted(u) ==
  [u EXCEPT !.txCnt = Down(@), !.rxCnt = Down(@), !.boot = FALSE, !.irq = FALSE]

(* One edge of clk_peri; p is what the ports show: the register access,    *)
(* d2p_8_t of the DMA, boot mode, CTS and the line.                        *)
UartEdge(u, p) ==
  LET tx == TxEdge(u, FromDma(Written(Counted(u), p), p), p)
      w  == [RxEdge(u, tx, p) EXCEPT !.boot = p.boot]
  IN [w EXCEPT !.txCnt = IF w.send THEN @ ELSE 0, !.rxCnt = IF w.started THEN @ ELSE 0]

=============================================================================
