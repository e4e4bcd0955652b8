-------------------------------- MODULE Spi ---------------------------------
(***************************************************************************)
(* The SPI block, master or slave (src/Source/SPI.h): registers, DMA       *)
(* handshake and the two FIFOs' outer ends on clk_mcu, the byte machine    *)
(* and the FIFOs' inner ends on clk_120.  Each process is a function from  *)
(* its registers of before the edge and what it sees of the other process  *)
(* and of the pins to its registers after it; as in Uart the last          *)
(* assignment counts.                                                      *)
(***************************************************************************)
EXTENDS Integers, Sequences

CONSTANT NBits   \* bits of a byte, 8 in the code

Depth == 4       \* bytes in a FIFO
PtrMod == 8      \* pointers have one bit more than an index
CntMod == 256
Top == NBits - 1 \* tsfr_cnt between two bytes

Index(ptr) == ptr % Depth
Next8(ptr) == (ptr + 1) % PtrMod
FullAt(wptr, rptr) == wptr = (rptr + Depth) % PtrMod
Empty == [i \in 0 .. Depth - 1 |-> 0]

-----------------------------------------------------------------------------
(* Registers of clk_mcu.  conf is what the configuration holds, with the   *)
(* second word of it where a program writes that one too.                  *)
McuReset(conf) ==
  [conf |-> conf, nbytes |-> 0, dma |-> FALSE, busy |-> FALSE, reset |-> FALSE,
   wptrTx |-> 0, fifoTx |-> Empty, rptrRx |-> 0, waitGrant |-> FALSE,
   rdy |-> FALSE, en |-> FALSE, data |-> 0]

(* Writes of the two registers, and the read of the data, which starts a   *)
(* slave anew.  A configuration leaves fifo_wptr_tx.                       *)
McuWritten(m, f, p) ==
  LET w == [m EXCEPT !.reset = FALSE, !.busy = @ /\ ~f.ready] IN
  CASE p.write = "none" -> w
    [] p.write = "read" -> [w EXCEPT !.reset = ~m.conf.master]
    [] p.write = "conf" ->
         [w EXCEPT !.nbytes = m.conf.nbytes, !.rptrRx = 0, !.dma = (m.conf.nbytes = 0),
                   !.rdy = FALSE, !.reset = TRUE]
    [] p.write = "data" ->
         [w EXCEPT !.fifoTx = p.bytes, !.wptrTx = m.nbytes, !.busy = TRUE, !.reset = TRUE]

\* MUTANT: room is judged without the byte that comes in this edge
McuTxOld(m, f, p, w) ==
  LET v == [w EXCEPT !.rdy = ~FullAt(m.wptrTx, f.rptrTx)]
  IN IF p.en
     THEN [v EXCEPT !.fifoTx[Index(m.wptrTx)] = p.data, !.wptrTx = Next8(m.wptrTx)]
     ELSE v

(* Into the Tx FIFO: ready as long as there is room behind the newest byte.*)
McuTx(m, f, p, w) ==
  LET wptr == IF p.en THEN Next8(m.wptrTx) ELSE m.wptrTx
      v    == [w EXCEPT !.rdy = ~FullAt(wptr, f.rptrTx)]
  IN IF p.en THEN [v EXCEPT !.fifoTx[Index(m.wptrTx)] = p.data, !.wptrTx = wptr] ELSE v

(* Out of the Rx FIFO: a byte is shown until it is granted.                *)
McuRx(m, f, p, w) ==
  CASE f.wptrRx # m.rptrRx /\ ~m.waitGrant ->
         [w EXCEPT !.data = f.fifoRx[Index(m.rptrRx)], !.en = TRUE, !.waitGrant = TRUE]
    [] m.waitGrant /\ p.grant ->
         [w EXCEPT !.rptrRx = Next8(m.rptrRx), !.waitGrant = FALSE, !.en = FALSE]
    [] OTHER -> w

McuEdge(m, f, p) ==
  LET w == McuWritten(m, f, p)
      v == McuRx(m, f, p, McuTx(m, f, p, w))
  IN CASE ~m.dma -> [w EXCEPT !.rdy = FALSE, !.en = FALSE]
       [] m.dma /\ f.eot -> [v EXCEPT !.dma = FALSE, !.waitGrant = FALSE]
       [] OTHER -> v

-----------------------------------------------------------------------------
(* Registers of clk_120.  Outputs: csnIo and clkIo, of a master, and txo.  *)
(* clk and clkp are the clock of the wire, synchronised.                   *)
FastReset ==
  [state |-> "idle", next |-> "idle", cnt |-> 0, tsfr |-> 0, sending |-> FALSE,
   csn |-> 0, csnp |-> 0, eot |-> TRUE, ready |-> TRUE, avail |-> FALSE,
   fifoInit |-> FALSE, newByte |-> FALSE, firstByte |-> FALSE,
   rptrTx |-> 0, txByte |-> 0, wptrRx |-> 0, fifoRx |-> Empty, fullRx |-> FALSE,
   rxByte |-> 0, rx |-> 0, clk |-> 0, clkp |-> 0, masterClk |-> 0, csnIo |-> 1, clkIo |-> 0, txo |-> 0]

DoTx(m) == m.conf.master \/ m.conf.txRx

(* The leading edge of the clock, as a slave sees it.                      *)
RxTrans(f, m) == ~m.conf.master /\ f.clkp = m.conf.pol /\ f.clk # f.clkp

(* A master lets chip select fall once there is something to send; either  *)
(* starts when it has fallen, unless the transfer has ended.               *)
FromIdle(f, m, w) ==
  LET v == IF f.fifoInit THEN [w EXCEPT !.rptrTx = 0, !.wptrRx = 0, !.fifoInit = FALSE] ELSE w
  IN [v EXCEPT !.sending = FALSE,
               !.csn = IF m.conf.master /\ f.avail THEN 0 ELSE @,
               !.state = IF f.csn = 0 /\ f.csnp = 1 /\ ~f.eot THEN "start" ELSE @]

(* The next byte, or the end when there is none.  The byte a burst left    *)
(* behind is kept (new_tx_byte).                                           *)
Loaded(f, m, v) ==
  CASE f.tsfr # Top -> [v EXCEPT !.newByte = FALSE]
    [] f.tsfr = Top /\ DoTx(m) /\ m.wptrTx = f.rptrTx /\ f.next # "idle" ->
         [v EXCEPT !.state = "stop"]
    [] OTHER ->
         LET u == [v EXCEPT !.newByte = ~f.firstByte, !.firstByte = FALSE, !.tsfr = Top] IN
         IF f.newByte THEN u
         ELSE [u EXCEPT !.txByte = m.fifoTx[Index(f.rptrTx)], !.rptrTx = Next8(f.rptrTx)]

(* Waiting ends with the counter, for a slave with the clock as well.      *)
Waited(f, m, w) ==
  LET left == (f.cnt - 1) % CntMod
      over == f.cnt = 1 \/ RxTrans(f, m)
      v0 == [w EXCEPT !.cnt = left]
      v1 == CASE ~over -> v0
              [] over /\ f.next # "idle" -> Loaded(f, m, [v0 EXCEPT !.state = f.next])
              [] over /\ f.next = "idle" ->
                   Loaded(f, m, [v0 EXCEPT !.state = "idle", !.ready = TRUE,
                                           !.csnIo = IF m.conf.master THEN 1 ELSE @])
      v2 == IF m.conf.master /\ left = m.conf.div \div 2 /\ f.sending
            THEN [v1 EXCEPT !.masterClk = 1 - f.masterClk, !.clkIo = 1 - f.masterClk]
            ELSE v1
  IN IF f.csn = 1 THEN [v2 EXCEPT !.state = "idle", !.cnt = m.conf.csn] ELSE v2

Started(f, m, w) ==
  [w EXCEPT !.cnt = IF m.conf.master THEN m.conf.csn ELSE 1,
            !.csnIo = IF m.conf.master THEN 0 ELSE @,
            !.state = "wait", !.next = "send", !.tsfr = Top]

(* A master's clock at its resting level.                                  *)
ClockRests(m, w) ==
  IF m.conf.master THEN [w EXCEPT !.clkIo = m.conf.pol, !.masterClk = m.conf.pol] ELSE w

(* A bit goes out and the clock returns to its resting level.              *)
Sent(f, m, w) ==
  LET v == ClockRests(m,
             [w EXCEPT !.sending = TRUE, !.state = "wait", !.next = "send",
                       !.cnt = m.conf.div + (IF f.newByte THEN m.conf.pause ELSE 0),
                       !.tsfr = (f.tsfr - 1) % NBits])
  IN IF (~f.newByte \/ f.sending) /\ DoTx(m)
     THEN [v EXCEPT !.txo = f.txByte \div 2^Top, !.txByte = (2 * f.txByte) % 2^NBits]
     ELSE v

Stopped(f, m, w) ==
  ClockRests(m, [w EXCEPT !.sending = FALSE, !.cnt = m.conf.csn, !.state = "wait",
                          !.next = "idle", !.eot = TRUE])

Stepped(f, m, w) ==
  CASE f.state = "idle"  -> FromIdle(f, m, w)
    [] f.state = "wait"  -> Waited(f, m, w)
    [] f.state = "start" -> Started(f, m, w)
    [] f.state = "send"  -> Sent(f, m, w)
    [] f.state = "stop"  -> Stopped(f, m, w)

(* When a bit is sampled.                                                  *)
Samples(f, m) ==
  f.sending /\ ((m.conf.master /\ m.conf.txRx /\ f.cnt = m.conf.strobe) \/ RxTrans(f, m))

\* MUTANT: a byte without room is stored as well
ReceivedAlways(f, m, w) ==
  LET byte == (2 * f.rxByte + f.rx) % 2^NBits
      v == [w EXCEPT !.rxByte = byte]
  IN CASE ~Samples(f, m) -> w
       [] Samples(f, m) /\ f.tsfr # Top -> v
       [] OTHER -> [v EXCEPT !.fifoRx[Index(f.wptrRx)] = byte, !.wptrRx = Next8(f.wptrRx)]

(* The receiver samples in every bit and knows that the FIFO is full from  *)
(* the bit before; a byte without room ends the transfer.                  *)
Received(f, m, w) ==
  LET byte == (2 * f.rxByte + f.rx) % 2^NBits
      v == [w EXCEPT !.rxByte = byte, !.fullRx = FullAt(f.wptrRx, m.rptrRx)]
  IN CASE ~Samples(f, m) -> w
       [] Samples(f, m) /\ f.tsfr # Top -> v
       [] OTHER ->
            IF f.fullRx
            THEN [v EXCEPT !.eot = TRUE, !.state = "idle", !.csn = 1]
            ELSE [v EXCEPT !.fifoRx[Index(f.wptrRx)] = byte, !.wptrRx = Next8(f.wptrRx)]

(* The pins of a master; a slave has let go of them.                       *)
PinsRest(m, w) ==
  IF m.conf.master THEN [w EXCEPT !.csnIo = 1, !.clkIo = m.conf.pol, !.txo = 0] ELSE w

\* MUTANT: the block stays ready when a word is written
RestartedReady(m, w) ==
  IF m.reset
  THEN PinsRest(m,
         [w EXCEPT !.state = "idle", !.fifoInit = TRUE, !.newByte = FALSE, !.csn = 1,
                   !.eot = FALSE, !.wptrRx = 0, !.fullRx = FALSE, !.firstByte = TRUE])
  ELSE w

\* MUTANT: the end of the last transfer is kept
RestartedEnded(m, w) ==
  IF m.reset
  THEN PinsRest(m,
         [w EXCEPT !.state = "idle", !.fifoInit = TRUE, !.newByte = FALSE, !.csn = 1,
                   !.wptrRx = 0, !.fullRx = FALSE, !.firstByte = TRUE, !.ready = FALSE])
  ELSE w

(* Every write of a register starts the machine anew.                      *)
Restarted(m, w) ==
  IF m.reset
  THEN PinsRest(m,
         [w EXCEPT !.state = "idle", !.fifoInit = TRUE, !.newByte = FALSE, !.csn = 1,
                   !.eot = FALSE, !.wptrRx = 0, !.fullRx = FALSE, !.firstByte = TRUE,
                   !.ready = FALSE])
  ELSE w

(* pins: the lines rx, clk and csn.  A slave takes chip select from there. *)
FastEdge(f, m, pins) ==
  LET w == [f EXCEPT !.rx = pins.rx, !.clk = pins.clk, !.clkp = f.clk, !.csnp = f.csn,
                     !.csn = IF m.conf.master THEN @ ELSE pins.csn,
                     !.avail = (m.wptrTx # f.rptrTx)]
  IN Restarted(m, Received(f, m, Stepped(f, m, w)))

=============================================================================
