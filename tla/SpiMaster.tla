----------------------------- MODULE SpiMaster ------------------------------
(***************************************************************************)
(* The SPI master of the SoC at work.  clk_mcu has an edge after MinFast   *)
(* to MaxFast edges of clk_120.  A program configures the block and then   *)
(* either writes words and polls the busy bit, as spi.cpp does, or lets    *)
(* the DMA feed it, as spi_pwm.cpp does; the DMA has any delays, so the    *)
(* Tx FIFO may run empty and the Rx FIFO full.  An observer shifts a bit   *)
(* in at each leading edge of the clock.  At the other end is the wire     *)
(* itself, so that what is sent comes back, or the block of the test bench *)
(* as a slave, on the same two clocks (tb.h:228-244), which the program of *)
(* spi.cpp gives a word for each word of the master.                       *)
(***************************************************************************)
EXTENDS Spi

CONSTANTS
  Confs,             \* configurations: master, nbytes, div, csn, pause, pol, txRx,
                     \* strobe, and that of the slave
  NoSlave,
  MinFast, MaxFast,  \* edges of clk_120 between two of clk_mcu
  MaxBytes,          \* bytes sent in a behaviour
  NoByte

ASSUME MasterAssumption == \A c \in Confs : c.master

VARIABLES
  m, f,     \* registers of the two processes
  peer,     \* those of the slave, or NoSlave
  gap,      \* edges of clk_120 since that of clk_mcu
  phase,    \* of the program: reset, conf, ready, given, busy, over, read, dma
  src,      \* DMA towards the block: stage of the transfer, d2p_8_t
  grant,    \* DMA from the block
  count,    \* bytes given so far, numbers them
  shift, at, \* the observer's shift register
  got,      \* history: the byte the observer completed in this edge
  queue,    \* history: bytes given, not yet complete in the observer
  echoed    \* history: bytes complete in the observer, not yet taken by the DMA

vars == <<m, f, peer, gap, phase, src, grant, count, shift, at, got, queue, echoed>>

NoSource == [stage |-> "look", en |-> FALSE, data |-> 0]
Byte(n) == n % 2^NBits
Answer(n) == Byte(n + 2^Top)
Linked == peer # NoSlave

Init ==
  /\ \E c \in Confs :
       /\ m = McuReset(c)
       /\ peer = IF c.slave = NoSlave THEN NoSlave
                 ELSE [m |-> McuReset(c.slave), f |-> FastReset]
  /\ f = FastReset
  /\ gap = 0 /\ phase = "reset" /\ src = NoSource /\ grant = FALSE /\ count = 0
  /\ shift = 0 /\ at = 0 /\ got = NoByte /\ queue = <<>> /\ echoed = <<>>

-----------------------------------------------------------------------------
(* clk_120, and the observer on the wire.                                  *)
Leading == f.csnIo = 0 /\ f'.csnIo = 0 /\ f.clkIo = m.conf.pol /\ f'.clkIo # m.conf.pol

Behind(q) == IF q = <<>> THEN q ELSE Tail(q)

FastStep ==
  /\ gap < MaxFast
  /\ gap' = gap + 1
  /\ f' = FastEdge(f, m, [rx  |-> IF Linked THEN peer.f.txo ELSE f.txo,
                          clk |-> f.clkIo, csn |-> f.csnIo])
  /\ peer' = IF Linked
             THEN [peer EXCEPT !.f = FastEdge(@, peer.m, [rx  |-> f.txo, clk |-> f.clkIo,
                                                          csn |-> f.csnIo])]
             ELSE peer
  /\ LET byte == Byte(2 * shift + f.txo) IN
     CASE ~Leading ->
            /\ at' = IF f'.csnIo = 1 THEN 0 ELSE at
            /\ got' = NoByte
            /\ UNCHANGED <<shift, queue, echoed>>
       [] Leading /\ at < Top ->
            /\ shift' = byte /\ at' = at + 1
            /\ got' = NoByte
            /\ UNCHANGED <<queue, echoed>>
       [] Leading /\ at = Top ->
            /\ shift' = 0 /\ at' = 0
            /\ got' = byte
            /\ queue' = Behind(queue)
            /\ echoed' = IF m.dma /\ m.conf.txRx THEN Append(echoed, byte) ELSE echoed
  /\ UNCHANGED <<m, phase, src, grant, count>>

-----------------------------------------------------------------------------
(* clk_mcu: the access of the program, to either block, and the ports of   *)
(* the DMA.                                                                *)
McuStep(write, bytes, slaveWrite) ==
  /\ gap >= MinFast
  /\ gap' = 0
  /\ m' = McuEdge(m, f, [write |-> write, bytes |-> bytes, en |-> src.en,
                         data |-> src.data, grant |-> grant])
  /\ peer' = IF Linked
             THEN [peer EXCEPT !.m =
                     McuEdge(@, peer.f, [write |-> slaveWrite, en |-> FALSE, data |-> 0,
                                         grant |-> FALSE,
                                         bytes |-> [i \in DOMAIN Empty |-> Answer(count + i)]])]
             ELSE peer
  /\ got' = NoByte
  /\ UNCHANGED <<f, shift, at>>

Programmed == UNCHANGED <<src, grant, echoed>>

(* The slave first.                                                        *)
ConfigureSlave ==
  /\ phase = "reset" /\ Linked
  /\ phase' = "conf"
  /\ McuStep("none", Empty, "conf")
  /\ Programmed /\ UNCHANGED <<count, queue>>

Configure ==
  /\ phase = IF Linked THEN "conf" ELSE "reset"
  /\ phase' = IF m.conf.nbytes = 0 THEN "dma" ELSE "ready"
  /\ McuStep("conf", Empty, "none")
  /\ Programmed /\ UNCHANGED <<count, queue>>

(* The slave's word, before each of the master's but the first.            *)
WriteSlave ==
  /\ phase = "ready" /\ Linked /\ count > 0
  /\ phase' = "given"
  /\ McuStep("none", Empty, "data")
  /\ Programmed /\ UNCHANGED <<count, queue>>

WriteWord ==
  LET n == m.conf.nbytes
      bytes == [i \in DOMAIN Empty |-> IF i < n THEN Byte(count + i + 1) ELSE 0]
  IN /\ phase = (IF Linked /\ count > 0 THEN "given" ELSE "ready")
     /\ count + n <= MaxBytes
     /\ phase' = "busy"
     /\ count' = count + n
     /\ queue' = queue \o [i \in 1 .. n |-> bytes[i - 1]]
     /\ McuStep("data", bytes, "none")
     /\ Programmed

(* The program sees the busy bit low and reads what came back, from the    *)
(* slave and from the master.                                              *)
SeesIdle ==
  /\ phase = "busy" /\ ~m.busy
  /\ phase' = "over"
  /\ McuStep("none", Empty, "none")
  /\ Programmed /\ UNCHANGED <<count, queue>>

ReadsSlave ==
  /\ phase = "over" /\ Linked
  /\ phase' = "read"
  /\ McuStep("none", Empty, "read")
  /\ Programmed /\ UNCHANGED <<count, queue>>

ReadsWord ==
  /\ phase = IF Linked THEN "read" ELSE "over"
  /\ phase' = "ready"
  /\ McuStep("read", Empty, "none")
  /\ Programmed /\ UNCHANGED <<count, queue>>

ProgramWaits ==
  /\ phase # "dma"
  /\ McuStep("none", Empty, "none")
  /\ Programmed /\ UNCHANGED <<phase, count, queue>>

(* The DMA waits until the block is ready, gives a byte in the next edge   *)
(* and lets one pass before it looks at ready again.                       *)
Gives == src.stage = "send"

Source ==
  \/ src.stage = "look" /\ UNCHANGED src
  \/ src.stage = "look" /\ m.rdy /\ count < MaxBytes /\ src' = [src EXCEPT !.stage = "send"]
  \/ Gives /\ src' = [stage |-> "gap", en |-> TRUE, data |-> Byte(count + 1)]
  \/ src.stage = "gap" /\ src' = NoSource

Takes == m.en /\ ~grant

DmaStep ==
  /\ phase = "dma"
  /\ Source
  /\ grant' \in (IF Takes THEN {TRUE, FALSE} ELSE {FALSE})
  /\ echoed' = IF grant' THEN Behind(echoed) ELSE echoed
  /\ count' = IF Gives THEN count + 1 ELSE count
  /\ queue' = IF Gives THEN Append(queue, Byte(count + 1)) ELSE queue
  /\ McuStep("none", Empty, "none")
  /\ UNCHANGED phase

Next ==
  \/ FastStep
  \/ ConfigureSlave \/ Configure
  \/ WriteSlave \/ WriteWord \/ SeesIdle \/ ReadsSlave \/ ReadsWord \/ ProgramWaits
  \/ DmaStep

Spec == Init /\ [][Next]_vars

(* The clocks do not stop.                                                 *)
FairSpec == Spec /\ WF_vars(Next)

-----------------------------------------------------------------------------
(* The wire carries what was given, byte for byte and in order, however    *)
(* the two clocks meet and however late the DMA is; when the Tx FIFO runs  *)
(* empty the rest is missing, but nothing is sent twice or torn, and chip  *)
(* select rises behind whole bytes only.                                   *)
WireInOrder ==
  [][/\ got' # NoByte => queue # <<>> /\ got' = Head(queue)
     /\ f.csnIo = 0 /\ f'.csnIo = 1 => at = 0]_vars

(* A byte of the DMA does not replace one that was not sent: the FIFO has  *)
(* room in the edge that stores it (SPI.h:226), however the clocks meet.   *)
TxHasRoom ==
  phase = "dma" /\ src.en /\ ~f.eot => ~FullAt(m.wptrTx, f.rptrTx)

(* Bytes come back to the DMA in order and without a gap: a full FIFO ends *)
(* the transfer, and a byte is shown until it is granted.                  *)
EchoInOrder == [][Takes /\ grant' => echoed # <<>> /\ m.data = Head(echoed)]_vars

(* The slave got the master's word and had given one to answer it: a slave *)
(* without a word of its own ends at once, unless it only receives.        *)
Heard == count > m.nbytes \/ ~peer.m.conf.txRx
Answered == count > m.nbytes /\ peer.m.conf.txRx
Holds(fifo, word) == \A i \in 0 .. m.nbytes - 1 : fifo[i] = word[i]

(* A program that sees busy low finds its bytes sent, in the slave's Rx    *)
(* FIFO the master's word and in the master's what came back: the slave's  *)
(* word, bit by bit within the same clocks.                                *)
PollMeansDone ==
  [][/\ phase' = "over" => queue = <<>>
     /\ phase = "over" /\ phase' = "read" /\ Heard => Holds(peer.f.fifoRx, m.fifoTx)
     /\ phase' = "ready" /\ m.conf.txRx /\ phase = "over" => Holds(f.fifoRx, m.fifoTx)
     /\ phase' = "ready" /\ m.conf.txRx /\ phase = "read" /\ Answered
          => Holds(f.fifoRx, peer.m.fifoTx)]_vars

(* What was given is sent, unless the transfer has ended; busy falls.      *)
Finishes ==
  /\ queue # <<>> ~> (got # NoByte \/ f.eot)
  /\ phase = "busy" ~> ~m.busy

=============================================================================
