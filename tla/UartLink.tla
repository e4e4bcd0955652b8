------------------------------ MODULE UartLink ------------------------------
(***************************************************************************)
(* Two UARTs connected as their ports are meant to be: the transmitter of  *)
(* a drives the line to b, RTS of b is CTS of a.  One step is one edge of  *)
(* clk_peri, which both take together.                                     *)
(*                                                                         *)
(* Bytes come to a from the DMA or from a program that waits until the     *)
(* transmitter is ready.  At b a driver arms the receiver when the line is *)
(* quiet and then starts a transfer of the DMA, or reads the register      *)
(* until a byte is there.                                                  *)
(***************************************************************************)
EXTENDS Uart, Sequences

CONSTANTS
  Bytes,    \* what is sent
  Div,      \* division factor of b
  Divs,     \* division factors a may have
  MaxArm,   \* cycles between the arming of the receiver and the transfer
  Lags,     \* cycles after which a byte that is there may be taken
  NoByte

VARIABLES
  a, b,     \* the registers of the two UARTs
  byDma,    \* the bytes come to a from the DMA
  give,     \* d2p_8_t of the DMA at a
  mode,     \* of the driver at b: off, arming, armed, dma, poll
  req, grant, \* d2p_8_t of the DMA at b
  lag,      \* cycles since the receiver was armed, or the byte shown
  queue,    \* history: bytes given to a, not yet taken from b or discarded
  fresh,    \* history: b holds a byte nobody has taken
  got,      \* history: the byte taken in the last edge
  calm      \* history: cycles since data were last requested, at most 3

vars == <<a, b, byDma, give, mode, req, grant, lag, queue, fresh, got, calm>>

Init ==
  /\ \E d \in Divs : a = [Reset EXCEPT !.div = d]
  /\ b = Reset
  /\ byDma \in BOOLEAN
  /\ give = [en |-> FALSE, data |-> Zero]
  /\ mode = "off" /\ req = FALSE /\ grant = FALSE /\ lag = 0
  /\ queue = <<>> /\ fresh = FALSE /\ got = NoByte /\ calm = 3

-----------------------------------------------------------------------------
(* What comes to a: nothing, a byte from the DMA, or a write of a byte.    *)
Sends ==
  {[write |-> "none", byte |-> NoByte]}
  \cup (IF byDma /\ a.rdy /\ ~give.en THEN [write : {"dma"}, byte : Bytes] ELSE {})
  \cup (IF ~byDma /\ a.txReady THEN [write : {"tx"}, byte : Bytes] ELSE {})

PortsOfA(s) ==
  [write |-> IF s.write = "tx" THEN "tx" ELSE "none", byte |-> s.byte, div |-> a.div,
   cancel |-> FALSE, boot |-> FALSE, en |-> give.en, data |-> give.data,
   req |-> FALSE, grant |-> FALSE, cts |-> b.rts, rx |-> b.tx]

PortsOfB(write, boot) ==
  [write |-> write, byte |-> NoByte, div |-> Div,
   cancel |-> FALSE, boot |-> boot, en |-> FALSE, data |-> Zero,
   req |-> req, grant |-> grant, cts |-> a.rts, rx |-> a.tx]

(* No frame is under way.                                                  *)
Quiet ==
  /\ a.txState \in {Idle, EndBit} /\ a.tx = 1
  /\ ~b.started /\ b.rx = 1 /\ b.rxp = 1

Behind(q) == IF q = <<>> THEN q ELSE Tail(q)

(* One edge: s comes to a; b sees the register access and boot mode; byte  *)
(* is what the driver or the DMA takes from b.                             *)
Edge(s, write, boot, byte) ==
  LET discards == fresh /\ byte = NoByte /\ (write = "rx" \/ boot) IN
  /\ a' = UartEdge(a, PortsOfA(s))
  /\ b' = UartEdge(b, PortsOfB(write, boot))
  /\ give' = [en |-> s.write = "dma", data |-> IF s.write = "dma" THEN s.byte ELSE Zero]
  /\ queue' = (IF byte # NoByte \/ discards THEN Behind(queue) ELSE queue)
                \o (IF s.write = "none" THEN <<>> ELSE <<s.byte>>)
  /\ fresh' = (b'.irq \/ (fresh /\ byte = NoByte /\ ~discards))
  /\ got' = byte
  /\ calm' = IF req THEN 0 ELSE IF calm < 3 THEN calm + 1 ELSE calm
  /\ UNCHANGED byDma

-----------------------------------------------------------------------------
(* There is a byte to take, and the DMA did not just grant it.             *)
Shown == (mode = "dma" /\ b.en /\ ~grant) \/ (mode = "poll" /\ b.rxReady)

(* The driver and the DMA at b do nothing in this edge; a byte that is     *)
(* shown is taken in time, and the transfer follows the arming in time.    *)
Wait(s) ==
  /\ mode # "arming"
  /\ mode = "armed" => lag < MaxArm
  /\ Shown => \E l \in Lags : lag < l
  /\ grant' = FALSE
  /\ lag' = IF mode = "armed" \/ Shown THEN lag + 1 ELSE 0
  /\ UNCHANGED <<mode, req>>
  /\ Edge(s, "none", FALSE, NoByte)

(* The receiver is armed, which discards a byte nobody took.  The register *)
(* is written twice in a row, as verif.cpp does: the first write lowers    *)
(* end_rx_byte, but while that was set its RTS is the one of line 269.     *)
Arm(s) ==
  /\ mode = "off" /\ Quiet
  /\ mode' = "arming" /\ grant' = FALSE /\ lag' = 0
  /\ UNCHANGED req
  /\ Edge(s, "rx", FALSE, NoByte)

ArmAgain(s) ==
  /\ mode = "arming"
  /\ mode' = "armed" /\ grant' = FALSE /\ lag' = 0
  /\ UNCHANGED req
  /\ Edge(s, "rx", FALSE, NoByte)

StartTransfer(s) ==
  /\ mode = "armed"
  /\ mode' = "dma" /\ req' = TRUE /\ grant' = FALSE /\ lag' = 0
  /\ Edge(s, "none", FALSE, NoByte)

StartPolling(s) ==
  /\ mode = "armed"
  /\ mode' = "poll" /\ grant' = FALSE /\ lag' = 0
  /\ UNCHANGED req
  /\ Edge(s, "none", FALSE, NoByte)

ProgramReads(s) ==
  /\ mode = "poll" /\ Shown /\ lag \in Lags
  /\ mode' = "off" /\ grant' = FALSE /\ lag' = 0
  /\ UNCHANGED req
  /\ Edge(s, "none", FALSE, b.rxByte)

DmaTakes(s) ==
  /\ mode = "dma" /\ Shown /\ lag \in Lags
  /\ grant' = TRUE /\ lag' = 0
  /\ UNCHANGED <<mode, req>>
  /\ Edge(s, "none", FALSE, b.data)

(* The last byte is taken, or the transfer times out.                      *)
EndTransfer(s) ==
  /\ mode = "dma" /\ (grant \/ ~b.en)
  /\ mode' = "off" /\ req' = FALSE /\ grant' = FALSE /\ lag' = 0
  /\ Edge(s, "none", FALSE, NoByte)

(* The boot button takes back a byte that is shown.                        *)
Boot(s) ==
  /\ mode = "off" /\ ~b.boot
  /\ grant' = FALSE /\ lag' = 0
  /\ UNCHANGED <<mode, req>>
  /\ Edge(s, "none", TRUE, NoByte)

Next ==
  \E s \in Sends :
    \/ Wait(s) \/ Arm(s) \/ ArmAgain(s) \/ StartTransfer(s) \/ StartPolling(s)
    \/ ProgramReads(s) \/ DmaTakes(s) \/ EndTransfer(s) \/ Boot(s)

Spec == Init /\ [][Next]_vars

(* The clock does not stop.                                                *)
FairSpec == Spec /\ WF_vars(Next)

-----------------------------------------------------------------------------
(* Sampling in the middle of the bits, the synchronisation on rising       *)
(* edges, the shift registers and the handshakes together: whatever is     *)
(* taken from b is the oldest byte given to a that was not taken or        *)
(* discarded, so none is garbled, lost, doubled or overwritten.            *)
DeliversInOrder == [][got' # NoByte => queue # <<>> /\ got' = Head(queue)]_vars

(* RTS stops the sender: behind a byte b has received no other is begun    *)
(* unless data were requested in the cycle before: RTS of b follows the    *)
(* request in one cycle.                                                   *)
Begins == a.txState = Idle /\ a'.txState = 0
StopsSender == [][Begins /\ b.ended => calm = 0]_vars

(* RTS does not stay high: while a transfer is on, a byte that was given   *)
(* to the sender is taken.                                                 *)
Delivers == (mode \in {"dma", "poll"} /\ queue # <<>>) ~> (got # NoByte \/ mode = "off")

=============================================================================
