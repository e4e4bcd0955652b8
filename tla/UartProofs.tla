---------------------------- MODULE UartProofs -----------------------------
(***************************************************************************)
(* What is taken from the link of two UARTs is what was given, in order,   *)
(* for bytes of any width, any two division factors that are close enough  *)
(* for a frame, and delays up to the longest a byte can wait for.          *)
(***************************************************************************)
EXTENDS UartLink, TLAPS

-----------------------------------------------------------------------------
(* The hypothesis.  The receiver looks at a bit in its middle, 2 +         *)
(* v \div 2 edges behind its begin if it has just met its rising edge.     *)
Middle(v) == 2 + v \div 2

(* With n bits since that edge it is late by n * (v - d) edges.            *)
Around(v, d, n, x) ==
  IF v >= d THEN x \in Middle(v) .. Middle(v) + n * (v - d)
  ELSE x \in Middle(v) + n * (v - d) .. Middle(v)

(* Close enough for the bits of a frame, start and stop bit included.      *)
Close(v, d) ==
  /\ v \in Nat /\ v < CntMod /\ d \in Nat /\ d < CntMod
  /\ {Middle(v), Middle(v) + (NBits + 1) * (v - d)} \subseteq 2 .. d - 2

Apart(v, d) == IF v >= d THEN v - d ELSE d - v

Matched ==
  /\ NBits \in 1 .. 15 /\ CntMod \in Nat
  /\ Bytes \subseteq [Bits -> {0, 1}] /\ NoByte \notin [Bits -> {0, 1}]
  /\ MaxArm \in Nat /\ Lags \subseteq Nat
  /\ \A d \in Divs, v \in {Div, ResetDiv} :
       /\ Close(v, d) /\ MaxArm < d
       /\ \A l \in Lags : l <= (NBits + 2) * (d + 1) - NBits * Apart(v, d)

-----------------------------------------------------------------------------
(* The frame on the line: the number of its bit, the start bit's is 0, and *)
(* the edges since it began.                                               *)
OnLine == a.txState # Idle
Bit == IF a.txState = EndBit THEN NBits + 1 ELSE a.txState
Elapsed == a.div - a.txCnt

(* b has the frame, or there is none.                                      *)
Done == ~b.started /\ (OnLine => a.txState = EndBit)

(* a has a byte that b has not, and which one it is.                       *)
Carrying == a.send /\ ~(a.txState = EndBit /\ ~b.started)
Cur == queue[IF fresh THEN 2 ELSE 1]

(* Levels of the line in the frame of byte c.                              *)
Level(c, n) == IF n = 0 THEN 0 ELSE IF n = NBits + 1 THEN 1 ELSE c[n - 1]
Before(c, n) == IF n = 0 THEN 1 ELSE Level(c, n - 1)

-----------------------------------------------------------------------------
TxFields == {"send", "txState", "txCnt", "txByte", "txReady", "rdy", "tx", "div"}
RxFields == {"get", "rxState", "rxCnt", "rxByte", "rxReady", "started", "ended", "dmaReq",
             "rx", "rxp", "rts", "en", "data", "boot", "irq"}
Fields == TxFields \cup RxFields

SenderInv ==
  /\ Fields \subseteq DOMAIN a
  /\ a.div \in Divs /\ byDma \in BOOLEAN
  /\ a.txCnt \in 0 .. CntMod - 1
  /\ a.txState \in (0 .. NBits) \cup {EndBit, Idle}
  /\ ~a.send => ~OnLine
  /\ OnLine => a.txCnt \in 0 .. a.div
  /\ a.tx = IF OnLine THEN Level(Cur, Bit) ELSE 1
  /\ a.txByte \in [Bits -> {0, 1}]
  /\ a.send /\ ~OnLine => a.txByte = Cur
  /\ OnLine /\ a.txState # EndBit =>
       \A i \in Bits : i + a.txState < NBits => a.txByte[i] = Cur[i + a.txState]
  /\ give.en => byDma /\ ~a.send
  /\ give.data \in [Bits -> {0, 1}]
  /\ a.send => IF byDma THEN ~a.rdy ELSE ~a.txReady

(* What was given and not taken: the byte b holds, and the next one.       *)
QueueInv ==
  /\ fresh \in BOOLEAN
  /\ queue \in Seq([Bits -> {0, 1}])
  /\ Len(queue) = (IF fresh THEN 1 ELSE 0) + (IF Carrying \/ give.en THEN 1 ELSE 0)
  /\ give.en => Cur = give.data

(* The line as b sees it, one and two edges later.                         *)
WireInv ==
  /\ b.rx = IF ~OnLine THEN 1 ELSE IF Elapsed >= 1 THEN Level(Cur, Bit) ELSE Before(Cur, Bit)
  /\ b.rxp = IF ~OnLine THEN 1 ELSE IF Elapsed >= 2 THEN Level(Cur, Bit) ELSE Before(Cur, Bit)

(* The bit b looks at next, and where in that bit it does.                 *)
Looked == IF b.rxState = Idle THEN 0 ELSE b.rxState + 1
Where == IF Bit = Looked THEN Elapsed + b.rxCnt ELSE Elapsed + b.rxCnt - (a.div + 1)

(* Without an edge so far the start bit's is the last one.                 *)
Rose(c, n) == \E i \in 0 .. n - 2 : c[i] = 1
Since(c, n) == IF Rose(c, n) THEN n - 1 ELSE n

Receiving ==
  /\ Looked = Bit \/ (Looked = Bit + 1 /\ Elapsed >= 3)
  /\ Looked = 0 => Elapsed >= 2
  /\ Around(b.div, a.div, Since(Cur, Looked), Where)
  /\ Looked = Bit /\ Bit > 0 /\ Elapsed >= 2 /\ Level(Cur, Bit) = 1 /\ Before(Cur, Bit) = 0
       => Where = Middle(b.div)
  /\ \A i \in Bits : i + Looked > NBits => b.rxByte[i] = Cur[i + Looked - NBits - 1]

(* The stop bit was seen.                                                  *)
Received ==
  /\ a.txState = EndBit /\ b.rxCnt = 0
  /\ Around(b.div, a.div, NBits, Elapsed - 1)
  /\ b.rxByte = Cur

ReceiverInv ==
  /\ Fields \subseteq DOMAIN b
  /\ b.get = TRUE /\ b.send = FALSE
  /\ b.div \in {Div, ResetDiv}
  /\ b.rxByte \in [Bits -> {0, 1}] /\ b.data \in [Bits -> {0, 1}]
  /\ b.rxCnt \in Nat
  /\ b.rxState \in (0 .. NBits) \cup {EndBit, Idle}
  /\ ~b.started => /\ b.rxState = Idle
                   /\ ~OnLine \/ (Bit = 0 /\ Elapsed <= 1) \/ (Bit = NBits + 1 /\ Elapsed >= 2)
  /\ b.started => OnLine /\ (IF b.rxState = EndBit THEN Received ELSE Receiving)

(* The edges since the stop bit of the frame that b received last.         *)
Latest == Middle(b.div) + (IF b.div >= a.div THEN NBits * (b.div - a.div) ELSE 0)
SinceStop ==
  IF ~OnLine THEN IF a.send THEN a.div + 2 ELSE a.div + 1
  ELSE IF Done THEN Elapsed ELSE a.div + 3 + Bit * (a.div + 1) + Elapsed

(* RTS of b holds the sender back.                                         *)
Held == Done /\ b.ended /\ (b.rts = 1 \/ OnLine)

(* The driver at b.                                                        *)
DriverInv ==
  /\ mode \in {"off", "arming", "armed", "dma", "poll"}
  /\ req = (mode = "dma") /\ grant \in BOOLEAN /\ lag \in Nat
  /\ grant => mode = "dma"
  /\ mode \in {"arming", "armed"} =>
       /\ ~fresh /\ ~b.en /\ ~b.rxReady /\ lag <= MaxArm
       /\ mode = "arming" => lag = 0
       /\ OnLine /\ Carrying => Bit = 0 /\ Elapsed <= lag + (IF mode = "arming" THEN 0 ELSE 1)
  /\ mode = "poll" => (b.rxReady <=> fresh) /\ (fresh => b.rxByte = queue[1])
  /\ mode \in {"poll", "off"} /\ fresh => Held
  /\ mode = "dma" => IF fresh THEN /\ b.en /\ ~grant /\ b.data = queue[1]
                                   /\ SinceStop <= lag + Latest + 2
                     ELSE b.en <=> grant

(* RTS follows the request in one cycle.                                   *)
RtsInv == calm \in 0 .. 3 /\ (calm >= 1 /\ b.ended => b.rts = 1)

UartInv == SenderInv /\ QueueInv /\ WireInv /\ ReceiverInv /\ DriverInv /\ RtsInv

-----------------------------------------------------------------------------
(* One edge of the transmitter.                                            *)
LEMMA SyncedKeepsTx ==
  ASSUME NEW u, NEW w, NEW p
  PROVE  /\ DOMAIN Synced(u, w, p) = DOMAIN w
         /\ \A x \in TxFields : x \in DOMAIN w => Synced(u, w, p)[x] = w[x]
BY DEF Synced, TxFields

LEMMA RtsKeepsTx ==
  ASSUME NEW u, NEW w, NEW p
  PROVE  /\ DOMAIN Rts(u, w, p) = DOMAIN w
         /\ \A x \in TxFields : x \in DOMAIN w => Rts(u, w, p)[x] = w[x]
BY DEF Rts, TxFields

LEMMA WithdrawnKeepsTx ==
  ASSUME NEW u, NEW w, NEW p
  PROVE  /\ DOMAIN Withdrawn(u, w, p) = DOMAIN w
         /\ \A x \in TxFields : x \in DOMAIN w => Withdrawn(u, w, p)[x] = w[x]
BY DEF Withdrawn, TxFields

LEMMA SampledKeepsTx ==
  ASSUME NEW u, NEW w, NEW p
  PROVE  /\ DOMAIN Sampled(u, w, p) = DOMAIN w
         /\ \A x \in TxFields : x \in DOMAIN w => Sampled(u, w, p)[x] = w[x]
BY DEF Sampled, ByteEnd, TxFields

LEMMA RxEdgeKeepsTx ==
  ASSUME NEW u, NEW w, NEW p
  PROVE  /\ DOMAIN RxEdge(u, w, p) = DOMAIN w
         /\ \A x \in TxFields : x \in DOMAIN w => RxEdge(u, w, p)[x] = w[x]
<1> DEFINE w1 == Withdrawn(u, w, p)
           w2 == [w1 EXCEPT !.rx = p.rx, !.rxp = u.rx]
           w3 == Synced(u, w2, p)
           w4 == Rts(u, w3, p)
           w5 == Sampled(u, w4, p)
           Same(r) == /\ DOMAIN r = DOMAIN w
                      /\ \A x \in TxFields : x \in DOMAIN w => r[x] = w[x]
<1>1. Same(w1) BY WithdrawnKeepsTx
<1>2. Same(w2)
  <2> HIDE DEF w1
  <2> QED BY <1>1 DEF TxFields
<1>3. Same(w3)
  <2> HIDE DEF w2
  <2> QED BY <1>2, SyncedKeepsTx
<1>4. Same(w4)
  <2> HIDE DEF w3
  <2> QED BY <1>3, RtsKeepsTx
<1>5. Same(w5)
  <2> HIDE DEF w4
  <2> QED BY <1>4, SampledKeepsTx
<1> QED BY Zenon, <1>5 DEF RxEdge

(* The whole edge, as far as the transmitter goes.                         *)
TxPart(u, p) == TxEdge(u, FromDma(Written(Counted(u), p), p), p)

LEMMA EdgeIsTx ==
  ASSUME NEW u, NEW p, TxFields \subseteq DOMAIN u, p.write \in {"none", "rx", "tx"}
  PROVE  /\ DOMAIN UartEdge(u, p) = DOMAIN u /\ DOMAIN TxPart(u, p) = DOMAIN u
         /\ \A x \in TxFields : x # "txCnt" => UartEdge(u, p)[x] = TxPart(u, p)[x]
         /\ UartEdge(u, p).txCnt = IF TxPart(u, p).send THEN TxPart(u, p).txCnt ELSE 0
<1> DEFINE w0 == Counted(u)
           w1 == Written(w0, p)
           w2 == FromDma(w1, p)
           w3 == TxEdge(u, w2, p)
           w4 == RxEdge(u, w3, p)
           w5 == [w4 EXCEPT !.boot = p.boot]
           w6 == [w5 EXCEPT !.txCnt = IF w5.send THEN @ ELSE 0,
                            !.rxCnt = IF w5.started THEN @ ELSE 0]
<1>0. DOMAIN w0 = DOMAIN u BY DEF Counted
<1>1. DOMAIN w1 = DOMAIN u
  <2> HIDE DEF w0
  <2> QED BY <1>0 DEF Written
<1>2. DOMAIN w2 = DOMAIN u
  <2> HIDE DEF w1
  <2> QED BY <1>1 DEF FromDma
<1>3. DOMAIN w3 = DOMAIN u
  <2> HIDE DEF w2
  <2> QED BY <1>2 DEF TxEdge
<1>4. DOMAIN w4 = DOMAIN u /\ \A x \in TxFields : w4[x] = w3[x]
  <2> HIDE DEF w3
  <2> QED BY <1>3, RxEdgeKeepsTx
<1>5. DOMAIN w5 = DOMAIN u /\ \A x \in TxFields : w5[x] = w3[x]
  <2> HIDE DEF w4, w3
  <2> QED BY <1>4 DEF TxFields
<1>6. /\ DOMAIN w6 = DOMAIN u
      /\ \A x \in TxFields : x # "txCnt" => w6[x] = w3[x]
      /\ w6.txCnt = IF w3.send THEN w3.txCnt ELSE 0
  <2> HIDE DEF w5, w3
  <2> QED BY <1>5 DEF TxFields
<1> QED BY Zenon, <1>3, <1>6 DEF UartEdge, TxPart

LEMMA TxAlone ==
  ASSUME NEW u, NEW p, TxFields \subseteq DOMAIN u, p.write = "none", ~p.en
  PROVE  /\ TxPart(u, p) = TxEdge(u, Counted(u), p)
         /\ DOMAIN Counted(u) = DOMAIN u
         /\ \A x \in TxFields : x # "txCnt" => Counted(u)[x] = u[x]
         /\ Counted(u).txCnt = Down(u.txCnt)
<1>1. FromDma(Written(Counted(u), p), p) = Counted(u) BY DEF FromDma, Written
<1> QED BY <1>1 DEF TxPart, Counted, TxFields

(* What it does: nothing, ...                                              *)
LEMMA TxRests ==
  ASSUME NBits \in 1 .. 15, NEW u, NEW p, TxFields \subseteq DOMAIN u, p.write = "none", ~p.en, ~u.send
  PROVE  LET v == UartEdge(u, p) IN
         /\ ~v.send /\ v.txCnt = 0
         /\ v.txState = u.txState /\ v.txByte = u.txByte /\ v.tx = u.tx /\ v.div = u.div
         /\ v.txReady = u.txReady /\ v.rdy = u.rdy
<1> DEFINE w == TxPart(u, p)
<1>1. /\ w.send = u.send /\ w.txState = u.txState /\ w.txByte = u.txByte /\ w.tx = u.tx
      /\ w.div = u.div /\ w.txReady = u.txReady /\ w.rdy = u.rdy
  BY DEF TxPart, TxEdge, FromDma, Written, Counted, TxFields
<1> HIDE DEF w
<1> QED BY <1>1, EdgeIsTx DEF TxFields, w

(* ... take a byte, ...                                                    *)
LEMMA TxTakes ==
  ASSUME NBits \in 1 .. 15, NEW u, NEW p, TxFields \subseteq DOMAIN u, ~u.send,
         \/ p.write = "none" /\ p.en
         \/ p.write = "tx" /\ ~p.en /\ p.div = u.div /\ u.txState = Idle
  PROVE  LET v == UartEdge(u, p) IN
         /\ v.send /\ v.txCnt = 0
         /\ v.txState = u.txState /\ v.tx = u.tx /\ v.div = u.div
         /\ p.write = "none" => v.txByte = p.data /\ ~v.rdy
         /\ p.write = "tx" => v.txByte = p.byte /\ ~v.txReady
<1> DEFINE w == TxPart(u, p)
<1>1. CASE p.write = "none" /\ p.en
  <2>1. /\ w.send /\ w.txState = u.txState /\ w.txByte = p.data /\ w.tx = u.tx
        /\ w.div = u.div /\ w.txCnt = 0 /\ ~w.rdy
    BY <1>1 DEF TxPart, TxEdge, FromDma, Written, Counted, TxFields
  <2> HIDE DEF w
  <2> QED BY <1>1, <2>1, EdgeIsTx DEF TxFields, w
<1>2. CASE p.write = "tx" /\ ~p.en /\ p.div = u.div /\ u.txState = Idle
  <2>1. /\ w.send /\ w.txState = u.txState /\ w.txByte = p.byte /\ w.tx = u.tx
        /\ w.div = u.div /\ w.txCnt = 0 /\ ~w.txReady
    BY <1>2 DEF TxPart, TxEdge, FromDma, Written, Counted, TxFields
  <2> HIDE DEF w
  <2> QED BY <1>2, <2>1, EdgeIsTx DEF TxFields, w
<1> QED BY <1>1, <1>2

(* ... wait for CTS or for the end of the bit, ...                         *)
LEMMA TxWaits ==
  ASSUME NBits \in 1 .. 15, NEW u, NEW p, TxFields \subseteq DOMAIN u, p.write = "none", ~p.en, u.send,
         CntMod \in Nat, u.txCnt \in 0 .. CntMod - 1, u.txCnt # 0 \/ (u.txState = Idle /\ p.cts # 0)
  PROVE  LET v == UartEdge(u, p) IN
         /\ v.send = u.send /\ v.txState = u.txState /\ v.txByte = u.txByte /\ v.tx = u.tx
         /\ v.div = u.div /\ v.txReady = u.txReady
         /\ ~u.rdy => ~v.rdy
         /\ v.txCnt \in 0 .. CntMod - 1
         /\ u.txCnt # 0 => v.txCnt = u.txCnt - 1
<1> DEFINE w == TxPart(u, p)
<1>1. /\ w.send = u.send /\ w.txState = u.txState /\ w.txByte = u.txByte /\ w.tx = u.tx
      /\ w.div = u.div /\ w.txReady = u.txReady
      /\ ~u.rdy => ~w.rdy
      /\ w.txCnt = Down(u.txCnt)
  <2> DEFINE k == Counted(u)
  <2>1. w = TxEdge(u, k, p) BY TxAlone
  <2>2. /\ k.send = u.send /\ k.txState = u.txState /\ k.txByte = u.txByte /\ k.tx = u.tx
        /\ k.div = u.div /\ k.txReady = u.txReady /\ k.rdy = u.rdy
        /\ k.txCnt = Down(u.txCnt) /\ DOMAIN k = DOMAIN u
    BY TxAlone DEF TxFields
  <2> HIDE DEF k, w
  <2>3. u.txCnt # 0 => TxEdge(u, k, p) = k BY DEF TxEdge
  <2>4. u.txCnt = 0 => TxEdge(u, k, p) = [k EXCEPT !.rdy = FALSE]
    BY DEF TxEdge, Idle, EndBit, StopBit
  <2> QED BY <2>1, <2>2, <2>3, <2>4 DEF TxFields
<1> HIDE DEF w
<1>2. Down(u.txCnt) \in 0 .. CntMod - 1 /\ (u.txCnt # 0 => Down(u.txCnt) = u.txCnt - 1)
  BY DEF Down
<1> QED BY <1>1, <1>2, EdgeIsTx DEF TxFields, w

(* ... begin a frame or its next bit, ...                                  *)
LEMMA TxMoves ==
  ASSUME NBits \in 1 .. 15, NEW u, NEW p, TxFields \subseteq DOMAIN u,
         p.write = "none", ~p.en, u.send,
         u.txCnt = 0, u.txState # EndBit, u.txState = Idle => p.cts = 0
  PROVE  LET v == UartEdge(u, p) IN
         /\ v.send /\ v.txCnt = u.div /\ v.div = u.div /\ v.txReady = u.txReady
         /\ ~u.rdy => ~v.rdy
         /\ u.txState = Idle => v.txState = 0 /\ v.tx = 0 /\ v.txByte = u.txByte
         /\ u.txState = StopBit => v.txState = EndBit /\ v.tx = 1 /\ v.txByte = u.txByte
         /\ u.txState \notin {Idle, StopBit} =>
              /\ v.txState = u.txState + 1 /\ v.tx = u.txByte[0]
              /\ v.txByte = Shifted(u.txByte, 0)
<1> DEFINE w == TxPart(u, p)
           k == Counted(u)
           Moved(r) ==
             /\ r.send /\ r.txCnt = u.div /\ r.div = u.div /\ r.txReady = u.txReady
             /\ ~u.rdy => ~r.rdy
             /\ u.txState = Idle => r.txState = 0 /\ r.tx = 0 /\ r.txByte = u.txByte
             /\ u.txState = StopBit => r.txState = EndBit /\ r.tx = 1 /\ r.txByte = u.txByte
             /\ u.txState \notin {Idle, StopBit} =>
                  /\ r.txState = u.txState + 1 /\ r.tx = u.txByte[0]
                  /\ r.txByte = Shifted(u.txByte, 0)
<1>1. w = TxEdge(u, k, p) BY TxAlone
<1>2. /\ k.send = u.send /\ k.txState = u.txState /\ k.txByte = u.txByte /\ k.tx = u.tx
      /\ k.div = u.div /\ k.txReady = u.txReady /\ k.rdy = u.rdy
      /\ TxFields \subseteq DOMAIN k
  BY TxAlone DEF TxFields
<1> HIDE DEF k, w
<1>3. u.txState = Idle => Moved(w)
  <2> HAVE u.txState = Idle
  <2>1. TxEdge(u, k, p) = [k EXCEPT !.rdy = FALSE, !.tx = 0, !.txCnt = u.div, !.txState = 0]
    BY DEF TxEdge, Idle, EndBit, StopBit
  <2>2. /\ w.rdy = FALSE /\ w.tx = 0 /\ w.txCnt = u.div /\ w.txState = 0
        /\ w.send = u.send /\ w.div = u.div /\ w.txReady = u.txReady /\ w.txByte = u.txByte
    BY <1>1, <1>2, <2>1 DEF TxFields
  <2> QED BY <2>2 DEF Idle, StopBit
<1>4. u.txState = StopBit => Moved(w)
  <2> HAVE u.txState = StopBit
  <2>1. TxEdge(u, k, p) = [k EXCEPT !.tx = 1, !.txCnt = u.div, !.txState = EndBit]
    BY DEF TxEdge, Idle, EndBit, StopBit
  <2>2. /\ w.tx = 1 /\ w.txCnt = u.div /\ w.txState = EndBit /\ w.rdy = u.rdy
        /\ w.send = u.send /\ w.div = u.div /\ w.txReady = u.txReady /\ w.txByte = u.txByte
    BY <1>1, <1>2, <2>1 DEF TxFields
  <2> QED BY <2>2 DEF Idle, StopBit
<1>5. u.txState \notin {Idle, StopBit} => Moved(w)
  <2> HAVE u.txState \notin {Idle, StopBit}
  <2>1. TxEdge(u, k, p) = [k EXCEPT !.txCnt = u.div, !.tx = u.txByte[0],
                                    !.txState = u.txState + 1,
                                    !.txByte = Shifted(u.txByte, 0)]
    BY DEF TxEdge, Idle, EndBit, StopBit
  <2> QED BY <1>1, <1>2, <2>1 DEF TxFields
<1>6. Moved(w) BY <1>3, <1>4, <1>5
<1> QED BY <1>6, EdgeIsTx DEF TxFields, w

(* ... or end it.                                                          *)
LEMMA TxEnds ==
  ASSUME NBits \in 1 .. 15, NEW u, NEW p, TxFields \subseteq DOMAIN u,
         p.write = "none", ~p.en, u.send, u.txCnt = 0, u.txState = EndBit
  PROVE  LET v == UartEdge(u, p) IN
         /\ ~v.send /\ v.txState = Idle /\ v.tx = 1 /\ v.txByte = u.txByte
         /\ v.div = u.div /\ v.txCnt = 0
<1> DEFINE w == TxPart(u, p)
           k == Counted(u)
<1>1. w = TxEdge(u, k, p) BY TxAlone
<1>2. k.txByte = u.txByte /\ k.div = u.div /\ TxFields \subseteq DOMAIN k
  BY TxAlone DEF TxFields
<1> HIDE DEF k, w
<1>3. TxEdge(u, k, p) = [k EXCEPT !.tx = 1, !.txState = Idle, !.send = FALSE,
                                  !.txReady = TRUE, !.rdy = TRUE, !.irq = TRUE]
  BY DEF TxEdge, Idle, EndBit, StopBit
<1>4. /\ ~w.send /\ w.txState = Idle /\ w.tx = 1 /\ w.txByte = u.txByte /\ w.div = u.div
  BY <1>1, <1>2, <1>3 DEF TxFields
<1> QED BY <1>4, EdgeIsTx DEF TxFields, w

-----------------------------------------------------------------------------
(* One edge of the receiver, of a UART that does not send.                 *)
Receives(u, p) ==
  /\ Fields \subseteq DOMAIN u /\ u.get = TRUE /\ u.send = FALSE
  /\ p.write \in {"none", "rx"} /\ ~p.en /\ ~p.cancel

Ending(u) == Sampling(u) /\ u.rxState = EndBit

LEMMA WrittenIs ==
  ASSUME NEW u, NEW p, Receives(u, p)
  PROVE  LET w == TxEdge(u, FromDma(Written(Counted(u), p), p), p) IN
         /\ Fields \subseteq DOMAIN w
         /\ w.get = TRUE /\ w.send = FALSE
         /\ w.div = IF p.write = "rx" THEN p.div ELSE u.div
         /\ w.rxCnt = IF p.write = "rx" THEN 0 ELSE Down(u.rxCnt)
         /\ w.rxState = IF p.write = "rx" THEN Idle ELSE u.rxState
         /\ w.rxReady = IF p.write = "rx" THEN FALSE ELSE u.rxReady
         /\ w.started = IF p.write = "rx" THEN FALSE ELSE u.started
         /\ w.ended = IF p.write = "rx" THEN FALSE ELSE u.ended
         /\ w.rts = IF p.write = "rx" THEN 0 ELSE u.rts
         /\ w.irq = FALSE
         /\ \A x \in {"rxByte", "dmaReq", "en", "data"} : w[x] = u[x]
<1> DEFINE w0 == Counted(u)
           w1 == Written(w0, p)
<1>1. /\ DOMAIN w0 = DOMAIN u /\ w0.rxCnt = Down(u.rxCnt) /\ w0.irq = FALSE
      /\ \A x \in Fields \ {"txCnt", "rxCnt", "irq", "boot"} : w0[x] = u[x]
  BY DEF Counted, Fields, TxFields, RxFields, Receives
<1> HIDE DEF w0
<1>2. w1 = IF p.write = "rx"
           THEN [w0 EXCEPT !.div = p.div, !.get = ~p.cancel, !.send = (p.write = "tx"),
                           !.rxCnt = 0, !.rxState = Idle, !.rxReady = FALSE,
                           !.started = FALSE, !.rts = 0, !.ended = FALSE]
           ELSE w0
  BY DEF Written, Receives
<1> HIDE DEF w1
<1>3. FromDma(w1, p) = w1 BY DEF FromDma, Receives
<1>4. TxEdge(u, w1, p) = w1 BY DEF TxEdge, Receives
<1>5. Fields \subseteq DOMAIN w1 BY <1>1, <1>2 DEF Receives
<1> DEFINE Is(w) ==
             /\ w.get = TRUE /\ w.send = FALSE
             /\ w.div = IF p.write = "rx" THEN p.div ELSE u.div
             /\ w.rxCnt = IF p.write = "rx" THEN 0 ELSE Down(u.rxCnt)
             /\ w.rxState = IF p.write = "rx" THEN Idle ELSE u.rxState
             /\ w.rxReady = IF p.write = "rx" THEN FALSE ELSE u.rxReady
             /\ w.started = IF p.write = "rx" THEN FALSE ELSE u.started
             /\ w.ended = IF p.write = "rx" THEN FALSE ELSE u.ended
             /\ w.rts = IF p.write = "rx" THEN 0 ELSE u.rts
             /\ w.irq = FALSE
             /\ \A x \in {"rxByte", "dmaReq", "en", "data"} : w[x] = u[x]
<1>6. p.write = "rx" => Is(w1)
  BY <1>1, <1>2 DEF Receives, Fields, TxFields, RxFields
<1>7. p.write # "rx" => Is(w1)
  BY <1>1, <1>2 DEF Receives, Fields, TxFields, RxFields
<1>8. Is(w1) BY <1>6, <1>7
<1>9. Is(TxEdge(u, FromDma(Written(Counted(u), p), p), p)) BY Zenon, <1>3, <1>4, <1>8 DEF w1, w0
<1>10. Fields \subseteq DOMAIN TxEdge(u, FromDma(Written(Counted(u), p), p), p)
  BY Zenon, <1>3, <1>4, <1>5 DEF w1, w0
<1> QED BY <1>9, <1>10

RxSets(u, w, p, v) ==
  /\ Fields \subseteq DOMAIN v
  /\ v.get = w.get /\ v.send = w.send /\ v.div = w.div
  /\ v.rx = p.rx /\ v.rxp = u.rx
  /\ v.started = IF Ending(u) THEN FALSE ELSE IF LineEdge(u) THEN TRUE ELSE w.started
  /\ v.ended = IF Ending(u) THEN TRUE ELSE IF LineEdge(u) THEN FALSE ELSE w.ended
  /\ v.dmaReq = IF LineEdge(u) THEN p.req ELSE w.dmaReq
  /\ v.rxReady = IF Ending(u) THEN TRUE ELSE w.rxReady
  /\ v.irq = IF Ending(u) THEN TRUE ELSE w.irq
  /\ v.data = IF Ending(u) THEN u.rxByte ELSE w.data
  /\ v.en = IF Ending(u) THEN TRUE ELSE Withdrawn(u, w, p).en
  /\ v.rts = IF Ending(u) THEN IF p.req THEN 0 ELSE 1
             ELSE IF u.ended THEN IF u.dmaReq /\ p.req THEN 0 ELSE 1
             ELSE w.rts
  /\ v.rxState = IF ~Sampling(u) THEN w.rxState
                 ELSE IF u.rxState = Idle THEN 0
                 ELSE IF u.rxState = NBits THEN EndBit
                 ELSE IF u.rxState = EndBit THEN Idle ELSE u.rxState + 1
  /\ v.rxByte = IF Sampling(u) /\ u.rxState \notin {Idle, NBits, EndBit}
                THEN Shifted(u.rxByte, u.rxp) ELSE w.rxByte
  /\ ~Ending(u) =>
       v.rxCnt = IF Sampling(u) THEN IF u.rxState = NBits THEN 0 ELSE u.div
                 ELSE IF LineEdge(u) THEN u.div \div 2 ELSE w.rxCnt

LEMMA RxEdgeIs ==
  ASSUME NBits \in 1 .. 15, NEW u, NEW w, NEW p, Receives(u, p), Fields \subseteq DOMAIN w,
         u.rxState \in (0 .. NBits) \cup {EndBit, Idle}
  PROVE  RxSets(u, w, p, RxEdge(u, w, p))
<1> DEFINE w1 == Withdrawn(u, w, p)
           w2 == [w1 EXCEPT !.rx = p.rx, !.rxp = u.rx]
           w3 == Synced(u, w2, p)
           w4 == Rts(u, w3, p)
           w5 == Sampled(u, w4, p)
<1>1. Fields \subseteq DOMAIN w1 /\ \A x \in Fields \ {"en"} : w1[x] = w[x]
  BY DEF Withdrawn
<1> HIDE DEF w1
<1>2. /\ Fields \subseteq DOMAIN w2 /\ w2.rx = p.rx /\ w2.rxp = u.rx
      /\ \A x \in Fields \ {"rx", "rxp"} : w2[x] = w1[x]
  BY <1>1 DEF Fields, RxFields
<1> HIDE DEF w2
<1>3. /\ Fields \subseteq DOMAIN w3
      /\ w3.started = IF LineEdge(u) THEN TRUE ELSE w2.started
      /\ w3.ended = IF LineEdge(u) THEN FALSE ELSE w2.ended
      /\ w3.dmaReq = IF LineEdge(u) THEN p.req ELSE w2.dmaReq
      /\ w3.rxCnt = IF LineEdge(u) THEN u.div \div 2 ELSE w2.rxCnt
      /\ \A x \in Fields \ {"started", "ended", "dmaReq", "rxCnt"} : w3[x] = w2[x]
  BY <1>2 DEF Fields, RxFields, Synced
<1> HIDE DEF w3
<1>4. /\ Fields \subseteq DOMAIN w4
      /\ w4.rts = IF u.ended THEN IF u.dmaReq /\ p.req THEN 0 ELSE 1 ELSE w3.rts
      /\ \A x \in Fields \ {"rts"} : w4[x] = w3[x]
  BY <1>3 DEF Fields, RxFields, Rts
<1> HIDE DEF w4
<1>5. w5 = IF ~Sampling(u) THEN w4
           ELSE IF u.rxState = Idle THEN [w4 EXCEPT !.rxCnt = u.div, !.rxState = 0]
           ELSE IF u.rxState = NBits THEN [w4 EXCEPT !.rxCnt = 0, !.rxState = EndBit]
           ELSE IF u.rxState = EndBit THEN ByteEnd(u, w4, p)
           ELSE [w4 EXCEPT !.rxCnt = u.div, !.rxState = u.rxState + 1,
                           !.rxByte = Shifted(u.rxByte, u.rxp)]
  BY DEF Sampled, Idle, EndBit, StopBit
<1> HIDE DEF w5
<1>6. RxEdge(u, w, p) = w5
  BY DEF RxEdge, Receives, w1, w2, w3, w4, w5
<1>7. /\ Fields \subseteq DOMAIN w5
      /\ w5.started = IF Ending(u) THEN FALSE ELSE w4.started
      /\ w5.ended = IF Ending(u) THEN TRUE ELSE w4.ended
      /\ w5.rxReady = IF Ending(u) THEN TRUE ELSE w4.rxReady
      /\ w5.irq = IF Ending(u) THEN TRUE ELSE w4.irq
      /\ w5.data = IF Ending(u) THEN u.rxByte ELSE w4.data
      /\ w5.en = IF Ending(u) THEN TRUE ELSE w4.en
      /\ w5.rts = IF Ending(u) THEN IF p.req THEN 0 ELSE 1 ELSE w4.rts
      /\ w5.rxState = IF ~Sampling(u) THEN w4.rxState
                      ELSE IF u.rxState = Idle THEN 0
                      ELSE IF u.rxState = NBits THEN EndBit
                      ELSE IF u.rxState = EndBit THEN Idle ELSE u.rxState + 1
      /\ w5.rxByte = IF Sampling(u) /\ u.rxState \notin {Idle, NBits, EndBit}
                     THEN Shifted(u.rxByte, u.rxp) ELSE w4.rxByte
      /\ ~Ending(u) => w5.rxCnt = IF Sampling(u) THEN IF u.rxState = NBits THEN 0 ELSE u.div
                                  ELSE w4.rxCnt
      /\ \A x \in {"get", "send", "div", "rx", "rxp", "dmaReq"} : w5[x] = w4[x]
  <2>1. CASE ~Sampling(u)
    BY <1>4, <1>5, <2>1 DEF Ending
  <2>2. CASE Sampling(u) /\ u.rxState = Idle
    <3>1. w5 = [w4 EXCEPT !.rxCnt = u.div, !.rxState = 0]
      BY <1>5, <2>2
    <3>2. Fields \subseteq DOMAIN w5 BY <1>4, <3>1
    <3>3. /\ w5.rxCnt = u.div /\ w5.rxState = 0
          /\ \A x \in Fields \ {"rxCnt", "rxState"} : w5[x] = w4[x]
      BY <1>4, <3>1 DEF Fields, TxFields, RxFields
    <3>4. ~Ending(u) BY <2>2 DEF Ending, EndBit, Idle
    <3>5. w5.started = w4.started /\ w5.ended = w4.ended /\ w5.rxReady = w4.rxReady
      BY <3>3 DEF Fields, TxFields, RxFields
    <3>6. /\ w5.irq = w4.irq /\ w5.data = w4.data /\ w5.en = w4.en /\ w5.rts = w4.rts
          /\ w5.rxByte = w4.rxByte
          /\ \A x \in {"get", "send", "div", "rx", "rxp", "dmaReq"} : w5[x] = w4[x]
      BY <3>3 DEF Fields, TxFields, RxFields
    <3> QED BY <2>2, <3>2, <3>3, <3>4, <3>5, <3>6 DEF Idle, EndBit
  <2>3. CASE Sampling(u) /\ u.rxState = NBits
    <3>1. w5 = [w4 EXCEPT !.rxCnt = 0, !.rxState = EndBit]
      BY <1>5, <2>3 DEF Idle, EndBit
    <3>2. Fields \subseteq DOMAIN w5 BY <1>4, <3>1
    <3>3. /\ w5.rxCnt = 0
          /\ w5.rxState = EndBit
          /\ \A x \in Fields \ {"rxCnt", "rxState"} : w5[x] = w4[x]
      BY <1>4, <3>1 DEF Fields, TxFields, RxFields
    <3>4. ~Ending(u) BY <2>3 DEF Ending, EndBit
    <3>5. w5.started = w4.started /\ w5.ended = w4.ended /\ w5.rxReady = w4.rxReady
      BY <3>3 DEF Fields, TxFields, RxFields
    <3>6. /\ w5.irq = w4.irq /\ w5.data = w4.data /\ w5.en = w4.en /\ w5.rts = w4.rts
          /\ \A x \in {"get", "send", "div", "rx", "rxp", "dmaReq"} : w5[x] = w4[x]
      BY <3>3 DEF Fields, TxFields, RxFields
    <3>7. w5.rxByte = w4.rxByte BY <3>3 DEF Fields, TxFields, RxFields
    <3> QED BY <2>3, <3>2, <3>3, <3>4, <3>5, <3>6, <3>7 DEF Idle, EndBit
  <2>4. CASE Sampling(u) /\ u.rxState = EndBit
    <3>1. w5 = [w4 EXCEPT !.rxState = Idle, !.rxReady = TRUE, !.data = u.rxByte, !.en = TRUE,
                              !.started = FALSE, !.irq = TRUE,
                              !.rts = IF p.req THEN 0 ELSE 1, !.ended = TRUE]
      BY <1>5, <2>4 DEF Idle, EndBit, ByteEnd
    <3>2. Fields \subseteq DOMAIN w5 BY <1>4, <3>1
    <3>3. /\ w5.rxState = Idle
          /\ w5.rxReady = TRUE
          /\ w5.data = u.rxByte
          /\ w5.en = TRUE
          /\ w5.started = FALSE
          /\ w5.irq = TRUE
          /\ w5.rts = IF p.req THEN 0 ELSE 1
          /\ w5.ended = TRUE
          /\ \A x \in Fields \ {"rxState", "rxReady", "data", "en", "started", "irq", "rts",
                              "ended"} : w5[x] = w4[x]
      BY <1>4, <3>1 DEF Fields, TxFields, RxFields
    <3>4. Ending(u) BY <2>4 DEF Ending
    <3>5. /\ w5.rxByte = w4.rxByte
          /\ \A x \in {"get", "send", "div", "rx", "rxp", "dmaReq"} : w5[x] = w4[x]
      BY <3>3 DEF Fields, TxFields, RxFields
    <3>6. u.rxState # Idle /\ u.rxState # NBits /\ u.rxState \in {Idle, NBits, EndBit}
      BY <2>4 DEF Idle, EndBit
    <3> QED BY <2>4, <3>2, <3>3, <3>4, <3>5, <3>6
  <2>5. CASE Sampling(u) /\ u.rxState \notin {Idle, NBits, EndBit}
    <3>1. w5 = [w4 EXCEPT !.rxCnt = u.div, !.rxState = u.rxState + 1,
                              !.rxByte = Shifted(u.rxByte, u.rxp)]
      BY <1>5, <2>5 DEF Idle, EndBit
    <3>2. Fields \subseteq DOMAIN w5 BY <1>4, <3>1
    <3>3. /\ w5.rxCnt = u.div
          /\ w5.rxState = u.rxState + 1
          /\ w5.rxByte = Shifted(u.rxByte, u.rxp)
          /\ \A x \in Fields \ {"rxCnt", "rxState", "rxByte"} : w5[x] = w4[x]
      BY <1>4, <3>1 DEF Fields, TxFields, RxFields
    <3>4. ~Ending(u) BY <2>5 DEF Ending, EndBit
    <3>5. w5.started = w4.started /\ w5.ended = w4.ended /\ w5.rxReady = w4.rxReady
      BY <3>3 DEF Fields, TxFields, RxFields
    <3>6. /\ w5.irq = w4.irq /\ w5.data = w4.data /\ w5.en = w4.en /\ w5.rts = w4.rts
          /\ \A x \in {"get", "send", "div", "rx", "rxp", "dmaReq"} : w5[x] = w4[x]
      BY <3>3 DEF Fields, TxFields, RxFields
    <3>7. u.rxState # Idle /\ u.rxState # NBits /\ u.rxState # EndBit BY <2>5
    <3>8. w5.rxByte = Shifted(u.rxByte, u.rxp) BY <3>3
    <3>9. w5.rxCnt = u.div /\ w5.rxState = u.rxState + 1 BY <3>3
    <3> QED BY <2>5, <3>2, <3>4, <3>5, <3>6, <3>7, <3>8, <3>9
  <2> QED BY <2>1, <2>2, <2>3, <2>4, <2>5
<1>8. \A x \in {"get", "send", "div", "rxReady", "irq", "data", "rxState", "rxByte", "rts"} :
         x \in Fields \ {"started", "ended", "dmaReq", "rxCnt", "rx", "rxp", "en"}
  BY DEF Fields, TxFields, RxFields
<1>9. /\ \A x \in {"get", "send", "div", "rxReady", "irq", "data", "rxState", "rxByte"} :
           w4[x] = w[x]
      /\ w3.rts = w.rts
      /\ w2.started = w.started /\ w2.ended = w.ended /\ w2.dmaReq = w.dmaReq
      /\ w2.rxCnt = w.rxCnt /\ w4.en = w1.en
      /\ w4.rx = p.rx /\ w4.rxp = u.rx
      /\ w4.started = w3.started /\ w4.ended = w3.ended /\ w4.dmaReq = w3.dmaReq
      /\ w4.rxCnt = w3.rxCnt
  BY <1>1, <1>2, <1>3, <1>4, <1>8 DEF Fields, TxFields, RxFields
<1> QED BY <1>3, <1>4, <1>6, <1>7, <1>9 DEF w1, RxSets

(* The registers behind the edge.  The receiver is armed between frames    *)
(* only, where neither the line nor the counter does anything.             *)
RxBecomes(u, p, v) ==
  /\ Fields \subseteq DOMAIN v /\ v.get = TRUE /\ v.send = FALSE
  /\ v.div = IF p.write = "rx" THEN p.div ELSE u.div
  /\ v.rx = p.rx /\ v.rxp = u.rx
  /\ Ending(u) =>
       /\ ~v.started /\ v.ended /\ v.rxReady /\ v.irq /\ v.data = u.rxByte /\ v.en
       /\ v.rts = IF p.req THEN 0 ELSE 1
       /\ v.rxState = Idle /\ v.rxByte = u.rxByte /\ v.rxCnt = 0
  /\ ~Ending(u) =>
       /\ ~v.irq /\ v.data = u.data
       /\ v.started = IF LineEdge(u) THEN TRUE
                      ELSE IF p.write = "rx" THEN FALSE ELSE u.started
       /\ v.ended = IF LineEdge(u) THEN FALSE
                    ELSE IF p.write = "rx" THEN FALSE ELSE u.ended
       /\ v.rxReady = IF p.write = "rx" THEN FALSE ELSE u.rxReady
       /\ v.en = IF p.grant \/ p.write # "none" \/ (p.boot /\ ~u.boot) THEN FALSE ELSE u.en
       /\ v.rts = IF u.ended THEN IF u.dmaReq /\ p.req THEN 0 ELSE 1
                  ELSE IF p.write = "rx" THEN 0 ELSE u.rts
  /\ Sampling(u) /\ ~Ending(u) =>
       v.rxCnt = IF v.started THEN IF u.rxState = NBits THEN 0 ELSE u.div ELSE 0
  /\ Sampling(u) =>
       /\ u.rxState = Idle => v.rxState = 0 /\ v.rxByte = u.rxByte
       /\ u.rxState = NBits => v.rxState = EndBit /\ v.rxByte = u.rxByte
       /\ u.rxState \in 0 .. NBits - 1 => /\ v.rxState = u.rxState + 1
                                          /\ v.rxByte = Shifted(u.rxByte, u.rxp)
  /\ ~Sampling(u) =>
       /\ v.rxState = IF p.write = "rx" THEN Idle ELSE u.rxState
       /\ v.rxByte = u.rxByte
       /\ v.rxCnt = IF ~v.started THEN 0
                    ELSE IF LineEdge(u) THEN u.div \div 2
                    ELSE IF p.write = "rx" THEN 0 ELSE Down(u.rxCnt)
  /\ v.dmaReq = IF LineEdge(u) THEN p.req ELSE u.dmaReq

LEMMA ReceiverEdge ==
  ASSUME NBits \in 1 .. 15, NEW u, NEW p, Receives(u, p),
         u.rxState \in (0 .. NBits) \cup {EndBit, Idle}
  PROVE  RxBecomes(u, p, UartEdge(u, p))
<1> DEFINE w == TxEdge(u, FromDma(Written(Counted(u), p), p), p)
           r == RxEdge(u, w, p)
           r1 == [r EXCEPT !.boot = p.boot]
           v == [r1 EXCEPT !.txCnt = IF r1.send THEN @ ELSE 0,
                           !.rxCnt = IF r1.started THEN @ ELSE 0]
<1>1. UartEdge(u, p) = v BY DEF UartEdge
<1>2. /\ Fields \subseteq DOMAIN w
      /\ w.get = TRUE /\ w.send = FALSE
      /\ w.div = IF p.write = "rx" THEN p.div ELSE u.div
      /\ w.rxCnt = IF p.write = "rx" THEN 0 ELSE Down(u.rxCnt)
      /\ w.rxState = IF p.write = "rx" THEN Idle ELSE u.rxState
      /\ w.rxReady = IF p.write = "rx" THEN FALSE ELSE u.rxReady
      /\ w.started = IF p.write = "rx" THEN FALSE ELSE u.started
      /\ w.ended = IF p.write = "rx" THEN FALSE ELSE u.ended
      /\ w.rts = IF p.write = "rx" THEN 0 ELSE u.rts
      /\ w.irq = FALSE
      /\ w.rxByte = u.rxByte /\ w.dmaReq = u.dmaReq /\ w.en = u.en /\ w.data = u.data
  BY WrittenIs
<1>0. Fields \subseteq DOMAIN UartEdge(u, p)
  BY EdgeIsTx DEF Receives, Fields
<1> HIDE DEF w
<1>3. Withdrawn(u, w, p).en = IF p.grant \/ p.write # "none" \/ (p.boot /\ ~u.boot)
                              THEN FALSE ELSE w.en
  BY <1>2 DEF Withdrawn, Fields, RxFields
<1>4. RxSets(u, w, p, r)
  <2>1. Fields \subseteq DOMAIN w BY <1>2
  <2> QED BY Zenon, <2>1, RxEdgeIs
<1> HIDE DEF r
<1>5. /\ v.rxCnt = IF r.started THEN r.rxCnt ELSE 0
      /\ \A x \in Fields \ {"txCnt", "rxCnt", "boot"} : v[x] = r[x]
  BY <1>4 DEF Fields, TxFields, RxFields, RxSets
<1> HIDE DEF v
<1>6. /\ v.get = r.get /\ v.send = r.send /\ v.div = r.div /\ v.rx = r.rx /\ v.rxp = r.rxp
      /\ v.started = r.started /\ v.ended = r.ended /\ v.dmaReq = r.dmaReq
      /\ v.rxReady = r.rxReady /\ v.irq = r.irq /\ v.data = r.data /\ v.en = r.en
      /\ v.rts = r.rts /\ v.rxState = r.rxState /\ v.rxByte = r.rxByte
  BY <1>5 DEF Fields, TxFields, RxFields
<1>7. /\ v.get = TRUE /\ v.send = FALSE
      /\ v.div = IF p.write = "rx" THEN p.div ELSE u.div
      /\ v.rx = p.rx /\ v.rxp = u.rx
      /\ v.dmaReq = IF LineEdge(u) THEN p.req ELSE u.dmaReq
  BY <1>2, <1>4, <1>6 DEF RxSets
<1>8. Ending(u) =>
        /\ Sampling(u) /\ u.rxState = EndBit
        /\ ~v.started /\ v.ended /\ v.rxReady /\ v.irq /\ v.data = u.rxByte /\ v.en
        /\ v.rts = IF p.req THEN 0 ELSE 1
        /\ v.rxCnt = 0
  BY <1>4, <1>5, <1>6 DEF Ending, RxSets
<1>9. Ending(u) => v.rxState = Idle /\ v.rxByte = u.rxByte
  BY <1>2, <1>4, <1>6 DEF RxSets, Ending, Idle, EndBit
<1>10. ~Ending(u) =>
         /\ ~v.irq /\ v.data = u.data
         /\ v.started = IF LineEdge(u) THEN TRUE
                        ELSE IF p.write = "rx" THEN FALSE ELSE u.started
         /\ v.ended = IF LineEdge(u) THEN FALSE
                      ELSE IF p.write = "rx" THEN FALSE ELSE u.ended
         /\ v.rxReady = IF p.write = "rx" THEN FALSE ELSE u.rxReady
         /\ v.en = IF p.grant \/ p.write # "none" \/ (p.boot /\ ~u.boot) THEN FALSE ELSE u.en
         /\ v.rts = IF u.ended THEN IF u.dmaReq /\ p.req THEN 0 ELSE 1
                    ELSE IF p.write = "rx" THEN 0 ELSE u.rts
  BY <1>2, <1>3, <1>4, <1>6 DEF RxSets
<1>11. Sampling(u) /\ ~Ending(u) =>
         v.rxCnt = IF v.started THEN IF u.rxState = NBits THEN 0 ELSE u.div ELSE 0
  BY <1>4, <1>5, <1>6 DEF RxSets
<1>12. Sampling(u) =>
         /\ u.rxState = Idle => v.rxState = 0 /\ v.rxByte = u.rxByte
         /\ u.rxState = NBits => v.rxState = EndBit /\ v.rxByte = u.rxByte
         /\ u.rxState \in 0 .. NBits - 1 => /\ v.rxState = u.rxState + 1
                                            /\ v.rxByte = Shifted(u.rxByte, u.rxp)
  <2>1. u.rxState \in {Idle, NBits} => u.rxState \in {Idle, NBits, EndBit} OBVIOUS
  <2>2. u.rxState \in 0 .. NBits - 1 => u.rxState \notin {Idle, NBits, EndBit}
    BY DEF Idle, EndBit
  <2>3. Sampling(u) /\ u.rxState \in {Idle, NBits} => v.rxByte = u.rxByte
    BY <1>2, <1>4, <1>6, <2>1 DEF RxSets
  <2>4. Sampling(u) /\ u.rxState \in 0 .. NBits - 1 =>
          v.rxState = u.rxState + 1 /\ v.rxByte = Shifted(u.rxByte, u.rxp)
    BY <1>4, <1>6, <2>2 DEF RxSets
  <2>5. NBits # Idle BY DEF Idle
  <2> QED BY <1>4, <1>6, <2>3, <2>4, <2>5 DEF RxSets
<1>13. ~Sampling(u) =>
         /\ v.rxState = IF p.write = "rx" THEN Idle ELSE u.rxState
         /\ v.rxByte = u.rxByte
         /\ v.rxCnt = IF ~v.started THEN 0
                      ELSE IF LineEdge(u) THEN u.div \div 2
                      ELSE IF p.write = "rx" THEN 0 ELSE Down(u.rxCnt)
  <2>1. ~Sampling(u) => ~Ending(u) BY DEF Ending
  <2> QED BY <1>2, <1>4, <1>5, <1>6, <2>1 DEF RxSets
<1> QED BY <1>0, <1>1, <1>7, <1>8, <1>9, <1>10, <1>11, <1>12, <1>13 DEF RxBecomes

-----------------------------------------------------------------------------
(* Where in a bit the receiver looks.                                      *)
LEMMA Products ==
  ASSUME NEW m \in Nat, NEW n \in Nat, m <= n, NEW e \in Int
  PROVE  /\ m * e \in Int /\ n * e \in Int /\ (n + 1) * e = n * e + e
         /\ e >= 0 => m * e <= n * e /\ 0 <= m * e
         /\ e <= 0 => m * e >= n * e /\ 0 >= m * e
<1>1. n * e = m * e + (n - m) * e OBVIOUS
<1>2. ASSUME NEW k \in Nat PROVE (e >= 0 => k * e >= 0) /\ (e <= 0 => k * e <= 0)
  OBVIOUS
<1>3. n - m \in Nat OBVIOUS
<1>4. (e >= 0 => (n - m) * e >= 0) /\ (e <= 0 => (n - m) * e <= 0) BY <1>2, <1>3
<1>5. (e >= 0 => m * e >= 0) /\ (e <= 0 => m * e <= 0) BY <1>2
<1>6. (n + 1) * e = n * e + e OBVIOUS
<1>7. m * e \in Int /\ n * e \in Int /\ (n - m) * e \in Int OBVIOUS
<1> QED BY <1>1, <1>4, <1>5, <1>6, <1>7

LEMMA MiddleInt ==
  ASSUME NEW v \in Nat
  PROVE  Middle(v) \in Nat /\ v \div 2 \in Nat /\ Middle(v) = 2 + v \div 2
BY DEF Middle

LEMMA AroundGrows ==
  ASSUME NEW v \in Nat, NEW d \in Nat, NEW m \in Nat, NEW n \in Nat, m <= n,
         NEW x, Around(v, d, m, x)
  PROVE  Around(v, d, n, x)
<1>1. v - d \in Int OBVIOUS
<1>2. /\ m * (v - d) \in Int /\ n * (v - d) \in Int
      /\ v - d >= 0 => m * (v - d) <= n * (v - d)
      /\ v - d <= 0 => m * (v - d) >= n * (v - d)
  BY <1>1, Products
<1> DEFINE p == m * (v - d)
           q == n * (v - d)
           h == Middle(v)
<1>3. h \in Nat BY MiddleInt
<1>4. IF v >= d THEN x \in h .. h + p ELSE x \in h + p .. h BY DEF Around
<1>5. p \in Int /\ q \in Int /\ (v >= d => p <= q) /\ (~(v >= d) => p >= q) BY <1>2
<1> HIDE DEF p, q, h
<1>6. IF v >= d THEN x \in h .. h + q ELSE x \in h + q .. h BY <1>3, <1>4, <1>5
<1> QED BY <1>6 DEF Around, p, q, h

LEMMA AroundSteps ==
  ASSUME NEW v \in Nat, NEW d \in Nat, NEW n \in Nat, NEW x, Around(v, d, n, x)
  PROVE  Around(v, d, n + 1, x + v - d)
<1> DEFINE p == n * (v - d)
           q == (n + 1) * (v - d)
           h == Middle(v)
<1>1. p \in Int /\ q = p + (v - d)
  <2>1. v - d \in Int OBVIOUS
  <2> QED BY <2>1, Products
<1>3. h \in Nat BY MiddleInt
<1>4. IF v >= d THEN x \in h .. h + p ELSE x \in h + p .. h BY DEF Around
<1> HIDE DEF p, q, h
<1>5. IF v >= d THEN x + v - d \in h .. h + q ELSE x + v - d \in h + q .. h
  BY <1>1, <1>3, <1>4
<1> QED BY <1>5 DEF Around, p, q, h

LEMMA AroundMiddle ==
  ASSUME NEW v \in Nat, NEW d \in Nat, NEW n \in Nat
  PROVE  Around(v, d, n, Middle(v))
<1> DEFINE p == n * (v - d)
           h == Middle(v)
<1>1. v - d \in Int OBVIOUS
<1>2. p \in Int /\ (v >= d => p >= 0) /\ (~(v >= d) => p <= 0) BY <1>1, Products
<1>3. h \in Nat BY MiddleInt
<1> HIDE DEF p, h
<1>4. IF v >= d THEN h \in h .. h + p ELSE h \in h + p .. h BY <1>2, <1>3
<1> QED BY <1>4 DEF Around, p, h

(* In a frame it never looks at the first two or the last two edges of it. *)
LEMMA AroundBounded ==
  ASSUME NBits \in 1 .. 15, NEW v, NEW d, Close(v, d), NEW n \in 0 .. NBits + 1,
         NEW x, Around(v, d, n, x)
  PROVE  x \in 2 .. d - 2
<1>0. v \in Nat /\ d \in Nat BY DEF Close
<1>1. Around(v, d, NBits + 1, x)
  <2>1. n \in Nat /\ NBits + 1 \in Nat /\ n <= NBits + 1 OBVIOUS
  <2> QED BY <1>0, <2>1, AroundGrows
<1> DEFINE p == (NBits + 1) * (v - d)
           h == Middle(v)
<1>2. IF v >= d THEN x \in h .. h + p ELSE x \in h + p .. h BY <1>1 DEF Around
<1>3. h \in 2 .. d - 2 /\ h + p \in 2 .. d - 2 BY DEF Close
<1>4. p \in Int
  <2>1. v - d \in Int /\ NBits + 1 \in Nat BY <1>0
  <2> QED BY <2>1, Products
<1> HIDE DEF p, h
<1> QED BY <1>0, <1>2, <1>3, <1>4

LEMMA SinceSteps ==
  ASSUME NBits \in 1 .. 15, NEW c \in [Bits -> {0, 1}], NEW n \in 1 .. NBits
  PROVE  /\ Since(c, n) \in 0 .. n
         /\ Since(c, 0) = 0 /\ Since(c, 1) = 1
         /\ Since(c, n + 1) = Since(c, n) + 1
            \/ (Since(c, n + 1) = n /\ Level(c, n) = 1 /\ Before(c, n) = 0)
         /\ Since(c, NBits + 1) = NBits
            \/ (Since(c, NBits + 1) = NBits + 1 /\ Before(c, NBits + 1) = 0)
<1>1. ~Rose(c, 0) /\ ~Rose(c, 1) BY DEF Rose
<1>2. Rose(c, n + 1) <=> Rose(c, n) \/ c[n - 1] = 1
  <2>1. 0 .. (n + 1) - 2 = (0 .. n - 2) \cup {n - 1} OBVIOUS
  <2> QED BY <2>1 DEF Rose
<1>3. ~Rose(c, n) => Before(c, n) = 0
  <2>1. CASE n = 1 BY <2>1 DEF Before, Level
  <2>2. CASE n > 1
    <3>1. n - 2 \in 0 .. n - 2 /\ n - 2 \in Bits BY <2>2 DEF Bits
    <3>2. ~Rose(c, n) => c[n - 2] # 1 BY <3>1 DEF Rose
    <3>3. ~Rose(c, n) => c[n - 2] = 0 BY <3>1, <3>2
    <3>4. Before(c, n) = c[n - 2] BY <2>2 DEF Before, Level
    <3> QED BY <3>3, <3>4
  <2> QED BY <2>1, <2>2
<1>4. Level(c, n) = c[n - 1] BY DEF Level
<1>5. ~Rose(c, NBits + 1) => Before(c, NBits + 1) = 0
  <2>1. NBits - 1 \in 0 .. (NBits + 1) - 2 /\ NBits - 1 \in Bits BY DEF Bits
  <2>2. ~Rose(c, NBits + 1) => c[NBits - 1] = 0 BY <2>1 DEF Rose
  <2>3. Before(c, NBits + 1) = c[NBits - 1] BY DEF Before, Level
  <2> QED BY <2>2, <2>3
<1> QED BY <1>1, <1>2, <1>3, <1>4, <1>5 DEF Since

-----------------------------------------------------------------------------
(* One edge of the link.  The receiver is armed between two frames, and a  *)
(* byte that is taken is the one b holds; the drivers below keep to this.  *)
LinkEdge(s, write, boot, byte) ==
  /\ s \in Sends /\ Edge(s, write, boot, byte)
  /\ write \in {"none", "rx"}
  /\ write = "rx" => ~b.started /\ ~LineEdge(b)
  /\ byte # NoByte => fresh /\ byte = queue[1]
  /\ Ending(b) => ~fresh

(* What the sender does in it: nothing, take a byte, wait for CTS, begin a *)
(* frame, go on with a bit, begin the next, end the frame.                 *)
Rests(s) ==
  /\ ~a.send /\ ~give.en /\ s.write # "tx"
  /\ ~a'.send /\ ~OnLine /\ ~OnLine' /\ a'.tx = 1

Takes(s) ==
  /\ ~a.send /\ a'.send /\ ~OnLine /\ ~OnLine' /\ a'.tx = 1
  /\ \/ give.en /\ s.write = "none" /\ a'.txByte = give.data
     \/ ~give.en /\ s.write = "tx" /\ a'.txByte = s.byte
  /\ IF byDma THEN ~a'.rdy ELSE ~a'.txReady

Busy(s) == a.send /\ ~give.en /\ s.write = "none"
Sending == a'.send /\ IF byDma THEN ~a'.rdy ELSE ~a'.txReady

Waits(s) ==
  /\ Busy(s) /\ Sending /\ ~OnLine /\ ~OnLine' /\ a'.tx = 1 /\ a'.txByte = a.txByte

Starts(s) ==
  /\ Busy(s) /\ Sending /\ ~OnLine /\ b.rts = 0
  /\ a'.txState = 0 /\ OnLine' /\ Bit' = 0 /\ Elapsed' = 0 /\ a'.txCnt = a.div
  /\ a'.tx = 0 /\ a'.txByte = a.txByte

GoesOn(s) ==
  /\ Busy(s) /\ Sending /\ OnLine /\ a.txCnt # 0
  /\ a'.txState = a.txState /\ OnLine' /\ Bit' = Bit /\ Elapsed' = Elapsed + 1
  /\ a'.txCnt = a.txCnt - 1
  /\ Elapsed < a.div /\ a'.tx = a.tx /\ a'.txByte = a.txByte

GoesUp(s) ==
  /\ Busy(s) /\ Sending /\ OnLine /\ a.txState # EndBit /\ Bit \in 0 .. NBits
  /\ OnLine' /\ Bit' = Bit + 1 /\ Elapsed = a.div /\ Elapsed' = 0 /\ a'.txCnt = a.div
  /\ Bit < NBits => /\ a'.txState = a.txState + 1 /\ a'.tx = a.txByte[0]
                    /\ a'.txByte = Shifted(a.txByte, 0)
  /\ Bit = NBits => a'.txState = EndBit /\ a'.tx = 1 /\ a'.txByte = a.txByte

Finishes(s) ==
  /\ Busy(s) /\ a.txState = EndBit /\ OnLine /\ Bit = NBits + 1 /\ Elapsed = a.div
  /\ ~a'.send /\ ~OnLine' /\ a'.tx = 1

Moves(s) == Rests(s) \/ Takes(s) \/ Waits(s) \/ Starts(s) \/ GoesOn(s) \/ GoesUp(s) \/ Finishes(s)

LEMMA SendsAre ==
  ASSUME NEW s \in Sends, SenderInv
  PROVE  /\ s.write \in {"none", "dma", "tx"}
         /\ s.write = "dma" => byDma /\ ~a.send /\ ~give.en /\ s.byte \in Bytes
         /\ s.write = "tx" => ~byDma /\ ~a.send /\ ~give.en /\ s.byte \in Bytes
BY DEF Sends, SenderInv

LEMMA Divisions ==
  ASSUME Matched, SenderInv
  PROVE  /\ NBits \in 1 .. 15 /\ CntMod \in Nat
         /\ a.div \in Nat /\ a.div < CntMod /\ a.div >= 4 /\ MaxArm \in Nat /\ MaxArm < a.div
         /\ \A v \in {Div, ResetDiv} : v \in Nat /\ Close(v, a.div)
<1>1. \A v \in {Div, ResetDiv} : Close(v, a.div) /\ MaxArm < a.div
  BY DEF Matched, SenderInv
<1>2. a.div \in Nat /\ a.div < CntMod /\ \A v \in {Div, ResetDiv} : v \in Nat
  BY <1>1 DEF Close
<1>3. Middle(Div) \in 2 .. a.div - 2 BY <1>1 DEF Close
<1>4. Middle(Div) \in Nat BY <1>2, MiddleInt
<1>5. a.div >= 4 BY <1>2, <1>3, <1>4
<1> QED BY <1>1, <1>2, <1>5 DEF Matched

LEMMA ElapsedIn ==
  ASSUME Matched, SenderInv, OnLine
  PROVE  /\ Elapsed \in 0 .. a.div /\ Bit \in 0 .. NBits + 1
         /\ Bit = NBits + 1 <=> a.txState = EndBit
         /\ Bit <= NBits => Bit = a.txState
<1>1. a.div \in Nat /\ NBits \in 1 .. 15 BY Divisions
<1>2. a.txCnt \in 0 .. a.div /\ a.txState \in (0 .. NBits) \cup {EndBit}
  BY DEF SenderInv, OnLine
<1> QED BY <1>1, <1>2 DEF Elapsed, Bit, EndBit

LEMMA SenderMoves ==
  ASSUME Matched, SenderInv, NEW s, NEW write, NEW boot, NEW byte,
         LinkEdge(s, write, boot, byte)
  PROVE  /\ Fields \subseteq DOMAIN a' /\ a'.div = a.div
         /\ a'.txCnt \in 0 .. CntMod - 1 /\ a'.txByte \in [Bits -> {0, 1}]
         /\ Moves(s)
<1> DEFINE p == PortsOfA(s)
<1>1. a' = UartEdge(a, p) BY DEF LinkEdge, Edge
<1>2. /\ p.write = (IF s.write = "tx" THEN "tx" ELSE "none") /\ p.byte = s.byte
      /\ p.div = a.div /\ p.en = give.en /\ p.data = give.data /\ p.cts = b.rts
  BY DEF PortsOfA
<1> HIDE DEF p
<1>3. /\ s \in Sends /\ s.write \in {"none", "dma", "tx"}
      /\ s.write = "dma" => byDma /\ ~a.send /\ ~give.en /\ s.byte \in Bytes
      /\ s.write = "tx" => ~byDma /\ ~a.send /\ ~give.en /\ s.byte \in Bytes
  BY SendsAre DEF LinkEdge
<1>4. /\ NBits \in 1 .. 15 /\ CntMod \in Nat /\ a.div \in Nat /\ a.div < CntMod /\ a.div >= 4
      /\ Bytes \subseteq [Bits -> {0, 1}] /\ byDma \in BOOLEAN
  BY Divisions DEF Matched, SenderInv
<1>5. /\ Fields \subseteq DOMAIN a /\ TxFields \subseteq DOMAIN a
      /\ p.write \in {"none", "rx", "tx"}
  BY <1>2 DEF SenderInv, Fields
<1>6. Fields \subseteq DOMAIN a' BY <1>1, <1>5, EdgeIsTx
<1>7. /\ a.txCnt \in 0 .. CntMod - 1
      /\ a.txState \in (0 .. NBits) \cup {EndBit, Idle}
      /\ ~a.send => a.txState = Idle /\ a.tx = 1
      /\ a.txState = Idle => a.tx = 1
      /\ give.en => byDma /\ ~a.send
      /\ a.txByte \in [Bits -> {0, 1}] /\ give.data \in [Bits -> {0, 1}]
      /\ a.send => IF byDma THEN ~a.rdy ELSE ~a.txReady
  BY DEF SenderInv, OnLine
<1>8. CASE ~a.send /\ ~give.en /\ s.write # "tx"
  <2>1. /\ ~a'.send /\ a'.txCnt = 0
        /\ a'.txState = a.txState /\ a'.txByte = a.txByte /\ a'.tx = a.tx /\ a'.div = a.div
    BY <1>1, <1>2, <1>4, <1>5, <1>8, TxRests
  <2>2. Rests(s) BY <1>7, <1>8, <2>1 DEF Rests, OnLine
  <2> QED BY <1>4, <1>6, <1>7, <2>1, <2>2 DEF Moves
<1>9. CASE ~a.send /\ (give.en \/ s.write = "tx")
  <2>1. \/ p.write = "none" /\ p.en
        \/ p.write = "tx" /\ ~p.en /\ p.div = a.div /\ a.txState = Idle
    BY <1>2, <1>3, <1>7, <1>9
  <2>2. /\ a'.send /\ a'.txCnt = 0
        /\ a'.txState = a.txState /\ a'.tx = a.tx /\ a'.div = a.div
        /\ p.write = "none" => a'.txByte = p.data /\ ~a'.rdy
        /\ p.write = "tx" => a'.txByte = p.byte /\ ~a'.txReady
    BY <1>1, <1>4, <1>5, <1>9, <2>1, TxTakes
  <2>3. s.write # "dma" BY <1>3, <1>9
  <2>4. Takes(s) BY <1>2, <1>3, <1>7, <1>9, <2>2, <2>3 DEF Takes, OnLine
  <2>5. a'.txByte \in [Bits -> {0, 1}] BY <1>2, <1>3, <1>4, <1>7, <1>9, <2>2, <2>3
  <2> QED BY <1>4, <1>6, <2>2, <2>4, <2>5 DEF Moves
<1>10. CASE a.send
  <2>1. Busy(s) /\ p.write = "none" /\ ~p.en BY <1>2, <1>3, <1>7, <1>10 DEF Busy
  <2>2. CASE a.txState = Idle /\ (a.txCnt # 0 \/ p.cts # 0)
    <3>1. /\ a'.send = a.send /\ a'.txState = a.txState /\ a'.txByte = a.txByte /\ a'.tx = a.tx
          /\ a'.div = a.div /\ a'.txReady = a.txReady
          /\ ~a.rdy => ~a'.rdy
          /\ a'.txCnt \in 0 .. CntMod - 1
      BY <1>1, <1>4, <1>5, <1>7, <1>10, <2>1, <2>2, TxWaits
    <3>2. Waits(s) BY <1>7, <1>10, <2>1, <2>2, <3>1 DEF Waits, OnLine, Sending
    <3> QED BY <1>6, <1>7, <3>1, <3>2 DEF Moves
  <2>3. CASE a.txState = Idle /\ a.txCnt = 0 /\ p.cts = 0
    <3>1. /\ a'.send /\ a'.txCnt = a.div /\ a'.div = a.div /\ a'.txReady = a.txReady
          /\ ~a.rdy => ~a'.rdy
          /\ a'.txState = 0 /\ a'.tx = 0 /\ a'.txByte = a.txByte
      BY <1>1, <1>4, <1>5, <1>10, <2>1, <2>3, TxMoves DEF Idle, EndBit
    <3>2. OnLine' /\ Bit' = 0 /\ Elapsed' = 0
      BY <1>4, <3>1 DEF OnLine, Bit, Elapsed, Idle, EndBit
    <3>3. Starts(s)
      BY <1>2, <1>7, <1>10, <2>1, <2>3, <3>1, <3>2 DEF Starts, OnLine, Sending
    <3> QED BY <1>4, <1>6, <1>7, <3>1, <3>3 DEF Moves
  <2>4. CASE a.txState # Idle /\ a.txCnt # 0
    <3>1. /\ a'.send = a.send /\ a'.txState = a.txState /\ a'.txByte = a.txByte /\ a'.tx = a.tx
          /\ a'.div = a.div /\ a'.txReady = a.txReady
          /\ ~a.rdy => ~a'.rdy
          /\ a'.txCnt \in 0 .. CntMod - 1 /\ a'.txCnt = a.txCnt - 1
      BY <1>1, <1>4, <1>5, <1>7, <1>10, <2>1, <2>4, TxWaits
    <3>2. OnLine /\ OnLine' /\ Bit' = Bit /\ Elapsed' = Elapsed + 1 /\ Elapsed < a.div
      BY <1>4, <1>7, <2>4, <3>1 DEF OnLine, Bit, Elapsed
    <3>3. GoesOn(s)
      BY <1>7, <1>10, <2>1, <2>4, <3>1, <3>2 DEF GoesOn, Sending
    <3> QED BY <1>6, <1>7, <3>1, <3>3 DEF Moves
  <2>5. CASE a.txState \in 0 .. NBits /\ a.txCnt = 0
    <3>0. a.txState # Idle /\ a.txState # EndBit BY <1>4, <2>5 DEF Idle, EndBit
    <3>1. /\ a'.send /\ a'.txCnt = a.div /\ a'.div = a.div /\ a'.txReady = a.txReady
          /\ ~a.rdy => ~a'.rdy
          /\ a.txState = NBits => a'.txState = EndBit /\ a'.tx = 1 /\ a'.txByte = a.txByte
          /\ a.txState # NBits =>
               /\ a'.txState = a.txState + 1 /\ a'.tx = a.txByte[0]
               /\ a'.txByte = Shifted(a.txByte, 0)
      BY <1>1, <1>4, <1>5, <1>10, <2>1, <2>5, <3>0, TxMoves DEF StopBit
    <3>2. OnLine /\ OnLine' /\ Bit = a.txState /\ Bit' = Bit + 1 /\ Elapsed = a.div /\ Elapsed' = 0
      BY <1>4, <2>5, <3>0, <3>1 DEF OnLine, Bit, Elapsed, Idle, EndBit
    <3>3. GoesUp(s)
      BY <1>7, <1>10, <2>1, <2>5, <3>0, <3>1, <3>2 DEF GoesUp, Sending
    <3>4. Shifted(a.txByte, 0) \in [Bits -> {0, 1}]
      <4>1. \A i \in Bits : i # NBits - 1 => i + 1 \in Bits BY <1>4 DEF Bits
      <4> QED BY <1>7, <4>1 DEF Shifted
    <3>5. a'.txByte \in [Bits -> {0, 1}] BY <1>7, <3>1, <3>4
    <3> QED BY <1>4, <1>6, <1>7, <3>1, <3>3, <3>5 DEF Moves
  <2>6. CASE a.txState = EndBit /\ a.txCnt = 0
    <3>1. /\ ~a'.send /\ a'.txState = Idle /\ a'.tx = 1 /\ a'.txByte = a.txByte
          /\ a'.div = a.div /\ a'.txCnt = 0
      BY <1>1, <1>4, <1>5, <1>10, <2>1, <2>6, TxEnds
    <3>2. OnLine /\ ~OnLine' /\ Bit = NBits + 1 /\ Elapsed = a.div
      BY <1>4, <2>6, <3>1 DEF OnLine, Bit, Elapsed, Idle, EndBit
    <3>3. Finishes(s) BY <2>1, <2>6, <3>1, <3>2 DEF Finishes
    <3> QED BY <1>4, <1>6, <1>7, <3>1, <3>3 DEF Moves
  <2> QED BY <1>7, <2>2, <2>3, <2>4, <2>5, <2>6
<1> QED BY <1>7, <1>8, <1>9, <1>10

-----------------------------------------------------------------------------
(* What the line shows b, and when b looks at it.                          *)
LEMMA CurIn ==
  ASSUME QueueInv, Carrying \/ give.en
  PROVE  /\ Cur \in [Bits -> {0, 1}]
         /\ Len(queue) = (IF fresh THEN 1 ELSE 0) + 1
BY DEF QueueInv, Cur

LEMMA LevelIn ==
  ASSUME NBits \in 1 .. 15, NEW c \in [Bits -> {0, 1}], NEW n \in 0 .. NBits + 1
  PROVE  Level(c, n) \in {0, 1} /\ Before(c, n) \in {0, 1}
<1>1. ASSUME NEW k \in 0 .. NBits + 1 PROVE Level(c, k) \in {0, 1}
  <2>1. k # 0 /\ k # NBits + 1 => k - 1 \in Bits BY DEF Bits
  <2> QED BY <2>1 DEF Level
<1>2. n # 0 => n - 1 \in 0 .. NBits + 1 OBVIOUS
<1> QED BY <1>1, <1>2 DEF Before

LEMMA Idles ==
  ASSUME Matched, SenderInv, WireInv, ReceiverInv, ~b.started
  PROVE  /\ LineEdge(b) <=> (OnLine /\ Bit = 0 /\ Elapsed = 1)
         /\ OnLine => (Bit = 0 /\ Elapsed \in 0 .. 1) \/ (a.txState = EndBit /\ Elapsed >= 2)
         /\ ~Sampling(b) /\ ~Ending(b) /\ b.rxState = Idle
<1>1. /\ b.rxState = Idle
      /\ ~OnLine \/ (Bit = 0 /\ Elapsed <= 1) \/ (Bit = NBits + 1 /\ Elapsed >= 2)
  BY DEF ReceiverInv
<1>2. NBits \in 1 .. 15 BY Divisions
<1>3. OnLine => Elapsed \in 0 .. a.div /\ a.div \in Nat /\ (Bit = NBits + 1 => a.txState = EndBit)
  BY ElapsedIn, Divisions
<1>4. ~OnLine => b.rx = 1 BY DEF WireInv
<1>5. OnLine /\ Bit = NBits + 1 => b.rx = 1
  BY <1>1, <1>2, <1>3 DEF WireInv, Level
<1>6. OnLine /\ Bit = 0 => b.rx = IF Elapsed >= 1 THEN 0 ELSE 1
  BY <1>3 DEF WireInv, Level, Before
<1>7. OnLine /\ Bit = 0 => b.rxp = IF Elapsed >= 2 THEN 0 ELSE 1
  BY <1>3 DEF WireInv, Level, Before
<1>8. LineEdge(b) <=> (b.rx = 0 /\ b.rxp = 1) BY <1>1 DEF LineEdge
<1>9. LineEdge(b) <=> (OnLine /\ Bit = 0 /\ Elapsed = 1)
  BY <1>1, <1>2, <1>3, <1>4, <1>5, <1>6, <1>7, <1>8
<1>10. ~Sampling(b) /\ ~Ending(b) BY DEF Sampling, Ending
<1> QED BY <1>1, <1>3, <1>9, <1>10

LEMMA Ends ==
  ASSUME Matched, SenderInv, QueueInv, WireInv, ReceiverInv, b.started, b.rxState = EndBit
  PROVE  /\ Ending(b) /\ OnLine /\ a.txState = EndBit /\ ~LineEdge(b)
         /\ Elapsed \in 3 .. a.div - 1 /\ Around(b.div, a.div, NBits, Elapsed - 1)
         /\ b.rxByte = Cur /\ Carrying
<1>1. OnLine /\ Received BY DEF ReceiverInv
<1>2. Ending(b) BY <1>1 DEF Ending, Sampling, Received
<1>3. Carrying BY <1>1 DEF Carrying, Received, SenderInv
<1>4. /\ a.div \in Nat /\ NBits \in 1 .. 15 /\ NBits \in 0 .. NBits + 1 /\ Close(b.div, a.div)
      /\ Elapsed \in Int
  BY <1>1, Divisions, ElapsedIn DEF ReceiverInv
<1>5. Elapsed - 1 \in 2 .. a.div - 2 BY <1>1, <1>4, AroundBounded DEF Received
<1>6. Elapsed \in 3 .. a.div - 1 BY <1>4, <1>5
<1>7. Bit = NBits + 1 /\ Level(Cur, Bit) = 1
  <2>1. Bit = NBits + 1 BY <1>1 DEF Received, Bit
  <2> QED BY <1>4, <2>1 DEF Level
<1>8. b.rx = 1 /\ b.rxp = 1 BY <1>1, <1>6, <1>7 DEF WireInv
<1>9. ~LineEdge(b) BY <1>8 DEF LineEdge, Idle, EndBit
<1> QED BY <1>1, <1>2, <1>3, <1>6, <1>9 DEF Received

LEMMA Looks ==
  ASSUME Matched, SenderInv, QueueInv, WireInv, ReceiverInv, b.started, b.rxState # EndBit
  PROVE  /\ OnLine /\ Receiving /\ Carrying /\ ~Ending(b)
         /\ Looked \in 0 .. NBits + 1 /\ Elapsed \in 0 .. a.div /\ Bit \in 0 .. NBits + 1
         /\ Where \in 2 .. a.div - 2
         /\ Cur \in [Bits -> {0, 1}] /\ b.rxCnt \in Nat
         /\ LineEdge(b) => /\ Looked = Bit /\ Bit > 0 /\ Elapsed = 1 /\ ~Sampling(b)
         /\ Looked = Bit /\ Bit > 0 /\ Elapsed = 1 /\ Level(Cur, Bit) = 1 /\ Before(Cur, Bit) = 0
              => LineEdge(b)
         /\ Sampling(b) => Looked = Bit /\ Where = Elapsed /\ b.rxp = Level(Cur, Bit)
         /\ Elapsed = a.div => Looked = Bit + 1
         /\ Looked = Bit + 1 => b.rxCnt > 0
<1>1. OnLine /\ Receiving /\ ~Ending(b) BY DEF ReceiverInv, Ending
<1>2. Carrying BY <1>1 DEF Carrying, SenderInv
<1>3. Cur \in [Bits -> {0, 1}] BY <1>2, CurIn
<1>4. /\ a.div \in Nat /\ NBits \in 1 .. 15 /\ Close(b.div, a.div) /\ a.div >= 4
      /\ Elapsed \in 0 .. a.div /\ Bit \in 0 .. NBits + 1
  BY <1>1, Divisions, ElapsedIn DEF ReceiverInv
<1>5. /\ b.rxCnt \in Nat /\ Looked \in 0 .. NBits + 1
      /\ Looked = 0 <=> b.rxState = Idle
  BY <1>4 DEF ReceiverInv, Looked, Idle, EndBit
<1>6. Since(Cur, Looked) \in 0 .. NBits + 1
  <2>1. Since(Cur, 0) = 0 BY <1>3, <1>4, SinceSteps
  <2>2. Looked \in 1 .. NBits => Since(Cur, Looked) \in 0 .. Looked BY <1>3, <1>4, SinceSteps
  <2>3. Since(Cur, NBits + 1) \in NBits .. NBits + 1 BY <1>3, <1>4, SinceSteps
  <2> QED BY <1>4, <1>5, <2>1, <2>2, <2>3
<1>7. Where \in 2 .. a.div - 2 BY <1>1, <1>4, <1>6, AroundBounded DEF Receiving
<1>8. Looked = Bit \/ (Looked = Bit + 1 /\ Elapsed >= 3) BY <1>1 DEF Receiving
<1>9. Where = IF Bit = Looked THEN Elapsed + b.rxCnt ELSE Elapsed + b.rxCnt - (a.div + 1)
  BY DEF Where
<1>10. Elapsed = a.div => Looked = Bit + 1 BY <1>4, <1>5, <1>7, <1>8, <1>9
<1>11. Looked = Bit + 1 => b.rxCnt > 0 BY <1>4, <1>5, <1>7, <1>9
<1>12. /\ b.rx = IF Elapsed >= 1 THEN Level(Cur, Bit) ELSE Before(Cur, Bit)
       /\ b.rxp = IF Elapsed >= 2 THEN Level(Cur, Bit) ELSE Before(Cur, Bit)
  BY <1>1 DEF WireInv
<1>13. Sampling(b) => Looked = Bit /\ Where = Elapsed /\ b.rxp = Level(Cur, Bit)
  <2>1. Sampling(b) => b.rxCnt = 0 BY DEF Sampling
  <2> QED BY <1>4, <1>5, <1>7, <1>8, <1>9, <1>11, <1>12, <2>1
<1>14. Level(Cur, Bit) \in {0, 1} /\ Before(Cur, Bit) \in {0, 1} BY <1>3, <1>4, LevelIn
<1>15. LineEdge(b) <=> IF Looked = 0 THEN b.rx = 0 /\ b.rxp = 1 ELSE b.rx = 1 /\ b.rxp = 0
  BY <1>5 DEF LineEdge
<1>16. Looked = 0 => Bit = 0 /\ Elapsed >= 2
  BY <1>1, <1>4, <1>8 DEF Receiving
<1>17. LineEdge(b) => Elapsed = 1 /\ Looked # 0
  BY <1>4, <1>12, <1>14, <1>15, <1>16
<1>18. LineEdge(b) => Looked = Bit /\ Bit > 0 /\ Elapsed = 1 /\ ~Sampling(b)
  BY <1>4, <1>7, <1>8, <1>13, <1>17
<1>19. Looked = Bit /\ Bit > 0 /\ Elapsed = 1 /\ Level(Cur, Bit) = 1 /\ Before(Cur, Bit) = 0
              => LineEdge(b)
  BY <1>12, <1>15
<1> QED BY <1>1, <1>2, <1>3, <1>4, <1>5, <1>7, <1>10, <1>11, <1>13, <1>18, <1>19

(* What b does.                                                            *)
Continues ==
  /\ b'.started /\ b'.div = b.div
  /\ ~Sampling(b) => /\ b'.rxState = b.rxState /\ b'.rxByte = b.rxByte
                     /\ b'.rxCnt = IF LineEdge(b) THEN b.div \div 2 ELSE b.rxCnt - 1
                     /\ b.rxCnt > 0
  /\ Sampling(b) =>
       /\ b.rxState = Idle => b'.rxState = 0 /\ b'.rxByte = b.rxByte /\ b'.rxCnt = b.div
       /\ b.rxState \in 0 .. NBits - 1 =>
            /\ b'.rxState = b.rxState + 1 /\ b'.rxByte = Shifted(b.rxByte, b.rxp)
            /\ b'.rxCnt = b.div
       /\ b.rxState = NBits => b'.rxState = EndBit /\ b'.rxByte = b.rxByte /\ b'.rxCnt = 0

Completes ==
  /\ ~b'.started /\ b'.rxState = Idle /\ b'.rxCnt = 0
  /\ b'.ended /\ b'.rxReady /\ b'.en
  /\ b'.data = b.rxByte /\ b'.rxByte = b.rxByte
  /\ b'.rts = IF req THEN 0 ELSE 1

Stays(write, boot) ==
  /\ b'.data = b.data
  /\ b'.ended = IF LineEdge(b) THEN FALSE ELSE IF write = "rx" THEN FALSE ELSE b.ended
  /\ b'.rxReady = IF write = "rx" THEN FALSE ELSE b.rxReady
  /\ b'.en = IF grant \/ write # "none" \/ (boot /\ ~b.boot) THEN FALSE ELSE b.en
  /\ b'.rts = IF b.ended THEN IF b.dmaReq /\ req THEN 0 ELSE 1
              ELSE IF write = "rx" THEN 0 ELSE b.rts

LEMMA ReceiverMoves ==
  ASSUME Matched, SenderInv, QueueInv, WireInv, ReceiverInv,
         NEW s, NEW write, NEW boot, NEW byte, LinkEdge(s, write, boot, byte)
  PROVE  /\ Fields \subseteq DOMAIN b' /\ b'.get = TRUE /\ b'.send = FALSE
         /\ b'.rx = a.tx /\ b'.rxp = b.rx
         /\ b'.div = IF write = "rx" THEN Div ELSE b.div
         /\ b.started \/ LineEdge(b) => write = "none"
         /\ b'.irq = Ending(b)
         /\ b'.dmaReq = IF LineEdge(b) THEN req ELSE b.dmaReq
         /\ Ending(b) => b.started /\ b.rxState = EndBit /\ Completes
         /\ ~Ending(b) => Stays(write, boot)
         /\ ~b.started /\ LineEdge(b) =>
              /\ b'.started /\ b'.rxState = Idle /\ b'.rxByte = b.rxByte
              /\ b'.rxCnt = b.div \div 2
         /\ ~b.started /\ ~LineEdge(b) =>
              /\ ~b'.started /\ b'.rxState = Idle /\ b'.rxByte = b.rxByte
              /\ b'.rxCnt = 0
         /\ b.started /\ b.rxState # EndBit => Continues
<1> DEFINE p == PortsOfB(write, boot)
<1>1. b' = UartEdge(b, p) BY DEF LinkEdge, Edge
<1>2. /\ p.write = write /\ p.div = Div /\ p.cancel = FALSE /\ p.boot = boot /\ p.en = FALSE
      /\ p.req = req /\ p.grant = grant /\ p.rx = a.tx
  BY DEF PortsOfB
<1> HIDE DEF p
<1>3. NBits \in 1 .. 15 /\ CntMod \in Nat BY Divisions
<1>4. /\ Receives(b, p) /\ b.rxCnt \in Nat
      /\ b.rxState \in (0 .. NBits) \cup {EndBit, Idle}
  BY <1>2 DEF Receives, ReceiverInv, LinkEdge
<1>5. RxBecomes(b, p, b') BY <1>1, <1>3, <1>4, ReceiverEdge
<1>6. b.started \/ LineEdge(b) => write = "none" BY DEF LinkEdge
<1>7. Ending(b) => b.started /\ b.rxState = EndBit /\ Completes
  <2>1. Ending(b) => b.started /\ b.rxState = EndBit BY DEF Ending, Sampling
  <2> QED BY <1>2, <1>5, <2>1 DEF RxBecomes, Completes
<1>8. ~Ending(b) => Stays(write, boot)
  BY <1>2, <1>5 DEF RxBecomes, Stays
<1>9. b'.irq = Ending(b)
  <2>1. Ending(b) \in BOOLEAN BY DEF Ending, Sampling
  <2>2. Ending(b) => b'.irq = TRUE BY <1>5 DEF RxBecomes
  <2>3. ~Ending(b) => b'.irq = FALSE BY <1>5 DEF RxBecomes
  <2> QED BY <2>1, <2>2, <2>3
<1>10. ~b.started /\ LineEdge(b) =>
              /\ b'.started /\ b'.rxState = Idle /\ b'.rxByte = b.rxByte
              /\ b'.rxCnt = b.div \div 2
  <2> HAVE ~b.started /\ LineEdge(b)
  <2>1. ~Sampling(b) /\ ~Ending(b) /\ b.rxState = Idle BY Idles
  <2>2. b'.started BY <1>5, <2>1 DEF RxBecomes
  <2> QED BY <1>2, <1>5, <1>6, <2>1, <2>2 DEF RxBecomes
<1>11. ~b.started /\ ~LineEdge(b) =>
              /\ ~b'.started /\ b'.rxState = Idle /\ b'.rxByte = b.rxByte
              /\ b'.rxCnt = 0
  <2> HAVE ~b.started /\ ~LineEdge(b)
  <2>1. ~Sampling(b) /\ ~Ending(b) /\ b.rxState = Idle BY Idles
  <2>2. ~b'.started BY <1>5, <2>1 DEF RxBecomes
  <2> QED BY <1>2, <1>5, <1>6, <2>1, <2>2 DEF RxBecomes
<1>12. b.started /\ b.rxState # EndBit => Continues
  <2> HAVE b.started /\ b.rxState # EndBit
  <2>1. ~Ending(b) /\ p.write = "none" /\ p.write # "rx" BY <1>2, <1>6 DEF Ending
  <2>2. b'.started /\ b'.div = b.div BY <1>5, <2>1 DEF RxBecomes
  <2>3. ~Sampling(b) => b.rxCnt > 0 BY <1>4 DEF Sampling
  <2>4. b.rxCnt > 0 => Down(b.rxCnt) = b.rxCnt - 1 BY <1>4 DEF Down
  <2>5. ~Sampling(b) => /\ b'.rxState = b.rxState /\ b'.rxByte = b.rxByte
                        /\ b'.rxCnt = IF LineEdge(b) THEN b.div \div 2 ELSE b.rxCnt - 1
    BY <1>5, <2>1, <2>2, <2>3, <2>4 DEF RxBecomes
  <2>6. Sampling(b) =>
       /\ b.rxState = Idle => b'.rxState = 0 /\ b'.rxByte = b.rxByte
       /\ b.rxState \in 0 .. NBits - 1 =>
            /\ b'.rxState = b.rxState + 1 /\ b'.rxByte = Shifted(b.rxByte, b.rxp)
       /\ b.rxState = NBits => b'.rxState = EndBit /\ b'.rxByte = b.rxByte
       /\ b'.rxCnt = IF b.rxState = NBits THEN 0 ELSE b.div
    BY <1>5, <2>1, <2>2 DEF RxBecomes
  <2>7. Idle # NBits /\ \A k \in 0 .. NBits - 1 : k # NBits BY <1>3 DEF Idle
  <2> QED BY <2>2, <2>3, <2>5, <2>6, <2>7 DEF Continues
<1>13. /\ Fields \subseteq DOMAIN b' /\ b'.get = TRUE /\ b'.send = FALSE
       /\ b'.rx = a.tx /\ b'.rxp = b.rx
       /\ b'.div = IF write = "rx" THEN Div ELSE b.div
       /\ b'.dmaReq = IF LineEdge(b) THEN req ELSE b.dmaReq
  BY <1>2, <1>5 DEF RxBecomes
<1> QED BY <1>6, <1>7, <1>8, <1>9, <1>10, <1>11, <1>12, <1>13

-----------------------------------------------------------------------------
(* Who has the byte that is under way.                                     *)
LEMMA CarryingMoves ==
  ASSUME Matched, SenderInv, QueueInv, WireInv, ReceiverInv,
         NEW s, NEW write, NEW boot, NEW byte, LinkEdge(s, write, boot, byte)
  PROVE  /\ Rests(s) => ~Carrying /\ ~Carrying'
         /\ Takes(s) => ~Carrying /\ Carrying'
         /\ Waits(s) \/ Starts(s) => Carrying /\ Carrying'
         /\ GoesOn(s) => (Carrying' <=> Carrying /\ ~Ending(b))
         /\ GoesUp(s) => Carrying /\ Carrying' /\ b.started /\ b.rxState # EndBit
         /\ Finishes(s) => ~b.started /\ ~Carrying /\ ~Carrying'
         /\ Ending(b) => GoesOn(s) /\ Carrying
<1>0. NBits \in 1 .. 15 /\ a.div \in Nat /\ a.div >= 4 BY Divisions
<1>1. Rests(s) => ~Carrying /\ ~Carrying' BY DEF Rests, Carrying
<1>2. Takes(s) => ~Carrying /\ Carrying' BY DEF Takes, Carrying, OnLine, Idle, EndBit
<1>3. Waits(s) => Carrying /\ Carrying'
  BY DEF Waits, Busy, Sending, Carrying, OnLine, Idle, EndBit
<1>4. Starts(s) => Carrying /\ Carrying'
  BY DEF Starts, Busy, Sending, Carrying, OnLine, Idle, EndBit
<1>5. GoesOn(s) => (Carrying' <=> Carrying /\ ~Ending(b))
  <2> HAVE GoesOn(s)
  <2>1. a.send /\ a'.send /\ a'.txState = a.txState BY DEF GoesOn, Busy, Sending
  <2>2. Carrying' <=> ~(a.txState = EndBit /\ ~b'.started) BY <2>1 DEF Carrying
  <2>3. Carrying <=> ~(a.txState = EndBit /\ ~b.started) BY <2>1 DEF Carrying
  <2>4. CASE ~b.started
    <3>1. ~Ending(b) BY <2>4, Idles
    <3>2. a.txState = EndBit => ~LineEdge(b)
      <4>1. LineEdge(b) => OnLine /\ Bit = 0 BY <2>4, Idles
      <4>2. a.txState = EndBit => Bit # 0 BY <1>0 DEF Bit
      <4> QED BY <4>1, <4>2
    <3>3. a.txState = EndBit => ~b'.started BY <2>4, <3>2, ReceiverMoves
    <3> QED BY <2>2, <2>3, <2>4, <3>1, <3>3
  <2>5. CASE b.started /\ b.rxState = EndBit
    <3>1. Ending(b) /\ a.txState = EndBit BY <2>5, Ends
    <3>2. ~b'.started BY <3>1, ReceiverMoves DEF Completes
    <3> QED BY <2>2, <3>1, <3>2
  <2>6. CASE b.started /\ b.rxState # EndBit
    <3>1. ~Ending(b) BY <2>6 DEF Ending
    <3>2. b'.started BY <2>6, ReceiverMoves DEF Continues
    <3> QED BY <2>2, <2>3, <2>6, <3>1, <3>2
  <2> QED BY <2>4, <2>5, <2>6
<1>6. GoesUp(s) => Carrying /\ Carrying' /\ b.started /\ b.rxState # EndBit
  <2> HAVE GoesUp(s)
  <2>1. a.send /\ a'.send /\ OnLine /\ a.txState # EndBit /\ Elapsed = a.div
    BY DEF GoesUp, Busy, Sending
  <2>2. b.started
    <3>1. Elapsed >= 4 BY <1>0, <2>1
    <3>2. ~(Elapsed \in 0 .. 1) BY <1>0, <2>1
    <3> QED BY <2>1, <3>2, Idles DEF ReceiverInv
  <2>3. b.rxState # EndBit BY <2>1, <2>2, Ends
  <2>4. b'.started BY <2>2, <2>3, ReceiverMoves DEF Continues
  <2> QED BY <2>1, <2>2, <2>3, <2>4 DEF Carrying
<1>7. Finishes(s) => ~b.started /\ ~Carrying /\ ~Carrying'
  <2> HAVE Finishes(s)
  <2>1. a.txState = EndBit /\ OnLine /\ Bit = NBits + 1 /\ Elapsed = a.div /\ ~a'.send
    BY DEF Finishes
  <2>2. ~(b.started /\ b.rxState = EndBit)
    <3>1. ~(Elapsed \in 3 .. a.div - 1) BY <1>0, <2>1
    <3> QED BY <3>1, Ends
  <2>3. ~(b.started /\ b.rxState # EndBit)
    <3>1. ~(Bit + 1 \in 0 .. NBits + 1) BY <1>0, <2>1
    <3> QED BY <2>1, <3>1, Looks
  <2>4. ~b.started BY <2>2, <2>3 DEF ReceiverInv
  <2> QED BY <2>1, <2>4 DEF Carrying
<1>8. Ending(b) => GoesOn(s) /\ Carrying
  <2> HAVE Ending(b)
  <2>1. b.started /\ b.rxState = EndBit BY DEF Ending, Sampling
  <2>2. OnLine /\ a.txState = EndBit /\ Carrying /\ Elapsed \in 3 .. a.div - 1
    BY <2>1, Ends
  <2>3. a.send /\ Elapsed # a.div BY <1>0, <2>2 DEF Carrying
  <2>4. Moves(s) BY SenderMoves
  <2> QED BY <2>2, <2>3, <2>4
       DEF Moves, Rests, Takes, Waits, Starts, GoesUp, Finishes
<1> QED BY <1>1, <1>2, <1>3, <1>4, <1>5, <1>6, <1>7, <1>8

LEMMA QueueMoves ==
  ASSUME Matched, SenderInv, QueueInv, WireInv, ReceiverInv,
         NEW s, NEW write, NEW boot, NEW byte, LinkEdge(s, write, boot, byte)
  PROVE  /\ QueueInv'
         /\ fresh' \in BOOLEAN
         /\ Ending(b) => fresh' /\ ~fresh /\ queue'[1] = Cur
         /\ ~Ending(b) => (fresh' => fresh /\ queue'[1] = queue[1]) /\ (byte # NoByte => ~fresh')
         /\ (Carrying /\ ~Ending(b)) \/ give.en => Cur' = Cur
         /\ s.write = "tx" => Cur' = s.byte
         /\ ~Ending(b) => fresh' = (fresh /\ byte = NoByte /\ ~(write = "rx" \/ boot))
<1> DEFINE B == [Bits -> {0, 1}]
           discards == fresh /\ byte = NoByte /\ (write = "rx" \/ boot)
           pops == byte # NoByte \/ discards
           rest == IF pops THEN Behind(queue) ELSE queue
           new == IF s.write = "none" THEN <<>> ELSE <<s.byte>>
<1>1. /\ queue' = rest \o new
      /\ fresh' = (Ending(b) \/ (fresh /\ byte = NoByte /\ ~discards))
      /\ give' = [en |-> s.write = "dma", data |-> IF s.write = "dma" THEN s.byte ELSE Zero]
  BY ReceiverMoves DEF LinkEdge, Edge
<1>2. /\ fresh \in BOOLEAN /\ queue \in Seq(B)
      /\ Len(queue) = (IF fresh THEN 1 ELSE 0) + (IF Carrying \/ give.en THEN 1 ELSE 0)
  BY DEF QueueInv
<1>3. byte # NoByte => fresh BY DEF LinkEdge
<1>4. Ending(b) \in BOOLEAN /\ (Ending(b) => ~fresh) BY DEF LinkEdge, Ending, Sampling
<1>5. pops => fresh /\ ~Ending(b) BY <1>3, <1>4
<1>6. /\ s.write \in {"none", "dma", "tx"}
      /\ s.write = "dma" => ~a.send /\ ~give.en /\ s.byte \in Bytes
      /\ s.write = "tx" => ~a.send /\ ~give.en /\ s.byte \in Bytes
  BY SendsAre DEF LinkEdge
<1>7. new \in Seq(B) /\ Len(new) = (IF s.write = "none" THEN 0 ELSE 1)
  <2>1. s.write # "none" => s.byte \in B BY <1>6 DEF Matched
  <2> HIDE DEF B
  <2>2. CASE s.write = "none" BY <2>2
  <2>3. CASE s.write # "none"
    <3>1. new = <<s.byte>> BY <2>3
    <3>2. <<s.byte>> \in Seq(B) /\ Len(<<s.byte>>) = 1 BY <2>1, <2>3
    <3> QED BY <2>3, <3>1, <3>2
  <2> QED BY <2>2, <2>3
<1>8. fresh' = (Ending(b) \/ (fresh /\ ~pops)) BY <1>1, <1>2, <1>4
<1>9. /\ rest \in Seq(B)
      /\ pops => /\ Len(rest) = Len(queue) - 1
                 /\ \A i \in 1 .. Len(rest) : rest[i] = queue[i + 1]
      /\ ~pops => rest = queue
  <2>1. pops => Len(queue) > 0 /\ queue # <<>> BY <1>2, <1>5
  <2>2. pops => rest = Tail(queue) BY <2>1 DEF Behind
  <2> QED BY <1>2, <2>1, <2>2
<1>10. s.write # "none" => ~Carrying /\ ~give.en BY <1>6 DEF Carrying
<1> HIDE DEF rest, new, pops, B
<1>11. /\ queue' \in Seq(B) /\ Len(queue') = Len(rest) + Len(new)
       /\ \A i \in 1 .. Len(rest) : queue'[i] = rest[i]
       /\ s.write = "none" => queue' = rest
       /\ s.write # "none" => queue'[Len(rest) + 1] = s.byte
  <2>1. s.write = "none" => new = <<>> BY DEF new
  <2>2. s.write # "none" => new = <<s.byte>> BY DEF new
  <2>3. queue' = rest \o new BY <1>1 DEF rest, new, pops
  <2>4. /\ rest \o new \in Seq(B) /\ Len(rest \o new) = Len(rest) + Len(new)
        /\ \A i \in 1 .. Len(rest) : (rest \o new)[i] = rest[i]
    <3>1. rest \in Seq(B) /\ new \in Seq(B) BY <1>7, <1>9
    <3> QED BY <3>1
  <2>5. rest \o <<>> = rest BY <1>9
  <2>6. (rest \o <<s.byte>>)[Len(rest) + 1] = s.byte BY <1>9
  <2> QED BY <2>1, <2>2, <2>3, <2>4, <2>5, <2>6
<1>12. Len(rest) = (IF fresh /\ ~pops THEN 1 ELSE 0) + (IF Carrying \/ give.en THEN 1 ELSE 0)
  BY <1>2, <1>5, <1>9
<1>13. Ending(b) => /\ GoesOn(s) /\ Carrying /\ ~Carrying' /\ s.write = "none" /\ ~give.en
                    /\ fresh' /\ ~fresh /\ ~pops
  BY <1>4, <1>5, <1>8, CarryingMoves DEF GoesOn, Busy
<1>14. ~Ending(b) => (Carrying' <=> Carrying \/ give.en \/ s.write = "tx")
  <2>1. Moves(s) BY SenderMoves
  <2>2. CASE Rests(s) BY <2>2, CarryingMoves DEF Rests
  <2>3. CASE Takes(s) BY <2>3, CarryingMoves DEF Takes
  <2>4. CASE Waits(s) \/ Starts(s) BY <2>4, CarryingMoves
  <2>5. CASE GoesOn(s) BY <2>5, CarryingMoves DEF GoesOn, Busy
  <2>6. CASE GoesUp(s) BY <2>6, CarryingMoves
  <2>7. CASE Finishes(s) BY <2>7, CarryingMoves DEF Finishes, Busy
  <2> QED BY <2>1, <2>2, <2>3, <2>4, <2>5, <2>6, <2>7 DEF Moves
<1>15. give'.en <=> s.write = "dma" BY <1>1
<1>16. Len(queue') = (IF fresh' THEN 1 ELSE 0) + (IF Carrying' \/ give'.en THEN 1 ELSE 0)
  BY <1>2, <1>4, <1>6, <1>7, <1>8, <1>10, <1>11, <1>12, <1>13, <1>14, <1>15
<1>17. /\ Ending(b) => queue'[1] = Cur
       /\ ~Ending(b) /\ fresh' => fresh /\ queue'[1] = queue[1]
       /\ ~Ending(b) => (byte # NoByte => ~fresh')
  <2>1. Ending(b) => queue'[1] = Cur
    BY <1>2, <1>9, <1>11, <1>12, <1>13 DEF Cur
  <2>2. ~Ending(b) /\ fresh' => fresh /\ ~pops BY <1>8
  <2>3. ~Ending(b) /\ fresh' => queue'[1] = queue[1]
    BY <1>2, <1>9, <1>11, <1>12, <2>2
  <2> QED BY <1>8, <2>1, <2>2, <2>3 DEF pops
<1>18. (Carrying /\ ~Ending(b)) \/ give.en => Cur' = Cur
  <2> HAVE (Carrying /\ ~Ending(b)) \/ give.en
  <2>1. s.write = "none" /\ queue' = rest BY <1>10, <1>11
  <2>2. ~Ending(b) BY <1>13
  <2>3. fresh' <=> fresh /\ ~pops BY <1>8, <2>2
  <2>4. Len(rest) = (IF fresh /\ ~pops THEN 1 ELSE 0) + 1 BY <1>12
  <2>5. Cur' = rest[IF fresh' THEN 2 ELSE 1] BY <2>1 DEF Cur
  <2>6. CASE pops BY <1>5, <1>9, <2>3, <2>4, <2>5, <2>6 DEF Cur
  <2>7. CASE ~pops BY <1>9, <2>3, <2>5, <2>7 DEF Cur
  <2> QED BY <2>6, <2>7
<1>19. s.write # "none" => Cur' = s.byte
  <2> HAVE s.write # "none"
  <2>1. ~Ending(b) BY <1>13
  <2>2. Len(rest) = IF fresh' THEN 1 ELSE 0
    <3>1. fresh' <=> fresh /\ ~pops BY <1>8, <2>1
    <3>2. ~Carrying /\ ~give.en BY <1>10
    <3> QED BY <1>12, <3>1, <3>2
  <2> QED BY <1>11, <2>2 DEF Cur
<1>20. give'.en => Cur' = give'.data BY <1>1, <1>15, <1>19
<1>21. fresh' \in BOOLEAN BY <1>2, <1>4, <1>8
<1>22. QueueInv' BY <1>11, <1>16, <1>20, <1>21 DEF QueueInv, B
<1>23. ~Ending(b) => fresh' = (fresh /\ byte = NoByte /\ ~(write = "rx" \/ boot))
  BY <1>2, <1>4, <1>8 DEF pops
<1> QED BY <1>13, <1>17, <1>18, <1>19, <1>21, <1>22, <1>23

-----------------------------------------------------------------------------
(* Each part of the invariant is kept.                                     *)
LEMMA CurKept ==
  ASSUME Matched, SenderInv, QueueInv, WireInv, ReceiverInv,
         NEW s, NEW write, NEW boot, NEW byte, LinkEdge(s, write, boot, byte)
  PROVE  /\ Waits(s) \/ Starts(s) \/ GoesUp(s) => Cur' = Cur /\ ~Ending(b)
         /\ GoesOn(s) /\ Carrying /\ ~Ending(b) => Cur' = Cur
         /\ GoesOn(s) /\ (~Carrying \/ Ending(b)) => a.txState = EndBit /\ Elapsed >= 2
<1>1. Waits(s) \/ Starts(s) \/ GoesUp(s) => Carrying /\ ~Ending(b)
  BY CarryingMoves DEF Waits, Starts, GoesUp, GoesOn, Ending, Sampling
<1>2. Waits(s) \/ Starts(s) \/ GoesUp(s) => Cur' = Cur BY <1>1, QueueMoves
<1>3. GoesOn(s) /\ Carrying /\ ~Ending(b) => Cur' = Cur BY QueueMoves
<1>4. GoesOn(s) /\ ~Carrying => a.txState = EndBit /\ Elapsed >= 2
  <2> HAVE GoesOn(s) /\ ~Carrying
  <2>1. a.txState = EndBit /\ ~b.started /\ OnLine BY DEF Carrying, GoesOn, Busy
  <2>2. Bit # 0
    <3>1. NBits \in 1 .. 15 BY Divisions
    <3> QED BY <2>1, <3>1 DEF Bit
  <2> QED BY <2>1, <2>2, Idles
<1>5. Ending(b) => a.txState = EndBit /\ Elapsed >= 2
  <2> HAVE Ending(b)
  <2>1. b.started /\ b.rxState = EndBit BY DEF Ending, Sampling
  <2>2. a.txState = EndBit /\ Elapsed \in 3 .. a.div - 1 BY <2>1, Ends
  <2>3. a.div \in Nat BY Divisions
  <2> QED BY <2>2, <2>3
<1> QED BY <1>1, <1>2, <1>3, <1>4, <1>5

LEMMA SenderKept ==
  ASSUME Matched, SenderInv, QueueInv, WireInv, ReceiverInv,
         NEW s, NEW write, NEW boot, NEW byte, LinkEdge(s, write, boot, byte)
  PROVE  SenderInv'
<1> DEFINE B == [Bits -> {0, 1}]
<1>1. /\ Fields \subseteq DOMAIN a' /\ a'.div = a.div
      /\ a'.txCnt \in 0 .. CntMod - 1 /\ a'.txByte \in B /\ Moves(s)
  BY SenderMoves
<1>2. /\ NBits \in 1 .. 15 /\ CntMod \in Nat /\ a.div \in Nat /\ a.div < CntMod /\ a.div >= 4
      /\ Bytes \subseteq B
  BY Divisions DEF Matched
<1>3. /\ s.write \in {"none", "dma", "tx"}
      /\ s.write = "dma" => byDma /\ ~a.send /\ ~give.en /\ s.byte \in Bytes
      /\ s.write = "tx" => ~byDma /\ ~a.send /\ ~give.en /\ s.byte \in Bytes
  BY SendsAre DEF LinkEdge
<1>4. give' = [en |-> s.write = "dma", data |-> IF s.write = "dma" THEN s.byte ELSE Zero]
      /\ byDma' = byDma
  BY DEF LinkEdge, Edge
<1>5. Zero \in B BY DEF Zero
<1>6. give'.data \in B /\ (give'.en => s.write = "dma") BY <1>2, <1>3, <1>4, <1>5
<1>7. /\ a.div \in Divs /\ byDma \in BOOLEAN
      /\ a.txState \in (0 .. NBits) \cup {EndBit, Idle} /\ a.txByte \in B
      /\ OnLine => a.txCnt \in 0 .. a.div /\ a.tx = Level(Cur, Bit)
      /\ a.send /\ ~OnLine => a.txByte = Cur
      /\ OnLine /\ a.txState # EndBit =>
           \A i \in Bits : i + a.txState < NBits => a.txByte[i] = Cur[i + a.txState]
  BY DEF SenderInv
<1> DEFINE Line ==
             /\ a'.txState \in (0 .. NBits) \cup {EndBit, Idle}
             /\ ~a'.send => ~OnLine'
             /\ OnLine' => a'.txCnt \in 0 .. a'.div
             /\ a'.tx = IF OnLine' THEN Level(Cur', Bit') ELSE 1
             /\ a'.send /\ ~OnLine' => a'.txByte = Cur'
             /\ OnLine' /\ a'.txState # EndBit =>
                  \A i \in Bits : i + a'.txState < NBits => a'.txByte[i] = Cur'[i + a'.txState]
             /\ give'.en => byDma /\ ~a'.send
             /\ a'.send => IF byDma THEN ~a'.rdy ELSE ~a'.txReady
<1>8. Rests(s) => Line
  <2> HAVE Rests(s)
  <2> QED BY <1>3, <1>6 DEF Rests, OnLine
<1>9. Takes(s) => Line
  <2> HAVE Takes(s)
  <2>1. a'.txByte = Cur'
    <3>1. give.en => Cur' = give.data BY QueueMoves DEF QueueInv
    <3>2. s.write = "tx" => Cur' = s.byte BY QueueMoves
    <3> QED BY <3>1, <3>2 DEF Takes
  <2>2. s.write # "dma" BY DEF Takes
  <2> QED BY <1>6, <2>1, <2>2 DEF Takes, OnLine
<1>10. Waits(s) => Line
  <2> HAVE Waits(s)
  <2>1. a'.txByte = Cur' BY <1>7, CurKept DEF Waits, Busy
  <2> QED BY <1>6, <2>1 DEF Waits, Busy, Sending, OnLine
<1>11. Starts(s) => Line
  <2> HAVE Starts(s)
  <2>1. a'.txByte = Cur' /\ Level(Cur', Bit') = 0
    BY <1>7, CurKept DEF Starts, Busy, Level
  <2>2. \A i \in Bits : i + 0 = i BY DEF Bits
  <2>3. a'.txCnt \in 0 .. a'.div BY <1>1, <1>2 DEF Starts
  <2> QED BY <1>2, <1>6, <2>1, <2>2, <2>3 DEF Starts, Busy, Sending
<1>12. GoesOn(s) => Line
  <2> HAVE GoesOn(s)
  <2>1. Level(Cur', Bit') = a.tx
    <3>1. Bit' = Bit BY DEF GoesOn
    <3>2. a.txState = EndBit => Bit = NBits + 1 BY DEF Bit
    <3>3. Level(Cur', NBits + 1) = 1 /\ Level(Cur, NBits + 1) = 1 BY <1>2 DEF Level
    <3>4. OnLine /\ a.tx = Level(Cur, Bit) BY <1>7 DEF GoesOn
    <3> QED BY <3>1, <3>2, <3>3, <3>4, CurKept
  <2>2. a.txState # EndBit => Cur' = Cur BY CurKept
  <2>3. a'.txCnt \in 0 .. a'.div BY <1>1, <1>2, <1>7 DEF GoesOn
  <2> QED BY <1>6, <1>7, <2>1, <2>2, <2>3 DEF GoesOn, Busy, Sending
<1>13. GoesUp(s) => Line
  <2> HAVE GoesUp(s)
  <2>1. Cur' = Cur BY CurKept
  <2>2. OnLine' /\ OnLine /\ a.txState # EndBit /\ Bit' = Bit + 1 /\ Bit \in 0 .. NBits
        /\ Bit = a.txState
    BY DEF GoesUp, Bit
  <2>3. a'.txCnt \in 0 .. a'.div BY <1>1, <1>2 DEF GoesUp
  <2>4. CASE Bit = NBits
    <3>1. a'.txState = EndBit /\ a'.tx = 1 BY <2>4 DEF GoesUp
    <3>2. Level(Cur', Bit') = 1 BY <1>2, <2>2, <2>4 DEF Level
    <3> QED BY <1>6, <2>2, <2>3, <3>1, <3>2 DEF GoesUp, Busy, Sending
  <2>5. CASE Bit < NBits
    <3>1. a'.txState = Bit + 1 /\ a'.tx = a.txByte[0] /\ a'.txByte = Shifted(a.txByte, 0)
      BY <2>2, <2>5 DEF GoesUp
    <3>2. Level(Cur', Bit') = Cur[Bit] BY <2>1, <2>2, <2>5, <1>2 DEF Level
    <3>3. 0 \in Bits /\ 0 + Bit = Bit BY <1>2, <2>2 DEF Bits
    <3>4. a.txByte[0] = Cur[Bit] BY <1>7, <2>2, <2>5, <3>3
    <3>5. ASSUME NEW i \in Bits, i + a'.txState < NBits
          PROVE  a'.txByte[i] = Cur'[i + a'.txState]
      <4>0. i + (Bit + 1) < NBits BY <3>1, <3>5
      <4>1. i + 1 \in Bits /\ i # NBits - 1 BY <1>2, <2>2, <4>0 DEF Bits
      <4>2. a'.txByte[i] = a.txByte[i + 1] BY <3>1, <4>1 DEF Shifted
      <4>3. (i + 1) + Bit = i + (Bit + 1) /\ (i + 1) + Bit < NBits
        BY <1>2, <2>2, <4>0 DEF Bits
      <4>4. a.txByte[i + 1] = Cur[(i + 1) + Bit] BY <1>7, <2>2, <4>1, <4>3
      <4> QED BY <2>1, <3>1, <4>2, <4>3, <4>4
    <3>6. a'.txState \in 0 .. NBits BY <1>2, <2>2, <2>5, <3>1
    <3> QED BY <1>6, <2>2, <2>3, <3>1, <3>2, <3>4, <3>5, <3>6
         DEF GoesUp, Busy, Sending
  <2> QED BY <1>2, <2>2, <2>4, <2>5
<1>14. Finishes(s) => Line
  <2> HAVE Finishes(s)
  <2> QED BY <1>6 DEF Finishes, Busy, OnLine
<1>15. Line
  <2> HIDE DEF Line
  <2> QED BY <1>1, <1>8, <1>9, <1>10, <1>11, <1>12, <1>13, <1>14 DEF Moves
<1> QED BY <1>1, <1>4, <1>6, <1>7, <1>15 DEF SenderInv

LEMMA WireKept ==
  ASSUME Matched, SenderInv, QueueInv, WireInv, ReceiverInv,
         NEW s, NEW write, NEW boot, NEW byte, LinkEdge(s, write, boot, byte)
  PROVE  WireInv'
<1> DEFINE Wire ==
             /\ b'.rx = IF ~OnLine' THEN 1
                        ELSE IF Elapsed' >= 1 THEN Level(Cur', Bit') ELSE Before(Cur', Bit')
             /\ b'.rxp = IF ~OnLine' THEN 1
                         ELSE IF Elapsed' >= 2 THEN Level(Cur', Bit') ELSE Before(Cur', Bit')
<1>1. b'.rx = a.tx /\ b'.rxp = b.rx BY ReceiverMoves
<1>2. NBits \in 1 .. 15 /\ a.div \in Nat /\ a.div >= 4 BY Divisions
<1>3. /\ a.tx = IF OnLine THEN Level(Cur, Bit) ELSE 1
      /\ b.rx = IF ~OnLine THEN 1 ELSE IF Elapsed >= 1 THEN Level(Cur, Bit) ELSE Before(Cur, Bit)
  BY DEF SenderInv, WireInv
<1>4. OnLine => Elapsed \in 0 .. a.div /\ Bit \in 0 .. NBits + 1 BY ElapsedIn
<1>5. Level(Cur, NBits + 1) = 1 /\ Level(Cur', NBits + 1) = 1 BY <1>2 DEF Level
<1>6. a.txState = EndBit => Bit = NBits + 1 BY DEF Bit
<1>7. Rests(s) \/ Takes(s) \/ Waits(s) => Wire
  BY <1>1, <1>3 DEF Rests, Takes, Waits
<1>8. Starts(s) => Wire
  <2> HAVE Starts(s)
  <2>1. ~OnLine /\ Bit' = 0 /\ Elapsed' = 0 BY DEF Starts
  <2>2. Before(Cur', Bit') = 1 BY <2>1 DEF Before
  <2> QED BY <1>1, <1>3, <2>1, <2>2
<1>9. GoesOn(s) => Wire
  <2> HAVE GoesOn(s)
  <2>1. OnLine /\ OnLine' /\ Bit' = Bit /\ Elapsed' = Elapsed + 1 BY DEF GoesOn
  <2>2. Cur' = Cur \/ (a.txState = EndBit /\ Elapsed >= 2) BY CurKept
  <2>3. Level(Cur', Bit') = Level(Cur, Bit) BY <1>5, <1>6, <2>1, <2>2
  <2>4. Elapsed >= 2 \/ Before(Cur', Bit') = Before(Cur, Bit) BY <2>1, <2>2
  <2> QED BY <1>1, <1>3, <1>4, <2>1, <2>3, <2>4
<1>10. GoesUp(s) => Wire
  <2> HAVE GoesUp(s)
  <2>1. /\ OnLine /\ OnLine' /\ Bit' = Bit + 1 /\ Elapsed' = 0 /\ Elapsed = a.div
        /\ Cur' = Cur
    BY CurKept DEF GoesUp
  <2>2. Before(Cur', Bit') = Level(Cur, Bit) BY <1>4, <2>1 DEF Before
  <2> QED BY <1>1, <1>2, <1>3, <2>1, <2>2
<1>11. Finishes(s) => Wire
  <2> HAVE Finishes(s)
  <2>1. ~OnLine' /\ OnLine /\ Bit = NBits + 1 /\ Elapsed = a.div BY DEF Finishes
  <2> QED BY <1>1, <1>2, <1>3, <1>5, <2>1
<1>12. Wire
  <2>1. Moves(s) BY SenderMoves
  <2> HIDE DEF Wire
  <2> QED BY <1>7, <1>8, <1>9, <1>10, <1>11, <2>1 DEF Moves
<1> QED BY <1>12 DEF WireInv

LEMMA ReceiverIdles ==
  ASSUME Matched, SenderInv, QueueInv, WireInv, ReceiverInv,
         NEW s, NEW write, NEW boot, NEW byte, LinkEdge(s, write, boot, byte), ~b.started
  PROVE  ReceiverInv'
<1>1. /\ NBits \in 1 .. 15 /\ a.div \in Nat /\ a.div >= 4 /\ b.div \in Nat
      /\ b.div \in {Div, ResetDiv} /\ a'.div = a.div
  BY Divisions, SenderMoves DEF ReceiverInv
<1>2. /\ Fields \subseteq DOMAIN b' /\ b'.get = TRUE /\ b'.send = FALSE
      /\ b'.div = IF write = "rx" THEN Div ELSE b.div
      /\ LineEdge(b) => write = "none"
      /\ Stays(write, boot)
      /\ LineEdge(b) =>
           /\ b'.started /\ b'.rxState = Idle /\ b'.rxByte = b.rxByte
           /\ b'.rxCnt = b.div \div 2
      /\ ~LineEdge(b) =>
           /\ ~b'.started /\ b'.rxState = Idle /\ b'.rxByte = b.rxByte
           /\ b'.rxCnt = 0
  BY ReceiverMoves, Idles
<1>3. /\ LineEdge(b) <=> (OnLine /\ Bit = 0 /\ Elapsed = 1)
      /\ OnLine => (Bit = 0 /\ Elapsed \in 0 .. 1) \/ (a.txState = EndBit /\ Elapsed >= 2)
  BY Idles
<1>4. Moves(s) BY SenderMoves
<1>5. OnLine => Elapsed \in 0 .. a.div BY ElapsedIn
<1>6. a.txState = EndBit => Bit = NBits + 1 BY DEF Bit
<1>7. b'.rxByte \in [Bits -> {0, 1}] /\ b'.data \in [Bits -> {0, 1}] /\ b'.div \in {Div, ResetDiv}
  BY <1>1, <1>2 DEF ReceiverInv, Stays
<1>8. b.div \div 2 \in Nat /\ Middle(b.div) = 2 + b.div \div 2 BY <1>1, MiddleInt
<1>9. CASE LineEdge(b)
  <2>1. GoesOn(s)
    <3>1. OnLine /\ Elapsed # a.div BY <1>1, <1>3, <1>9
    <3> QED BY <1>4, <3>1 DEF Moves, Rests, Takes, Waits, Starts, GoesUp, Finishes
  <2>2. OnLine' /\ Bit' = 0 /\ Elapsed' = 2 BY <1>3, <1>9, <2>1 DEF GoesOn
  <2>3. Looked' = 0 BY <1>2, <1>9 DEF Looked
  <2>4. Where' = Middle(b.div) BY <1>2, <1>8, <1>9, <2>2, <2>3 DEF Where
  <2>5. Since(Cur', 0) = 0 BY DEF Since, Rose
  <2>6. Around(b'.div, a'.div, Since(Cur', Looked'), Where')
    <3>1. b'.div = b.div BY <1>2, <1>9
    <3>2. Around(b.div, a.div, 0, Middle(b.div)) BY <1>1, AroundMiddle
    <3> QED BY <1>1, <2>3, <2>4, <2>5, <3>1, <3>2
  <2>7. \A i \in Bits : ~(i + Looked' > NBits) BY <1>1, <2>3 DEF Bits
  <2>8. Receiving' BY <2>2, <2>3, <2>6, <2>7 DEF Receiving
  <2>9. b'.rxState # EndBit BY <1>2, <1>9 DEF Idle, EndBit
  <2> QED BY <1>2, <1>7, <1>8, <1>9, <2>2, <2>8, <2>9 DEF ReceiverInv
<1>10. CASE ~LineEdge(b)
  <2> DEFINE Between == ~OnLine' \/ (Bit' = 0 /\ Elapsed' <= 1) \/ (Bit' = NBits + 1 /\ Elapsed' >= 2)
  <2>1. Rests(s) \/ Takes(s) \/ Waits(s) \/ Finishes(s) => Between
    BY DEF Rests, Takes, Waits, Finishes
  <2>2. Starts(s) => Between BY DEF Starts
  <2>3. GoesOn(s) => Between BY <1>1, <1>3, <1>5, <1>6, <1>10 DEF GoesOn
  <2>4. ~GoesUp(s) BY CarryingMoves
  <2>5. Between
    <3> HIDE DEF Between
    <3> QED BY <1>4, <2>1, <2>2, <2>3, <2>4 DEF Moves
  <2> QED BY <1>2, <1>7, <1>10, <2>5 DEF ReceiverInv
<1> QED BY <1>9, <1>10

LEMMA ReceiverEnds ==
  ASSUME Matched, SenderInv, QueueInv, WireInv, ReceiverInv,
         NEW s, NEW write, NEW boot, NEW byte, LinkEdge(s, write, boot, byte),
         b.started, b.rxState = EndBit
  PROVE  ReceiverInv'
<1>1. /\ Ending(b) /\ a.txState = EndBit /\ Elapsed \in 3 .. a.div - 1 /\ a.div \in Nat
  BY Ends, Divisions
<1>2. GoesOn(s) BY <1>1, CarryingMoves
<1>3. Bit' = NBits + 1 /\ Elapsed' >= 2 BY <1>1, <1>2 DEF GoesOn, Bit
<1>4. /\ Fields \subseteq DOMAIN b' /\ b'.get = TRUE /\ b'.send = FALSE /\ b'.div = b.div
      /\ Completes
  BY <1>1, ReceiverMoves
<1> QED BY <1>3, <1>4 DEF ReceiverInv, Completes

LEMMA ReceiverGoesOn ==
  ASSUME Matched, SenderInv, QueueInv, WireInv, ReceiverInv,
         NEW s, NEW write, NEW boot, NEW byte, LinkEdge(s, write, boot, byte),
         b.started, b.rxState # EndBit
  PROVE  ReceiverInv'
<1>1. /\ NBits \in 1 .. 15 /\ a.div \in Nat /\ a.div >= 4 /\ b.div \in Nat
      /\ b.div \in {Div, ResetDiv} /\ a'.div = a.div
  BY Divisions, SenderMoves DEF ReceiverInv
<1>2. /\ OnLine /\ Receiving /\ Carrying /\ ~Ending(b)
      /\ Looked \in 0 .. NBits + 1 /\ Elapsed \in 0 .. a.div /\ Bit \in 0 .. NBits + 1
      /\ Where \in 2 .. a.div - 2
      /\ Cur \in [Bits -> {0, 1}] /\ b.rxCnt \in Nat
      /\ LineEdge(b) => /\ Looked = Bit /\ Bit > 0 /\ Elapsed = 1 /\ ~Sampling(b)
      /\ Looked = Bit /\ Bit > 0 /\ Elapsed = 1 /\ Level(Cur, Bit) = 1 /\ Before(Cur, Bit) = 0
           => LineEdge(b)
      /\ Sampling(b) => Looked = Bit /\ Where = Elapsed /\ b.rxp = Level(Cur, Bit)
      /\ Elapsed = a.div => Looked = Bit + 1
      /\ Looked = Bit + 1 => b.rxCnt > 0
  BY Looks
<1>3. /\ Fields \subseteq DOMAIN b' /\ b'.get = TRUE /\ b'.send = FALSE
      /\ Stays(write, boot) /\ Continues
  BY <1>2, ReceiverMoves
<1>4. Cur' = Cur BY <1>2, QueueMoves
<1>5. GoesOn(s) \/ GoesUp(s)
  <2>1. Moves(s) /\ ~Finishes(s) BY SenderMoves, CarryingMoves
  <2> QED BY <1>2, <2>1 DEF Moves, Rests, Takes, Waits, Starts
<1>6. /\ b'.started /\ b'.div = b.div /\ b'.div \in {Div, ResetDiv}
      /\ b'.data \in [Bits -> {0, 1}] /\ OnLine'
  BY <1>1, <1>3, <1>5 DEF Continues, Stays, ReceiverInv, GoesOn, GoesUp
<1>7. /\ b.rxByte \in [Bits -> {0, 1}] /\ b.rxState \in (0 .. NBits) \cup {Idle}
      /\ Looked = IF b.rxState = Idle THEN 0 ELSE b.rxState + 1
  BY DEF ReceiverInv, Looked
<1>8. /\ Looked = Bit \/ (Looked = Bit + 1 /\ Elapsed >= 3)
      /\ Looked = 0 => Elapsed >= 2
      /\ Around(b.div, a.div, Since(Cur, Looked), Where)
      /\ Looked = Bit /\ Bit > 0 /\ Elapsed >= 2 /\ Level(Cur, Bit) = 1 /\ Before(Cur, Bit) = 0
           => Where = Middle(b.div)
      /\ \A i \in Bits : i + Looked > NBits => b.rxByte[i] = Cur[i + Looked - NBits - 1]
  BY <1>2 DEF Receiving
<1>9. /\ Where = IF Bit = Looked THEN Elapsed + b.rxCnt ELSE Elapsed + b.rxCnt - (a.div + 1)
      /\ Where' = IF Bit' = Looked' THEN Elapsed' + b'.rxCnt
                  ELSE Elapsed' + b'.rxCnt - (a.div + 1)
  BY <1>1 DEF Where
<1>10. Looked' = IF b'.rxState = Idle THEN 0 ELSE b'.rxState + 1 BY DEF Looked
<1>11. /\ GoesOn(s) => Bit' = Bit /\ Elapsed' = Elapsed + 1
       /\ GoesUp(s) => Bit' = Bit + 1 /\ Elapsed' = 0 /\ Elapsed = a.div
  BY DEF GoesOn, GoesUp
<1>12. CASE ~Sampling(b)
  <2>1. /\ b'.rxState = b.rxState /\ b'.rxByte = b.rxByte /\ Looked' = Looked /\ b.rxCnt > 0
        /\ b'.rxCnt = IF LineEdge(b) THEN b.div \div 2 ELSE b.rxCnt - 1
    BY <1>3, <1>7, <1>10, <1>12 DEF Continues
  <2>2. b.div \div 2 \in Nat /\ Middle(b.div) = 2 + b.div \div 2 BY <1>1, MiddleInt
  <2>3. b'.rxCnt \in Nat BY <1>2, <2>1, <2>2
  <2>4. LineEdge(b) => /\ GoesOn(s) /\ Elapsed' = 2 /\ Bit' = Bit /\ Looked' = Bit' /\ Bit' > 0
                       /\ Where' = Middle(b.div)
    BY <1>1, <1>2, <1>5, <1>9, <1>11, <2>1, <2>2
  <2>5. ~LineEdge(b) => Where' = Where
    BY <1>1, <1>2, <1>5, <1>8, <1>9, <1>11, <2>1
  <2>6. Around(b'.div, a'.div, Since(Cur', Looked'), Where')
    <3>1. Since(Cur, Looked) \in Nat
      <4>1. Looked = 0 \/ Looked = NBits + 1 \/ Looked \in 1 .. NBits BY <1>1, <1>2
      <4> QED BY <1>1, <1>2, <4>1, SinceSteps
    <3>2. Around(b.div, a.div, Since(Cur, Looked), Middle(b.div)) BY <1>1, <3>1, AroundMiddle
    <3> QED BY <1>1, <1>4, <1>6, <1>8, <2>1, <2>4, <2>5, <3>2
  <2>7. Looked' = Bit' \/ (Looked' = Bit' + 1 /\ Elapsed' >= 3)
    BY <1>1, <1>2, <1>5, <1>8, <1>11, <2>1
  <2>8. Looked' = 0 => Elapsed' >= 2
    BY <1>1, <1>2, <1>5, <1>8, <1>11, <2>1
  <2>9. Looked' = Bit' /\ Bit' > 0 /\ Elapsed' >= 2 /\ Level(Cur', Bit') = 1
           /\ Before(Cur', Bit') = 0 => Where' = Middle(b'.div)
    <3> HAVE Looked' = Bit' /\ Bit' > 0 /\ Elapsed' >= 2 /\ Level(Cur', Bit') = 1
             /\ Before(Cur', Bit') = 0
    <3>1. GoesOn(s) BY <1>5, <1>11
    <3>2. Bit' = Bit /\ Elapsed >= 1 /\ Looked = Bit BY <1>2, <1>11, <2>1, <3>1
    <3>3. Level(Cur, Bit) = 1 /\ Before(Cur, Bit) = 0 BY <1>4, <3>2
    <3>4. Elapsed = 1 => LineEdge(b) BY <1>2, <3>2, <3>3
    <3>5. Elapsed >= 2 => Where = Middle(b.div) BY <1>8, <3>2, <3>3
    <3> QED BY <1>2, <1>6, <2>4, <2>5, <3>2, <3>4, <3>5
  <2>10. \A i \in Bits : i + Looked' > NBits => b'.rxByte[i] = Cur'[i + Looked' - NBits - 1]
    BY <1>4, <1>8, <2>1
  <2>11. Receiving' BY <2>6, <2>7, <2>8, <2>9, <2>10 DEF Receiving
  <2>12. b'.rxState # EndBit BY <2>1
  <2> QED BY <1>3, <1>6, <1>7, <2>1, <2>3, <2>11, <2>12 DEF ReceiverInv
<1>13. CASE Sampling(b)
  <2>1. /\ Looked = Bit /\ Where = Elapsed /\ b.rxp = Level(Cur, Bit) /\ Elapsed >= 2
        /\ Elapsed # a.div
    BY <1>1, <1>2, <1>13
  <2>2. Bit' = Bit /\ Elapsed' = Elapsed + 1 /\ GoesOn(s) BY <1>5, <1>11, <2>1
  <2>3. Since(Cur, Looked) \in Nat
    <3>1. Looked = 0 \/ Looked = NBits + 1 \/ Looked \in 1 .. NBits BY <1>1, <1>2
    <3> QED BY <1>1, <1>2, <3>1, SinceSteps
  <2>4. Around(b.div, a.div, Since(Cur, Looked) + 1, Where + b.div - a.div)
    BY <1>1, <1>8, <2>3, AroundSteps
  <2>5. Looked \in 1 .. NBits + 1 /\ Level(Cur, Looked) = 1 /\ Before(Cur, Looked) = 0
          => Where = Middle(b.div)
    BY <1>8, <2>1
  <2>6. CASE b.rxState # NBits
    <3>1. Looked \in 0 .. NBits BY <1>1, <1>7, <2>6
    <3>2. /\ b'.rxState = Looked /\ b'.rxCnt = b.div
          /\ b'.rxByte = IF Looked = 0 THEN b.rxByte ELSE Shifted(b.rxByte, b.rxp)
      BY <1>1, <1>3, <1>7, <1>13, <2>6 DEF Continues, Idle
    <3>3. b'.rxState # EndBit /\ b'.rxState # Idle /\ Looked' = Looked + 1
      BY <1>1, <1>10, <3>1, <3>2 DEF Idle, EndBit
    <3>4. Where' = Where + b.div - a.div
      BY <1>1, <1>2, <1>9, <2>1, <2>2, <3>1, <3>2, <3>3
    <3>5. Around(b.div, a.div, Since(Cur, Looked + 1), Where')
      <4>1. CASE Looked = 0
        <5>1. Since(Cur, 0) = 0 /\ Since(Cur, 1) = 1 BY <1>1, <1>2, SinceSteps
        <5> QED BY <2>4, <3>4, <4>1, <5>1
      <4>2. CASE Looked \in 1 .. NBits
        <5>1. \/ Since(Cur, Looked + 1) = Since(Cur, Looked) + 1
              \/ /\ Since(Cur, Looked + 1) = Looked
                 /\ Level(Cur, Looked) = 1 /\ Before(Cur, Looked) = 0
          BY <1>1, <1>2, <4>2, SinceSteps
        <5>2. CASE Since(Cur, Looked + 1) = Since(Cur, Looked) + 1 BY <2>4, <3>4, <5>2
        <5>3. CASE /\ Since(Cur, Looked + 1) = Looked
                   /\ Level(Cur, Looked) = 1 /\ Before(Cur, Looked) = 0
          <6>1. Where = Middle(b.div) BY <1>1, <2>5, <4>2, <5>3
          <6>2. Around(b.div, a.div, 0, Where) BY <1>1, <6>1, AroundMiddle
          <6>3. Around(b.div, a.div, 1, Where + b.div - a.div)
            <7>1. 0 \in Nat /\ 0 + 1 = 1 OBVIOUS
            <7> QED BY <1>1, <6>2, <7>1, AroundSteps
          <6>4. 1 \in Nat /\ Looked \in Nat /\ 1 <= Looked BY <4>2
          <6> QED BY <1>1, <3>4, <5>3, <6>3, <6>4, AroundGrows
        <5> QED BY <5>1, <5>2, <5>3
      <4> QED BY <1>1, <3>1, <4>1, <4>2
    <3>6. Shifted(b.rxByte, b.rxp) \in [Bits -> {0, 1}]
      <4>1. \A i \in Bits : i # NBits - 1 => i + 1 \in Bits BY <1>1 DEF Bits
      <4>2. b.rxp \in {0, 1} BY <1>1, <1>2, <2>1, LevelIn
      <4> QED BY <1>7, <4>1, <4>2 DEF Shifted
    <3>7. ASSUME NEW i \in Bits, i + Looked' > NBits
          PROVE  b'.rxByte[i] = Cur'[i + Looked' - NBits - 1]
      <4>1. i \in Int /\ i <= NBits - 1 BY <1>1 DEF Bits
      <4>2. Looked \in 1 .. NBits BY <1>1, <3>1, <3>3, <3>7, <4>1
      <4>3. b'.rxByte[i] = IF i = NBits - 1 THEN b.rxp ELSE b.rxByte[i + 1]
        BY <3>2, <4>2 DEF Shifted
      <4>4. CASE i = NBits - 1
        <5>1. i + Looked' - NBits - 1 = Looked - 1 BY <1>1, <3>3, <4>2, <4>4
        <5>2. Level(Cur, Looked) = Cur[Looked - 1] BY <1>1, <4>2 DEF Level
        <5> QED BY <1>4, <2>1, <4>3, <4>4, <5>1, <5>2
      <4>5. CASE i # NBits - 1
        <5>1. i + 1 \in Bits BY <1>1, <4>1, <4>5 DEF Bits
        <5>2. (i + 1) + Looked > NBits /\ (i + 1) + Looked - NBits - 1 = i + Looked' - NBits - 1
          BY <1>1, <3>3, <3>7, <4>1, <4>2
        <5> QED BY <1>4, <1>8, <4>3, <4>5, <5>1, <5>2
      <4> QED BY <4>4, <4>5
    <3>8. Receiving'
      <4>1. Looked' = Bit' + 1 /\ Elapsed' >= 3 /\ Looked' # 0 /\ Looked' # Bit'
        BY <1>1, <1>2, <2>1, <2>2, <3>1, <3>3
      <4>2. Around(b'.div, a'.div, Since(Cur', Looked'), Where')
        BY <1>1, <1>4, <1>6, <3>3, <3>5
      <4> QED BY <3>7, <4>1, <4>2 DEF Receiving
    <3> QED BY <1>1, <1>3, <1>6, <1>7, <3>1, <3>2, <3>3, <3>6, <3>8 DEF ReceiverInv
  <2>7. CASE b.rxState = NBits
    <3>1. b'.rxState = EndBit /\ b'.rxByte = b.rxByte /\ b'.rxCnt = 0
      BY <1>3, <1>13, <2>7 DEF Continues
    <3>2. Looked = NBits + 1 BY <1>1, <1>7, <2>7 DEF Idle
    <3>3. a'.txState = EndBit
      <4>1. Bit = NBits + 1 => a.txState = EndBit BY <1>2, ElapsedIn
      <4> QED BY <2>1, <2>2, <3>2, <4>1 DEF GoesOn
    <3>4. Around(b.div, a.div, NBits, Where)
      <4>1. 1 \in 1 .. NBits BY <1>1
      <4>2. \/ Since(Cur, NBits + 1) = NBits
            \/ Since(Cur, NBits + 1) = NBits + 1 /\ Before(Cur, NBits + 1) = 0
        BY <1>1, <1>2, <4>1, SinceSteps
      <4>3. CASE Since(Cur, NBits + 1) = NBits BY <1>8, <3>2, <4>3
      <4>4. CASE Before(Cur, NBits + 1) = 0
        <5>1. Level(Cur, NBits + 1) = 1 BY <1>1 DEF Level
        <5>2. Where = Middle(b.div) BY <1>1, <2>5, <3>2, <4>4, <5>1
        <5> QED BY <1>1, <5>2, AroundMiddle
      <4> QED BY <4>2, <4>3, <4>4
    <3>5. b'.rxByte = Cur'
      <4>1. ASSUME NEW i \in Bits PROVE b.rxByte[i] = Cur[i]
        <5>1. i + (NBits + 1) > NBits /\ i + (NBits + 1) - NBits - 1 = i BY <1>1 DEF Bits
        <5> QED BY <1>8, <3>2, <5>1
      <4> QED BY <1>2, <1>4, <1>7, <3>1, <4>1
    <3>6. Elapsed' - 1 = Where BY <1>2, <2>1, <2>2
    <3>7. Received' BY <1>1, <1>6, <3>1, <3>3, <3>4, <3>5, <3>6 DEF Received
    <3> QED BY <1>1, <1>3, <1>6, <1>7, <3>1, <3>7 DEF ReceiverInv
  <2> QED BY <2>6, <2>7
<1> QED BY <1>12, <1>13

LEMMA LinkKept ==
  ASSUME Matched, SenderInv, QueueInv, WireInv, ReceiverInv,
         NEW s, NEW write, NEW boot, NEW byte, LinkEdge(s, write, boot, byte)
  PROVE  SenderInv' /\ QueueInv' /\ WireInv' /\ ReceiverInv'
<1>1. ReceiverInv' BY ReceiverIdles, ReceiverGoesOn, ReceiverEnds
<1> QED BY <1>1, SenderKept, QueueMoves, WireKept

-----------------------------------------------------------------------------
(* The drivers.  A byte that is held keeps the sender from beginning, ...  *)
LEMMA HeldMoves ==
  ASSUME Matched, SenderInv, QueueInv, WireInv, ReceiverInv,
         NEW s, NEW boot, NEW byte, LinkEdge(s, "none", boot, byte)
  PROVE  /\ Ending(b) => Held' /\ OnLine' /\ Elapsed' = Elapsed + 1
         /\ Held /\ ~req => Held' /\ ~Ending(b) /\ b'.rxByte = b.rxByte
<1>0. NBits \in 1 .. 15 BY Divisions
<1>1. Ending(b) => Held' /\ OnLine' /\ Elapsed' = Elapsed + 1
  <2> HAVE Ending(b)
  <2>1. GoesOn(s) /\ Completes BY CarryingMoves, ReceiverMoves
  <2>2. b.started /\ b.rxState = EndBit BY DEF Ending, Sampling
  <2>3. a.txState = EndBit BY <2>2, Ends
  <2> QED BY <2>1, <2>3 DEF GoesOn, Completes, Held, Done
<1>2. Held /\ ~req => Held' /\ ~Ending(b) /\ b'.rxByte = b.rxByte
  <2> HAVE Held /\ ~req
  <2>1. ~b.started /\ b.ended /\ (OnLine => a.txState = EndBit) BY DEF Held, Done
  <2>2. ~Ending(b) /\ ~LineEdge(b)
    <3>1. a.txState = EndBit => Bit # 0 BY <1>0 DEF Bit
    <3> QED BY <2>1, <3>1, Idles
  <2>3. ~b'.started /\ b'.rxByte = b.rxByte /\ Stays("none", boot) BY <2>1, <2>2, ReceiverMoves
  <2>4. b'.ended /\ b'.rts = 1 BY <2>1, <2>2, <2>3 DEF Stays
  <2>5. OnLine' => a'.txState = EndBit
    <3>1. Moves(s) /\ ~GoesUp(s) BY <2>1, SenderMoves, CarryingMoves
    <3>2. ~Starts(s) BY DEF Held, Starts
    <3> QED BY <2>1, <3>1, <3>2 DEF Moves, Rests, Takes, Waits, GoesOn, Finishes
  <2> QED BY <2>2, <2>3, <2>4, <2>5 DEF Held, Done
<1> QED BY <1>1, <1>2

(* ... while the driver arms the receiver no frame is over, ...            *)
LEMMA ArmedMoves ==
  ASSUME Matched, SenderInv, QueueInv, WireInv, ReceiverInv,
         NEW s, NEW write, NEW boot, NEW byte, LinkEdge(s, write, boot, byte),
         NEW k \in Nat, k < a.div, OnLine /\ Carrying => Bit = 0 /\ Elapsed <= k
  PROVE  /\ ~Ending(b)
         /\ OnLine' /\ Carrying' => Bit' = 0 /\ Elapsed' <= k + 1
<1>0. NBits \in 1 .. 15 /\ a.div \in Nat BY Divisions
<1>1. ~Ending(b)
  <2>1. Ending(b) => b.started /\ b.rxState = EndBit BY DEF Ending, Sampling
  <2>2. a.txState = EndBit => Bit # 0 BY <1>0 DEF Bit
  <2> QED BY <2>1, <2>2, Ends
<1>2. Moves(s) BY SenderMoves
<1>3. Rests(s) \/ Takes(s) \/ Waits(s) \/ Finishes(s) => ~OnLine'
  BY DEF Rests, Takes, Waits, Finishes
<1>4. Starts(s) => Bit' = 0 /\ Elapsed' <= k + 1 BY DEF Starts
<1>5. GoesOn(s) => (Carrying' => Bit' = 0 /\ Elapsed' <= k + 1)
  <2> HAVE GoesOn(s)
  <2>1. OnLine /\ Bit' = Bit /\ Elapsed' = Elapsed + 1 BY DEF GoesOn
  <2>2. Elapsed \in Int BY <1>0, <2>1, ElapsedIn
  <2> QED BY <1>1, <2>1, <2>2, CarryingMoves
<1>6. ~GoesUp(s)
  <2>1. GoesUp(s) => OnLine /\ Elapsed = a.div /\ Carrying BY CarryingMoves DEF GoesUp
  <2> QED BY <1>0, <2>1
<1> QED BY <1>1, <1>2, <1>3, <1>4, <1>5, <1>6 DEF Moves

(* ... and a byte is shown to the DMA for as long as the next frame takes. *)
LEMMA SinceStopMoves ==
  ASSUME Matched, SenderInv, QueueInv, WireInv, ReceiverInv,
         NEW s, NEW boot, NEW byte, LinkEdge(s, "none", boot, byte)
  PROVE  /\ Latest' = Latest /\ Latest \in Int
         /\ Ending(b) => SinceStop' \in Int /\ SinceStop' <= Latest + 2
         /\ ~Ending(b) => SinceStop \in Int /\ SinceStop' \in Int /\ SinceStop' <= SinceStop + 1
<1> DEFINE Later == SinceStop \in Int /\ SinceStop' \in Int /\ SinceStop' <= SinceStop + 1
<1>1. /\ NBits \in 1 .. 15 /\ a.div \in Nat /\ a.div >= 4 /\ b.div \in Nat /\ a'.div = a.div
      /\ b'.div = b.div
  <2>1. b'.div = b.div
    <3>1. b'.div = IF "none" = "rx" THEN Div ELSE b.div BY ReceiverMoves
    <3> QED BY <3>1
  <2>2. a'.div = a.div BY SenderMoves
  <2> QED BY <2>1, <2>2, Divisions DEF ReceiverInv
<1>2. /\ NBits * (b.div - a.div) \in Int
      /\ b.div >= a.div => 0 <= NBits * (b.div - a.div)
      /\ ~(b.div >= a.div) => NBits * (b.div - a.div) <= 0
  <2>1. b.div - a.div \in Int /\ NBits \in Nat /\ NBits <= NBits BY <1>1
  <2> QED BY <1>1, <2>1, Products
<1>3. Middle(b.div) \in Nat BY <1>1, MiddleInt
<1>4. Latest' = Latest BY <1>1 DEF Latest
<1>5. Latest \in Int BY <1>2, <1>3 DEF Latest
<1>6. Ending(b) => SinceStop' \in Int /\ SinceStop' <= Latest + 2
  <2> HAVE Ending(b)
  <2>1. b.started /\ b.rxState = EndBit BY DEF Ending, Sampling
  <2>2. Elapsed \in 3 .. a.div - 1 /\ Around(b.div, a.div, NBits, Elapsed - 1) BY <2>1, Ends
  <2>3. Held' /\ OnLine' /\ Elapsed' = Elapsed + 1 BY HeldMoves
  <2>4. SinceStop' = Elapsed + 1 BY <2>3 DEF SinceStop, Held
  <2>5. Elapsed - 1 <= Latest BY <1>1, <1>2, <1>3, <2>2 DEF Around, Latest
  <2> QED BY <1>1, <1>5, <2>2, <2>4, <2>5
<1>7. ~Ending(b) => Later
  <2> HAVE ~Ending(b)
  <2>1. Moves(s) BY SenderMoves
  <2>2. Rests(s) \/ Takes(s) \/ Waits(s) => Later
    BY <1>1 DEF SinceStop, Rests, Takes, Waits, Busy, Sending
  <2>3. Starts(s) => Later
    <3> HAVE Starts(s)
    <3>1. a.send /\ ~OnLine /\ OnLine' /\ Bit' = 0 /\ Elapsed' = 0 /\ ~Done'
      BY DEF Starts, Busy, Done, EndBit
    <3>2. SinceStop = a.div + 2 /\ SinceStop' = a'.div + 3 + Bit' * (a'.div + 1) + Elapsed'
      BY <3>1 DEF SinceStop
    <3>3. Bit' * (a'.div + 1) = 0 BY <1>1, <3>1
    <3> QED BY <1>1, <3>1, <3>2, <3>3
  <2>4. GoesOn(s) => Later
    <3> HAVE GoesOn(s)
    <3>1. /\ OnLine /\ OnLine' /\ Bit' = Bit /\ Elapsed' = Elapsed + 1
          /\ a.send /\ a'.send /\ a'.txState = a.txState
      BY DEF GoesOn, Busy, Sending
    <3>2. Carrying' <=> Carrying BY CarryingMoves
    <3>3. Done => Done'
      <4>1. Done => ~Carrying BY <3>1 DEF Done, Carrying
      <4> QED BY <3>1, <3>2, <4>1 DEF Done, Carrying
    <3>4. Done' => Done
      <4>1. Done' => ~Carrying' BY <3>1 DEF Done, Carrying
      <4> QED BY <3>1, <3>2, <4>1 DEF Done, Carrying
    <3>5. Elapsed \in Int /\ Bit \in Nat BY <1>1, <3>1, ElapsedIn
    <3>6. Bit * (a.div + 1) \in Int
      <4>1. a.div + 1 \in Int BY <1>1
      <4> QED BY <3>5, <4>1, Products
    <3> DEFINE p == Bit * (a.div + 1)
    <3>7. /\ SinceStop = IF Done THEN Elapsed ELSE a.div + 3 + p + Elapsed
          /\ SinceStop' = IF Done THEN Elapsed + 1 ELSE a.div + 3 + p + (Elapsed + 1)
      BY <1>1, <3>1, <3>3, <3>4 DEF SinceStop
    <3>8. p \in Int BY <3>6
    <3> HIDE DEF p
    <3> QED BY <1>1, <3>5, <3>7, <3>8
  <2>5. GoesUp(s) => Later
    <3> HAVE GoesUp(s)
    <3>1. /\ OnLine /\ OnLine' /\ Bit' = Bit + 1 /\ Elapsed' = 0 /\ Elapsed = a.div
          /\ Bit \in Nat /\ a.send /\ a'.send
      BY <1>1 DEF GoesUp, Busy, Sending
    <3>2. Carrying /\ Carrying' /\ b.started BY CarryingMoves
    <3>3. ~Done BY <3>2 DEF Done
    <3>4. ~Done' BY <3>1, <3>2 DEF Done, Carrying
    <3> DEFINE p == Bit * (a.div + 1)
               q == (Bit + 1) * (a.div + 1)
    <3>5. p \in Int /\ q = p + (a.div + 1)
      <4>1. a.div + 1 \in Int BY <1>1
      <4> QED BY <3>1, <4>1, Products
    <3>6. SinceStop = a.div + 3 + p + a.div /\ SinceStop' = a.div + 3 + q + 0
      BY <1>1, <3>1, <3>3, <3>4 DEF SinceStop
    <3> HIDE DEF p, q
    <3> QED BY <1>1, <3>5, <3>6
  <2>6. Finishes(s) => Later
    <3> HAVE Finishes(s)
    <3>1. OnLine /\ a.txState = EndBit /\ Elapsed = a.div /\ ~OnLine' /\ ~a'.send /\ ~b.started
      BY CarryingMoves DEF Finishes
    <3>2. SinceStop = a.div /\ SinceStop' = a.div + 1 BY <1>1, <3>1 DEF SinceStop, Done
    <3> QED BY <1>1, <3>2
  <2> HIDE DEF Later
  <2> QED BY <2>1, <2>2, <2>3, <2>4, <2>5, <2>6 DEF Moves
<1> QED BY <1>4, <1>5, <1>6, <1>7

(* The next frame does not end before the byte is taken.                   *)
LEMMA NoOverwrite ==
  ASSUME Matched, UartInv, Ending(b),
         mode = "dma" /\ fresh => \E l \in Lags : lag <= l
  PROVE  ~fresh
<1> SUFFICES ASSUME fresh PROVE FALSE OBVIOUS
<1> USE DEF UartInv
<1>1. b.started /\ b.rxState = EndBit BY DEF Ending, Sampling
<1>2. /\ OnLine /\ a.txState = EndBit /\ Elapsed \in 3 .. a.div - 1
      /\ Around(b.div, a.div, NBits, Elapsed - 1)
  BY <1>1, Ends
<1>3. ~Done BY <1>1 DEF Done
<1>4. mode = "dma" /\ SinceStop <= lag + Latest + 2 /\ lag \in Nat
  BY <1>3 DEF DriverInv, Held
<1>5. PICK l \in Lags : lag <= l BY <1>4
<1>6. /\ NBits \in 1 .. 15 /\ a.div \in Nat /\ b.div \in Nat /\ b.div \in {Div, ResetDiv}
      /\ Middle(b.div) \in Nat
  BY Divisions, MiddleInt DEF ReceiverInv
<1>7. l \in Nat /\ l <= (NBits + 2) * (a.div + 1) - NBits * Apart(b.div, a.div)
  BY <1>5, <1>6 DEF Matched, SenderInv
<1> DEFINE p == (NBits + 1) * (a.div + 1)
           q == (NBits + 2) * (a.div + 1)
           x == NBits * (b.div - a.div)
           y == NBits * Apart(b.div, a.div)
           h == Middle(b.div)
<1>8. p \in Int /\ q = p + (a.div + 1)
  <2>1. a.div + 1 \in Int /\ NBits + 1 \in Nat /\ NBits + 1 <= NBits + 1
        /\ (NBits + 1) + 1 = NBits + 2
    BY <1>6
  <2> QED BY <2>1, Products
<1>9. /\ x \in Int /\ y \in Int
      /\ b.div >= a.div => y = x
      /\ ~(b.div >= a.div) => y = -x
  <2>1. b.div - a.div \in Int /\ NBits \in Int BY <1>6
  <2>2. NBits * (a.div - b.div) = -(NBits * (b.div - a.div)) BY <1>6
  <2> QED BY <1>6, <2>1, <2>2 DEF Apart
<1>10. SinceStop = a.div + 3 + p + Elapsed
  <2>1. Bit = NBits + 1 BY <1>2 DEF Bit
  <2> QED BY <1>2, <1>3, <2>1 DEF SinceStop
<1>11. Latest = h + (IF b.div >= a.div THEN x ELSE 0) BY DEF Latest
<1>12. IF b.div >= a.div THEN Elapsed - 1 >= h ELSE Elapsed - 1 >= h + x
  <2>1. IF b.div >= a.div THEN Elapsed - 1 \in h .. h + x ELSE Elapsed - 1 \in h + x .. h
    BY <1>2 DEF Around
  <2>2. h \in Int /\ x \in Int BY <1>6, <1>9
  <2> HIDE DEF h, x
  <2> QED BY <2>1, <2>2
<1>13. l <= q - y BY <1>7
<1>14. h \in Nat BY <1>6
<1> HIDE DEF p, q, x, y, h
<1>15. Elapsed \in Int BY <1>2, <1>6
<1>16. a.div + 3 + p + Elapsed <= l + h + (IF b.div >= a.div THEN x ELSE 0) + 2
  BY <1>4, <1>5, <1>6, <1>7, <1>8, <1>9, <1>10, <1>11, <1>14, <1>15
<1>17. CASE b.div >= a.div
  BY <1>6, <1>7, <1>8, <1>9, <1>12, <1>13, <1>14, <1>15, <1>16, <1>17
<1>18. CASE ~(b.div >= a.div)
  BY <1>6, <1>7, <1>8, <1>9, <1>12, <1>13, <1>14, <1>15, <1>16, <1>18
<1> QED BY <1>17, <1>18

(* The actions are edges of the link.                                      *)
LEMMA Arming ==
  ASSUME Matched, UartInv, mode = "arming"
  PROVE  ~b.started /\ ~LineEdge(b)
<1> USE DEF UartInv
<1>1. /\ OnLine /\ Carrying => Bit = 0 /\ Elapsed <= 0
      /\ lag \in Nat
  <2>1. /\ OnLine /\ Carrying => Bit = 0 /\ Elapsed <= lag + 0
        /\ lag \in Nat /\ lag = 0
    BY DEF DriverInv
  <2> QED BY <2>1
<1>2. NBits \in 1 .. 15 /\ a.div \in Nat BY Divisions
<1>3. b.started => FALSE
  <2> HAVE b.started
  <2>1. b.rxState # EndBit
    <3>1. b.rxState = EndBit => Bit = NBits + 1 /\ Carrying /\ OnLine BY Ends DEF Bit
    <3> QED BY <1>1, <1>2, <3>1
  <2>2. OnLine /\ Carrying /\ Receiving /\ Elapsed \in 0 .. a.div BY <2>1, Looks
  <2>3. Bit = 0 /\ Elapsed = 0 BY <1>1, <1>2, <2>2
  <2> QED BY <2>2, <2>3 DEF Receiving
<1>4. LineEdge(b) => FALSE
  <2> HAVE LineEdge(b)
  <2>1. OnLine /\ Bit = 0 /\ Elapsed = 1 BY <1>3, Idles
  <2>2. Carrying BY <1>2, <2>1 DEF Carrying, Bit, SenderInv
  <2> QED BY <1>1, <2>1, <2>2
<1> QED BY <1>3, <1>4

(* An edge in which the driver does not write and takes nothing.           *)
LEMMA QuietEdge ==
  ASSUME Matched, UartInv, NEW s, NEW boot, LinkEdge(s, "none", boot, NoByte)
  PROVE  /\ Ending(b) => /\ fresh' /\ ~fresh /\ queue'[1] = b.rxByte /\ Held'
                         /\ b'.en /\ b'.rxReady /\ b'.data = b.rxByte /\ b'.rxByte = b.rxByte
                         /\ SinceStop' \in Int /\ SinceStop' <= Latest' + 2
         /\ ~Ending(b) => /\ ~boot => fresh' = fresh
                          /\ fresh' => fresh /\ queue'[1] = queue[1]
                          /\ b'.data = b.data /\ b'.rxReady = b.rxReady
                          /\ ~boot => b'.en = IF grant THEN FALSE ELSE b.en
                          /\ SinceStop \in Int /\ SinceStop' \in Int
                          /\ SinceStop' <= SinceStop + 1
         /\ Held /\ ~req => Held' /\ ~Ending(b) /\ b'.rxByte = b.rxByte
         /\ Latest' = Latest
<1> USE DEF UartInv
<1>1. Ending(b) => b.started /\ b.rxState = EndBit BY DEF Ending, Sampling
<1>2. Ending(b) => b.rxByte = Cur BY <1>1, Ends
<1>3. Ending(b) => Completes /\ fresh' /\ ~fresh /\ queue'[1] = Cur BY ReceiverMoves, QueueMoves
<1>4. ~Ending(b) => Stays("none", boot) BY ReceiverMoves
<1>5. ~Ending(b) => (fresh' => fresh /\ queue'[1] = queue[1]) BY QueueMoves
<1>6. fresh \in BOOLEAN BY DEF QueueInv
<1>7. ~Ending(b) /\ ~boot => fresh' = fresh
  <2>1. ~Ending(b) => fresh' = (fresh /\ NoByte = NoByte /\ ~("none" = "rx" \/ boot))
    BY QueueMoves
  <2> QED BY <1>6, <2>1
<1>8. ~Ending(b) => /\ b'.data = b.data /\ b'.rxReady = b.rxReady
                    /\ ~boot => b'.en = IF grant THEN FALSE ELSE b.en
  BY <1>4 DEF Stays
<1> QED BY <1>2, <1>3, <1>5, <1>7, <1>8, HeldMoves, SinceStopMoves DEF Completes

LEMMA WaitKeeps ==
  ASSUME Matched, UartInv, NEW s \in Sends, Wait(s)
  PROVE  LinkEdge(s, "none", FALSE, NoByte) /\ DriverInv'
<1> USE DEF UartInv
<1>1. /\ mode # "arming" /\ (mode = "armed" => lag < MaxArm)
      /\ Shown => \E l \in Lags : lag < l
      /\ grant' = FALSE /\ mode' = mode /\ req' = req
      /\ lag' = IF mode = "armed" \/ Shown THEN lag + 1 ELSE 0
      /\ Edge(s, "none", FALSE, NoByte)
  BY DEF Wait
<1>2. /\ mode \in {"off", "arming", "armed", "dma", "poll"}
      /\ req = (mode = "dma") /\ grant \in BOOLEAN /\ lag \in Nat
      /\ grant => mode = "dma"
      /\ mode = "poll" => (b.rxReady <=> fresh) /\ (fresh => b.rxByte = queue[1])
      /\ mode \in {"poll", "off"} /\ fresh => Held
      /\ mode = "dma" => IF fresh THEN /\ b.en /\ ~grant /\ b.data = queue[1]
                                       /\ SinceStop <= lag + Latest + 2
                         ELSE b.en <=> grant
  BY DEF DriverInv
<1>3. mode = "armed" => /\ ~fresh /\ ~b.en /\ ~b.rxReady /\ lag <= MaxArm
                        /\ OnLine /\ Carrying => Bit = 0 /\ Elapsed <= lag + 1
  BY DEF DriverInv
<1>4. /\ Lags \subseteq Nat /\ MaxArm \in Nat /\ a.div \in Nat /\ MaxArm < a.div
  BY Divisions DEF Matched
<1>5. mode = "dma" /\ fresh => Shown BY <1>2 DEF Shown
<1>6. Ending(b) => ~fresh
  <2> HAVE Ending(b)
  <2>1. mode = "dma" /\ fresh => \E l \in Lags : lag <= l
    <3> HAVE mode = "dma" /\ fresh
    <3>1. PICK l \in Lags : lag < l BY <1>1, <1>5
    <3>2. lag <= l BY <1>2, <1>4, <3>1
    <3> QED BY <3>2
  <2> QED BY <2>1, NoOverwrite
<1>7. LinkEdge(s, "none", FALSE, NoByte) BY <1>1, <1>6 DEF LinkEdge
<1>8. /\ Ending(b) => /\ fresh' /\ ~fresh /\ queue'[1] = b.rxByte /\ Held'
                      /\ b'.en /\ b'.rxReady /\ b'.data = b.rxByte /\ b'.rxByte = b.rxByte
                      /\ SinceStop' \in Int /\ SinceStop' <= Latest' + 2
      /\ ~Ending(b) => /\ fresh' = fresh
                       /\ fresh' => fresh /\ queue'[1] = queue[1]
                       /\ b'.data = b.data /\ b'.rxReady = b.rxReady
                       /\ b'.en = IF grant THEN FALSE ELSE b.en
                       /\ SinceStop \in Int /\ SinceStop' \in Int
                       /\ SinceStop' <= SinceStop + 1
      /\ Held /\ ~req => Held' /\ ~Ending(b) /\ b'.rxByte = b.rxByte
      /\ Latest' = Latest
  BY <1>7, QuietEdge
<1>9. lag' \in Nat BY <1>1, <1>2
<1>10. /\ fresh \in BOOLEAN /\ fresh' \in BOOLEAN BY <1>7, QueueMoves DEF QueueInv
<1>11. mode = "armed" => DriverInv'
  <2> HAVE mode = "armed"
  <2>1. lag + 1 \in Nat /\ lag + 1 < a.div BY <1>1, <1>2, <1>4
  <2>2. /\ ~Ending(b)
        /\ OnLine' /\ Carrying' => Bit' = 0 /\ Elapsed' <= (lag + 1) + 1
    BY <1>3, <1>7, <2>1, ArmedMoves
  <2>3. lag' = lag + 1 /\ lag' <= MaxArm BY <1>1, <1>2, <1>4
  <2>4. ~fresh' /\ ~b'.en /\ ~b'.rxReady BY <1>2, <1>3, <1>8, <2>2
  <2> QED BY <1>1, <1>2, <1>9, <2>2, <2>3, <2>4 DEF DriverInv
<1>12. mode = "off" => DriverInv'
  <2> HAVE mode = "off"
  <2>1. fresh' => Held' BY <1>2, <1>8
  <2> QED BY <1>1, <1>2, <1>9, <2>1 DEF DriverInv
<1>13. mode = "poll" => DriverInv'
  <2> HAVE mode = "poll"
  <2>1. fresh' => Held' BY <1>2, <1>8
  <2>2. b'.rxReady <=> fresh'
    <3>1. ~Ending(b) => (b'.rxReady <=> fresh') BY <1>2, <1>8
    <3>2. Ending(b) => (b'.rxReady <=> fresh')
      <4>1. Ending(b) => b'.rxReady = TRUE BY <1>7, ReceiverMoves DEF Completes
      <4> QED BY <1>8, <1>10, <4>1
    <3> QED BY <3>1, <3>2
  <2>3. fresh' => b'.rxByte = queue'[1] BY <1>2, <1>8
  <2> QED BY <1>1, <1>2, <1>9, <2>1, <2>2, <2>3 DEF DriverInv
<1>14. mode = "dma" => DriverInv'
  <2> HAVE mode = "dma"
  <2> DEFINE Taken == IF fresh' THEN /\ b'.en /\ ~grant' /\ b'.data = queue'[1]
                                     /\ SinceStop' <= lag' + Latest' + 2
                      ELSE b'.en <=> grant'
  <2>1. Ending(b) => Taken
    <3> HAVE Ending(b)
    <3>1. ~Shown /\ lag' = 0
      <4>1. ~fresh /\ (b.en <=> grant) BY <1>2, <1>8
      <4> QED BY <1>1, <1>2, <4>1 DEF Shown
    <3>2. Latest' \in Int BY <1>7, SinceStopMoves
    <3>3. lag' + Latest' + 2 = Latest' + 2 BY <3>1, <3>2
    <3> QED BY <1>1, <1>8, <3>3
  <2>2. ~Ending(b) /\ fresh => Taken
    <3> HAVE ~Ending(b) /\ fresh
    <3>1. lag' = lag + 1 BY <1>1, <1>5
    <3>2. /\ b.en /\ ~grant /\ b.data = queue[1] /\ SinceStop <= lag + Latest + 2
      BY <1>2
    <3>3. /\ fresh' /\ queue'[1] = queue[1] /\ b'.data = b.data /\ b'.en /\ ~grant'
      BY <1>1, <1>8, <3>2
    <3>4. SinceStop' <= lag' + Latest' + 2
      <4>1. /\ Latest \in Int /\ SinceStop \in Int /\ SinceStop' \in Int
            /\ SinceStop' <= SinceStop + 1 /\ Latest' = Latest
        BY <1>7, <1>8, SinceStopMoves
      <4> QED BY <1>2, <3>1, <3>2, <4>1
    <3> QED BY <3>2, <3>3, <3>4
  <2>3. ~Ending(b) /\ ~fresh => Taken
    <3> HAVE ~Ending(b) /\ ~fresh
    <3>1. (b.en <=> grant) /\ ~fresh' BY <1>2, <1>8
    <3>2. b'.en = FALSE
      <4>1. b'.en = IF grant THEN FALSE ELSE b.en BY <1>8
      <4> QED BY <1>2, <3>1, <4>1
    <3> QED BY <1>1, <3>1, <3>2
  <2>4. Taken
    <3> HIDE DEF Taken
    <3> QED BY <2>1, <2>2, <2>3
  <2> QED BY <1>1, <1>2, <1>9, <2>4 DEF DriverInv
<1> QED BY <1>1, <1>2, <1>7, <1>11, <1>12, <1>13, <1>14

LEMMA ArmKeeps ==
  ASSUME Matched, UartInv, NEW s \in Sends, Arm(s)
  PROVE  LinkEdge(s, "rx", FALSE, NoByte) /\ DriverInv'
<1> USE DEF UartInv
<1>1. /\ mode = "off" /\ mode' = "arming" /\ grant' = FALSE /\ lag' = 0 /\ req' = req
      /\ Edge(s, "rx", FALSE, NoByte)
      /\ a.txState \in {Idle, EndBit} /\ ~b.started /\ b.rx = 1
  BY DEF Arm, Quiet
<1>2. b.rxState = Idle BY <1>1 DEF ReceiverInv
<1>3. ~LineEdge(b) /\ ~Ending(b) BY <1>1, <1>2 DEF LineEdge, Ending, Sampling
<1>4. LinkEdge(s, "rx", FALSE, NoByte) BY <1>1, <1>3 DEF LinkEdge
<1>5. ~fresh'
  <2>1. ~Ending(b) => fresh' = (fresh /\ NoByte = NoByte /\ ~("rx" = "rx" \/ FALSE))
    BY <1>4, QueueMoves
  <2> QED BY <1>3, <2>1
<1>6. ~b'.en /\ ~b'.rxReady
  <2>1. Stays("rx", FALSE) BY <1>3, <1>4, ReceiverMoves
  <2> QED BY <2>1 DEF Stays
<1>7. OnLine' /\ Carrying' => Bit' = 0 /\ Elapsed' = 0
  <2>1. Moves(s) BY <1>4, SenderMoves
  <2>2. Rests(s) \/ Takes(s) \/ Waits(s) \/ Finishes(s) => ~OnLine'
    BY DEF Rests, Takes, Waits, Finishes
  <2>3. Starts(s) => Bit' = 0 /\ Elapsed' = 0 BY DEF Starts
  <2>4. GoesOn(s) => ~Carrying'
    <3>1. GoesOn(s) => a.txState = EndBit BY <1>1 DEF GoesOn, OnLine
    <3>2. GoesOn(s) => ~Carrying BY <1>1, <3>1 DEF Carrying
    <3> QED BY <1>4, <3>2, CarryingMoves
  <2>5. ~GoesUp(s) BY <1>1, <1>4, CarryingMoves
  <2> QED BY <2>1, <2>2, <2>3, <2>4, <2>5 DEF Moves
<1>8. req = FALSE BY <1>1 DEF DriverInv
<1>9. MaxArm \in Nat BY Divisions
<1>10. OnLine' /\ Carrying' => Bit' = 0 /\ Elapsed' <= lag' + 0 BY <1>1, <1>7
<1>11. DriverInv'
  <2>1. mode' = "arming" /\ lag' \in Nat /\ lag' <= MaxArm /\ req' = FALSE BY <1>1, <1>8, <1>9
  <2>2. OnLine' /\ Carrying' => Bit' = 0 /\ Elapsed' <= lag' + (IF mode' = "arming" THEN 0 ELSE 1)
    BY <1>10, <2>1
  <2> QED BY <1>1, <1>5, <1>6, <2>1, <2>2 DEF DriverInv
<1> QED BY <1>4, <1>11

LEMMA ArmAgainKeeps ==
  ASSUME Matched, UartInv, NEW s \in Sends, ArmAgain(s)
  PROVE  LinkEdge(s, "rx", FALSE, NoByte) /\ DriverInv'
<1> USE DEF UartInv
<1>1. /\ mode = "arming" /\ mode' = "armed" /\ grant' = FALSE /\ lag' = 0 /\ req' = req
      /\ Edge(s, "rx", FALSE, NoByte)
  BY DEF ArmAgain
<1>2. ~b.started /\ ~LineEdge(b) BY <1>1, Arming
<1>3. ~Ending(b) BY <1>2 DEF Ending, Sampling
<1>4. LinkEdge(s, "rx", FALSE, NoByte) BY <1>1, <1>2, <1>3 DEF LinkEdge
<1>5. ~fresh'
  <2>1. ~Ending(b) => fresh' = (fresh /\ NoByte = NoByte /\ ~("rx" = "rx" \/ FALSE))
    BY <1>4, QueueMoves
  <2> QED BY <1>3, <2>1
<1>6. ~b'.en /\ ~b'.rxReady
  <2>1. Stays("rx", FALSE) BY <1>3, <1>4, ReceiverMoves
  <2> QED BY <2>1 DEF Stays
<1>7. OnLine /\ Carrying => Bit = 0 /\ Elapsed <= 0
  <2>1. lag = 0 /\ (OnLine /\ Carrying => Bit = 0 /\ Elapsed <= lag + 0)
    BY <1>1 DEF DriverInv
  <2> QED BY <2>1
<1>8. OnLine' /\ Carrying' => Bit' = 0 /\ Elapsed' <= 0 + 1
  <2>1. 0 \in Nat /\ 0 < a.div BY Divisions
  <2> QED BY <1>4, <1>7, <2>1, ArmedMoves
<1>9. req = FALSE BY <1>1 DEF DriverInv
<1>10. MaxArm \in Nat BY Divisions
<1>11. OnLine' /\ Carrying' => Bit' = 0 /\ Elapsed' <= lag' + 1 BY <1>1, <1>8
<1>12. DriverInv' BY <1>1, <1>5, <1>6, <1>9, <1>10, <1>11 DEF DriverInv
<1> QED BY <1>4, <1>12

LEMMA StartKeeps ==
  ASSUME Matched, UartInv, NEW s \in Sends, StartTransfer(s) \/ StartPolling(s)
  PROVE  LinkEdge(s, "none", FALSE, NoByte) /\ DriverInv'
<1> USE DEF UartInv
<1>1. /\ mode = "armed" /\ mode' \in {"dma", "poll"} /\ grant' = FALSE /\ lag' = 0
      /\ req' = (mode' = "dma")
      /\ Edge(s, "none", FALSE, NoByte)
  <2>1. StartTransfer(s) => req' = (mode' = "dma") BY DEF StartTransfer
  <2>2. StartPolling(s) => req' = (mode' = "dma") BY DEF StartPolling, DriverInv
  <2> QED BY <2>1, <2>2 DEF StartTransfer, StartPolling
<1>2. /\ ~fresh /\ ~b.en /\ ~b.rxReady /\ (OnLine /\ Carrying => Bit = 0)
      /\ grant = FALSE
  BY <1>1 DEF DriverInv
<1>3. LinkEdge(s, "none", FALSE, NoByte) BY <1>1, <1>2 DEF LinkEdge
<1>4. ~Ending(b)
  <2>1. Ending(b) => OnLine /\ Carrying /\ a.txState = EndBit
    BY Ends DEF Ending, Sampling
  <2>2. a.txState = EndBit => Bit # 0
    <3>1. NBits \in 1 .. 15 BY Divisions
    <3> QED BY <3>1 DEF Bit
  <2> QED BY <1>2, <2>1, <2>2
<1>5. ~fresh' /\ ~b'.en /\ ~b'.rxReady
  <2>1. ~Ending(b) => fresh' = fresh /\ b'.rxReady = b.rxReady
                      /\ b'.en = IF grant THEN FALSE ELSE b.en
    BY <1>3, QuietEdge
  <2> QED BY <1>2, <1>4, <2>1
<1>6. DriverInv' BY <1>1, <1>5 DEF DriverInv
<1> QED BY <1>3, <1>6

LEMMA ProgramReadsKeeps ==
  ASSUME Matched, UartInv, NEW s \in Sends, ProgramReads(s)
  PROVE  LinkEdge(s, "none", FALSE, b.rxByte) /\ DriverInv'
<1> USE DEF UartInv
<1>1. /\ mode = "poll" /\ Shown /\ mode' = "off" /\ grant' = FALSE /\ lag' = 0 /\ req' = req
      /\ Edge(s, "none", FALSE, b.rxByte)
  BY DEF ProgramReads
<1>2. fresh /\ b.rxByte = queue[1] /\ req = FALSE /\ Held BY <1>1 DEF DriverInv, Shown
<1>3. ~Ending(b) BY <1>2 DEF Ending, Sampling, Held, Done
<1>4. LinkEdge(s, "none", FALSE, b.rxByte) BY <1>1, <1>2, <1>3 DEF LinkEdge
<1>5. b.rxByte # NoByte BY DEF ReceiverInv, Matched
<1>6. ~fresh' BY <1>3, <1>4, <1>5, QueueMoves
<1>7. DriverInv' BY <1>1, <1>2, <1>6 DEF DriverInv
<1> QED BY <1>4, <1>7

LEMMA DmaTakesKeeps ==
  ASSUME Matched, UartInv, NEW s \in Sends, DmaTakes(s)
  PROVE  LinkEdge(s, "none", FALSE, b.data) /\ DriverInv'
<1> USE DEF UartInv
<1>1. /\ mode = "dma" /\ b.en /\ ~grant /\ lag \in Lags
      /\ mode' = "dma" /\ grant' = TRUE /\ lag' = 0 /\ req' = req
      /\ Edge(s, "none", FALSE, b.data)
  BY DEF DmaTakes, Shown
<1>2. fresh /\ b.data = queue[1] /\ req = TRUE BY <1>1 DEF DriverInv
<1>3. ~Ending(b)
  <2>1. lag \in Nat BY DEF DriverInv
  <2>2. lag <= lag BY <2>1
  <2> QED BY <1>1, <1>2, <2>2, NoOverwrite
<1>4. LinkEdge(s, "none", FALSE, b.data) BY <1>1, <1>2, <1>3 DEF LinkEdge
<1>5. b.data # NoByte BY DEF ReceiverInv, Matched
<1>6. ~fresh' BY <1>3, <1>4, <1>5, QueueMoves
<1>7. b'.en
  <2>1. Stays("none", FALSE) BY <1>3, <1>4, ReceiverMoves
  <2> QED BY <1>1, <2>1 DEF Stays
<1>8. DriverInv' BY <1>1, <1>2, <1>6, <1>7 DEF DriverInv
<1> QED BY <1>4, <1>8

LEMMA EndTransferKeeps ==
  ASSUME Matched, UartInv, NEW s \in Sends, EndTransfer(s)
  PROVE  LinkEdge(s, "none", FALSE, NoByte) /\ DriverInv'
<1> USE DEF UartInv
<1>1. /\ mode = "dma" /\ (grant \/ ~b.en) /\ mode' = "off" /\ req' = FALSE /\ grant' = FALSE
      /\ lag' = 0 /\ Edge(s, "none", FALSE, NoByte)
  BY DEF EndTransfer
<1>2. ~fresh BY <1>1 DEF DriverInv
<1>3. LinkEdge(s, "none", FALSE, NoByte) BY <1>1, <1>2 DEF LinkEdge
<1>4. fresh' => Held' BY <1>2, <1>3, QuietEdge
<1>5. DriverInv' BY <1>1, <1>4 DEF DriverInv
<1> QED BY <1>3, <1>5

LEMMA BootKeeps ==
  ASSUME Matched, UartInv, NEW s \in Sends, Boot(s)
  PROVE  LinkEdge(s, "none", TRUE, NoByte) /\ DriverInv'
<1> USE DEF UartInv
<1>1. /\ mode = "off" /\ mode' = "off" /\ req' = req /\ grant' = FALSE /\ lag' = 0
      /\ Edge(s, "none", TRUE, NoByte)
  BY DEF Boot
<1>2. Ending(b) => ~fresh BY <1>1, NoOverwrite
<1>3. LinkEdge(s, "none", TRUE, NoByte) BY <1>1, <1>2 DEF LinkEdge
<1>4. fresh' => Held'
  <2>1. ~Ending(b) => fresh' = (fresh /\ NoByte = NoByte /\ ~("none" = "rx" \/ TRUE))
    BY <1>3, QueueMoves
  <2>2. ~Ending(b) => ~fresh' BY <2>1
  <2>3. Ending(b) => Held' BY <1>3, QuietEdge
  <2> QED BY <2>2, <2>3
<1>5. req = FALSE BY <1>1 DEF DriverInv
<1>6. DriverInv' BY <1>1, <1>4, <1>5 DEF DriverInv
<1> QED BY <1>3, <1>6

LEMMA RtsInvKept ==
  ASSUME Matched, UartInv, NEW s, NEW write, NEW boot, NEW byte, LinkEdge(s, write, boot, byte)
  PROVE  RtsInv'
<1> USE DEF UartInv
<1>1. calm \in 0 .. 3 /\ calm' = IF req THEN 0 ELSE IF calm < 3 THEN calm + 1 ELSE calm
  BY DEF LinkEdge, Edge, RtsInv
<1>2. calm' \in 0 .. 3 /\ (calm' >= 1 => ~req) BY <1>1
<1>3. Ending(b) /\ ~req => b'.rts = 1 BY ReceiverMoves DEF Completes
<1>4. ~Ending(b) /\ ~req /\ b'.ended => b'.rts = 1
  <2>1. ~Ending(b) => Stays(write, boot) BY ReceiverMoves
  <2> QED BY <2>1 DEF Stays
<1> QED BY <1>2, <1>3, <1>4 DEF RtsInv

-----------------------------------------------------------------------------
(* Together.                                                               *)
LEMMA UartInit ==
  ASSUME Matched, Init
  PROVE  UartInv
<1>1. PICK d \in Divs : a = [Reset EXCEPT !.div = d] BY DEF Init
<1>2. Zero \in [Bits -> {0, 1}] BY DEF Zero
<1>3. NBits \in 1 .. 15 /\ CntMod \in Nat /\ 0 \in 0 .. CntMod - 1
  <2>1. Close(Div, d) BY <1>1 DEF Matched
  <2> QED BY <2>1 DEF Matched, Close
<1>4. SenderInv
  <2>1. /\ Fields \subseteq DOMAIN a /\ a.div = d /\ a.send = FALSE /\ a.txCnt = 0
        /\ a.txState = Idle /\ a.tx = 1 /\ a.txByte = Zero
    BY <1>1 DEF Reset, Fields, TxFields, RxFields
  <2> QED BY <1>1, <1>2, <1>3, <2>1 DEF Init, SenderInv, OnLine
<1>5. a.send = FALSE /\ a.txState = Idle BY <1>1 DEF Reset
<1>6. QueueInv
  <2>1. queue = <<>> /\ fresh = FALSE /\ give.en = FALSE BY DEF Init
  <2>2. ~Carrying BY <1>5 DEF Carrying
  <2>3. <<>> \in Seq([Bits -> {0, 1}]) /\ Len(<<>>) = 0 OBVIOUS
  <2>4. queue \in Seq([Bits -> {0, 1}]) /\ Len(queue) = 0 BY <2>1, <2>3
  <2>5. (IF fresh THEN 1 ELSE 0) + (IF Carrying \/ give.en THEN 1 ELSE 0) = 0
    BY <2>1, <2>2
  <2>6. fresh \in BOOLEAN /\ ~give.en BY <2>1
  <2> QED BY <2>4, <2>5, <2>6 DEF QueueInv
<1>7. /\ Fields \subseteq DOMAIN b /\ b.get = TRUE /\ b.send = FALSE /\ b.div = ResetDiv
      /\ b.rxByte = Zero /\ b.data = Zero /\ b.rxCnt = 0 /\ b.rxState = Idle
      /\ b.started = FALSE /\ b.ended = FALSE /\ b.rx = 1 /\ b.rxp = 1
  BY DEF Init, Reset, Fields, TxFields, RxFields
<1>8. WireInv BY <1>5, <1>7 DEF WireInv, OnLine
<1>9. ReceiverInv BY <1>2, <1>5, <1>7 DEF ReceiverInv, OnLine
<1>10. DriverInv BY DEF Init, DriverInv
<1>11. RtsInv BY <1>7 DEF Init, RtsInv
<1> QED BY <1>4, <1>6, <1>8, <1>9, <1>10, <1>11 DEF UartInv

LEMMA NextIsLinkEdge ==
  ASSUME Matched, UartInv, Next
  PROVE  DriverInv' /\ \E s, write, boot, byte : LinkEdge(s, write, boot, byte)
<1>1. PICK s \in Sends :
        \/ Wait(s) \/ Arm(s) \/ ArmAgain(s) \/ StartTransfer(s) \/ StartPolling(s)
        \/ ProgramReads(s) \/ DmaTakes(s) \/ EndTransfer(s) \/ Boot(s)
  BY DEF Next
<1> QED BY <1>1, WaitKeeps, ArmKeeps, ArmAgainKeeps, StartKeeps, ProgramReadsKeeps,
           DmaTakesKeeps, EndTransferKeeps, BootKeeps

LEMMA UartKept ==
  ASSUME Matched, UartInv, [Next]_vars
  PROVE  UartInv'
<1>1. CASE Next
  <2>1. PICK s, write, boot, byte : LinkEdge(s, write, boot, byte) BY <1>1, NextIsLinkEdge
  <2>2. SenderInv' /\ QueueInv' /\ WireInv' /\ ReceiverInv' BY <2>1, LinkKept DEF UartInv
  <2>3. DriverInv' BY <1>1, NextIsLinkEdge
  <2>4. RtsInv' BY <2>1, RtsInvKept
  <2> QED BY <2>2, <2>3, <2>4 DEF UartInv
<1>2. CASE UNCHANGED vars
  BY <1>2 DEF vars, UartInv, SenderInv, QueueInv, WireInv, ReceiverInv, DriverInv, RtsInv,
       Received, Receiving, Held, Done, Carrying, Cur, OnLine, Bit, Elapsed, Looked, Where,
       Latest, SinceStop
<1> QED BY <1>1, <1>2

(* Whatever the width of a byte and the two division factors, what is      *)
(* taken from the receiver of sUART.h is what was given to the transmitter *)
(* at the other end of the line, in order, so long as the factors are      *)
(* close enough for a frame and no byte waits longer than Matched allows.  *)
THEOREM LinkDelivers ==
  ASSUME Matched
  PROVE  Spec => DeliversInOrder
<1>1. Init => UartInv BY UartInit
<1>2. UartInv /\ [Next]_vars => UartInv' BY UartKept
<1>3. UartInv /\ [Next]_vars => [got' # NoByte => queue # <<>> /\ got' = Head(queue)]_vars
  <2> SUFFICES ASSUME UartInv, Next, got' # NoByte
               PROVE  queue # <<>> /\ got' = Head(queue)
    BY DEF vars
  <2>1. PICK s, write, boot, byte : LinkEdge(s, write, boot, byte) BY NextIsLinkEdge
  <2>2. got' = byte /\ fresh /\ byte = queue[1] BY <2>1 DEF LinkEdge, Edge
  <2>3. queue \in Seq([Bits -> {0, 1}]) /\ Len(queue) >= 1
    BY <2>2 DEF UartInv, QueueInv
  <2> QED BY <2>2, <2>3
<1> QED BY <1>1, <1>2, <1>3, PTL DEF Spec, DeliversInOrder

(* While it holds a byte and data are not requested the receiver keeps the *)
(* transmitter from beginning a frame, for the same widths, factors and    *)
(* delays: RTS (sUART.h:262-269) is high from the first cycle on in which  *)
(* nothing is requested.                                                   *)
THEOREM LinkStopsSender ==
  ASSUME Matched
  PROVE  Spec => StopsSender
<1>1. Init => UartInv BY UartInit
<1>2. UartInv /\ [Next]_vars => UartInv' BY UartKept
<1>3. UartInv /\ [Next]_vars => [Begins /\ b.ended => calm = 0]_vars
  <2> SUFFICES ASSUME UartInv, Next, Begins, b.ended
               PROVE  calm = 0
    BY DEF vars
  <2>1. PICK s, write, boot, byte : LinkEdge(s, write, boot, byte) BY NextIsLinkEdge
  <2>2. Moves(s) BY <2>1, SenderMoves DEF UartInv
  <2>3. b.rts = 0
    BY <2>2 DEF Begins, Moves, Rests, Takes, Waits, Starts, GoesOn, GoesUp, Finishes, OnLine, Idle
  <2> QED BY <2>3 DEF UartInv, RtsInv
<1> QED BY <1>1, <1>2, <1>3, PTL DEF Spec, StopsSender

=============================================================================
