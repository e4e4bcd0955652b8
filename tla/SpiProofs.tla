------------------------------ MODULE SpiProofs -----------------------------
(***************************************************************************)
(* A theorem about SpiMaster: the DMA never overruns the Tx FIFO.  It      *)
(* holds for every configuration, every relation of the two clocks and     *)
(* every delay of the DMA.                                                 *)
(***************************************************************************)
EXTENDS SpiMaster, TLAPS

(* The registers the argument is about.                                    *)
Fields == {"state", "next", "eot", "fifoInit", "rptrTx"}
McuFields == {"conf", "reset", "dma", "rdy", "wptrTx"}

Ptr == 0 .. PtrMod - 1
Held(wptr, rptr) == (wptr + PtrMod - rptr) % PtrMod

(* The byte machine: an end is announced before the machine waits to       *)
(* become idle, and the FIFO is initialised before anything is read.       *)
FastInv ==
  /\ Fields \subseteq DOMAIN f
  /\ f.state \in {"idle", "wait", "start", "send", "stop"}
  /\ f.next \in {"idle", "send"}
  /\ f.rptrTx \in Ptr /\ f.eot \in BOOLEAN /\ f.fifoInit \in BOOLEAN
  /\ phase = "dma" =>
       /\ f.state = "wait" /\ f.next = "idle" => f.eot
       /\ f.fifoInit => f.state = "idle" /\ f.rptrTx = 0

McuInv ==
  /\ McuFields \subseteq DOMAIN m /\ m.conf.master
  /\ m.rdy \in BOOLEAN
  /\ phase \in {"reset", "conf", "dma"} => m.wptrTx \in Ptr
  /\ src.stage \in {"look", "send", "gap"} /\ src.en = (src.stage = "gap")

(* Before and right behind the configuration nothing has moved.            *)
Unused == phase \in {"reset", "conf"}

StartInv ==
  Unused \/ (phase = "dma" /\ m.reset) =>
    /\ f.state = "idle" /\ f.rptrTx = 0 /\ m.wptrTx = 0
    /\ src.stage = "look" /\ ~m.rdy
    /\ Unused => f.eot /\ ~m.reset /\ ~m.dma

(* While a transfer of the DMA lasts there is room for what it was told    *)
(* there is room for, until ready has been judged with that byte.          *)
RoomInv ==
  phase = "dma" /\ ~f.eot =>
    /\ Held(m.wptrTx, f.rptrTx) <= Depth
    /\ m.rdy \/ src.stage # "look" => Held(m.wptrTx, f.rptrTx) < Depth

FifoInv == FastInv /\ McuInv /\ StartInv /\ RoomInv

-----------------------------------------------------------------------------
(* What the states of the byte machine do to these registers; g holds them *)
(* before the edge, w what the edge has assigned so far.                   *)
Agree(g, w) == Fields \subseteq DOMAIN w /\ \A x \in Fields : w[x] = g[x]

LEMMA FromIdleFields ==
  ASSUME NEW g, NEW n, NEW w, Agree(g, w), g.fifoInit \in BOOLEAN
  PROVE  LET v == FromIdle(g, n, w) IN
         /\ Fields \subseteq DOMAIN v
         /\ v.state = g.state \/ (v.state = "start" /\ ~g.eot)
         /\ v.next = g.next /\ v.eot = g.eot
         /\ v.fifoInit \in BOOLEAN /\ ~v.fifoInit
         /\ v.rptrTx = (IF g.fifoInit THEN 0 ELSE g.rptrTx)
BY DEF Agree, Fields, FromIdle

LEMMA LoadedFields ==
  ASSUME NEW g, NEW n, NEW w, n.conf.master,
         Fields \subseteq DOMAIN w, w.rptrTx = g.rptrTx
  PROVE  LET v == Loaded(g, n, w) IN
         /\ Fields \subseteq DOMAIN v
         /\ v.state = w.state \/ v.state = "stop"
         /\ v.next = w.next /\ v.eot = w.eot /\ v.fifoInit = w.fifoInit
         /\ \/ v.rptrTx = g.rptrTx
            \/ v.rptrTx = Next8(g.rptrTx) /\ (n.wptrTx # g.rptrTx \/ g.next = "idle")
BY DEF Fields, Loaded, DoTx

LEMMA WaitedFields ==
  ASSUME NEW g, NEW n, NEW w, Agree(g, w), n.conf.master
  PROVE  LET v == Waited(g, n, w) IN
         /\ Fields \subseteq DOMAIN v
         /\ v.state \in {g.state, g.next, "idle", "stop"}
         /\ v.next = g.next /\ v.eot = g.eot /\ v.fifoInit = g.fifoInit
         /\ \/ v.rptrTx = g.rptrTx
            \/ v.rptrTx = Next8(g.rptrTx) /\ (n.wptrTx # g.rptrTx \/ g.next = "idle")
<1> DEFINE Over(u) == /\ Fields \subseteq DOMAIN u
                      /\ u.state \in {g.state, g.next, "idle", "stop"}
                      /\ u.next = g.next /\ u.eot = g.eot /\ u.fifoInit = g.fifoInit
                      /\ \/ u.rptrTx = g.rptrTx
                         \/ u.rptrTx = Next8(g.rptrTx)
                            /\ (n.wptrTx # g.rptrTx \/ g.next = "idle")
           left == (g.cnt - 1) % CntMod
           v0 == [w EXCEPT !.cnt = left]
           vGo == [v0 EXCEPT !.state = g.next]
           vEnd == [v0 EXCEPT !.state = "idle", !.ready = TRUE,
                              !.csnIo = IF n.conf.master THEN 1 ELSE @]
           over == g.cnt = 1 \/ RxTrans(g, n)
           v1 == CASE ~over -> v0
                   [] over /\ g.next # "idle" -> Loaded(g, n, vGo)
                   [] over /\ g.next = "idle" -> Loaded(g, n, vEnd)
           v2 == IF n.conf.master /\ left = n.conf.div \div 2 /\ g.sending
                 THEN [v1 EXCEPT !.masterClk = 1 - g.masterClk, !.clkIo = 1 - g.masterClk]
                 ELSE v1
           v3 == IF g.csn = 1 THEN [v2 EXCEPT !.state = "idle", !.cnt = n.conf.csn] ELSE v2
<1>1. Over(v0)
  BY DEF Agree, Fields
<1>2. Over(Loaded(g, n, vGo))
  <2>1. /\ Fields \subseteq DOMAIN vGo /\ vGo.rptrTx = g.rptrTx
        /\ vGo.state = g.next /\ vGo.next = g.next
        /\ vGo.eot = g.eot /\ vGo.fifoInit = g.fifoInit
    BY DEF Agree, Fields
  <2> HIDE DEF vGo
  <2> QED BY <2>1, LoadedFields
<1>3. Over(Loaded(g, n, vEnd))
  <2>1. /\ Fields \subseteq DOMAIN vEnd /\ vEnd.rptrTx = g.rptrTx
        /\ vEnd.state = "idle" /\ vEnd.next = g.next
        /\ vEnd.eot = g.eot /\ vEnd.fifoInit = g.fifoInit
    BY DEF Agree, Fields
  <2> HIDE DEF vEnd
  <2> QED BY <2>1, LoadedFields
<1>4. Over(v1)
  <2> HIDE DEF v0, vGo, vEnd, Over
  <2> QED BY <1>1, <1>2, <1>3
<1>5. Over(v2)
  <2> HIDE DEF v1
  <2> QED BY <1>4 DEF Fields
<1>6. Over(v3)
  <2> HIDE DEF v2
  <2> QED BY <1>5 DEF Fields
<1> QED BY <1>6 DEF Waited

LEMMA StartedFields ==
  ASSUME NEW g, NEW n, NEW w, Agree(g, w)
  PROVE  LET v == Started(g, n, w) IN
         /\ Fields \subseteq DOMAIN v
         /\ v.state = "wait" /\ v.next = "send"
         /\ v.eot = g.eot /\ v.fifoInit = g.fifoInit /\ v.rptrTx = g.rptrTx
BY DEF Agree, Fields, Started

LEMMA SentFields ==
  ASSUME NEW g, NEW n, NEW w, Agree(g, w)
  PROVE  LET v == Sent(g, n, w) IN
         /\ Fields \subseteq DOMAIN v
         /\ v.state = "wait" /\ v.next = "send"
         /\ v.eot = g.eot /\ v.fifoInit = g.fifoInit /\ v.rptrTx = g.rptrTx
BY DEF Agree, Fields, Sent, ClockRests

LEMMA StoppedFields ==
  ASSUME NEW g, NEW n, NEW w, Agree(g, w)
  PROVE  LET v == Stopped(g, n, w) IN
         /\ Fields \subseteq DOMAIN v
         /\ v.state = "wait" /\ v.next = "idle" /\ v.eot \in BOOLEAN /\ v.eot
         /\ v.fifoInit = g.fifoInit /\ v.rptrTx = g.rptrTx
BY DEF Agree, Fields, Stopped, ClockRests

LEMMA ReceivedFields ==
  ASSUME NEW g, NEW n, NEW w, Fields \subseteq DOMAIN w
  PROVE  LET v == Received(g, n, w) IN
         /\ Fields \subseteq DOMAIN v
         /\ v.next = w.next /\ v.fifoInit = w.fifoInit /\ v.rptrTx = w.rptrTx
         /\ \/ v.state = w.state /\ v.eot = w.eot
            \/ v.state = "idle" /\ v.eot \in BOOLEAN /\ v.eot
BY DEF Fields, Received

LEMMA RestartedFields ==
  ASSUME NEW n, NEW w, Fields \subseteq DOMAIN w
  PROVE  LET v == Restarted(n, w) IN
         /\ Fields \subseteq DOMAIN v
         /\ v.next = w.next /\ v.rptrTx = w.rptrTx
         /\ n.reset =>
              /\ v.state = "idle"
              /\ v.eot \in BOOLEAN /\ ~v.eot
              /\ v.fifoInit \in BOOLEAN /\ v.fifoInit
         /\ ~n.reset => v.state = w.state /\ v.eot = w.eot /\ v.fifoInit = w.fifoInit
BY DEF Fields, Restarted, PinsRest

(* An edge of clk_120.  Only an announced end may become idle by waiting,  *)
(* and only a byte that is there, or the end, moves the read pointer.      *)
FastKept(g, n, u) ==
  /\ Fields \subseteq DOMAIN u
  /\ u.state \in {"idle", "wait", "start", "send", "stop"} /\ u.next \in {"idle", "send"}
  /\ u.eot \in BOOLEAN /\ u.fifoInit \in BOOLEAN
  /\ g.eot => u.eot
  /\ g.state = "idle" \/ ~g.fifoInit => ~u.fifoInit
  /\ u.state = "wait" /\ u.next = "idle" => u.eot \/ (g.state = "wait" /\ g.next = "idle")
  /\ g.state = "idle" /\ g.eot => u.state = "idle"
  /\ \/ u.rptrTx = g.rptrTx
     \/ g.state = "idle" /\ g.fifoInit /\ u.rptrTx = 0
     \/ g.state = "wait" /\ u.rptrTx = Next8(g.rptrTx)
        /\ (n.wptrTx # g.rptrTx \/ g.next = "idle")

LEMMA FastFields ==
  ASSUME FastInv, m.conf.master, NEW pins, NEW v, v = FastEdge(f, m, pins)
  PROVE  \E u : /\ FastKept(f, m, u)
                /\ Fields \subseteq DOMAIN v
                /\ v.next = u.next /\ v.rptrTx = u.rptrTx
                /\ m.reset =>
                     /\ v.state = "idle"
                     /\ v.eot \in BOOLEAN /\ ~v.eot
                     /\ v.fifoInit \in BOOLEAN /\ v.fifoInit
                /\ ~m.reset =>
                     /\ v.state = u.state /\ v.eot = u.eot /\ v.fifoInit = u.fifoInit
<1> DEFINE w0 == [f EXCEPT !.rx = pins.rx, !.clk = pins.clk, !.clkp = f.clk,
                           !.csnp = f.csn,
                           !.csn = IF m.conf.master THEN @ ELSE pins.csn,
                           !.avail = (m.wptrTx # f.rptrTx)]
           w1 == Stepped(f, m, w0)
           w2 == Received(f, m, w1)
<1>1. Agree(f, w0)
  BY DEF Agree, Fields, FastInv
<1>2. FastKept(f, m, w1)
  <2> HIDE DEF w0
  <2>0. /\ f.state \in {"idle", "wait", "start", "send", "stop"}
        /\ f.next \in {"idle", "send"} /\ f.eot \in BOOLEAN /\ f.fifoInit \in BOOLEAN
    BY DEF FastInv
  <2>1. CASE f.state = "idle"
    <3>1. w1 = FromIdle(f, m, w0) BY <2>1 DEF Stepped
    <3> HIDE DEF w1
    <3> QED BY <1>1, <2>0, <2>1, <3>1, FromIdleFields DEF FastKept
  <2>2. CASE f.state = "wait"
    <3>1. w1 = Waited(f, m, w0) BY <2>2 DEF Stepped
    <3> HIDE DEF w1
    <3> QED BY <1>1, <2>0, <2>2, <3>1, WaitedFields DEF FastKept
  <2>3. CASE f.state = "start"
    <3>1. w1 = Started(f, m, w0) BY <2>3 DEF Stepped
    <3> HIDE DEF w1
    <3> QED BY <1>1, <2>0, <2>3, <3>1, StartedFields DEF FastKept
  <2>4. CASE f.state = "send"
    <3>1. w1 = Sent(f, m, w0) BY <2>4 DEF Stepped
    <3> HIDE DEF w1
    <3> QED BY <1>1, <2>0, <2>4, <3>1, SentFields DEF FastKept
  <2>5. CASE f.state = "stop"
    <3>1. w1 = Stopped(f, m, w0) BY <2>5 DEF Stepped
    <3> HIDE DEF w1
    <3> QED BY <1>1, <2>0, <2>5, <3>1, StoppedFields DEF FastKept
  <2> QED BY <2>0, <2>1, <2>2, <2>3, <2>4, <2>5
<1>3. FastKept(f, m, w2)
  <2> HIDE DEF w1
  <2> QED BY <1>2, ReceivedFields DEF FastKept
<1>4. v = Restarted(m, w2)
  BY DEF FastEdge
<1> HIDE DEF w2
<1> QED BY <1>3, <1>4, RestartedFields DEF FastKept

-----------------------------------------------------------------------------
(* The pointers.                                                           *)
LEMMA Pointers ==
  ASSUME NEW a \in Ptr, NEW b \in Ptr
  PROVE  /\ Next8(a) \in Ptr
         /\ Held(a, b) \in Ptr /\ Held(0, 0) = 0
         /\ FullAt(a, b) <=> Held(a, b) = Depth
         /\ a # b <=> Held(a, b) > 0
         /\ Held(a, b) > 0 => Held(a, Next8(b)) = Held(a, b) - 1
         /\ Held(a, b) < Depth => Held(Next8(a), b) = Held(a, b) + 1
BY DEF Ptr, PtrMod, Next8, Held, FullAt, Depth

LEMMA FastStepOk ==
  ASSUME FifoInv, FastStep
  PROVE  FifoInv'
<1>1. PICK u : /\ FastKept(f, m, u)
               /\ Fields \subseteq DOMAIN f'
               /\ f'.next = u.next /\ f'.rptrTx = u.rptrTx
               /\ m.reset =>
                    /\ f'.state = "idle"
                    /\ f'.eot \in BOOLEAN /\ ~f'.eot
                    /\ f'.fifoInit \in BOOLEAN /\ f'.fifoInit
               /\ ~m.reset =>
                    /\ f'.state = u.state /\ f'.eot = u.eot /\ f'.fifoInit = u.fifoInit
  BY FastFields DEF FifoInv, McuInv, FastStep
<1>2. UNCHANGED <<m, phase, src>>
  BY DEF FastStep
<1>3. f'.rptrTx \in Ptr
  BY <1>1, Pointers DEF FifoInv, FastInv, FastKept, Ptr, PtrMod
<1>4. FastInv'
  BY <1>1, <1>2, <1>3 DEF FifoInv, FastInv, StartInv, FastKept, Unused
<1>5. McuInv'
  BY <1>2 DEF FifoInv, McuInv
<1>6. StartInv'
  BY <1>1, <1>2 DEF FifoInv, FastInv, StartInv, FastKept, Unused
<1>7. RoomInv'
  BY <1>1, <1>2, <1>3, Pointers
     DEF FifoInv, FastInv, McuInv, StartInv, RoomInv, FastKept, Depth, Ptr, PtrMod
<1> QED BY <1>4, <1>5, <1>6, <1>7 DEF FifoInv

(* An edge of clk_mcu: a byte of the DMA is stored while a transfer of the *)
(* DMA lasts, and ready looks at the room behind it.                       *)
LEMMA McuFieldsOf ==
  ASSUME McuInv, NEW g, NEW p, NEW v, v = McuEdge(m, g, p),
         p.write \in {"none", "conf", "data", "read"}
  PROVE  /\ McuFields \subseteq DOMAIN v /\ v.rdy \in BOOLEAN /\ v.conf = m.conf
         /\ p.write = "none" => ~v.reset
         /\ p.write = "none" /\ ~m.dma => v.wptrTx = m.wptrTx /\ ~v.rdy
         /\ p.write = "none" /\ m.dma =>
              /\ v.wptrTx = (IF p.en THEN Next8(m.wptrTx) ELSE m.wptrTx)
              /\ v.rdy = ~FullAt(v.wptrTx, g.rptrTx)
         /\ p.write = "conf" /\ ~m.dma => v.wptrTx = m.wptrTx /\ ~v.rdy
         /\ p.write = "none" /\ ~m.dma => ~v.dma
<1> DEFINE w == McuWritten(m, g, p)
           x == McuTx(m, g, p, w)
           y == McuRx(m, g, p, x)
<1>1. /\ McuFields \subseteq DOMAIN w /\ w.rdy \in BOOLEAN /\ w.conf = m.conf
      /\ p.write = "none" => ~w.reset /\ w.wptrTx = m.wptrTx /\ w.dma = m.dma
      /\ p.write = "conf" => w.wptrTx = m.wptrTx
  BY DEF McuInv, McuFields, McuWritten
<1>2. /\ McuFields \subseteq DOMAIN x /\ x.rdy \in BOOLEAN /\ x.conf = w.conf
      /\ x.reset = w.reset
      /\ x.rdy = ~FullAt(IF p.en THEN Next8(m.wptrTx) ELSE m.wptrTx, g.rptrTx)
      /\ x.wptrTx = (IF p.en THEN Next8(m.wptrTx) ELSE w.wptrTx)
  <2> HIDE DEF w
  <2> QED BY <1>1 DEF McuFields, McuTx
<1>3. /\ McuFields \subseteq DOMAIN y
      /\ y.conf = x.conf /\ y.reset = x.reset /\ y.rdy = x.rdy /\ y.wptrTx = x.wptrTx
  <2> HIDE DEF x
  <2> QED BY <1>2 DEF McuFields, McuRx
<1>4. CASE ~m.dma
  <2>1. v = [w EXCEPT !.rdy = FALSE, !.en = FALSE]
    BY <1>4 DEF McuEdge
  <2> HIDE DEF w
  <2> QED BY <1>1, <1>4, <2>1 DEF McuFields
<1>5. CASE m.dma /\ g.eot
  <2>1. v = [y EXCEPT !.dma = FALSE, !.waitGrant = FALSE]
    BY <1>5 DEF McuEdge
  <2> HIDE DEF w, x, y
  <2> QED BY <1>1, <1>2, <1>3, <1>5, <2>1 DEF McuFields
<1>6. CASE m.dma /\ ~g.eot
  <2>1. v = y
    BY <1>6 DEF McuEdge
  <2> HIDE DEF w, x, y
  <2> QED BY <1>1, <1>2, <1>3, <1>6, <2>1
<1> QED BY <1>4, <1>5, <1>6

-----------------------------------------------------------------------------
(* The program before a transfer of the DMA, and in words of its own.      *)
LEMMA ConfigureOk ==
  ASSUME FifoInv, Configure
  PROVE  FifoInv'
<1>1. /\ Unused /\ phase' \in {"dma", "ready"} /\ UNCHANGED <<f, src>>
      /\ m' = McuEdge(m, f, [write |-> "conf", bytes |-> Empty, en |-> src.en,
                             data |-> src.data, grant |-> grant])
  BY DEF Configure, McuStep, Programmed, Unused
<1>2. /\ McuFields \subseteq DOMAIN m' /\ m'.rdy \in BOOLEAN
      /\ m'.wptrTx = m.wptrTx /\ ~m'.rdy /\ m'.conf = m.conf
  BY <1>1, McuFieldsOf DEF FifoInv, StartInv, McuInv
<1>3. FastInv' /\ McuInv' /\ StartInv'
  BY <1>1, <1>2 DEF FifoInv, FastInv, McuInv, StartInv, Unused
<1>4. RoomInv'
  BY <1>1 DEF FifoInv, StartInv, RoomInv, Unused
<1> QED BY <1>3, <1>4 DEF FifoInv

LEMMA WordOk ==
  ASSUME FifoInv, WriteSlave \/ WriteWord \/ SeesIdle \/ ReadsSlave \/ ReadsWord
  PROVE  FifoInv'
<1>1. PICK p : /\ p.write \in {"none", "data", "read"} /\ m' = McuEdge(m, f, p)
               /\ phase' \in {"ready", "given", "busy", "over", "read"}
               /\ UNCHANGED <<f, src>>
  BY DEF WriteSlave, WriteWord, SeesIdle, ReadsSlave, ReadsWord, McuStep, Programmed
<1>2. McuFields \subseteq DOMAIN m' /\ m'.rdy \in BOOLEAN /\ m'.conf = m.conf
  BY <1>1, McuFieldsOf DEF FifoInv
<1> QED
  BY <1>1, <1>2 DEF FifoInv, FastInv, McuInv, StartInv, RoomInv, Unused

LEMMA ProgramWaitsOk ==
  ASSUME FifoInv, ConfigureSlave \/ ProgramWaits
  PROVE  FifoInv'
<1>1. /\ phase # "dma" /\ phase' # "dma" /\ UNCHANGED <<f, src>>
      /\ phase' = phase \/ (Unused /\ Unused')
      /\ m' = McuEdge(m, f, [write |-> "none", bytes |-> Empty, en |-> src.en,
                             data |-> src.data, grant |-> grant])
  BY DEF ConfigureSlave, ProgramWaits, McuStep, Programmed, Unused
<1>2. /\ McuFields \subseteq DOMAIN m' /\ m'.rdy \in BOOLEAN /\ m'.conf = m.conf
      /\ ~m'.reset
      /\ ~m.dma => m'.wptrTx = m.wptrTx /\ ~m'.rdy /\ ~m'.dma
  BY <1>1, McuFieldsOf DEF FifoInv
<1>3. FastInv' /\ McuInv' /\ StartInv'
  BY <1>1, <1>2 DEF FifoInv, FastInv, McuInv, StartInv, Unused
<1>4. RoomInv'
  BY <1>1 DEF RoomInv
<1> QED BY <1>3, <1>4 DEF FifoInv

(* The DMA: it looked at ready before it gives, and there it stays.        *)
LEMMA DmaStepOk ==
  ASSUME FifoInv, DmaStep
  PROVE  FifoInv'
<1>1. /\ phase = "dma" /\ phase' = "dma" /\ UNCHANGED f /\ Source
      /\ m' = McuEdge(m, f, [write |-> "none", bytes |-> Empty, en |-> src.en,
                             data |-> src.data, grant |-> grant])
  BY DEF DmaStep, McuStep
<1>2. /\ McuFields \subseteq DOMAIN m' /\ m'.rdy \in BOOLEAN /\ m'.conf = m.conf
      /\ ~m'.reset
      /\ ~m.dma => m'.wptrTx = m.wptrTx /\ ~m'.rdy
      /\ m.dma => /\ m'.wptrTx = (IF src.en THEN Next8(m.wptrTx) ELSE m.wptrTx)
                  /\ m'.rdy = ~FullAt(m'.wptrTx, f.rptrTx)
  BY <1>1, McuFieldsOf DEF FifoInv
<1>3. /\ src'.stage \in {"look", "send", "gap"} /\ src'.en = (src'.stage = "gap")
      /\ src'.stage = "send" => src.stage = "send" \/ (src.stage = "look" /\ m.rdy)
      /\ src'.stage = "gap" => src.stage = "send"
  <2>1. CASE UNCHANGED src /\ src.stage = "look"
    BY <2>1 DEF FifoInv, McuInv
  <2>2. CASE src.stage = "look" /\ m.rdy /\ src' = [src EXCEPT !.stage = "send"]
    BY <2>2 DEF FifoInv, McuInv
  <2>3. CASE Gives /\ src' = [stage |-> "gap", en |-> TRUE, data |-> Byte(count + 1)]
    BY <2>3 DEF Gives
  <2>4. CASE src.stage = "gap" /\ src' = NoSource
    BY <2>4 DEF NoSource
  <2> QED BY <1>1, <2>1, <2>2, <2>3, <2>4 DEF Source
<1>4. m.wptrTx \in Ptr /\ f.rptrTx \in Ptr /\ m'.wptrTx \in Ptr
  BY <1>1, <1>2, Pointers DEF FifoInv, FastInv, McuInv
<1>5. FastInv' /\ McuInv' /\ StartInv'
  BY <1>1, <1>2, <1>3, <1>4 DEF FifoInv, FastInv, McuInv, StartInv, Unused
<1>6. RoomInv'
  <2> SUFFICES ASSUME ~f.eot
               PROVE  /\ Held(m'.wptrTx, f.rptrTx) <= Depth
                      /\ m'.rdy \/ src'.stage # "look" => Held(m'.wptrTx, f.rptrTx) < Depth
    BY <1>1 DEF RoomInv
  <2>1. /\ Held(m.wptrTx, f.rptrTx) \in Ptr /\ Held(m.wptrTx, f.rptrTx) <= Depth
        /\ m.rdy \/ src.stage # "look" => Held(m.wptrTx, f.rptrTx) < Depth
        /\ src.en = (src.stage = "gap") /\ src.stage \in {"look", "send", "gap"}
    BY <1>1, <1>4, Pointers DEF FifoInv, McuInv, RoomInv
  <2>2. /\ FullAt(m'.wptrTx, f.rptrTx) <=> Held(m'.wptrTx, f.rptrTx) = Depth
        /\ Held(m'.wptrTx, f.rptrTx) \in Ptr
        /\ Held(m.wptrTx, f.rptrTx) < Depth
             => Held(Next8(m.wptrTx), f.rptrTx) = Held(m.wptrTx, f.rptrTx) + 1
    BY <1>4, Pointers
  <2>3. CASE ~m.dma
    BY <1>2, <1>3, <2>1, <2>3
  <2>4. CASE m.dma /\ src.stage = "gap"
    BY <1>2, <1>3, <2>1, <2>2, <2>4 DEF Depth, Ptr, PtrMod
  <2>5. CASE m.dma /\ src.stage # "gap"
    <3>1. m'.wptrTx = m.wptrTx
      BY <1>2, <2>1, <2>5
    <3>2. m'.rdy => Held(m'.wptrTx, f.rptrTx) # Depth
      BY <1>2, <2>2, <2>5
    <3>3. src'.stage # "look" => m.rdy \/ src.stage # "look"
      BY <1>3
    <3> QED BY <2>1, <3>1, <3>2, <3>3 DEF Depth, Ptr, PtrMod
  <2> QED BY <2>3, <2>4, <2>5
<1> QED BY <1>5, <1>6 DEF FifoInv

(* The DMA never overruns the Tx FIFO, whatever the configuration, however *)
(* the two clocks meet and however late the DMA is: the ready line of      *)
(* SPI.h:226 is judged with the byte that is just coming in, and the DMA   *)
(* looks at it once more before the next one.                              *)
THEOREM TxNeverOverrun == Spec => []TxHasRoom
<1>1. Init => FifoInv
  <2> SUFFICES ASSUME Init PROVE FifoInv
    OBVIOUS
  <2>1. PICK c \in Confs : m = McuReset(c)
    BY DEF Init
  <2>2. /\ McuFields \subseteq DOMAIN m /\ m.wptrTx = 0
        /\ m.rdy \in BOOLEAN /\ ~m.rdy /\ ~m.reset /\ ~m.dma /\ m.conf.master
    BY <2>1, MasterAssumption DEF McuReset, McuFields
  <2>3. /\ Fields \subseteq DOMAIN f /\ f.state = "idle" /\ f.next = "idle"
        /\ f.rptrTx = 0 /\ f.eot \in BOOLEAN /\ f.eot /\ f.fifoInit \in BOOLEAN
    BY DEF Init, FastReset, Fields
  <2>4. /\ phase = "reset" /\ src.stage = "look"
        /\ src.en = (src.stage = "gap")
    BY DEF Init, NoSource
  <2>5. 0 \in Ptr
    BY DEF Ptr, PtrMod
  <2>6. FastInv /\ McuInv /\ StartInv
    BY <2>2, <2>3, <2>4, <2>5 DEF FastInv, McuInv, StartInv, Unused
  <2>7. RoomInv
    BY <2>4 DEF RoomInv
  <2> QED BY <2>6, <2>7 DEF FifoInv
<1>2. FifoInv /\ [Next]_vars => FifoInv'
  <2> SUFFICES ASSUME FifoInv, [Next]_vars PROVE FifoInv'
    OBVIOUS
  <2>1. CASE UNCHANGED vars
    BY <2>1 DEF vars, FifoInv, FastInv, McuInv, StartInv, RoomInv, Unused
  <2> QED
    BY <2>1, FastStepOk, ConfigureOk, WordOk, ProgramWaitsOk, DmaStepOk DEF Next
<1>3. FifoInv => TxHasRoom
  BY Pointers DEF FifoInv, FastInv, McuInv, RoomInv, TxHasRoom, Depth
<1> QED BY <1>1, <1>2, <1>3, PTL DEF Spec

=============================================================================
