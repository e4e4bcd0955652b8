-------------------------------- MODULE Dma --------------------------------
(***************************************************************************)
(* The DMA controller (src/Source/dma.h): NChannels channels that move     *)
(* bytes from a peripheral to data memory or back, sharing one request     *)
(* port towards the core's bus.                                            *)
(*                                                                         *)
(* The whole block is one clocked process: every channel reads the values  *)
(* all registers had before the edge, and where two statements assign the  *)
(* same register the last one in program order wins: a register write by   *)
(* the core comes first, then boot mode, then the channels by index.       *)
(***************************************************************************)
EXTENDS Naturals, FiniteSets

CONSTANTS
  NChannels,  \* nCHANNELS
  WordBytes,  \* bytes in a memory word (4)
  AddrMod,    \* 2^data_addr_span
  SizeMod,    \* 2^DMA_TSFR_SZ
  TimeMod,    \* 2^DMA_TIME_SZ
  WaitMod,    \* 2^DMA_WAIT_TIME_SZ
  Bytes,      \* the bytes that are moved
  NoByte      \* a lane of tmp_data that was not filled

ASSUME DmaAssumption ==
  /\ NChannels \in Nat \ {0}
  /\ WordBytes \in Nat \ {0}
  /\ AddrMod \in Nat \ {0} /\ SizeMod \in Nat \ {0}
  /\ TimeMod \in Nat \ {0} /\ WaitMod \in Nat \ {0}
  /\ NoByte \notin Bytes

Channels == 0 .. NChannels - 1
Sources == {"uart", "spi"}
Lanes == 0 .. WordBytes - 1

VARIABLES
  chan,         \* dma_channels
  cur_channel,  \* the channel the registers give access to
  lock_bus,
  request,      \* core_request_o
  d2p,          \* uart_dma_o and spi_dma_o
  irq_dma,      \* irq_dma_o
  boot_mode     \* last value of boot_mode_i

dmaVars == <<chan, cur_channel, lock_bus, request, d2p, irq_dma, boot_mode>>

Word == [Lanes -> Bytes \cup {NoByte}]
EmptyWord == [l \in Lanes |-> NoByte]

(* What a request asks of the memory; the channel is history.              *)
Accesses == [ch : Channels, word : 0 .. AddrMod - 1, data : Word, be : SUBSET Lanes]
NoRequest == [cs |-> FALSE, wr |-> FALSE,
              acc |-> [ch |-> 0, word |-> 0, data |-> EmptyWord, be |-> {}]]

Idle == [state |-> "idle", addr |-> 0, size |-> 0, wait_time |-> 0,
         priority |-> 0, tmp_data |-> EmptyWord, tmp_we |-> {}, time |-> 0,
         timeout |-> 0, auto_inc |-> 0, span |-> WordBytes, source |-> "uart"]

DmaInit ==
  /\ chan = [c \in Channels |-> Idle]
  /\ cur_channel = 0
  /\ lock_bus = FALSE
  /\ request = NoRequest
  /\ d2p = [s \in Sources |-> [grant |-> FALSE, req |-> FALSE,
                               en |-> FALSE, data |-> NoByte]]
  /\ irq_dma = [c \in Channels |-> c = 1]
  /\ boot_mode = FALSE

-----------------------------------------------------------------------------
(* Helpers.                                                                *)

\* modular addition and decrement of registers
Plus(a, b, mod) == (a + b) % mod

Minus1(a, mod) == (a + mod - 1) % mod

NextAddr(c) == Plus(chan[c].addr, chan[c].auto_inc, AddrMod)

\* the next byte belongs to the memory unit of the current one
SameUnit(c) == NextAddr(c) \div chan[c].span = chan[c].addr \div chan[c].span

Lane(c) == chan[c].addr % WordBytes
In(c, st) == chan[c].state = st

(* Non-blocking assignments of one register by several channels: assign[c] *)
(* holds the value channel c assigns, or nothing; the highest index wins.  *)
LastAssigned(assign, old) ==
  LET writers == {c \in Channels : assign[c] # {}} IN
  IF writers = {} THEN old
  ELSE LET last == CHOOSE c \in writers : \A d \in writers : d <= c
       IN CHOOSE v \in assign[last] : TRUE

-----------------------------------------------------------------------------
(* Register writes and boot mode: what the channels start the edge with.   *)

NoWrite == [reg |-> "none"]
BootEntry(boot_mode_i) == boot_mode_i /\ ~boot_mode
BootExit(boot_mode_i) == boot_mode /\ ~boot_mode_i

Written(c, w) ==
  IF c # cur_channel THEN chan[c]
  ELSE CASE w.reg = "addr" -> [chan[c] EXCEPT !.addr = w.val]
         [] w.reg = "size" -> [chan[c] EXCEPT !.size = w.val]
         [] w.reg = "timeout" -> [chan[c] EXCEPT !.timeout = w.val]
         [] w.reg = "config" ->
              [chan[c] EXCEPT !.source = w.val.source, !.auto_inc = w.val.auto_inc,
                 !.span = w.val.span, !.priority = w.val.priority,
                 !.wait_time = w.val.priority,
                 !.state = IF w.val.to_mem THEN "wait_for_periph_data" ELSE "read_mem"]
         [] OTHER -> chan[c]

Booted(c, boot_mode_i, k) ==
  CASE BootEntry(boot_mode_i) /\ c = 0 ->
         [k EXCEPT !.source = "uart", !.addr = 0, !.auto_inc = 1,
            !.span = WordBytes, !.state = "wait_for_periph_data"]
    [] BootEntry(boot_mode_i) /\ c # 0 -> [k EXCEPT !.state = "idle"]
    [] BootExit(boot_mode_i) /\ c = cur_channel -> [k EXCEPT !.state = "idle"]
    [] OTHER -> k

-----------------------------------------------------------------------------
(* Arbitration: the highest accumulated priority among the channels that   *)
(* have a request to issue, the highest index on a tie, else channel 0.    *)
Requesting == {c \in Channels : In(c, "write_mem") \/ In(c, "read_mem")}

Selected ==
  IF Requesting = {} THEN 0
  ELSE CHOOSE c \in Requesting : \A d \in Requesting :
         \/ chan[d].wait_time < chan[c].wait_time
         \/ chan[d].wait_time = chan[c].wait_time /\ d <= c

IssuesWrite(c) == In(c, "write_mem") /\ Selected = c
IssuesRead(c) == In(c, "read_mem") /\ Selected = c /\ ~lock_bus
Issues(c) == IssuesWrite(c) \/ IssuesRead(c)

(* Conditions the states of a channel test.                                *)
HasByte(c, p2d) == In(c, "wait_for_periph_data") /\ p2d[chan[c].source].en
TimesOut(c, p2d) ==
  /\ In(c, "wait_for_periph_data") /\ ~p2d[chan[c].source].en
  /\ chan[c].time = 0 /\ chan[c].timeout # 0
Granted(c, grant) ==
  grant /\ (In(c, "wait_for_wr_grant") \/ In(c, "wait_for_rd_grant"))
\* MUTANTS: the transfer ends with the first word; one byte too early
EndsWriteAlways(c, grant) == In(c, "wait_for_wr_grant") /\ grant
EndsWriteOffByOne(c, grant) ==
  In(c, "wait_for_wr_grant") /\ grant /\ chan[c].size = 1

EndsWrite(c, grant) == In(c, "wait_for_wr_grant") /\ grant /\ chan[c].size = 0

\* MUTANT: the grant stays up while a word is written to memory
LowersGrantLate(c) == In(c, "send_periph_grant")

LowersGrant(c) == In(c, "send_periph_grant") \/ In(c, "write_mem")

-----------------------------------------------------------------------------
(* The channel state machine, one operator per state.  k is the channel    *)
(* after register writes; what the state tests is the value before them.   *)

Aged(c) == Plus(chan[c].wait_time, chan[c].priority, WaitMod)

\* MUTANT: a byte enable replaces those of the bytes before
WaitForPeriphDataOneLane(c, k, p2d) ==
  IF HasByte(c, p2d)
  THEN [k EXCEPT !.tmp_data = [chan[c].tmp_data EXCEPT ![Lane(c)] = p2d[chan[c].source].data],
                 !.tmp_we = {Lane(c)},
                 !.size = Minus1(chan[c].size, SizeMod),
                 !.time = chan[c].timeout,
                 !.state = IF SameUnit(c) THEN "send_periph_grant" ELSE "write_mem"]
  ELSE [k EXCEPT !.time = Minus1(chan[c].time, TimeMod),
                 !.state = IF TimesOut(c, p2d) THEN "idle" ELSE @]

\* MUTANT: the timeout is not restarted by a byte
WaitForPeriphDataNoReload(c, k, p2d) ==
  IF HasByte(c, p2d)
  THEN [k EXCEPT !.tmp_data = [chan[c].tmp_data EXCEPT ![Lane(c)] = p2d[chan[c].source].data],
                 !.tmp_we = chan[c].tmp_we \cup {Lane(c)},
                 !.size = Minus1(chan[c].size, SizeMod),
                 !.state = IF SameUnit(c) THEN "send_periph_grant" ELSE "write_mem"]
  ELSE [k EXCEPT !.time = Minus1(chan[c].time, TimeMod),
                 !.state = IF TimesOut(c, p2d) THEN "idle" ELSE @]

WaitForPeriphData(c, k, p2d) ==
  IF HasByte(c, p2d)
  THEN [k EXCEPT !.tmp_data = [chan[c].tmp_data EXCEPT ![Lane(c)] = p2d[chan[c].source].data],
                 !.tmp_we = chan[c].tmp_we \cup {Lane(c)},
                 !.size = Minus1(chan[c].size, SizeMod),
                 !.time = chan[c].timeout,
                 !.state = IF SameUnit(c) THEN "send_periph_grant" ELSE "write_mem"]
  ELSE [k EXCEPT !.time = Minus1(chan[c].time, TimeMod),
                 !.state = IF TimesOut(c, p2d) THEN "idle" ELSE @]

SendPeriphGrant(c, k) ==
  [k EXCEPT !.state = "wait_for_periph_data", !.addr = NextAddr(c)]

WriteMem(c, k) ==
  IF IssuesWrite(c)
  THEN [k EXCEPT !.tmp_data = EmptyWord, !.tmp_we = {}, !.addr = NextAddr(c),
                 !.wait_time = chan[c].priority, !.state = "wait_for_wr_grant"]
  ELSE [k EXCEPT !.wait_time = Aged(c)]

\* MUTANT: a grant is only taken for the last word
WaitForWrGrantLast(c, k, grant) ==
  IF EndsWrite(c, grant) THEN [k EXCEPT !.state = "idle"] ELSE k

WaitForWrGrant(c, k, grant) ==
  CASE EndsWrite(c, grant) -> [k EXCEPT !.state = "idle"]
    [] grant /\ ~EndsWrite(c, grant) -> [k EXCEPT !.state = "wait_for_periph_data"]
    [] OTHER -> k

ReadMem(c, k) ==
  IF IssuesRead(c)
  THEN [k EXCEPT !.wait_time = chan[c].priority, !.state = "wait_for_rd_grant"]
  ELSE [k EXCEPT !.wait_time = Aged(c)]

\* MUTANT: the grant is not awaited
WaitForRdGrantNot(c, k, grant) == [k EXCEPT !.state = "wait_for_rd1"]

WaitForRdGrant(c, k, grant) ==
  IF grant THEN [k EXCEPT !.state = "wait_for_rd1"] ELSE k

WaitForRd1(c, k, rd) ==
  IF rd.en THEN [k EXCEPT !.tmp_data = rd.data, !.state = "wait_for_periph_rdy"] ELSE k

WaitForPeriphRdy(c, k, p2d) ==
  IF p2d[chan[c].source].rdy
  THEN [k EXCEPT !.size = Minus1(chan[c].size, SizeMod), !.state = "send_to_periph"]
  ELSE k

\* MUTANT: ready is tested again without the cycle it takes to fall
SendToPeriphDirect(c, k) ==
  CASE chan[c].size = 0 -> [k EXCEPT !.state = "pre_idle"]
    [] chan[c].size # 0 /\ SameUnit(c) ->
         [k EXCEPT !.addr = NextAddr(c), !.state = "wait_for_periph_rdy"]
    [] chan[c].size # 0 /\ ~SameUnit(c) ->
         [k EXCEPT !.addr = NextAddr(c), !.state = "read_mem"]

SendToPeriph(c, k) ==
  CASE chan[c].size = 0 -> [k EXCEPT !.state = "pre_idle"]
    [] chan[c].size # 0 /\ SameUnit(c) ->
         [k EXCEPT !.addr = NextAddr(c), !.state = "wait_for_ready"]
    [] chan[c].size # 0 /\ ~SameUnit(c) ->
         [k EXCEPT !.addr = NextAddr(c), !.state = "read_mem"]

Fsm(c, k, p2d, grant, rd) ==
  CASE In(c, "idle") -> k
    [] In(c, "wait_for_periph_data") -> WaitForPeriphData(c, k, p2d)
    [] In(c, "send_periph_grant") -> SendPeriphGrant(c, k)
    [] In(c, "write_mem") -> WriteMem(c, k)
    [] In(c, "wait_for_wr_grant") -> WaitForWrGrant(c, k, grant)
    [] In(c, "read_mem") -> ReadMem(c, k)
    [] In(c, "wait_for_rd_grant") -> WaitForRdGrant(c, k, grant)
    [] In(c, "wait_for_rd1") -> WaitForRd1(c, k, rd)
    [] In(c, "wait_for_periph_rdy") -> WaitForPeriphRdy(c, k, p2d)
    [] In(c, "send_to_periph") -> SendToPeriph(c, k)
    [] In(c, "wait_for_ready") -> [k EXCEPT !.state = "wait_for_periph_rdy"]
    [] In(c, "pre_idle") -> [k EXCEPT !.state = "idle"]

-----------------------------------------------------------------------------
(* The registers the channels share.                                       *)

Request(c) ==
  [ch |-> c, word |-> chan[c].addr \div WordBytes,
   data |-> chan[c].tmp_data, be |-> chan[c].tmp_we]

\* A channel that issues drives the port; one that is granted releases cs_n.
RequestNext(grant, boot_mode_i) ==
  LET start == IF BootExit(boot_mode_i) THEN [request EXCEPT !.cs = FALSE, !.wr = FALSE]
               ELSE request
      cs == [c \in Channels |-> CASE Issues(c) -> {TRUE}
                                  [] Granted(c, grant) -> {FALSE}
                                  [] OTHER -> {}]
      wr == [c \in Channels |-> IF Issues(c) THEN {In(c, "write_mem")} ELSE {}]
      acc == [c \in Channels |-> IF Issues(c) THEN {Request(c)} ELSE {}]
  IN [cs |-> LastAssigned(cs, start.cs), wr |-> LastAssigned(wr, start.wr),
      acc |-> LastAssigned(acc, start.acc)]

LockNext(boot_mode_i) ==
  LastAssigned([c \in Channels |-> CASE IssuesWrite(c) -> {TRUE}
                                     [] In(c, "wait_for_wr_grant") -> {FALSE}
                                     [] OTHER -> {}],
               lock_bus /\ ~BootEntry(boot_mode_i))

D2pNext(s, p2d, grant) ==
  LET mine(c) == chan[c].source = s
      sends(c) == In(c, "send_to_periph") /\ mine(c)
      grants == [c \in Channels |->
        CASE HasByte(c, p2d) /\ mine(c) -> {TRUE}
          [] LowersGrant(c) /\ mine(c) -> {FALSE}
          [] OTHER -> {}]
      reqs == [c \in Channels |->
        CASE (TimesOut(c, p2d) \/ EndsWrite(c, grant)) /\ mine(c) -> {FALSE}
          [] In(c, "wait_for_periph_data") /\ ~p2d[s].en /\ ~TimesOut(c, p2d) /\ mine(c)
               -> {TRUE}
          [] OTHER -> {}]
      ens == [c \in Channels |->
        CASE sends(c) -> {TRUE}
          [] In(c, "wait_for_ready") -> {FALSE}
          [] (In(c, "read_mem") \/ In(c, "pre_idle")) /\ mine(c) -> {FALSE}
          [] OTHER -> {}]
      datas == [c \in Channels |->
        IF sends(c) THEN {chan[c].tmp_data[Lane(c)]} ELSE {}]
  IN [grant |-> LastAssigned(grants, d2p[s].grant),
      req |-> LastAssigned(reqs, d2p[s].req),
      en |-> LastAssigned(ens, d2p[s].en),
      data |-> LastAssigned(datas, d2p[s].data)]

\* raised when a transfer ends or times out, lowered in the idle state
IrqNext(c, p2d, grant) ==
  CASE In(c, "idle") -> FALSE
    [] TimesOut(c, p2d) \/ EndsWrite(c, grant) \/ In(c, "pre_idle") -> TRUE
    [] OTHER -> irq_dma[c]

-----------------------------------------------------------------------------
(* One clock edge: w is the core's register write, p2d the peripherals'    *)
(* outputs, grant the core's dma_grant, rd the data memory's answer.       *)
DmaCycle(w, boot_mode_i, p2d, grant, rd) ==
  /\ boot_mode' = boot_mode_i
  /\ chan' = [c \in Channels |->
                Fsm(c, Booted(c, boot_mode_i, Written(c, w)), p2d, grant, rd)]
  /\ cur_channel' = CASE BootEntry(boot_mode_i) -> 0
                      [] ~BootEntry(boot_mode_i) /\ w.reg = "channel" -> w.val
                      [] OTHER -> cur_channel
  /\ request' = RequestNext(grant, boot_mode_i)
  /\ lock_bus' = LockNext(boot_mode_i)
  /\ d2p' = [s \in Sources |-> D2pNext(s, p2d, grant)]
  /\ irq_dma' = [c \in Channels |-> IrqNext(c, p2d, grant)]

=============================================================================
