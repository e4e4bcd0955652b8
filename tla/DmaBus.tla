------------------------------- MODULE DmaBus -------------------------------
(***************************************************************************)
(* The core's data bus, the DMA, the data memory and two byte peripherals  *)
(* wired as in src/Source/top.h, all on clk_mcu: one step is one edge and  *)
(* every block takes it together.  The core executes any instructions; its *)
(* stores to the DMA registers follow a driver program, with any delay     *)
(* between them.  The peripherals hand over and take bytes at any speed.   *)
(***************************************************************************)
EXTENDS Dma, Sequences

CONSTANTS
  NoAccess, Targets,  \* see CoreBus
  PCp,       \* see Boot
  Settle,    \* edges between the last byte of code and the end of loading
  Scenarios  \* what the driver and its surroundings may be
(* A scenario is a record of                                               *)
(*   program   the register writes of the driver; [reg |-> "wait",         *)
(*             val |-> c] polls channel c until it is idle                 *)
(*   mem       contents of data memory when the driver starts              *)
(*   senders   the peripherals that hand over bytes                        *)
(*   maxbytes  bytes the input peripherals hand over at most               *)
(*   maxbusy   longest run of instructions that take the data bus          *)
(*   code      bytes of code the host loads after the driver, 0 for none   *)

(* Bytes are numbered from 0 on, modulo AddrMod; the address that shows up *)
(* in the place of a word is none.                                         *)
ASSUME BusAssumption == 0 .. AddrMod - 1 \subseteq Bytes /\ PCp \notin Word

VARIABLES
  cpu_wait, wait_for_interrupt, mask_data_en, rwb, load_mem0, load_mem,
  dma_grant, dma_granted, bus, answer,  \* see CoreBus
  p2d,     \* outputs of the peripherals towards the DMA
  mem,     \* data RAM, byte by byte
  boot, imem,  \* boot mode registers of the core, instruction memory
  host,    \* the boot pin, the bytes of code sent, edges since the last
  scenario,  \* the scenario that runs, chosen once
  pc,      \* the driver's next register write
  next,    \* history: bytes handed over so far, numbers them
  busy,    \* history: length of the current run of bus-taking instructions
  stored,  \* history: what memory must hold once every accepted byte arrived
  asked,   \* history: the size last written for each channel
  moved,   \* history: bytes each channel moved since it was started
  taken,   \* history: bytes accepted from the peripherals so far
  code,    \* history: what instruction memory must hold when the core starts
  starved  \* history: cycles each channel waited for the current byte

Core == INSTANCE CoreBus

Addrs == 0 .. AddrMod - 1
B == INSTANCE Boot WITH Words <- {a \div WordBytes : a \in Addrs}

coreVars == <<cpu_wait, wait_for_interrupt, mask_data_en, rwb, load_mem0,
              load_mem, dma_grant, dma_granted, bus, answer>>
envVars == <<scenario, p2d, mem, pc, next, busy, boot, imem, host>>
history == <<stored, asked, moved, taken, starved, code>>
vars == <<dmaVars, coreVars, envVars, history>>

Program == scenario.program

BusInit ==
  /\ scenario \in Scenarios
  /\ DmaInit /\ Core!CoreInit /\ Core!SlaveInit
  /\ p2d = [s \in Sources |-> [en |-> FALSE, rdy |-> TRUE, data |-> NoByte]]
  /\ mem = scenario.mem
  /\ pc = 1 /\ next = 0 /\ busy = 0
  /\ stored = scenario.mem
  /\ asked = [c \in Channels |-> 0]
  /\ moved = [c \in Channels |-> 0]
  /\ taken = 0
  /\ starved = [c \in Channels |-> 0]
  /\ boot = B!BootReset
  /\ imem = [a \in Addrs |-> NoByte] /\ code = imem
  /\ host = [pin |-> FALSE, sent |-> 0, quiet |-> 0]

-----------------------------------------------------------------------------
(* What the blocks see of each other before the edge.                      *)

\* a store of the core to a register block is on the bus
StoreOnBus == bus.cs /\ bus.wr /\ bus.owner = "stray" /\ bus.to = "periph"

\* the word that holds address a, as the data RAM returns it
WordAt(a) == [l \in Lanes |-> mem[(a * WordBytes + l) % AddrMod]]

\* mem2dma_i is connected to the data RAM only (top.h:351); what the RAM
\* returns to the core is not DMA data
RamAnswer ==
  [en |-> answer.en /\ answer.ram,
   data |-> IF answer.owner = "dma" THEN WordAt(answer.acc.word) ELSE EmptyWord]

-----------------------------------------------------------------------------
(* One edge of each block.                                                 *)

(* The core takes the bus at most maxbusy cycles in a row; wakeup matters  *)
(* to a core that sleeps.                                                  *)
CoreStep ==
  \E wakeup \in {FALSE, wait_for_interrupt} :
    \/ B!Starts(boot) /\ Core!BootStart(request, wakeup) /\ busy' = 0
    \/ ~B!Starts(boot) /\ boot.empty /\ Core!NoExec(request, wakeup) /\ busy' = 0
    \/ ~boot.empty /\ Core!FreeCycle(request, wakeup) /\ busy' = 0
    \/ ~boot.empty /\ Core!BusyCycle(wakeup)
       /\ busy < scenario.maxbusy /\ busy' = busy + 1

(* The address fetched matters when boot mode begins.                      *)
BootStep ==
  /\ \E fetch \in IF host.pin THEN {a \div WordBytes : a \in Addrs} ELSE {0} :
       boot' = B!BootEdge(boot, host.pin, request, fetch)
  /\ imem' = B!Loaded(imem, boot)

(* The host raises the boot pin behind the driver, sends the code and      *)
(* lowers the pin when everything has settled.                             *)
Raises == ~host.pin /\ host.sent < scenario.code /\ pc > Len(Program) /\ In(0, "idle")
CodeSent == host.pin /\ host.sent = scenario.code
Lowers == CodeSent /\ host.quiet = Settle

HostStep ==
  /\ \E raises \in {FALSE, Raises} : host' =
       [pin |-> raises \/ (host.pin /\ ~Lowers),
        sent |-> IF host.pin THEN host.sent + next' - next ELSE host.sent,
        quiet |-> IF CodeSent /\ ~Lowers THEN host.quiet + 1 ELSE 0]
  /\ code' = IF host.pin /\ next' # next THEN [code EXCEPT ![host.sent] = next % AddrMod]
             ELSE code

(* The driver: its next write reaches the DMA with a store, a poll is left *)
(* when the channel is idle.                                               *)
DriverWrite(w) ==
  \/ /\ StoreOnBus /\ pc <= Len(Program) /\ Program[pc].reg # "wait"
     /\ w = Program[pc] /\ pc' = pc + 1
  \/ /\ w = NoWrite
     /\ pc' = IF /\ pc <= Len(Program) /\ Program[pc].reg = "wait"
                 /\ In(Program[pc].val, "idle")
              THEN pc + 1 ELSE pc

(* When boot mode begins the UART drops the byte it holds (sUART.h:175);   *)
(* none is complete in that edge.                                          *)
Drops(s) == s = "uart" /\ B!Begins(boot, host.pin)
MoreBytes == IF host.pin THEN host.sent < scenario.code ELSE next < scenario.maxbytes

(* An input byte may arrive unless the last one still waits for its grant, *)
(* which the host does not wait for when the channel is idle; the output   *)
(* side is busy after it was given a byte, for any time.                   *)
Vacant(s) == p2d[s].en => d2p[s].grant \/ (host.pin /\ In(0, "idle"))

PeripheralStep ==
  \E arrives \in SUBSET scenario.senders, ready \in SUBSET Sources :
    /\ \A s \in arrives : Vacant(s) /\ MoreBytes /\ ~Drops(s)
    /\ \A s, t \in arrives : s = t
    /\ p2d' = [s \in Sources |->
         [en |-> s \in arrives \/ (p2d[s].en /\ ~d2p[s].grant /\ ~Drops(s)),
          data |-> IF s \in arrives THEN next % AddrMod ELSE p2d[s].data,
          rdy |-> ~d2p[s].en /\ (p2d[s].rdy \/ s \in ready)]]
    /\ next' = IF arrives = {} THEN next ELSE next + 1

\* the bytes a bus access of the DMA writes
Covers(acc, a) == acc.word = a \div WordBytes /\ (a % WordBytes) \in acc.be

MemoryStep ==
  mem' = [a \in Addrs |->
            IF bus.cs /\ bus.wr /\ bus.owner = "dma" /\ Covers(bus.acc, a)
            THEN bus.acc.data[a % WordBytes] ELSE mem[a]]

Starts(c, w) == w.reg = "config" /\ c = cur_channel
AcceptedBy(a) == {c \in Channels : HasByte(c, p2d) /\ chan[c].addr = a}

HistoryStep(w) ==
  /\ stored' = [a \in Addrs |->
       IF AcceptedBy(a) = {} THEN stored[a]
       ELSE p2d[chan[CHOOSE c \in AcceptedBy(a) : TRUE].source].data]
  /\ asked' = [c \in Channels |->
       IF w.reg = "size" /\ c = cur_channel THEN w.val ELSE asked[c]]
  /\ moved' = [c \in Channels |->
       CASE Starts(c, w) -> 0
         [] ~Starts(c, w) /\ (HasByte(c, p2d) \/ In(c, "send_to_periph"))
              -> IF moved[c] = SizeMod THEN SizeMod ELSE moved[c] + 1
         [] OTHER -> moved[c]]
  /\ taken' = taken + Cardinality({c \in Channels : HasByte(c, p2d)})
              + Cardinality({s \in Sources : Drops(s) /\ p2d[s].en})
  /\ starved' = [c \in Channels |->
       CASE Starts(c, w) \/ HasByte(c, p2d) -> 0
         [] ~Starts(c, w) /\ In(c, "wait_for_periph_data") /\ ~HasByte(c, p2d)
              -> IF starved[c] = TimeMod THEN TimeMod ELSE starved[c] + 1
         [] OTHER -> starved[c]]

Cycle ==
  \E w \in {NoWrite} \cup {Program[i] : i \in 1 .. Len(Program)} :
    /\ DriverWrite(w)
    /\ DmaCycle(w, host.pin, p2d, dma_grant, RamAnswer)
    /\ HistoryStep(w)
    /\ Core!SlaveCycle /\ MemoryStep
    /\ UNCHANGED scenario
    /\ PeripheralStep
    /\ HostStep
    /\ BootStep
    /\ CoreStep

Spec == BusInit /\ [][Cycle]_vars

(* The clock keeps running; a program cannot keep the data bus for ever,   *)
(* since every loop has a jump and jumps leave the bus free (as does       *)
(* sleeping in WFI); a peripheral that has more bytes hands them over and  *)
(* one that was given a byte becomes ready again.                          *)
CanBeFree == ~cpu_wait \/ wait_for_interrupt
BusFree == busy' = 0 /\ CanBeFree
CanArrive ==
  /\ MoreBytes
  /\ \E s \in scenario.senders : Vacant(s) /\ ~Drops(s)
BytesArrive == next' # next
CanTake == \A s \in Sources : ~d2p[s].en
TakesNext == \A s \in Sources : p2d'[s].rdy

(* SF_vars(Cycle /\ A) for A of BusFree, BytesArrive and TakesNext, with    *)
(* the condition under which such a cycle is enabled.                      *)
Fairness ==
  /\ WF_vars(Cycle)
  /\ <>[]~CanBeFree \/ []<><<BusFree>>_vars
  /\ <>[]~CanArrive \/ []<><<BytesArrive>>_vars
  /\ <>[]~CanTake \/ []<><<TakesNext>>_vars

FairSpec == Spec /\ Fairness

-----------------------------------------------------------------------------
(* Every byte the DMA accepted from a peripheral is in memory at the       *)
(* address the channel had, or still on its way there: in the channel's    *)
(* word buffer, in the request, or on the bus.                             *)
NoByteLost ==
  \A a \in Addrs :
    \/ mem[a] = stored[a]
    \/ \E c \in Channels :
         /\ chan[c].addr \div WordBytes = a \div WordBytes
         /\ (a % WordBytes) \in chan[c].tmp_we
         /\ chan[c].tmp_data[a % WordBytes] = stored[a]
    \/ /\ request.cs /\ request.wr /\ Covers(request.acc, a)
       /\ request.acc.data[a % WordBytes] = stored[a]
    \/ /\ bus.cs /\ bus.wr /\ bus.owner = "dma" /\ Covers(bus.acc, a)
       /\ bus.acc.data[a % WordBytes] = stored[a]

(* The DMA accepts every byte of a peripheral once and in order: the       *)
(* data_en / grant handshake neither repeats nor skips one.                *)
TakenInOrder ==
  \A c \in Channels : HasByte(c, p2d) =>
    p2d[chan[c].source].data = taken % AddrMod

(* When a channel becomes idle and was not aborted, it has moved as many   *)
(* bytes as the driver asked for, no more and no fewer.                    *)
ExactSize ==
  [][\A c \in Channels :
       ~In(c, "idle") /\ chan'[c].state = "idle" /\ ~TimesOut(c, p2d) /\ boot.mode = host.pin
         => moved[c] = asked[c]]_vars

(* dma.h:305 "write access transmitted by core": when a channel takes a    *)
(* grant for its own, the bus carries its request.                         *)
GrantIsTransmitted ==
  \A c \in Channels : Granted(c, dma_grant) =>
    bus.cs /\ bus.owner = "dma" /\ bus.acc.ch = c

(* The byte a channel is about to send is the one memory holds at its      *)
(* address: no answer to another access was taken for it.                  *)
SendsMemory ==
  \A c \in Channels : In(c, "send_to_periph") =>
    chan[c].tmp_data[Lane(c)] = mem[chan[c].addr]

(* A byte is handed to a peripheral only while it is ready for one, though *)
(* its ready falls a cycle after the hand-over (dma.h:384).                *)
SendsWhenReady == \A s \in Sources : d2p[s].en => p2d[s].rdy

(* dma.h:34 "used to forbid dma requests when one was issued but not       *)
(* granted yet": a request stays on the port as it is until the cycle of   *)
(* its grant, however late that comes.  It holds while one channel works   *)
(* at a time (RequestsAreKept in DmaBusProofs) and not with two: lock_bus  *)
(* is not tested by a write (l.281) and is up for one cycle only (l.306).  *)
NoRequestOverwritten ==
  [][request.cs /\ ~dma_grant => request' = request]_vars

(* Once a byte has arrived, the transfer is aborted in exactly the cycle   *)
(* in which the next one is overdue.                                       *)
AbortsWhenOverdue ==
  \A c \in Channels :
    (/\ In(c, "wait_for_periph_data") /\ ~HasByte(c, p2d)
     /\ moved[c] > 0 /\ chan[c].timeout # 0)
    => (TimesOut(c, p2d) <=> starved[c] = chan[c].timeout)

(* dma.h:171 "prepare DMA for code loading": whenever the core starts,     *)
(* instruction memory holds every byte of the code the host has sent, from *)
(* address 0 on, whatever the DMA and the core did before.                 *)
CodeLoaded == B!Starts(boot) => \A a \in 0 .. host.sent - 1 : imem[a] = code[a]

(* A started transfer ends.                                                *)
TransferEnds ==
  \A c \in Channels : ~In(c, "idle") ~> In(c, "idle")

=============================================================================
