# Formal model of the Agravic RISC-V SoC

TLA+ modules, TLC configurations and TLAPS proofs for the small SoC of the
Agravic repository: the Giorno RISC-V core (`src/Source/risc-V_core.h`), its
data bus, interrupt controller, DMA and boot loader, the UART, the SPI and the
video console, and the event-driven simulator (`src/Include_libs`) that runs
them. The hardware sources are VHDL-like C++: every block is a clocked process
in which all registers read the value they had before the edge and, of several
assignments of one register, the last in program order wins. One step of a
hardware model is one rising edge of its clock; every block on that clock takes
it together. A step of the simulator's model is one round of its loop.

## 1. Inventory

| Component | State | Operations | Talks to | Must hold |
|---|---|---|---|---|
| Core, bus side (`risc-V_core.h` 502-789) | `cpu_wait`, `wait_for_interrupt`, `mask_data_en`, `rwb`, `load_mem0/1`, `dma_grant_o`, `dma_granted`, `blk2mem_t0` | execute each kind of instruction, stall, lend the bus, capture read data, wake up | data RAM and register blocks (reads answered one cycle later, `all2core` ORs all answers), DMA (request, grant) | a stalled read gets its own answer, and gets one; no DMA access overtakes it; a granted request reaches the bus |
| Core, pipeline (359-496, 684-717, 859-890) | `PC`, `PCp`, `inst_addr`, `pipe`, `flush`, decoded fields, `rcsr_op_with_read`, `start_irq`, `cur_irq` | fetch, decode, execute, redirect, trap, enter and leave interrupts | instruction memory, `csr_irq` (`irq`, `cause`, `mepc`, `wakeup`) | each instruction takes effect once and in order; interrupts are precise; the fetch never stops for ever |
| Interrupt controller (`csr_irq.h`) | `mstatus`, `mie`, `mip`, `mepc`, `mcause`, timer, `wfi` | CSR accesses, interrupt selection, wake-up | core, interrupt sources | an enabled interrupt is taken, once, with its cause; none while disabled; no wake-up is lost |
| DMA (`dma.h`) | per channel: address, size, time, priority, word buffer and byte enables, state; shared: `lock_bus`, `core_request_o`, the handshake wires, `boot_mode` | register writes, arbitration, twelve states per channel, timeouts, boot entry and exit | core (registers, grant), data RAM, UART and SPI (`data_en/grant`, `rdy/data_en`) | no byte lost, repeated or misplaced; exact size; one outstanding request; transfers end |
| Data and instruction memory (`mem.h`, `spram.h`), code loading (`risc-V_core.h` 806-857, 915-945) | contents, registered `data_en`; `boot_mode`, the port | write with byte enables, read; copy the DMA's words, start the core | core, DMA, the host that raises the boot pin | answers one cycle after the access; the core starts on exactly the code sent |
| UART (`sUART.h`) | receive and transmit state machines, dividers, flags | receive, transmit, DMA handshake, flow control | DMA, core, line | bytes on the line equal bytes handed over; overruns are the only loss, and RTS prevents those it can |
| SPI (`SPI.h`) | two FIFOs with 3-bit pointers, shift register, bit and clock counters on `clk_120`; flags on `clk_mcu` | configure, push, pop, shift, wait | DMA, core, pins | FIFO order across clocks, no overrun, busy means busy |
| HDMI console (`hdmi.h`) | the register of the console on `clk_core`; text buffer, cursor, font, beam on `clk_pix` | put a character, move the cursor, change colours, define a glyph, read back, display | core, two clock domains | the text shown is the text written; a read returns what the character overwrote |
| Simulator (`scheduler2.h`, `slv.h`) | event pool, time-ordered list, delta counts of clocks | create, recycle, schedule, wait, run, derive and gate clocks | every process | events run in time order, none is lost; all edges of one time act as one; the pool hands out no used event |
| Firmware (`src/FIRMWARE`) | | vectors (`crt0.S`), drivers, `WFI`, delay and transfer routines | all registers | the order and distance of register writes that the blocks need |
| SDRAM controller, I2C, LEDs, GPIO, register file and arithmetic, framework | | | | not modelled, see section 8 |

### What is hard

Blocks that see each other's registers one or two cycles late (grant after
request, answer after access, ready after data, a cause that falls between
decode and execute); registers shared by channels where the last assignment
wins; pipeline state that one of several redirects forgets; answers that belong
to somebody else; two clocks with nothing between them but flags and FIFO
pointers; timeouts; counters that wrap; list order that decides which process
sees a register before the edge. `PROJECT.json` lists these places line by line
under `hazards`, with the properties that would catch each going wrong.

## 2. How the project grew, and its plan

1. `CoreBus`: the core as bus master, with proofs (`CoreBusProofs`).
2. `Dma`: the controller as a function of one edge; `DmaBus` composes it with
   `CoreBus`, the data RAM, two peripherals and a driver; `DmaBusProofs` and
   `DmaDataProofs` prove all its safety properties for all drivers of a kind.
3. `Isa`: the sequential machine the core promises; `CorePipe`: the pipeline in
   front of `CoreBus`, shown to implement `Isa` by TLC and proved to in
   `CorePipeProofs`.
4. `Boot`: code loading, composed into `DmaBus` with the host; proved correct in
   `DmaDataProofs`.
5. `CsrIrq`: the interrupt controller; `CsrCore` composes it with `CorePipe`
   and the firmware's interrupt code.
6. `Uart`, and a link of two (`UartLink`); `UartProofs` proves its safety
   properties for all widths, division factors and delays that match.
7. `EventQueue`, `SimQueue`, `Scheduler`: the simulator; `SchedulerProofs` proves
   all its properties.
8. `Spi`: both ends of the SPI; `SpiMaster` composes them with program, DMA and
   wire; `SpiProofs` has the first result across two clocks.
9. `Console`, `ConsoleText`: the video console against a terminal;
   `ConsoleProofs` proves of every program that keeps the distances that what it
   wrote arrives, what it read is right and the screen shows it.

What would come next: two DMA channels at once with priority ageing and its
wrap; the fetch stage in boot mode (a reload of a core that sleeps); the order
of bytes on the wire of the SPI for any sizes, as a theorem.

## 3. Modules

Variables and fields carry the names of the signals; polarity is positive
(`bus.cs` is `not cs_n`). Variables marked history are there for properties
and never read by the model's guards. Definitions that begin with "MUTANT" in
their comment are the plausible errors each property is tested against; no
specification uses them.

### CoreBus
One action per kind of executed instruction (`ExecLoad`, `ExecLoadInst`,
`ExecLoadX0`, `ExecStore`, `ExecCsrRead`, `ExecCsrWrite`, `ExecWfi`,
`ExecOther`) and `NoExec`. Each is a choice of what to drive (`Lend` the bus to
the DMA, or `Drive` it) and of the values given to `Commit`, which is what ends
every cycle: the lines from 737 to 789 that override the execute stage. The
pipeline is free: outside a stall any instruction may be executed, or none.
`SlaveCycle` is data RAM and register blocks: an answer follows a read by one
cycle; a target `"none"` does not answer. History: each access carries its
`owner` - the stalled instruction (`load`), an access nobody waits for (`stray`)
or the `dma`.

### Isa, CorePipe, MCPipe
Addresses count instructions and a program maps them to what they do to the
control flow. `Fetch` and `Decode` give the front registers after an edge for a
given redirect; `Exec...` are the actions of `CoreBus` with what they do to the
pipeline. Decoded fields are one record `id`; it carries the address it came
from, as history. Here `csr_irq` is only `mepc`, written one cycle after it was
on the bus, and the interrupt line, which may rise at any time and stays up
until its handler runs. Illegal opcodes, ECALL, MRET, WFI and loads to x0 are
instructions of their own. Targets of branches are free, so both outcomes are
explored each time.

`Isa` is the abstract machine: `pc`, `mepc`, whether an interrupt is being
handled, and the parity of the instructions that took effect. The refinement
mapping takes `pc` to the oldest instruction in the pipeline (execute, else
decode, else fetch) and `mepc` to the value on its way to `csr_irq`; parity
makes a repeated or a skipped effect visible that `pc` alone would hide.

### CsrIrq, CsrCore, MCCsr
`CsrIrq` is one edge of `clk_csr_irq`: the access on the bus, lines and timer
that become pending, and the selection of cause and wake-up from the pending
set of before the edge. The 64-bit timer is kept as its distance. `CsrCore`
puts it in place of the free interrupt line of `CorePipe` and adds a source
that the program starts and that answers later by a one-cycle pulse. The
program (`FirmwareProgram`, 57 instructions) is the firmware's: `wait_cycles`
of `misc.h` 161-180 (timer, then WFI), a transfer of `spi_pwm.cpp` and its
wait, handlers that clear their pending bit, and jumps and traps around them;
and, in the same macros, what the firmware does not do yet, a transfer with a
time limit, at whose end a source is disabled that may still end.

### Dma, Boot, DmaBus, MCDma, DmaBusProofs, DmaDataProofs
`Dma` keeps the structure of the process: `Written` and `Booted` are what
register writes and boot mode assign, `Fsm` what the channel's state assigns
over it, `LastAssigned` resolves the registers several channels assign in one
edge. `DmaCycle` is the whole edge. `Boot` has the registers of the core that
take part in code loading, and the port of instruction memory. `DmaBus` wires
them: the DMA sees the core's `dma_grant` and the RAM's answer registers, the
core sees the DMA's request, all from before the edge. The driver writes DMA
registers when the core has a store to a register block on the bus, in the
order of a program, with any delay; `wait` polls a channel. The peripherals are
free within their handshake: a byte stays until its grant; `rdy` falls in the
cycle after a byte was given and returns at any time. The host is
`ARDUINO/Agravic/Agravic.ino`: it raises the boot pin, sends the code byte by
byte and lowers the pin at least `Settle` edges behind the last byte (the
sketch waits 65536 polls and 10 ms, `tb.h` 333 cycles). It raises it when the
driver has finished and channel 0 is idle.

A word has two bytes and memory four (both are parameters); bytes are numbered
in order of arrival, modulo the size of memory (`BusAssumption`: there is a byte
for each number, and the address that shows up in the place of a word of code is
none); the width fields of sink and peripheral are left out (8-bit
peripherals, as in the firmware). The core's own memory traffic is left out, its
use of the bus is not. `MCDma` has five scenarios: a write of 4 and then 2
bytes; a read of 3 bytes from an odd address to the SPI and then 2 bytes from
the UART; a transfer with a timeout; a single byte and then 4 bytes of code; 2
bytes to the SPI through channel 1, registers written for later, and then 2
bytes of code. In all of them one channel works at a time. Three more are for
the runs that find violations; one of them, `TwoScenario`, has two channels at
work at once.

### Uart, UartLink, MCUart, UartProofs
A byte is a function from the numbers of its bits to 0 and 1, as the shift
registers treat it. `Uart` is a function from the registers of before an edge, what the program or
the DMA gives, and the line to the registers after it. `UartLink` is two of
them with different dividers, RTS of the receiver wired to CTS of the sender.
At the sending end a DMA or a program that polls gives bytes; at the receiving
end a driver arms the receiver and the DMA takes each byte after any of the
delays `Lags`, or a program polls. `MCUart` gives bytes as numbers.

### Spi, SpiMaster, MCSpi
`Spi` is both processes of `SPI.h`, master or slave by configuration: `Fast...`
is the byte machine on `clk_120`, `Mcu...` the registers and handshakes on
`clk_mcu`. In `SpiMaster` `clk_mcu` has an edge after 2 to 3 of `clk_120`, any
sequence of them. A program configures the block, writes words and polls busy
(`spi.cpp`), or a DMA feeds it with any delays (`spi_pwm.cpp`). At the other
end is the wire itself, which brings back what is sent, or (`peer`) the block
that `tb.h` 228-244 configures as a slave, to which the test program gives a
word for each word of the master (`spi.cpp` 55-68). `MCSpi` has nine
configurations: words of each size, with and without reception, both clock
polarities, and three with the slave, the first of them that of `spi.cpp`.

### EventQueue, SimQueue, Scheduler, MCScheduler (with SchedulerProofs)
`EventQueue` is the pool: `N` slots linked by `next_idx`, slot 0 at the head of
the pending list. `Scheduler` is `run` over it: processes that wait, clocks
whose edge takes three deltas (processes, flip-flops, combinational processes),
clocks derived from others inside a delta, and gated clocks. `SimQueue` is the
promise: a queue of timed events of which the oldest time runs first and, of
equal times, the newest, and in which nobody waits twice. The mapping reads the
pending list off the links. `MCScheduler` has the clocks of the test bench
(`tb.h` 261-285). Three assumptions on the constants say what the code relies on
and never checks: the pool has a slot for each process and each clock
(`SchedulerAssumption`; 64 in the code); time does not wrap around before the
run has ended, and some process does not wait for good (`WaitsAssumption`;
`main.cpp` 93 counts in 64 bits); clocks form trees of one level and nothing is
driven twice (`ClockTreeAssumption`; `clk_gen.h`, `tb.h`).

### Console, ConsoleText, MCConsole (with ConsoleProofs)
`Console` has the console's register on `clk_core` and, on `clk_pix`, text
buffer, cursor, scrolling, font and beam. `ConsoleText` drives it at half the
frequency (`clk_gen.h` 2-7), with accesses at every distance the firmware's
code can have, beside the terminal the program believes in, where each access
acts at once. A glyph row stands for its pixels, and the font has the rows of
`Glyphs`. `ConsoleTextAssumption` says what the code takes for granted: the
message of the start is shorter than the screen is high, so that it does not
scroll (14 characters, `hdmi.h` 210), and a program reads only right behind the
store that asks (`invaders.cpp` 426, 434).

## 4. Runs

| Run | Shows | Bounds |
|---|---|---|
| `CoreBus` | `LoadGetsOwnData`, `AnswerIsSeen`, `StallOwnsBus`, `LoadCompletes`, and the inductive invariant `StallInv` | one DMA access; none on instructions or time: the state space is complete |
| `Pipe` | `InProgramOrder` (refinement of `Isa`), `InstLoadGetsOwnData`, `StopRaisesWait`, `KeepsExecuting` | one program with every kind of instruction in a loop, which may be left for an illegal instruction in front of a CSR read; any interrupts, stalls and DMA traffic |
| `Csr` | `EntersPending`, `DisabledIsQuiet`, `MaskedIsQuiet`, `SleepEnds`, `PendingIsTaken` | the firmware's program and a transfer with a time limit; delays of up to `MaxDelay` = 8 cycles, which is longer than the pipeline and both register stages between the blocks |
| `Dma` | `NoByteLost`, `TakenInOrder`, `SendsMemory`, `SendsWhenReady`, `AbortsWhenOverdue`, `GrantIsTransmitted`, `CodeLoaded`, `ExactSize`, `TransferEnds` | five scenarios with one channel at work at a time, with runs of at most 3, 2, 2, 1 and 1 bus instructions; 2-byte words, `TimeMod` = `WaitMod` = 4, `Settle` = 8 (2 suffices, with 1 the run finds `CodeLoaded` violated) |
| `Uart` | `StopsSender`, `DeliversInOrder`, `Delivers` | `NBits` = 3, 20 cycles a bit against 19 or 21, delays 0, 2 and 97 of the DMA, the receiver armed up to 3 times |
| `Spi` | `TxHasRoom`, `WireInOrder`, `EchoInOrder`, `PollMeansDone`, `Finishes` | 4-bit bytes, up to 10 bytes, nine configurations, `clk_mcu` after 2 or 3 edges of `clk_120` |
| `Scheduler` | `SlotsPartition`, `SameEdgeTogether`, `DerivedSeesSource`, `GateIsClean`, `RunsInOrder` (refinement of `SimQueue`), `DeltasComplete` | a pool with one slot for each event that can be pending and no more, 32 units of time, waits of 1 to 3 |
| `Console` | `WrittenAsTold`, `ReadsOverwritten`, `FrameShowsText` | 3 lines of 2 characters of 2 pixel rows, 23 x 9 pixels with blanking, six programs, both phases of the clocks |
| `DmaBurst` | violation of `GrantIsTransmitted`: runs of 4 bus instructions | as `Dma` |
| `DmaChannels` | violation of `NoRequestOverwritten`: two channels at work | as `Dma` |
| `DmaReload` | violation of `CodeLoaded`: a timeout was set before | as `Dma` |
| `CsrMask` | violation of `EntersPending`: `mstatus.MIE` is cleared while a line may be up | a loop that clears and sets MIE |

Why the bounds are enough. `CoreBus` needs none. A DMA word of two bytes has
the two cases that matter, a byte that completes a unit and one that does not;
four bytes of memory let an address wrap; two transfers in a row show what the
first leaves behind. `maxbusy` bounds how many instructions in a row take the
data bus. It is not only a bound on the state space: `GrantIsTransmitted` and
with it `NoByteLost` hold for a single channel only while such runs are shorter
than the time to the channel's next request, which is what `DmaBurst` shows
with one instruction more. With four-byte words the run has to be longer; two
channels or a fast SPI shorten it again, and an interrupt handler that saves
sixteen registers is such a run.

`Pipe` follows each instruction that stops the fetch without holding the
pipeline (WFI, a load to x0, a store that looks like WFI) by two nops. The
firmware puts three behind WFI (`misc.h` 65-69, "it seems two is enough"): run
and proof confirm that two are. `StopRaisesWait` says which instructions need
them: those that stop the fetch and do not make the pipeline wait.
`KeepsExecuting` says both when the pipeline goes on for ever and when it does
not: an illegal instruction takes effect while a CSR read or WFI is decoded
behind it (`DiscardsStop`) exactly in the behaviours that hang. The program has
an illegal instruction of either sort.

`DisabledIsQuiet` of `Csr` depends on how sources are disabled, since a pulse or
a due timer in the edge of the write survives it (`csr_irq.h` 189-195, against
the comment of l.168). `timer_irq_handler` is safe because it moves the timer
away first; the transfer with a time limit because it clears `mip` behind the
writes, with MIE off. With `Clear(Ext)` in front of `Disable(Ext)`, or without
it, TLC finds the handler of the disabled source entered.

A UART byte of three bits has a first, a middle and a last bit; the dividers
differ by one cycle in twenty over five bit times, a quarter of a bit, so the
sampling point drifts to both sides. The delay of 97 cycles is one less than
the frame that follows: with 98 a byte is lost, as the hazard at `sUART.h` 276
says. SPI transfers of ten bytes wrap the 3-bit FIFO pointers; the two clocks'
ratios include the SoC's. The console's frame scrolls after a few characters
and its accesses keep the distances of the compiled firmware at 48 MHz: 4
edges of `clk_core` between stores, 6 between rows of a glyph, 8 between a
character that scrolls the text and what moves the cursor next (a text ends with
two stores that print nothing, `gprintf.h` 28 and 87), 12 between a character
and the access that asks for what it overwrites; each distance one smaller (3,
5, 7, 11) violates a property.

Deadlock is checked in every run but `Scheduler`, whose simulation ends.

### Fairness
The clock keeps ticking: `WF` of the next-state action where there is fairness
at all; `Console` and `Scheduler` have none and only safety, and the promise of
`SimQueue` has no eventuality. Beyond the clock:

- `CorePipe`: an interrupt ends every WFI, since a program that sleeps has
  enabled one; it is strong, as a load may intervene each time. `CsrCore` does
  without: there the timer and the source it started do it (`WF` that a started
  source ends).
- `DmaBus`: strong fairness of (a) cycles that leave the bus to the DMA - every
  loop of a program contains a jump, and jumps leave it free, as do bubbles and
  WFI; (b) bytes that arrive while the sender has some left; (c) a peripheral
  that has taken a byte and becomes ready. They are written
  `<>[]~CanX \/ []<><<X>>_vars` with the enabling state predicate spelled out.
- `UartLink`, `SpiMaster`: the clock alone.

Loads are to addresses that answer (`Targets` without `"none"`); at other
addresses the core waits for ever, as the code says.

## 5. What disagrees with the repository

Each is a run marked `violation`; `PROJECT.json` quotes the lines.

1. `DmaBurst`: a granted DMA write is dropped after a run of bus instructions
   (`dma_granted` is not updated while they execute, l.707).
2. `DmaChannels`: with two channels at work a request is overwritten by that of
   the other channel before it was granted, and both take the one grant:
   `lock_bus` is not tested by a write (`dma.h` 281), is not set by a read and
   is lowered a cycle later (l.306), while l.34 says it is "used to forbid dma
   requests when one was issued but not granted yet". With one channel at work
   at a time requests are safe: `RequestsAreKept`, section 7.
3. `CsrMask`: `irq` is only assigned while `mstatus.MIE` is set, so clearing MIE
   with a line up leaves it up: the interrupt is entered while disabled, and
   again and again with nothing pending (`csr_irq.h` 203).
4. `DmaReload`: boot mode keeps the timeout of channel 0, and aborts the load of
   code at the first pause that exceeds it (`dma.h` 172).

## 6. Observations made while modelling

Not runs of their own, but what a reader of the models should know.

**Core.** Interrupts nest when `mtvec` is in direct mode (l.868), which the
firmware does not use. An illegal instruction with a CSR read or WFI behind it
leaves `rcsr_op_with_read` set and the pipeline empty for ever (l.875): its
handler never runs (`KeepsExecuting`). MRET right behind a write of `mepc`
returns to the old value (l.586). A load to x0 stops the fetch for a cycle but
not the pipeline, against the comment of l.474, and so does a store or branch
whose bits match those of WFI (l.432 does not test the opcode): the second
instruction behind it is decoded and executed twice. A load from an address
nobody answers (`top.h` 496; I2C registers included) stalls the core, and the
DMA with it, for ever. `wait_for_interrupt` and `rcsr_op_with_read` survive a
reload of code.

**Interrupts.** A pulse in the edge of the write of `mie` that disables its
source stays pending, though l.168 says "reset pending IRQs accordingly"
(`csr_irq.h` 195; section 4 says what a program can do about it).
`dma_irq_handler` (`misc.h` 225) disables the timer without moving it away
first, and with it the interrupt a `wait_cycles` may be waiting for.

**Code loading.** Entering boot mode writes `PCp` over the word being fetched
(`risc-V_core.h` 937): a pulse of the pin without code corrupts one word (`tb.h`
394). A channel in the middle of a transfer at that moment overrides its new
state or adds one to the address (`dma.h` 171-186), and the reads it requests in
boot mode are written to instruction memory: hence the assumption that channel 0
is idle. The sketch's first byte is on the wire soon after the pin rises.

**DMA.** With two channels at work (`TwoScenario`) `NoByteLost`, `SendsMemory`,
`GrantIsTransmitted` and `TransferEnds` fail as well, while each byte is still
taken once and in order. Two channels with one source both take the byte
(l.219), the accumulated priority wraps (l.294). The timeout counter is not
loaded at the start, so that a first transfer with a timeout is aborted early;
the byte enables of a transfer that timed out are written with the next one's
(l.234). `verif.cpp` 73-75 writes the size after starting the channel, which
`ExactSize` does not survive.

**UART.** A single write of the receive configuration in the cycle a byte ends
leaves RTS high for ever (`sUART.h` 269 against 196); `verif.cpp` 39-40 writes
it twice, and so does the model. A byte received with `req` low keeps RTS high
until the receiver is armed again. `verif.cpp` 21-22 and `misc.h` 20-21 poll bit
8 as "ready", but `tx_ready` is bit 9 (`sUART.h` 214). A high CTS is looked at
again only after 2^16 cycles. `top.h` 366-367 and 502 leave RTS open and CTS at
0: on the SoC as wired there is no flow control.

**SPI.** The comment of `SPI.h` 56 says "3 -> 4-byte tsfr", the code sends
`nbytes`. An overrun of the receiver leaves the chip select low and busy set
(l.470). A Tx FIFO that runs empty ends the transfer, and `rdy` stays low until
the next configuration, which does not reset `fifo_wptr_tx` (l.205). A slave
that waits for the clock goes on when its own counter ends as well (l.371,
against the comments of l.370 and l.413): `spi.cpp` works because both ends
count alike. With the chip select's count at 4 equal dividers work, as does a
slave's divider that is large; a slave's divider of 4 against 8, of 3 against 4,
or a chip select count of 2 or 6 at divider 4, shift a bit early and fail
`PollMeansDone`.

**Console.** Stores closer than the distances of section 4 are lost, doubled or
moved (`hdmi.h` 619), and a read two edges behind a store doubles the character
(l.645). The first line on display is assigned an edge later than the cursor and
over the resets of PRINT_AT and CLS (l.494 against 430, "this resets console
mode", and 475): less than 8 edges behind a character that scrolled the text
they leave it scrolled, and less than 6 edges behind it a line end compares with
the old line and does not scroll. `invaders.cpp` 753 says "too fast for the HDMI
memory I/F". `font_wen` resets to its active value, so that row 0 of the space
is overwritten by an uninitialised register. CLS only moves the cursor ("NOT
IMPLEMENTED"). Words that `gprintf.h` 47-57 prints raw are taken as commands by
their upper byte. A read before any character was asked for stalls the core. The
horizontal total is `htot` + 1.

**Simulator.** The pool is not checked for exhaustion (`scheduler2.h` 80). A
clock with two pending events counts its deltas past 3 and never ends (`slv.h`
1585); the list of changed flip-flops has no bound check (l.1323). A process
that waits -1 (`kb.h` 192) waits for good only when it does so at time 0: at any
later time the sum lies in the past.

## 7. Proofs

All proofs are for every value of the constants under the assumptions named.

**CoreBusProofs**, for every set of DMA accesses and choice of targets, from
`CoreBusAssumption` (accesses are not empty and `NoAccess` is none of them;
targets are slaves): `TypeCorrect`, `StallInvariant`, and the safety
properties `LoadOwnData`, `AnswerSeen`, `StalledBus`. None of the three is
inductive: that the first answer after the mask falls is the load's own depends
on what the bus carried a cycle earlier. `StallInv` describes a stall cycle by
cycle. In its first cycle the mask is set and the load is on the bus; in later
ones the bus is idle, so that the one answer that can arrive is the load's; an
access owned by a load is on the bus in no other cycle. A stall for instruction
memory has `load_mem0` from its first cycle and `load_mem` from the second; WFI
has no writeback register. One lemma covers the cycles in which the core
executes (`StallStarts`), one the others (`StallStep`).

**DmaBusProofs**, for any number of channels, any widths of its registers, any
memory, any use of the bus by the core and any speed of the peripherals, for
every driver that is `WellFormed`, which has one channel at work at a time:
behind the write that starts a channel it
waits for that channel before it writes another register, and one peripheral
sends; and as long as no code is loaded (`Loadless`). `MCDriversAssumption`
shows that the drivers of `Dma` are such ones, but for the two followed by code
loading; `spi_pwm.cpp` 34-38 is one by its WFI, `verif.cpp` 73-75 is not
(section 6). Under these hypotheses
`RequestsAreKept`, `BytesFindReady`, `BytesAreTakenInOrder` and
`TimeoutsAreExact` prove `NoRequestOverwritten`, `SendsWhenReady`,
`TakenInOrder` and `AbortsWhenOverdue`. The inductive invariant `DmaInv` has as
its centre `DriverInv`: the channel the registers give access to is the only
one that may work, and while it does the driver stands at its wait. Around it,
each part ties a wire to the state of that channel: the request (`RequestInv`),
the enable of a byte handed over and the ready it needs (`ReadyInv`), the grant,
which is up for one cycle (`GrantInv`), the byte that waits and the numbers of
bytes handed over and taken (`ByteInv`), the time left and the time waited
(`TimeInv`). `Transition` says what the state machine may do to the registers
involved, `OneWriter` what the shared registers hold when one channel assigns
them; an edge either writes a register (`Sets`) or lets the channel work
(`Moves`), and each part of the invariant has a lemma with these two cases.

**DmaDataProofs** follows the data, under a stronger hypothesis, `Patient`: the
program, between its register writes and polls, never uses the bus in more than
three cycles on end; memory units lie within words, and what goes to memory
comes in units of two bytes or more; the driver writes some register before it
starts a channel again, and starts none behind one that may time out, which
would find the byte enables that one left (`dma.h` 234). `MCDriversAssumption`
shows that three scenarios of `Dma` are `Patient`. `GrantsAreTransmitted`,
`BytesAreStored` and `MemoryIsSent` prove `GrantIsTransmitted`, `NoByteLost` and
`SendsMemory`. The invariant `DataInv` says, on top of `DmaInv`, where each byte
that was taken is (`StoredInv`: in the word of the channel at work, in its
request, or else in memory), that what the core grants is that request
(`AwaitInv`, `BusInv`) and that byte enables are up only while a word is put
together (`TmpInv`). The grant is where it could break: `dma_granted` keeps its
value while the core uses the bus itself, so that an old grant could answer the
next request. `PaceInv` excludes it by counting: `Pace` is the least number of
cycles since the last request, which the state tells; as long as an old grant
lasts, the program has used the bus in each of them; and wherever the next
request is raised that is three. With runs of four it fails, which the run
`DmaBurst` shows.

The same module proves `TransfersAreExact`, that is `ExactSize`, from another
hypothesis, `Measured`, which leaves the core any use of the bus. The driver is
`WellFormed` and sets a size before each start, at least 1; what goes to memory
ends where a memory unit does (`UnitBegins`); no transfer comes behind one that
may time out. To say where a transfer ends one needs the address it starts
from, which earlier transfers and writes leave: a driver is `Measured` if there
is a plan, the address and size of each channel before each of its writes.
`MCMeasuredAssumption` gives the plans of all five scenarios. `verif.cpp` 73-75,
which writes the size behind the start, has none. The invariant `SizeInv` has
three parts: an idle channel is as planned (`RestInv`); for one at work what was
moved and what is `Left` make what was asked, and the bytes left lead to the
planned address (`WorkInv`); and the counters are in their range (`CountInv`).
`WorkInv` is what makes the end exact: on the way to memory the controller looks
at the size where it ends a unit, so that a size that reached 0 within a unit
would wrap and be followed by as many bytes again.

`CodeIsLoaded` proves `CodeLoaded` in that module too: the core starts with the
code the host has sent, whatever a `Measured` driver did before, for any sizes
of memory and code, any pauses between bytes and any use of the bus before. The
hypothesis is `Loaders`. Its conditions on drivers (`Uploads`): the UART is the
only peripheral that sends; the code comes in whole words, no more of it than
fits; no write gives channel 0 a timeout, which `DmaReload` shows to be
necessary (`dma.h` 172); if nothing follows the last start it is one of channel
0, on whose end the host waits; and, in `Room`, the size channel 0 is left with
is enough for the code, as boot mode does not set it (0 counts as the whole
range). Words have two bytes or more, memory has more than one word, and the
host waits 4 edges or more before it lowers the pin, so that all of the code is
in memory by then (the core starts later, and in the run 2 do). `MCMeasuredAssumption`
shows it of the scenarios of `Dma`.

The invariant `LoadInv` goes by phases, each with its own part. While the driver
works and the pin is low it is `DmaInv` and `SizeInv` again, with what the
program leaves in channel 0 (`LeftInv`). In the one edge between the pin and
boot mode `EnterInv` holds: the channel is idle, no request or grant is left,
and the size is enough. From then on `LoadingInv` says for each byte the host
has sent where it is (`ByteAt`): in the word that is put together, in the
request, on the port of instruction memory, or in there. What makes it work is
that a word leaves the channel only when it is whole, and that the one other
write to that port, at the address the core fetched from when it stopped, comes
before the first word of the code (`risc-V_core.h` 937). `Lasts` says that the size does not run out before the last byte.
`QuietInv` counts the host's pause: after one edge the last byte is taken, after
two its word is requested, then it is on the port, then in memory. `LoadedInv`
holds behind the fall of the pin. `PinRises`, `Enters`, `LoadingKept`,
`CodeSettled` and `LoadedKept` are the lemmas that lead from one phase to the
next or stay in one.

**CorePipeProofs**, for every program that is `WellFormed`: two nops behind
each instruction that stops the fetch without a read, no MRET right behind a
write of `mepc`, `csrrw` not on `mepc`, vectored interrupts. These are the
firmware's conventions; `MCProgramAssumption` shows on each run of `Pipe` that
the program checked is one, so the hypothesis is not empty. Of the interrupt
controller it assumes that an interrupt stays pending until its handler runs,
with one cause. `BusRefined` shows that the pipeline is an instance of
`CoreBus`, which carries `StallInv` over (`PipeStalls`). `PipeInvariant` is the
inductive invariant: for each phase of a stall, a flush, a redirect or a trap,
which address is in fetch, decode and execute, and what the interrupt
registers hold. From it follow `InstLoadOwnData`, `StartIsInterrupt`
(`start_irq` at execute means that an interrupt is entered) and `ProgramOrder`,
that every step of the pipeline is a step of `Isa` or a stutter.

**SchedulerProofs** begins with the pool alone, for any number of slots: its
links form one ring (`Ring`: the head, the pending slots, the free ones), the
search of `create_event` ends behind the last earlier event (`LastBeforeAt`), a
creation moves the first free slot to that place (`CreatedRing`) and a recycling
moves the first pending one back (`DropFirstFrees`). On top of that the pool
holds a queue of entries (`Queue`), and the lemmas say how it changes:
`ClkJoins`, `ForeverJoins`, `ClksJoin` and `FirstLeaves`. The recursion in the
search, in following links and in the folds over lists of clocks is a function,
and where one would argue by induction, which these provers cannot, a proof
takes the least counterexample (`Least`).

Then it proves, for any processes, waits and number of slots and every tree of
clocks, under the three assumptions named in section 3: `SlotsArePartitioned`,
`EdgesRunTogether`, `DerivedReadsSource`, `EdgesWaitForDeltas`, `GateClean`, and
the refinement `EventsRunInOrder`: the linked list implements `SimQueue`. The
invariant `SchedInv` says that the pool holds a queue with at most one entry for
each name, hence that there is a free slot for the next (`Room`), and ties the
queue to the clocks: a clock has an entry exactly while its deltas are not over,
at the time its last edge gives (`DeltasDue`); each process has one, later than
all the deltas of what it drives (`ProcessesDue`); nothing is due in the past.
None of the properties is inductive without it, and they need each other: an
event finds a slot because its clock has none pending, which is so because a
wait outlasts the deltas, which is so because no delta was late. The order of
events of the same time enters in `OneBehind`: between its first delta and its
second a source is in front of the clock it derived. `GateClean` needs only the
types and itself (`ClockInv`): each of the places that assigns a clock assigns
its gated clocks with it, and an enable changes only while the source is low.

**UartProofs**, for bytes of 1 to 15 bits (more do not fit the state register),
any two division factors, any bytes and any delays that are `Matched`:
`LinkDelivers` and `LinkStopsSender`, that is `DeliversInOrder` and
`StopsSender`. `Matched` has three parts. The factors are `Close`: where the
receiver looks at a bit, 2 + `div` / 2 edges behind its begin, moved by the
drift of a whole frame, is inside the bit by two edges at either end; at 8 bits
and the reset value of 417 a difference of 20, or nearly 5 %, will do. That
holds for the receiver's factor of reset too, as it receives before it is
configured. The second write that arms the receiver comes less than a bit
behind the first. And no byte waits for the DMA or the program longer than
(`NBits` + 2)(d + 1) - `NBits` |v - d| cycles, d and v the factors of sender and
receiver: a frame, less the drift. The limit is exact: with 98 in place of 97
the run `Uart` finds an overwritten byte. `MCMatchedAssumption` shows that the
constants of the run are `Matched`. The inductive invariant `UartInv` has six
parts. `SenderInv` says which bits of the byte are still in the shift register
and what level is on the line; `QueueInv` accounts for what was given and not
taken, at most the byte the receiver shows and the one that is carried;
`WireInv` is the line behind the receiver's two registers. `ReceiverInv` is the
centre: the receiver is at the sender's bit or looks for the next one already,
and `Where` it will look in that bit is its middle moved by the drift of the
bits since the last rising edge, at each of which it starts its count anew
(`Synced`), so that the bits it has collected are the sender's. `DriverInv` ties
the state of the driver to what is shown, and, for a byte that waits for the
DMA, its delay to the position of the frame behind it, so that the end of that
frame finds it taken; `RtsInv` says that RTS is up behind a received byte.
`SenderMoves` and `ReceiverMoves` say what an edge does at either end,
`LinkKept` that any edge preserves the first four parts, and one lemma per
action that it keeps the driver's.

**SpiProofs**, for every configuration, ratio of the clocks and delay of the
DMA: `TxNeverOverrun`. `FifoInv` accounts for each byte the DMA has been
allowed to give: on its way (`rdy` seen, byte in the register) or in the FIFO,
together no more than its places, while the reader's pointer, which lives on the
other clock, only ever makes more room. One lemma per operator of the byte
machine states which fields it can change; one lemma per action preserves the
invariant.

**ConsoleProofs**, for every size of the text, message of the start, program
and phase of the beam and the clocks: `WritesArrive`, `ReadsArrive` and
`FramesShowText`, that is all three properties of the run. The hypothesis
`KeepsDistances` is that accesses keep the distances of section 4: 4, 6, 8 and
12, with one less of any of which the run finds a violation. It also says from
when on the console is taken to be done, `Settle`: 14 edges behind an access,
and 4 edges for each character of the message plus 10 behind the reset.
`MCDistancesAssumption` shows that the distances of the run are such. The first
proof attempt failed for a reason: the first line on display is assigned an edge
late (section 6), so that the distance 8 had to become part of the model.

The centre of the invariant `ConsoleInv` is `Coming`, the terminal the console is
going to be: the memory as the next edge will have it, the line that still has to
scroll, the character that waits for its slot of the beam, and on top of that
what the register holds and `clk_pix` has not yet seen. `TextInv` says that this
is the terminal from the first access on, not only when the console has settled;
`FontInv` says the same of the font. The rest is what makes `Coming` move with the terminal:
`HoldsInv` and `AgeInv` bound how long each trace of an access lasts, which is
where the distances come from; `ScrollInv` keeps whatever moves the cursor away
from a line that must still scroll; `MessageInv` follows the message of the start
through the prefixes `Greeted` of it, as induction over its length is not to be
had; `ReadInv` has the character that was asked for at exactly one place on its
way back from the memory, and `AnswerInv` what the core sees of it. The lemmas
`PixMoves` and `CoreMoves` give an edge of either clock in closed form, `PixView`
says that an edge of `clk_pix` carries out what was under way and changes
`Coming` not at all, and `Steps` that every step is a store, a read or a wait;
one lemma for each part of the invariant and each of these keeps it.

`FramesShowText` is for every size of the screen and of its blanking that has the
shape `FrameFits` asks for (both sets of constants in `hdmi.h` 117-134 have it,
and the screen of the run: `MCFrameAssumption`): hsync comes behind the text and
ends in a part of the eight columns where no character is fetched, the first
character of the next row of pixels is fetched behind it and drawn before the first
pixel, and vsync comes below the text with a row behind it.
Its invariant `FrameInv` has three parts. `BeamInv` ties the registers of the beam
to its place from reset on; `ModeInv` says that lines are lines and that the
console's mode is the terminal's. `FreshInv`, of a frame in which nothing was
written, says that the console is settled, `AtRow`, which row of pixels of which
line the beam is at and whether that is behind the last line, and `AtChar`, what
each stage of fetching a character holds: while one is drawn, the pixels shown
are those of the one before it, and `line_blank` is up exactly when the line has
ended. Since the frame begins settled and stays so (`SettledStays`, from
`ConsoleInv`), text and font are the terminal's all along. `BeamMoves` gives an
edge in closed form; one lemma for each way the beam can move keeps `AtRow`
(`RowUp`, `RowBack`, `RowStays`), and one for each stage keeps `AtChar`
(`CharStarts`, `CharAsked`, `CharRead`, `CharDrawn`, `CharNext`, `CharWaits`).

Every theorem's statement or its inductive invariant was checked by TLC first.

Only model-checked: liveness, which the prover cannot do under fairness; of the
interrupts what `CsrCore` adds, whose three properties hold for the program of
the run and not for all (`CsrMask`); and of the SPI the order of bytes, where the
facts about powers of two that its shifts need would have to be proved by
induction.

## 8. Not modelled

- **What instructions compute**, register numbers and data hazards between them
  (results are written before the next instruction executes); the RISC-V
  compliance tests under `src/tests` are for that.
- **CSRs**: writes of `mtvec` (fixed in each run), `mscratch`, `mitprio` (stored
  and never used), `misa`, and the values CSR reads return.
- **Core**: the fetch stage during code loading, trace and debug signals,
  `halt` (compiled for the non-regression tests only) and `dma_rd_wait`, which
  nothing reads but its own reset.
- **SDRAM controller**: built only under `TEST_SDRAM_CTRL` with its own test as
  only requester; its reset enters `sdram_idle`, and `sdram_init`, which would
  configure the memory, is never entered.
- **I2C**: unfinished; it never drives `sda`, and `busy` never falls for
  dividers of 2 and more. LEDs and GPIO hold what was written.
- **Video**: TMDS encoding, colours, the blinking cursor, the trace printed
  after a trap, `dbg_mem.h`.
- **SPI**: `auto_csn` ("TODO: fix autocsn", `SPI.h` 1), a slave fed by a DMA,
  and the older blocks `SPI_master.h`, `SPI_slave.h`, `SPI_wrapper.h`.
- **Clocks**: PLL, divider counts and pins.
- **Simulator**: processes that end, finding processes and clocks at start-up, the value change
  dump, the list of changed flip-flops; `slv.h` and `macros.h` are the language
  the models interpret.
- **The rest**: applications in the firmware; the generated files under `RTL/`
  and `Include_rtl/`, `app.h` (a program as 14654 lines of data), the font
  table; `FST/` (third-party).
