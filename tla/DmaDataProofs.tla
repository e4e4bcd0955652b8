--------------------------- MODULE DmaDataProofs ---------------------------
(***************************************************************************)
(* What happens to the data: a granted request reaches the bus, no byte    *)
(* that was taken is lost, and what is sent is what memory holds.  For     *)
(* drivers as in DmaBusProofs and programs that leave the bus to the DMA   *)
(* often enough: DmaBurst shows what a longer run of accesses does.  For   *)
(* any use of the bus, a transfer moves the bytes its driver asked for if  *)
(* these come in whole memory units.  And the code the host sends behind   *)
(* the last transfer of such a driver is the code the core starts with.    *)
(***************************************************************************)
EXTENDS DmaBusProofs

(* The byte addresses a transfer goes through, and its memory units.       *)
Follow(v, x) == (x + v.auto_inc) % AddrMod
OneUnit(v, x) == Follow(v, x) \div v.span = x \div v.span

(* Memory units lie within words, and what goes to memory comes in units   *)
(* of two bytes or more.                                                   *)
Fits(v) ==
  /\ v.auto_inc \in Nat /\ v.span \in Nat \ {0}
  /\ \A x \in Addrs : OneUnit(v, x) => Follow(v, x) \div WordBytes = x \div WordBytes
  /\ v.to_mem \in BOOLEAN
  /\ v.to_mem => \A x \in Addrs : OneUnit(v, x) \/ OneUnit(v, Follow(v, x))

(* A driver writes some register before it starts a channel again, and no  *)
(* transfer comes behind one that may time out, which would find the byte  *)
(* enables that one left (dma.h:234).                                      *)
Prepares(p) ==
  \A i \in 1 .. Len(p) :
    /\ p[i].reg = "config" => Fits(p[i].val) /\ (i > 1 => p[i - 1].reg # "wait")
    /\ p[i].reg = "addr" => p[i].val \in Addrs
    /\ p[i].reg = "timeout" =>
         \A j \in i .. Len(p) : p[j].reg = "config" => j = Len(p)

Patient(s) ==
  /\ WellFormed(s) /\ Prepares(s.program) /\ s.code = 0
  /\ s.maxbusy \in 0 .. 3

Patients == \A s \in Scenarios : Patient(s)

-----------------------------------------------------------------------------
(* The inductive invariant, on top of DmaInv.                              *)
Me == chan[cur_channel]
Awaiting == {"wait_for_wr_grant", "wait_for_rd_grant"}
Filling == {"wait_for_periph_data", "send_periph_grant", "write_mem"}

BootInv == boot.mode = FALSE /\ boot.modep \in BOOLEAN /\ (boot.modep => ~request.cs)

(* The registers of a channel.                                             *)
DataFields == {"addr", "auto_inc", "span", "tmp_data", "tmp_we"}
ShapeInv ==
  \A c \in Channels :
    /\ DataFields \subseteq DOMAIN chan[c]
    /\ chan[c].addr \in Addrs /\ chan[c].auto_inc \in Nat /\ chan[c].span \in Nat \ {0}
    /\ chan[c].tmp_we \subseteq Lanes /\ DOMAIN chan[c].tmp_data = Lanes

(* The channel at work has been started by a register write that fits.     *)
StartInv ==
  State # "idle" =>
    /\ Fits([to_mem |-> State \in Receiving, auto_inc |-> Me.auto_inc, span |-> Me.span])

(* Its request says which access it awaits.                                *)
AwaitInv ==
  /\ lock_bus => State = "wait_for_wr_grant"
  /\ State \in Awaiting =>
       /\ request.cs /\ request.wr = (State = "wait_for_wr_grant")
       /\ request.acc.ch = cur_channel
  /\ State = "wait_for_rd_grant" => request.acc.word = Me.addr \div WordBytes

(* What the core grants is on the bus, once; the answer to a read comes in *)
(* the next cycle.                                                         *)
BusInv ==
  /\ dma_grant \in BOOLEAN /\ dma_granted \in BOOLEAN
  /\ request.cs => dma_granted = dma_grant
  /\ request.cs /\ dma_grant =>
       /\ bus.cs /\ bus.owner = "dma" /\ bus.to = "ram"
       /\ bus.wr = request.wr /\ bus.acc = request.acc
  /\ bus.cs /\ bus.wr /\ bus.owner = "dma" => request.cs /\ dma_grant
  /\ State = "wait_for_rd1" =>
       /\ answer.en /\ answer.ram /\ answer.owner = "dma"
       /\ answer.acc.word = Me.addr \div WordBytes

(* dma_granted outlives a grant only while the core uses the bus itself:   *)
(* the cycles that the DMA, or the driver, takes until the next request.   *)
Pace ==
  CASE State = "idle" ->
         CASE pc > 1 /\ Program[pc - 1].reg = "config" -> 0
           [] pc > 1 /\ Program[pc - 1].reg = "wait" -> 1
           [] OTHER -> 2
    [] State = "wait_for_periph_data" -> IF SameUnit(cur_channel) THEN 0 ELSE 2
    [] State \in {"send_periph_grant", "wait_for_periph_rdy"} -> 1
    [] State = "send_to_periph" -> 2
    [] State \in {"write_mem", "read_mem", "wait_for_ready", "pre_idle"} -> 3
    [] OTHER -> 0

PaceInv ==
  /\ busy \in Nat /\ busy <= scenario.maxbusy
  /\ dma_granted /\ ~request.cs => busy >= Pace

(* The state tells whether the address is the last one of its memory unit. *)
UnitInv ==
  /\ State \in {"send_periph_grant", "wait_for_wr_grant"} => SameUnit(cur_channel)
  /\ State = "write_mem" => ~SameUnit(cur_channel)

(* Bytes wait for their word in the channel that works, and in one that    *)
(* has timed out at the end of the program.                                *)
TmpInv ==
  /\ \A c \in Channels : chan[c].tmp_we # {} =>
       /\ c = cur_channel
       /\ State \in Filling \/ (State = "idle" /\ pc = Len(Program) + 1)
  /\ \A c \in Channels : chan[c].timeout # 0 =>
       \E i \in 1 .. pc - 1 : Program[i].reg = "timeout"

(* Where the bytes that were taken are.                                    *)
InTmp(x) ==
  x \div WordBytes = Me.addr \div WordBytes /\ (x % WordBytes) \in Me.tmp_we
InRequest(x) == request.cs /\ request.wr /\ Covers(request.acc, x)
StoredInv ==
  \A x \in Addrs :
    /\ InTmp(x) => Me.tmp_data[x % WordBytes] = stored[x]
    /\ InRequest(x) => request.acc.data[x % WordBytes] = stored[x]
    /\ ~InTmp(x) /\ ~InRequest(x) => mem[x] = stored[x]

(* What has been read.                                                     *)
ReadInv ==
  State \in {"wait_for_periph_rdy", "send_to_periph", "wait_for_ready"} =>
    \A l \in Lanes : Me.tmp_data[l] = mem[((Me.addr \div WordBytes) * WordBytes + l) % AddrMod]

DataInv ==
  /\ BootInv /\ ShapeInv /\ StartInv /\ AwaitInv /\ BusInv /\ PaceInv
  /\ UnitInv /\ TmpInv /\ StoredInv /\ ReadInv

-----------------------------------------------------------------------------
(* What the state machine does to these registers, k before the edge and   *)
(* v after it.                                                             *)
FsmData(c, k, v, rd) ==
  /\ DataFields \subseteq DOMAIN v
  /\ v.auto_inc = k.auto_inc /\ v.span = k.span
  /\ v.addr = IF \/ k.state = "send_periph_grant" \/ IssuesWrite(c)
                 \/ k.state = "send_to_periph" /\ v.state # "pre_idle"
              THEN NextAddr(c) ELSE k.addr
  /\ v.tmp_we = IF HasByte(c, p2d) THEN k.tmp_we \cup {Lane(c)}
                ELSE IF IssuesWrite(c) THEN {} ELSE k.tmp_we
  /\ v.tmp_data = IF HasByte(c, p2d)
                  THEN [k.tmp_data EXCEPT ![Lane(c)] = p2d[k.source].data]
                  ELSE IF IssuesWrite(c) THEN EmptyWord
                  ELSE IF k.state = "wait_for_rd1" /\ rd.en THEN rd.data ELSE k.tmp_data
  /\ HasByte(c, p2d) => v.state = IF SameUnit(c) THEN "send_periph_grant" ELSE "write_mem"
  /\ k.state = "send_to_periph" => (v.state = "wait_for_ready" => SameUnit(c))
  /\ k.state = "wait_for_rd1" => v.state = IF rd.en THEN "wait_for_periph_rdy" ELSE k.state

LEMMA DataTransition ==
  ASSUME ChanInv, NEW c \in Channels, NEW rd, NEW k, k = chan[c],
         DataFields \subseteq DOMAIN k, NEW v, v = Fsm(c, k, p2d, dma_grant, rd)
  PROVE  FsmData(c, k, v, rd)
<1> USE DEF FsmData
<1>1. /\ DataFields \subseteq DOMAIN k /\ Fields \subseteq DOMAIN k /\ k.state \in States
  BY DEF ChanInv
<1>2. /\ k.state # "wait_for_periph_data" => ~HasByte(c, p2d)
      /\ k.state # "write_mem" => ~IssuesWrite(c)
  BY DEF HasByte, IssuesWrite, In
<1>3. CASE k.state = "idle"
  <2>1. v = k BY <1>3 DEF Fsm, In
  <2> QED BY <1>1, <1>2, <1>3, <2>1
<1>4. CASE k.state = "wait_for_periph_data"
  <2>1. v = WaitForPeriphData(c, k, p2d) BY <1>4 DEF Fsm, In
  <2>2. CASE HasByte(c, p2d)
    BY <1>1, <1>2, <1>4, <2>1, <2>2 DEF WaitForPeriphData, Fields, DataFields
  <2>3. CASE ~HasByte(c, p2d)
    BY <1>1, <1>2, <1>4, <2>1, <2>3 DEF WaitForPeriphData, Fields, DataFields
  <2> QED BY <2>2, <2>3
<1>5. CASE k.state = "send_periph_grant"
  <2>1. v = SendPeriphGrant(c, k) BY <1>5 DEF Fsm, In
  <2> QED BY <1>1, <1>2, <1>5, <2>1 DEF SendPeriphGrant, Fields, DataFields
<1>6. CASE k.state = "write_mem"
  <2>1. v = WriteMem(c, k) BY <1>6 DEF Fsm, In
  <2> QED BY <1>1, <1>2, <1>6, <2>1 DEF WriteMem, Fields, DataFields
<1>7. CASE k.state = "wait_for_wr_grant"
  <2>1. v = WaitForWrGrant(c, k, dma_grant) BY <1>7 DEF Fsm, In
  <2> QED BY <1>1, <1>2, <1>7, <2>1 DEF WaitForWrGrant, Fields, DataFields
<1>8. CASE k.state = "read_mem"
  <2>1. v = ReadMem(c, k) BY <1>8 DEF Fsm, In
  <2> QED BY <1>1, <1>2, <1>8, <2>1 DEF ReadMem, Fields, DataFields
<1>9. CASE k.state = "wait_for_rd_grant"
  <2>1. v = WaitForRdGrant(c, k, dma_grant) BY <1>9 DEF Fsm, In
  <2> QED BY <1>1, <1>2, <1>9, <2>1 DEF WaitForRdGrant, Fields, DataFields
<1>10. CASE k.state = "wait_for_rd1"
  <2>1. v = WaitForRd1(c, k, rd) BY <1>10 DEF Fsm, In
  <2> QED BY <1>1, <1>2, <1>10, <2>1 DEF WaitForRd1, Fields, DataFields
<1>11. CASE k.state = "wait_for_periph_rdy"
  <2>1. v = WaitForPeriphRdy(c, k, p2d) BY <1>11 DEF Fsm, In
  <2> QED BY <1>1, <1>2, <1>11, <2>1 DEF WaitForPeriphRdy, Fields, DataFields
<1>12. CASE k.state = "send_to_periph"
  <2>1. v = SendToPeriph(c, k) BY <1>12 DEF Fsm, In
  <2> QED BY <1>1, <1>2, <1>12, <2>1 DEF SendToPeriph, Fields, DataFields
<1>13. CASE k.state = "wait_for_ready"
  <2>1. v = [k EXCEPT !.state = "wait_for_periph_rdy"] BY <1>13 DEF Fsm, In
  <2> QED BY <1>1, <1>2, <1>13, <2>1 DEF Fields, DataFields
<1>14. CASE k.state = "pre_idle"
  <2>1. v = [k EXCEPT !.state = "idle"] BY <1>14 DEF Fsm, In
  <2> QED BY <1>1, <1>2, <1>14, <2>1 DEF Fields, DataFields
<1> QED
  BY <1>1, <1>3, <1>4, <1>5, <1>6, <1>7, <1>8, <1>9, <1>10, <1>11, <1>12, <1>13, <1>14
     DEF States

-----------------------------------------------------------------------------
(* An edge of all blocks.                                                  *)
Whole(w) ==
  Edge(w) /\ Core!SlaveCycle /\ MemoryStep /\ BootStep /\ CoreStep

(* The core lends the bus or uses it.                                      *)
Lends(allowed) ==
  LET granted == request.cs /\ allowed IN
  /\ bus' = [cs |-> granted /\ ~dma_granted, wr |-> request.wr,
             owner |-> "dma", to |-> "ram", acc |-> request.acc]
  /\ dma_grant' = granted /\ dma_granted' = granted
  /\ busy' = 0
UsesBus ==
  /\ ~(bus'.wr /\ bus'.owner = "dma")
  /\ dma_grant' = FALSE /\ dma_granted' = dma_granted
  /\ busy < scenario.maxbusy /\ busy' = busy + 1

LEMMA CoreCases ==
  ASSUME BootInv, WireInv, NEW w, Whole(w)
  PROVE  UsesBus \/ \E allowed \in BOOLEAN : Lends(allowed)
<1>1. PICK wakeup \in {FALSE, wait_for_interrupt} :
    \/ B!Starts(boot) /\ Core!BootStart(request, wakeup) /\ busy' = 0
    \/ ~B!Starts(boot) /\ boot.empty /\ Core!NoExec(request, wakeup) /\ busy' = 0
    \/ ~boot.empty /\ Core!FreeCycle(request, wakeup) /\ busy' = 0
    \/ ~boot.empty /\ Core!BusyCycle(wakeup)
       /\ busy < scenario.maxbusy /\ busy' = busy + 1
  BY Zenon DEF Whole, CoreStep
<1>2. ASSUME NEW allowed, Core!Lend(request, allowed), busy' = 0
      PROVE  \E b \in BOOLEAN : Lends(b)
  <2>1. CASE allowed
    <3>1. Lends(TRUE) BY <1>2, <2>1 DEF Core!Lend, Lends
    <3> QED BY <3>1
  <2>2. CASE ~allowed
    <3>1. Lends(FALSE) BY <1>2, <2>2 DEF Core!Lend, Lends
    <3> QED BY <3>1
  <2> QED BY <2>1, <2>2
<1>3. CASE B!Starts(boot) /\ Core!BootStart(request, wakeup) /\ busy' = 0
  <2>1. ~request.cs /\ request.cs \in BOOLEAN BY <1>3 DEF B!Starts, BootInv, WireInv
  <2>2. Lends(FALSE) BY <1>3, <2>1 DEF Core!BootStart, Lends
  <2> QED BY <2>2
<1>4. CASE Core!NoExec(request, wakeup) /\ busy' = 0
  BY <1>2, <1>4 DEF Core!NoExec
<1>5. CASE Core!FreeCycle(request, wakeup) /\ busy' = 0
  BY <1>2, <1>5 DEF Core!FreeCycle, Core!ExecOther, Core!ExecLoadInst, Core!NoExec
<1>6. CASE Core!BusyCycle(wakeup) /\ busy < scenario.maxbusy /\ busy' = busy + 1
  <2>1. ASSUME NEW wr, NEW owner \in {"load", "stray"}, NEW to, Core!Drive(wr, owner, to)
        PROVE  UsesBus
    BY <1>6, <2>1 DEF Core!Drive, UsesBus
  <2>2. CASE Core!ExecLoadX0(wakeup)
    BY <1>6, <2>2 DEF Core!ExecLoadX0, UsesBus
  <2>3. CASE ~Core!ExecLoadX0(wakeup)
    BY <1>6, <2>1, <2>3 DEF Core!BusyCycle, Core!ExecLoad, Core!ExecStore,
       Core!ExecCsrRead, Core!ExecCsrWrite, Core!ExecWfi
  <2> QED BY <2>2, <2>3
<1> QED BY <1>1, <1>3, <1>4, <1>5, <1>6

-----------------------------------------------------------------------------
(* The registers the channels share, as the channel at work assigns them.  *)
LEMMA Alone ==
  ASSUME DriverInv, cur_channel \in Channels
  PROVE  /\ IssuesWrite(cur_channel) <=> State = "write_mem"
         /\ IssuesRead(cur_channel) <=> State = "read_mem" /\ ~lock_bus
<1> DEFINE a == cur_channel
<1>1. SUFFICES ASSUME State \in {"write_mem", "read_mem"} PROVE Selected = a
  BY DEF IssuesWrite, IssuesRead, In, State
<1>2. Requesting = {a} BY <1>1 DEF Requesting, DriverInv, In, State
<1>3. (CHOOSE c \in {a} : \A d \in {a} :
         \/ chan[d].wait_time < chan[c].wait_time
         \/ chan[d].wait_time = chan[c].wait_time /\ d <= c) = a
  BY DEF Channels
<1> QED BY <1>2, <1>3 DEF Selected

LEMMA Locks ==
  ASSUME DriverInv, cur_channel \in Channels, lock_bus' = LockNext(FALSE), lock_bus'
  PROVE  State = "write_mem" \/ (lock_bus /\ State # "wait_for_wr_grant")
<1> DEFINE a == cur_channel
<1>1. PICK lock : lock = [c \in Channels |-> CASE IssuesWrite(c) -> {TRUE}
                                               [] In(c, "wait_for_wr_grant") -> {FALSE}
                                               [] OTHER -> {}]
  OBVIOUS
<1>2. lock_bus' = LastAssigned(lock, lock_bus /\ ~BootEntry(FALSE)) BY <1>1 DEF LockNext
<1>3. \A c \in Channels : c # a => lock[c] = {} BY <1>1 DEF DriverInv, IssuesWrite, In
<1>4. /\ lock[a] = {} => LastAssigned(lock, lock_bus /\ ~BootEntry(FALSE))
                           = (lock_bus /\ ~BootEntry(FALSE))
      /\ \A v : lock[a] = {v} => LastAssigned(lock, lock_bus /\ ~BootEntry(FALSE)) = v
  BY <1>3, OneWriter
<1>5. CASE IssuesWrite(a) BY <1>5 DEF IssuesWrite, In, State
<1>6. CASE ~IssuesWrite(a) /\ In(a, "wait_for_wr_grant")
  <2>1. lock[a] = {FALSE} BY <1>1, <1>6
  <2> QED BY <1>2, <1>4, <2>1
<1>7. CASE ~IssuesWrite(a) /\ ~In(a, "wait_for_wr_grant")
  <2>1. lock[a] = {} BY <1>1, <1>7
  <2> QED BY <1>2, <1>4, <1>7, <2>1 DEF In, State
<1> QED BY <1>5, <1>6, <1>7

LEMMA Issue ==
  ASSUME WireInv, DriverInv, cur_channel \in Channels, request' = RequestNext(dma_grant, FALSE),
         Issues(cur_channel)
  PROVE  /\ request'.cs /\ request'.wr = (State = "write_mem")
         /\ request'.acc = Request(cur_channel)
<1> DEFINE a == cur_channel
<1>1. PICK wr : wr = [c \in Channels |-> IF Issues(c) THEN {In(c, "write_mem")} ELSE {}]
  OBVIOUS
<1>2. PICK acc : acc = [c \in Channels |-> IF Issues(c) THEN {Request(c)} ELSE {}]
  OBVIOUS
<1>3. ~BootExit(FALSE) BY DEF BootExit, WireInv
<1>4. /\ request'.wr = LastAssigned(wr, request.wr)
      /\ request'.acc = LastAssigned(acc, request.acc)
  BY <1>1, <1>2, <1>3 DEF RequestNext
<1>5. /\ \A c \in Channels : c # a => wr[c] = {}
      /\ \A c \in Channels : c # a => acc[c] = {}
  BY <1>1, <1>2 DEF DriverInv, Issues, IssuesWrite, IssuesRead, In
<1>6. wr[a] = {State = "write_mem"} /\ acc[a] = {Request(a)} BY <1>1, <1>2 DEF In, State
<1>7. LastAssigned(wr, request.wr) = (State = "write_mem")
  <2>1. \A c \in Channels : c # a => wr[c] = {} BY <1>5
  <2>2. \A v : wr[a] = {v} => LastAssigned(wr, request.wr) = v BY <2>1, OneWriter
  <2> QED BY <1>6, <2>2
<1>8. LastAssigned(acc, request.acc) = Request(a)
  <2>1. \A c \in Channels : c # a => acc[c] = {} BY <1>5
  <2>2. \A v : acc[a] = {v} => LastAssigned(acc, request.acc) = v BY <2>1, OneWriter
  <2> QED BY <1>6, <2>2
<1> QED BY <1>4, <1>7, <1>8, RequestStep

-----------------------------------------------------------------------------
(* What the driver's write does to these registers.                        *)
WrittenData(c, w, v) ==
  /\ DataFields \cup Fields \subseteq DOMAIN v
  /\ v.tmp_we = chan[c].tmp_we /\ v.tmp_data = chan[c].tmp_data
  /\ v.addr \in Addrs /\ v.auto_inc \in Nat /\ v.span \in Nat \ {0}
  /\ v.timeout = chan[c].timeout \/ w.reg = "timeout"
  /\ v.state # "idle" =>
       Fits([to_mem |-> v.state \in Receiving, auto_inc |-> v.auto_inc, span |-> v.span])

LEMMA DataWritten ==
  ASSUME ChanInv, ShapeInv, NEW c \in Channels, NEW w, Prepares(Program),
         pc \in 1 .. Len(Program), w = Program[pc], chan[c].state = "idle"
  PROVE  WrittenData(c, w, Written(c, w))
<1> DEFINE k == chan[c]
<1> USE DEF WrittenData
<1>1. /\ Fields \subseteq DOMAIN k /\ DataFields \subseteq DOMAIN k
      /\ k.addr \in Addrs /\ k.auto_inc \in Nat /\ k.span \in Nat \ {0}
  BY DEF ChanInv, ShapeInv
<1>2. /\ w.reg = "config" => Fits(w.val)
      /\ w.reg = "addr" => w.val \in Addrs
  BY DEF Prepares
<1>3. CASE c # cur_channel \/ w.reg \notin {"addr", "size", "timeout", "config"}
  BY <1>1, <1>3 DEF Written
<1>4. CASE c = cur_channel /\ w.reg = "addr"
  <2>1. Written(c, w) = [k EXCEPT !.addr = w.val] BY <1>4 DEF Written
  <2> QED BY <1>1, <1>2, <1>4, <2>1 DEF Fields, DataFields
<1>5. CASE c = cur_channel /\ w.reg = "size"
  <2>1. Written(c, w) = [k EXCEPT !.size = w.val] BY <1>5 DEF Written
  <2> QED BY <1>1, <2>1 DEF Fields, DataFields
<1>6. CASE c = cur_channel /\ w.reg = "timeout"
  <2>1. Written(c, w) = [k EXCEPT !.timeout = w.val] BY <1>6 DEF Written
  <2> QED BY <1>1, <1>6, <2>1 DEF Fields, DataFields
<1>7. CASE c = cur_channel /\ w.reg = "config"
  <2> DEFINE v == Written(c, w)
  <2>1. v = [k EXCEPT !.source = w.val.source, !.auto_inc = w.val.auto_inc,
               !.span = w.val.span, !.priority = w.val.priority,
               !.wait_time = w.val.priority,
               !.state = IF w.val.to_mem THEN "wait_for_periph_data" ELSE "read_mem"]
    BY <1>7 DEF Written
  <2>2. Fits(w.val) /\ w.val.to_mem \in BOOLEAN BY <1>2, <1>7 DEF Fits
  <2>3. /\ DataFields \cup Fields \subseteq DOMAIN v
        /\ v.tmp_we = k.tmp_we /\ v.tmp_data = k.tmp_data /\ v.addr = k.addr
        /\ v.auto_inc = w.val.auto_inc /\ v.span = w.val.span /\ v.timeout = k.timeout
        /\ v.state = IF w.val.to_mem THEN "wait_for_periph_data" ELSE "read_mem"
    BY <1>1, <2>1 DEF Fields, DataFields
  <2>4. (v.state \in Receiving) = w.val.to_mem BY <2>2, <2>3 DEF Receiving
  <2>5. v.auto_inc \in Nat /\ v.span \in Nat \ {0} BY <2>2, <2>3 DEF Fits
  <2>6. Fits([to_mem |-> v.state \in Receiving, auto_inc |-> v.auto_inc, span |-> v.span])
    BY <2>2, <2>3, <2>4 DEF Fits, OneUnit, Follow
  <2> QED BY <1>1, <2>3, <2>5, <2>6
<1> QED BY <1>3, <1>4, <1>5, <1>6, <1>7

-----------------------------------------------------------------------------
(* An edge, as far as all invariants are concerned.                        *)
LEMMA PatientDrivers ==
  ASSUME Patients
  PROVE  Drivers /\ Loadless
BY DEF Patients, Patient, Drivers, Loadless

LEMMA WholeCases ==
  ASSUME Patients, DmaInv, DataInv, NEW w, Whole(w)
  PROVE  /\ Drivers /\ Edge(w) /\ (Sets(w) \/ Moves(w))
         /\ ChanInv /\ WireInv /\ DriverInv /\ RequestInv /\ cur_channel \in Channels
         /\ Prepares(Program) /\ WaitsForEnd(Program) /\ scenario.maxbusy \in 0 .. 3
         /\ Len(Program) \in Nat /\ pc \in 1 .. Len(Program) + 1
         /\ scenario' = scenario /\ Program' = Program
         /\ request' = RequestNext(dma_grant, FALSE) /\ lock_bus' = LockNext(FALSE)
<1>1. Drivers /\ Edge(w) BY PatientDrivers DEF Whole
<1>2. scenario \in Scenarios BY DEF DmaInv, DriverInv
<1>3. Prepares(Program) /\ scenario.maxbusy \in 0 .. 3
  BY <1>2 DEF Patients, Patient, Program
<1>4. scenario' = scenario /\ Program' = Program BY <1>1 DEF Edge, Program
<1>5. lock_bus' = LockNext(FALSE) BY <1>1 DEF Edge, DmaCycle, DmaInv, WireInv
<1> QED BY <1>1, <1>3, <1>4, <1>5, EdgeCases, Wires DEF DmaInv

(* The channel at work when no register is written.                        *)
LEMMA MoveData ==
  ASSUME Patients, DmaInv, DataInv, NEW w, Whole(w), Moves(w)
  PROVE  LET a == cur_channel IN
         /\ a' = a /\ State = chan[a].state /\ State' = chan'[a].state
         /\ FsmData(a, chan[a], chan'[a], RamAnswer)
         /\ FsmMoves(a, chan[a], chan'[a])
         /\ \A c \in Channels : c # a => chan'[c] = chan[c]
<1>1. /\ ChanInv /\ ShapeInv /\ cur_channel \in Channels BY WholeCases DEF DataInv
<1>2. FsmData(cur_channel, chan[cur_channel], chan'[cur_channel], RamAnswer)
  BY <1>1, DataTransition DEF Moves, ShapeInv
<1>3. FsmMoves(cur_channel, chan[cur_channel], chan'[cur_channel])
  BY <1>1, Transition DEF Moves
<1> QED BY <1>2, <1>3 DEF Moves, State

(* The channels when one is written.                                       *)
LEMMA SetData ==
  ASSUME Patients, DmaInv, DataInv, NEW w, Whole(w), Sets(w)
  PROVE  /\ pc \in 1 .. Len(Program) /\ w = Program[pc] /\ pc' = pc + 1
         /\ State = "idle" /\ cur_channel' \in Channels
         /\ State' # "idle" => w.reg = "config" /\ cur_channel' = cur_channel
         /\ State' \in {"idle", "wait_for_periph_data", "read_mem"}
         /\ \A c \in Channels : WrittenData(c, w, chan'[c])
         /\ \A c \in Channels : chan[c].state = "idle" /\ chan[c].tmp_we = {}
<1>1. /\ pc \in 1 .. Len(Program) /\ w = Program[pc] /\ pc' = pc + 1 /\ State = "idle"
  <2>1. Len(Program) \in Nat /\ pc \in 1 .. Len(Program) + 1 BY WholeCases
  <2> QED BY <2>1 DEF Sets
<1>2. \A c \in Channels : chan[c].state = "idle" /\ chan'[c] = Written(c, w) BY DEF Sets, In
<1>3. ASSUME NEW c \in Channels PROVE WrittenData(c, w, chan'[c])
  BY <1>1, <1>2, WholeCases, DataWritten DEF DataInv
<1>4. \A c \in Channels : chan[c].tmp_we = {}
  BY <1>1, WholeCases DEF DataInv, TmpInv, Filling
<1>5. cur_channel' \in Channels
  <2>1. DriverInv' BY DriverKept, WholeCases
  <2>2. CurAt(Program)' = CurAt(Program)
    BY WholeCases DEF Program, CurAt, Tracks, Selections
  <2>3. CurAt(Program) \in Selections(Program)
    BY WholeCases, Selection DEF Program, Drivers, DriverInv
  <2> QED BY <2>1, <2>2, <2>3, WholeCases DEF DriverInv, Selections
<1>6. /\ State' \in {"idle", "wait_for_periph_data", "read_mem"}
      /\ State' # "idle" => w.reg = "config" /\ cur_channel' = cur_channel
  BY StateSet, WholeCases
<1> QED BY <1>1, <1>2, <1>3, <1>4, <1>5, <1>6

(* The port the channels share.                                            *)
LEMMA PortStep ==
  ASSUME Patients, DmaInv, DataInv, NEW w, Whole(w)
  PROVE  /\ request.cs \in BOOLEAN /\ request'.cs \in BOOLEAN
         /\ State \in {"write_mem", "read_mem"} =>
              /\ ~request.cs /\ request'.cs /\ request'.wr = (State = "write_mem")
              /\ request'.acc = Request(cur_channel)
         /\ State \in Awaiting => request.cs
         /\ State \in Awaiting /\ dma_grant => ~request'.cs
         /\ State \notin {"write_mem", "read_mem"} /\ ~(State \in Awaiting /\ dma_grant) =>
              request' = request
         /\ request.cs => State \in Awaiting /\ (request.wr <=> State = "wait_for_wr_grant")
<1>1. /\ WireInv /\ DriverInv /\ RequestInv /\ AwaitInv /\ cur_channel \in Channels
      /\ request' = RequestNext(dma_grant, FALSE)
  BY WholeCases DEF DataInv
<1>2. Issues(cur_channel) <=> State \in {"write_mem", "read_mem"}
  BY <1>1, Alone DEF Issues, AwaitInv
<1>3. Granted(cur_channel, dma_grant) <=> dma_grant /\ State \in Awaiting
  BY DEF Granted, In, State, Awaiting
<1>4. request'.cs \in BOOLEAN BY WireKept, WholeCases DEF WireInv
<1>5. State \in {"write_mem", "read_mem"} =>
              /\ ~request.cs /\ request'.cs /\ request'.wr = (State = "write_mem")
              /\ request'.acc = Request(cur_channel)
  BY <1>1, <1>2, Issue DEF RequestInv
<1>6. State \in Awaiting /\ dma_grant => ~request'.cs
  BY <1>1, <1>2, <1>3, RequestStep DEF Awaiting
<1>7. State \notin {"write_mem", "read_mem"} /\ ~(State \in Awaiting /\ dma_grant) =>
              request' = request
  BY <1>1, <1>2, <1>3, RequestStep
<1>8. request.cs => State \in Awaiting BY <1>1 DEF RequestInv, Awaiting
<1> QED BY <1>1, <1>4, <1>5, <1>6, <1>7, <1>8 DEF AwaitInv, WireInv

(* Only the request that is granted is written to memory.                  *)
LEMMA MemStep ==
  ASSUME Patients, DmaInv, DataInv, NEW w, Whole(w), NEW x \in Addrs
  PROVE  mem'[x] = IF dma_grant /\ InRequest(x) THEN request.acc.data[x % WordBytes]
                   ELSE mem[x]
<1>1. mem'[x] = IF bus.cs /\ bus.wr /\ bus.owner = "dma" /\ Covers(bus.acc, x)
                THEN bus.acc.data[x % WordBytes] ELSE mem[x]
  BY DEF Whole, MemoryStep
<1>2. BusInv BY DEF DataInv
<1>3. CASE request.cs /\ dma_grant BY <1>1, <1>2, <1>3 DEF BusInv, InRequest
<1>4. CASE ~(request.cs /\ dma_grant) BY <1>1, <1>2, <1>4 DEF BusInv, InRequest
<1> QED BY <1>3, <1>4

(* A transfer that is under way holds the driver.                          *)
LEMMA HeldDriver ==
  ASSUME Patients, DmaInv, DataInv, NEW w, Whole(w), State # "idle"
  PROVE  pc' = pc /\ pc > 1 /\ Program[pc - 1].reg = "config" /\ Moves(w)
BY Held, WholeCases

-----------------------------------------------------------------------------
LEMMA BootKept ==
  ASSUME Patients, DmaInv, DataInv, NEW w, Whole(w)
  PROVE  BootInv'
<1>1. BootInv /\ host.pin = FALSE BY WholeCases DEF DataInv, WireInv
<1>2. PICK fetch : boot' = B!BootEdge(boot, host.pin, request, fetch)
  BY Zenon DEF Whole, BootStep
<1>3. boot'.mode = FALSE /\ boot'.modep = FALSE
  BY <1>1, <1>2 DEF B!BootEdge, B!Port, BootInv, B!Starts
<1> QED BY <1>3 DEF BootInv

(* Addresses and lanes.                                                    *)
LEMMA Addresses ==
  ASSUME ShapeInv, NEW c \in Channels
  PROVE  /\ NextAddr(c) \in Addrs /\ NextAddr(c) = Follow(chan[c], chan[c].addr)
         /\ Lane(c) \in Lanes
<1>1. chan[c].addr \in Nat /\ chan[c].auto_inc \in Nat BY DEF ShapeInv, Addrs
<1>2. WordBytes \in Nat \ {0} /\ AddrMod \in Nat \ {0} BY DmaAssumption
<1>3. chan[c].addr % WordBytes \in 0 .. WordBytes - 1 BY <1>1, <1>2
<1>4. (chan[c].addr + chan[c].auto_inc) % AddrMod \in 0 .. AddrMod - 1 BY <1>1, <1>2
<1> QED BY <1>3, <1>4 DEF NextAddr, Plus, Follow, Lane, Lanes, Addrs

LEMMA ShapeKept ==
  ASSUME Patients, DmaInv, DataInv, NEW w, Whole(w)
  PROVE  ShapeInv'
<1>1. SUFFICES ASSUME NEW c \in Channels
               PROVE  /\ DataFields \subseteq DOMAIN chan'[c]
                      /\ chan'[c].addr \in Addrs /\ chan'[c].auto_inc \in Nat
                      /\ chan'[c].span \in Nat \ {0}
                      /\ chan'[c].tmp_we \subseteq Lanes /\ DOMAIN chan'[c].tmp_data = Lanes
  BY DEF ShapeInv
<1>2. ShapeInv BY DEF DataInv
<1>3. CASE Sets(w)
  <2>1. WrittenData(c, w, chan'[c]) BY <1>3, SetData
  <2> QED BY <1>2, <2>1 DEF WrittenData, ShapeInv
<1>4. CASE Moves(w) /\ c # cur_channel BY <1>2, <1>4, MoveData DEF ShapeInv
<1>5. CASE Moves(w) /\ c = cur_channel
  <2> DEFINE v == chan'[c]
  <2>1. FsmData(c, chan[c], v, RamAnswer) BY <1>5, MoveData
  <2>2. /\ chan[c].addr \in Addrs /\ chan[c].auto_inc \in Nat /\ chan[c].span \in Nat \ {0}
        /\ chan[c].tmp_we \subseteq Lanes /\ DOMAIN chan[c].tmp_data = Lanes
    BY <1>2 DEF ShapeInv
  <2>3. NextAddr(c) \in Addrs /\ Lane(c) \in Lanes BY <1>2, Addresses
  <2>4. DataFields \subseteq DOMAIN v /\ v.auto_inc \in Nat /\ v.span \in Nat \ {0}
    BY <2>1, <2>2 DEF FsmData
  <2>5. v.addr \in Addrs BY <2>1, <2>2, <2>3 DEF FsmData
  <2>6. v.tmp_we \subseteq Lanes BY <2>1, <2>2, <2>3 DEF FsmData
  <2>7. DOMAIN v.tmp_data = Lanes
    <3>1. DOMAIN EmptyWord = Lanes BY DEF EmptyWord
    <3>2. RamAnswer.en => DOMAIN RamAnswer.data = Lanes
      BY <3>1 DEF RamAnswer, WordAt
    <3> QED BY <2>1, <2>2, <3>1, <3>2 DEF FsmData
  <2> QED BY <2>4, <2>5, <2>6, <2>7
<1> QED BY <1>3, <1>4, <1>5, WholeCases

LEMMA StartKept ==
  ASSUME Patients, DmaInv, DataInv, NEW w, Whole(w)
  PROVE  StartInv'
<1> DEFINE a == cur_channel
<1>1. SUFFICES ASSUME State' # "idle"
               PROVE  Fits([to_mem |-> State' \in Receiving,
                            auto_inc |-> Me'.auto_inc, span |-> Me'.span])
  BY DEF StartInv
<1>2. CASE Sets(w)
  <2>1. a' = a /\ a' \in Channels BY <1>1, <1>2, SetData
  <2>2. WrittenData(a, w, chan'[a]) /\ State' = chan'[a].state /\ Me' = chan'[a]
    BY <1>2, <2>1, SetData DEF State, Me
  <2> QED BY <1>1, <2>2 DEF WrittenData
<1>3. CASE Moves(w)
  <2>1. /\ FsmData(a, chan[a], chan'[a], RamAnswer) /\ FsmMoves(a, chan[a], chan'[a])
        /\ a' = a /\ State = chan[a].state /\ State' = chan'[a].state
    BY <1>3, MoveData
  <2>2. Me'.auto_inc = Me.auto_inc /\ Me'.span = Me.span
    BY <2>1 DEF FsmData, Me
  <2>3. State # "idle" /\ State \in States
    BY <1>1, <2>1, WholeCases DEF FsmMoves, ChanInv
  <2>4. (State' \in Receiving) = (State \in Receiving)
    BY <1>1, <2>1, <2>3 DEF FsmMoves, Receiving, States
  <2> QED BY <2>2, <2>3, <2>4 DEF DataInv, StartInv
<1> QED BY <1>2, <1>3, WholeCases

LEMMA AwaitKept ==
  ASSUME Patients, DmaInv, DataInv, NEW w, Whole(w)
  PROVE  AwaitInv'
<1> DEFINE a == cur_channel
<1>1. AwaitInv /\ a \in Channels /\ DriverInv BY WholeCases DEF DataInv
<1>2. CASE Sets(w)
  <2>1. State' \in {"idle", "wait_for_periph_data", "read_mem"} /\ State = "idle"
    BY <1>2, SetData
  <2>2. ~lock_bus' BY <1>1, <2>1, Locks, WholeCases DEF AwaitInv
  <2> QED BY <2>1, <2>2 DEF AwaitInv, Awaiting
<1>3. CASE Moves(w)
  <2>1. /\ FsmData(a, chan[a], chan'[a], RamAnswer) /\ FsmMoves(a, chan[a], chan'[a])
        /\ a' = a /\ State = chan[a].state /\ State' = chan'[a].state
    BY <1>3, MoveData
  <2>2. State \in States BY WholeCases DEF ChanInv, State
  <2>3. /\ IssuesWrite(a) <=> State = "write_mem"
        /\ IssuesRead(a) <=> State = "read_mem" /\ ~lock_bus
    BY <1>1, Alone
  <2>4. lock_bus' => State' = "wait_for_wr_grant"
    BY <1>1, <2>1, <2>2, <2>3, Locks, WholeCases DEF AwaitInv, FsmMoves
  <2>5. CASE State \in {"write_mem", "read_mem"}
    <3>1. /\ request'.cs /\ request'.wr = (State = "write_mem")
          /\ request'.acc = Request(a)
      BY <2>5, PortStep
    <3>2. State' = IF State = "write_mem" THEN "wait_for_wr_grant" ELSE "wait_for_rd_grant"
      BY <1>1, <2>1, <2>3, <2>5 DEF FsmMoves, AwaitInv
    <3>3. State = "read_mem" => chan'[a].addr = chan[a].addr
      BY <2>1, <2>3 DEF FsmData
    <3> QED BY <2>1, <2>4, <2>5, <3>1, <3>2, <3>3 DEF AwaitInv, Awaiting, Request, Me
  <2>6. CASE State \notin {"write_mem", "read_mem"}
    <3>1. SUFFICES ASSUME State' \in Awaiting
                   PROVE  /\ request'.cs /\ request'.wr = (State' = "wait_for_wr_grant")
                          /\ request'.acc.ch = a'
                          /\ State' = "wait_for_rd_grant" =>
                               request'.acc.word = Me'.addr \div WordBytes
      BY <2>4 DEF AwaitInv, Awaiting
    <3>2. State \in Awaiting /\ State' = State /\ ~dma_grant
      BY <2>1, <2>2, <2>6, <3>1 DEF FsmMoves, States, Awaiting
    <3>3. request' = request BY <2>6, <3>2, PortStep
    <3>4. chan'[a].addr = chan[a].addr BY <2>1, <2>3, <2>6, <3>2 DEF FsmData, Awaiting
    <3> QED BY <1>1, <2>1, <3>2, <3>3, <3>4 DEF AwaitInv, Me, Awaiting
  <2> QED BY <2>5, <2>6
<1> QED BY <1>2, <1>3, WholeCases

-----------------------------------------------------------------------------
(* At the edge behind an issue the core has let the last grant go.         *)
LEMMA BusKept ==
  ASSUME Patients, DmaInv, DataInv, NEW w, Whole(w)
  PROVE  BusInv'
<1> DEFINE a == cur_channel
<1>1. /\ BusInv /\ PaceInv /\ BootInv /\ WireInv /\ request.cs \in BOOLEAN
      /\ scenario.maxbusy \in 0 .. 3 /\ State \in States
  BY WholeCases DEF DataInv, WireInv, ChanInv, State
<1>2. request.cs => dma_granted = dma_grant BY <1>1 DEF BusInv
<1>3. /\ request'.cs /\ request.cs => ~dma_granted /\ request' = request
      /\ request'.cs /\ ~request.cs => State \in {"write_mem", "read_mem"}
  BY <1>2, PortStep DEF Awaiting
<1>4. (UsesBus \/ \E allowed \in BOOLEAN : Lends(allowed)) BY <1>1, CoreCases
<1>5. /\ dma_grant' \in BOOLEAN /\ dma_granted' \in BOOLEAN
      /\ request'.cs => dma_granted' = dma_grant'
      /\ request'.cs /\ dma_grant' =>
           /\ bus'.cs /\ bus'.owner = "dma" /\ bus'.to = "ram"
           /\ bus'.wr = request'.wr /\ bus'.acc = request'.acc
      /\ bus'.cs /\ bus'.wr /\ bus'.owner = "dma" => request'.cs /\ dma_grant'
  <2>1. CASE UsesBus
    <3>1. request'.cs => ~dma_granted
      <4>1. SUFFICES ASSUME request'.cs, ~request.cs, dma_granted PROVE FALSE
        BY <1>1, <1>3
      <4>2. State \in {"write_mem", "read_mem"} BY <1>3, <4>1
      <4>3. Pace = 3 BY <4>2 DEF Pace
      <4>4. busy >= 3 /\ busy \in Nat BY <1>1, <4>1, <4>3 DEF PaceInv
      <4> QED BY <1>1, <2>1, <4>4 DEF UsesBus
    <3> QED BY <1>1, <2>1, <3>1 DEF UsesBus, BusInv
  <2>2. ASSUME NEW allowed \in BOOLEAN, Lends(allowed)
        PROVE  /\ dma_grant' \in BOOLEAN /\ dma_granted' \in BOOLEAN
               /\ request'.cs => dma_granted' = dma_grant'
               /\ request'.cs /\ dma_grant' =>
                    /\ bus'.cs /\ bus'.owner = "dma" /\ bus'.to = "ram"
                    /\ bus'.wr = request'.wr /\ bus'.acc = request'.acc
               /\ bus'.cs /\ bus'.wr /\ bus'.owner = "dma" => request'.cs /\ dma_grant'
    <3>1. /\ dma_grant' = (request.cs /\ allowed) /\ dma_granted' = dma_grant'
          /\ bus'.cs = (request.cs /\ allowed /\ ~dma_granted)
          /\ bus'.owner = "dma" /\ bus'.to = "ram"
          /\ bus'.wr = request.wr /\ bus'.acc = request.acc
      BY <2>2 DEF Lends
    <3>2. request.cs /\ ~dma_granted => request' = request
      BY <1>2, PortStep DEF Awaiting
    <3> QED BY <1>1, <1>3, <3>1, <3>2
  <2> QED BY <1>4, <2>1, <2>2
<1>6. ASSUME State' = "wait_for_rd1"
      PROVE  /\ answer'.en /\ answer'.ram /\ answer'.owner = "dma"
             /\ answer'.acc.word = Me'.addr \div WordBytes
  <2>1. Moves(w) BY <1>6, WholeCases, SetData
  <2>2. /\ FsmData(a, chan[a], chan'[a], RamAnswer) /\ FsmMoves(a, chan[a], chan'[a])
        /\ a' = a /\ State = chan[a].state /\ State' = chan'[a].state
    BY <2>1, MoveData
  <2>3. State # "wait_for_rd1"
    <3>1. SUFFICES ASSUME State = "wait_for_rd1" PROVE FALSE OBVIOUS
    <3>2. RamAnswer.en BY <1>1, <3>1 DEF BusInv, RamAnswer
    <3> QED BY <1>6, <2>2, <3>1, <3>2 DEF FsmData
  <2>4. State = "wait_for_rd_grant" /\ dma_grant
    BY <1>1, <1>6, <2>2, <2>3 DEF FsmMoves, States
  <2>5. /\ request.cs /\ ~request.wr /\ request.acc.word = Me.addr \div WordBytes
    BY <2>4, PortStep DEF Awaiting, DataInv, AwaitInv
  <2>6. /\ bus.cs /\ ~bus.wr /\ bus.owner = "dma" /\ bus.to = "ram"
        /\ bus.acc = request.acc
    BY <1>1, <2>4, <2>5 DEF BusInv
  <2>7. /\ answer'.en = (bus.cs /\ ~bus.wr /\ bus.to # "none")
        /\ answer'.ram = (bus.cs /\ ~bus.wr /\ bus.to # "none" /\ bus.to = "ram")
        /\ answer'.owner = bus.owner /\ answer'.acc = bus.acc
    BY DEF Whole, Core!SlaveCycle
  <2>8. chan'[a].addr = chan[a].addr
    BY <2>2, <2>4 DEF FsmData, IssuesWrite, In
  <2> QED BY <2>2, <2>5, <2>6, <2>7, <2>8 DEF Me
<1> QED BY <1>5, <1>6 DEF BusInv

-----------------------------------------------------------------------------
(* Where the address stands in its memory unit.                            *)
LEMMA Units ==
  ASSUME ShapeInv, StartInv, cur_channel \in Channels
  PROVE  /\ SameUnit(cur_channel) <=> OneUnit(Me, Me.addr)
         /\ State # "idle" /\ SameUnit(cur_channel) =>
              NextAddr(cur_channel) \div WordBytes = Me.addr \div WordBytes
         /\ State \in Receiving /\ ~SameUnit(cur_channel) =>
              OneUnit(Me, NextAddr(cur_channel))
<1> DEFINE a == cur_channel
    f == [to_mem |-> State \in Receiving, auto_inc |-> Me.auto_inc, span |-> Me.span]
<1>1. Me.addr \in Addrs /\ NextAddr(a) = Follow(Me, Me.addr)
  BY Addresses DEF ShapeInv, Me
<1>2. SameUnit(a) <=> OneUnit(Me, Me.addr) BY <1>1 DEF SameUnit, OneUnit, Me
<1>3. State # "idle" => Fits(f) BY DEF StartInv
<1>4. \A x : Follow(f, x) = Follow(Me, x) BY DEF Follow
<1>5. \A x : OneUnit(f, x) <=> OneUnit(Me, x) BY <1>4 DEF OneUnit
<1> QED BY <1>1, <1>2, <1>3, <1>4, <1>5 DEF Fits, Receiving

LEMMA UnitKept ==
  ASSUME Patients, DmaInv, DataInv, NEW w, Whole(w)
  PROVE  UnitInv'
<1> DEFINE a == cur_channel
<1>1. /\ UnitInv /\ ShapeInv /\ StartInv /\ DriverInv /\ a \in Channels /\ State \in States
  BY WholeCases DEF DataInv, ChanInv, State
<1>2. CASE Sets(w) BY <1>2, SetData DEF UnitInv
<1>3. CASE Moves(w)
  <2>1. /\ FsmData(a, chan[a], chan'[a], RamAnswer) /\ FsmMoves(a, chan[a], chan'[a])
        /\ a' = a /\ State = chan[a].state /\ State' = chan'[a].state
    BY <1>3, MoveData
  <2>2. /\ IssuesWrite(a) <=> State = "write_mem"
        /\ HasByte(a, p2d) => State = "wait_for_periph_data"
    BY <1>1, Alone DEF HasByte, In, State
  <2>3. SameUnit(a)' <=> ((chan'[a].addr + chan'[a].auto_inc) % AddrMod) \div chan'[a].span
                          = chan'[a].addr \div chan'[a].span
    BY <2>1 DEF SameUnit, NextAddr, Plus
  <2>4. chan'[a].auto_inc = chan[a].auto_inc /\ chan'[a].span = chan[a].span
    BY <2>1 DEF FsmData
  <2>5. chan'[a].addr = chan[a].addr => (SameUnit(a)' <=> SameUnit(a))
    BY <2>3, <2>4 DEF SameUnit, NextAddr, Plus
  <2>6. CASE State = "wait_for_periph_data"
    <3>1. chan'[a].addr = chan[a].addr BY <2>1, <2>2, <2>6 DEF FsmData
    <3>2. State' = IF HasByte(a, p2d)
                   THEN IF SameUnit(a) THEN "send_periph_grant" ELSE "write_mem"
                   ELSE IF TimesOut(a, p2d) THEN "idle" ELSE State
      BY <2>1, <2>6 DEF FsmData, FsmMoves
    <3> QED BY <2>1, <2>5, <2>6, <3>1, <3>2 DEF UnitInv
  <2>7. CASE State = "write_mem"
    <3>1. State' = "wait_for_wr_grant" BY <2>1, <2>2, <2>7 DEF FsmMoves
    <3>2. chan'[a].addr = NextAddr(a) BY <2>1, <2>2, <2>7 DEF FsmData
    <3>3. OneUnit(Me, NextAddr(a)) BY <1>1, <2>7, Units DEF UnitInv, Receiving
    <3>4. SameUnit(a)' BY <2>3, <2>4, <3>2, <3>3 DEF OneUnit, Follow, Me
    <3> QED BY <2>1, <3>1, <3>4 DEF UnitInv
  <2>8. CASE State = "wait_for_wr_grant" /\ State' = State
    <3>1. chan'[a].addr = chan[a].addr BY <2>1, <2>2, <2>8 DEF FsmData
    <3> QED BY <1>1, <2>1, <2>5, <2>8, <3>1 DEF UnitInv
  <2>9. CASE /\ State \notin {"wait_for_periph_data", "write_mem"}
             /\ ~(State = "wait_for_wr_grant" /\ State' = State)
    <3>1. State' \notin {"send_periph_grant", "wait_for_wr_grant", "write_mem"}
      BY <1>1, <2>1, <2>9 DEF FsmMoves, States
    <3> QED BY <3>1 DEF UnitInv
  <2> QED BY <2>6, <2>7, <2>8, <2>9
<1> QED BY <1>2, <1>3, WholeCases

-----------------------------------------------------------------------------
(* The core has used the bus for as many cycles as the pace says.          *)
LEMMA PaceKept ==
  ASSUME Patients, DmaInv, DataInv, NEW w, Whole(w)
  PROVE  PaceInv'
<1> DEFINE a == cur_channel
<1>1. /\ PaceInv /\ BusInv /\ UnitInv /\ AwaitInv /\ ShapeInv /\ DriverInv
      /\ BootInv /\ WireInv /\ a \in Channels /\ State \in States
      /\ request.cs \in BOOLEAN /\ request'.cs \in BOOLEAN
      /\ scenario.maxbusy \in 0 .. 3 /\ scenario' = scenario
      /\ Program' = Program /\ Len(Program) \in Nat /\ pc \in 1 .. Len(Program) + 1
  BY WholeCases, PortStep DEF DataInv, ChanInv, State
<1>2. busy \in Nat /\ busy <= scenario.maxbusy BY <1>1 DEF PaceInv
<1>3. UsesBus \/ \E allowed \in BOOLEAN : Lends(allowed) BY <1>1, CoreCases
<1>4. busy' \in Nat /\ busy' <= scenario'.maxbusy
  BY <1>1, <1>2, <1>3 DEF UsesBus, Lends
<1>5. SUFFICES ASSUME dma_granted', ~request'.cs PROVE busy' >= Pace'
  BY <1>4 DEF PaceInv
<1>8. Pace \in 0 .. 3 BY DEF Pace
<1>9. Pace' \in 0 .. 3 BY DEF Pace
<1>6. CASE request.cs
  <2>1. State \in Awaiting /\ dma_grant BY <1>5, <1>6, PortStep DEF Awaiting
  <2>2. Moves(w) /\ pc' = pc /\ pc > 1 /\ Program[pc - 1].reg = "config"
    BY <2>1, HeldDriver DEF Awaiting
  <2>3. FsmMoves(a, chan[a], chan'[a]) /\ a' = a
        /\ State = chan[a].state /\ State' = chan'[a].state
    BY <2>2, MoveData
  <2>4. State' \in {"idle", "wait_for_rd1"} \/
        (State' = "wait_for_periph_data" /\ State = "wait_for_wr_grant")
    BY <2>1, <2>3 DEF FsmMoves, Awaiting
  <2>5. State = "wait_for_wr_grant" => SameUnit(a)'
    <3>1. SUFFICES ASSUME State = "wait_for_wr_grant" PROVE SameUnit(a)' OBVIOUS
    <3>2. FsmData(a, chan[a], chan'[a], RamAnswer) BY <2>2, MoveData
    <3>3. /\ chan'[a].addr = chan[a].addr /\ chan'[a].auto_inc = chan[a].auto_inc
          /\ chan'[a].span = chan[a].span
      BY <2>3, <3>1, <3>2 DEF FsmData, IssuesWrite, In
    <3>4. SameUnit(a) BY <1>1, <3>1 DEF UnitInv
    <3> QED BY <2>3, <3>3, <3>4 DEF SameUnit, NextAddr, Plus
  <2>6. Pace' = 0
    BY <1>1, <2>2, <2>3, <2>4, <2>5 DEF Pace
  <2> QED BY <1>4, <2>6
<1>7. CASE ~request.cs
  <2>1. UsesBus BY <1>3, <1>5, <1>7 DEF Lends
  <2>2. dma_granted /\ busy' = busy + 1 /\ busy < scenario.maxbusy
    BY <1>5, <2>1 DEF UsesBus
  <2>3. busy >= Pace BY <1>1, <1>7, <2>2 DEF PaceInv
  <2>4. State \notin {"write_mem", "read_mem"} BY <1>5, PortStep
  <2>5. CASE Sets(w)
    <3>1. /\ pc \in 1 .. Len(Program) /\ w = Program[pc] /\ pc' = pc + 1 /\ State = "idle"
          /\ State' # "idle" => w.reg = "config"
          /\ State' \in {"idle", "wait_for_periph_data", "read_mem"}
      BY <2>5, SetData
    <3>2. w.reg # "wait" BY <2>5 DEF Sets
    <3>3. pc > 1 => Program[pc - 1].reg # "config"
      <4>1. SUFFICES ASSUME pc > 1, Program[pc - 1].reg = "config" PROVE FALSE OBVIOUS
      <4>2. WaitsForEnd(Program) BY WholeCases
      <4>3. pc - 1 \in 1 .. Len(Program) /\ pc - 1 < Len(Program) /\ (pc - 1) + 1 = pc
        BY <1>1, <3>1, <4>1
      <4> QED BY <3>1, <3>2, <4>1, <4>2, <4>3 DEF WaitsForEnd
    <3>4. w.reg = "config" /\ pc > 1 => Program[pc - 1].reg # "wait"
      BY <3>1, WholeCases DEF Prepares
    <3>5. Pace >= 1 /\ (w.reg = "config" => Pace = 2)
      BY <3>1, <3>3, <3>4 DEF Pace
    <3>6. pc' > 1 /\ Program'[pc' - 1] = w BY <1>1, <3>1
    <3>7. Pace' <= 3 /\ (State' = "idle" => Pace' <= 2) BY DEF Pace
    <3>8. State' = "idle" /\ w.reg = "config" => Pace' = 0 BY <3>6 DEF Pace
    <3> QED BY <1>2, <1>8, <1>9, <2>2, <2>3, <3>1, <3>5, <3>7, <3>8
  <2>6. CASE Moves(w) /\ State = "idle"
    <3>1. State' = "idle" BY <1>1, <2>6, StateNext, WholeCases
    <3>2. CASE pc' = pc
      <4>1. Pace' = Pace BY <1>1, <2>6, <3>1, <3>2 DEF Pace
      <4> QED BY <1>2, <1>8, <2>2, <2>3, <4>1
    <3>3. CASE pc' = pc + 1 /\ Program[pc].reg = "wait"
      <4>1. Pace' = 1 BY <1>1, <3>1, <3>3 DEF Pace
      <4> QED BY <1>2, <2>2, <4>1
    <3> QED BY <2>6, <3>2, <3>3 DEF Moves
  <2>7. CASE State # "idle"
    <3>1. pc' = pc /\ pc > 1 /\ Program[pc - 1].reg = "config" /\ Moves(w)
      BY <2>7, HeldDriver
    <3>2. /\ FsmData(a, chan[a], chan'[a], RamAnswer) /\ FsmMoves(a, chan[a], chan'[a])
          /\ a' = a /\ State = chan[a].state /\ State' = chan'[a].state
      BY <3>1, MoveData
    <3>3. State \notin Awaiting BY <1>7, PortStep
    <3>4. State' = "idle" => Pace' = 0 BY <1>1, <3>1 DEF Pace
    <3>5. CASE State = "wait_for_periph_data"
      <4>1. ~IssuesWrite(a) BY <3>5 DEF IssuesWrite, In, State
      <4>2. /\ chan'[a].addr = chan[a].addr /\ chan'[a].auto_inc = chan[a].auto_inc
            /\ chan'[a].span = chan[a].span
        BY <3>2, <3>5, <4>1 DEF FsmData
      <4>3. SameUnit(a)' <=> SameUnit(a) BY <3>2, <4>2 DEF SameUnit, NextAddr, Plus
      <4>4. State' = IF HasByte(a, p2d)
                     THEN IF SameUnit(a) THEN "send_periph_grant" ELSE "write_mem"
                     ELSE IF TimesOut(a, p2d) THEN "idle" ELSE State
        BY <3>2, <3>5 DEF FsmData, FsmMoves
      <4>5. Pace = IF SameUnit(a) THEN 0 ELSE 2 BY <3>5 DEF Pace
      <4>6. Pace' <= Pace + 1
        <5>1. CASE State' = "idle" BY <3>4, <4>5, <5>1
        <5>2. CASE State' = "send_periph_grant" BY <4>5, <5>2 DEF Pace
        <5>3. CASE State' = "write_mem" /\ ~SameUnit(a) BY <4>5, <5>3 DEF Pace
        <5>4. CASE State' = "wait_for_periph_data"
          BY <3>2, <4>3, <4>5, <5>4 DEF Pace
        <5> QED BY <3>5, <4>4, <5>1, <5>2, <5>3, <5>4
      <4> QED BY <1>2, <1>8, <1>9, <2>2, <2>3, <4>6
    <3>6. CASE State # "wait_for_periph_data"
      <4>1. Pace' <= Pace + 1
        <5>1. CASE State = "send_periph_grant"
          <6>1. State' = "wait_for_periph_data" BY <3>2, <5>1 DEF FsmMoves
          <6>2. Pace = 1 /\ Pace' <= 2 BY <5>1, <6>1 DEF Pace
          <6> QED BY <6>2
        <5>2. CASE State = "wait_for_rd1"
          <6>1. State' \in {"wait_for_rd1", "wait_for_periph_rdy"}
            BY <3>2, <5>2 DEF FsmMoves
          <6> QED BY <5>2, <6>1 DEF Pace
        <5>3. CASE State = "wait_for_periph_rdy"
          <6>1. State' \in {"wait_for_periph_rdy", "send_to_periph"}
            BY <3>2, <5>3 DEF FsmMoves
          <6> QED BY <5>3, <6>1 DEF Pace
        <5>4. CASE State \in {"send_to_periph", "wait_for_ready", "pre_idle"}
          <6>1. Pace >= 2 /\ Pace' <= 3 BY <5>4 DEF Pace
          <6> QED BY <5>4, <6>1 DEF Pace
        <5> QED
          BY <1>1, <2>4, <2>7, <3>3, <3>6, <5>1, <5>2, <5>3, <5>4 DEF States, Awaiting
      <4> QED BY <1>2, <1>8, <1>9, <2>2, <2>3, <4>1
    <3> QED BY <3>5, <3>6
  <2> QED BY <2>5, <2>6, <2>7, WholeCases
<1> QED BY <1>1, <1>6, <1>7

LEMMA TmpKept ==
  ASSUME Patients, DmaInv, DataInv, NEW w, Whole(w)
  PROVE  TmpInv'
<1> DEFINE a == cur_channel
<1>1. /\ TmpInv /\ a \in Channels /\ DriverInv /\ State \in States /\ Prepares(Program)
      /\ Program' = Program /\ Len(Program) \in Nat /\ pc \in 1 .. Len(Program) + 1
  BY WholeCases DEF DataInv, ChanInv, State
<1>2. CASE Sets(w)
  <2>1. /\ pc \in 1 .. Len(Program) /\ w = Program[pc] /\ pc' = pc + 1
        /\ \A c \in Channels : WrittenData(c, w, chan'[c]) /\ chan[c].tmp_we = {}
    BY <1>2, SetData
  <2>2. \A c \in Channels : chan'[c].tmp_we = {} BY <2>1 DEF WrittenData
  <2>3. ASSUME NEW c \in Channels, chan'[c].timeout # 0
        PROVE  \E i \in 1 .. pc' - 1 : Program[i].reg = "timeout"
    <3>1. CASE w.reg = "timeout" BY <2>1, <3>1
    <3>2. CASE chan'[c].timeout = chan[c].timeout
      <4>1. PICK i \in 1 .. pc - 1 : Program[i].reg = "timeout"
        BY <1>1, <2>3, <3>2 DEF TmpInv
      <4> QED BY <2>1, <4>1
    <3> QED BY <2>1, <3>1, <3>2 DEF WrittenData
  <2> QED BY <1>1, <2>2, <2>3 DEF TmpInv
<1>3. CASE Moves(w)
  <2>1. /\ FsmData(a, chan[a], chan'[a], RamAnswer) /\ FsmMoves(a, chan[a], chan'[a])
        /\ a' = a /\ State = chan[a].state /\ State' = chan'[a].state
        /\ \A c \in Channels : c # a => chan'[c] = chan[c]
    BY <1>3, MoveData
  <2>2. pc' \in {pc, pc + 1} BY <1>3 DEF Moves
  <2>3. \A c \in Channels : chan'[c].timeout = chan[c].timeout
    BY <2>1 DEF FsmMoves
  <2>4. ASSUME NEW c \in Channels, chan'[c].timeout # 0
        PROVE  \E i \in 1 .. pc' - 1 : Program[i].reg = "timeout"
    <3>1. PICK i \in 1 .. pc - 1 : Program[i].reg = "timeout"
      BY <1>1, <2>3, <2>4 DEF TmpInv
    <3> QED BY <1>1, <2>2, <3>1
  <2>5. ASSUME NEW c \in Channels, c # a, chan'[c].tmp_we # {} PROVE FALSE
    BY <1>1, <2>1, <2>5 DEF TmpInv
  <2>6. ASSUME chan'[a].tmp_we # {}
        PROVE  State' \in Filling \/ (State' = "idle" /\ pc' = Len(Program) + 1)
    <3>1. /\ IssuesWrite(a) <=> State = "write_mem"
          /\ HasByte(a, p2d) => State = "wait_for_periph_data"
      BY <1>1, Alone DEF HasByte, In, State
    <3>2. CASE HasByte(a, p2d)
      BY <2>1, <3>1, <3>2 DEF FsmMoves, Filling
    <3>3. CASE ~HasByte(a, p2d)
      <4>1. State # "write_mem" /\ chan[a].tmp_we # {}
        BY <2>1, <2>6, <3>1, <3>3 DEF FsmData
      <4>2. State \in {"wait_for_periph_data", "send_periph_grant"}
            \/ (State = "idle" /\ pc = Len(Program) + 1)
        BY <1>1, <4>1 DEF TmpInv, Filling
      <4>3. CASE State = "idle" /\ pc = Len(Program) + 1
        <5>1. State' = "idle" BY <1>1, <1>3, <4>3, StateNext, WholeCases
        <5>2. pc' = pc BY <1>1, <1>3, <4>3 DEF Moves
        <5> QED BY <4>3, <5>1, <5>2
      <4>4. CASE State = "send_periph_grant" BY <2>1, <4>4 DEF FsmMoves, Filling
      <4>5. CASE State = "wait_for_periph_data" /\ ~TimesOut(a, p2d)
        BY <2>1, <3>3, <4>5 DEF FsmMoves, Filling
      <4>6. CASE State = "wait_for_periph_data" /\ TimesOut(a, p2d)
        <5>1. State' = "idle" BY <2>1, <3>3, <4>6 DEF FsmMoves
        <5>2. pc' = pc /\ pc > 1 /\ Program[pc - 1].reg = "config" BY <4>6, HeldDriver
        <5>3. PICK i \in 1 .. pc - 1 : Program[i].reg = "timeout"
          BY <1>1, <4>6 DEF TmpInv, TimesOut
        <5>4. i \in 1 .. Len(Program) /\ pc - 1 \in i .. Len(Program) BY <1>1, <5>2, <5>3
        <5>5. pc - 1 = Len(Program) BY <1>1, <5>2, <5>3, <5>4 DEF Prepares
        <5> QED BY <1>1, <5>1, <5>2, <5>5
      <4> QED BY <4>2, <4>3, <4>4, <4>5, <4>6
    <3> QED BY <3>2, <3>3
  <2> QED BY <1>1, <2>1, <2>4, <2>5, <2>6 DEF TmpInv
<1> QED BY <1>2, <1>3, WholeCases

-----------------------------------------------------------------------------
(* A byte is at its address, one lane of one word.                         *)
LEMMA WordAndLane ==
  ASSUME NEW x \in Addrs
  PROVE  /\ (x \div WordBytes) * WordBytes + (x % WordBytes) = x
         /\ x % WordBytes \in Lanes /\ x % AddrMod = x
<1>1. x \in Nat /\ x < AddrMod /\ AddrMod \in Nat \ {0} /\ WordBytes \in Nat \ {0}
  BY DmaAssumption DEF Addrs
<1>2. x = WordBytes * (x \div WordBytes) + (x % WordBytes)
  BY <1>1
<1>3. x % WordBytes \in Lanes BY <1>1 DEF Lanes
<1>4. x % AddrMod = x
  <2>1. x = AddrMod * 0 + x /\ x \in 0 .. AddrMod - 1 BY <1>1
  <2> QED BY <1>1, <2>1
<1>5. WordBytes * (x \div WordBytes) = (x \div WordBytes) * WordBytes BY <1>1
<1> QED BY <1>2, <1>3, <1>4, <1>5

(* What memory must hold changes where a byte is taken.                    *)
LEMMA StoredStep ==
  ASSUME Patients, DmaInv, DataInv, NEW w, Whole(w), NEW x \in Addrs
  PROVE  stored'[x] = IF HasByte(cur_channel, p2d) /\ x = Me.addr
                      THEN p2d[Source].data ELSE stored[x]
<1> DEFINE a == cur_channel
<1>1. stored'[x] = IF AcceptedBy(x) = {} THEN stored[x]
                   ELSE p2d[chan[CHOOSE c \in AcceptedBy(x) : TRUE].source].data
  BY DEF Whole, Edge, HistoryStep
<1>2. AcceptedBy(x) = IF HasByte(a, p2d) /\ x = Me.addr THEN {a} ELSE {}
  BY WholeCases DEF AcceptedBy, DriverInv, HasByte, In, Me
<1>3. CASE HasByte(a, p2d) /\ x = Me.addr
  <2>1. AcceptedBy(x) = {a} BY <1>2, <1>3
  <2>2. (CHOOSE c \in {a} : TRUE) = a OBVIOUS
  <2> QED BY <1>1, <1>3, <2>1, <2>2 DEF Source
<1>4. CASE ~(HasByte(a, p2d) /\ x = Me.addr) BY <1>1, <1>2, <1>4
<1> QED BY <1>3, <1>4

LEMMA StoredKept ==
  ASSUME Patients, DmaInv, DataInv, NEW w, Whole(w)
  PROVE  StoredInv'
<1> DEFINE a == cur_channel
<1>1. SUFFICES ASSUME NEW x \in Addrs
               PROVE  /\ InTmp(x)' => Me'.tmp_data[x % WordBytes] = stored'[x]
                      /\ InRequest(x)' => request'.acc.data[x % WordBytes] = stored'[x]
                      /\ ~InTmp(x)' /\ ~InRequest(x)' => mem'[x] = stored'[x]
  BY DEF StoredInv
<1>2. /\ InTmp(x) => Me.tmp_data[x % WordBytes] = stored[x]
      /\ InRequest(x) => request.acc.data[x % WordBytes] = stored[x]
      /\ ~InTmp(x) /\ ~InRequest(x) => mem[x] = stored[x]
  BY DEF DataInv, StoredInv
<1>3. mem'[x] = IF dma_grant /\ InRequest(x) THEN request.acc.data[x % WordBytes]
                ELSE mem[x]
  BY MemStep
<1>4. stored'[x] = IF HasByte(a, p2d) /\ x = Me.addr THEN p2d[Source].data ELSE stored[x]
  BY StoredStep
<1>5. /\ ShapeInv /\ StartInv /\ UnitInv /\ TmpInv /\ AwaitInv /\ DriverInv
      /\ a \in Channels /\ State \in States
  BY WholeCases DEF DataInv, ChanInv, State
<1>6. InTmp(x)' <=> x \div WordBytes = Me'.addr \div WordBytes
                    /\ (x % WordBytes) \in Me'.tmp_we
  BY DEF InTmp
<1>7. InRequest(x)' <=> /\ request'.cs /\ request'.wr
                        /\ request'.acc.word = x \div WordBytes
                        /\ (x % WordBytes) \in request'.acc.be
  BY DEF InRequest, Covers
<1>8. HasByte(a, p2d) => State = "wait_for_periph_data" BY DEF HasByte, In, State
<1>9. InRequest(x) => State = "wait_for_wr_grant"
  BY PortStep DEF InRequest, AwaitInv
<1>10. State \in Awaiting => Me.tmp_we = {}
  BY <1>5 DEF TmpInv, Filling, Awaiting, Me
<1>11. CASE Sets(w)
  <2>1. State = "idle" /\ a' \in Channels
        /\ \A c \in Channels : WrittenData(c, w, chan'[c]) /\ chan[c].tmp_we = {}
    BY <1>11, SetData
  <2>2. ~InTmp(x) /\ ~InTmp(x)'
    BY <1>5, <1>6, <2>1 DEF InTmp, Me, WrittenData
  <2>3. request' = request BY <2>1, PortStep DEF Awaiting
  <2>4. ~InRequest(x) /\ ~InRequest(x)' BY <1>9, <2>1, <2>3 DEF InRequest
  <2> QED BY <1>2, <1>3, <1>4, <1>8, <2>1, <2>2, <2>4
<1>12. CASE Moves(w)
  <2>1. /\ FsmData(a, chan[a], chan'[a], RamAnswer) /\ FsmMoves(a, chan[a], chan'[a])
        /\ a' = a /\ State = chan[a].state /\ State' = chan'[a].state
    BY <1>12, MoveData
  <2>2. Me = chan[a] /\ Me' = chan'[a] BY <2>1 DEF Me
  <2>3. IssuesWrite(a) <=> State = "write_mem" BY <1>5, Alone
  <2>4. CASE HasByte(a, p2d)
    <3>1. State = "wait_for_periph_data" /\ request' = request
          /\ ~InRequest(x) /\ ~InRequest(x)'
      BY <1>8, <1>9, <2>4, PortStep DEF Awaiting, InRequest
    <3>2. /\ Me'.addr = Me.addr /\ Me'.tmp_we = Me.tmp_we \cup {Lane(a)}
          /\ Me'.tmp_data = [Me.tmp_data EXCEPT ![Lane(a)] = p2d[Source].data]
      BY <2>1, <2>2, <2>3, <2>4, <3>1 DEF FsmData, Source
    <3>3. Me.addr \in Addrs /\ DOMAIN Me.tmp_data = Lanes /\ Lane(a) \in Lanes
          /\ Lane(a) = Me.addr % WordBytes
      BY <1>5, <2>2, Addresses DEF ShapeInv, Lane
    <3>4. CASE x = Me.addr
      <4>1. InTmp(x)' BY <1>6, <3>2, <3>3, <3>4
      <4>2. Me'.tmp_data[x % WordBytes] = p2d[Source].data BY <3>2, <3>3, <3>4
      <4> QED BY <1>4, <2>4, <3>1, <3>4, <4>1, <4>2
    <3>5. CASE x # Me.addr
      <4>1. x \div WordBytes = Me.addr \div WordBytes => x % WordBytes # Lane(a)
        BY <3>3, <3>5, WordAndLane
      <4>2. InTmp(x)' <=> InTmp(x) BY <1>6, <3>2, <4>1 DEF InTmp
      <4>3. InTmp(x) => Me'.tmp_data[x % WordBytes] = Me.tmp_data[x % WordBytes]
        BY <3>2, <3>3, <4>1, WordAndLane DEF InTmp
      <4> QED BY <1>2, <1>3, <1>4, <3>1, <3>5, <4>2, <4>3
    <3> QED BY <3>4, <3>5
  <2>5. CASE State = "write_mem"
    <3>1. /\ request'.cs /\ request'.wr /\ request'.acc = Request(a) /\ ~InRequest(x)
          /\ ~HasByte(a, p2d)
      BY <1>8, <1>9, <2>5, PortStep
    <3>2. InRequest(x)' <=> InTmp(x) BY <1>7, <2>2, <3>1 DEF Request, InTmp
    <3>3. request'.acc.data = Me.tmp_data BY <2>2, <3>1 DEF Request
    <3>4. ~InTmp(x)' BY <1>6, <2>1, <2>2, <2>3, <2>5, <3>1 DEF FsmData
    <3> QED BY <1>2, <1>3, <1>4, <3>1, <3>2, <3>3, <3>4
  <2>6. CASE State = "send_periph_grant"
    <3>1. request' = request /\ ~InRequest(x) /\ ~InRequest(x)' /\ ~HasByte(a, p2d)
      BY <1>8, <1>9, <2>6, PortStep DEF Awaiting, InRequest
    <3>2. /\ Me'.addr = NextAddr(a) /\ Me'.tmp_we = Me.tmp_we
          /\ Me'.tmp_data = Me.tmp_data
      BY <2>1, <2>2, <2>3, <2>6, <3>1 DEF FsmData
    <3>3. Me'.addr \div WordBytes = Me.addr \div WordBytes
      BY <1>5, <2>6, <3>2, Units DEF UnitInv
    <3>4. InTmp(x)' <=> InTmp(x) BY <1>6, <3>2, <3>3 DEF InTmp
    <3> QED BY <1>2, <1>3, <1>4, <3>1, <3>2, <3>4
  <2>7. CASE State = "wait_for_periph_data" /\ ~HasByte(a, p2d)
    <3>1. request' = request /\ ~InRequest(x) /\ ~InRequest(x)'
      BY <1>9, <2>7, PortStep DEF Awaiting, InRequest
    <3>2. Me'.addr = Me.addr /\ Me'.tmp_we = Me.tmp_we /\ Me'.tmp_data = Me.tmp_data
      BY <2>1, <2>2, <2>3, <2>7 DEF FsmData
    <3>3. InTmp(x)' <=> InTmp(x) BY <1>6, <3>2 DEF InTmp
    <3> QED BY <1>2, <1>3, <1>4, <2>7, <3>1, <3>2, <3>3
  <2>8. CASE State = "idle"
    <3>1. request' = request /\ ~InRequest(x) /\ ~InRequest(x)' /\ ~HasByte(a, p2d)
      BY <1>8, <1>9, <2>8, PortStep DEF Awaiting, InRequest
    <3>2. Me'.addr = Me.addr /\ Me'.tmp_we = Me.tmp_we /\ Me'.tmp_data = Me.tmp_data
      BY <2>1, <2>2, <2>8 DEF FsmMoves
    <3>3. InTmp(x)' <=> InTmp(x) BY <1>6, <3>2 DEF InTmp
    <3> QED BY <1>2, <1>3, <1>4, <3>1, <3>2, <3>3
  <2>9. CASE State \notin Filling \cup {"idle"}
    <3>1. Me.tmp_we = {} /\ ~HasByte(a, p2d) /\ ~InTmp(x)
      BY <1>5, <1>8, <2>9 DEF TmpInv, Filling, Me, InTmp
    <3>2. ~InTmp(x)' BY <1>6, <2>1, <2>2, <2>3, <2>9, <3>1 DEF FsmData, Filling
    <3>3. CASE State = "wait_for_wr_grant" /\ dma_grant
      <4>1. ~request'.cs BY <3>3, PortStep DEF Awaiting
      <4> QED BY <1>2, <1>3, <1>4, <1>7, <3>1, <3>2, <3>3, <4>1
    <3>4. CASE State \in Awaiting /\ ~dma_grant
      <4>1. request' = request BY <3>4, PortStep DEF Awaiting
      <4>2. InRequest(x)' <=> InRequest(x) BY <4>1 DEF InRequest
      <4> QED BY <1>2, <1>3, <1>4, <3>1, <3>2, <3>4, <4>1, <4>2
    <3>5. CASE State # "wait_for_wr_grant" /\ ~(State \in Awaiting /\ ~dma_grant)
      <4>1. ~InRequest(x) BY <1>9, <3>5
      <4>2. ~InRequest(x)'
        <5>1. SUFFICES ASSUME request'.cs, request'.wr PROVE FALSE BY <1>7
        <5>2. State \notin Awaiting BY <3>5, <5>1, PortStep
        <5>3. State # "write_mem" BY <2>9 DEF Filling
        <5> QED BY <5>1, <5>2, <5>3, PortStep
      <4> QED BY <1>2, <1>3, <1>4, <3>1, <3>2, <4>1, <4>2
    <3> QED BY <3>3, <3>4, <3>5 DEF Awaiting
  <2> QED BY <2>4, <2>5, <2>6, <2>7, <2>8, <2>9 DEF Filling
<1> QED BY <1>11, <1>12, WholeCases

(* A word that was read stays what memory holds.                           *)
LEMMA ReadKept ==
  ASSUME Patients, DmaInv, DataInv, NEW w, Whole(w)
  PROVE  ReadInv'
<1> DEFINE a == cur_channel
    word(addr, m, l) == m[((addr \div WordBytes) * WordBytes + l) % AddrMod]
<1>1. SUFFICES ASSUME State' \in {"wait_for_periph_rdy", "send_to_periph", "wait_for_ready"},
                      NEW l \in Lanes
               PROVE  Me'.tmp_data[l] = word(Me'.addr, mem', l)
  BY DEF ReadInv
<1>2. /\ ShapeInv /\ StartInv /\ AwaitInv /\ BusInv /\ ReadInv /\ DriverInv
      /\ a \in Channels /\ State \in States
  BY WholeCases DEF DataInv, ChanInv, State
<1>3. Moves(w) BY <1>1, SetData, WholeCases
<1>4. /\ FsmData(a, chan[a], chan'[a], RamAnswer) /\ FsmMoves(a, chan[a], chan'[a])
      /\ a' = a /\ State = chan[a].state /\ State' = chan'[a].state
      /\ Me = chan[a] /\ Me' = chan'[a]
  BY <1>3, MoveData DEF Me
<1>5. /\ IssuesWrite(a) => State = "write_mem"
      /\ HasByte(a, p2d) => State = "wait_for_periph_data"
  BY DEF IssuesWrite, HasByte, In, State
<1>6. State \in {"wait_for_rd1", "wait_for_periph_rdy", "send_to_periph", "wait_for_ready"}
  BY <1>1, <1>2, <1>4 DEF FsmMoves, States
<1>7. \A x \in Addrs : mem'[x] = mem[x]
  <2>1. ~request.cs BY <1>6, PortStep DEF Awaiting
  <2> QED BY <2>1, MemStep DEF InRequest
<1>8. word(Me'.addr, mem', l) = word(Me'.addr, mem, l)
  <2>1. Me'.addr \in Nat
    BY <1>2, <1>4, ShapeKept DEF ShapeInv, Addrs
  <2>2. l \in Nat /\ AddrMod \in Nat \ {0} /\ WordBytes \in Nat \ {0}
    BY DmaAssumption DEF Lanes
  <2>3. Me'.addr \div WordBytes \in Nat BY <2>1, <2>2
  <2>4. (Me'.addr \div WordBytes) * WordBytes + l \in Nat BY <2>2, <2>3
  <2>5. ((Me'.addr \div WordBytes) * WordBytes + l) % AddrMod \in Addrs
    BY <2>2, <2>4 DEF Addrs
  <2> QED BY <1>7, <2>5
<1>9. CASE State = "wait_for_rd1"
  <2>1. /\ answer.en /\ answer.ram /\ answer.owner = "dma"
        /\ answer.acc.word = Me.addr \div WordBytes
    BY <1>2, <1>9 DEF BusInv
  <2>2. RamAnswer.en /\ RamAnswer.data = WordAt(Me.addr \div WordBytes)
    BY <2>1 DEF RamAnswer
  <2>3. Me'.addr = Me.addr /\ Me'.tmp_data = WordAt(Me.addr \div WordBytes)
    BY <1>4, <1>5, <1>9, <2>2 DEF FsmData
  <2> QED BY <1>8, <2>3 DEF WordAt
<1>10. CASE State \in {"wait_for_periph_rdy", "wait_for_ready", "send_to_periph"}
  <2>1. Me'.tmp_data = Me.tmp_data BY <1>4, <1>5, <1>10 DEF FsmData
  <2>2. Me.tmp_data[l] = word(Me.addr, mem, l) BY <1>2, <1>10 DEF ReadInv
  <2>3. Me'.addr \div WordBytes = Me.addr \div WordBytes
    <3>1. CASE State # "send_to_periph" BY <1>4, <1>5, <1>10, <3>1 DEF FsmData
    <3>2. CASE State = "send_to_periph"
      <4>1. State' = "wait_for_ready" BY <1>1, <1>4, <3>2 DEF FsmMoves
      <4>2. SameUnit(a) /\ Me'.addr = NextAddr(a)
        BY <1>4, <1>5, <3>2, <4>1 DEF FsmData
      <4> QED BY <1>2, <3>2, <4>2, Units
    <3> QED BY <3>1, <3>2
  <2> QED BY <1>8, <2>1, <2>2, <2>3
<1> QED BY <1>6, <1>9, <1>10

-----------------------------------------------------------------------------
LEMMA DataInitially ==
  ASSUME Patients, BusInit
  PROVE  DataInv
<1>1. /\ 0 \in Channels /\ WordBytes \in Nat \ {0} /\ 0 \in Addrs
      /\ scenario \in Scenarios /\ scenario.maxbusy \in 0 .. 3
  BY DmaAssumption DEF Channels, Addrs, BusInit, Patients, Patient
<1>2. chan = [c \in Channels |-> Idle] /\ cur_channel = 0 /\ pc = 1
      /\ request = NoRequest /\ ~lock_bus
  BY DEF BusInit, DmaInit
<1>3. ~dma_grant /\ ~dma_granted /\ ~bus.cs /\ busy = 0 /\ boot = B!BootReset /\ mem = stored
  /\ dma_grant \in BOOLEAN /\ dma_granted \in BOOLEAN
  BY DEF BusInit, Core!CoreInit
<1>4. /\ DataFields \subseteq DOMAIN Idle /\ Idle.state = "idle" /\ Idle.addr = 0
      /\ Idle.auto_inc = 0 /\ Idle.span = WordBytes /\ Idle.tmp_we = {}
      /\ DOMAIN Idle.tmp_data = Lanes /\ Idle.timeout = 0
  BY DEF Idle, DataFields, EmptyWord
<1>5. \A c \in Channels : chan[c] = Idle BY <1>2
<1>6. State = "idle" /\ Me = Idle BY <1>1, <1>2, <1>4, <1>5 DEF State, Me
<1>7. ~request.cs BY <1>2 DEF NoRequest
<1>8. BootInv BY <1>3, <1>7 DEF BootInv, B!BootReset
<1>9. ShapeInv BY <1>1, <1>4, <1>5 DEF ShapeInv
<1>10. StartInv /\ AwaitInv BY <1>2, <1>6 DEF StartInv, AwaitInv, Awaiting
<1>11. BusInv /\ PaceInv BY <1>1, <1>3, <1>6, <1>7 DEF BusInv, PaceInv
<1>12. UnitInv /\ ReadInv BY <1>6 DEF UnitInv, ReadInv
<1>13. TmpInv BY <1>4, <1>5 DEF TmpInv
<1>14. StoredInv BY <1>3, <1>4, <1>6, <1>7 DEF StoredInv, InTmp, InRequest
<1> QED BY <1>8, <1>9, <1>10, <1>11, <1>12, <1>13, <1>14 DEF DataInv

LEMMA DataStutters ==
  ASSUME DataInv, UNCHANGED vars
  PROVE  DataInv'
<1> USE DEF vars, dmaVars, coreVars, envVars, history, State, Me, Program
<1>1. BootInv' /\ ShapeInv' /\ AwaitInv' /\ BusInv'
  BY DEF DataInv, BootInv, ShapeInv, AwaitInv, BusInv
<1>2. StartInv' /\ UnitInv' /\ PaceInv'
  BY DEF DataInv, StartInv, UnitInv, PaceInv, Pace, SameUnit, NextAddr
<1>3. TmpInv' /\ ReadInv' BY DEF DataInv, TmpInv, ReadInv
<1>4. StoredInv' BY DEF DataInv, StoredInv, InTmp, InRequest, Covers
<1> QED BY <1>1, <1>2, <1>3, <1>4 DEF DataInv

LEMMA DataKept ==
  ASSUME Patients, DmaInv, DataInv, [Cycle]_vars
  PROVE  DmaInv' /\ DataInv'
<1>1. CASE Cycle
  <2>3. host'.pin = FALSE BY <1>1, PinStaysLow, NothingRaises, PatientDrivers DEF Cycle
  <2>1. PICK w : Whole(w) BY <1>1, <2>3 DEF Cycle, Edge, Whole
  <2>2. DmaInv' BY <1>1, Kept, PatientDrivers
  <2> QED
    BY <2>1, <2>2, BootKept, ShapeKept, StartKept, AwaitKept, BusKept, PaceKept,
       UnitKept, TmpKept, StoredKept, ReadKept DEF DataInv
<1>2. CASE UNCHANGED vars BY <1>2, Stutters, DataStutters
<1> QED BY <1>1, <1>2

LEMMA DataPromises ==
  ASSUME Patients, DmaInv, DataInv
  PROVE  GrantIsTransmitted /\ NoByteLost /\ SendsMemory
<1>1. /\ DriverInv /\ AwaitInv /\ BusInv /\ ShapeInv /\ StoredInv /\ ReadInv
      /\ cur_channel \in Channels
  BY Current, PatientDrivers DEF DmaInv, DataInv, Drivers
<1>2. GrantIsTransmitted
  <2>1. SUFFICES ASSUME NEW c \in Channels, Granted(c, dma_grant)
                 PROVE  bus.cs /\ bus.owner = "dma" /\ bus.acc.ch = c
    BY DEF GrantIsTransmitted
  <2>2. c = cur_channel /\ State \in Awaiting /\ dma_grant
    BY <1>1, <2>1 DEF Granted, DriverInv, In, State, Awaiting
  <2> QED BY <1>1, <2>2 DEF AwaitInv, BusInv
<1>3. NoByteLost
  <2>1. SUFFICES ASSUME NEW x \in Addrs
                 PROVE  \/ mem[x] = stored[x]
                        \/ \E c \in Channels :
                             /\ chan[c].addr \div WordBytes = x \div WordBytes
                             /\ (x % WordBytes) \in chan[c].tmp_we
                             /\ chan[c].tmp_data[x % WordBytes] = stored[x]
                        \/ /\ request.cs /\ request.wr /\ Covers(request.acc, x)
                           /\ request.acc.data[x % WordBytes] = stored[x]
    BY DEF NoByteLost
  <2>2. CASE InTmp(x) BY <1>1, <2>2 DEF StoredInv, InTmp, Me
  <2>3. CASE InRequest(x) BY <1>1, <2>3 DEF StoredInv, InRequest
  <2>4. CASE ~InTmp(x) /\ ~InRequest(x) BY <1>1, <2>4 DEF StoredInv
  <2> QED BY <2>2, <2>3, <2>4
<1>4. SendsMemory
  <2>1. SUFFICES ASSUME NEW c \in Channels, In(c, "send_to_periph")
                 PROVE  chan[c].tmp_data[Lane(c)] = mem[chan[c].addr]
    BY DEF SendsMemory
  <2>2. c = cur_channel /\ State = "send_to_periph"
    BY <1>1, <2>1 DEF DriverInv, In, State
  <2>3. chan[c].addr \in Addrs /\ Lane(c) \in Lanes /\ Lane(c) = chan[c].addr % WordBytes
    BY <1>1, Addresses DEF ShapeInv, Lane
  <2>4. chan[c].tmp_data[Lane(c)] =
          mem[((chan[c].addr \div WordBytes) * WordBytes + Lane(c)) % AddrMod]
    BY <1>1, <2>2, <2>3 DEF ReadInv, Me
  <2> QED BY <2>3, <2>4, WordAndLane
<1> QED BY <1>2, <1>3, <1>4

(* A grant the state machine takes for its own request: that request is on *)
(* the bus in the same cycle.                                              *)
THEOREM GrantsAreTransmitted == Patients => (Spec => []GrantIsTransmitted)
<1> SUFFICES ASSUME Patients PROVE Spec => []GrantIsTransmitted OBVIOUS
<1>1. BusInit => DmaInv /\ DataInv BY Initially, PatientDrivers, DataInitially
<1>2. DmaInv /\ DataInv /\ [Cycle]_vars => DmaInv' /\ DataInv' BY DataKept
<1>3. DmaInv /\ DataInv => GrantIsTransmitted BY DataPromises
<1> QED BY <1>1, <1>2, <1>3, PTL DEF Spec

(* Every byte taken from a peripheral is in memory or on its way there.    *)
THEOREM BytesAreStored == Patients => (Spec => []NoByteLost)
<1> SUFFICES ASSUME Patients PROVE Spec => []NoByteLost OBVIOUS
<1>1. BusInit => DmaInv /\ DataInv BY Initially, PatientDrivers, DataInitially
<1>2. DmaInv /\ DataInv /\ [Cycle]_vars => DmaInv' /\ DataInv' BY DataKept
<1>3. DmaInv /\ DataInv => NoByteLost BY DataPromises
<1> QED BY <1>1, <1>2, <1>3, PTL DEF Spec

(* A byte that is sent is the one memory holds at the channel's address.   *)
THEOREM MemoryIsSent == Patients => (Spec => []SendsMemory)
<1> SUFFICES ASSUME Patients PROVE Spec => []SendsMemory OBVIOUS
<1>1. BusInit => DmaInv /\ DataInv BY Initially, PatientDrivers, DataInitially
<1>2. DmaInv /\ DataInv /\ [Cycle]_vars => DmaInv' /\ DataInv' BY DataKept
<1>3. DmaInv /\ DataInv => SendsMemory BY DataPromises
<1> QED BY <1>1, <1>2, <1>3, PTL DEF Spec

-----------------------------------------------------------------------------
(* Where n bytes from address x on leave a channel, and an address that    *)
(* begins a memory unit.                                                   *)
Behind(v, x, n) == (x + n * v.auto_inc) % AddrMod
UnitBegins(v, e) == \A x \in Addrs : Follow(v, x) = e => ~OneUnit(v, x)

(* The address and the size each channel has before each write of a        *)
(* driver, if no transfer times out.                                       *)
Plans(p) ==
  [1 .. Len(p) + 1 -> [Channels -> [addr : Addrs, size : 0 .. SizeMod - 1]]]

Steps(p, at) ==
  /\ \A c \in Channels : at[1][c] = [addr |-> 0, size |-> 0]
  /\ \A i \in 1 .. Len(p) :
       LET c == CurAt(p)[i]
           r == at[i][c]
           v == p[i].val
       IN at[i + 1] =
            CASE p[i].reg = "addr" -> [at[i] EXCEPT ![c] = [addr |-> v, size |-> r.size]]
              [] p[i].reg = "size" -> [at[i] EXCEPT ![c] = [addr |-> r.addr, size |-> v]]
              [] p[i].reg = "config" ->
                   [at[i] EXCEPT ![c] =
                      [addr |-> Behind(v, r.addr, IF v.to_mem THEN r.size ELSE r.size - 1),
                       size |-> 0]]
              [] OTHER -> at[i]

(* A driver sets the size before each transfer, what goes to memory ends   *)
(* where a memory unit does, and no transfer comes behind one that may     *)
(* time out.                                                               *)
Measures(p, at) ==
  \A i \in 1 .. Len(p) :
    /\ p[i].reg = "config" =>
         LET v == p[i].val
             c == CurAt(p)[i]
         IN /\ v.to_mem \in BOOLEAN /\ v.auto_inc \in Nat
            /\ at[i][c].size > 0
            /\ v.to_mem => UnitBegins(v, at[i + 1][c].addr)
    /\ p[i].reg = "timeout" =>
         \A j \in i .. Len(p) : p[j].reg = "config" => j = Len(p)

IsPlan(p, at) == at \in Plans(p) /\ Steps(p, at) /\ Measures(p, at)

(* Loading does not set the size: what the driver leaves in that register  *)
(* of channel 0 is enough for the code.                                    *)
Room(s, at) ==
  LET left == at[Len(s.program) + 1][0].size
  IN s.code > 0 => s.code <= IF left = 0 THEN SizeMod ELSE left

Measured(s) == WellFormed(s) /\ \E at : IsPlan(s.program, at) /\ Room(s, at)
Measurers == \A s \in Scenarios : Measured(s)

-----------------------------------------------------------------------------
(* The inductive invariant, on top of DmaInv.                              *)
Plan == CHOOSE at : IsPlan(Program, at) /\ Room(scenario, at)

(* The registers that count.                                               *)
Counters == {"addr", "size", "auto_inc", "span"}
CountInv ==
  \A c \in Channels :
    /\ Counters \subseteq DOMAIN chan[c]
    /\ chan[c].addr \in Addrs /\ chan[c].auto_inc \in Nat
    /\ chan[c].size \in 0 .. SizeMod - 1
    /\ moved[c] \in Nat /\ asked[c] \in Nat
    /\ chan[c].timeout # 0 => \E i \in 1 .. pc - 1 : Program[i].reg = "timeout"

(* While the driver has more to write, the channels that rest are as       *)
(* outlined.                                                               *)
RestInv ==
  pc <= Len(Program) =>
    \A c \in Channels : c # cur_channel \/ State = "idle" =>
      /\ chan[c].addr = Plan[pc][c].addr /\ chan[c].size = Plan[pc][c].size
      /\ chan[c].size # 0 => asked[c] = chan[c].size

(* The bytes the channel at work still has to move, and the address of the *)
(* next one.                                                               *)
Left == IF State = "send_to_periph" THEN Me.size + 1 ELSE Me.size
Upcoming ==
  IF State \in {"send_periph_grant", "write_mem"} THEN Follow(Me, Me.addr) ELSE Me.addr

(* Together with those it has moved they are what was asked for, and lead  *)
(* to the address outlined.                                                *)
WorkInv ==
  State # "idle" =>
    /\ moved[cur_channel] + Left = asked[cur_channel] /\ asked[cur_channel] < SizeMod
    /\ Left = 0 => State \in {"write_mem", "wait_for_wr_grant", "pre_idle"}
    /\ State = "pre_idle" => Left = 0 /\ Me.addr = Plan[pc][cur_channel].addr
    /\ State \in Receiving =>
         /\ Behind(Me, Upcoming, Left) = Plan[pc][cur_channel].addr
         /\ UnitBegins(Me, Plan[pc][cur_channel].addr)
    /\ State \notin Receiving /\ State # "pre_idle" =>
         Behind(Me, Upcoming, Left - 1) = Plan[pc][cur_channel].addr

SizeInv == CountInv /\ RestInv /\ WorkInv

-----------------------------------------------------------------------------
(* Arithmetic modulo.                                                      *)
LEMMA WholeTurns ==
  ASSUME NEW a \in Nat \ {0}, NEW q \in Int, NEW r \in 0 .. a - 1
  PROVE  (a * q + r) % a = r
OBVIOUS

LEMMA Division ==
  ASSUME NEW a \in Nat \ {0}, NEW s \in Nat
  PROVE  s = a * (s \div a) + (s % a) /\ s \div a \in Int /\ s % a \in 0 .. a - 1
OBVIOUS

LEMMA Together ==
  ASSUME NEW a \in Int, NEW q \in Int, NEW u \in Int, NEW z \in Int
  PROVE  a * q + (a * u + z) = a * (q + u) + z
OBVIOUS

LEMMA PlusReduced ==
  ASSUME NEW a \in Nat \ {0}, NEW y \in Nat, NEW m \in Nat
  PROVE  ((y % a) + m) % a = (y + m) % a
<1>1. PICK q, r : q = y \div a /\ r = y % a OBVIOUS
<1>2. y = a * q + r /\ q \in Int /\ r \in 0 .. a - 1 BY <1>1, Division
<1>3. PICK s \in Nat : s = r + m BY <1>2
<1>4. PICK u, z : u = s \div a /\ z = s % a OBVIOUS
<1>5. s = a * u + z /\ u \in Int /\ z \in 0 .. a - 1 BY <1>4, Division
<1>6. a * q \in Int /\ a * u \in Int BY <1>2, <1>5
<1>7. y + m = a * q + (a * u + z) BY <1>2, <1>3, <1>5, <1>6
<1>8. y + m = a * (q + u) + z BY <1>2, <1>5, <1>7, Together
<1>9. q + u \in Int BY <1>2, <1>5
<1>10. (y + m) % a = z BY <1>5, <1>8, <1>9, WholeTurns
<1> QED BY <1>1, <1>3, <1>4, <1>10

LEMMA OneLess ==
  ASSUME NEW x \in Nat, NEW i \in Nat, NEW n \in Nat \ {0}
  PROVE  (x + i) + (n - 1) * i = x + n * i /\ (n - 1) * i \in Nat
OBVIOUS

(* The end of a transfer does not depend on where it stands.               *)
LEMMA BehindSteps ==
  ASSUME NEW v, v.auto_inc \in Nat, NEW x \in Addrs
  PROVE  /\ Behind(v, x, 0) = x /\ Follow(v, x) \in Addrs
         /\ \A n \in Nat \ {0} : Behind(v, Follow(v, x), n - 1) = Behind(v, x, n)
<1> DEFINE i == v.auto_inc
<1>1. x \in Nat /\ x < AddrMod /\ AddrMod \in Nat \ {0} /\ i \in Nat
  BY DmaAssumption DEF Addrs
<1>2. Behind(v, x, 0) = x
  <2>1. 0 * i = 0 /\ x + 0 = x BY <1>1
  <2> QED BY <2>1, WordAndLane DEF Behind
<1>3. Follow(v, x) \in Addrs
  <2>1. x + i \in Nat BY <1>1
  <2>2. (x + i) % AddrMod \in 0 .. AddrMod - 1 BY <1>1, <2>1, Division
  <2> QED BY <2>2 DEF Follow, Addrs
<1>4. ASSUME NEW n \in Nat \ {0}
      PROVE  Behind(v, Follow(v, x), n - 1) = Behind(v, x, n)
  <2>1. (x + i) + (n - 1) * i = x + n * i /\ (n - 1) * i \in Nat /\ x + i \in Nat
    BY <1>1, OneLess
  <2>2. (((x + i) % AddrMod) + (n - 1) * i) % AddrMod = ((x + i) + (n - 1) * i) % AddrMod
    BY <1>1, <2>1, PlusReduced
  <2> QED BY <2>1, <2>2 DEF Behind, Follow
<1> QED BY <1>2, <1>3, <1>4

-----------------------------------------------------------------------------
(* What the state machine does to the counters.                            *)
FsmCounts(c, k, v) ==
  /\ Counters \subseteq DOMAIN v /\ v.auto_inc = k.auto_inc /\ v.span = k.span
  /\ v.addr = IF \/ k.state = "send_periph_grant" \/ IssuesWrite(c)
                 \/ k.state = "send_to_periph" /\ k.size # 0
              THEN NextAddr(c) ELSE k.addr
  /\ v.size = IF \/ HasByte(c, p2d)
                 \/ k.state = "wait_for_periph_rdy" /\ v.state = "send_to_periph"
              THEN Minus1(k.size, SizeMod) ELSE k.size
  /\ HasByte(c, p2d) => v.state = IF SameUnit(c) THEN "send_periph_grant" ELSE "write_mem"
  /\ k.state = "send_to_periph" => (v.state = "pre_idle" <=> k.size = 0)
  /\ k.state = "wait_for_wr_grant" /\ v.state # k.state => (v.state = "idle" <=> k.size = 0)

LEMMA CountTransition ==
  ASSUME ChanInv, CountInv, NEW c \in Channels, NEW rd, NEW k, k = chan[c],
         NEW v, v = Fsm(c, k, p2d, dma_grant, rd)
  PROVE  FsmCounts(c, k, v)
<1> USE DEF FsmCounts
<1>1. Counters \subseteq DOMAIN k /\ Fields \subseteq DOMAIN k /\ k.state \in States
  BY DEF ChanInv, CountInv
<1>2. /\ k.state # "wait_for_periph_data" => ~HasByte(c, p2d)
      /\ k.state # "write_mem" => ~IssuesWrite(c)
  BY DEF HasByte, IssuesWrite, In
<1>3. CASE k.state = "idle"
  <2>1. v = k BY <1>3 DEF Fsm, In
  <2> QED BY <1>1, <1>2, <1>3, <2>1
<1>4. CASE k.state = "wait_for_periph_data"
  <2>1. v = WaitForPeriphData(c, k, p2d) BY <1>4 DEF Fsm, In
  <2>2. CASE HasByte(c, p2d)
    BY <1>1, <1>2, <1>4, <2>1, <2>2 DEF WaitForPeriphData, Fields, Counters
  <2>3. CASE ~HasByte(c, p2d)
    BY <1>1, <1>2, <1>4, <2>1, <2>3 DEF WaitForPeriphData, Fields, Counters
  <2> QED BY <2>2, <2>3
<1>5. CASE k.state = "send_periph_grant"
  <2>1. v = SendPeriphGrant(c, k) BY <1>5 DEF Fsm, In
  <2> QED BY <1>1, <1>2, <1>5, <2>1 DEF SendPeriphGrant, Fields, Counters
<1>6. CASE k.state = "write_mem"
  <2>1. v = WriteMem(c, k) BY <1>6 DEF Fsm, In
  <2> QED BY <1>1, <1>2, <1>6, <2>1 DEF WriteMem, Fields, Counters
<1>7. CASE k.state = "wait_for_wr_grant"
  <2>1. v = WaitForWrGrant(c, k, dma_grant) BY <1>7 DEF Fsm, In
  <2>2. EndsWrite(c, dma_grant) <=> dma_grant /\ k.size = 0 BY <1>7 DEF EndsWrite, In
  <2> QED BY <1>1, <1>2, <1>7, <2>1, <2>2 DEF WaitForWrGrant, Fields, Counters
<1>8. CASE k.state = "read_mem"
  <2>1. v = ReadMem(c, k) BY <1>8 DEF Fsm, In
  <2> QED BY <1>1, <1>2, <1>8, <2>1 DEF ReadMem, Fields, Counters
<1>9. CASE k.state = "wait_for_rd_grant"
  <2>1. v = WaitForRdGrant(c, k, dma_grant) BY <1>9 DEF Fsm, In
  <2> QED BY <1>1, <1>2, <1>9, <2>1 DEF WaitForRdGrant, Fields, Counters
<1>10. CASE k.state = "wait_for_rd1"
  <2>1. v = WaitForRd1(c, k, rd) BY <1>10 DEF Fsm, In
  <2> QED BY <1>1, <1>2, <1>10, <2>1 DEF WaitForRd1, Fields, Counters
<1>11. CASE k.state = "wait_for_periph_rdy"
  <2>1. v = WaitForPeriphRdy(c, k, p2d) BY <1>11 DEF Fsm, In
  <2> QED BY <1>1, <1>2, <1>11, <2>1 DEF WaitForPeriphRdy, Fields, Counters
<1>12. CASE k.state = "send_to_periph"
  <2>1. v = SendToPeriph(c, k) BY <1>12 DEF Fsm, In
  <2> QED BY <1>1, <1>2, <1>12, <2>1 DEF SendToPeriph, Fields, Counters
<1>13. CASE k.state = "wait_for_ready"
  <2>1. v = [k EXCEPT !.state = "wait_for_periph_rdy"] BY <1>13 DEF Fsm, In
  <2> QED BY <1>1, <1>2, <1>13, <2>1 DEF Fields, Counters
<1>14. CASE k.state = "pre_idle"
  <2>1. v = [k EXCEPT !.state = "idle"] BY <1>14 DEF Fsm, In
  <2> QED BY <1>1, <1>2, <1>14, <2>1 DEF Fields, Counters
<1> QED
  BY <1>1, <1>3, <1>4, <1>5, <1>6, <1>7, <1>8, <1>9, <1>10, <1>11, <1>12, <1>13, <1>14
     DEF States

(* What the driver's write does to them.                                   *)
WrittenCounts(c, w, v) ==
  LET k == chan[c]
      mine == c = cur_channel
      starts == mine /\ w.reg = "config"
  IN
  /\ Counters \subseteq DOMAIN v
  /\ v.addr = IF mine /\ w.reg = "addr" THEN w.val ELSE k.addr
  /\ v.size = IF mine /\ w.reg = "size" THEN w.val ELSE k.size
  /\ v.auto_inc = IF starts THEN w.val.auto_inc ELSE k.auto_inc
  /\ v.span = IF starts THEN w.val.span ELSE k.span
  /\ v.state = IF starts THEN IF w.val.to_mem THEN "wait_for_periph_data" ELSE "read_mem"
               ELSE k.state
  /\ v.timeout = IF mine /\ w.reg = "timeout" THEN w.val ELSE k.timeout

LEMMA CountWritten ==
  ASSUME ChanInv, CountInv, NEW c \in Channels, NEW w
  PROVE  WrittenCounts(c, w, Written(c, w))
<1> DEFINE k == chan[c]
<1> USE DEF WrittenCounts
<1>1. Fields \subseteq DOMAIN k /\ Counters \subseteq DOMAIN k BY DEF ChanInv, CountInv
<1>2. CASE c # cur_channel \/ w.reg \notin {"addr", "size", "timeout", "config"}
  BY <1>1, <1>2 DEF Written
<1>3. CASE c = cur_channel /\ w.reg = "addr"
  <2>1. Written(c, w) = [k EXCEPT !.addr = w.val] BY <1>3 DEF Written
  <2> QED BY <1>1, <1>3, <2>1 DEF Fields, Counters
<1>4. CASE c = cur_channel /\ w.reg = "size"
  <2>1. Written(c, w) = [k EXCEPT !.size = w.val] BY <1>4 DEF Written
  <2> QED BY <1>1, <1>4, <2>1 DEF Fields, Counters
<1>5. CASE c = cur_channel /\ w.reg = "timeout"
  <2>1. Written(c, w) = [k EXCEPT !.timeout = w.val] BY <1>5 DEF Written
  <2> QED BY <1>1, <1>5, <2>1 DEF Fields, Counters
<1>6. CASE c = cur_channel /\ w.reg = "config"
  <2>1. Written(c, w) = [k EXCEPT !.source = w.val.source, !.auto_inc = w.val.auto_inc,
               !.span = w.val.span, !.priority = w.val.priority,
               !.wait_time = w.val.priority,
               !.state = IF w.val.to_mem THEN "wait_for_periph_data" ELSE "read_mem"]
    BY <1>6 DEF Written
  <2> QED BY <1>1, <1>6, <2>1 DEF Fields, Counters
<1> QED BY <1>2, <1>3, <1>4, <1>5, <1>6

-----------------------------------------------------------------------------
(* An edge, as far as the counters are concerned.                          *)
LEMMA SizeCases ==
  ASSUME Measurers, DmaInv, SizeInv, NEW w, Edge(w)
  PROVE  /\ Drivers /\ (Sets(w) \/ Moves(w))
         /\ ChanInv /\ DriverInv /\ CountInv /\ RestInv /\ WorkInv
         /\ cur_channel \in Channels /\ State \in States
         /\ Len(Program) \in Nat /\ pc \in 1 .. Len(Program) + 1
         /\ cur_channel = CurAt(Program)[pc] /\ Tracks(Program, CurAt(Program))
         /\ CurAt(Program) \in Selections(Program) /\ CurAt(Program)' = CurAt(Program)
         /\ IsPlan(Program, Plan) /\ Program' = Program /\ Plan' = Plan
<1>1. Drivers BY DEF Measurers, Measured, Drivers
<1>2. /\ ChanInv /\ DriverInv /\ CountInv /\ RestInv /\ WorkInv
  BY DEF DmaInv, SizeInv
<1>3. Measured(scenario) BY <1>2 DEF Measurers, DriverInv
<1>4. IsPlan(Program, Plan) BY <1>3 DEF Measured, Plan, Program
<1>5. Program' = Program BY DEF Edge, Program
<1>6. Plan' = Plan
  BY DEF Edge, Plan, Program, IsPlan, Plans, Steps, Measures, UnitBegins, Behind, Follow,
     OneUnit, CurAt, Tracks, Selections
<1>7. Tracks(Program, CurAt(Program)) /\ CurAt(Program) \in Selections(Program)
  BY <1>3, Selection DEF Measured, Program
<1>9. CurAt(Program)' = CurAt(Program) BY DEF Edge, Program, CurAt, Tracks, Selections
<1>8. cur_channel \in Channels /\ State \in States
  BY <1>1, <1>2, EdgeCases DEF ChanInv, State
<1> QED BY <1>1, <1>2, <1>4, <1>5, <1>6, <1>7, <1>8, <1>9, EdgeCases DEF DriverInv

(* The channel at work when no register is written.                        *)
LEMMA MoveCounts ==
  ASSUME Measurers, DmaInv, SizeInv, NEW w, Edge(w), Moves(w)
  PROVE  LET a == cur_channel IN
         /\ a' = a /\ State = chan[a].state /\ State' = chan'[a].state
         /\ Me = chan[a] /\ Me' = chan'[a]
         /\ FsmCounts(a, chan[a], chan'[a]) /\ FsmMoves(a, chan[a], chan'[a])
         /\ \A c \in Channels : c # a => chan'[c] = chan[c]
         /\ HasByte(a, p2d) => State = "wait_for_periph_data"
         /\ IssuesWrite(a) => State = "write_mem"
         /\ NextAddr(a) = Follow(Me, Me.addr)
         /\ SameUnit(a) <=> OneUnit(Me, Me.addr)
         /\ asked' = [c \in Channels |-> asked[c]]
         /\ \A c \in Channels : c # a => moved'[c] = moved[c]
         /\ moved'[a] = IF HasByte(a, p2d) \/ State = "send_to_periph"
                        THEN IF moved[a] = SizeMod THEN SizeMod ELSE moved[a] + 1
                        ELSE moved[a]
<1> DEFINE a == cur_channel
<1>1. ChanInv /\ CountInv /\ DriverInv /\ a \in Channels BY SizeCases
<1>2. FsmCounts(a, chan[a], chan'[a]) BY <1>1, CountTransition DEF Moves
<1>3. FsmMoves(a, chan[a], chan'[a]) BY <1>1, Transition DEF Moves
<1>4. a' = a /\ w.reg = "none" /\ \A c \in Channels : c # a => chan'[c] = chan[c]
  BY DEF Moves, NoWrite
<1>5. /\ State = chan[a].state /\ State' = chan'[a].state /\ Me = chan[a] /\ Me' = chan'[a]
  BY <1>4 DEF State, Me
<1>6. /\ HasByte(a, p2d) => State = "wait_for_periph_data"
      /\ IssuesWrite(a) => State = "write_mem"
  BY DEF HasByte, IssuesWrite, In, State
<1>7. NextAddr(a) = Follow(Me, Me.addr) /\ (SameUnit(a) <=> OneUnit(Me, Me.addr))
  BY DEF NextAddr, Plus, Follow, SameUnit, OneUnit, Me
<1>8. asked' = [c \in Channels |-> asked[c]] BY <1>4 DEF Edge, HistoryStep
<1>9. \A c \in Channels :
        moved'[c] = IF HasByte(c, p2d) \/ In(c, "send_to_periph")
                    THEN IF moved[c] = SizeMod THEN SizeMod ELSE moved[c] + 1
                    ELSE moved[c]
  BY <1>4 DEF Edge, HistoryStep, Starts
<1>10. \A c \in Channels : c # a => ~HasByte(c, p2d) /\ ~In(c, "send_to_periph")
  BY <1>1 DEF DriverInv, HasByte, In
<1>11. In(a, "send_to_periph") <=> State = "send_to_periph" BY DEF In, State
<1> QED BY <1>1, <1>2, <1>3, <1>4, <1>5, <1>6, <1>7, <1>8, <1>9, <1>10, <1>11

(* The channels when one is written.                                       *)
LEMMA SetCounts ==
  ASSUME Measurers, DmaInv, SizeInv, NEW w, Edge(w), Sets(w)
  PROVE  /\ pc \in 1 .. Len(Program) /\ w = Program[pc] /\ pc' = pc + 1 /\ w.reg # "wait"
         /\ State = "idle" /\ cur_channel' \in Channels
         /\ cur_channel' = IF w.reg = "channel" THEN w.val ELSE cur_channel
         /\ \A c \in Channels :
              /\ chan[c].state = "idle" /\ WrittenCounts(c, w, chan'[c])
              /\ asked'[c] = IF w.reg = "size" /\ c = cur_channel THEN w.val ELSE asked[c]
              /\ moved'[c] = IF w.reg = "config" /\ c = cur_channel THEN 0 ELSE moved[c]
<1>1. /\ pc \in 1 .. Len(Program) /\ w = Program[pc] /\ pc' = pc + 1 /\ State = "idle"
      /\ w.reg # "wait"
      /\ cur_channel' = IF w.reg = "channel" THEN w.val ELSE cur_channel
  <2>1. Len(Program) \in Nat /\ pc \in 1 .. Len(Program) + 1 BY SizeCases
  <2> QED BY <2>1 DEF Sets
<1>2. \A c \in Channels : chan[c].state = "idle" /\ chan'[c] = Written(c, w) BY DEF Sets, In
<1>3. \A c \in Channels : WrittenCounts(c, w, chan'[c]) BY <1>2, SizeCases, CountWritten
<1>4. cur_channel' \in Channels
  <2>1. DriverInv' BY DriverKept, SizeCases
  <2>2. pc' \in 1 .. Len(Program) + 1 /\ cur_channel' = CurAt(Program)[pc']
    BY <2>1, SizeCases DEF DriverInv
  <2> QED BY <2>2, SizeCases DEF Selections
<1>5. \A c \in Channels : ~HasByte(c, p2d) /\ ~In(c, "send_to_periph")
  BY <1>2 DEF HasByte, In
<1>6. \A c \in Channels :
        /\ asked'[c] = IF w.reg = "size" /\ c = cur_channel THEN w.val ELSE asked[c]
        /\ moved'[c] = IF w.reg = "config" /\ c = cur_channel THEN 0 ELSE moved[c]
  BY <1>5 DEF Edge, HistoryStep, Starts
<1> QED BY <1>1, <1>2, <1>3, <1>4, <1>6

(* What the outline says of one write.                                     *)
LEMMA PlanStep ==
  ASSUME NEW p, NEW at, IsPlan(p, at), Tracks(p, CurAt(p)), CurAt(p) \in Selections(p),
         Len(p) \in Nat, NEW i \in 1 .. Len(p)
  PROVE  LET a == CurAt(p)[i]
             r == at[i][a]
             n == at[i + 1]
             v == p[i].val
         IN
         /\ a \in Channels
         /\ \A c \in Channels :
              /\ at[i][c].addr \in Addrs /\ at[i][c].size \in 0 .. SizeMod - 1
              /\ n[c].addr \in Addrs /\ n[c].size \in 0 .. SizeMod - 1
              /\ c # a => n[c] = at[i][c]
         /\ p[i].reg = "addr" => n[a].addr = v /\ n[a].size = r.size
         /\ p[i].reg = "size" => n[a].addr = r.addr /\ n[a].size = v
         /\ p[i].reg = "config" =>
              /\ n[a].size = 0 /\ r.size > 0 /\ v.to_mem \in BOOLEAN /\ v.auto_inc \in Nat
              /\ v.to_mem => n[a].addr = Behind(v, r.addr, r.size) /\ UnitBegins(v, n[a].addr)
              /\ ~v.to_mem => n[a].addr = Behind(v, r.addr, r.size - 1)
         /\ p[i].reg \notin {"addr", "size", "config"} => n = at[i]
<1> DEFINE a == CurAt(p)[i]  r == at[i][a]  v == p[i].val
<1>1. a \in Channels BY DEF Selections
<1>2. /\ at[i] \in [Channels -> [addr : Addrs, size : 0 .. SizeMod - 1]]
      /\ at[i + 1] \in [Channels -> [addr : Addrs, size : 0 .. SizeMod - 1]]
  BY DEF IsPlan, Plans
<1>3. at[i + 1] =
        CASE p[i].reg = "addr" -> [at[i] EXCEPT ![a] = [addr |-> v, size |-> r.size]]
          [] p[i].reg = "size" -> [at[i] EXCEPT ![a] = [addr |-> r.addr, size |-> v]]
          [] p[i].reg = "config" ->
               [at[i] EXCEPT ![a] =
                  [addr |-> Behind(v, r.addr, IF v.to_mem THEN r.size ELSE r.size - 1),
                   size |-> 0]]
          [] OTHER -> at[i]
  BY DEF IsPlan, Steps
<1>4. p[i].reg = "config" =>
        /\ r.size > 0 /\ v.to_mem \in BOOLEAN /\ v.auto_inc \in Nat
        /\ v.to_mem => UnitBegins(v, at[i + 1][a].addr)
  BY DEF IsPlan, Measures
<1> HIDE DEF a
<1>5. CASE p[i].reg = "addr" BY <1>1, <1>2, <1>3, <1>5 DEF a
<1>6. CASE p[i].reg = "size" BY <1>1, <1>2, <1>3, <1>6 DEF a
<1>7. CASE p[i].reg = "config"
  <2>1. at[i + 1] = [at[i] EXCEPT ![a] =
                  [addr |-> Behind(v, r.addr, IF v.to_mem THEN r.size ELSE r.size - 1),
                   size |-> 0]]
    BY <1>3, <1>7
  <2> QED BY <1>1, <1>2, <1>4, <1>7, <2>1 DEF a
<1>8. CASE p[i].reg \notin {"addr", "size", "config"}
  <2>1. at[i + 1] = at[i] BY <1>3, <1>8
  <2> QED BY <1>1, <1>2, <1>8, <2>1 DEF a
<1> QED BY <1>5, <1>6, <1>7, <1>8

-----------------------------------------------------------------------------
LEMMA CountKept ==
  ASSUME Measurers, DmaInv, SizeInv, NEW w, Edge(w)
  PROVE  CountInv'
<1>1. SUFFICES ASSUME NEW c \in Channels
               PROVE  /\ Counters \subseteq DOMAIN chan'[c]
                      /\ chan'[c].addr \in Addrs /\ chan'[c].auto_inc \in Nat
                      /\ chan'[c].size \in 0 .. SizeMod - 1
                      /\ moved'[c] \in Nat /\ asked'[c] \in Nat
                      /\ chan'[c].timeout # 0 =>
                           \E i \in 1 .. pc' - 1 : Program'[i].reg = "timeout"
  BY DEF CountInv
<1>2. /\ Counters \subseteq DOMAIN chan[c]
      /\ chan[c].addr \in Addrs /\ chan[c].auto_inc \in Nat
      /\ chan[c].size \in 0 .. SizeMod - 1
      /\ moved[c] \in Nat /\ asked[c] \in Nat
      /\ chan[c].timeout # 0 => \E i \in 1 .. pc - 1 : Program[i].reg = "timeout"
  BY SizeCases DEF CountInv
<1>3. SizeMod \in Nat \ {0} /\ AddrMod \in Nat \ {0} /\ Program' = Program
      /\ Len(Program) \in Nat /\ pc \in 1 .. Len(Program) + 1
  BY DmaAssumption, SizeCases
<1>4. CASE Sets(w)
  <2>1. /\ pc \in 1 .. Len(Program) /\ w = Program[pc] /\ pc' = pc + 1
        /\ WrittenCounts(c, w, chan'[c])
        /\ asked'[c] = IF w.reg = "size" /\ c = cur_channel THEN w.val ELSE asked[c]
        /\ moved'[c] = IF w.reg = "config" /\ c = cur_channel THEN 0 ELSE moved[c]
    BY <1>4, SetCounts
  <2>2. /\ c = cur_channel /\ w.reg = "addr" => w.val \in Addrs
        /\ c = cur_channel /\ w.reg = "size" => w.val \in 0 .. SizeMod - 1
        /\ c = cur_channel /\ w.reg = "config" => w.val.auto_inc \in Nat
    <3>1. IsPlan(Program, Plan) /\ Tracks(Program, CurAt(Program))
          /\ CurAt(Program) \in Selections(Program) /\ cur_channel = CurAt(Program)[pc]
      BY SizeCases
    <3> QED BY <1>3, <2>1, <3>1, PlanStep
  <2>3. ASSUME chan'[c].timeout # 0
        PROVE  \E i \in 1 .. pc' - 1 : Program'[i].reg = "timeout"
    <3>1. CASE w.reg = "timeout" BY <1>3, <2>1, <3>1
    <3>2. CASE chan'[c].timeout = chan[c].timeout
      <4>1. PICK i \in 1 .. pc - 1 : Program[i].reg = "timeout" BY <1>2, <2>3, <3>2
      <4> QED BY <1>3, <2>1, <4>1
    <3> QED BY <2>1, <3>1, <3>2 DEF WrittenCounts
  <2>4. asked'[c] \in Nat /\ moved'[c] \in Nat BY <1>2, <1>3, <2>1, <2>2
  <2> QED BY <1>2, <2>1, <2>2, <2>3, <2>4 DEF WrittenCounts
<1>5. CASE Moves(w)
  <2>1. /\ c # cur_channel => chan'[c] = chan[c] /\ moved'[c] = moved[c]
        /\ c = cur_channel =>
             /\ FsmCounts(c, chan[c], chan'[c]) /\ FsmMoves(c, chan[c], chan'[c])
             /\ NextAddr(c) = Follow(chan[c], chan[c].addr)
             /\ moved'[c] \in {SizeMod, moved[c] + 1, moved[c]}
        /\ asked'[c] = asked[c]
    BY <1>5, MoveCounts
  <2>2. pc' \in {pc, pc + 1} BY <1>5 DEF Moves
  <2>3. Follow(chan[c], chan[c].addr) \in Addrs BY <1>2, BehindSteps
  <2>4. Minus1(chan[c].size, SizeMod) \in 0 .. SizeMod - 1 BY <1>2, <1>3, CounterSteps
  <2>5. chan'[c].timeout = chan[c].timeout BY <2>1 DEF FsmMoves
  <2>6. chan'[c].timeout # 0 => \E i \in 1 .. pc' - 1 : Program'[i].reg = "timeout"
    <3>1. SUFFICES ASSUME chan[c].timeout # 0
                   PROVE  \E i \in 1 .. pc' - 1 : Program'[i].reg = "timeout"
      BY <2>5
    <3>2. PICK i \in 1 .. pc - 1 : Program[i].reg = "timeout" BY <1>2, <3>1
    <3> QED BY <1>3, <2>2, <3>2
  <2>7. asked'[c] \in Nat /\ moved'[c] \in Nat BY <1>2, <1>3, <2>1
  <2>8. CASE c # cur_channel BY <1>2, <2>1, <2>6, <2>7, <2>8
  <2>9. CASE c = cur_channel BY <1>2, <2>1, <2>3, <2>4, <2>6, <2>7, <2>9 DEF FsmCounts
  <2> QED BY <2>8, <2>9
<1> QED BY <1>4, <1>5, SizeCases

(* What the outline says of the channel at work: its last write started it. *)
LEMMA PlanAtWork ==
  ASSUME Measurers, DmaInv, SizeInv, NEW w, Edge(w), State # "idle"
  PROVE  /\ Plan[pc][cur_channel].size = 0 /\ Plan[pc][cur_channel].addr \in Addrs
         /\ chan[cur_channel].timeout # 0 => pc = Len(Program) + 1
<1> DEFINE p == Program  cur == CurAt(Program)
<1>1. /\ Len(p) \in Nat /\ pc \in 1 .. Len(p) + 1 /\ IsPlan(p, Plan) /\ Tracks(p, cur)
      /\ cur \in Selections(p) /\ cur_channel = cur[pc] /\ CountInv /\ Drivers
      /\ cur_channel \in Channels
  BY SizeCases
<1>2. pc > 1 /\ p[pc - 1].reg = "config" BY <1>1, Held
<1>3. PICK i : i = pc - 1 OBVIOUS
<1>4. i \in 1 .. Len(p) /\ pc = i + 1 BY <1>1, <1>2, <1>3
<1>5. cur[i + 1] = cur[i] BY <1>1, <1>2, <1>3, <1>4 DEF Tracks
<1>6. Plan[i + 1][cur[i]].size = 0 /\ Plan[i + 1][cur[i]].addr \in Addrs
  BY <1>1, <1>2, <1>3, <1>4, PlanStep
<1>7. ASSUME chan[cur_channel].timeout # 0 PROVE pc = Len(p) + 1
  <2>1. PICK k \in 1 .. pc - 1 : p[k].reg = "timeout" BY <1>1, <1>7 DEF CountInv
  <2>2. k \in 1 .. Len(p) /\ i \in k .. Len(p) BY <1>1, <1>3, <1>4, <2>1
  <2>3. i = Len(p) BY <1>1, <1>2, <1>3, <2>1, <2>2 DEF IsPlan, Measures
  <2> QED BY <1>4, <2>3
<1> QED BY <1>1, <1>4, <1>5, <1>6, <1>7

LEMMA RestKept ==
  ASSUME Measurers, DmaInv, SizeInv, NEW w, Edge(w)
  PROVE  RestInv'
<1> DEFINE a == cur_channel  p == Program  cur == CurAt(Program)
<1>1. /\ Drivers /\ CountInv /\ RestInv /\ WorkInv /\ a \in Channels /\ State \in States
      /\ Len(p) \in Nat /\ pc \in 1 .. Len(p) + 1 /\ Program' = p /\ Plan' = Plan
      /\ IsPlan(p, Plan) /\ Tracks(p, cur) /\ cur \in Selections(p) /\ a = cur[pc]
  BY SizeCases
<1>2. SUFFICES ASSUME pc' <= Len(p), NEW c \in Channels, c # a' \/ State' = "idle"
               PROVE  /\ chan'[c].addr = Plan[pc'][c].addr
                      /\ chan'[c].size = Plan[pc'][c].size
                      /\ chan'[c].size # 0 => asked'[c] = chan'[c].size
  BY <1>1 DEF RestInv
<1>3. CASE Sets(w)
  <2>1. /\ pc \in 1 .. Len(p) /\ w = p[pc] /\ pc' = pc + 1 /\ State = "idle"
        /\ a' = IF w.reg = "channel" THEN w.val ELSE a
        /\ WrittenCounts(c, w, chan'[c]) /\ WrittenCounts(a, w, chan'[a])
        /\ asked'[c] = IF w.reg = "size" /\ c = a THEN w.val ELSE asked[c]
    BY <1>1, <1>3, SetCounts
  <2>2. /\ chan[c].addr = Plan[pc][c].addr /\ chan[c].size = Plan[pc][c].size
        /\ chan[c].size # 0 => asked[c] = chan[c].size
    BY <1>1, <2>1 DEF RestInv
  <2>3. /\ c # a => Plan[pc + 1][c] = Plan[pc][c]
        /\ w.reg = "addr" => Plan[pc + 1][a].addr = w.val
                             /\ Plan[pc + 1][a].size = Plan[pc][a].size
        /\ w.reg = "size" => Plan[pc + 1][a].addr = Plan[pc][a].addr
                             /\ Plan[pc + 1][a].size = w.val
        /\ w.reg \notin {"addr", "size", "config"} => Plan[pc + 1] = Plan[pc]
    BY <1>1, <2>1, PlanStep
  <2>4. ASSUME w.reg = "config" PROVE c # a
    <3>1. State' = chan'[a].state /\ a' = a BY <2>1, <2>4 DEF State
    <3>2. chan'[a].state # "idle" BY <2>1, <2>4, <3>1 DEF WrittenCounts
    <3> QED BY <1>2, <3>1, <3>2
  <2>5. /\ chan'[c].addr = IF c = a /\ w.reg = "addr" THEN w.val ELSE chan[c].addr
        /\ chan'[c].size = IF c = a /\ w.reg = "size" THEN w.val ELSE chan[c].size
    BY <2>1 DEF WrittenCounts
  <2>6. CASE c # a BY <2>1, <2>2, <2>3, <2>5, <2>6
  <2>7. CASE c = a BY <2>1, <2>2, <2>3, <2>4, <2>5, <2>7
  <2> QED BY <2>6, <2>7
<1>4. CASE Moves(w)
  <2>1. /\ a' = a /\ State = chan[a].state /\ State' = chan'[a].state /\ Me = chan[a]
        /\ FsmCounts(a, chan[a], chan'[a]) /\ FsmMoves(a, chan[a], chan'[a])
        /\ c # a => chan'[c] = chan[c]
        /\ HasByte(a, p2d) => State = "wait_for_periph_data"
        /\ IssuesWrite(a) => State = "write_mem"
        /\ asked'[c] = asked[c]
    BY <1>4, MoveCounts
  <2>2. CASE State = "idle"
    <3>1. chan'[c] = chan[c] BY <2>1, <2>2 DEF FsmMoves
    <3>2. pc <= Len(p) BY <1>1, <1>2, <1>4 DEF Moves
    <3>3. Plan[pc'][c] = Plan[pc][c]
      <4>1. CASE pc' = pc BY <4>1
      <4>2. CASE pc' = pc + 1
        <5>1. pc \in 1 .. Len(p) /\ p[pc].reg = "wait" BY <1>1, <1>4, <4>2 DEF Moves
        <5> QED BY <1>1, <4>2, <5>1, PlanStep
      <4> QED BY <1>4, <4>1, <4>2 DEF Moves
    <3>4. /\ chan[c].addr = Plan[pc][c].addr /\ chan[c].size = Plan[pc][c].size
          /\ chan[c].size # 0 => asked[c] = chan[c].size
      BY <1>1, <2>2, <3>2 DEF RestInv
    <3> QED BY <2>1, <3>1, <3>3, <3>4
  <2>3. CASE State # "idle"
    <3>1. pc' = pc BY <1>1, <2>3, Held
    <3>2. CASE c # a
      <4>1. /\ chan[c].addr = Plan[pc][c].addr /\ chan[c].size = Plan[pc][c].size
            /\ chan[c].size # 0 => asked[c] = chan[c].size
        BY <1>1, <1>2, <3>1, <3>2 DEF RestInv
      <4> QED BY <2>1, <3>1, <3>2, <4>1
    <3>3. CASE c = a
      <4>1. State' = "idle" BY <1>2, <2>1, <3>3
      <4>2. Plan[pc][a].size = 0 /\ chan[a].timeout = 0
        BY <1>1, <1>2, <2>3, <3>1, PlanAtWork
      <4>3. ~TimesOut(a, p2d) BY <4>2 DEF TimesOut
      <4>4. State \in {"wait_for_wr_grant", "pre_idle"}
        BY <1>1, <2>1, <2>3, <4>1, <4>3 DEF FsmMoves, States
      <4>5. chan'[a].addr = chan[a].addr /\ chan'[a].size = chan[a].size
        BY <2>1, <4>4 DEF FsmCounts
      <4>6. CASE State = "pre_idle"
        BY <1>1, <3>1, <3>3, <4>2, <4>5, <4>6, <2>1 DEF WorkInv, Left
      <4>7. CASE State = "wait_for_wr_grant"
        <5>1. chan[a].size = 0 BY <2>1, <4>1, <4>7 DEF FsmCounts
        <5>2. Behind(Me, Me.addr, 0) = Plan[pc][a].addr
          BY <1>1, <2>1, <4>7, <5>1 DEF WorkInv, Receiving, Left, Upcoming
        <5>3. Me.addr \in Addrs /\ Me.auto_inc \in Nat BY <1>1, <2>1 DEF CountInv
        <5>4. Me.addr = Plan[pc][a].addr BY <5>2, <5>3, BehindSteps
        <5> QED BY <2>1, <3>1, <3>3, <4>2, <4>5, <5>1, <5>4
      <4> QED BY <4>4, <4>6, <4>7
    <3> QED BY <3>2, <3>3
  <2> QED BY <2>2, <2>3
<1> QED BY <1>3, <1>4, SizeCases

LEMMA WorkKept ==
  ASSUME Measurers, DmaInv, SizeInv, NEW w, Edge(w)
  PROVE  WorkInv'
<1> DEFINE a == cur_channel  p == Program  cur == CurAt(Program)
           e == Plan[pc][a].addr  x == Me.addr  n == Me.size
<1>1. /\ Drivers /\ CountInv /\ RestInv /\ WorkInv /\ a \in Channels /\ State \in States
      /\ Len(p) \in Nat /\ pc \in 1 .. Len(p) + 1 /\ Program' = p /\ Plan' = Plan
      /\ IsPlan(p, Plan) /\ Tracks(p, cur) /\ cur \in Selections(p) /\ a = cur[pc]
  BY SizeCases
<1>2. SUFFICES ASSUME State' # "idle" PROVE WorkInv' BY DEF WorkInv
<1>3. CASE Sets(w)
  <2>1. /\ pc \in 1 .. Len(p) /\ w = p[pc] /\ pc' = pc + 1 /\ State = "idle"
        /\ w.reg = "config" /\ a' = a
    BY <1>1, <1>2, <1>3, SetCounts, StateSet
  <2>2. /\ WrittenCounts(a, w, chan'[a])
        /\ asked'[a] = asked[a] /\ moved'[a] = 0 /\ chan[a].state = "idle"
    BY <1>1, <1>3, <2>1, SetCounts
  <2>3. /\ x = Plan[pc][a].addr /\ n = Plan[pc][a].size /\ (n # 0 => asked[a] = n)
    BY <1>1, <2>1 DEF RestInv, Me
  <2>4. /\ n > 0 /\ w.val.to_mem \in BOOLEAN /\ n \in 0 .. SizeMod - 1
        /\ w.val.to_mem => /\ Plan[pc + 1][a].addr = Behind(w.val, x, n)
                           /\ UnitBegins(w.val, Plan[pc + 1][a].addr)
        /\ ~w.val.to_mem => Plan[pc + 1][a].addr = Behind(w.val, x, n - 1)
    BY <1>1, <2>1, <2>3, PlanStep
  <2>5. /\ Me' = chan'[a] /\ State' = chan'[a].state /\ Me'.addr = x /\ Me'.size = n
        /\ Me'.auto_inc = w.val.auto_inc /\ Me'.span = w.val.span
        /\ State' = IF w.val.to_mem THEN "wait_for_periph_data" ELSE "read_mem"
    BY <2>1, <2>2 DEF WrittenCounts, Me, State
  <2>6. /\ \A m : Behind(Me', x, m) = Behind(w.val, x, m)
        /\ UnitBegins(w.val, Plan[pc + 1][a].addr) => UnitBegins(Me', Plan[pc + 1][a].addr)
    BY <2>5 DEF Behind, UnitBegins, Follow, OneUnit
  <2>7. Left' = n /\ Upcoming' = x BY <2>5 DEF Left, Upcoming
  <2>8. /\ moved'[a] + Left' = asked'[a] /\ asked'[a] < SizeMod /\ Left' # 0
    BY <2>2, <2>3, <2>4, <2>7, DmaAssumption
  <2>9. CASE w.val.to_mem
    BY <1>1, <2>1, <2>4, <2>5, <2>6, <2>7, <2>8, <2>9 DEF WorkInv, Receiving
  <2>10. CASE ~w.val.to_mem
    BY <1>1, <2>1, <2>4, <2>5, <2>6, <2>7, <2>8, <2>10 DEF WorkInv, Receiving
  <2> QED BY <2>9, <2>10
<1>4. CASE Moves(w)
  <2> DEFINE y == Me'.addr  q == Me'.size
  <2>1. /\ a' = a /\ State = chan[a].state /\ State' = chan'[a].state
        /\ Me = chan[a] /\ Me' = chan'[a]
        /\ FsmCounts(a, Me, Me') /\ FsmMoves(a, Me, Me')
        /\ HasByte(a, p2d) => State = "wait_for_periph_data"
        /\ IssuesWrite(a) => State = "write_mem"
        /\ NextAddr(a) = Follow(Me, x) /\ (SameUnit(a) <=> OneUnit(Me, x))
        /\ asked'[a] = asked[a]
        /\ moved'[a] = IF HasByte(a, p2d) \/ State = "send_to_periph"
                       THEN IF moved[a] = SizeMod THEN SizeMod ELSE moved[a] + 1
                       ELSE moved[a]
    BY <1>1, <1>4, MoveCounts
  <2>2. State # "idle" BY <1>2, <2>1 DEF FsmMoves
  <2>3. pc' = pc /\ e \in Addrs BY <1>1, <2>2, Held, PlanAtWork
  <2>4. /\ x \in Addrs /\ Me.auto_inc \in Nat /\ n \in 0 .. SizeMod - 1
        /\ moved[a] \in Nat /\ asked[a] \in Nat /\ SizeMod \in Nat \ {0}
    BY <1>1, <2>1, DmaAssumption DEF CountInv
  <2>5. /\ moved[a] + Left = asked[a] /\ asked[a] < SizeMod
        /\ Left = 0 => State \in {"write_mem", "wait_for_wr_grant", "pre_idle"}
        /\ State \in Receiving => Behind(Me, Upcoming, Left) = e /\ UnitBegins(Me, e)
        /\ State \notin Receiving /\ State # "pre_idle" => Behind(Me, Upcoming, Left - 1) = e
    BY <1>1, <2>2 DEF WorkInv
  <2>6. /\ \A z, m : Behind(Me', z, m) = Behind(Me, z, m)
        /\ \A z : Follow(Me', z) = Follow(Me, z)
        /\ UnitBegins(Me, e) => UnitBegins(Me', e)
    BY <2>1 DEF FsmCounts, Behind, UnitBegins, Follow, OneUnit
  <2>7. /\ Behind(Me, x, 0) = x /\ Follow(Me, x) \in Addrs
        /\ \A m \in Nat \ {0} : Behind(Me, Follow(Me, x), m - 1) = Behind(Me, x, m)
    BY <2>4, BehindSteps
  <2>8. n # 0 => Minus1(n, SizeMod) = n - 1 BY <2>4, CounterSteps
  <2>9. moved[a] # SizeMod BY <2>4, <2>5 DEF Left
  <2>10. SUFFICES /\ moved'[a] + Left' = asked[a]
                  /\ Left' = 0 => State' \in {"write_mem", "wait_for_wr_grant", "pre_idle"}
                  /\ State' = "pre_idle" => Left' = 0 /\ y = e
                  /\ State' \in Receiving =>
                       State \in Receiving /\ Behind(Me, Upcoming', Left') = e
                  /\ State' \notin Receiving /\ State' # "pre_idle" =>
                       Behind(Me, Upcoming', Left' - 1) = e
    BY <1>1, <2>1, <2>3, <2>5, <2>6 DEF WorkInv
  <2> USE DEF Receiving
  <2>11. /\ Left = IF State = "send_to_periph" THEN n + 1 ELSE n
         /\ Left' = IF State' = "send_to_periph" THEN q + 1 ELSE q
         /\ Upcoming = IF State \in {"send_periph_grant", "write_mem"}
                       THEN Follow(Me, x) ELSE x
         /\ Upcoming' = IF State' \in {"send_periph_grant", "write_mem"}
                        THEN Follow(Me, y) ELSE y
    BY <2>6 DEF Left, Upcoming
  <2> HIDE DEF e, x, n, y, q
  <2>12. CASE State = "wait_for_periph_data" /\ HasByte(a, p2d)
    <3>1. /\ State' = IF OneUnit(Me, x) THEN "send_periph_grant" ELSE "write_mem"
          /\ y = x /\ n # 0 /\ q = n - 1
      BY <2>1, <2>5, <2>8, <2>11, <2>12 DEF FsmCounts, x, n, y, q
    <3>2. moved'[a] = moved[a] + 1 /\ Left = n /\ Left' = n - 1
      BY <2>1, <2>9, <2>11, <2>12, <3>1
    <3>3. Behind(Me, Upcoming', Left') = e
      BY <2>4, <2>5, <2>7, <2>11, <2>12, <3>1, <3>2
    <3>4. n - 1 = 0 => ~OneUnit(Me, x)
      <4>1. SUFFICES ASSUME n = 1 PROVE ~OneUnit(Me, x) BY <2>4
      <4>2. Behind(Me, Follow(Me, x), 0) = e BY <2>11, <3>1, <3>2, <3>3, <4>1
      <4>3. Follow(Me, x) = e BY <2>4, <2>7, <4>2, BehindSteps
      <4> QED BY <2>4, <2>5, <2>12, <4>3 DEF UnitBegins
    <3> QED BY <2>4, <2>5, <2>12, <3>1, <3>2, <3>3, <3>4
  <2>13. CASE State = "wait_for_periph_data" /\ ~HasByte(a, p2d)
    <3>1. State' = State /\ y = x /\ q = n /\ moved'[a] = moved[a]
      BY <1>2, <2>1, <2>13 DEF FsmCounts, FsmMoves, x, n, y, q
    <3> QED BY <2>5, <2>11, <2>13, <3>1
  <2>14. CASE State = "send_periph_grant"
    <3>1. State' = "wait_for_periph_data" /\ y = Follow(Me, x) /\ q = n /\ moved'[a] = moved[a]
      BY <2>1, <2>14 DEF FsmCounts, FsmMoves, x, n, y, q
    <3> QED BY <2>5, <2>11, <2>14, <3>1
  <2>15. CASE State = "write_mem"
    <3>1. /\ q = n /\ moved'[a] = moved[a]
          /\ \/ State' = "wait_for_wr_grant" /\ y = Follow(Me, x)
             \/ State' = "write_mem" /\ y = x
      BY <2>1, <2>15 DEF FsmCounts, FsmMoves, x, n, y, q
    <3> QED BY <2>5, <2>11, <2>15, <3>1
  <2>16. CASE State = "wait_for_wr_grant"
    <3>1. /\ q = n /\ moved'[a] = moved[a] /\ y = x
          /\ \/ State' = "wait_for_periph_data" /\ n # 0
             \/ State' = "wait_for_wr_grant"
      BY <1>2, <2>1, <2>16 DEF FsmCounts, FsmMoves, x, n, y, q
    <3> QED BY <2>5, <2>11, <2>16, <3>1
  <2>17. CASE State \in {"read_mem", "wait_for_rd_grant", "wait_for_rd1", "wait_for_ready"}
    <3>1. /\ q = n /\ moved'[a] = moved[a] /\ y = x
          /\ State' \in {"read_mem", "wait_for_rd_grant", "wait_for_rd1", "wait_for_periph_rdy"}
      BY <2>1, <2>17 DEF FsmCounts, FsmMoves, x, n, y, q
    <3> QED BY <2>5, <2>11, <2>17, <3>1
  <2>18. CASE State = "wait_for_periph_rdy"
    <3>1. /\ moved'[a] = moved[a] /\ y = x /\ n # 0
          /\ \/ State' = "send_to_periph" /\ q = n - 1
             \/ State' = "wait_for_periph_rdy" /\ q = n
      BY <2>1, <2>5, <2>8, <2>11, <2>18 DEF FsmCounts, FsmMoves, x, n, y, q
    <3>2. Left = n /\ Left' = n BY <2>4, <2>11, <2>18, <3>1
    <3> QED BY <2>5, <2>11, <2>18, <3>1, <3>2
  <2>19. CASE State = "send_to_periph"
    <3>1. /\ moved'[a] = moved[a] + 1 /\ q = n
          /\ \/ n = 0 /\ State' = "pre_idle" /\ y = x
             \/ n # 0 /\ State' \in {"wait_for_ready", "read_mem"} /\ y = Follow(Me, x)
      BY <2>1, <2>9, <2>19 DEF FsmCounts, FsmMoves, x, n, y, q
    <3>2. Left = n + 1 /\ Left' = n BY <2>4, <2>11, <2>19, <3>1
    <3>3. Behind(Me, x, n) = e BY <2>4, <2>5, <2>11, <2>19, <3>2
    <3>4. CASE n = 0 BY <2>4, <2>5, <2>7, <2>11, <3>1, <3>2, <3>3, <3>4
    <3>5. CASE n # 0
      <4>1. Behind(Me, Follow(Me, x), n - 1) = e BY <2>4, <2>7, <3>3, <3>5
      <4> QED BY <2>4, <2>5, <2>11, <3>1, <3>2, <3>5, <4>1
    <3> QED BY <3>4, <3>5
  <2>20. State # "pre_idle" BY <1>2, <2>1 DEF FsmMoves
  <2> QED
    BY <1>1, <2>2, <2>12, <2>13, <2>14, <2>15, <2>16, <2>17, <2>18, <2>19, <2>20 DEF States
<1> QED BY <1>3, <1>4, SizeCases

-----------------------------------------------------------------------------
LEMMA SizeInitially ==
  ASSUME Measurers, BusInit
  PROVE  SizeInv
<1>1. /\ 0 \in Channels /\ 0 \in Addrs /\ 0 \in 0 .. SizeMod - 1 /\ WellFormed(scenario)
      /\ IsPlan(Program, Plan)
  <2>1. 0 \in Channels /\ 0 \in Addrs /\ 0 \in 0 .. SizeMod - 1
    BY DmaAssumption DEF Channels, Addrs
  <2>2. Measured(scenario) BY DEF BusInit, Measurers
  <2> QED BY <2>1, <2>2 DEF Measured, Plan, Program
<1>2. /\ \A c \in Channels : chan[c] = Idle /\ moved[c] = 0 /\ asked[c] = 0
      /\ cur_channel = 0 /\ pc = 1
  BY DEF BusInit, DmaInit
<1>3. /\ Counters \subseteq DOMAIN Idle /\ Idle.state = "idle" /\ Idle.addr = 0
      /\ Idle.auto_inc = 0 /\ Idle.size = 0 /\ Idle.timeout = 0
  BY DEF Idle, Counters
<1>4. CountInv BY <1>1, <1>2, <1>3 DEF CountInv
<1>5. RestInv BY <1>1, <1>2, <1>3 DEF RestInv, IsPlan, Steps
<1>6. WorkInv BY <1>1, <1>2, <1>3 DEF WorkInv, State
<1> QED BY <1>4, <1>5, <1>6 DEF SizeInv

LEMMA SizeStutters ==
  ASSUME SizeInv, UNCHANGED vars
  PROVE  SizeInv'
<1> USE DEF vars, dmaVars, coreVars, envVars, history
<1>1. Plan' = Plan
  BY DEF Plan, Program, IsPlan, Plans, Steps, Measures, UnitBegins, Behind, Follow,
     OneUnit, CurAt, Tracks, Selections
<1>2. CountInv' BY DEF SizeInv, CountInv, Program
<1>3. RestInv' BY <1>1 DEF SizeInv, RestInv, Program, State
<1>4. WorkInv' BY <1>1 DEF SizeInv, WorkInv, State, Me, Left, Upcoming
<1> QED BY <1>2, <1>3, <1>4 DEF SizeInv

LEMMA SizeKept ==
  ASSUME Measurers, Loadless, DmaInv, SizeInv, [Cycle]_vars
  PROVE  DmaInv' /\ SizeInv'
<1>1. Drivers BY DEF Measurers, Measured, Drivers
<1>2. DmaInv' BY <1>1, Kept
<1>3. CASE Cycle
  <2>3. host'.pin = FALSE BY <1>3, PinStaysLow, NothingRaises DEF Cycle
  <2>1. PICK w : Edge(w) BY <1>3, <2>3 DEF Cycle, Edge
  <2> QED BY <1>2, <2>1, CountKept, RestKept, WorkKept DEF SizeInv
<1>4. CASE UNCHANGED vars BY <1>2, <1>4, SizeStutters
<1> QED BY <1>3, <1>4

(* A channel that becomes idle has moved what was asked.                   *)
EndsExactly ==
  \A c \in Channels :
    ~In(c, "idle") /\ chan'[c].state = "idle" /\ ~TimesOut(c, p2d) /\ boot.mode = host.pin
      => moved[c] = asked[c]

LEMMA SizePromise ==
  ASSUME Measurers, Loadless, DmaInv, SizeInv, Cycle
  PROVE  EndsExactly
<1>0. host'.pin = FALSE BY PinStaysLow, NothingRaises DEF Cycle
<1>1. PICK w : Edge(w) BY <1>0 DEF Cycle, Edge
<1>2. SUFFICES ASSUME NEW c \in Channels, ~In(c, "idle"), chan'[c].state = "idle",
                      ~TimesOut(c, p2d)
               PROVE  moved[c] = asked[c]
  BY DEF EndsExactly
<1>3. c = cur_channel /\ State # "idle" BY <1>1, <1>2, SizeCases DEF DriverInv, In, State
<1>4. Moves(w) BY <1>1, <1>3, SizeCases DEF Sets
<1>5. /\ State = chan[c].state /\ FsmCounts(c, chan[c], chan'[c]) /\ Me = chan[c]
      /\ FsmMoves(c, chan[c], chan'[c])
  BY <1>1, <1>3, <1>4, MoveCounts
<1>6. /\ State \in States /\ CountInv /\ moved[c] + Left = asked[c]
      /\ State = "pre_idle" => Left = 0
  BY <1>1, <1>3, SizeCases DEF WorkInv
<1>7. State = "pre_idle" \/ (State = "wait_for_wr_grant" /\ chan[c].size = 0)
  BY <1>2, <1>3, <1>5, <1>6 DEF FsmMoves, FsmCounts, States, Left
<1>8. Left = 0 BY <1>5, <1>6, <1>7 DEF Left
<1> QED BY <1>6, <1>8 DEF CountInv

(* A transfer that is not given up moves exactly the bytes asked for.      *)
THEOREM TransfersAreExact == Measurers /\ Loadless => (Spec => ExactSize)
<1> SUFFICES ASSUME Measurers, Loadless PROVE Spec => ExactSize OBVIOUS
<1>1. BusInit => DmaInv /\ SizeInv
  BY Initially, SizeInitially DEF Measurers, Measured, Drivers
<1>2. DmaInv /\ SizeInv /\ [Cycle]_vars => DmaInv' /\ SizeInv' BY SizeKept
<1>3. DmaInv /\ SizeInv /\ [Cycle]_vars => [EndsExactly]_vars BY SizePromise
<1> QED BY <1>1, <1>2, <1>3, PTL DEF Spec, ExactSize, EndsExactly

-----------------------------------------------------------------------------
(* Code loading.  The code comes over the UART in whole words, when no     *)
(* channel is at work and channel 0 has no timeout: DmaReload shows what   *)
(* one does to the code.  The host waits for the last word to settle.      *)
Uploads(s) ==
  LET p == s.program IN
  s.code > 0 =>
    /\ s.senders \subseteq {"uart"}
    /\ s.code <= AddrMod /\ s.code % WordBytes = 0
    /\ \A i \in 1 .. Len(p) : p[i].reg = "timeout" => CurAt(p)[i] # 0
    /\ Len(p) > 0 /\ p[Len(p)].reg = "config" => CurAt(p)[Len(p)] = 0

Loads(s) == Measured(s) /\ s.code \in Nat /\ Uploads(s)

Loaders ==
  /\ \A s \in Scenarios : Loads(s)
  /\ WordBytes >= 2 /\ AddrMod % WordBytes = 0 /\ AddrMod > WordBytes
  /\ Settle \in Nat /\ Settle >= 4

-----------------------------------------------------------------------------
(* The inductive invariant, one part for each phase.                       *)
Loader == chan[0]
LoaderFields == Fields \cup Counters \cup {"tmp_data", "tmp_we"}

(* What the program leaves behind in channel 0.                            *)
LeftInv ==
  /\ boot.mode = FALSE
  /\ scenario.code > 0 =>
       /\ LoaderFields \subseteq DOMAIN Loader /\ Loader.timeout = 0
       /\ Loader.tmp_data = [l \in Lanes |-> Loader.tmp_data[l]]
       /\ cur_channel # 0 \/ State = "idle" => Loader.size = Plan[pc][0].size

(* Bytes of the code the channel has taken.                                *)
Accepted == IF Waiting("uart") THEN host.sent - 1 ELSE host.sent

(* The counters last until the end of the code.                            *)
Lasts ==
  Accepted < scenario.code =>
    IF Loader.size = 0 THEN Accepted = 0 /\ scenario.code <= SizeMod
    ELSE scenario.code - Accepted <= Loader.size

PinInv ==
  /\ 0 < scenario.code /\ host.sent \in 0 .. scenario.code /\ pc = Len(Program) + 1
  /\ LoaderFields \subseteq DOMAIN Loader /\ Loader.timeout = 0
  /\ Loader.tmp_data = [l \in Lanes |-> Loader.tmp_data[l]]
  /\ Loader.size \in 0 .. SizeMod - 1
  /\ \A c \in Channels \ {0} : In(c, "idle")
  /\ p2d["uart"].en \in BOOLEAN /\ d2p["uart"].grant \in BOOLEAN /\ request.cs \in BOOLEAN
  /\ next \in Nat /\ \A a \in 0 .. host.sent - 1 : code[a] \in Addrs
  /\ request = [cs |-> request.cs, wr |-> request.wr, acc |-> request.acc]

(* The edge that prepares the DMA.                                         *)
EnterInv ==
  /\ host.sent = 0 /\ In(0, "idle")
  /\ ~request.cs /\ ~d2p["uart"].grant
  /\ scenario.code <= IF Loader.size = 0 THEN SizeMod ELSE Loader.size

(* A byte of the code in the channel, on the request port, on the port of  *)
(* instruction memory or in there.                                         *)
Behindhand(a) ==   \* the bytes of the word being filled
  /\ a \div WordBytes = Loader.addr \div WordBytes
  /\ \/ Loader.state = "wait_for_periph_data" /\ a < Loader.addr
     \/ Loader.state \in {"send_periph_grant", "write_mem"} /\ a <= Loader.addr
InPort(a) == boot.cs /\ boot.addr = a \div WordBytes
Asked(a) == request.cs /\ request.acc.word = a \div WordBytes

ByteAt(a) ==
  /\ Behindhand(a) => Loader.tmp_data[a % WordBytes] = code[a]
  /\ Asked(a) => a < Accepted /\ request.acc.data[a % WordBytes] = code[a]
  /\ Accepted > 0 /\ InPort(a) =>
       a < Accepted /\ boot.data # PCp /\ boot.data[a % WordBytes] = code[a]
  /\ a < Accepted /\ ~Behindhand(a) /\ ~Asked(a) /\ ~InPort(a) => imem[a] = code[a]

LoadingStates == {"wait_for_periph_data", "send_periph_grant", "write_mem",
                  "wait_for_wr_grant", "idle"}

LoadingInv ==
  /\ Loader.state \in LoadingStates /\ Lasts
  /\ Loader.source = "uart" /\ Loader.auto_inc = 1 /\ Loader.span = WordBytes
  /\ ~boot.modep => host.sent = 0 /\ ~p2d["uart"].en /\ ~request.cs
                    /\ Loader.state = "wait_for_periph_data"
  /\ d2p["uart"].grant <=> Loader.state \in {"send_periph_grant", "write_mem"}
  /\ d2p["uart"].grant => p2d["uart"].en
  /\ Waiting("uart") => host.sent > 0 /\ p2d["uart"].data = code[host.sent - 1]
  /\ request.cs => Loader.state = "wait_for_wr_grant" /\ request.acc.data \in Word
  /\ Loader.state = "idle" => Accepted = scenario.code
  /\ Loader.state \in {"send_periph_grant", "write_mem", "wait_for_wr_grant"} => Accepted > 0
  /\ IF Loader.state \in {"send_periph_grant", "write_mem"} THEN Loader.addr = Accepted - 1
     ELSE Loader.addr = Accepted % AddrMod
  /\ Loader.state = "send_periph_grant" => Accepted % WordBytes # 0
  /\ Loader.state \in {"write_mem", "wait_for_wr_grant"} => Accepted % WordBytes = 0
  /\ \A a \in Addrs : ByteAt(a)

(* After the last byte.                                                    *)
QuietInv ==
  /\ host.quiet \in Nat /\ (host.quiet > 0 => host.sent = scenario.code)
  /\ host.quiet >= 1 => ~Waiting("uart")
  /\ host.quiet >= 2 => Loader.state \notin {"send_periph_grant", "write_mem"}
  /\ host.quiet >= 3 => \A a \in 0 .. scenario.code - 1 : InPort(a) \/ imem[a] = code[a]
  /\ host.quiet >= 4 => \A a \in 0 .. scenario.code - 1 : imem[a] = code[a]

(* The core starts.                                                        *)
LoadedInv ==
  /\ host.sent = scenario.code
  /\ \A a \in 0 .. scenario.code - 1 :
       /\ imem[a] = code[a]
       /\ boot.mode /\ InPort(a) => boot.data # PCp /\ boot.data[a % WordBytes] = code[a]

BootFields == {"mode", "modep", "cs", "addr", "data", "empty"}

LoadInv ==
  /\ scenario \in Scenarios
  /\ DOMAIN imem = Addrs /\ DOMAIN code = Addrs /\ BootFields \subseteq DOMAIN boot
  /\ host.pin \in BOOLEAN /\ boot_mode = boot.mode
  /\ boot.mode \in BOOLEAN /\ boot.modep \in BOOLEAN
  /\ ~host.pin /\ host.sent = 0 => DmaInv /\ SizeInv /\ LeftInv
  /\ host.pin => PinInv /\ QuietInv
  /\ host.pin /\ ~boot_mode => EnterInv
  /\ host.pin /\ boot_mode => LoadingInv
  /\ ~host.pin /\ host.sent # 0 => LoadedInv

-----------------------------------------------------------------------------
(* Words of memory.                                                        *)
LEMMA Quotient ==
  ASSUME NEW b \in Nat \ {0}, NEW q \in Int, NEW r \in 0 .. b - 1
  PROVE  (b * q + r) \div b = q
OBVIOUS

LEMMA Quotients ==
  ASSUME NEW b \in Nat \ {0}, NEW x \in Nat
  PROVE  x \div b \in Nat /\ b * (x \div b) \in Nat
OBVIOUS

LEMMA WordEnds ==
  ASSUME NEW b \in Nat, b >= 2, NEW x \in Nat
  PROVE  /\ (x + 1) % b # 0 => (x + 1) \div b = x \div b
         /\ (x + 1) % b = 0 =>
              /\ (x + 1) \div b # x \div b
              /\ \A a \in Nat : a \div b = x \div b => a <= x
         /\ \A a \in Nat : a \div b = x \div b /\ a % b = x % b => a = x
         /\ x % b = 0 => \A a \in Nat : a \div b = x \div b => a >= x
<1> DEFINE q == x \div b  r == x % b
<1>1. x = b * q + r /\ q \in Int /\ r \in 0 .. b - 1 BY Division
<1>2. \A a \in Nat : a = b * (a \div b) + (a % b) /\ a \div b \in Int /\ a % b \in 0 .. b - 1
  BY Division
<1>3. b * q \in Int BY <1>1
<1> HIDE DEF q, r
<1>4. ASSUME r < b - 1
      PROVE  (x + 1) % b = r + 1 /\ (x + 1) \div b = q
  <2>1. x + 1 = b * q + (r + 1) /\ r + 1 \in 0 .. b - 1 BY <1>1, <1>3, <1>4
  <2>2. (b * q + (r + 1)) % b = r + 1 BY <1>1, <2>1, WholeTurns
  <2>3. (b * q + (r + 1)) \div b = q BY <1>1, <2>1, Quotient
  <2> QED BY <2>1, <2>2, <2>3
<1>5. ASSUME r = b - 1
      PROVE  (x + 1) % b = 0 /\ (x + 1) \div b = q + 1
  <2>1. b * (q + 1) = b * q + b BY <1>1
  <2>2. x + 1 = b * (q + 1) + 0 /\ 0 \in 0 .. b - 1 /\ q + 1 \in Int BY <1>1, <1>3, <1>5, <2>1
  <2>3. (b * (q + 1) + 0) % b = 0 BY <2>2, WholeTurns
  <2>4. (b * (q + 1) + 0) \div b = q + 1 BY <2>2, Quotient
  <2> QED BY <2>2, <2>3, <2>4
<1>6. r < b - 1 \/ r = b - 1 BY <1>1
<1>7. ASSUME NEW a \in Nat, a \div b = q
      PROVE  a = b * q + (a % b) /\ a % b \in 0 .. b - 1
  BY <1>2, <1>7
<1>8. \A a \in Nat : a \div b = q => a <= b * q + (b - 1) /\ a >= b * q /\ (a % b = r => a = x)
  BY <1>1, <1>3, <1>7
<1>9. (x + 1) % b # 0 => (x + 1) \div b = q BY <1>1, <1>4, <1>5, <1>6
<1>10. (x + 1) % b = 0 => (x + 1) \div b # q /\ \A a \in Nat : a \div b = q => a <= x
  BY <1>1, <1>3, <1>4, <1>5, <1>6, <1>8
<1>11. r = 0 => \A a \in Nat : a \div b = q => a >= x BY <1>1, <1>3, <1>8
<1> QED BY <1>8, <1>9, <1>10, <1>11 DEF q, r

(* The address behind x is in the same word unless x is the last one of a  *)
(* word.                                                                   *)
LEMMA Behind1 ==
  ASSUME Loaders, NEW x \in Addrs
  PROVE  LET n == (x + 1) % AddrMod IN
         /\ n \div WordBytes = x \div WordBytes <=> (x + 1) % WordBytes # 0
         /\ (x + 1) % WordBytes # 0 => n = x + 1
         /\ x + 1 < AddrMod => n = x + 1
<1> DEFINE b == WordBytes  n == (x + 1) % AddrMod
<1>1. /\ b \in Nat /\ b >= 2 /\ AddrMod \in Nat \ {0} /\ AddrMod > b /\ AddrMod % b = 0
      /\ x \in Nat /\ x < AddrMod
  BY DmaAssumption DEF Loaders, Addrs
<1>2. CASE x + 1 < AddrMod
  <2>1. n = x + 1
    <3>1. AddrMod * 0 + (x + 1) = x + 1 /\ x + 1 \in 0 .. AddrMod - 1 BY <1>1, <1>2
    <3>2. (AddrMod * 0 + (x + 1)) % AddrMod = x + 1 BY <1>1, <3>1, WholeTurns
    <3> QED BY <3>1, <3>2
  <2> QED BY <1>1, <2>1, WordEnds
<1>3. CASE x + 1 = AddrMod
  <2>1. n = 0
    <3>1. AddrMod * 1 + 0 = x + 1 /\ 0 \in 0 .. AddrMod - 1 BY <1>1, <1>3
    <3>2. (AddrMod * 1 + 0) % AddrMod = 0 BY <1>1, <3>1, WholeTurns
    <3> QED BY <3>1, <3>2
  <2>2. (x + 1) % b = 0 BY <1>1, <1>3
  <2>3. 0 \div b = 0
    <3>1. b * 0 + 0 = 0 /\ 0 \in 0 .. b - 1 BY <1>1
    <3>2. (b * 0 + 0) \div b = 0 BY <1>1, <3>1, Quotient
    <3> QED BY <3>1, <3>2
  <2>4. x \div b # 0
    <3>1. x = b * (x \div b) + (x % b) /\ x % b \in 0 .. b - 1 BY <1>1, Division
    <3>2. x >= b BY <1>1, <1>3
    <3>3. b * 0 = 0 BY <1>1
    <3> QED BY <1>1, <3>1, <3>2, <3>3
  <2> QED BY <1>1, <1>3, <2>1, <2>2, <2>3, <2>4
<1> QED BY <1>1, <1>2, <1>3

-----------------------------------------------------------------------------
(* An edge while code is loaded: the driver has nothing left to write, and *)
(* channel 0 alone is at work.                                             *)
LEMMA LoadFacts ==
  ASSUME Loaders, scenario \in Scenarios
  PROVE  /\ WellFormed(scenario) /\ Len(Program) \in Nat /\ Measured(scenario)
         /\ 0 \in Channels /\ AddrMod \in Nat \ {0} /\ WordBytes \in Nat /\ WordBytes >= 2
         /\ SizeMod \in Nat \ {0} /\ 0 \in Addrs /\ Addrs = 0 .. AddrMod - 1
         /\ AddrMod > WordBytes /\ AddrMod % WordBytes = 0 /\ scenario.code \in Nat
         /\ scenario.code > 0 =>
              /\ scenario.senders \subseteq {"uart"}
              /\ scenario.code <= AddrMod /\ scenario.code % WordBytes = 0
<1>1. Loads(scenario) BY DEF Loaders
<1>2. WellFormed(scenario) BY <1>1 DEF Loads, Measured
<1>3. Len(Program) \in Nat BY <1>2 DEF WellFormed, Program
<1>4. /\ 0 \in Channels /\ AddrMod \in Nat \ {0} /\ WordBytes \in Nat /\ SizeMod \in Nat \ {0}
      /\ 0 \in Addrs /\ Addrs = 0 .. AddrMod - 1
  BY DmaAssumption DEF Channels, Addrs
<1> QED BY <1>1, <1>2, <1>3, <1>4 DEF Loads, Uploads, Loaders

LEMMA NothingWritten ==
  ASSUME pc > Len(Program), pc \in Nat, Len(Program) \in Nat, NEW w, DriverWrite(w)
  PROVE  w = NoWrite /\ pc' = pc
BY DEF DriverWrite

LEMMA Unwritten ==
  ASSUME NEW c
  PROVE  Written(c, NoWrite) = chan[c]
BY DEF Written, NoWrite

LEMMA AloneAtWork ==
  ASSUME 0 \in Channels, \A c \in Channels \ {0} : In(c, "idle")
  PROVE  /\ IssuesWrite(0) <=> Loader.state = "write_mem"
         /\ \A c \in Channels : c # 0 => /\ ~Issues(c) /\ ~Granted(c, dma_grant)
                                         /\ ~HasByte(c, p2d) /\ ~LowersGrant(c)
<1>1. ASSUME Loader.state = "write_mem" PROVE Selected = 0
  <2>1. Requesting = {0} BY <1>1 DEF Requesting, In, Loader
  <2>2. (CHOOSE c \in {0} : \A d \in {0} :
           \/ chan[d].wait_time < chan[c].wait_time
           \/ chan[d].wait_time = chan[c].wait_time /\ d <= c) = 0
    OBVIOUS
  <2> QED BY <2>1, <2>2 DEF Selected
<1>2. IssuesWrite(0) <=> Loader.state = "write_mem" BY <1>1 DEF IssuesWrite, In, Loader
<1>3. \A c \in Channels : c # 0 => /\ ~Issues(c) /\ ~Granted(c, dma_grant)
                                   /\ ~HasByte(c, p2d) /\ ~LowersGrant(c)
  BY DEF Issues, IssuesWrite, IssuesRead, Granted, HasByte, LowersGrant, In
<1> QED BY <1>2, <1>3

(* The state machine of channel 0 while it loads, k before the edge and v  *)
(* after it.                                                               *)
Took == Loader.state = "wait_for_periph_data" /\ p2d["uart"].en
LoaderMoves(k, v) ==
  /\ LoaderFields \subseteq DOMAIN v
  /\ v.source = k.source /\ v.auto_inc = k.auto_inc /\ v.span = k.span
  /\ v.timeout = k.timeout
  /\ v.addr = IF k.state \in {"send_periph_grant", "write_mem"} THEN NextAddr(0) ELSE k.addr
  /\ v.size = IF Took THEN Minus1(k.size, SizeMod) ELSE k.size
  /\ v.tmp_data = IF Took THEN [k.tmp_data EXCEPT ![Lane(0)] = p2d["uart"].data]
                  ELSE IF k.state = "write_mem" THEN EmptyWord ELSE k.tmp_data
  /\ k.state = "idle" => v.state = "idle"
  /\ k.state = "wait_for_periph_data" =>
       v.state = IF Took THEN IF SameUnit(0) THEN "send_periph_grant" ELSE "write_mem"
                 ELSE k.state
  /\ k.state = "send_periph_grant" => v.state = "wait_for_periph_data"
  /\ k.state = "write_mem" => v.state = "wait_for_wr_grant"
  /\ k.state = "wait_for_wr_grant" =>
       /\ dma_grant /\ k.size = 0 => v.state = "idle"
       /\ dma_grant /\ k.size # 0 => v.state = "wait_for_periph_data"
       /\ ~dma_grant => v.state = k.state

LEMMA LoaderTransition ==
  ASSUME 0 \in Channels, PinInv, LoadingInv, NEW rd, NEW k, k = Loader,
         NEW v, v = Fsm(0, k, p2d, dma_grant, rd)
  PROVE  LoaderMoves(k, v)
<1> USE DEF LoaderMoves
<1>1. /\ LoaderFields \subseteq DOMAIN k /\ k.timeout = 0 /\ k.source = "uart"
      /\ k.state \in LoadingStates /\ k = chan[0]
  BY DEF PinInv, LoadingInv, Loader
<1>2. /\ {"state", "source", "time", "timeout", "addr", "size", "auto_inc", "span",
          "tmp_data", "tmp_we"} \subseteq DOMAIN k
  BY <1>1 DEF LoaderFields, Fields, Counters
<1>3. HasByte(0, p2d) <=> Took BY <1>1 DEF HasByte, In, Took, Loader
<1>4. ~TimesOut(0, p2d) BY <1>1 DEF TimesOut
<1>5. IssuesWrite(0) <=> k.state = "write_mem" BY AloneAtWork DEF PinInv
<1>6. CASE k.state = "idle"
  <2>1. v = k BY <1>1, <1>6 DEF Fsm, In
  <2> QED BY <1>1, <1>6, <2>1 DEF Took
<1>7. CASE k.state = "wait_for_periph_data"
  <2>1. v = WaitForPeriphData(0, k, p2d) BY <1>1, <1>7 DEF Fsm, In
  <2>2. CASE Took
    <3>1. v = [k EXCEPT !.tmp_data = [k.tmp_data EXCEPT ![Lane(0)] = p2d["uart"].data],
                 !.tmp_we = k.tmp_we \cup {Lane(0)},
                 !.size = Minus1(k.size, SizeMod),
                 !.time = k.timeout,
                 !.state = IF SameUnit(0) THEN "send_periph_grant" ELSE "write_mem"]
      <4>1. v = [k EXCEPT
                 !.tmp_data = [chan[0].tmp_data EXCEPT ![Lane(0)] = p2d[chan[0].source].data],
                 !.tmp_we = chan[0].tmp_we \cup {Lane(0)},
                 !.size = Minus1(chan[0].size, SizeMod),
                 !.time = chan[0].timeout,
                 !.state = IF SameUnit(0) THEN "send_periph_grant" ELSE "write_mem"]
        BY Zenon, <1>3, <2>1, <2>2 DEF WaitForPeriphData
      <4> QED BY <1>1, <4>1
    <3>2. DOMAIN v = DOMAIN k BY <3>1
    <3> QED BY <1>1, <1>2, <1>7, <2>2, <3>1, <3>2
  <2>3. CASE ~Took
    <3>1. v = [k EXCEPT !.time = Minus1(k.time, TimeMod), !.state = @]
      BY <1>1, <1>3, <1>4, <2>1, <2>3 DEF WaitForPeriphData
    <3>2. DOMAIN v = DOMAIN k BY <3>1
    <3> QED BY <1>1, <1>2, <1>7, <2>3, <3>1, <3>2
  <2> QED BY <2>2, <2>3
<1>8. CASE k.state = "send_periph_grant"
  <2>1. v = SendPeriphGrant(0, k) BY <1>1, <1>8 DEF Fsm, In
  <2>2. DOMAIN v = DOMAIN k BY <2>1 DEF SendPeriphGrant
  <2> QED BY <1>1, <1>2, <1>8, <2>1, <2>2 DEF SendPeriphGrant, Took
<1>9. CASE k.state = "write_mem"
  <2>1. v = WriteMem(0, k) BY <1>1, <1>9 DEF Fsm, In
  <2>2. v = [k EXCEPT !.tmp_data = EmptyWord, !.tmp_we = {}, !.addr = NextAddr(0),
                 !.wait_time = chan[0].priority, !.state = "wait_for_wr_grant"]
    BY <1>5, <1>9, <2>1 DEF WriteMem
  <2>3. DOMAIN v = DOMAIN k BY <2>2
  <2> QED BY <1>1, <1>2, <1>9, <2>2, <2>3 DEF Took
<1>10. CASE k.state = "wait_for_wr_grant"
  <2>1. v = WaitForWrGrant(0, k, dma_grant) BY <1>1, <1>10 DEF Fsm, In
  <2>2. EndsWrite(0, dma_grant) <=> dma_grant /\ k.size = 0
    BY <1>1, <1>10 DEF EndsWrite, In
  <2>3. /\ dma_grant /\ k.size = 0 => v = [k EXCEPT !.state = "idle"]
        /\ dma_grant /\ k.size # 0 => v = [k EXCEPT !.state = "wait_for_periph_data"]
        /\ ~dma_grant => v = k
    BY <2>1, <2>2 DEF WaitForWrGrant
  <2>4. DOMAIN v = DOMAIN k BY <2>3
  <2> QED BY <1>1, <1>2, <1>10, <2>3, <2>4 DEF Took
<1> QED BY <1>1, <1>6, <1>7, <1>8, <1>9, <1>10 DEF LoadingStates

(* The ports of the DMA.                                                   *)
LEMMA LoaderRequest ==
  ASSUME 0 \in Channels, \A c \in Channels \ {0} : In(c, "idle"), ~BootExit(host.pin),
         request.cs \in BOOLEAN,
         request = [cs |-> request.cs, wr |-> request.wr, acc |-> request.acc],
         request' = RequestNext(dma_grant, host.pin)
  PROVE  /\ request' = [cs |-> request'.cs, wr |-> request'.wr, acc |-> request'.acc]
         /\ Loader.state = "write_mem" => request'.cs = TRUE /\ request'.acc = Request(0)
         /\ Loader.state \in LoadingStates \ {"write_mem"} =>
              /\ request'.cs => request' = request /\ ~Granted(0, dma_grant)
              /\ Loader.state # "wait_for_wr_grant" => request' = request
              /\ ~Granted(0, dma_grant) => request' = request
              /\ request'.cs \in BOOLEAN
<1> DEFINE
  cs == [c \in Channels |-> CASE Issues(c) -> {TRUE}
                              [] Granted(c, dma_grant) -> {FALSE}
                              [] OTHER -> {}]
  wr == [c \in Channels |-> IF Issues(c) THEN {In(c, "write_mem")} ELSE {}]
  acc == [c \in Channels |-> IF Issues(c) THEN {Request(c)} ELSE {}]
<1>1. ~BootExit(host.pin) OBVIOUS
<1>2. request' = [cs |-> LastAssigned(cs, request.cs), wr |-> LastAssigned(wr, request.wr),
                  acc |-> LastAssigned(acc, request.acc)]
  BY Zenon, <1>1 DEF RequestNext
<1>3. \A c \in Channels : c # 0 => ~Issues(c) /\ ~Granted(c, dma_grant)
  BY AloneAtWork
<1>4. \A c \in Channels : c # 0 => cs[c] = {} /\ wr[c] = {} /\ acc[c] = {} BY <1>3
<1>5. /\ cs[0] = {} => LastAssigned(cs, request.cs) = request.cs
      /\ \A v : cs[0] = {v} => LastAssigned(cs, request.cs) = v
      /\ wr[0] = {} => LastAssigned(wr, request.wr) = request.wr
      /\ acc[0] = {} => LastAssigned(acc, request.acc) = request.acc
      /\ \A v : acc[0] = {v} => LastAssigned(acc, request.acc) = v
  <2>1. \A c \in Channels : c # 0 => cs[c] = {} BY <1>4
  <2>2. \A c \in Channels : c # 0 => wr[c] = {} BY <1>4
  <2>3. \A c \in Channels : c # 0 => acc[c] = {} BY <1>4
  <2> HIDE DEF cs, wr, acc
  <2>4. /\ cs[0] = {} => LastAssigned(cs, request.cs) = request.cs
        /\ \A v : cs[0] = {v} => LastAssigned(cs, request.cs) = v
    <3>1. PICK old : old = request.cs OBVIOUS
    <3>2. /\ cs[0] = {} => LastAssigned(cs, old) = old
          /\ \A v : cs[0] = {v} => LastAssigned(cs, old) = v
      BY <2>1, OneWriter
    <3> QED BY <3>1, <3>2
  <2>5. wr[0] = {} => LastAssigned(wr, request.wr) = request.wr
    BY <2>2, OneWriter
  <2>6. /\ acc[0] = {} => LastAssigned(acc, request.acc) = request.acc
        /\ \A v : acc[0] = {v} => LastAssigned(acc, request.acc) = v
    BY <2>3, OneWriter
  <2> QED BY <2>4, <2>5, <2>6
<1>6. /\ Issues(0) => cs[0] = {TRUE} /\ acc[0] = {Request(0)}
      /\ ~Issues(0) => wr[0] = {} /\ acc[0] = {}
      /\ ~Issues(0) /\ Granted(0, dma_grant) => cs[0] = {FALSE}
      /\ ~Issues(0) /\ ~Granted(0, dma_grant) => cs[0] = {}
  <2>1. Issues(0) => ~Granted(0, dma_grant)
    BY DEF Issues, IssuesWrite, IssuesRead, Granted, In
  <2>2. cs[0] = IF Issues(0) THEN {TRUE} ELSE IF Granted(0, dma_grant) THEN {FALSE} ELSE {}
    BY <2>1
  <2>3. acc[0] = IF Issues(0) THEN {Request(0)} ELSE {} OBVIOUS
  <2>4. ~Issues(0) => wr[0] = {} OBVIOUS
  <2> QED BY <2>1, <2>2, <2>3, <2>4
<1> HIDE DEF cs, wr, acc
<1>7. /\ request' = [cs |-> request'.cs, wr |-> request'.wr, acc |-> request'.acc]
      /\ request'.cs = LastAssigned(cs, request.cs)
      /\ request'.wr = LastAssigned(wr, request.wr)
      /\ request'.acc = LastAssigned(acc, request.acc)
  BY <1>2
<1>8. ASSUME Loader.state = "write_mem"
      PROVE  request'.cs = TRUE /\ request'.acc = Request(0)
  <2>1. Issues(0) BY <1>8, AloneAtWork DEF Issues
  <2> QED BY <1>5, <1>6, <1>7, <2>1
<1>9. ASSUME Loader.state \in LoadingStates \ {"write_mem"}
      PROVE  /\ request'.cs => request' = request /\ ~Granted(0, dma_grant)
             /\ Loader.state # "wait_for_wr_grant" => request' = request
             /\ ~Granted(0, dma_grant) => request' = request
             /\ request'.cs \in BOOLEAN
  <2>1. ~Issues(0)
    BY <1>9 DEF Issues, IssuesWrite, IssuesRead, In, Loader, LoadingStates
  <2>2. Granted(0, dma_grant) => Loader.state = "wait_for_wr_grant"
    BY <1>9 DEF Granted, In, Loader, LoadingStates
  <2>3. /\ Granted(0, dma_grant) => request'.cs = FALSE
        /\ ~Granted(0, dma_grant) => request'.cs = request.cs
        /\ request'.wr = request.wr /\ request'.acc = request.acc
    BY <1>5, <1>6, <1>7, <2>1
  <2>4. request = [cs |-> request.cs, wr |-> request.wr, acc |-> request.acc]
        /\ request.cs \in BOOLEAN
    OBVIOUS
  <2>5. ~Granted(0, dma_grant) => request' = request BY <1>7, <2>3, <2>4
  <2> QED BY <2>2, <2>3, <2>4, <2>5
<1> QED BY <1>7, <1>8, <1>9

LEMMA LoaderHandshake ==
  ASSUME 0 \in Channels, \A c \in Channels \ {0} : In(c, "idle"),
         d2p'["uart"] = D2pNext("uart", p2d, dma_grant),
         Loader.state \in LoadingStates
  PROVE  /\ Loader.state = "idle" => d2p'["uart"].grant = d2p["uart"].grant
         /\ Loader.source = "uart" =>
              d2p'["uart"].grant =
                IF Took THEN TRUE
                ELSE IF Loader.state \in {"send_periph_grant", "write_mem"} THEN FALSE
                ELSE d2p["uart"].grant
<1>1. PICK grants : grants = [c \in Channels |->
    CASE HasByte(c, p2d) /\ chan[c].source = "uart" -> {TRUE}
      [] LowersGrant(c) /\ chan[c].source = "uart" -> {FALSE}
      [] OTHER -> {}]
  OBVIOUS
<1>2. d2p'["uart"].grant = LastAssigned(grants, d2p["uart"].grant) BY <1>1 DEF D2pNext
<1>3. \A c \in Channels : c # 0 => grants[c] = {} BY <1>1, AloneAtWork
<1>4. /\ grants[0] = {} => LastAssigned(grants, d2p["uart"].grant) = d2p["uart"].grant
      /\ \A v : grants[0] = {v} => LastAssigned(grants, d2p["uart"].grant) = v
  BY <1>3, OneWriter
<1>5. /\ Loader.source = "uart" => (HasByte(0, p2d) <=> Took)
      /\ LowersGrant(0) <=> Loader.state \in {"send_periph_grant", "write_mem"}
      /\ Loader.state = "idle" => ~HasByte(0, p2d)
  BY DEF HasByte, In, Took, Loader, LowersGrant
<1>6. Loader.state = "idle" => grants[0] = {} BY <1>1, <1>5
<1>7. ASSUME Loader.source = "uart"
      PROVE  /\ Took => grants[0] = {TRUE}
             /\ ~Took /\ Loader.state \in {"send_periph_grant", "write_mem"}
                  => grants[0] = {FALSE}
             /\ ~Took /\ Loader.state \notin {"send_periph_grant", "write_mem"}
                  => grants[0] = {}
  <2>1. chan[0].source = "uart" /\ (HasByte(0, p2d) <=> Took) BY <1>5, <1>7 DEF Loader
  <2>2. Took => ~LowersGrant(0) BY <1>5 DEF Took
  <2>3. grants[0] = IF HasByte(0, p2d) THEN {TRUE} ELSE IF LowersGrant(0) THEN {FALSE} ELSE {}
    BY <1>1, <2>1, <2>2
  <2> QED BY <1>5, <2>1, <2>3
<1> QED BY <1>2, <1>4, <1>6, <1>7

(* The UART hands over a byte or not.                                      *)
Arrives == next' # next
LEMMA UartStep ==
  ASSUME scenario.senders \subseteq {"uart"}, PeripheralStep, next \in Nat,
         p2d["uart"].en \in BOOLEAN, d2p["uart"].grant \in BOOLEAN
  PROVE  /\ next' = IF Arrives THEN next + 1 ELSE next
         /\ Arrives => Vacant("uart") /\ MoreBytes /\ ~Drops("uart")
         /\ p2d'["uart"].en <=>
              Arrives \/ (p2d["uart"].en /\ ~d2p["uart"].grant /\ ~Drops("uart"))
         /\ p2d'["uart"].en \in BOOLEAN
         /\ p2d'["uart"].data = IF Arrives THEN next % AddrMod ELSE p2d["uart"].data
<1>1. PICK arrives \in SUBSET scenario.senders, ready \in SUBSET Sources :
        /\ \A s \in arrives : Vacant(s) /\ MoreBytes /\ ~Drops(s)
        /\ p2d' = [s \in Sources |->
             [en |-> s \in arrives \/ (p2d[s].en /\ ~d2p[s].grant /\ ~Drops(s)),
              data |-> IF s \in arrives THEN next % AddrMod ELSE p2d[s].data,
              rdy |-> ~d2p[s].en /\ (p2d[s].rdy \/ s \in ready)]]
        /\ next' = IF arrives = {} THEN next ELSE next + 1
  BY Zenon DEF PeripheralStep
<1>2. arrives \subseteq {"uart"} BY <1>1
<1>3. Arrives <=> "uart" \in arrives
  <2>1. arrives = {} <=> "uart" \notin arrives BY <1>2
  <2>2. next + 1 # next OBVIOUS
  <2> QED BY <1>1, <2>1, <2>2 DEF Arrives
<1>4. "uart" \in Sources BY DEF Sources
<1>5. p2d'["uart"] =
        [en |-> "uart" \in arrives \/ (p2d["uart"].en /\ ~d2p["uart"].grant /\ ~Drops("uart")),
         data |-> IF "uart" \in arrives THEN next % AddrMod ELSE p2d["uart"].data,
         rdy |-> ~d2p["uart"].en /\ (p2d["uart"].rdy \/ "uart" \in ready)]
  BY <1>1, <1>4
<1>6. next' = IF Arrives THEN next + 1 ELSE next BY <1>1, <1>2, <1>3
<1>7. p2d'["uart"].en = (Arrives \/ (p2d["uart"].en /\ ~d2p["uart"].grant /\ ~Drops("uart")))
  <2>1. p2d'["uart"].en = ("uart" \in arrives
          \/ (p2d["uart"].en /\ ~d2p["uart"].grant /\ ~Drops("uart")))
    BY <1>5
  <2> QED BY <1>3, <2>1
<1>8. p2d'["uart"].data = IF Arrives THEN next % AddrMod ELSE p2d["uart"].data
  BY <1>3, <1>5
<1>9. Arrives => Vacant("uart") /\ MoreBytes /\ ~Drops("uart") BY <1>1, <1>3
<1> QED BY <1>6, <1>7, <1>8, <1>9

(* The host while the pin is up.                                           *)
LEMMA HostMoves ==
  ASSUME host.pin = TRUE, HostStep, next \in Nat, host.sent \in Nat,
         next' = IF Arrives THEN next + 1 ELSE next
  PROVE  /\ host'.pin <=> ~Lowers
         /\ host'.pin \in BOOLEAN
         /\ host'.sent = IF Arrives THEN host.sent + 1 ELSE host.sent
         /\ host'.quiet = IF CodeSent /\ ~Lowers THEN host.quiet + 1 ELSE 0
         /\ code' = IF Arrives THEN [code EXCEPT ![host.sent] = next % AddrMod] ELSE code
<1>1. ~Raises BY DEF Raises
<1>2. PICK raises \in {FALSE, Raises} : host' =
       [pin |-> raises \/ (host.pin /\ ~Lowers),
        sent |-> IF host.pin THEN host.sent + next' - next ELSE host.sent,
        quiet |-> IF CodeSent /\ ~Lowers THEN host.quiet + 1 ELSE 0]
  BY DEF HostStep
<1>3. raises = FALSE
  <2>1. Raises = FALSE BY <1>1 DEF Raises
  <2> QED BY <1>2, <2>1
<1>4. host'.pin = ~Lowers
  <2>1. host'.pin = (raises \/ (host.pin /\ ~Lowers)) BY <1>2
  <2> QED BY <1>3, <2>1
<1>5. host'.sent = IF Arrives THEN host.sent + 1 ELSE host.sent
  <2>1. host'.sent = host.sent + next' - next BY <1>2
  <2> QED BY <2>1 DEF Arrives
<1>6. host'.quiet = IF CodeSent /\ ~Lowers THEN host.quiet + 1 ELSE 0 BY <1>2
<1>7. code' = IF Arrives THEN [code EXCEPT ![host.sent] = next % AddrMod] ELSE code
  BY DEF HostStep, Arrives
<1>8. host'.pin \in BOOLEAN BY <1>4
<1> QED BY <1>4, <1>5, <1>6, <1>7, <1>8

(* The core while the pin is up: the request reaches the port of           *)
(* instruction memory in the next cycle, and that memory a cycle later.    *)
LEMMA PortMoves ==
  ASSUME BootFields \subseteq DOMAIN boot, BootStep
  PROVE  /\ BootFields \subseteq DOMAIN boot'
         /\ boot'.mode = host.pin /\ boot'.modep = boot.mode
         /\ boot.modep /\ boot.mode =>
              /\ boot'.cs = request.cs /\ boot'.addr = request.acc.word
              /\ boot'.data = request.acc.data
         /\ imem' = B!Loaded(imem, boot)
<1>1. PICK fetch : boot' = B!BootEdge(boot, host.pin, request, fetch)
  BY Zenon DEF BootStep
<1>2. PICK v : v = CASE boot.modep /\ boot.mode -> B!Port(boot, request)
                     [] B!Starts(boot) -> [boot EXCEPT !.cs = TRUE, !.addr = 0, !.data = PCp]
                     [] ~boot.modep /\ boot.mode -> [boot EXCEPT !.cs = TRUE, !.data = PCp]
                     [] OTHER -> [boot EXCEPT !.cs = TRUE, !.addr = fetch, !.data = PCp]
  OBVIOUS
<1>3. boot' = [v EXCEPT !.mode = host.pin, !.modep = boot.mode, !.empty = boot.modep]
  BY Zenon, <1>1, <1>2 DEF B!BootEdge
<1>4. DOMAIN v = DOMAIN boot /\ (boot.modep /\ boot.mode => v = B!Port(boot, request))
  <2>1. CASE boot.modep /\ boot.mode
    <3>1. v = B!Port(boot, request) BY <1>2, <2>1 DEF B!Starts
    <3> QED BY <3>1 DEF B!Port
  <2>2. CASE ~(boot.modep /\ boot.mode)
    <3>1. v \in {[boot EXCEPT !.cs = TRUE, !.addr = 0, !.data = PCp],
                 [boot EXCEPT !.cs = TRUE, !.data = PCp],
                 [boot EXCEPT !.cs = TRUE, !.addr = fetch, !.data = PCp]}
      BY <1>2, <2>2
    <3> QED BY <2>2, <3>1
  <2> QED BY <2>1, <2>2
<1>5. DOMAIN boot' = DOMAIN boot BY <1>3, <1>4
<1>6. boot'.mode = host.pin /\ boot'.modep = boot.mode BY <1>3, <1>4 DEF BootFields
<1>7. ASSUME boot.modep, boot.mode
      PROVE  /\ boot'.cs = request.cs /\ boot'.addr = request.acc.word
             /\ boot'.data = request.acc.data
  <2>1. v = [boot EXCEPT !.cs = request.cs, !.addr = request.acc.word,
                         !.data = request.acc.data]
    BY <1>4, <1>7 DEF B!Port
  <2> QED BY <1>3, <2>1 DEF BootFields
<1> QED BY <1>5, <1>6, <1>7 DEF BootStep

-----------------------------------------------------------------------------
(* One edge of the blocks that matter, and the phase in which code arrives. *)
LoadEdge(w) ==
  /\ DriverWrite(w) /\ DmaCycle(w, host.pin, p2d, dma_grant, RamAnswer)
  /\ PeripheralStep /\ HostStep /\ BootStep /\ scenario' = scenario

Pinned ==
  /\ scenario \in Scenarios /\ DOMAIN imem = Addrs /\ DOMAIN code = Addrs
  /\ BootFields \subseteq DOMAIN boot /\ boot.modep \in BOOLEAN
  /\ host.pin = TRUE /\ PinInv /\ QuietInv
Arriving == Pinned /\ boot_mode = TRUE /\ boot.mode = TRUE /\ LoadingInv

LEMMA Pins ==
  ASSUME Loaders, Pinned, NEW w, LoadEdge(w)
  PROVE  /\ w = NoWrite /\ pc' = pc /\ Program' = Program
         /\ next' = IF Arrives THEN next + 1 ELSE next
         /\ Arrives => Vacant("uart") /\ host.sent < scenario.code /\ ~Drops("uart")
         /\ p2d'["uart"].en <=>
              Arrives \/ (p2d["uart"].en /\ ~d2p["uart"].grant /\ ~Drops("uart"))
         /\ p2d'["uart"].en \in BOOLEAN
         /\ p2d'["uart"].data = IF Arrives THEN next % AddrMod ELSE p2d["uart"].data
         /\ host'.pin <=> ~Lowers
         /\ host'.pin \in BOOLEAN
         /\ host'.sent = IF Arrives THEN host.sent + 1 ELSE host.sent
         /\ host'.quiet = IF CodeSent /\ ~Lowers THEN host.quiet + 1 ELSE 0
         /\ code' = IF Arrives THEN [code EXCEPT ![host.sent] = next % AddrMod] ELSE code
         /\ boot_mode' = TRUE
         /\ \A c \in Channels : chan'[c] =
              Fsm(c, Booted(c, TRUE, chan[c]), p2d, dma_grant, RamAnswer)
         /\ request' = RequestNext(dma_grant, host.pin)
         /\ d2p'["uart"] = D2pNext("uart", p2d, dma_grant)
         /\ BootFields \subseteq DOMAIN boot'
         /\ boot'.mode = TRUE /\ boot'.modep = boot.mode
         /\ boot.modep /\ boot.mode =>
              /\ boot'.cs = request.cs /\ boot'.addr = request.acc.word
              /\ boot'.data = request.acc.data
         /\ imem' = B!Loaded(imem, boot)
<1>1. PinInv /\ host.pin = TRUE /\ scenario \in Scenarios BY DEF Pinned
<1>2. /\ Len(Program) \in Nat /\ scenario.senders \subseteq {"uart"} /\ scenario.code \in Nat
  BY <1>1, LoadFacts DEF PinInv
<1>3. /\ pc > Len(Program) /\ pc \in Nat /\ next \in Nat /\ host.sent \in Nat
      /\ p2d["uart"].en \in BOOLEAN /\ d2p["uart"].grant \in BOOLEAN
  BY <1>1, <1>2 DEF PinInv
<1>4. w = NoWrite /\ pc' = pc BY <1>2, <1>3, NothingWritten DEF LoadEdge
<1>5. Program' = Program BY DEF LoadEdge, Program
<1>6. /\ next' = IF Arrives THEN next + 1 ELSE next
      /\ Arrives => Vacant("uart") /\ MoreBytes /\ ~Drops("uart")
      /\ p2d'["uart"].en <=>
           Arrives \/ (p2d["uart"].en /\ ~d2p["uart"].grant /\ ~Drops("uart"))
      /\ p2d'["uart"].en \in BOOLEAN
      /\ p2d'["uart"].data = IF Arrives THEN next % AddrMod ELSE p2d["uart"].data
  BY <1>2, <1>3, UartStep DEF LoadEdge
<1>7. /\ host'.pin <=> ~Lowers
      /\ host'.pin \in BOOLEAN
      /\ host'.sent = IF Arrives THEN host.sent + 1 ELSE host.sent
      /\ host'.quiet = IF CodeSent /\ ~Lowers THEN host.quiet + 1 ELSE 0
      /\ code' = IF Arrives THEN [code EXCEPT ![host.sent] = next % AddrMod] ELSE code
  BY <1>1, <1>3, <1>6, HostMoves DEF LoadEdge
<1>8. MoreBytes => host.sent < scenario.code BY <1>1 DEF MoreBytes
<1>9. /\ BootFields \subseteq DOMAIN boot'
      /\ boot'.mode = host.pin /\ boot'.modep = boot.mode
      /\ boot.modep /\ boot.mode =>
           /\ boot'.cs = request.cs /\ boot'.addr = request.acc.word
           /\ boot'.data = request.acc.data
      /\ imem' = B!Loaded(imem, boot)
  BY PortMoves DEF Pinned, LoadEdge
<1>10. /\ boot_mode' = TRUE
       /\ \A c \in Channels : chan'[c] =
            Fsm(c, Booted(c, TRUE, chan[c]), p2d, dma_grant, RamAnswer)
       /\ request' = RequestNext(dma_grant, host.pin)
       /\ d2p'["uart"] = D2pNext("uart", p2d, dma_grant)
  <2>1. DmaCycle(NoWrite, TRUE, p2d, dma_grant, RamAnswer) BY <1>1, <1>4 DEF LoadEdge
  <2>2. "uart" \in Sources BY DEF Sources
  <2> QED BY <1>1, <2>1, <2>2, Unwritten DEF DmaCycle
<1> QED BY <1>1, <1>4, <1>5, <1>6, <1>7, <1>8, <1>9, <1>10

LEMMA Loading ==
  ASSUME Loaders, Arriving, NEW w, LoadEdge(w)
  PROVE  /\ LoaderMoves(Loader, Loader') /\ Loader' = chan'[0]
         /\ \A c \in Channels \ {0} : chan'[c].state = "idle"
         /\ request' = [cs |-> request'.cs, wr |-> request'.wr, acc |-> request'.acc]
         /\ Loader.state = "write_mem" => request'.cs = TRUE /\ request'.acc = Request(0)
         /\ Loader.state # "write_mem" =>
              /\ request'.cs => request' = request /\ ~Granted(0, dma_grant)
              /\ Loader.state # "wait_for_wr_grant" => request' = request
         /\ request'.cs \in BOOLEAN
         /\ d2p'["uart"].grant = IF Took THEN TRUE
                                 ELSE IF Loader.state \in {"send_periph_grant", "write_mem"}
                                 THEN FALSE ELSE d2p["uart"].grant
         /\ ~Drops("uart")
<1>1. /\ PinInv /\ LoadingInv /\ host.pin = TRUE /\ boot_mode = TRUE /\ boot.mode = TRUE
      /\ 0 \in Channels /\ Pinned
  BY LoadFacts DEF Arriving, Pinned
<1>2. /\ \A c \in Channels : chan'[c] =
            Fsm(c, Booted(c, TRUE, chan[c]), p2d, dma_grant, RamAnswer)
      /\ request' = RequestNext(dma_grant, host.pin)
      /\ d2p'["uart"] = D2pNext("uart", p2d, dma_grant)
  BY <1>1, Pins
<1>3. \A c, k : Booted(c, TRUE, k) = k BY <1>1 DEF Booted, BootEntry, BootExit
<1>4. LoaderMoves(Loader, Loader') /\ Loader' = chan'[0]
  <2>1. Loader' = chan'[0] BY DEF Loader
  <2>2. chan'[0] = Fsm(0, Loader, p2d, dma_grant, RamAnswer) BY <1>1, <1>2, <1>3 DEF Loader
  <2> QED BY <1>1, <2>1, <2>2, LoaderTransition
<1>5. ASSUME NEW c \in Channels \ {0} PROVE chan'[c].state = "idle"
  <2>1. In(c, "idle") BY <1>1 DEF PinInv
  <2>2. chan'[c] = Fsm(c, chan[c], p2d, dma_grant, RamAnswer) BY <1>2, <1>3
  <2>3. chan'[c] = chan[c] BY <2>1, <2>2 DEF Fsm, In
  <2> QED BY <2>1, <2>3 DEF In
<1>6. Loader.state \in LoadingStates /\ Loader.source = "uart" BY <1>1 DEF LoadingInv
<1>7. ~Drops("uart") BY <1>1 DEF Drops, B!Begins
<1>8. d2p'["uart"].grant = IF Took THEN TRUE
                           ELSE IF Loader.state \in {"send_periph_grant", "write_mem"}
                           THEN FALSE ELSE d2p["uart"].grant
  BY <1>1, <1>2, <1>6, LoaderHandshake DEF PinInv
<1>9. /\ request' = [cs |-> request'.cs, wr |-> request'.wr, acc |-> request'.acc]
      /\ Loader.state = "write_mem" => request'.cs = TRUE /\ request'.acc = Request(0)
      /\ Loader.state # "write_mem" =>
           /\ request'.cs => request' = request /\ ~Granted(0, dma_grant)
           /\ Loader.state # "wait_for_wr_grant" => request' = request
      /\ request'.cs \in BOOLEAN
  BY <1>1, <1>2, <1>6, LoaderRequest DEF PinInv, BootExit
<1> QED BY <1>4, <1>5, <1>7, <1>8, <1>9

(* The bytes taken, and the one that waits.                                *)
LEMMA AcceptedStep ==
  ASSUME Loaders, Arriving, NEW w, LoadEdge(w)
  PROVE  /\ Accepted \in 0 .. scenario.code /\ (Took => Accepted < scenario.code)
         /\ Took => Accepted + 1 = host.sent /\ p2d["uart"].data = code[Accepted]
         /\ Accepted' = IF Took THEN Accepted + 1 ELSE Accepted
         /\ host'.sent \in 0 .. scenario.code /\ host'.sent >= host.sent
         /\ \A a \in 0 .. host.sent - 1 : code'[a] = code[a]
         /\ \A a \in 0 .. host'.sent - 1 : code'[a] \in Addrs
         /\ DOMAIN code' = Addrs
         /\ Waiting("uart")' =>
              host'.sent > 0 /\ p2d'["uart"].data = code'[host'.sent - 1]
         /\ d2p'["uart"].grant <=> Loader'.state \in {"send_periph_grant", "write_mem"}
         /\ d2p'["uart"].grant => p2d'["uart"].en
         /\ d2p'["uart"].grant \in BOOLEAN
         /\ Arrives => Accepted < scenario.code
         /\ Arrives => ~Waiting("uart")
         /\ Took => Waiting("uart")
         /\ Loader'.state \in {"send_periph_grant", "write_mem"} <=> Took
<1>1. /\ PinInv /\ LoadingInv /\ host.pin = TRUE /\ scenario \in Scenarios /\ Pinned
      /\ DOMAIN code = Addrs
  BY DEF Arriving, Pinned
<1>2. /\ scenario.code \in Nat /\ scenario.code <= AddrMod /\ Addrs = 0 .. AddrMod - 1
      /\ AddrMod \in Nat \ {0}
  BY <1>1, LoadFacts DEF PinInv
<1>3. /\ host.sent \in 0 .. scenario.code /\ next \in Nat
      /\ \A a \in 0 .. host.sent - 1 : code[a] \in Addrs
      /\ p2d["uart"].en \in BOOLEAN /\ d2p["uart"].grant \in BOOLEAN
  BY <1>1 DEF PinInv
<1>4. /\ Loader.state \in LoadingStates
      /\ d2p["uart"].grant <=> Loader.state \in {"send_periph_grant", "write_mem"}
      /\ d2p["uart"].grant => p2d["uart"].en
      /\ Waiting("uart") => host.sent > 0 /\ p2d["uart"].data = code[host.sent - 1]
      /\ Loader.state = "idle" => Accepted = scenario.code
  BY <1>1 DEF LoadingInv
<1>5. /\ next' = IF Arrives THEN next + 1 ELSE next
      /\ Arrives => Vacant("uart") /\ host.sent < scenario.code
      /\ p2d'["uart"].en <=>
           Arrives \/ (p2d["uart"].en /\ ~d2p["uart"].grant /\ ~Drops("uart"))
      /\ p2d'["uart"].en \in BOOLEAN
      /\ p2d'["uart"].data = IF Arrives THEN next % AddrMod ELSE p2d["uart"].data
      /\ host'.sent = IF Arrives THEN host.sent + 1 ELSE host.sent
      /\ code' = IF Arrives THEN [code EXCEPT ![host.sent] = next % AddrMod] ELSE code
  BY <1>1, Pins
<1>6. /\ LoaderMoves(Loader, Loader') /\ ~Drops("uart")
      /\ d2p'["uart"].grant = IF Took THEN TRUE
                              ELSE IF Loader.state \in {"send_periph_grant", "write_mem"}
                              THEN FALSE ELSE d2p["uart"].grant
  BY Loading
<1>7. Waiting("uart") <=> p2d["uart"].en /\ ~d2p["uart"].grant BY DEF Waiting
<1>8. Waiting("uart")' <=> p2d'["uart"].en /\ ~d2p'["uart"].grant BY DEF Waiting
<1>9. /\ Accepted = IF Waiting("uart") THEN host.sent - 1 ELSE host.sent
      /\ Accepted' = IF Waiting("uart")' THEN host'.sent - 1 ELSE host'.sent
  BY DEF Accepted
<1>10. /\ Took <=> Loader.state = "wait_for_periph_data" /\ p2d["uart"].en
       /\ Took => Waiting("uart")
  BY <1>4, <1>7 DEF Took
<1>11. Accepted \in 0 .. scenario.code BY <1>2, <1>3, <1>4, <1>9
<1>12. Arrives => ~Waiting("uart")
  <2>1. Vacant("uart") => (p2d["uart"].en => d2p["uart"].grant \/ In(0, "idle"))
    BY <1>1 DEF Vacant
  <2>2. In(0, "idle") => ~Arrives \/ ~Waiting("uart")
    <3>1. In(0, "idle") /\ Waiting("uart") => host.sent - 1 = scenario.code
      BY <1>4, <1>9 DEF In, Loader
    <3> QED BY <1>3, <1>2, <3>1
  <2> QED BY <1>5, <1>7, <2>1, <2>2
<1>13. Loader'.state \in {"send_periph_grant", "write_mem"} <=> Took
  BY <1>4, <1>6, <1>10 DEF LoaderMoves, LoadingStates
<1>14. d2p'["uart"].grant <=> Took
  BY <1>4, <1>6, <1>10, <1>13
<1>15. d2p'["uart"].grant \in BOOLEAN BY <1>3, <1>6
<1>16. Accepted' = IF Took THEN Accepted + 1 ELSE Accepted
  BY <1>3, <1>5, <1>6, <1>7, <1>8, <1>9, <1>10, <1>12, <1>14
<1>17. /\ host'.sent \in 0 .. scenario.code /\ host'.sent >= host.sent
       /\ Arrives => host.sent \in Addrs
  BY <1>2, <1>3, <1>5
<1>18. next % AddrMod \in Addrs
  <2>1. next % AddrMod \in 0 .. AddrMod - 1 BY <1>2, <1>3
  <2> QED BY <1>2, <2>1
<1>19. /\ \A a \in 0 .. host.sent - 1 : code'[a] = code[a]
       /\ Arrives => code'[host.sent] = next % AddrMod
       /\ DOMAIN code' = Addrs
  BY <1>1, <1>3, <1>5, <1>17
<1>20. \A a \in 0 .. host'.sent - 1 : code'[a] \in Addrs
  <2> SUFFICES ASSUME NEW a \in 0 .. host'.sent - 1 PROVE code'[a] \in Addrs
    OBVIOUS
  <2>1. a \in 0 .. host.sent - 1 \/ (Arrives /\ a = host.sent) BY <1>3, <1>5
  <2> QED BY <1>3, <1>18, <1>19, <2>1
<1>21. Waiting("uart")' => host'.sent > 0 /\ p2d'["uart"].data = code'[host'.sent - 1]
  <2>1. CASE Arrives BY <1>3, <1>5, <1>19, <2>1
  <2>2. ASSUME ~Arrives, Waiting("uart")'
        PROVE  host'.sent > 0 /\ p2d'["uart"].data = code'[host'.sent - 1]
    <3>1. Waiting("uart") BY <1>5, <1>7, <1>8, <2>2
    <3> QED BY <1>3, <1>4, <1>5, <2>2, <3>1
  <2> QED BY <2>1, <2>2
<1>22. d2p'["uart"].grant => p2d'["uart"].en
  BY <1>5, <1>6, <1>7, <1>10, <1>14
<1>23. /\ Took => Accepted + 1 = host.sent /\ p2d["uart"].data = code[Accepted]
       /\ Took => Accepted < scenario.code
  BY <1>2, <1>3, <1>4, <1>9, <1>10
<1>24. Arrives => Accepted < scenario.code BY <1>2, <1>3, <1>5, <1>9, <1>12
<1> QED
  BY <1>10, <1>11, <1>12, <1>13, <1>14, <1>15, <1>16, <1>17, <1>19, <1>20, <1>21, <1>22,
     <1>23, <1>24

(* The channel's registers follow the number of bytes taken.               *)
AddrInv ==
  /\ Loader.state \in LoadingStates /\ Lasts
  /\ Loader.source = "uart" /\ Loader.auto_inc = 1 /\ Loader.span = WordBytes
  /\ Loader.state = "idle" => Accepted = scenario.code
  /\ Loader.state \in {"send_periph_grant", "write_mem", "wait_for_wr_grant"} => Accepted > 0
  /\ IF Loader.state \in {"send_periph_grant", "write_mem"} THEN Loader.addr = Accepted - 1
     ELSE Loader.addr = Accepted % AddrMod
  /\ Loader.state = "send_periph_grant" => Accepted % WordBytes # 0
  /\ Loader.state \in {"write_mem", "wait_for_wr_grant"} => Accepted % WordBytes = 0

LEMMA LoaderAddr ==
  ASSUME Loaders, Arriving
  PROVE  /\ AddrInv /\ Loader.addr \in Addrs /\ Accepted \in 0 .. scenario.code
         /\ scenario.code \in Nat /\ scenario.code <= AddrMod
         /\ NextAddr(0) = (Loader.addr + 1) % AddrMod
         /\ SameUnit(0) <=> (Loader.addr + 1) % WordBytes # 0
         /\ (Loader.addr + 1) % WordBytes # 0 =>
              NextAddr(0) = Loader.addr + 1
              /\ NextAddr(0) \div WordBytes = Loader.addr \div WordBytes
<1>1. /\ PinInv /\ LoadingInv /\ scenario \in Scenarios BY DEF Arriving, Pinned
<1>2. /\ scenario.code \in Nat /\ scenario.code <= AddrMod /\ Addrs = 0 .. AddrMod - 1
      /\ AddrMod \in Nat \ {0} /\ WordBytes \in Nat
  BY <1>1, LoadFacts DEF PinInv
<1>3. AddrInv /\ (Waiting("uart") => host.sent > 0) BY <1>1 DEF LoadingInv, AddrInv
<1>4. Accepted \in 0 .. scenario.code BY <1>1, <1>2, <1>3 DEF PinInv, Accepted
<1>5. Accepted % AddrMod \in 0 .. AddrMod - 1 BY <1>2, <1>4
<1>6. Loader.addr \in Addrs
  <2>1. CASE Loader.state \in {"send_periph_grant", "write_mem"}
    <3>1. Accepted > 0 /\ Loader.addr = Accepted - 1 BY <1>3, <2>1 DEF AddrInv
    <3> QED BY <1>2, <1>4, <3>1
  <2>2. CASE Loader.state \notin {"send_periph_grant", "write_mem"}
    BY <1>2, <1>3, <1>5, <2>2 DEF AddrInv
  <2> QED BY <2>1, <2>2
<1>7. NextAddr(0) = (Loader.addr + 1) % AddrMod BY <1>3 DEF NextAddr, Plus, Loader, AddrInv
<1>8. SameUnit(0) <=> NextAddr(0) \div WordBytes = Loader.addr \div WordBytes
  BY <1>3 DEF SameUnit, Loader, AddrInv
<1>9. /\ NextAddr(0) \div WordBytes = Loader.addr \div WordBytes
           <=> (Loader.addr + 1) % WordBytes # 0
      /\ (Loader.addr + 1) % WordBytes # 0 => NextAddr(0) = Loader.addr + 1
  BY <1>6, <1>7, Behind1
<1> QED BY <1>2, <1>3, <1>4, <1>6, <1>7, <1>8, <1>9

LEMMA LastsKept ==
  ASSUME Loaders, Arriving, NEW w, LoadEdge(w)
  PROVE  Lasts' /\ Loader'.size \in 0 .. SizeMod - 1
<1>1. /\ PinInv /\ scenario \in Scenarios BY DEF Arriving, Pinned
<1>2. /\ scenario.code \in Nat /\ SizeMod \in Nat \ {0} /\ Loader.size \in 0 .. SizeMod - 1
  BY <1>1, LoadFacts DEF PinInv
<1>3. Lasts /\ Accepted \in 0 .. scenario.code BY LoaderAddr DEF AddrInv
<1>4. /\ Took => Accepted < scenario.code
      /\ Accepted' = IF Took THEN Accepted + 1 ELSE Accepted
  BY AcceptedStep
<1>5. scenario' = scenario BY DEF LoadEdge
<1>6. Loader'.size = IF Took THEN Minus1(Loader.size, SizeMod) ELSE Loader.size
  BY Loading DEF LoaderMoves
<1>7. Minus1(Loader.size, SizeMod) = IF Loader.size = 0 THEN SizeMod - 1 ELSE Loader.size - 1
  BY <1>2, CounterSteps
<1>8. Lasts'
  <2> SUFFICES ASSUME Accepted' < scenario.code
               PROVE  IF Loader'.size = 0 THEN Accepted' = 0 /\ scenario.code <= SizeMod
                      ELSE scenario.code - Accepted' <= Loader'.size
    BY <1>5 DEF Lasts
  <2>1. IF Loader.size = 0 THEN Accepted = 0 /\ scenario.code <= SizeMod
        ELSE scenario.code - Accepted <= Loader.size
    BY <1>2, <1>3, <1>4 DEF Lasts
  <2> QED BY <1>2, <1>3, <1>4, <1>6, <1>7, <2>1
<1> QED BY <1>2, <1>6, <1>7, <1>8

LEMMA AddrKept ==
  ASSUME Loaders, Arriving, NEW w, LoadEdge(w)
  PROVE  AddrInv'
<1> DEFINE A == Accepted  x == Loader.addr
<1>1. /\ AddrInv /\ x \in Addrs /\ A \in 0 .. scenario.code
      /\ scenario.code \in Nat /\ scenario.code <= AddrMod
      /\ NextAddr(0) = (x + 1) % AddrMod
      /\ SameUnit(0) <=> (x + 1) % WordBytes # 0
  BY LoaderAddr
<1>2. /\ Took => A < scenario.code
      /\ Accepted' = IF Took THEN A + 1 ELSE A
  BY AcceptedStep
<1>3. scenario' = scenario BY DEF LoadEdge
<1>4. LoaderMoves(Loader, Loader') BY Loading
<1>5. Lasts' BY LastsKept
<1>6. AddrMod \in Nat \ {0} /\ Addrs = 0 .. AddrMod - 1 BY DmaAssumption DEF Addrs
<1>7. Took => Loader.state = "wait_for_periph_data" BY DEF Took
<1>8. A \in Addrs => A % AddrMod = A BY WordAndLane
<1>9. Loader'.source = "uart" /\ Loader'.auto_inc = 1 /\ Loader'.span = WordBytes
  BY <1>1, <1>4 DEF AddrInv, LoaderMoves
<1>10. CASE Loader.state = "wait_for_periph_data" /\ Took
  <2>1. x = A /\ A + 1 > 0 BY <1>1, <1>2, <1>6, <1>8, <1>10 DEF AddrInv
  <2>2. /\ Loader'.state = IF (A + 1) % WordBytes # 0 THEN "send_periph_grant" ELSE "write_mem"
        /\ Loader'.addr = A /\ Accepted' = A + 1
    BY <1>1, <1>2, <1>4, <1>10, <2>1 DEF LoaderMoves
  <2>3. Accepted' > 0 /\ Loader'.addr = Accepted' - 1 BY <1>1, <2>1, <2>2
  <2> QED BY <1>5, <1>9, <2>2, <2>3 DEF AddrInv, LoadingStates
<1>11. CASE Loader.state = "wait_for_periph_data" /\ ~Took
  <2>1. /\ Loader'.state = "wait_for_periph_data" /\ Loader'.addr = x /\ Accepted' = A
    BY <1>2, <1>4, <1>11 DEF LoaderMoves
  <2> QED BY <1>1, <1>5, <1>9, <1>11, <2>1 DEF AddrInv, LoadingStates
<1>12. CASE Loader.state = "send_periph_grant"
  <2>1. /\ Loader'.state = "wait_for_periph_data" /\ Loader'.addr = (x + 1) % AddrMod
        /\ Accepted' = A /\ x + 1 = A
    BY <1>1, <1>2, <1>4, <1>7, <1>12 DEF AddrInv, LoaderMoves
  <2> QED BY <1>5, <1>9, <2>1 DEF AddrInv, LoadingStates
<1>13. CASE Loader.state = "write_mem"
  <2>1. /\ Loader'.state = "wait_for_wr_grant" /\ Loader'.addr = (x + 1) % AddrMod
        /\ Accepted' = A /\ x + 1 = A /\ A > 0 /\ A % WordBytes = 0
    BY <1>1, <1>2, <1>4, <1>7, <1>13 DEF AddrInv, LoaderMoves
  <2> QED BY <1>5, <1>9, <2>1 DEF AddrInv, LoadingStates
<1>14. CASE Loader.state = "wait_for_wr_grant"
  <2>1. /\ Loader'.addr = A % AddrMod /\ Accepted' = A /\ A > 0 /\ A % WordBytes = 0
        /\ Loader'.state \in {"wait_for_wr_grant", "wait_for_periph_data", "idle"}
        /\ Loader'.state = "idle" => Loader.size = 0
    BY <1>1, <1>2, <1>4, <1>7, <1>14 DEF AddrInv, LoaderMoves
  <2>2. Loader'.state = "idle" => A = scenario.code
    BY <1>1, <2>1 DEF AddrInv, Lasts
  <2> QED BY <1>3, <1>5, <1>9, <2>1, <2>2 DEF AddrInv, LoadingStates
<1>15. CASE Loader.state = "idle"
  <2>1. Loader'.state = "idle" /\ Loader'.addr = x /\ Accepted' = A
    BY <1>2, <1>4, <1>7, <1>15 DEF LoaderMoves
  <2> QED BY <1>1, <1>3, <1>5, <1>9, <1>15, <2>1 DEF AddrInv, LoadingStates
<1> QED BY <1>1, <1>10, <1>11, <1>12, <1>13, <1>14, <1>15 DEF AddrInv, LoadingStates

(* The bytes of the word being filled stay in it until it is requested.    *)
LEMMA BehindMoves ==
  ASSUME Loaders, Arriving, NEW w, LoadEdge(w), NEW a \in Addrs
  PROVE  /\ Behindhand(a) => Behindhand(a)' \/ Loader.state = "write_mem"
         /\ Behindhand(a)' => \/ Took /\ a = Accepted
                              \/ Behindhand(a) /\ Loader.state # "write_mem"
                                 /\ (Took => a < Accepted)
         /\ Took /\ a = Accepted => Behindhand(a)'
         /\ Behindhand(a) => a < Accepted
         /\ Loader.state = "write_mem" /\ a \div WordBytes = Loader.addr \div WordBytes
              => Behindhand(a)
<1> DEFINE A == Accepted  x == Loader.addr
<1>1. /\ AddrInv /\ x \in Addrs /\ A \in 0 .. scenario.code
      /\ scenario.code \in Nat /\ scenario.code <= AddrMod
      /\ NextAddr(0) = (x + 1) % AddrMod
      /\ SameUnit(0) <=> (x + 1) % WordBytes # 0
      /\ (x + 1) % WordBytes # 0 =>
              NextAddr(0) = x + 1 /\ NextAddr(0) \div WordBytes = x \div WordBytes
  BY LoaderAddr
<1>2. LoaderMoves(Loader, Loader') BY Loading
<1>3. /\ AddrMod \in Nat \ {0} /\ Addrs = 0 .. AddrMod - 1 /\ a \in Nat /\ x \in Nat
      /\ WordBytes \in Nat /\ WordBytes >= 2
  BY <1>1, DmaAssumption DEF Addrs, Loaders
<1>4. /\ (x + 1) % WordBytes = 0 => (a \div WordBytes = x \div WordBytes => a <= x)
      /\ x % WordBytes = 0 => (a \div WordBytes = x \div WordBytes => a >= x)
  BY <1>3, WordEnds
<1>5. Took => A < scenario.code BY AcceptedStep
<1>6. A \in Addrs => A % AddrMod = A BY WordAndLane
<1>7. Took => Loader.state = "wait_for_periph_data" BY DEF Took
<1>8. CASE Loader.state = "wait_for_periph_data" /\ Took
  <2>1. x = A
    <3>1. A \in Addrs BY <1>1, <1>3, <1>5, <1>8
    <3>2. x = A % AddrMod BY <1>1, <1>8 DEF AddrInv
    <3> QED BY <1>6, <3>1, <3>2
  <2>2. /\ Loader'.state \in {"send_periph_grant", "write_mem"} /\ Loader'.addr = x
    BY <1>2, <1>8 DEF LoaderMoves
  <2>3. /\ Behindhand(a)' <=> a \div WordBytes = x \div WordBytes /\ a <= x
        /\ Behindhand(a) <=> a \div WordBytes = x \div WordBytes /\ a < x
    BY <1>8, <2>2 DEF Behindhand
  <2> QED BY <1>3, <1>8, <2>1, <2>3
<1>9. CASE Loader.state = "wait_for_periph_data" /\ ~Took
  <2>1. Loader'.state = "wait_for_periph_data" /\ Loader'.addr = x
    BY <1>2, <1>9 DEF LoaderMoves
  <2>2. /\ Behindhand(a)' <=> a \div WordBytes = x \div WordBytes /\ a < x
        /\ Behindhand(a) <=> a \div WordBytes = x \div WordBytes /\ a < x
    BY <1>9, <2>1 DEF Behindhand
  <2>3. a < x => a < A
    <3>1. x = A % AddrMod BY <1>1, <1>9 DEF AddrInv
    <3>2. A \in Addrs \/ A = AddrMod BY <1>1, <1>3
    <3> QED BY <1>3, <1>6, <3>1, <3>2
  <2> QED BY <1>9, <2>2, <2>3
<1>10. CASE Loader.state = "send_periph_grant"
  <2>1. x + 1 = A /\ A % WordBytes # 0 BY <1>1, <1>3, <1>10 DEF AddrInv
  <2>2. /\ Loader'.state = "wait_for_periph_data" /\ Loader'.addr = x + 1
        /\ (x + 1) \div WordBytes = x \div WordBytes
    BY <1>1, <1>2, <1>10, <2>1 DEF LoaderMoves
  <2>3. /\ Behindhand(a)' <=> a \div WordBytes = x \div WordBytes /\ a < x + 1
        /\ Behindhand(a) <=> a \div WordBytes = x \div WordBytes /\ a <= x
    BY <1>10, <2>2 DEF Behindhand
  <2> QED BY <1>3, <1>7, <1>10, <2>1, <2>3
<1>11. CASE Loader.state = "write_mem"
  <2>1. x + 1 = A /\ A % WordBytes = 0 BY <1>1, <1>3, <1>11 DEF AddrInv
  <2>2. Loader'.state = "wait_for_wr_grant" BY <1>2, <1>11 DEF LoaderMoves
  <2>3. /\ ~Behindhand(a)'
        /\ Behindhand(a) <=> a \div WordBytes = x \div WordBytes /\ a <= x
    BY <1>11, <2>2 DEF Behindhand
  <2> QED BY <1>3, <1>4, <1>7, <1>11, <2>1, <2>3
<1>12. CASE Loader.state = "wait_for_wr_grant"
  <2>1. x = A % AddrMod /\ A % WordBytes = 0 BY <1>1, <1>12 DEF AddrInv
  <2>2. Loader'.state \in {"wait_for_wr_grant", "wait_for_periph_data", "idle"}
        /\ Loader'.addr = x
    BY <1>2, <1>12 DEF LoaderMoves
  <2>3. x % WordBytes = 0
    <3>1. CASE A \in Addrs BY <1>6, <2>1, <3>1
    <3>2. CASE A = AddrMod
      <4>1. x = 0 BY <1>3, <2>1, <3>2
      <4>2. 0 % WordBytes = 0 BY <1>3
      <4> QED BY <4>1, <4>2
    <3> QED BY <1>1, <1>3, <3>1, <3>2
  <2>4. /\ Behindhand(a)' => a \div WordBytes = x \div WordBytes /\ a < x
        /\ ~Behindhand(a)
    BY <1>12, <2>2 DEF Behindhand
  <2> QED BY <1>3, <1>4, <1>7, <1>12, <2>3, <2>4
<1>13. CASE Loader.state = "idle"
  <2>1. Loader'.state = "idle" BY <1>2, <1>13 DEF LoaderMoves
  <2> QED BY <1>7, <1>13, <2>1 DEF Behindhand
<1> QED BY <1>1, <1>8, <1>9, <1>10, <1>11, <1>12, <1>13 DEF AddrInv, LoadingStates

(* A word that is requested holds code in all its bytes.                   *)
LEMMA WholeWord ==
  ASSUME Loaders, Arriving, Loader.state = "write_mem"
  PROVE  Loader.tmp_data \in Word
<1>1. /\ PinInv /\ LoadingInv /\ scenario \in Scenarios BY DEF Arriving, Pinned
<1>2. Loader.tmp_data = [l \in Lanes |-> Loader.tmp_data[l]] BY <1>1 DEF PinInv
<1>3. /\ AddrInv /\ Loader.addr \in Addrs /\ Accepted \in 0 .. scenario.code
      /\ scenario.code \in Nat /\ scenario.code <= AddrMod
  BY LoaderAddr
<1>4. Loader.addr + 1 = Accepted /\ Accepted % WordBytes = 0 /\ Loader.addr \in Nat
      /\ WordBytes \in Nat \ {0} /\ WordBytes >= 2 /\ Addrs = 0 .. AddrMod - 1
      /\ AddrMod \in Nat
  BY <1>3, DmaAssumption DEF AddrInv, Loaders, Addrs
<1>5. Accepted <= host.sent /\ host.sent \in Nat
  BY <1>1, <1>3 DEF Accepted, PinInv
<1> SUFFICES ASSUME NEW l \in Lanes PROVE Loader.tmp_data[l] \in Bytes
  BY <1>2 DEF Word
<1> DEFINE q == Loader.addr \div WordBytes  a == WordBytes * q + l
<1>6. l \in 0 .. WordBytes - 1 BY DEF Lanes
<1>7. Loader.addr = WordBytes * q + (Loader.addr % WordBytes) /\ q \in Int
      /\ Loader.addr % WordBytes \in 0 .. WordBytes - 1
  BY <1>4, Division
<1>8. q \in Nat /\ WordBytes * q \in Nat
  BY Zenon, <1>4, Quotients
<1> HIDE DEF q
<1>9. a \in Nat /\ a \div WordBytes = q /\ a % WordBytes = l
  <2>1. (WordBytes * q + l) \div WordBytes = q BY <1>4, <1>6, <1>7, Quotient
  <2>2. (WordBytes * q + l) % WordBytes = l BY <1>4, <1>6, <1>7, WholeTurns
  <2> QED BY <1>6, <1>8, <2>1, <2>2
<1>10. a <= Loader.addr
  <2>1. (Loader.addr + 1) % WordBytes = 0 BY <1>4
  <2> QED BY <1>4, <1>9, <2>1, WordEnds DEF q
<1> HIDE DEF a
<1>11. a \in Addrs /\ a \in 0 .. host.sent - 1 BY <1>3, <1>4, <1>5, <1>9, <1>10
<1>12. Behindhand(a) BY <1>9, <1>10 DEF Behindhand, q
<1>13. Loader.tmp_data[a % WordBytes] = code[a] BY <1>1, <1>11, <1>12 DEF LoadingInv, ByteAt
<1>14. code[a] \in Addrs BY <1>1, <1>11 DEF PinInv
<1>15. Addrs \subseteq Bytes BY BusAssumption DEF Addrs
<1> QED BY <1>9, <1>13, <1>14, <1>15

LEMMA CodeByteKept ==
  ASSUME Loaders, Arriving, NEW w, LoadEdge(w), NEW a \in Addrs, boot.modep
  PROVE  ByteAt(a)'
<1> DEFINE A == Accepted
<1>1. /\ PinInv /\ LoadingInv /\ scenario \in Scenarios /\ Pinned
      /\ boot.mode = TRUE /\ DOMAIN imem = Addrs
  BY DEF Arriving, Pinned
<1>2. /\ AddrInv /\ Loader.addr \in Addrs /\ A \in 0 .. scenario.code
      /\ scenario.code \in Nat /\ scenario.code <= AddrMod
  BY LoaderAddr
<1>3. /\ Took => A + 1 = host.sent /\ p2d["uart"].data = code[A]
      /\ A' = IF Took THEN A + 1 ELSE A
      /\ \A b \in 0 .. host.sent - 1 : code'[b] = code[b]
  BY AcceptedStep
<1>4. /\ Behindhand(a) => Behindhand(a)' \/ Loader.state = "write_mem"
      /\ Behindhand(a)' => \/ Took /\ a = A
                           \/ Behindhand(a) /\ Loader.state # "write_mem"
                              /\ (Took => a < A)
      /\ Took /\ a = A => Behindhand(a)'
      /\ Behindhand(a) => a < A
      /\ Loader.state = "write_mem" /\ a \div WordBytes = Loader.addr \div WordBytes
           => Behindhand(a)
  BY BehindMoves
<1>5. ByteAt(a) BY <1>1 DEF LoadingInv
<1>6. /\ LoaderMoves(Loader, Loader')
      /\ Loader.state = "write_mem" => request'.cs /\ request'.acc = Request(0)
      /\ Loader.state # "write_mem" => (request'.cs => request' = request)
  BY Loading
<1>7. /\ boot'.cs = request.cs /\ boot'.addr = request.acc.word
      /\ boot'.data = request.acc.data
      /\ imem' = B!Loaded(imem, boot)
  BY <1>1, Pins
<1>8. /\ A <= host.sent /\ host.sent \in Nat /\ a \in Nat /\ AddrMod \in Nat
      /\ Addrs = 0 .. AddrMod - 1
  BY <1>1, <1>2, DmaAssumption DEF Accepted, PinInv, Addrs
<1>9. a < A => code'[a] = code[a] BY <1>2, <1>3, <1>8
<1>10. Took /\ a = A => code'[a] = code[a] BY <1>3, <1>8
<1>11. InPort(a)' <=> Asked(a) BY <1>7 DEF InPort, Asked
<1>12. Took => Loader.state = "wait_for_periph_data" BY DEF Took
<1>13. Behindhand(a)' => Loader'.tmp_data[a % WordBytes] = code'[a]
  <2>1. CASE Took /\ a = A
    <3>1. Loader.addr = A
      <4>1. A \in Addrs BY <2>1
      <4> QED BY <1>2, <1>12, <2>1, <4>1, WordAndLane DEF AddrInv
    <3>2. Lane(0) = A % WordBytes BY <3>1 DEF Lane, Loader
    <3>3. /\ Loader'.tmp_data = [Loader.tmp_data EXCEPT ![Lane(0)] = p2d["uart"].data]
          /\ DOMAIN Loader.tmp_data = Lanes
      BY <1>1, <1>6, <2>1 DEF LoaderMoves, PinInv
    <3>4. A % WordBytes \in Lanes BY <2>1, WordAndLane
    <3> QED BY <1>3, <1>10, <2>1, <3>2, <3>3, <3>4
  <2>2. ASSUME Behindhand(a), Loader.state # "write_mem", Took => a < A
        PROVE  Loader'.tmp_data[a % WordBytes] = code'[a]
    <3>1. Loader.tmp_data[a % WordBytes] = code[a] BY <1>5, <2>2 DEF ByteAt
    <3>2. code'[a] = code[a] BY <1>4, <1>9, <2>2
    <3>3. CASE Took
      <4>1. /\ Loader.addr = A
        <5>1. A \in Addrs BY <1>2, <1>3, <1>8, <2>2, <3>3, AcceptedStep
        <5> QED BY <1>2, <1>12, <3>3, <5>1, WordAndLane DEF AddrInv
      <4>2. a % WordBytes # Lane(0)
        <5>1. a \div WordBytes = A \div WordBytes /\ a # A
          BY <1>4, <1>8, <2>2, <3>3, <4>1, <1>2 DEF Behindhand
        <5>2. Lane(0) = A % WordBytes BY <4>1 DEF Lane, Loader
        <5> QED BY <1>2, <4>1, <5>1, <5>2, WordAndLane
      <4>3. Loader'.tmp_data = [Loader.tmp_data EXCEPT ![Lane(0)] = p2d["uart"].data]
            /\ DOMAIN Loader.tmp_data = Lanes /\ a % WordBytes \in Lanes
        BY <1>1, <1>6, <3>3, WordAndLane DEF LoaderMoves, PinInv
      <4> QED BY <3>1, <3>2, <4>2, <4>3
    <3>4. CASE ~Took
      <4>1. Loader'.tmp_data = Loader.tmp_data BY <1>6, <2>2, <3>4 DEF LoaderMoves
      <4> QED BY <3>1, <3>2, <4>1
    <3> QED BY <3>3, <3>4
  <2> QED BY <1>4, <2>1, <2>2
<1>14. Asked(a)' => a < A' /\ request'.acc.data[a % WordBytes] = code'[a]
  <2>1. ASSUME Loader.state = "write_mem", Asked(a)'
        PROVE  a < A' /\ request'.acc.data[a % WordBytes] = code'[a]
    <3>1. /\ request'.acc.word = Loader.addr \div WordBytes
          /\ request'.acc.data = Loader.tmp_data
      BY <1>6, <2>1 DEF Request, Loader
    <3>2. Behindhand(a) BY <1>4, <2>1, <3>1 DEF Asked
    <3>3. Loader.tmp_data[a % WordBytes] = code[a] /\ a < A BY <1>4, <1>5, <3>2 DEF ByteAt
    <3> QED BY <1>2, <1>3, <1>8, <1>9, <3>1, <3>3
  <2>2. ASSUME Loader.state # "write_mem", Asked(a)'
        PROVE  a < A' /\ request'.acc.data[a % WordBytes] = code'[a]
    <3>1. request' = request BY <1>6, <2>2 DEF Asked
    <3>2. Asked(a) BY <2>2, <3>1 DEF Asked
    <3>3. a < A /\ request.acc.data[a % WordBytes] = code[a] BY <1>5, <3>2 DEF ByteAt
    <3> QED BY <1>2, <1>3, <1>8, <1>9, <3>1, <3>3
  <2> QED BY <2>1, <2>2
<1>15. InPort(a)' => a < A' /\ boot'.data # PCp /\ boot'.data[a % WordBytes] = code'[a]
  <2> SUFFICES ASSUME Asked(a)
               PROVE  a < A' /\ boot'.data # PCp /\ boot'.data[a % WordBytes] = code'[a]
    BY <1>11
  <2>1. a < A /\ request.acc.data[a % WordBytes] = code[a] BY <1>5 DEF ByteAt
  <2>2. request.acc.data \in Word BY <1>1 DEF LoadingInv, Asked
  <2>3. request.acc.data # PCp BY <2>2, BusAssumption
  <2> QED BY <1>2, <1>3, <1>7, <1>8, <1>9, <2>1, <2>3
<1>16. a < A' /\ ~Behindhand(a)' /\ ~Asked(a)' /\ ~InPort(a)' => imem'[a] = code'[a]
  <2> SUFFICES ASSUME a < A', ~Behindhand(a)', ~Asked(a)', ~InPort(a)'
               PROVE  imem'[a] = code'[a]
    OBVIOUS
  <2>1. a < A BY <1>2, <1>3, <1>4, <1>8
  <2>2. imem'[a] = IF boot.cs /\ a \div WordBytes = boot.addr
                   THEN IF boot.data = PCp THEN PCp ELSE boot.data[a % WordBytes]
                   ELSE imem[a]
    BY <1>1, <1>7 DEF B!Loaded
  <2>3. CASE InPort(a)
    <3>1. boot.data # PCp /\ boot.data[a % WordBytes] = code[a]
      <4>1. A > 0 BY <1>2, <1>8, <2>1
      <4> QED BY <1>5, <2>3, <4>1 DEF ByteAt
    <3> QED BY <1>9, <2>1, <2>2, <2>3, <3>1 DEF InPort
  <2>4. CASE ~InPort(a)
    <3>1. ~Asked(a) BY <1>11
    <3>2. ~Behindhand(a)
      <4>1. ASSUME Loader.state = "write_mem", Behindhand(a) PROVE FALSE
        <5>1. Asked(a)' BY <1>6, <4>1 DEF Asked, Request, Behindhand, Loader
        <5> QED BY <5>1
      <4> QED BY <1>4, <4>1
    <3>3. imem[a] = code[a] BY <1>5, <2>1, <2>4, <3>1, <3>2 DEF ByteAt
    <3>4. imem'[a] = imem[a] BY <2>2, <2>4 DEF InPort
    <3> QED BY <1>9, <2>1, <3>3, <3>4
  <2> QED BY <2>3, <2>4
<1> QED BY <1>13, <1>14, <1>15, <1>16 DEF ByteAt

(* The phase in which code arrives goes on, or the host ends it.           *)
LEMMA LoadingKept ==
  ASSUME Loaders, Arriving, NEW w, LoadEdge(w)
  PROVE  LoadingInv'
<1>1. /\ PinInv /\ LoadingInv /\ scenario \in Scenarios /\ Pinned /\ boot.mode = TRUE
      /\ boot.modep \in BOOLEAN
  BY DEF Arriving, Pinned
<1>2. AddrInv' BY AddrKept
<1>3. /\ Waiting("uart")' => host'.sent > 0 /\ p2d'["uart"].data = code'[host'.sent - 1]
      /\ d2p'["uart"].grant <=> Loader'.state \in {"send_periph_grant", "write_mem"}
      /\ d2p'["uart"].grant => p2d'["uart"].en
  BY AcceptedStep
<1>4. boot'.modep = TRUE BY <1>1, Pins
<1>5. request'.cs => Loader'.state = "wait_for_wr_grant" /\ request'.acc.data \in Word
  <2>1. /\ LoaderMoves(Loader, Loader')
        /\ Loader.state = "write_mem" => request'.acc = Request(0)
        /\ Loader.state # "write_mem" =>
             (request'.cs => request' = request /\ ~Granted(0, dma_grant))
    BY Loading
  <2>2. CASE Loader.state = "write_mem"
    <3>1. Loader'.state = "wait_for_wr_grant" BY <2>1, <2>2 DEF LoaderMoves
    <3>2. request'.acc.data = Loader.tmp_data BY <2>1, <2>2 DEF Request, Loader
    <3> QED BY <2>2, <3>1, <3>2, WholeWord
  <2>3. ASSUME Loader.state # "write_mem", request'.cs
        PROVE  Loader'.state = "wait_for_wr_grant" /\ request'.acc.data \in Word
    <3>1. request' = request /\ ~Granted(0, dma_grant) BY <2>1, <2>3
    <3>2. request.cs BY <2>3, <3>1
    <3>3. Loader.state = "wait_for_wr_grant" /\ request.acc.data \in Word
      BY <1>1, <3>2 DEF LoadingInv
    <3>4. ~dma_grant BY <3>1, <3>3 DEF Granted, In, Loader
    <3> QED BY <2>1, <3>1, <3>3, <3>4 DEF LoaderMoves
  <2> QED BY <2>2, <2>3
<1>6. ASSUME NEW a \in Addrs PROVE ByteAt(a)'
  <2>1. CASE boot.modep BY <2>1, CodeByteKept
  <2>2. CASE ~boot.modep
    <3>1. /\ host.sent = 0 /\ ~p2d["uart"].en /\ ~request.cs
          /\ Loader.state = "wait_for_periph_data"
      BY <1>1, <2>2 DEF LoadingInv
    <3>2. ~Took BY <3>1 DEF Took
    <3>3. Accepted = 0 BY <3>1 DEF Accepted, Waiting
    <3>4. /\ Accepted' = 0 BY <3>2, <3>3, AcceptedStep
    <3>5. Loader'.state = "wait_for_periph_data" BY <3>1, <3>2, Loading DEF LoaderMoves
    <3>6. Loader'.addr = 0
      <4>1. Loader'.addr = 0 % AddrMod BY <1>2, <3>4, <3>5 DEF AddrInv
      <4> QED BY <4>1, LoadFacts, <1>1, WordAndLane
    <3>7. ~request'.cs
      <4>1. request' = request BY <3>1, Loading
      <4> QED BY <3>1, <4>1
    <3>8. a \in Nat BY DmaAssumption DEF Addrs
    <3>9. ~Behindhand(a)' /\ ~Asked(a)'
      BY <3>5, <3>6, <3>7, <3>8 DEF Behindhand, Asked
    <3> QED BY <3>4, <3>8, <3>9 DEF ByteAt
  <2> QED BY <1>1, <2>1, <2>2
<1>7. (\A a \in Addrs : ByteAt(a))' BY <1>6
<1> QED BY <1>2, <1>3, <1>4, <1>5, <1>7 DEF LoadingInv, AddrInv

LEMMA PinKept ==
  ASSUME Loaders, Arriving, NEW w, LoadEdge(w)
  PROVE  PinInv'
<1>1. /\ PinInv /\ scenario \in Scenarios /\ Pinned BY DEF Arriving, Pinned
<1>2. /\ 0 < scenario.code /\ pc = Len(Program) + 1
      /\ LoaderFields \subseteq DOMAIN Loader /\ Loader.timeout = 0
      /\ Loader.tmp_data = [l \in Lanes |-> Loader.tmp_data[l]]
      /\ next \in Nat
  BY <1>1 DEF PinInv
<1>3. /\ scenario' = scenario /\ pc' = pc /\ Program' = Program
      /\ next' = IF Arrives THEN next + 1 ELSE next
      /\ p2d'["uart"].en \in BOOLEAN
  <2>1. /\ pc' = pc /\ Program' = Program
        /\ next' = IF Arrives THEN next + 1 ELSE next
        /\ p2d'["uart"].en \in BOOLEAN
    BY <1>1, Pins
  <2> QED BY <2>1 DEF LoadEdge
<1>4. /\ host'.sent \in 0 .. scenario.code /\ \A a \in 0 .. host'.sent - 1 : code'[a] \in Addrs
      /\ d2p'["uart"].grant \in BOOLEAN
  BY AcceptedStep
<1>5. /\ LoaderMoves(Loader, Loader')
      /\ \A c \in Channels \ {0} : chan'[c].state = "idle"
      /\ request' = [cs |-> request'.cs, wr |-> request'.wr, acc |-> request'.acc]
      /\ request'.cs \in BOOLEAN
  BY Loading
<1>6. Loader'.size \in 0 .. SizeMod - 1 BY LastsKept
<1>7. LoaderFields \subseteq DOMAIN Loader' /\ Loader'.timeout = 0
  BY <1>2, <1>5 DEF LoaderMoves
<1>8. Loader'.tmp_data = [l \in Lanes |-> Loader'.tmp_data[l]]
  <2>1. Loader'.tmp_data = IF Took THEN [Loader.tmp_data EXCEPT ![Lane(0)] = p2d["uart"].data]
                           ELSE IF Loader.state = "write_mem" THEN EmptyWord
                           ELSE Loader.tmp_data
    BY <1>5 DEF LoaderMoves
  <2>2. CASE Took BY <1>2, <2>1, <2>2
  <2>3. CASE ~Took /\ Loader.state = "write_mem" BY <2>1, <2>3 DEF EmptyWord
  <2>4. CASE ~Took /\ Loader.state # "write_mem" BY <1>2, <2>1, <2>4
  <2> QED BY <2>2, <2>3, <2>4
<1>9. (\A c \in Channels \ {0} : In(c, "idle"))' BY <1>5 DEF In
<1>10. next' \in Nat
  <2>1. next \in Nat /\ (next' = next + 1 \/ next' = next) BY <1>2, <1>3
  <2> QED BY <2>1
<1>11. pc' = Len(Program') + 1 BY <1>2, <1>3
<1>12. 0 < scenario'.code /\ host'.sent \in 0 .. scenario'.code BY <1>2, <1>3, <1>4
<1>13. /\ p2d'["uart"].en \in BOOLEAN /\ d2p'["uart"].grant \in BOOLEAN
       /\ request'.cs \in BOOLEAN
       /\ request' = [cs |-> request'.cs, wr |-> request'.wr, acc |-> request'.acc]
  BY <1>3, <1>4, <1>5
<1>14. \A a \in 0 .. host'.sent - 1 : code'[a] \in Addrs BY <1>4
<1> QED BY <1>6, <1>7, <1>8, <1>9, <1>10, <1>11, <1>12, <1>13, <1>14 DEF PinInv

(* The last byte settles in four edges: it is taken, its word requested,   *)
(* the request is on the port of instruction memory, the word is in there. *)
LEMMA Settles ==
  ASSUME Loaders, Arriving, NEW w, LoadEdge(w), CodeSent, boot.modep
  PROVE  /\ ~Waiting("uart")'
         /\ host.quiet >= 1 => Loader'.state \notin {"send_periph_grant", "write_mem"}
         /\ host.quiet >= 2 => \A a \in 0 .. scenario.code - 1 :
                                 InPort(a)' \/ imem'[a] = code'[a]
         /\ host.quiet >= 3 => \A a \in 0 .. scenario.code - 1 : imem'[a] = code'[a]
<1> DEFINE A == Accepted  K == scenario.code
<1>1. /\ PinInv /\ LoadingInv /\ scenario \in Scenarios /\ Pinned /\ boot.mode = TRUE
      /\ QuietInv /\ DOMAIN imem = Addrs
  BY DEF Arriving, Pinned
<1>2. /\ AddrInv /\ Loader.addr \in Addrs /\ A \in 0 .. K /\ K \in Nat /\ K <= AddrMod
  BY LoaderAddr
<1>3. /\ Took => Waiting("uart")
      /\ Loader'.state \in {"send_periph_grant", "write_mem"} <=> Took
      /\ d2p'["uart"].grant <=> Loader'.state \in {"send_periph_grant", "write_mem"}
      /\ Arrives => ~Waiting("uart") /\ A < K
      /\ \A a \in 0 .. host.sent - 1 : code'[a] = code[a]
      /\ A' = IF Took THEN A + 1 ELSE A
  BY AcceptedStep
<1>4. /\ host.sent = K /\ 0 < K /\ K % WordBytes = 0 /\ WordBytes \in Nat /\ WordBytes >= 2
      /\ host.quiet \in Nat /\ AddrMod \in Nat \ {0} /\ Addrs = 0 .. AddrMod - 1
  BY <1>1, LoadFacts DEF CodeSent, PinInv, QuietInv
<1>5. A = IF Waiting("uart") THEN K - 1 ELSE K BY <1>4 DEF Accepted
<1>6. p2d["uart"].en \in BOOLEAN /\ d2p["uart"].grant \in BOOLEAN BY <1>1 DEF PinInv
<1>7. Waiting("uart") => Took
  <2> SUFFICES ASSUME Waiting("uart") PROVE Took OBVIOUS
  <2>1. A = K - 1 BY <1>5
  <2>2. A % WordBytes # 0
    <3> DEFINE q == K \div WordBytes
    <3>0. K \in Nat /\ WordBytes \in Nat \ {0} BY <1>2, <1>4
    <3>1. K = WordBytes * q + (K % WordBytes) /\ q \in Int
      BY Zenon, <3>0, Division
    <3> HIDE DEF q
    <3>2. WordBytes * (q - 1) = WordBytes * q - WordBytes /\ WordBytes * q \in Int
      BY <3>0, <3>1
    <3>3. A = WordBytes * (q - 1) + (WordBytes - 1) /\ q - 1 \in Int
          /\ WordBytes - 1 \in 0 .. WordBytes - 1
      <4>1. K = WordBytes * q BY <1>4, <3>0, <3>1
      <4> QED BY <1>4, <2>1, <3>0, <3>1, <3>2, <4>1
    <3>4. (WordBytes * (q - 1) + (WordBytes - 1)) % WordBytes = WordBytes - 1
      <4>1. WordBytes - 1 \in 0 .. WordBytes - 1 /\ WordBytes \in Nat \ {0} /\ q - 1 \in Int
        BY <1>4, <3>3
      <4> QED BY <4>1, WholeTurns
    <3> QED BY <1>4, <3>3, <3>4
  <2>3. Loader.state \notin {"write_mem", "wait_for_wr_grant"} BY <1>2, <2>2 DEF AddrInv
  <2>4. Loader.state # "idle" BY <1>2, <1>4, <2>1 DEF AddrInv
  <2>5. Loader.state # "send_periph_grant" BY <1>1 DEF LoadingInv, Waiting
  <2>6. Loader.state = "wait_for_periph_data"
    BY <1>2, <2>3, <2>4, <2>5 DEF AddrInv, LoadingStates
  <2> QED BY <2>6 DEF Took, Waiting
<1>8. ~Arrives BY <1>2, <1>3, <1>4, <1>5
<1>9. ~Waiting("uart")'
  <2>1. p2d'["uart"].en <=> Arrives \/ (p2d["uart"].en /\ ~d2p["uart"].grant /\ ~Drops("uart"))
    BY <1>1, Pins
  <2>2. p2d'["uart"].en => Waiting("uart") BY <1>8, <2>1 DEF Waiting
  <2>3. p2d'["uart"].en => d2p'["uart"].grant BY <1>3, <1>7, <2>2
  <2> QED BY <2>3 DEF Waiting
<1>10. host.quiet >= 1 => ~Took BY <1>1, <1>3 DEF QuietInv
<1>11. host.quiet >= 1 => A = K BY <1>1, <1>5 DEF QuietInv
<1>12. \A a \in 0 .. K - 1 : a \in Addrs /\ code'[a] = code[a]
  BY <1>2, <1>3, <1>4
<1>13. ASSUME host.quiet >= 2, NEW a \in 0 .. K - 1
       PROVE  InPort(a)' \/ imem'[a] = code'[a]
  <2>1. A = K /\ ~Took BY <1>4, <1>10, <1>11, <1>13
  <2>2. Loader'.state \notin {"send_periph_grant", "write_mem"} BY <1>3, <2>1
  <2>3. a \in Addrs BY <1>12
  <2>4. Loader.state \notin {"send_periph_grant", "write_mem"} BY <1>1, <1>13 DEF QuietInv
  <2>5. ~Behindhand(a)
    <3> SUFFICES ASSUME Behindhand(a) PROVE FALSE OBVIOUS
    <3>1. /\ Loader.state = "wait_for_periph_data" /\ a < Loader.addr
          /\ a \div WordBytes = Loader.addr \div WordBytes
      BY <2>4 DEF Behindhand
    <3>2. Loader.addr = K % AddrMod BY <1>2, <2>1, <2>4 DEF AddrInv
    <3>3. Loader.addr % WordBytes = 0
      <4>1. CASE K \in Addrs BY <1>4, <3>2, <4>1, WordAndLane
      <4>2. CASE K = AddrMod
        <5>1. Loader.addr = 0 BY <1>4, <3>2, <4>2
        <5>2. 0 % WordBytes = 0 BY <1>4
        <5> QED BY <5>1, <5>2
      <4> QED BY <1>2, <1>4, <4>1, <4>2
    <3>4. a \in Nat /\ Loader.addr \in Nat BY <1>2, <1>4
    <3>5. a >= Loader.addr BY <1>4, <3>1, <3>3, <3>4, WordEnds
    <3> QED BY <3>1, <3>4, <3>5
  <2>6. ByteAt(a) BY <1>1, <2>3 DEF LoadingInv
  <2>7. InPort(a)' <=> Asked(a) BY <1>1, Pins DEF InPort, Asked
  <2>8. imem'[a] = IF boot.cs /\ a \div WordBytes = boot.addr
                   THEN IF boot.data = PCp THEN PCp ELSE boot.data[a % WordBytes]
                   ELSE imem[a]
    <3>1. imem' = B!Loaded(imem, boot) BY <1>1, Pins
    <3> QED BY <1>1, <2>3, <3>1 DEF B!Loaded
  <2>9. a < A BY <1>2, <1>4, <2>1
  <2>10. CASE InPort(a)
    <3>1. boot.data # PCp /\ boot.data[a % WordBytes] = code[a]
      <4>1. A > 0 BY <1>4, <2>1
      <4> QED BY <2>6, <2>10, <4>1 DEF ByteAt
    <3> QED BY <1>12, <2>8, <2>10, <3>1 DEF InPort
  <2>11. CASE ~InPort(a) /\ ~Asked(a)
    <3>1. imem[a] = code[a] BY <2>5, <2>6, <2>9, <2>11 DEF ByteAt
    <3> QED BY <1>12, <2>8, <2>11, <3>1 DEF InPort
  <2> QED BY <2>7, <2>10, <2>11
<1>14. ASSUME host.quiet >= 3, NEW a \in 0 .. K - 1
       PROVE  imem'[a] = code'[a]
  <2>1. A = K /\ a \in Addrs BY <1>4, <1>11, <1>12, <1>14
  <2>2. ByteAt(a) BY <1>1, <2>1 DEF LoadingInv
  <2>3. InPort(a) \/ imem[a] = code[a] BY <1>1, <1>14 DEF QuietInv
  <2>4. imem'[a] = IF boot.cs /\ a \div WordBytes = boot.addr
                   THEN IF boot.data = PCp THEN PCp ELSE boot.data[a % WordBytes]
                   ELSE imem[a]
    <3>1. imem' = B!Loaded(imem, boot) BY <1>1, Pins
    <3> QED BY <1>1, <2>1, <3>1 DEF B!Loaded
  <2>5. InPort(a) => boot.data # PCp /\ boot.data[a % WordBytes] = code[a]
    <3>1. A > 0 BY <1>4, <2>1
    <3> QED BY <2>2, <3>1 DEF ByteAt
  <2> QED BY <1>12, <2>3, <2>4, <2>5 DEF InPort
<1> QED BY <1>3, <1>4, <1>9, <1>10, <1>13, <1>14

LEMMA QuietKept ==
  ASSUME Loaders, Arriving, NEW w, LoadEdge(w)
  PROVE  QuietInv'
<1>1. /\ PinInv /\ LoadingInv /\ scenario \in Scenarios /\ Pinned /\ QuietInv
      /\ host.pin = TRUE /\ boot.modep \in BOOLEAN
  BY DEF Arriving, Pinned
<1>2. /\ host'.quiet = IF CodeSent /\ ~Lowers THEN host.quiet + 1 ELSE 0
      /\ host'.sent = IF Arrives THEN host.sent + 1 ELSE host.sent
      /\ Arrives => host.sent < scenario.code
  BY <1>1, Pins
<1>3. scenario' = scenario BY DEF LoadEdge
<1>4. host.quiet \in Nat /\ host.sent \in Nat /\ scenario.code \in Nat /\ 0 < scenario.code
  BY <1>1, LoadFacts DEF QuietInv, PinInv
<1>5. CASE CodeSent /\ ~Lowers
  <2>1. host.sent = scenario.code BY <1>5 DEF CodeSent
  <2>2. host'.sent = scenario.code /\ host'.quiet = host.quiet + 1 BY <1>2, <1>4, <1>5, <2>1
  <2>3. boot.modep BY <1>1, <1>4, <2>1 DEF LoadingInv
  <2>4. /\ ~Waiting("uart")'
        /\ host.quiet >= 1 => Loader'.state \notin {"send_periph_grant", "write_mem"}
        /\ host.quiet >= 2 => \A a \in 0 .. scenario.code - 1 :
                                InPort(a)' \/ imem'[a] = code'[a]
        /\ host.quiet >= 3 => \A a \in 0 .. scenario.code - 1 : imem'[a] = code'[a]
    BY <1>5, <2>3, Settles
  <2>5. host'.quiet \in Nat /\ host'.sent = scenario'.code BY <1>3, <1>4, <2>2
  <2>6. host'.quiet >= 2 => Loader'.state \notin {"send_periph_grant", "write_mem"}
    BY <1>4, <2>2, <2>4
  <2>7. host'.quiet >= 3 => \A a \in 0 .. scenario'.code - 1 : InPort(a)' \/ imem'[a] = code'[a]
    BY <1>3, <1>4, <2>2, <2>4
  <2>8. host'.quiet >= 4 => \A a \in 0 .. scenario'.code - 1 : imem'[a] = code'[a]
    BY <1>3, <1>4, <2>2, <2>4
  <2> QED BY <2>4, <2>5, <2>6, <2>7, <2>8 DEF QuietInv
<1>6. CASE ~(CodeSent /\ ~Lowers)
  <2>1. host'.quiet = 0 BY <1>2, <1>6
  <2> QED BY <2>1 DEF QuietInv
<1> QED BY <1>5, <1>6

LEMMA CodeSettled ==
  ASSUME Loaders, Arriving, NEW w, LoadEdge(w), Lowers
  PROVE  host'.pin = FALSE /\ host'.sent # 0 /\ LoadedInv'
<1>1. /\ PinInv /\ LoadingInv /\ scenario \in Scenarios /\ Pinned /\ QuietInv
      /\ boot.modep \in BOOLEAN
  BY DEF Arriving, Pinned
<1>2. /\ host.sent = scenario.code /\ host.quiet = Settle /\ CodeSent
  BY DEF Lowers, CodeSent
<1>3. /\ scenario.code \in Nat /\ 0 < scenario.code /\ scenario.code <= AddrMod
      /\ Settle \in Nat /\ Settle >= 4 /\ AddrMod \in Nat /\ Addrs = 0 .. AddrMod - 1
  BY <1>1, LoadFacts DEF PinInv, Loaders
<1>4. boot.modep BY <1>1, <1>2, <1>3 DEF LoadingInv
<1>5. \A a \in 0 .. scenario.code - 1 : imem'[a] = code'[a]
  BY <1>2, <1>3, <1>4, Settles
<1>6. /\ host'.pin = FALSE /\ host'.sent >= host.sent /\ host'.sent \in 0 .. scenario.code
  BY <1>1, Pins, AcceptedStep
<1>7. scenario' = scenario BY DEF LoadEdge
<1>8. \A a \in 0 .. scenario.code - 1 :
        InPort(a)' => boot'.data # PCp /\ boot'.data[a % WordBytes] = code'[a]
  <2> SUFFICES ASSUME NEW a \in 0 .. scenario.code - 1, InPort(a)'
               PROVE  boot'.data # PCp /\ boot'.data[a % WordBytes] = code'[a]
    OBVIOUS
  <2>1. a \in Addrs BY <1>3
  <2>2. ByteAt(a)' BY <1>4, <2>1, CodeByteKept
  <2>3. Accepted' > 0
    <3>1. Accepted = scenario.code BY <1>1, <1>2, <1>3 DEF Accepted, QuietInv
    <3>2. ~Took BY <1>1, <1>2, <1>3, AcceptedStep DEF QuietInv
    <3> QED BY <1>3, <3>1, <3>2, AcceptedStep
  <2> QED BY <2>2, <2>3 DEF ByteAt
<1>9. host'.sent # 0 /\ host'.sent = scenario'.code BY <1>2, <1>3, <1>6, <1>7
<1> QED BY <1>5, <1>6, <1>7, <1>8, <1>9 DEF LoadedInv

(* The edge in which boot mode begins: the DMA is prepared, the UART drops *)
(* what it holds.                                                          *)
Entering == Pinned /\ boot_mode = FALSE /\ boot.mode = FALSE /\ EnterInv

LEMMA Enters ==
  ASSUME Loaders, Entering, NEW w, LoadEdge(w)
  PROVE  /\ PinInv' /\ QuietInv' /\ LoadingInv' /\ host'.pin = TRUE
         /\ boot_mode' = TRUE /\ boot'.mode = TRUE /\ boot'.modep \in BOOLEAN
         /\ DOMAIN code' = Addrs
<1>1. /\ PinInv /\ scenario \in Scenarios /\ Pinned /\ QuietInv /\ EnterInv
      /\ host.pin = TRUE /\ boot_mode = FALSE /\ boot.mode = FALSE /\ DOMAIN code = Addrs
  BY DEF Entering, Pinned
<1>2. /\ 0 \in Channels /\ scenario.code \in Nat /\ 0 < scenario.code
      /\ AddrMod \in Nat \ {0} /\ WordBytes \in Nat /\ WordBytes >= 2 /\ Addrs = 0 .. AddrMod - 1
  BY <1>1, LoadFacts DEF PinInv
<1>3. /\ LoaderFields \subseteq DOMAIN Loader /\ Loader.timeout = 0
      /\ Loader.tmp_data = [l \in Lanes |-> Loader.tmp_data[l]]
      /\ Loader.size \in 0 .. SizeMod - 1 /\ next \in Nat
      /\ request.cs \in BOOLEAN
      /\ request = [cs |-> request.cs, wr |-> request.wr, acc |-> request.acc]
      /\ \A c \in Channels \ {0} : In(c, "idle")
      /\ d2p["uart"].grant \in BOOLEAN /\ pc = Len(Program) + 1
  BY <1>1 DEF PinInv
<1>4. /\ host.sent = 0 /\ Loader.state = "idle" /\ ~request.cs /\ ~d2p["uart"].grant
      /\ scenario.code <= IF Loader.size = 0 THEN SizeMod ELSE Loader.size
  BY <1>1 DEF EnterInv, In, Loader
<1>5. /\ pc' = pc /\ Program' = Program
      /\ next' = IF Arrives THEN next + 1 ELSE next
      /\ Arrives => ~Drops("uart")
      /\ p2d'["uart"].en <=>
              Arrives \/ (p2d["uart"].en /\ ~d2p["uart"].grant /\ ~Drops("uart"))
      /\ p2d'["uart"].en \in BOOLEAN
      /\ host'.pin <=> ~Lowers
      /\ host'.pin \in BOOLEAN
      /\ host'.sent = IF Arrives THEN host.sent + 1 ELSE host.sent
      /\ host'.quiet = IF CodeSent /\ ~Lowers THEN host.quiet + 1 ELSE 0
      /\ code' = IF Arrives THEN [code EXCEPT ![host.sent] = next % AddrMod] ELSE code
  BY <1>1, Pins
<1>6. /\ boot_mode' = TRUE
      /\ \A c \in Channels : chan'[c] =
              Fsm(c, Booted(c, TRUE, chan[c]), p2d, dma_grant, RamAnswer)
      /\ request' = RequestNext(dma_grant, host.pin)
      /\ d2p'["uart"] = D2pNext("uart", p2d, dma_grant)
      /\ boot'.mode = TRUE /\ boot'.modep = boot.mode
  BY <1>1, Pins
<1>7. scenario' = scenario BY DEF LoadEdge
<1>8. Drops("uart") BY <1>1 DEF Drops, B!Begins
<1>9. ~Arrives /\ p2d'["uart"].en = FALSE /\ next' = next /\ host'.sent = 0 /\ code' = code
  BY <1>4, <1>5, <1>8
<1>10. host'.pin = TRUE /\ host'.quiet = 0
  BY <1>2, <1>4, <1>5 DEF Lowers, CodeSent
<1>11. request' = request /\ d2p'["uart"].grant = FALSE
  <2>1. Loader.state \in LoadingStates \ {"write_mem"} /\ Loader.state # "wait_for_wr_grant"
    BY <1>4 DEF LoadingStates
  <2>2. request' = request BY <1>1, <1>2, <1>3, <1>6, <2>1, LoaderRequest DEF BootExit
  <2>3. d2p'["uart"].grant = d2p["uart"].grant
    BY <1>1, <1>2, <1>3, <1>4, <1>6, <2>1, LoaderHandshake
  <2> QED BY <1>3, <1>4, <2>2, <2>3
<1>12. BootEntry(TRUE) /\ ~BootExit(TRUE) BY <1>1 DEF BootEntry, BootExit
<1>13. Loader' = [Loader EXCEPT !.source = "uart", !.addr = 0, !.auto_inc = 1,
                                !.span = WordBytes, !.state = "wait_for_periph_data"]
  <2>1. Booted(0, TRUE, chan[0]) =
          [Loader EXCEPT !.source = "uart", !.addr = 0, !.auto_inc = 1,
                         !.span = WordBytes, !.state = "wait_for_periph_data"]
    BY <1>12 DEF Booted, Loader
  <2>2. In(0, "idle") BY <1>4 DEF In, Loader
  <2>3. Loader' = Fsm(0, Booted(0, TRUE, chan[0]), p2d, dma_grant, RamAnswer)
    BY <1>2, <1>6 DEF Loader
  <2>4. Fsm(0, Booted(0, TRUE, chan[0]), p2d, dma_grant, RamAnswer) = Booted(0, TRUE, chan[0])
    BY <2>2 DEF Fsm, In
  <2> QED BY <2>1, <2>3, <2>4
<1>14. /\ Loader'.source = "uart" /\ Loader'.addr = 0 /\ Loader'.auto_inc = 1
       /\ Loader'.span = WordBytes /\ Loader'.state = "wait_for_periph_data"
       /\ Loader'.size = Loader.size /\ Loader'.timeout = 0
       /\ Loader'.tmp_data = Loader.tmp_data /\ LoaderFields \subseteq DOMAIN Loader'
  <2>1. {"state", "source", "timeout", "addr", "size", "auto_inc", "span",
          "tmp_data"} \subseteq DOMAIN Loader
    BY <1>3 DEF LoaderFields, Fields, Counters
  <2>2. DOMAIN Loader' = DOMAIN Loader BY <1>13
  <2> QED BY <1>3, <1>13, <2>1, <2>2
<1>15. ASSUME NEW c \in Channels \ {0} PROVE chan'[c].state = "idle"
  <2>1. In(c, "idle") /\ c \in Channels /\ c # 0 BY <1>3
  <2>2. Booted(c, TRUE, chan[c]) = [chan[c] EXCEPT !.state = "idle"]
    BY <1>12, <2>1 DEF Booted
  <2>3. chan'[c] = Fsm(c, Booted(c, TRUE, chan[c]), p2d, dma_grant, RamAnswer)
    BY <1>6, <2>1
  <2>4. chan'[c] = [chan[c] EXCEPT !.state = "idle"]
    BY <2>1, <2>2, <2>3 DEF Fsm, In
  <2> QED BY <2>1, <2>4 DEF In
<1>16. Accepted' = 0 /\ ~Waiting("uart")' BY <1>9 DEF Accepted, Waiting
<1>17. PinInv'
  <2>1. (\A c \in Channels \ {0} : In(c, "idle"))' BY <1>15 DEF In
  <2>2. pc' = Len(Program') + 1 BY <1>3, <1>5
  <2>3. 0 < scenario'.code /\ host'.sent \in 0 .. scenario'.code BY <1>2, <1>7, <1>9
  <2>4. /\ p2d'["uart"].en \in BOOLEAN /\ d2p'["uart"].grant \in BOOLEAN
        /\ request'.cs \in BOOLEAN
        /\ request' = [cs |-> request'.cs, wr |-> request'.wr, acc |-> request'.acc]
    BY <1>3, <1>9, <1>11
  <2>5. \A a \in 0 .. host'.sent - 1 : code'[a] \in Addrs BY <1>9
  <2>6. /\ Loader'.timeout = 0 /\ LoaderFields \subseteq DOMAIN Loader'
        /\ Loader'.tmp_data = [l \in Lanes |-> Loader'.tmp_data[l]]
        /\ Loader'.size \in 0 .. SizeMod - 1 /\ next' \in Nat
    BY <1>3, <1>9, <1>14
  <2> QED BY <2>1, <2>2, <2>3, <2>4, <2>5, <2>6 DEF PinInv
<1>18. QuietInv' BY <1>10 DEF QuietInv
<1>19. LoadingInv'
  <2>1. Lasts' BY <1>2, <1>4, <1>7, <1>14, <1>16 DEF Lasts
  <2>2. ~request'.cs /\ ~d2p'["uart"].grant BY <1>4, <1>11
  <2>3. Loader'.addr = Accepted' % AddrMod BY <1>2, <1>14, <1>16
  <2>4. ASSUME NEW a \in Addrs PROVE ByteAt(a)'
    <3>1. a \in Nat BY <1>2
    <3>2. ~Behindhand(a)' /\ ~Asked(a)' BY <1>14, <2>2, <3>1 DEF Behindhand, Asked
    <3> QED BY <1>16, <3>1, <3>2 DEF ByteAt
  <2>5. (\A a \in Addrs : ByteAt(a))' BY <2>4
  <2> QED BY <1>9, <1>14, <1>16, <2>1, <2>2, <2>3, <2>5 DEF LoadingInv, LoadingStates
<1> QED BY <1>1, <1>6, <1>9, <1>10, <1>17, <1>18, <1>19

-----------------------------------------------------------------------------
(* Before the pin rises: the driver at work.                               *)
LEMMA WrittenShape ==
  ASSUME NEW c, NEW w
  PROVE  /\ DOMAIN Written(c, w) = DOMAIN chan[c]
         /\ "tmp_data" \in DOMAIN chan[c] => Written(c, w).tmp_data = chan[c].tmp_data
<1> DEFINE k == chan[c]
<1>1. CASE c # cur_channel \/ w.reg \notin {"addr", "size", "timeout", "config"}
  BY <1>1 DEF Written
<1>2. CASE c = cur_channel /\ w.reg = "addr"
  <2>1. Written(c, w) = [k EXCEPT !.addr = w.val] BY <1>2 DEF Written
  <2> QED BY <2>1
<1>3. CASE c = cur_channel /\ w.reg = "size"
  <2>1. Written(c, w) = [k EXCEPT !.size = w.val] BY <1>3 DEF Written
  <2> QED BY <2>1
<1>4. CASE c = cur_channel /\ w.reg = "timeout"
  <2>1. Written(c, w) = [k EXCEPT !.timeout = w.val] BY <1>4 DEF Written
  <2> QED BY <2>1
<1>5. CASE c = cur_channel /\ w.reg = "config"
  <2>1. Written(c, w) = [k EXCEPT !.source = w.val.source, !.auto_inc = w.val.auto_inc,
               !.span = w.val.span, !.priority = w.val.priority,
               !.wait_time = w.val.priority,
               !.state = IF w.val.to_mem THEN "wait_for_periph_data" ELSE "read_mem"]
    BY <1>5 DEF Written
  <2> QED BY <2>1
<1> QED BY <1>1, <1>2, <1>3, <1>4, <1>5

LEMMA LoadersMeasure ==
  ASSUME Loaders
  PROVE  Measurers /\ Drivers
BY DEF Loaders, Loads, Measurers, Measured, Drivers

(* Channel 0's word buffer keeps its lanes.                                *)
LEMMA LanesKept ==
  ASSUME Loaders, DmaInv, SizeInv, NEW w, Edge(w), LoaderFields \subseteq DOMAIN Loader,
         Loader.tmp_data = [l \in Lanes |-> Loader.tmp_data[l]]
  PROVE  /\ LoaderFields \subseteq DOMAIN Loader'
         /\ Loader'.tmp_data = [l \in Lanes |-> Loader'.tmp_data[l]]
<1>1. /\ Sets(w) \/ Moves(w)
      /\ ChanInv /\ 0 \in Channels /\ cur_channel \in Channels
  BY SizeCases, LoadersMeasure, DmaAssumption DEF Channels
<1>2. {"tmp_data", "tmp_we", "addr", "auto_inc", "span"} \subseteq DOMAIN Loader
  BY DEF LoaderFields, Counters
<1>3. Loader' = chan'[0] /\ Loader = chan[0] BY DEF Loader
<1>4. CASE Sets(w)
  <2>1. Loader' = Written(0, w) BY <1>1, <1>3, <1>4 DEF Sets
  <2> QED BY <1>2, <1>3, <2>1, WrittenShape
<1>5. CASE Moves(w) /\ cur_channel # 0
  <2>1. Loader' = Loader BY <1>1, <1>3, <1>5 DEF Moves
  <2> QED BY <2>1
<1>6. CASE Moves(w) /\ cur_channel = 0
  <2>1. Loader' = Fsm(0, Loader, p2d, dma_grant, RamAnswer) BY <1>3, <1>6 DEF Moves
  <2>2. DataFields \subseteq DOMAIN Loader BY <1>2 DEF DataFields
  <2>3. FsmData(0, Loader, Loader', RamAnswer) BY <1>1, <1>3, <2>1, <2>2, DataTransition
  <2>4. Fields \subseteq DOMAIN Loader' BY <1>1, <1>3, <2>1, FieldsKept
  <2>5. Counters \subseteq DOMAIN Loader'
    <3>1. CountInv BY SizeCases, LoadersMeasure
    <3>2. FsmCounts(0, Loader, Loader') BY <1>1, <1>3, <2>1, <3>1, CountTransition
    <3> QED BY <3>2 DEF FsmCounts
  <2>6. LoaderFields \subseteq DOMAIN Loader'
    BY <2>3, <2>4, <2>5 DEF LoaderFields, FsmData, DataFields
  <2>7. RamAnswer.data = [l \in Lanes |-> RamAnswer.data[l]]
    BY DEF RamAnswer, WordAt, EmptyWord
  <2>8. EmptyWord = [l \in Lanes |-> EmptyWord[l]] BY DEF EmptyWord
  <2>9. \/ Loader'.tmp_data = [Loader.tmp_data EXCEPT ![Lane(0)] = p2d[Loader.source].data]
        \/ Loader'.tmp_data = EmptyWord
        \/ Loader'.tmp_data = RamAnswer.data
        \/ Loader'.tmp_data = Loader.tmp_data
    BY <2>3 DEF FsmData
  <2>10. Loader'.tmp_data = [l \in Lanes |-> Loader'.tmp_data[l]]
    <3>1. CASE Loader'.tmp_data =
                 [Loader.tmp_data EXCEPT ![Lane(0)] = p2d[Loader.source].data]
      BY <3>1
    <3>2. CASE Loader'.tmp_data = EmptyWord BY <2>8, <3>2
    <3>3. CASE Loader'.tmp_data = RamAnswer.data BY <2>7, <3>3
    <3>4. CASE Loader'.tmp_data = Loader.tmp_data BY <3>4
    <3> QED BY <2>9, <3>1, <3>2, <3>3, <3>4
  <2> QED BY <2>6, <2>10
<1> QED BY <1>1, <1>4, <1>5, <1>6

(* The size it is left with is the one outlined.                           *)
LEMMA LeftSize ==
  ASSUME Loaders, DmaInv, SizeInv, NEW w, Edge(w), scenario.code > 0, Loader.timeout = 0,
         cur_channel # 0 \/ State = "idle" => Loader.size = Plan[pc][0].size
  PROVE  /\ Loader'.timeout = 0
         /\ cur_channel' # 0 \/ State' = "idle" => Loader'.size = Plan'[pc'][0].size
<1> DEFINE a == cur_channel  p == Program  cur == CurAt(Program)
<1>1. /\ Measurers /\ Drivers /\ CountInv /\ WorkInv /\ a \in Channels /\ State \in States
      /\ Len(p) \in Nat /\ pc \in 1 .. Len(p) + 1 /\ Program' = p /\ Plan' = Plan
      /\ IsPlan(p, Plan) /\ Tracks(p, cur) /\ cur \in Selections(p) /\ a = cur[pc]
      /\ Sets(w) \/ Moves(w)
      /\ DriverInv
  BY SizeCases, LoadersMeasure
<1>2. 0 \in Channels BY DmaAssumption DEF Channels
<1>3. Loader = chan[0] /\ Loader' = chan'[0] BY DEF Loader
<1>4. CASE Sets(w)
  <2>1. /\ pc \in 1 .. Len(p) /\ w = p[pc] /\ pc' = pc + 1 /\ State = "idle"
        /\ a' = IF w.reg = "channel" THEN w.val ELSE a
        /\ WrittenCounts(0, w, Loader') /\ WrittenCounts(a, w, chan'[a])
    BY <1>1, <1>2, <1>3, <1>4, SetCounts
  <2>2. /\ a # 0 => Plan[pc + 1][0] = Plan[pc][0]
        /\ w.reg = "addr" => Plan[pc + 1][a].size = Plan[pc][a].size
        /\ w.reg = "size" => Plan[pc + 1][a].size = w.val
        /\ w.reg \notin {"addr", "size", "config"} => Plan[pc + 1] = Plan[pc]
    BY <1>1, <1>2, <2>1, PlanStep
  <2>3. w.reg = "timeout" => a # 0
    <3>1. Loads(scenario) BY <1>1 DEF Loaders, DriverInv
    <3> QED BY <1>1, <2>1, <3>1 DEF Loads, Uploads, Program
  <2>4. Loader'.timeout = 0 BY <1>3, <2>1, <2>3 DEF WrittenCounts
  <2>5. a' # 0 \/ State' = "idle" => ~(w.reg = "config" /\ a = 0)
    <3> SUFFICES ASSUME w.reg = "config", a = 0 PROVE a' = 0 /\ State' # "idle" OBVIOUS
    <3>1. a' = a /\ State' = chan'[a].state BY <2>1 DEF State
    <3> QED BY <2>1, <3>1 DEF WrittenCounts
  <2>6. Loader'.size = IF a = 0 /\ w.reg = "size" THEN w.val ELSE Loader.size
    BY <1>3, <2>1 DEF WrittenCounts
  <2>7. a' # 0 \/ State' = "idle" => Loader'.size = Plan'[pc'][0].size
    BY <1>1, <2>1, <2>2, <2>5, <2>6
  <2> QED BY <2>4, <2>7
<1>5. CASE Moves(w)
  <2>1. /\ a' = a /\ State = chan[a].state /\ State' = chan'[a].state /\ Me = chan[a]
        /\ FsmCounts(a, chan[a], chan'[a]) /\ FsmMoves(a, chan[a], chan'[a])
        /\ \A c \in Channels : c # a => chan'[c] = chan[c]
        /\ HasByte(a, p2d) => State = "wait_for_periph_data"
        /\ IssuesWrite(a) => State = "write_mem"
    BY <1>1, <1>5, MoveCounts
  <2>2. Loader'.timeout = Loader.timeout BY <1>2, <1>3, <2>1 DEF FsmMoves
  <2>3. CASE State = "idle"
    <3>1. Loader' = Loader BY <1>2, <1>3, <2>1, <2>3 DEF FsmMoves
    <3>2. Plan[pc'][0] = Plan[pc][0]
      <4>1. CASE pc' = pc BY <4>1
      <4>2. CASE pc' = pc + 1
        <5>1. pc \in 1 .. Len(p) /\ p[pc].reg = "wait" BY <1>1, <1>5, <4>2 DEF Moves
        <5> QED BY <1>1, <4>2, <5>1, PlanStep
      <4> QED BY <1>5, <4>1, <4>2 DEF Moves
    <3> QED BY <1>1, <2>2, <2>3, <3>1, <3>2
  <2>4. CASE State # "idle"
    <3>1. pc' = pc BY <1>1, <2>4, Held
    <3>2. CASE a # 0
      <4>1. Loader' = Loader BY <1>2, <1>3, <2>1, <3>2
      <4> QED BY <1>1, <2>2, <3>1, <3>2, <4>1
    <3>3. CASE a = 0
      <4>1. Plan[pc][0].size = 0 BY <1>1, <2>4, <3>3, PlanAtWork
      <4>2. ASSUME State' = "idle" PROVE Loader'.size = 0
        <5>1. ~TimesOut(a, p2d) BY <1>3, <3>3 DEF TimesOut
        <5>2. State \in {"wait_for_wr_grant", "pre_idle"}
          BY <1>1, <2>1, <2>4, <4>2, <5>1 DEF FsmMoves, States
        <5>3. Loader'.size = Loader.size BY <1>3, <2>1, <3>3, <5>2 DEF FsmCounts
        <5>4. State = "pre_idle" => Loader.size = 0
          BY <1>1, <1>3, <2>1, <2>4, <3>3 DEF WorkInv, Left
        <5>5. State = "wait_for_wr_grant" => Loader.size = 0
          BY <1>3, <2>1, <3>3, <4>2 DEF FsmCounts
        <5> QED BY <5>2, <5>3, <5>4, <5>5
      <4> QED BY <1>1, <2>1, <2>2, <3>1, <3>3, <4>1, <4>2
    <3> QED BY <3>2, <3>3
  <2> QED BY <2>3, <2>4
<1> QED BY <1>1, <1>4, <1>5

LEMMA LeftKept ==
  ASSUME Loaders, DmaInv, SizeInv, LeftInv, NEW w, Edge(w), BootFields \subseteq DOMAIN boot,
         BootStep
  PROVE  LeftInv'
<1>1. boot'.mode = FALSE BY PortMoves DEF DmaInv, WireInv
<1>2. scenario' = scenario BY DEF Edge
<1>3. ASSUME scenario.code > 0
      PROVE  /\ LoaderFields \subseteq DOMAIN Loader' /\ Loader'.timeout = 0
             /\ Loader'.tmp_data = [l \in Lanes |-> Loader'.tmp_data[l]]
             /\ cur_channel' # 0 \/ State' = "idle" => Loader'.size = Plan'[pc'][0].size
  <2>1. /\ LoaderFields \subseteq DOMAIN Loader /\ Loader.timeout = 0
        /\ Loader.tmp_data = [l \in Lanes |-> Loader.tmp_data[l]]
        /\ cur_channel # 0 \/ State = "idle" => Loader.size = Plan[pc][0].size
    BY <1>3 DEF LeftInv
  <2> QED BY <1>3, <2>1, LanesKept, LeftSize
<1> QED BY <1>1, <1>2, <1>3 DEF LeftInv

(* The pin rises: every channel rests, as the driver left it.              *)
LEMMA PinRises ==
  ASSUME Loaders, DmaInv, SizeInv, LeftInv, NEW w, LoadEdge(w),
         BootFields \subseteq DOMAIN boot, host'.pin # FALSE
  PROVE  PinInv' /\ QuietInv' /\ EnterInv' /\ host'.pin = TRUE
<1> DEFINE a == cur_channel  p == Program
<1>1. /\ ChanInv /\ WireInv /\ DriverInv /\ RequestInv /\ GrantInv /\ ByteInv
      /\ Drivers /\ Measurers /\ CountInv
  BY LoadersMeasure DEF DmaInv, SizeInv
<1>2. Raises BY PinStaysLow DEF LoadEdge
<1>3. /\ host.pin = FALSE /\ host.sent = 0 /\ boot_mode = FALSE
      /\ scenario \in Scenarios /\ next \in Nat
  BY <1>1 DEF WireInv, DriverInv, ByteInv
<1>4. /\ 0 \in Channels /\ scenario.code \in Nat /\ scenario.code > 0 /\ Len(p) \in Nat
      /\ pc = Len(p) + 1 /\ Loader.state = "idle" /\ a \in Channels
      /\ scenario.senders \subseteq {"uart"} /\ WellFormed(scenario)
  <2>1. /\ Len(p) \in Nat /\ scenario.code \in Nat /\ 0 \in Channels /\ WellFormed(scenario)
        /\ scenario.code > 0 => scenario.senders \subseteq {"uart"}
    BY <1>3, LoadFacts
  <2>2. pc \in 1 .. Len(p) + 1 /\ a \in Channels BY <1>1, Current DEF DriverInv, Drivers
  <2>3. 0 < scenario.code /\ pc > Len(p) /\ Loader.state = "idle"
    BY <1>2, <1>3, <2>1 DEF Raises, In, Loader
  <2> QED BY <2>1, <2>2, <2>3
<1>5. State = "idle"
  <2> SUFFICES ASSUME State # "idle" PROVE FALSE OBVIOUS
  <2> DEFINE cur == CurAt(p)
  <2>1. /\ pc > 1 /\ p[pc - 1].reg = "config" /\ a = cur[pc] BY <1>1 DEF DriverInv
  <2>2. Len(p) \in 1 .. Len(p) /\ p[Len(p)].reg = "config" BY <1>4, <2>1
  <2>3. cur[Len(p)] = 0
    <3>1. Loads(scenario) BY <1>3 DEF Loaders
    <3> QED BY <1>4, <2>2, <3>1 DEF Loads, Uploads, Program
  <2>4. cur[Len(p) + 1] = cur[Len(p)]
    <3>1. Tracks(p, cur) BY <1>4, Selection DEF Program
    <3> QED BY <2>2, <3>1 DEF Tracks
  <2> QED BY <1>4, <2>1, <2>3, <2>4 DEF State, Loader
<1>6. \A c \in Channels : In(c, "idle") BY <1>1, <1>5 DEF DriverInv, In, State
<1>7. Moves(w)
  <2>1. Sets(w) \/ Moves(w) BY <1>1, SetsOrMoves DEF LoadEdge, Drivers
  <2>2. ~Sets(w) BY <1>4 DEF Sets
  <2> QED BY <2>1, <2>2
<1>8. pc' = pc /\ Program' = Program
  BY <1>4, <1>7 DEF Moves, LoadEdge, Program
<1>9. \A c \in Channels : chan'[c] = chan[c]
  <2>1. chan'[a] = Fsm(a, chan[a], p2d, dma_grant, RamAnswer)
        /\ \A c \in Channels : c # a => chan'[c] = chan[c]
    BY <1>7 DEF Moves
  <2>2. In(a, "idle") BY <1>4, <1>6
  <2>3. chan'[a] = chan[a] BY <2>1, <2>2 DEF Fsm, In
  <2> QED BY <2>1, <2>3
<1>10. Loader' = Loader BY <1>4, <1>9 DEF Loader
<1>11. /\ request' = [cs |-> request'.cs, wr |-> request'.wr, acc |-> request'.acc]
       /\ request'.cs = FALSE /\ d2p'["uart"].grant = FALSE
  <2>1. /\ request' = RequestNext(dma_grant, FALSE) /\ "uart" \in Sources
        /\ d2p'["uart"] = D2pNext("uart", p2d, dma_grant)
    BY <1>1, Unbooted DEF LoadEdge, Sources
  <2>2. /\ ~Issues(a) /\ ~Granted(a, dma_grant) /\ ~HasByte(a, p2d) /\ ~LowersGrant(a)
    BY <1>4, <1>6 DEF Issues, IssuesWrite, IssuesRead, Granted, HasByte, LowersGrant, In
  <2>3. /\ request' = [cs |-> request'.cs, wr |-> request'.wr, acc |-> request'.acc]
        /\ request'.cs = request.cs
    BY <1>1, <1>4, <2>1, <2>2, RequestStep
  <2>4. request.cs = FALSE BY <1>1, <1>5 DEF RequestInv, WireInv
  <2>5. d2p'["uart"].grant = d2p["uart"].grant
    BY <1>1, <1>4, <2>1, <2>2, HandshakeStep
  <2>6. d2p["uart"].grant = FALSE BY <1>1, <1>5, <2>1 DEF GrantInv, WireInv
  <2> QED BY <2>3, <2>4, <2>5, <2>6
<1>12. p2d'["uart"].en \in BOOLEAN /\ next' \in Nat
  <2>1. p2d["uart"].en \in BOOLEAN /\ d2p["uart"].grant \in BOOLEAN
    BY <1>1 DEF WireInv, Sources
  <2>2. p2d'["uart"].en \in BOOLEAN /\ next' = IF Arrives THEN next + 1 ELSE next
    BY <1>3, <1>4, <2>1, UartStep DEF LoadEdge
  <2>3. next' = next + 1 \/ next' = next BY <2>2
  <2> QED BY <1>3, <2>2, <2>3
<1>13. host'.sent = 0 /\ host'.quiet = 0 /\ code' = code /\ host'.pin = TRUE
  <2>1. PICK raises \in {FALSE, Raises} : host' =
         [pin |-> raises \/ (host.pin /\ ~Lowers),
          sent |-> IF host.pin THEN host.sent + next' - next ELSE host.sent,
          quiet |-> IF CodeSent /\ ~Lowers THEN host.quiet + 1 ELSE 0]
    BY DEF LoadEdge, HostStep
  <2>2. ~CodeSent BY <1>3 DEF CodeSent
  <2>3. host'.pin = (raises \/ (host.pin /\ ~Lowers)) BY <2>1
  <2>4. host'.pin \in BOOLEAN BY <2>3
  <2> QED BY <1>3, <2>1, <2>2, <2>4 DEF LoadEdge, HostStep
<1>14. scenario' = scenario BY DEF LoadEdge
<1>15. /\ LoaderFields \subseteq DOMAIN Loader /\ Loader.timeout = 0
       /\ Loader.tmp_data = [l \in Lanes |-> Loader.tmp_data[l]]
       /\ Loader.size = Plan[pc][0].size
  BY <1>4, <1>5 DEF LeftInv
<1>16. scenario.code <= IF Loader.size = 0 THEN SizeMod ELSE Loader.size
  <2>1. Measured(scenario) BY <1>1, <1>3 DEF Measurers
  <2>2. Room(scenario, Plan) BY <2>1 DEF Measured, Plan, Program
  <2> QED BY <1>4, <1>15, <2>2 DEF Room, Program
<1>17. PinInv'
  <2>1. (\A c \in Channels \ {0} : In(c, "idle"))' BY <1>6, <1>9 DEF In
  <2>2. Loader.size \in 0 .. SizeMod - 1 BY <1>1, <1>4 DEF CountInv, Loader
  <2>3. /\ 0 < scenario'.code /\ host'.sent \in 0 .. scenario'.code BY <1>4, <1>13, <1>14
  <2>4. \A b \in 0 .. host'.sent - 1 : code'[b] \in Addrs BY <1>13
  <2> QED BY <1>4, <1>8, <1>10, <1>11, <1>12, <1>15, <2>1, <2>2, <2>3, <2>4 DEF PinInv
<1>18. QuietInv' BY <1>13 DEF QuietInv
<1>19. EnterInv'
  <2>1. In(0, "idle")' BY <1>4, <1>6, <1>9 DEF In
  <2> QED BY <1>10, <1>11, <1>13, <1>14, <1>16, <2>1 DEF EnterInv
<1> QED BY <1>13, <1>17, <1>18, <1>19

(* The code stays in memory.                                               *)
LEMMA LoadedKept ==
  ASSUME DOMAIN imem = Addrs, LoadedInv, scenario.code \in 0 .. AddrMod,
         boot.mode \in BOOLEAN, host.pin = FALSE, NEW w, LoadEdge(w),
         BootFields \subseteq DOMAIN boot, AddrMod \in Nat
  PROVE  LoadedInv' /\ host'.pin = FALSE /\ host'.sent = host.sent
<1>1. /\ host.sent = scenario.code
      /\ \A a \in 0 .. scenario.code - 1 :
           /\ imem[a] = code[a]
           /\ boot.mode /\ InPort(a) => boot.data # PCp /\ boot.data[a % WordBytes] = code[a]
  BY DEF LoadedInv
<1>2. ~Raises BY <1>1 DEF Raises
<1>3. host'.pin = FALSE /\ host'.sent = host.sent /\ code' = code
  <2>1. PICK raises \in {FALSE, Raises} : host' =
         [pin |-> raises \/ (host.pin /\ ~Lowers),
          sent |-> IF host.pin THEN host.sent + next' - next ELSE host.sent,
          quiet |-> IF CodeSent /\ ~Lowers THEN host.quiet + 1 ELSE 0]
    BY DEF LoadEdge, HostStep
  <2>2. host'.pin = (raises \/ (host.pin /\ ~Lowers)) BY <2>1
  <2>3. ~raises BY <1>2, <2>1
  <2>4. host'.pin = FALSE BY <2>2, <2>3
  <2> QED BY <2>1, <2>4 DEF LoadEdge, HostStep
<1>4. boot'.mode = FALSE /\ imem' = B!Loaded(imem, boot)
  BY PortMoves DEF LoadEdge
<1>5. ASSUME NEW a \in 0 .. scenario.code - 1 PROVE imem'[a] = code'[a]
  <2>1. a \in Addrs BY <1>5 DEF Addrs
  <2>2. imem'[a] = IF boot.mode /\ boot.cs /\ a \div WordBytes = boot.addr
                   THEN IF boot.data = PCp THEN PCp ELSE boot.data[a % WordBytes]
                   ELSE imem[a]
    BY <1>4, <2>1 DEF B!Loaded
  <2> QED BY <1>1, <1>3, <2>2 DEF InPort
<1>6. scenario' = scenario BY DEF LoadEdge
<1> QED BY <1>1, <1>3, <1>4, <1>5, <1>6 DEF LoadedInv

-----------------------------------------------------------------------------
LEMMA LoadInitially ==
  ASSUME Loaders, BusInit
  PROVE  LoadInv
<1>1. DmaInv /\ SizeInv BY LoadersMeasure, Initially, SizeInitially
<1>2. /\ scenario \in Scenarios /\ imem = [a \in Addrs |-> NoByte] /\ code = imem
      /\ boot = B!BootReset /\ host.pin = FALSE /\ host.sent = 0 /\ boot_mode = FALSE
      /\ pc = 1 /\ cur_channel = 0
  BY DEF BusInit, DmaInit
<1>3. /\ boot.mode = FALSE /\ boot.modep = TRUE /\ BootFields \subseteq DOMAIN boot
  BY <1>2 DEF B!BootReset, BootFields
<1>4. 0 \in Channels /\ Loader = Idle BY DmaAssumption DEF BusInit, DmaInit, Loader, Channels
<1>5. /\ LoaderFields \subseteq DOMAIN Loader /\ Loader.timeout = 0
      /\ Loader.tmp_data = [l \in Lanes |-> Loader.tmp_data[l]] /\ Loader.size = 0
  BY <1>4 DEF Idle, LoaderFields, Fields, Counters, EmptyWord
<1>6. Plan[1][0].size = 0
  <2>1. Measured(scenario) BY <1>2, LoadersMeasure DEF Measurers
  <2>2. IsPlan(Program, Plan) BY <2>1 DEF Measured, Plan, Program
  <2> QED BY <1>4, <2>2 DEF IsPlan, Steps
<1>7. LeftInv BY <1>2, <1>3, <1>5, <1>6 DEF LeftInv
<1> QED BY <1>1, <1>2, <1>3, <1>7 DEF LoadInv

LEMMA LoadStutters ==
  ASSUME LoadInv, UNCHANGED vars
  PROVE  LoadInv'
<1> USE DEF vars, dmaVars, coreVars, envVars, history
<1>1. DmaInv => DmaInv' BY Stutters
<1>2. SizeInv => SizeInv' BY SizeStutters
<1>3. LeftInv => LeftInv'
  <2>1. Plan' = Plan
    BY DEF Plan, Program, IsPlan, Plans, Steps, Measures, UnitBegins, Behind, Follow,
       OneUnit, CurAt, Tracks, Selections, Room
  <2> QED BY <2>1 DEF LeftInv, Loader, State
<1>4. PinInv => PinInv' BY DEF PinInv, Loader, In, Program
<1>5. QuietInv => QuietInv' BY DEF QuietInv, Waiting, Loader, InPort
<1>6. EnterInv => EnterInv' BY DEF EnterInv, Loader, In
<1>7. LoadingInv => LoadingInv'
  <2>1. Accepted' = Accepted BY DEF Accepted, Waiting
  <2>2. Lasts => Lasts' BY <2>1 DEF Lasts, Loader
  <2>3. ASSUME NEW a, ByteAt(a) PROVE ByteAt(a)'
    BY <2>1, <2>3 DEF ByteAt, Behindhand, Asked, InPort, Loader
  <2>4. (\A a \in Addrs : ByteAt(a)) => (\A a \in Addrs : ByteAt(a))' BY <2>3
  <2> QED BY <2>1, <2>2, <2>4 DEF LoadingInv, Loader, Waiting
<1>8. LoadedInv => LoadedInv' BY DEF LoadedInv, InPort
<1> QED BY <1>1, <1>2, <1>3, <1>4, <1>5, <1>6, <1>7, <1>8 DEF LoadInv

LEMMA LoadKept ==
  ASSUME Loaders, LoadInv, [Cycle]_vars
  PROVE  LoadInv'
<1> SUFFICES ASSUME Cycle PROVE LoadInv' BY LoadStutters
<1>1. /\ scenario \in Scenarios /\ DOMAIN imem = Addrs /\ DOMAIN code = Addrs
      /\ BootFields \subseteq DOMAIN boot /\ host.pin \in BOOLEAN
      /\ boot_mode = boot.mode /\ boot.mode \in BOOLEAN /\ boot.modep \in BOOLEAN
  BY DEF LoadInv
<1>2. PICK w : LoadEdge(w) /\ HistoryStep(w) BY Zenon DEF Cycle, LoadEdge
<1>3. /\ scenario' \in Scenarios /\ DOMAIN imem' = Addrs
      /\ BootFields \subseteq DOMAIN boot' /\ boot_mode' = boot'.mode
      /\ boot'.mode \in BOOLEAN /\ boot'.modep \in BOOLEAN
  <2>1. /\ BootFields \subseteq DOMAIN boot'
        /\ boot'.mode = host.pin /\ boot'.modep = boot.mode
        /\ imem' = B!Loaded(imem, boot)
    BY <1>1, <1>2, PortMoves DEF LoadEdge
  <2>2. boot_mode' = host.pin BY <1>2 DEF LoadEdge, DmaCycle
  <2>3. DOMAIN imem' = Addrs BY <1>1, <2>1 DEF B!Loaded
  <2>4. scenario' = scenario BY <1>2 DEF LoadEdge
  <2> QED BY <1>1, <2>1, <2>2, <2>3, <2>4
<1>4. ~host.pin => code' = code BY <1>2 DEF LoadEdge, HostStep
<1>5. CASE ~host.pin /\ host.sent = 0
  <2>1. DmaInv /\ SizeInv /\ LeftInv BY <1>5 DEF LoadInv
  <2>2. CASE host'.pin = FALSE
    <3>1. Edge(w) BY <1>2, <2>2 DEF LoadEdge, Edge
    <3>2. DmaInv' BY <2>1, <3>1, EdgeKept, LoadersMeasure
    <3>3. SizeInv' BY <2>1, <3>1, CountKept, RestKept, WorkKept, LoadersMeasure DEF SizeInv
    <3>4. LeftInv' BY <1>1, <1>2, <2>1, <3>1, LeftKept DEF LoadEdge
    <3>5. host'.sent = 0 BY <3>2 DEF DmaInv, WireInv
    <3> QED BY <1>1, <1>3, <1>4, <1>5, <2>2, <3>2, <3>3, <3>4, <3>5 DEF LoadInv
  <2>3. CASE host'.pin # FALSE
    <3>1. PinInv' /\ QuietInv' /\ EnterInv' /\ host'.pin = TRUE
      BY <1>1, <1>2, <2>1, <2>3, PinRises
    <3>2. boot_mode' = FALSE BY <1>1, <1>2, <1>5 DEF LoadEdge, DmaCycle
    <3> QED BY <1>1, <1>3, <1>4, <1>5, <3>1, <3>2 DEF LoadInv
  <2> QED BY <2>2, <2>3
<1>6. CASE host.pin /\ ~boot_mode
  <2>1. Entering BY <1>1, <1>6 DEF LoadInv, Entering, Pinned
  <2>2. /\ PinInv' /\ QuietInv' /\ LoadingInv' /\ host'.pin = TRUE
        /\ boot_mode' = TRUE /\ DOMAIN code' = Addrs
    BY <1>2, <2>1, Enters
  <2> QED BY <1>3, <2>2 DEF LoadInv
<1>7. CASE host.pin /\ boot_mode
  <2>1. Arriving BY <1>1, <1>7 DEF LoadInv, Arriving, Pinned
  <2>2. DOMAIN code' = Addrs BY <1>2, <2>1, AcceptedStep
  <2>3. /\ host'.pin \in BOOLEAN /\ (host'.pin <=> ~Lowers) /\ boot_mode' = TRUE
    BY <1>2, <2>1, Pins DEF Arriving
  <2>4. CASE Lowers
    <3>1. host'.pin = FALSE /\ host'.sent # 0 /\ LoadedInv' BY <1>2, <2>1, <2>4, CodeSettled
    <3> QED BY <1>3, <2>2, <3>1 DEF LoadInv
  <2>5. CASE ~Lowers
    <3>1. PinInv' /\ QuietInv' /\ LoadingInv'
      BY <1>2, <2>1, PinKept, QuietKept, LoadingKept
    <3> QED BY <1>3, <2>2, <2>3, <2>5, <3>1 DEF LoadInv
  <2> QED BY <2>4, <2>5
<1>8. CASE ~host.pin /\ host.sent # 0
  <2>1. LoadedInv BY <1>8 DEF LoadInv
  <2>2. scenario.code \in 0 .. AddrMod /\ AddrMod \in Nat BY <1>1, LoadFacts
  <2>3. LoadedInv' /\ host'.pin = FALSE /\ host'.sent = host.sent
    BY <1>1, <1>2, <1>8, <2>1, <2>2, LoadedKept
  <2> QED BY <1>1, <1>3, <1>4, <1>8, <2>3 DEF LoadInv
<1> QED BY <1>5, <1>6, <1>7, <1>8

LEMMA LoadPromise ==
  ASSUME Loaders, LoadInv
  PROVE  CodeLoaded
<1> SUFFICES ASSUME boot.modep, ~boot.mode, NEW a \in 0 .. host.sent - 1
             PROVE  imem[a] = code[a]
  BY DEF CodeLoaded, B!Starts
<1>1. host.sent # 0 OBVIOUS
<1>2. CASE host.pin /\ ~boot_mode BY <1>1, <1>2 DEF LoadInv, EnterInv
<1>3. CASE host.pin /\ boot_mode BY <1>3 DEF LoadInv
<1>4. CASE ~host.pin BY <1>1, <1>4 DEF LoadInv, LoadedInv
<1> QED BY <1>2, <1>3, <1>4

(* Whatever a driver did before, the core starts with the code the host    *)
(* has sent: no byte of it is missing, and none is where another belongs.  *)
THEOREM CodeIsLoaded == Loaders => (Spec => []CodeLoaded)
<1> SUFFICES ASSUME Loaders PROVE Spec => []CodeLoaded OBVIOUS
<1>1. BusInit => LoadInv BY LoadInitially
<1>2. LoadInv /\ [Cycle]_vars => LoadInv' BY LoadKept
<1>3. LoadInv => CodeLoaded BY LoadPromise
<1> QED BY <1>1, <1>2, <1>3, PTL DEF Spec
=============================================================================
