---------------------------- MODULE DmaBusProofs ----------------------------
(***************************************************************************)
(* Theorems about DmaBus, for any number of channels, any sizes of words,  *)
(* registers and memory, any use of the bus by the core, and every driver  *)
(* that waits for a transfer before it writes the DMA's registers again.   *)
(***************************************************************************)
EXTENDS DmaBus, FiniteSetTheorems, TLAPS

(* The channel the registers give access to at each point of a driver.     *)
Tracks(p, cur) ==
  /\ cur[1] = 0
  /\ \A i \in 1 .. Len(p) :
       cur[i + 1] = IF p[i].reg = "channel" THEN p[i].val ELSE cur[i]

Selections(p) == [1 .. Len(p) + 1 -> Channels]
CurAt(p) == CHOOSE cur \in Selections(p) : Tracks(p, cur)

(* A driver writes what the registers can hold and polls a channel it has  *)
(* started before it does anything else.  One peripheral hands over bytes. *)
WaitsForEnd(p) ==
  \A i \in 1 .. Len(p) :
    /\ p[i].reg = "config" /\ i < Len(p) =>
         p[i + 1].reg = "wait" /\ p[i + 1].val = CurAt(p)[i]
    /\ p[i].reg = "config" => p[i].val.source \in Sources
    /\ p[i].reg = "timeout" => p[i].val \in 0 .. TimeMod - 1

WellFormed(s) ==
  /\ s.program \in Seq({s.program[i] : i \in DOMAIN s.program})
  /\ \E cur \in Selections(s.program) : Tracks(s.program, cur)
  /\ WaitsForEnd(s.program)
  /\ s.senders \subseteq Sources /\ \A a, b \in s.senders : a = b

-----------------------------------------------------------------------------
(* The inductive invariant.                                                *)
States == {"idle",
  "wait_for_periph_data", "send_periph_grant", "write_mem", "wait_for_wr_grant",
  "read_mem", "wait_for_rd_grant", "wait_for_rd1", "wait_for_periph_rdy",
  "send_to_periph", "wait_for_ready", "pre_idle"}
Receiving == {"wait_for_periph_data", "send_periph_grant", "write_mem", "wait_for_wr_grant"}

(* The registers the argument is about.                                    *)
Fields == {"state", "source", "time", "timeout"}

ChanInv ==
  \A c \in Channels :
    /\ Fields \subseteq DOMAIN chan[c]
    /\ chan[c].state \in States /\ chan[c].source \in Sources
    /\ chan[c].time \in 0 .. TimeMod - 1 /\ chan[c].timeout \in 0 .. TimeMod - 1

WireInv ==
  /\ host.pin = FALSE /\ host.sent = 0 /\ boot_mode = FALSE
  /\ \A s \in Sources :
       /\ d2p[s].grant \in BOOLEAN /\ d2p[s].en \in BOOLEAN
       /\ p2d[s].en \in BOOLEAN /\ p2d[s].rdy \in BOOLEAN
  /\ request = [cs |-> request.cs, wr |-> request.wr, acc |-> request.acc]
  /\ request.cs \in BOOLEAN

(* Only the channel the driver has started, and waits for, is not idle.    *)
State == chan[cur_channel].state
Source == chan[cur_channel].source
DriverInv ==
  /\ scenario \in Scenarios
  /\ pc \in 1 .. Len(Program) + 1
  /\ cur_channel = CurAt(Program)[pc]
  /\ \A c \in Channels : c # cur_channel => In(c, "idle")
  /\ State # "idle" => pc > 1 /\ Program[pc - 1].reg = "config"

(* A request is out while its channel waits for the grant.                 *)
RequestInv == request.cs => State \in {"wait_for_wr_grant", "wait_for_rd_grant"}

(* A byte is offered in the cycle behind the one it is sent in, when ready *)
(* has not fallen yet.                                                     *)
ReadyInv ==
  /\ \A s \in Sources : d2p[s].en =>
       p2d[s].rdy /\ s = Source /\ State \in {"wait_for_ready", "pre_idle", "read_mem"}
  /\ State = "send_to_periph" => p2d[Source].rdy

(* A byte that was taken shows for one more cycle, with its grant.         *)
GrantInv ==
  \A s \in Sources : d2p[s].grant =>
    p2d[s].en /\ s = Source /\ State \in {"send_periph_grant", "write_mem"}

(* The byte that shows without a grant is the next one to be taken.        *)
Waiting(s) == p2d[s].en /\ ~d2p[s].grant
ByteInv ==
  /\ taken \in Nat /\ next \in Nat
  /\ (\A s \in Sources : ~Waiting(s)) => next = taken
  /\ \A s \in Sources :
       /\ p2d[s].en => s \in scenario.senders
       /\ Waiting(s) => next = taken + 1 /\ p2d[s].data = taken % AddrMod

(* Behind the first byte the counter is what is left of the timeout.       *)
TimeInv ==
  /\ \A c \in Channels : starved[c] \in 0 .. TimeMod
  /\ State \in Receiving /\ moved[cur_channel] > 0 /\ chan[cur_channel].timeout # 0 =>
       chan[cur_channel].time + starved[cur_channel] = chan[cur_channel].timeout

DmaInv ==
  /\ ChanInv /\ WireInv /\ DriverInv /\ RequestInv /\ ReadyInv
  /\ GrantInv /\ ByteInv /\ TimeInv

-----------------------------------------------------------------------------
(* Registers that several channels assign.                                 *)
LEMMA OneWriter ==
  ASSUME NEW assign, NEW old, NEW a \in Channels,
         \A c \in Channels : c # a => assign[c] = {}
  PROVE  /\ assign[a] = {} => LastAssigned(assign, old) = old
         /\ \A v : assign[a] = {v} => LastAssigned(assign, old) = v
<1> DEFINE writers == {c \in Channels : assign[c] # {}}
<1>1. CASE assign[a] = {}
  <2>1. writers = {} BY <1>1
  <2> QED BY <1>1, <2>1 DEF LastAssigned
<1>2. ASSUME NEW v, assign[a] = {v} PROVE LastAssigned(assign, old) = v
  <2>1. writers = {a} BY <1>2
  <2>2. (CHOOSE c \in writers : \A d \in writers : d <= c) = a
    BY <2>1 DEF Channels
  <2>3. (CHOOSE x \in assign[a] : TRUE) = v BY <1>2
  <2> QED BY <2>1, <2>2, <2>3 DEF LastAssigned
<1> QED BY <1>1, <1>2

(* The registers of a counter.                                             *)
LEMMA CounterSteps ==
  ASSUME NEW mod \in Nat \ {0}, NEW n \in 0 .. mod - 1
  PROVE  /\ Minus1(n, mod) \in 0 .. mod - 1
         /\ n # 0 => Minus1(n, mod) = n - 1
         /\ n = 0 => Minus1(n, mod) = mod - 1
<1>1. CASE n = 0
  <2>1. Minus1(n, mod) = (mod - 1) % mod BY <1>1 DEF Minus1
  <2>2. (mod - 1) % mod = mod - 1 OBVIOUS
  <2> QED BY <1>1, <2>1, <2>2
<1>2. CASE n # 0
  <2>1. n + mod - 1 = 1 * mod + (n - 1) /\ n - 1 \in 0 .. mod - 1 BY <1>2
  <2>2. (n + mod - 1) % mod = n - 1 BY <2>1
  <2> QED BY <1>2, <2>2 DEF Minus1
<1> QED BY <1>1, <1>2

-----------------------------------------------------------------------------
(* The driver.                                                             *)
LEMMA Selection ==
  ASSUME NEW s, WellFormed(s)
  PROVE  /\ CurAt(s.program) \in Selections(s.program)
         /\ Tracks(s.program, CurAt(s.program))
BY DEF WellFormed, CurAt

LEMMA Current ==
  ASSUME \A s \in Scenarios : WellFormed(s), DriverInv
  PROVE  cur_channel \in Channels /\ Len(Program) \in Nat
<1>1. WellFormed(scenario) BY DEF DriverInv
<1>2. Len(Program) \in Nat BY <1>1 DEF WellFormed, Program
<1>3. CurAt(Program) \in Selections(Program) BY <1>1, Selection DEF Program
<1> QED BY <1>2, <1>3 DEF DriverInv, Selections

(* In an edge either the driver writes a register, and every channel is    *)
(* idle, or none is written.                                               *)
LEMMA WritesWhenIdle ==
  ASSUME \A s \in Scenarios : WellFormed(s), DriverInv, NEW w, DriverWrite(w)
  PROVE  \/ w = NoWrite /\ pc' \in {pc, pc + 1} /\ (pc' = pc + 1 => pc <= Len(Program)
               /\ Program[pc].reg = "wait" /\ In(Program[pc].val, "idle"))
         \/ /\ State = "idle" /\ pc <= Len(Program)
            /\ w = Program[pc] /\ w.reg # "wait" /\ pc' = pc + 1
<1>1. CASE w = NoWrite /\ pc' = IF /\ pc <= Len(Program) /\ Program[pc].reg = "wait"
                                   /\ In(Program[pc].val, "idle")
                                THEN pc + 1 ELSE pc
  BY <1>1
<1>2. CASE /\ StoreOnBus /\ pc <= Len(Program) /\ Program[pc].reg # "wait"
           /\ w = Program[pc] /\ pc' = pc + 1
  <2>1. SUFFICES ASSUME State # "idle" PROVE FALSE BY <1>2
  <2>2. pc > 1 /\ Program[pc - 1].reg = "config" BY <2>1 DEF DriverInv
  <2>3. pc - 1 \in 1 .. Len(Program) /\ pc - 1 < Len(Program) /\ (pc - 1) + 1 = pc
    BY <1>2, <2>2, Current DEF DriverInv
  <2>4. WaitsForEnd(Program) BY DEF DriverInv, WellFormed, Program
  <2>5. Program[pc].reg = "wait" BY <2>2, <2>3, <2>4 DEF WaitsForEnd
  <2> QED BY <1>2, <2>5
<1> QED BY <1>1, <1>2 DEF DriverWrite

-----------------------------------------------------------------------------
(* The state machine of a channel: what it does to these registers, k      *)
(* before the edge and v after it.                                         *)
FsmMoves(c, k, v) ==
  /\ Fields \subseteq DOMAIN v
  /\ v.source = k.source /\ v.timeout = k.timeout
  /\ k.state = "idle" => v = k
  /\ k.state # "wait_for_periph_data" => v.time = k.time
  /\ k.state = "wait_for_periph_data" /\ HasByte(c, p2d) =>
       v.time = k.timeout /\ v.state \in {"send_periph_grant", "write_mem"}
  /\ k.state = "wait_for_periph_data" /\ ~HasByte(c, p2d) =>
       /\ v.time = Minus1(k.time, TimeMod)
       /\ v.state = IF TimesOut(c, p2d) THEN "idle" ELSE k.state
  /\ k.state = "send_periph_grant" => v.state = "wait_for_periph_data"
  /\ k.state = "write_mem" =>
       v.state = IF IssuesWrite(c) THEN "wait_for_wr_grant" ELSE k.state
  /\ k.state = "wait_for_wr_grant" =>
       IF dma_grant THEN v.state \in {"idle", "wait_for_periph_data"}
       ELSE v.state = k.state
  /\ k.state = "read_mem" =>
       v.state = IF IssuesRead(c) THEN "wait_for_rd_grant" ELSE k.state
  /\ k.state = "wait_for_rd_grant" =>
       v.state = IF dma_grant THEN "wait_for_rd1" ELSE k.state
  /\ k.state = "wait_for_rd1" =>
       v.state \in {"wait_for_rd1", "wait_for_periph_rdy"}
  /\ k.state = "wait_for_periph_rdy" =>
       v.state = IF p2d[k.source].rdy THEN "send_to_periph" ELSE k.state
  /\ k.state = "send_to_periph" =>
       v.state \in {"pre_idle", "wait_for_ready", "read_mem"}
  /\ k.state = "wait_for_ready" => v.state = "wait_for_periph_rdy"
  /\ k.state = "pre_idle" => v.state = "idle"

LEMMA Transition ==
  ASSUME ChanInv, NEW c \in Channels, NEW rd, NEW k, k = chan[c],
         NEW v, v = Fsm(c, k, p2d, dma_grant, rd)
  PROVE  FsmMoves(c, k, v)
<1> USE DEF FsmMoves
<1>1. Fields \subseteq DOMAIN k /\ k.state \in States BY DEF ChanInv
<1>2. CASE k.state = "idle"
  <2>1. v = k BY <1>2 DEF Fsm, In
  <2> QED BY <1>1, <1>2, <2>1
<1>3. CASE k.state = "wait_for_periph_data"
  <2>1. v = WaitForPeriphData(c, k, p2d) BY <1>3 DEF Fsm, In
  <2> QED BY <1>1, <1>3, <2>1 DEF WaitForPeriphData, Fields
<1>4. CASE k.state = "send_periph_grant"
  <2>1. v = SendPeriphGrant(c, k) BY <1>4 DEF Fsm, In
  <2> QED BY <1>1, <1>4, <2>1 DEF SendPeriphGrant, Fields
<1>5. CASE k.state = "write_mem"
  <2>1. v = WriteMem(c, k) BY <1>5 DEF Fsm, In
  <2> QED BY <1>1, <1>5, <2>1 DEF WriteMem, Fields
<1>6. CASE k.state = "wait_for_wr_grant"
  <2>1. v = WaitForWrGrant(c, k, dma_grant) BY <1>6 DEF Fsm, In
  <2>2. EndsWrite(c, dma_grant) => dma_grant BY DEF EndsWrite
  <2> QED BY <1>1, <1>6, <2>1, <2>2 DEF WaitForWrGrant, Fields
<1>7. CASE k.state = "read_mem"
  <2>1. v = ReadMem(c, k) BY <1>7 DEF Fsm, In
  <2> QED BY <1>1, <1>7, <2>1 DEF ReadMem, Fields
<1>8. CASE k.state = "wait_for_rd_grant"
  <2>1. v = WaitForRdGrant(c, k, dma_grant) BY <1>8 DEF Fsm, In
  <2> QED BY <1>1, <1>8, <2>1 DEF WaitForRdGrant, Fields
<1>9. CASE k.state = "wait_for_rd1"
  <2>1. v = WaitForRd1(c, k, rd) BY <1>9 DEF Fsm, In
  <2> QED BY <1>1, <1>9, <2>1 DEF WaitForRd1, Fields
<1>10. CASE k.state = "wait_for_periph_rdy"
  <2>1. v = WaitForPeriphRdy(c, k, p2d) BY <1>10 DEF Fsm, In
  <2> QED BY <1>1, <1>10, <2>1 DEF WaitForPeriphRdy, Fields
<1>11. CASE k.state = "send_to_periph"
  <2>1. v = SendToPeriph(c, k) BY <1>11 DEF Fsm, In
  <2> QED BY <1>1, <1>11, <2>1 DEF SendToPeriph, Fields
<1>12. CASE k.state = "wait_for_ready"
  <2>1. v = [k EXCEPT !.state = "wait_for_periph_rdy"] BY <1>12 DEF Fsm, In
  <2> QED BY <1>1, <1>12, <2>1 DEF Fields
<1>13. CASE k.state = "pre_idle"
  <2>1. v = [k EXCEPT !.state = "idle"] BY <1>13 DEF Fsm, In
  <2> QED BY <1>1, <1>13, <2>1 DEF Fields
<1> QED
  BY <1>1, <1>2, <1>3, <1>4, <1>5, <1>6, <1>7, <1>8, <1>9, <1>10, <1>11, <1>12, <1>13
     DEF States

LEMMA FieldsKept ==
  ASSUME ChanInv, NEW c \in Channels, NEW rd, NEW v,
         v = Fsm(c, chan[c], p2d, dma_grant, rd)
  PROVE  /\ Fields \subseteq DOMAIN v
         /\ v.source = chan[c].source /\ v.timeout = chan[c].timeout
         /\ v.time \in {chan[c].time, chan[c].timeout, Minus1(chan[c].time, TimeMod)}
<1>1. FsmMoves(c, chan[c], v) BY Transition
<1> QED BY <1>1 DEF FsmMoves

(* Without boot mode the channels start the edge with the driver's write.  *)
LEMMA Unbooted ==
  ASSUME WireInv, NEW w, NEW rd, DmaCycle(w, host.pin, p2d, dma_grant, rd)
  PROVE  /\ boot_mode' = FALSE
         /\ \A c \in Channels : chan'[c] = Fsm(c, Written(c, w), p2d, dma_grant, rd)
         /\ cur_channel' = IF w.reg = "channel" THEN w.val ELSE cur_channel
         /\ request' = RequestNext(dma_grant, FALSE) /\ ~BootExit(FALSE)
         /\ \A s \in Sources : d2p'[s] = D2pNext(s, p2d, dma_grant)
<1>1. host.pin = FALSE /\ boot_mode = FALSE BY DEF WireInv
<1>2. ~BootEntry(FALSE) /\ ~BootExit(FALSE) BY <1>1 DEF BootEntry, BootExit
<1>3. \A c, k : Booted(c, FALSE, k) = k BY <1>2 DEF Booted
<1> QED BY <1>1, <1>2, <1>3 DEF DmaCycle

(* An edge in which the driver writes a register: nothing else moves.      *)
Sets(w) ==
  /\ State = "idle"
  /\ pc <= Len(Program) /\ w = Program[pc] /\ w.reg # "wait" /\ pc' = pc + 1
  /\ cur_channel' = IF w.reg = "channel" THEN w.val ELSE cur_channel
  /\ \A c \in Channels : In(c, "idle") /\ chan'[c] = Written(c, w)

(* An edge in which it does not.                                           *)
Moves(w) ==
  /\ w = NoWrite /\ cur_channel' = cur_channel
  /\ pc' \in {pc, pc + 1}
  /\ pc' = pc + 1 =>
       /\ pc <= Len(Program)
       /\ Program[pc].reg = "wait" /\ In(Program[pc].val, "idle")
  /\ \A c \in Channels : c # cur_channel => chan'[c] = chan[c]
  /\ chan'[cur_channel] =
       Fsm(cur_channel, chan[cur_channel], p2d, dma_grant, RamAnswer)

LEMMA SetsOrMoves ==
  ASSUME \A s \in Scenarios : WellFormed(s), DmaInv, NEW w, DriverWrite(w),
         DmaCycle(w, host.pin, p2d, dma_grant, RamAnswer)
  PROVE  Sets(w) \/ Moves(w)
<1>1. cur_channel \in Channels BY Current DEF DmaInv
<1>2. \A c \in Channels : chan'[c] = Fsm(c, Written(c, w), p2d, dma_grant, RamAnswer)
  BY Unbooted DEF DmaInv
<1>3. cur_channel' = IF w.reg = "channel" THEN w.val ELSE cur_channel
  BY Unbooted DEF DmaInv
<1>4. \A c \in Channels : c # cur_channel => In(c, "idle") BY DEF DmaInv, DriverInv
<1>5. ASSUME NEW c \in Channels, In(c, "idle") PROVE chan'[c] = Written(c, w)
  BY <1>2, <1>5 DEF Fsm, In
<1>6. CASE w = NoWrite
  <2>1. w.reg = "none" BY <1>6 DEF NoWrite
  <2>2. \A c : Written(c, w) = chan[c] BY <2>1 DEF Written
  <2>3. \A c \in Channels : c # cur_channel => chan'[c] = chan[c] BY <1>4, <1>5, <2>2
  <2>4. CASE \/ pc' = pc
             \/ /\ pc' = pc + 1 /\ pc <= Len(Program)
                /\ Program[pc].reg = "wait" /\ In(Program[pc].val, "idle")
    <3>1. pc' = pc => pc' # pc + 1 BY Current DEF DmaInv, DriverInv
    <3> QED BY <1>1, <1>2, <1>3, <1>6, <2>1, <2>2, <2>3, <2>4, <3>1 DEF Moves
  <2>5. CASE /\ State = "idle" /\ pc <= Len(Program)
             /\ w = Program[pc] /\ w.reg # "wait" /\ pc' = pc + 1
    BY <1>3, <1>4, <1>5, <2>5 DEF Sets, State, In
  <2> QED BY <2>4, <2>5, WritesWhenIdle DEF DmaInv
<1>7. CASE w # NoWrite
  <2>1. /\ State = "idle" /\ pc <= Len(Program)
        /\ w = Program[pc] /\ w.reg # "wait" /\ pc' = pc + 1
    BY <1>7, WritesWhenIdle DEF DmaInv
  <2> QED BY <1>3, <1>4, <1>5, <2>1 DEF Sets, State, In
<1> QED BY <1>6, <1>7

(* The registers of a channel that is written.                             *)
LEMMA WrittenFields ==
  ASSUME ChanInv, NEW c \in Channels, NEW w, WaitsForEnd(Program),
         pc \in 1 .. Len(Program), w = Program[pc], chan[c].state = "idle"
  PROVE  LET v == Written(c, w) IN
         /\ Fields \subseteq DOMAIN v
         /\ v.state \in {"idle", "wait_for_periph_data", "read_mem"}
         /\ v.source \in Sources
         /\ v.time = chan[c].time /\ v.timeout \in 0 .. TimeMod - 1
         /\ v.state # "idle" => c = cur_channel /\ w.reg = "config"
<1> DEFINE k == chan[c]
<1>1. /\ Fields \subseteq DOMAIN k /\ k.source \in Sources
      /\ k.timeout \in 0 .. TimeMod - 1
  BY DEF ChanInv
<1>2. /\ w.reg = "config" => w.val.source \in Sources
      /\ w.reg = "timeout" => w.val \in 0 .. TimeMod - 1
  BY DEF WaitsForEnd
<1>3. CASE c # cur_channel \/ w.reg \notin {"addr", "size", "timeout", "config"}
  BY <1>1, <1>3 DEF Written
<1>4. CASE c = cur_channel /\ w.reg = "addr"
  <2>1. Written(c, w) = [k EXCEPT !.addr = w.val] BY <1>4 DEF Written
  <2> QED BY <1>1, <2>1 DEF Fields
<1>5. CASE c = cur_channel /\ w.reg = "size"
  <2>1. Written(c, w) = [k EXCEPT !.size = w.val] BY <1>5 DEF Written
  <2> QED BY <1>1, <2>1 DEF Fields
<1>6. CASE c = cur_channel /\ w.reg = "timeout"
  <2>1. Written(c, w) = [k EXCEPT !.timeout = w.val] BY <1>6 DEF Written
  <2> QED BY <1>1, <1>2, <1>6, <2>1 DEF Fields
<1>7. CASE c = cur_channel /\ w.reg = "config"
  <2>1. Written(c, w) =
          [k EXCEPT !.source = w.val.source, !.auto_inc = w.val.auto_inc,
             !.span = w.val.span, !.priority = w.val.priority,
             !.wait_time = w.val.priority,
             !.state = IF w.val.to_mem THEN "wait_for_periph_data" ELSE "read_mem"]
    BY <1>7 DEF Written
  <2> QED BY <1>1, <1>2, <1>7, <2>1 DEF Fields
<1> QED BY <1>3, <1>4, <1>5, <1>6, <1>7

-----------------------------------------------------------------------------
(* The registers the channels share: only the channel at work assigns them. *)
LEMMA RequestStep ==
  ASSUME WireInv, DriverInv, cur_channel \in Channels, request' = RequestNext(dma_grant, FALSE)
  PROVE  LET a == cur_channel IN
         /\ request' = [cs |-> request'.cs, wr |-> request'.wr, acc |-> request'.acc]
         /\ request'.cs = IF Issues(a) THEN TRUE
                          ELSE IF Granted(a, dma_grant) THEN FALSE ELSE request.cs
         /\ ~Issues(a) /\ ~Granted(a, dma_grant) => request' = request
<1> DEFINE a == cur_channel
  cs == [c \in Channels |-> CASE Issues(c) -> {TRUE}
                              [] Granted(c, dma_grant) -> {FALSE}
                              [] OTHER -> {}]
  wr == [c \in Channels |-> IF Issues(c) THEN {In(c, "write_mem")} ELSE {}]
  acc == [c \in Channels |-> IF Issues(c) THEN {Request(c)} ELSE {}]
<1>1. ~BootExit(FALSE) BY DEF BootExit, WireInv
<1>2. request' = [cs |-> LastAssigned(cs, request.cs), wr |-> LastAssigned(wr, request.wr),
                  acc |-> LastAssigned(acc, request.acc)]
  BY Zenon, <1>1 DEF RequestNext
<1>3. \A c \in Channels : c # a => ~Issues(c) /\ ~Granted(c, dma_grant)
  BY DEF DriverInv, Issues, IssuesWrite, IssuesRead, Granted, In
<1>4. \A c \in Channels : c # a => cs[c] = {} /\ wr[c] = {} /\ acc[c] = {} BY <1>3
<1>5. Issues(a) => ~Granted(a, dma_grant)
  BY DEF Issues, IssuesWrite, IssuesRead, Granted, In
<1>6. cs[a] = IF Issues(a) THEN {TRUE} ELSE IF Granted(a, dma_grant) THEN {FALSE} ELSE {}
  BY <1>5
<1>7. /\ Issues(a) => LastAssigned(cs, request.cs) = TRUE
      /\ Granted(a, dma_grant) => LastAssigned(cs, request.cs) = FALSE
      /\ ~Issues(a) /\ ~Granted(a, dma_grant) => LastAssigned(cs, request.cs) = request.cs
  BY <1>4, <1>5, <1>6, OneWriter
<1>8. ~Issues(a) => /\ LastAssigned(wr, request.wr) = request.wr
                    /\ LastAssigned(acc, request.acc) = request.acc
  <2>1. ~Issues(a) => wr[a] = {} /\ acc[a] = {} OBVIOUS
  <2> QED BY <1>4, <2>1, OneWriter
<1>9. /\ request' = [cs |-> request'.cs, wr |-> request'.wr, acc |-> request'.acc]
      /\ request'.cs = LastAssigned(cs, request.cs)
      /\ request'.wr = LastAssigned(wr, request.wr)
      /\ request'.acc = LastAssigned(acc, request.acc)
  BY <1>1 DEF RequestNext
<1>10. ~Issues(a) /\ ~Granted(a, dma_grant) => request' = request
  BY <1>7, <1>8, <1>9 DEF WireInv
<1> QED BY <1>5, <1>7, <1>9, <1>10

LEMMA HandshakeStep ==
  ASSUME DriverInv, cur_channel \in Channels, NEW s \in Sources,
         d2p'[s] = D2pNext(s, p2d, dma_grant)
  PROVE  LET mine == Source = s IN
         /\ d2p'[s].grant = IF HasByte(cur_channel, p2d) /\ mine THEN TRUE
                            ELSE IF LowersGrant(cur_channel) /\ mine THEN FALSE
                            ELSE d2p[s].grant
         /\ d2p'[s].en = IF State = "send_to_periph" /\ mine THEN TRUE
                         ELSE IF \/ State = "wait_for_ready"
                                 \/ State \in {"read_mem", "pre_idle"} /\ mine
                              THEN FALSE ELSE d2p[s].en
<1> DEFINE a == cur_channel
<1>g. PICK grants : grants = [c \in Channels |->
    CASE HasByte(c, p2d) /\ chan[c].source = s -> {TRUE}
      [] LowersGrant(c) /\ chan[c].source = s -> {FALSE}
      [] OTHER -> {}]
  OBVIOUS
<1>e. PICK ens : ens = [c \in Channels |->
    CASE In(c, "send_to_periph") /\ chan[c].source = s -> {TRUE}
      [] In(c, "wait_for_ready") -> {FALSE}
      [] (In(c, "read_mem") \/ In(c, "pre_idle")) /\ chan[c].source = s -> {FALSE}
      [] OTHER -> {}]
  OBVIOUS
<1>1. /\ d2p'[s].grant = LastAssigned(grants, d2p[s].grant)
      /\ d2p'[s].en = LastAssigned(ens, d2p[s].en)
  BY <1>g, <1>e DEF D2pNext
<1>2. \A c \in Channels : c # a => grants[c] = {} /\ ens[c] = {}
  BY <1>g, <1>e DEF DriverInv, HasByte, LowersGrant, In
<1>3. grants[a] = IF HasByte(a, p2d) /\ Source = s THEN {TRUE}
                  ELSE IF LowersGrant(a) /\ Source = s THEN {FALSE} ELSE {}
  BY <1>g DEF HasByte, LowersGrant, In, Source
<1>4. ens[a] = IF State = "send_to_periph" /\ Source = s THEN {TRUE}
               ELSE IF \/ State = "wait_for_ready"
                       \/ State \in {"read_mem", "pre_idle"} /\ Source = s
                    THEN {FALSE} ELSE {}
  BY <1>e DEF In, Source, State
<1>5. /\ grants[a] = {} => LastAssigned(grants, d2p[s].grant) = d2p[s].grant
      /\ grants[a] = {TRUE} => LastAssigned(grants, d2p[s].grant) = TRUE
      /\ grants[a] = {FALSE} => LastAssigned(grants, d2p[s].grant) = FALSE
  <2>1. \A c \in Channels : c # a => grants[c] = {} BY <1>2
  <2>2. grants[a] = {} => LastAssigned(grants, d2p[s].grant) = d2p[s].grant
    BY <2>1, OneWriter
  <2>3. \A v : grants[a] = {v} => LastAssigned(grants, d2p[s].grant) = v
    BY <2>1, OneWriter
  <2> QED BY <2>2, <2>3
<1>6. /\ ens[a] = {} => LastAssigned(ens, d2p[s].en) = d2p[s].en
      /\ ens[a] = {TRUE} => LastAssigned(ens, d2p[s].en) = TRUE
      /\ ens[a] = {FALSE} => LastAssigned(ens, d2p[s].en) = FALSE
  <2>1. \A c \in Channels : c # a => ens[c] = {} BY <1>2
  <2>2. ens[a] = {} => LastAssigned(ens, d2p[s].en) = d2p[s].en
    BY <2>1, OneWriter
  <2>3. \A v : ens[a] = {v} => LastAssigned(ens, d2p[s].en) = v
    BY <2>1, OneWriter
  <2> QED BY <2>2, <2>3
<1>7. d2p'[s].grant = IF HasByte(a, p2d) /\ Source = s THEN TRUE
                      ELSE IF LowersGrant(a) /\ Source = s THEN FALSE ELSE d2p[s].grant
  BY <1>1, <1>3, <1>5
<1>8. d2p'[s].en = IF State = "send_to_periph" /\ Source = s THEN TRUE
                   ELSE IF \/ State = "wait_for_ready"
                           \/ State \in {"read_mem", "pre_idle"} /\ Source = s
                        THEN FALSE ELSE d2p[s].en
  BY <1>1, <1>4, <1>6
<1> QED BY <1>7, <1>8

-----------------------------------------------------------------------------
(* An edge behind which no code is loaded, as far as the invariant is      *)
(* concerned.                                                              *)
Edge(w) ==
  /\ DriverWrite(w) /\ DmaCycle(w, host.pin, p2d, dma_grant, RamAnswer)
  /\ HistoryStep(w) /\ PeripheralStep /\ HostStep /\ scenario' = scenario
  /\ host'.pin = FALSE

Drivers == \A s \in Scenarios : WellFormed(s)
Loadless == \A s \in Scenarios : s.code = 0

LEMMA EdgeCases ==
  ASSUME Drivers, DmaInv, NEW w, Edge(w)
  PROVE  /\ Sets(w) \/ Moves(w)
         /\ cur_channel \in Channels
         /\ WellFormed(scenario) /\ WaitsForEnd(Program)
         /\ Len(Program) \in Nat /\ pc \in 1 .. Len(Program) + 1
<1>1. Sets(w) \/ Moves(w) BY SetsOrMoves DEF Edge, Drivers
<1>2. cur_channel \in Channels /\ Len(Program) \in Nat
  BY Current DEF DmaInv, Drivers
<1>3. WellFormed(scenario) BY DEF DmaInv, DriverInv, Drivers
<1> QED BY <1>1, <1>2, <1>3 DEF DmaInv, DriverInv, WellFormed, Program

LEMMA ChanKept ==
  ASSUME Drivers, DmaInv, NEW w, Edge(w)
  PROVE  ChanInv'
<1>1. SUFFICES ASSUME NEW c \in Channels
               PROVE  /\ Fields \subseteq DOMAIN chan'[c]
                      /\ chan'[c].state \in States /\ chan'[c].source \in Sources
                      /\ chan'[c].time \in 0 .. TimeMod - 1
                      /\ chan'[c].timeout \in 0 .. TimeMod - 1
  BY DEF ChanInv
<1>2. ChanInv BY DEF DmaInv
<1>3. CASE Sets(w)
  <2>1. pc \in 1 .. Len(Program) /\ w = Program[pc] BY <1>3, EdgeCases DEF Sets
  <2>2. chan[c].state = "idle" /\ chan'[c] = Written(c, w) BY <1>3 DEF Sets, In
  <2>3. WaitsForEnd(Program) BY EdgeCases
  <2> QED BY <1>2, <2>1, <2>2, <2>3, WrittenFields DEF ChanInv, States
<1>4. CASE Moves(w) /\ c # cur_channel BY <1>2, <1>4 DEF Moves, ChanInv
<1>5. CASE Moves(w) /\ c = cur_channel
  <2>1. chan'[c] = Fsm(c, chan[c], p2d, dma_grant, RamAnswer) BY <1>5 DEF Moves
  <2>2. Minus1(chan[c].time, TimeMod) \in 0 .. TimeMod - 1
    BY <1>2, CounterSteps, DmaAssumption DEF ChanInv
  <2>3. chan[c].state \in States BY <1>2 DEF ChanInv
  <2>4. chan'[c].state \in States
    <3>1. FsmMoves(c, chan[c], chan'[c]) BY <1>2, <2>1, Transition
    <3> QED BY <2>3, <3>1 DEF States, FsmMoves
  <2>5. chan'[c].time \in 0 .. TimeMod - 1
    <3>1. chan'[c].time \in {chan[c].time, chan[c].timeout, Minus1(chan[c].time, TimeMod)}
      BY <1>2, <2>1, FieldsKept
    <3> QED BY <1>2, <2>2, <3>1 DEF ChanInv
  <2>6. Fields \subseteq DOMAIN chan'[c] BY <1>2, <2>1, FieldsKept
  <2>7. chan'[c].source = chan[c].source /\ chan'[c].timeout = chan[c].timeout
    <3>1. FsmMoves(c, chan[c], chan'[c]) BY <1>2, <2>1, Transition
    <3> QED BY <3>1 DEF FsmMoves
  <2> QED BY <1>2, <2>4, <2>5, <2>6, <2>7 DEF ChanInv
<1> QED BY <1>3, <1>4, <1>5, EdgeCases

(* What the wires carry after an edge.                                     *)
LEMMA Wires ==
  ASSUME Drivers, DmaInv, NEW w, Edge(w)
  PROVE  /\ boot_mode' = FALSE /\ host'.pin = FALSE /\ host'.sent = 0
         /\ \A s \in Sources : ~Drops(s)
         /\ request' = RequestNext(dma_grant, FALSE)
         /\ \A s \in Sources : d2p'[s] = D2pNext(s, p2d, dma_grant)
         /\ \A s \in Sources :
              p2d'[s].rdy = (~d2p[s].en /\ (p2d[s].rdy \/ p2d'[s].rdy))
<1>1. WireInv BY DEF DmaInv
<1>3. PICK raises \in {FALSE, Raises} : host' =
       [pin |-> raises \/ (host.pin /\ ~Lowers),
        sent |-> IF host.pin THEN host.sent + next' - next ELSE host.sent,
        quiet |-> IF CodeSent /\ ~Lowers THEN host.quiet + 1 ELSE 0]
  BY DEF Edge, HostStep
<1>4. host'.pin = FALSE /\ host'.sent = 0
  <2>1. host'.sent = IF host.pin THEN host.sent + next' - next ELSE host.sent BY <1>3
  <2> QED BY <1>1, <2>1 DEF WireInv, Edge
<1>5. \A s \in Sources : ~Drops(s) BY <1>1 DEF Drops, B!Begins, WireInv
<1>6. ASSUME NEW s \in Sources
      PROVE  p2d'[s].rdy = (~d2p[s].en /\ (p2d[s].rdy \/ p2d'[s].rdy))
  <2>1. PICK arrives \in SUBSET scenario.senders, ready \in SUBSET Sources :
          p2d' = [t \in Sources |->
            [en |-> t \in arrives \/ (p2d[t].en /\ ~d2p[t].grant /\ ~Drops(t)),
             data |-> IF t \in arrives THEN next % AddrMod ELSE p2d[t].data,
             rdy |-> ~d2p[t].en /\ (p2d[t].rdy \/ t \in ready)]]
    BY Zenon DEF Edge, PeripheralStep
  <2>2. p2d'[s].rdy = (~d2p[s].en /\ (p2d[s].rdy \/ s \in ready)) BY <2>1
  <2> QED BY <2>2
<1> QED BY <1>1, <1>4, <1>5, <1>6, Unbooted DEF Edge

(* The channel at work after an edge without a register write.             *)
LEMMA StateNext ==
  ASSUME ChanInv, cur_channel \in Channels, NEW w, Moves(w)
  PROVE  /\ State \in States /\ Source \in Sources /\ Source' = Source
         /\ State = "idle" => State' = "idle"
         /\ State = "wait_for_periph_data" /\ HasByte(cur_channel, p2d) =>
              State' \in {"send_periph_grant", "write_mem"}
         /\ State = "wait_for_periph_data" /\ ~HasByte(cur_channel, p2d) =>
              State' = IF TimesOut(cur_channel, p2d) THEN "idle" ELSE State
         /\ State = "send_periph_grant" => State' = "wait_for_periph_data"
         /\ State = "write_mem" =>
              State' = IF IssuesWrite(cur_channel) THEN "wait_for_wr_grant" ELSE State
         /\ State = "wait_for_wr_grant" =>
              IF dma_grant THEN State' \in {"idle", "wait_for_periph_data"}
              ELSE State' = State
         /\ State = "read_mem" =>
              State' = IF IssuesRead(cur_channel) THEN "wait_for_rd_grant" ELSE State
         /\ State = "wait_for_rd_grant" =>
              State' = IF dma_grant THEN "wait_for_rd1" ELSE State
         /\ State = "wait_for_rd1" => State' \in {"wait_for_rd1", "wait_for_periph_rdy"}
         /\ State = "wait_for_periph_rdy" =>
              State' = IF p2d[Source].rdy THEN "send_to_periph" ELSE State
         /\ State = "send_to_periph" =>
              State' \in {"pre_idle", "wait_for_ready", "read_mem"}
         /\ State = "wait_for_ready" => State' = "wait_for_periph_rdy"
         /\ State = "pre_idle" => State' = "idle"
<1>1. PICK k : k = chan[cur_channel] OBVIOUS
<1>2. PICK v : v = Fsm(cur_channel, k, p2d, dma_grant, RamAnswer) OBVIOUS
<1>3. v = chan'[cur_channel] BY <1>1, <1>2 DEF Moves
<1>4. State = k.state /\ Source = k.source BY <1>1 DEF State, Source
<1>5. State' = v.state /\ Source' = v.source BY <1>3 DEF Moves, State, Source
<1>6. State \in States /\ Source \in Sources BY DEF ChanInv, State, Source
<1>7. FsmMoves(cur_channel, k, v) BY <1>1, <1>2, Transition
<1> QED BY <1>4, <1>5, <1>6, <1>7 DEF FsmMoves

LEMMA WireKept ==
  ASSUME Drivers, DmaInv, NEW w, Edge(w)
  PROVE  WireInv'
<1>1. WireInv /\ DriverInv /\ cur_channel \in Channels BY EdgeCases DEF DmaInv
<1>2. host'.pin = FALSE /\ host'.sent = 0 /\ boot_mode' = FALSE BY Wires
<1>3. ASSUME NEW s \in Sources
      PROVE  /\ d2p'[s].grant \in BOOLEAN /\ d2p'[s].en \in BOOLEAN
             /\ p2d'[s].en \in BOOLEAN /\ p2d'[s].rdy \in BOOLEAN
  <2>1. d2p'[s].grant \in BOOLEAN /\ d2p'[s].en \in BOOLEAN
    BY <1>1, Wires, HandshakeStep DEF WireInv
  <2>2. PICK arrives \in SUBSET scenario.senders, ready \in SUBSET Sources :
          p2d' = [t \in Sources |->
            [en |-> t \in arrives \/ (p2d[t].en /\ ~d2p[t].grant /\ ~Drops(t)),
             data |-> IF t \in arrives THEN next % AddrMod ELSE p2d[t].data,
             rdy |-> ~d2p[t].en /\ (p2d[t].rdy \/ t \in ready)]]
    BY Zenon DEF Edge, PeripheralStep
  <2>3. /\ p2d'[s].en = (s \in arrives \/ (p2d[s].en /\ ~d2p[s].grant /\ ~Drops(s)))
        /\ p2d'[s].rdy = (~d2p[s].en /\ (p2d[s].rdy \/ s \in ready))
    BY <2>2
  <2> QED BY <2>1, <2>3
<1>4. /\ request' = [cs |-> request'.cs, wr |-> request'.wr, acc |-> request'.acc]
      /\ request'.cs \in BOOLEAN
  BY <1>1, Wires, RequestStep DEF WireInv
<1> QED BY <1>2, <1>3, <1>4 DEF WireInv

LEMMA RequestKept ==
  ASSUME Drivers, DmaInv, NEW w, Edge(w)
  PROVE  /\ RequestInv'
         /\ request.cs /\ ~dma_grant => request' = request
<1>1. /\ ChanInv /\ WireInv /\ DriverInv /\ RequestInv
      /\ cur_channel \in Channels /\ request' = RequestNext(dma_grant, FALSE)
  BY EdgeCases, Wires DEF DmaInv
<1> DEFINE a == cur_channel
<1>2. /\ request'.cs = IF Issues(a) THEN TRUE
                       ELSE IF Granted(a, dma_grant) THEN FALSE ELSE request.cs
      /\ ~Issues(a) /\ ~Granted(a, dma_grant) => request' = request
  BY <1>1, RequestStep
<1>3. /\ IssuesWrite(a) => State = "write_mem"
      /\ IssuesRead(a) => State = "read_mem"
      /\ Issues(a) <=> IssuesWrite(a) \/ IssuesRead(a)
      /\ Granted(a, dma_grant) <=>
           dma_grant /\ State \in {"wait_for_wr_grant", "wait_for_rd_grant"}
  BY DEF Issues, IssuesWrite, IssuesRead, Granted, In, State
<1>4. request.cs /\ ~dma_grant => request' = request
  BY <1>1, <1>2, <1>3 DEF RequestInv
<1>5. CASE Sets(w)
  <2>1. State = "idle" BY <1>5 DEF Sets
  <2>2. request' = request /\ ~request.cs
    BY <1>1, <1>2, <1>3, <2>1 DEF RequestInv, WireInv
  <2> QED BY <1>4, <2>2 DEF RequestInv
<1>6. CASE Moves(w)
  <2>1. ASSUME request'.cs PROVE State' \in {"wait_for_wr_grant", "wait_for_rd_grant"}
    <3>1. CASE Issues(a) BY <1>1, <1>3, <1>6, <3>1, StateNext
    <3>2. CASE ~Issues(a)
      <4>1. request.cs /\ ~Granted(a, dma_grant) BY <1>2, <2>1, <3>2
      <4>2. State \in {"wait_for_wr_grant", "wait_for_rd_grant"} /\ ~dma_grant
        BY <1>1, <1>3, <4>1 DEF RequestInv
      <4> QED BY <1>1, <1>6, <4>2, StateNext
    <3> QED BY <3>1, <3>2
  <2> QED BY <1>4, <2>1 DEF RequestInv
<1> QED BY <1>5, <1>6, EdgeCases

-----------------------------------------------------------------------------
LEMMA DriverKept ==
  ASSUME Drivers, DmaInv, NEW w, Edge(w)
  PROVE  DriverInv'
<1> DEFINE p == Program  cur == CurAt(Program)
<1>1. /\ ChanInv /\ DriverInv /\ WellFormed(scenario) /\ WaitsForEnd(p)
      /\ cur_channel \in Channels /\ Len(p) \in Nat /\ pc \in 1 .. Len(p) + 1
  BY EdgeCases DEF DmaInv
<1>2. scenario' = scenario /\ Program' = p /\ CurAt(Program)' = cur
  BY DEF Edge, Program, CurAt, Tracks, Selections
<1>3. Tracks(p, cur) BY <1>1, Selection DEF Program
<1>4. CASE Sets(w)
  <2>1. pc \in 1 .. Len(p) /\ w = p[pc] /\ pc' = pc + 1 BY <1>1, <1>4 DEF Sets
  <2>2. cur_channel' = cur[pc + 1]
    <3>1. cur[pc + 1] = IF p[pc].reg = "channel" THEN p[pc].val ELSE cur[pc]
      BY <1>3, <2>1 DEF Tracks
    <3> QED BY <1>1, <1>4, <2>1, <3>1 DEF Sets, DriverInv
  <2>3. ASSUME NEW c \in Channels, chan'[c].state # "idle"
        PROVE  w.reg = "config" /\ c = cur_channel /\ cur_channel' = cur_channel
    <3>1. chan[c].state = "idle" /\ chan'[c] = Written(c, w) BY <1>4 DEF Sets, In
    <3>2. w.reg = "config" /\ c = cur_channel
      BY <1>1, <2>1, <2>3, <3>1, WrittenFields
    <3> QED BY <1>4, <3>2 DEF Sets
  <2>4. pc' \in 1 .. Len(p) + 1 /\ pc' > 1 /\ pc' - 1 = pc BY <1>1, <2>1
  <2>5. \A c \in Channels : c # cur_channel' => chan'[c].state = "idle" BY <2>3
  <2>6. cur_channel' \in Channels
    BY <1>1, <2>1, <2>2, <2>4, Selection DEF Program, Selections
  <2>7. State' # "idle" => p[pc' - 1].reg = "config"
    BY <2>1, <2>3, <2>4, <2>6 DEF State
  <2> QED BY <1>1, <1>2, <2>1, <2>2, <2>4, <2>5, <2>7 DEF DriverInv, In
<1>5. CASE Moves(w)
  <2>1. cur_channel' = cur_channel BY <1>5 DEF Moves
  <2>2. \A c \in Channels : c # cur_channel => chan'[c].state = "idle"
    BY <1>1, <1>5 DEF Moves, DriverInv, In
  <2>3. State = "idle" => State' = "idle" BY <1>1, <1>5, StateNext
  <2>4. CASE pc' = pc
    BY <1>1, <1>2, <2>1, <2>2, <2>3, <2>4 DEF DriverInv, In
  <2>5. CASE pc' = pc + 1
    <3>1. pc \in 1 .. Len(p) /\ p[pc].reg = "wait" /\ chan[p[pc].val].state = "idle"
      BY <1>1, <1>5, <2>5 DEF Moves, In
    <3>2. cur[pc + 1] = cur[pc] BY <1>3, <3>1 DEF Tracks
    <3>3. State = "idle"
      <4>1. SUFFICES ASSUME State # "idle" PROVE FALSE OBVIOUS
      <4>2. pc > 1 /\ p[pc - 1].reg = "config" BY <1>1, <4>1 DEF DriverInv
      <4>3. pc - 1 \in 1 .. Len(p) /\ pc - 1 < Len(p) /\ (pc - 1) + 1 = pc
        BY <1>1, <3>1, <4>2
      <4>4. p[pc].val = cur[pc - 1] BY <1>1, <4>2, <4>3 DEF WaitsForEnd
      <4>5. cur[pc] = cur[pc - 1] BY <1>3, <4>2, <4>3 DEF Tracks
      <4> QED BY <1>1, <3>1, <4>1, <4>4, <4>5 DEF DriverInv, State
    <3> QED BY <1>1, <1>2, <2>1, <2>2, <2>3, <2>5, <3>1, <3>2, <3>3 DEF DriverInv, In
  <2> QED BY <1>5, <2>4, <2>5 DEF Moves
<1> QED BY <1>4, <1>5, EdgeCases

(* A transfer that is under way holds the driver.                          *)
LEMMA Held ==
  ASSUME Drivers, DmaInv, NEW w, Edge(w), State # "idle"
  PROVE  pc' = pc /\ pc > 1 /\ Program[pc - 1].reg = "config" /\ Moves(w)
<1> DEFINE p == Program  cur == CurAt(Program)
<1>1. Moves(w) BY EdgeCases DEF Sets
<1>2. /\ DriverInv /\ cur_channel \in Channels /\ WaitsForEnd(p)
      /\ Len(p) \in Nat /\ pc \in 1 .. Len(p) + 1 /\ Tracks(p, cur)
  BY EdgeCases, Selection DEF Program, Drivers, DmaInv
<1>3. pc > 1 /\ p[pc - 1].reg = "config" BY <1>2 DEF DriverInv
<1>4. SUFFICES ASSUME pc' = pc + 1 PROVE FALSE BY <1>1, <1>3 DEF Moves
<1>5. pc <= Len(p) /\ p[pc].reg = "wait" /\ chan[p[pc].val].state = "idle"
  BY <1>1, <1>4 DEF Moves, In
<1>6. pc - 1 \in 1 .. Len(p) /\ pc - 1 < Len(p) /\ (pc - 1) + 1 = pc BY <1>2, <1>3, <1>5
<1>7. p[pc].val = cur[pc - 1] BY <1>2, <1>3, <1>6 DEF WaitsForEnd
<1>8. cur[pc] = cur[pc - 1] BY <1>2, <1>3, <1>6 DEF Tracks
<1> QED BY <1>2, <1>5, <1>7, <1>8 DEF DriverInv, State

(* The channel selected after a register write.                            *)
LEMMA StateSet ==
  ASSUME Drivers, DmaInv, NEW w, Edge(w), Sets(w)
  PROVE  /\ State = "idle"
         /\ State' \in {"idle", "wait_for_periph_data", "read_mem"}
         /\ State' # "idle" => w.reg = "config" /\ cur_channel' = cur_channel
<1>1. /\ ChanInv /\ WaitsForEnd(Program) /\ cur_channel' \in Channels
      /\ pc \in 1 .. Len(Program) /\ w = Program[pc]
  <2>1. DriverInv' BY DriverKept
  <2>2. \A s \in Scenarios : WellFormed(s) BY DEF Drivers
  <2>3. scenario' = scenario /\ CurAt(Program)' = CurAt(Program) /\ Program' = Program
    BY DEF Edge, Program, CurAt, Tracks, Selections
  <2>4. CurAt(Program) \in Selections(Program) BY EdgeCases, Selection DEF Program
  <2>5. cur_channel' \in Channels BY <2>1, <2>3, <2>4, EdgeCases DEF DriverInv, Selections
  <2> QED BY <2>5, EdgeCases DEF DmaInv, Sets
<1>2. chan[cur_channel'].state = "idle" /\ chan'[cur_channel'] = Written(cur_channel', w)
  BY <1>1 DEF Sets, In
<1>3. /\ chan'[cur_channel'].state \in {"idle", "wait_for_periph_data", "read_mem"}
      /\ chan'[cur_channel'].state # "idle" => cur_channel' = cur_channel /\ w.reg = "config"
  BY <1>1, <1>2, WrittenFields
<1>4. State = "idle" BY DEF Sets
<1> QED BY <1>3, <1>4 DEF State

(* The enable of a byte that is handed over.                               *)
LEMMA ReadyKept ==
  ASSUME Drivers, DmaInv, NEW w, Edge(w)
  PROVE  ReadyInv'
<1>1. /\ ChanInv /\ WireInv /\ DriverInv /\ ReadyInv /\ cur_channel \in Channels
      /\ \A s \in Sources : d2p'[s] = D2pNext(s, p2d, dma_grant)
  BY EdgeCases, Wires DEF DmaInv
<1>2. ASSUME NEW s \in Sources
      PROVE  /\ d2p'[s].en =
                  IF State = "send_to_periph" /\ Source = s THEN TRUE
                  ELSE IF \/ State = "wait_for_ready"
                          \/ State \in {"read_mem", "pre_idle"} /\ Source = s
                       THEN FALSE ELSE d2p[s].en
             /\ d2p[s].en \in BOOLEAN /\ p2d[s].rdy \in BOOLEAN /\ p2d'[s].rdy \in BOOLEAN
             /\ p2d'[s].rdy = (~d2p[s].en /\ (p2d[s].rdy \/ p2d'[s].rdy))
  BY <1>1, HandshakeStep, Wires, WireKept DEF WireInv
<1>3. \A s \in Sources : d2p[s].en =>
        p2d[s].rdy /\ s = Source /\ State \in {"wait_for_ready", "pre_idle", "read_mem"}
  BY <1>1 DEF ReadyInv
<1>4. State = "send_to_periph" => p2d[Source].rdy BY <1>1 DEF ReadyInv
<1>5. State \in States /\ Source \in Sources BY <1>1 DEF ChanInv, State, Source
<1>6. CASE Sets(w)
  <2>1. State = "idle" BY <1>6 DEF Sets
  <2>2. \A s \in Sources : ~d2p'[s].en BY <1>2, <1>3, <2>1
  <2>3. State' # "send_to_periph" BY <1>6, StateSet
  <2> QED BY <2>2, <2>3 DEF ReadyInv
<1>7. CASE Moves(w)
  <2>1. Source' = Source BY <1>1, <1>7, StateNext
  <2>2. ASSUME NEW s \in Sources, d2p'[s].en
        PROVE  /\ p2d'[s].rdy /\ s = Source'
               /\ State' \in {"wait_for_ready", "pre_idle", "read_mem"}
    <3>1. ~d2p[s].en \/ State \notin {"wait_for_ready", "pre_idle", "read_mem"} \/ s # Source
      BY <1>2, <2>2
    <3>2. ~d2p[s].en BY <1>3, <3>1
    <3>3. State = "send_to_periph" /\ s = Source BY <1>2, <2>2, <3>2
    <3>4. p2d'[s].rdy BY <1>2, <1>4, <3>2, <3>3
    <3>5. State' \in {"wait_for_ready", "pre_idle", "read_mem"}
      BY <1>1, <1>7, <3>3, StateNext
    <3> QED BY <2>1, <3>3, <3>4, <3>5
  <2>3. ASSUME State' = "send_to_periph" PROVE p2d'[Source'].rdy
    <3>1. State = "wait_for_periph_rdy" /\ p2d[Source].rdy
      BY <1>1, <1>5, <1>7, <2>3, StateNext DEF States
    <3>2. ~d2p[Source].en BY <1>3, <1>5, <3>1
    <3> QED BY <1>2, <1>5, <2>1, <3>1, <3>2
  <2> QED BY <2>2, <2>3 DEF ReadyInv
<1> QED BY <1>6, <1>7, EdgeCases

-----------------------------------------------------------------------------
(* A grant lasts one cycle.                                                *)
LEMMA GrantStep ==
  ASSUME Drivers, DmaInv, NEW w, Edge(w), NEW s \in Sources
  PROVE  d2p'[s].grant = (HasByte(cur_channel, p2d) /\ Source = s)
<1>1. /\ DriverInv /\ GrantInv /\ cur_channel \in Channels
      /\ d2p'[s] = D2pNext(s, p2d, dma_grant)
  BY EdgeCases, Wires DEF DmaInv
<1>2. d2p'[s].grant = IF HasByte(cur_channel, p2d) /\ Source = s THEN TRUE
                      ELSE IF LowersGrant(cur_channel) /\ Source = s THEN FALSE
                      ELSE d2p[s].grant
  BY <1>1, HandshakeStep
<1>3. d2p[s].grant => LowersGrant(cur_channel) /\ Source = s
  BY <1>1 DEF GrantInv, LowersGrant, In, State
<1>4. d2p[s].grant \in BOOLEAN BY DEF DmaInv, WireInv
<1> QED BY <1>2, <1>3, <1>4

(* What arrives: nothing, or one byte of the only sender that has one.     *)
LEMMA Arrivals ==
  ASSUME Drivers, DmaInv, NEW w, Edge(w)
  PROVE  \/ /\ next' = next
            /\ \A s \in Sources : /\ p2d'[s].en = Waiting(s)
                                   /\ p2d'[s].data = p2d[s].data
         \/ \E t \in scenario.senders :
              /\ t \in Sources /\ \A s \in scenario.senders : s = t
              /\ ~Waiting(t) /\ next' = next + 1
              /\ p2d'[t].en /\ p2d'[t].data = next % AddrMod
              /\ \A s \in Sources : s # t => ~p2d'[s].en
<1>1. /\ WireInv /\ ByteInv /\ WellFormed(scenario) /\ \A s \in Sources : ~Drops(s)
  BY EdgeCases, Wires DEF DmaInv
<1>2. PICK arrives \in SUBSET scenario.senders, ready \in SUBSET Sources :
        /\ \A s \in arrives : Vacant(s)
        /\ p2d' = [t \in Sources |->
             [en |-> t \in arrives \/ (p2d[t].en /\ ~d2p[t].grant /\ ~Drops(t)),
              data |-> IF t \in arrives THEN next % AddrMod ELSE p2d[t].data,
              rdy |-> ~d2p[t].en /\ (p2d[t].rdy \/ t \in ready)]]
        /\ next' = IF arrives = {} THEN next ELSE next + 1
  BY Zenon DEF Edge, PeripheralStep
<1>3. \A s \in Sources :
        /\ p2d'[s].en = (s \in arrives \/ (p2d[s].en /\ ~d2p[s].grant /\ ~Drops(s)))
        /\ p2d'[s].data = IF s \in arrives THEN next % AddrMod ELSE p2d[s].data
  BY <1>2
<1>4. \A s \in Sources : p2d'[s].en = (s \in arrives \/ Waiting(s))
  BY <1>1, <1>3 DEF Waiting, WireInv
<1>5. CASE arrives = {}
  BY <1>2, <1>3, <1>4, <1>5 DEF Waiting
<1>6. ASSUME NEW t \in arrives
      PROVE  /\ t \in scenario.senders /\ t \in Sources
             /\ \A s \in scenario.senders : s = t
             /\ ~Waiting(t) /\ next' = next + 1
             /\ p2d'[t].en /\ p2d'[t].data = next % AddrMod
             /\ \A s \in Sources : s # t => ~p2d'[s].en
  <2>1. t \in scenario.senders /\ t \in Sources /\ \A s \in scenario.senders : s = t
    BY <1>1 DEF WellFormed
  <2>2. ~Waiting(t)
    <3>1. host.pin = FALSE BY <1>1 DEF WireInv
    <3> QED BY <1>2, <3>1 DEF Vacant, Waiting
  <2>3. next' = next + 1 /\ p2d'[t].en /\ p2d'[t].data = next % AddrMod
    BY <1>2, <1>3, <2>1
  <2>4. \A s \in Sources : s # t => ~p2d'[s].en
    <3>1. \A s \in Sources : Waiting(s) => s = t BY <1>1, <2>1 DEF ByteInv, Waiting
    <3>2. \A s \in arrives : s = t BY <2>1
    <3> QED BY <1>4, <3>1, <3>2
  <2> QED BY <2>1, <2>2, <2>3, <2>4
<1> QED BY <1>5, <1>6

LEMMA GrantKept ==
  ASSUME Drivers, DmaInv, NEW w, Edge(w)
  PROVE  GrantInv'
<1>1. /\ ChanInv /\ GrantInv /\ ByteInv /\ WireInv /\ cur_channel \in Channels
  BY EdgeCases DEF DmaInv
<1>2. SUFFICES ASSUME NEW s \in Sources, d2p'[s].grant
               PROVE  /\ p2d'[s].en /\ s = Source'
                      /\ State' \in {"send_periph_grant", "write_mem"}
  BY DEF GrantInv
<1>3. HasByte(cur_channel, p2d) /\ Source = s BY <1>2, GrantStep
<1>4. State = "wait_for_periph_data" /\ p2d[s].en
  BY <1>3 DEF HasByte, In, State, Source
<1>5. Waiting(s) BY <1>1, <1>4 DEF GrantInv, Waiting
<1>6. p2d'[s].en
  <2>1. s \in scenario.senders BY <1>1, <1>4 DEF ByteInv
  <2> QED BY <1>5, <2>1, Arrivals
<1>7. Moves(w) BY <1>4, EdgeCases DEF Sets
<1> QED BY <1>1, <1>3, <1>4, <1>6, <1>7, StateNext

(* What was taken: at most the byte of the channel at work.                *)
LEMMA TakenStep ==
  ASSUME Drivers, DmaInv, NEW w, Edge(w)
  PROVE  taken' = IF HasByte(cur_channel, p2d) THEN taken + 1 ELSE taken
<1> DEFINE has == {c \in Channels : HasByte(c, p2d)}
           drop == {s \in Sources : Drops(s) /\ p2d[s].en}
<1>1. taken' = taken + Cardinality(has) + Cardinality(drop) BY DEF Edge, HistoryStep
<1>2. drop = {} BY Wires
<1>3. has = IF HasByte(cur_channel, p2d) THEN {cur_channel} ELSE {}
  BY EdgeCases DEF DmaInv, DriverInv, HasByte, In
<1>4. taken \in Nat BY DEF DmaInv, ByteInv
<1> HIDE DEF has, drop
<1> QED BY <1>1, <1>2, <1>3, <1>4, FS_EmptySet, FS_Singleton

LEMMA ByteKept ==
  ASSUME Drivers, DmaInv, NEW w, Edge(w)
  PROVE  ByteInv'
<1>1. /\ ChanInv /\ GrantInv /\ ByteInv /\ WireInv /\ cur_channel \in Channels
      /\ WellFormed(scenario) /\ scenario' = scenario
      /\ taken \in Nat /\ next \in Nat
  BY EdgeCases DEF DmaInv, Edge, ByteInv
<1>2. \A s \in Sources : d2p'[s].grant = (HasByte(cur_channel, p2d) /\ Source = s)
  BY GrantStep
<1>3. taken' = IF HasByte(cur_channel, p2d) THEN taken + 1 ELSE taken BY TakenStep
<1>4. \A s \in Sources : p2d'[s].en => s \in scenario.senders
  BY <1>1, Arrivals DEF ByteInv, Waiting
<1>5. \A s \in Sources : p2d[s].en => s \in scenario.senders BY <1>1 DEF ByteInv
<1>6. \A s, t \in scenario.senders : s = t BY <1>1 DEF WellFormed
<1>7. taken' \in Nat /\ next' \in Nat BY <1>1, <1>3, Arrivals
<1>8. CASE HasByte(cur_channel, p2d)
  <2>1. State = "wait_for_periph_data" /\ p2d[Source].en /\ Source \in Sources
    BY <1>1, <1>8 DEF HasByte, In, State, Source, ChanInv
  <2>2. Waiting(Source) BY <1>1, <2>1 DEF GrantInv, Waiting
  <2>3. next = taken' BY <1>1, <1>3, <1>8, <2>1, <2>2 DEF ByteInv
  <2>4. next' = next BY <1>5, <2>1, <2>2, Arrivals
  <2>5. \A s \in Sources : ~(p2d'[s].en /\ ~d2p'[s].grant)
    BY <1>2, <1>4, <1>5, <1>6, <1>8, <2>1
  <2> QED BY <1>1, <1>4, <1>7, <2>3, <2>4, <2>5 DEF ByteInv, Waiting
<1>9. CASE ~HasByte(cur_channel, p2d)
  <2>1. taken' = taken /\ \A s \in Sources : ~d2p'[s].grant BY <1>2, <1>3, <1>9
  <2>2. CASE /\ next' = next
             /\ \A s \in Sources : p2d'[s].en = Waiting(s) /\ p2d'[s].data = p2d[s].data
    <3>1. \A s \in Sources : (p2d'[s].en /\ ~d2p'[s].grant) = Waiting(s)
      BY <2>1, <2>2 DEF Waiting
    <3> QED BY <1>1, <1>4, <1>7, <2>1, <2>2, <3>1 DEF ByteInv, Waiting
  <2>3. ASSUME NEW t \in scenario.senders, t \in Sources, ~Waiting(t), next' = next + 1,
               p2d'[t].en, p2d'[t].data = next % AddrMod,
               \A s \in Sources : s # t => ~p2d'[s].en
        PROVE  ByteInv'
    <3>1. \A s \in Sources : ~Waiting(s) BY <1>5, <1>6, <2>3 DEF Waiting
    <3>2. next = taken BY <1>1, <3>1 DEF ByteInv
    <3>3. next' = taken' + 1 /\ p2d'[t].data = taken' % AddrMod BY <2>1, <2>3, <3>2
    <3>4. p2d'[t].en /\ ~d2p'[t].grant BY <2>1, <2>3
    <3> QED BY <1>1, <1>4, <1>7, <2>3, <3>3, <3>4 DEF ByteInv, Waiting
  <2> QED BY <2>2, <2>3, Arrivals
<1> QED BY <1>8, <1>9

-----------------------------------------------------------------------------
(* The time the channel at work waits for a byte.                          *)
LEMMA TimeKept ==
  ASSUME Drivers, DmaInv, NEW w, Edge(w)
  PROVE  TimeInv'
<1> DEFINE a == cur_channel
<1>1. /\ ChanInv /\ TimeInv /\ DriverInv /\ a \in Channels /\ TimeMod \in Nat \ {0}
  BY EdgeCases, DmaAssumption DEF DmaInv
<1>2. \A c \in Channels :
        /\ starved'[c] =
             IF Starts(c, w) \/ HasByte(c, p2d) THEN 0
             ELSE IF In(c, "wait_for_periph_data")
                  THEN IF starved[c] = TimeMod THEN TimeMod ELSE starved[c] + 1
                  ELSE starved[c]
        /\ Starts(c, w) => moved'[c] = 0
        /\ ~Starts(c, w) /\ ~HasByte(c, p2d) /\ ~In(c, "send_to_periph") =>
             moved'[c] = moved[c]
  BY DEF Edge, HistoryStep
<1>3. \A c \in Channels : starved'[c] \in 0 .. TimeMod BY <1>1, <1>2 DEF TimeInv
<1>4. CASE Sets(w)
  <2>1. State' # "idle" => w.reg = "config" /\ cur_channel' = a BY <1>4, StateSet
  <2>2. State' # "idle" => moved'[cur_channel'] = 0 BY <1>1, <1>2, <2>1 DEF Starts
  <2> QED BY <1>3, <2>2 DEF TimeInv, Receiving
<1>5. CASE Moves(w)
  <2>1. w.reg = "none" /\ cur_channel' = a BY <1>5 DEF Moves, NoWrite
  <2>2. ~Starts(a, w) BY <2>1 DEF Starts
  <2>3. FsmMoves(a, chan[a], chan'[a]) BY <1>1, <1>5, Transition DEF Moves
  <2>4. SUFFICES ASSUME chan'[a].state \in Receiving, moved'[a] > 0, chan'[a].timeout # 0
                 PROVE  chan'[a].time + starved'[a] = chan'[a].timeout
    BY <1>3, <2>1 DEF TimeInv, State
  <2>5. chan'[a].timeout = chan[a].timeout BY <2>3 DEF FsmMoves
  <2>6. /\ chan[a].time \in 0 .. TimeMod - 1 /\ chan[a].timeout \in 0 .. TimeMod - 1
        /\ starved[a] \in 0 .. TimeMod /\ chan[a].state \in States
    BY <1>1 DEF ChanInv, TimeInv
  <2>7. chan[a].state \in Receiving
    BY <2>3, <2>4, <2>6 DEF FsmMoves, Receiving, States
  <2>8. moved[a] > 0 => chan[a].time + starved[a] = chan[a].timeout
    BY <1>1, <2>4, <2>5, <2>7 DEF TimeInv, State
  <2>9. CASE HasByte(a, p2d)
    <3>1. chan'[a].time = chan[a].timeout /\ starved'[a] = 0
      BY <1>1, <1>2, <2>3, <2>9 DEF FsmMoves, HasByte, In
    <3> QED BY <2>5, <2>6, <3>1
  <2>10. CASE ~HasByte(a, p2d)
    <3>1. moved[a] > 0
      BY <1>1, <1>2, <2>2, <2>4, <2>7, <2>10 DEF Receiving, In
    <3>2. CASE chan[a].state = "wait_for_periph_data"
      <4>1. ~TimesOut(a, p2d) BY <2>3, <2>4, <2>10, <3>2 DEF FsmMoves, Receiving
      <4>2. chan[a].time # 0
        BY <2>4, <2>5, <2>10, <3>2, <4>1 DEF TimesOut, HasByte, In
      <4>3. chan'[a].time = chan[a].time - 1
        <5>1. chan'[a].time = Minus1(chan[a].time, TimeMod)
          BY <2>3, <2>10, <3>2 DEF FsmMoves
        <5> QED BY <1>1, <2>6, <4>2, <5>1, CounterSteps
      <4>4. starved[a] # TimeMod BY <1>1, <2>6, <2>8, <3>1
      <4>5. starved'[a] = starved[a] + 1
        BY <1>1, <1>2, <2>2, <2>10, <3>2, <4>4 DEF In
      <4> QED BY <2>5, <2>6, <2>8, <3>1, <4>3, <4>5
    <3>3. CASE chan[a].state # "wait_for_periph_data"
      <4>1. chan'[a].time = chan[a].time BY <2>3, <3>3 DEF FsmMoves
      <4>2. starved'[a] = starved[a] BY <1>1, <1>2, <2>2, <2>10, <3>3 DEF In
      <4> QED BY <2>5, <2>8, <3>1, <4>1, <4>2
    <3> QED BY <3>2, <3>3
  <2> QED BY <2>9, <2>10
<1> QED BY <1>4, <1>5, EdgeCases

-----------------------------------------------------------------------------
LEMMA Initially ==
  ASSUME Drivers, BusInit
  PROVE  DmaInv
<1>1. WellFormed(scenario) /\ 0 \in Channels /\ TimeMod \in Nat \ {0}
  <2>1. WellFormed(scenario) BY DEF Drivers, BusInit
  <2>2. 0 \in Channels /\ TimeMod \in Nat \ {0} BY DmaAssumption DEF Channels
  <2> QED BY <2>1, <2>2
<1>2. chan = [c \in Channels |-> Idle] /\ cur_channel = 0 BY DEF BusInit, DmaInit
<1>3. ChanInv
  <2>1. /\ Fields \subseteq DOMAIN Idle /\ Idle.state = "idle" /\ Idle.source = "uart"
        /\ Idle.time = 0 /\ Idle.timeout = 0
    BY DEF Fields, Idle
  <2> QED BY <1>1, <1>2, <2>1 DEF ChanInv, States, Sources
<1>4. State = "idle" /\ \A c \in Channels : In(c, "idle")
  BY <1>1, <1>2 DEF State, In, Idle
<1>5. DriverInv
  <2>1. CurAt(Program)[1] = 0 BY <1>1, Selection DEF Program, Tracks
  <2>2. Len(Program) \in Nat BY <1>1 DEF WellFormed, Program
  <2> QED BY <1>2, <1>4, <2>1, <2>2 DEF DriverInv, BusInit
<1>6. WireInv /\ RequestInv
  BY DEF WireInv, RequestInv, BusInit, DmaInit, NoRequest
<1>7. \A s \in Sources : ~d2p[s].en /\ ~d2p[s].grant /\ ~p2d[s].en
  BY DEF BusInit, DmaInit
<1>8. ReadyInv /\ GrantInv BY <1>4, <1>7 DEF ReadyInv, GrantInv
<1>9. ByteInv BY <1>7 DEF ByteInv, Waiting, BusInit
<1>10. TimeInv BY <1>1, <1>4 DEF TimeInv, Receiving, BusInit
<1> QED BY <1>3, <1>5, <1>6, <1>8, <1>9, <1>10 DEF DmaInv

LEMMA Stutters ==
  ASSUME DmaInv, UNCHANGED vars
  PROVE  DmaInv'
<1> USE DEF vars, dmaVars, coreVars, envVars, history
<1>1. ChanInv' /\ WireInv' /\ RequestInv' /\ ReadyInv' /\ GrantInv'
  BY DEF DmaInv, ChanInv, WireInv, RequestInv, ReadyInv, GrantInv, State, Source
<1>2. DriverInv'
  <2>1. CurAt(Program)' = CurAt(Program) BY DEF CurAt, Tracks, Selections, Program
  <2> QED BY <2>1 DEF DmaInv, DriverInv, State, In, Program
<1>3. ByteInv' /\ TimeInv' BY DEF DmaInv, ByteInv, TimeInv, Waiting, State
<1> QED BY <1>1, <1>2, <1>3 DEF DmaInv

LEMMA EdgeKept ==
  ASSUME Drivers, DmaInv, NEW w, Edge(w)
  PROVE  DmaInv' /\ (request.cs /\ ~dma_grant => request' = request)
BY ChanKept, WireKept, DriverKept, RequestKept, ReadyKept, GrantKept, ByteKept, TimeKept
   DEF DmaInv

(* The pin rises only if there is code to load.                            *)
LEMMA PinStaysLow ==
  ASSUME DmaInv, HostStep, ~Raises
  PROVE  host'.pin = FALSE
<1>1. WireInv BY DEF DmaInv
<1>2. PICK raises \in {FALSE, Raises} : host' =
       [pin |-> raises \/ (host.pin /\ ~Lowers),
        sent |-> IF host.pin THEN host.sent + next' - next ELSE host.sent,
        quiet |-> IF CodeSent /\ ~Lowers THEN host.quiet + 1 ELSE 0]
  BY DEF HostStep
<1>3. host'.pin = (raises \/ (host.pin /\ ~Lowers)) BY <1>2
<1>4. ~raises BY <1>2
<1> QED BY <1>1, <1>3, <1>4 DEF WireInv

LEMMA NothingRaises ==
  ASSUME Loadless, DmaInv
  PROVE  ~Raises
BY DEF Loadless, DmaInv, DriverInv, WireInv, Raises

LEMMA Kept ==
  ASSUME Drivers, Loadless, DmaInv, [Cycle]_vars
  PROVE  /\ DmaInv'
         /\ [request.cs /\ ~dma_grant => request' = request]_vars
<1>1. CASE Cycle
  <2>1. host'.pin = FALSE BY <1>1, PinStaysLow, NothingRaises DEF Cycle
  <2>2. PICK w : Edge(w) BY <1>1, <2>1 DEF Cycle, Edge
  <2> QED BY <2>2, EdgeKept
<1>2. CASE UNCHANGED vars BY <1>2, Stutters
<1> QED BY <1>1, <1>2

LEMMA Promises ==
  ASSUME Drivers, DmaInv
  PROVE  SendsWhenReady /\ TakenInOrder /\ AbortsWhenOverdue
<1>1. /\ ChanInv /\ WireInv /\ DriverInv /\ ReadyInv /\ GrantInv /\ ByteInv /\ TimeInv
      /\ cur_channel \in Channels
  BY Current DEF DmaInv, Drivers
<1>2. SendsWhenReady BY <1>1 DEF SendsWhenReady, ReadyInv
<1>3. TakenInOrder
  <2>1. SUFFICES ASSUME NEW c \in Channels, HasByte(c, p2d)
                 PROVE  p2d[chan[c].source].data = taken % AddrMod
    BY DEF TakenInOrder
  <2>2. c = cur_channel BY <1>1, <2>1 DEF DriverInv, HasByte, In
  <2>3. State = "wait_for_periph_data" /\ p2d[Source].en /\ Source \in Sources
    BY <1>1, <2>1, <2>2 DEF HasByte, In, State, Source, ChanInv
  <2>4. Waiting(Source) BY <1>1, <2>3 DEF GrantInv, Waiting
  <2> QED BY <1>1, <2>2, <2>3, <2>4 DEF ByteInv, Source
<1>4. AbortsWhenOverdue
  <2>1. SUFFICES ASSUME NEW c \in Channels, In(c, "wait_for_periph_data"), ~HasByte(c, p2d),
                        moved[c] > 0, chan[c].timeout # 0
                 PROVE  TimesOut(c, p2d) <=> starved[c] = chan[c].timeout
    BY DEF AbortsWhenOverdue
  <2>2. c = cur_channel BY <1>1, <2>1 DEF DriverInv, In
  <2>3. chan[c].time + starved[c] = chan[c].timeout
    BY <1>1, <2>1, <2>2 DEF TimeInv, State, In, Receiving
  <2>4. chan[c].time \in Nat /\ starved[c] \in Nat
    BY <1>1, DmaAssumption DEF ChanInv, TimeInv
  <2>5. TimesOut(c, p2d) <=> chan[c].time = 0 BY <2>1 DEF TimesOut, HasByte
  <2> QED BY <2>3, <2>4, <2>5
<1> QED BY <1>2, <1>3, <1>4

(* Under such a driver the request of a channel stays on the port until    *)
(* the core transmits it.                                                  *)
THEOREM RequestsAreKept == Drivers /\ Loadless => (Spec => NoRequestOverwritten)
<1> SUFFICES ASSUME Drivers, Loadless PROVE Spec => NoRequestOverwritten OBVIOUS
<1>1. BusInit => DmaInv BY Initially
<1>2. DmaInv /\ [Cycle]_vars => DmaInv' BY Kept
<1>3. DmaInv /\ [Cycle]_vars => [request.cs /\ ~dma_grant => request' = request]_vars
  BY Kept
<1> QED BY <1>1, <1>2, <1>3, PTL DEF Spec, NoRequestOverwritten

(* It hands a byte to a peripheral only when that is ready for it.         *)
THEOREM BytesFindReady == Drivers /\ Loadless => (Spec => []SendsWhenReady)
<1> SUFFICES ASSUME Drivers, Loadless PROVE Spec => []SendsWhenReady OBVIOUS
<1>1. BusInit => DmaInv BY Initially
<1>2. DmaInv /\ [Cycle]_vars => DmaInv' BY Kept
<1>3. DmaInv => SendsWhenReady BY Promises
<1> QED BY <1>1, <1>2, <1>3, PTL DEF Spec

(* It takes the bytes of a peripheral once each and in order.              *)
THEOREM BytesAreTakenInOrder == Drivers /\ Loadless => (Spec => []TakenInOrder)
<1> SUFFICES ASSUME Drivers, Loadless PROVE Spec => []TakenInOrder OBVIOUS
<1>1. BusInit => DmaInv BY Initially
<1>2. DmaInv /\ [Cycle]_vars => DmaInv' BY Kept
<1>3. DmaInv => TakenInOrder BY Promises
<1> QED BY <1>1, <1>2, <1>3, PTL DEF Spec

(* It gives a transfer up exactly when a byte behind the first is overdue. *)
THEOREM TimeoutsAreExact == Drivers /\ Loadless => (Spec => []AbortsWhenOverdue)
<1> SUFFICES ASSUME Drivers, Loadless PROVE Spec => []AbortsWhenOverdue OBVIOUS
<1>1. BusInit => DmaInv BY Initially
<1>2. DmaInv /\ [Cycle]_vars => DmaInv' BY Kept
<1>3. DmaInv => AbortsWhenOverdue BY Promises
<1> QED BY <1>1, <1>2, <1>3, PTL DEF Spec
=============================================================================
