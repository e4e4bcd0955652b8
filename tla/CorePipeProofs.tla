------------------------- MODULE CorePipeProofs --------------------------
(***************************************************************************)
(* Theorems about CorePipe, for every program that is written as the       *)
(* firmware is: what stops the fetch without a read is followed by two     *)
(* nops, and a write of mepc is not followed by MRET.                      *)
(***************************************************************************)
EXTENDS CorePipe, TLAPS

(* The interface of the bus has its own theorems.                          *)
BP == INSTANCE CoreBusProofs

StopsAt(a) == OpAt(a) \in {"csr", "wfi", "alias"}

-----------------------------------------------------------------------------
(* What the decoded instruction is: the one at its address, or the entry   *)
(* of an interrupt.  The address is PCp, but for a nop decoded again.      *)
IdIsInstr ==
  /\ ~id.irq => /\ id.op = OpAt(id.addr) /\ id.off = I!Instr(id.addr).off
                /\ id.pcp = id.addr \/ id.op = "nop"
  /\ id.irq => id.op = "ecall"
  /\ rcsr_op_with_read <=> StopsAt(id.addr)

(* The five shapes of the pipeline.  After a jump it fills in two cycles;  *)
(* an illegal instruction may leave the stop condition behind, and then it *)
(* stays empty for ever.                                                   *)
Refilling ==
  /\ ~pipe0 /\ ~pipe1 /\ ~cpu_wait /\ ~wait_for_interrupt
  /\ id = NoInstr /\ inst_addr = pc
  /\ flush \/ rcsr_op_with_read

Filling ==
  /\ pipe0 /\ ~pipe1 /\ ~flush /\ ~cpu_wait /\ ~wait_for_interrupt
  /\ id = NoInstr /\ ~rcsr_op_with_read
  /\ instr = pcp /\ pc = pcp + 1 /\ inst_addr = pc

(* An instruction is executed and the next one decoded, or, behind a stop  *)
(* without a read, the same nop again.                                     *)
Flowing ==
  /\ pipe0 /\ pipe1 /\ ~flush /\ ~cpu_wait /\ ~wait_for_interrupt
  /\ instr = pcp /\ pc = pcp + 1 /\ inst_addr = pc
  /\ IdIsInstr
  /\ ~id.irq => pcp = id.addr + 1 \/ (pcp = id.addr /\ id.op = "nop")

(* The fetch was stopped and started without a stall for data: memory      *)
(* already delivers the second nop, PCp is still that of the first.        *)
Skewed ==
  /\ pipe0 /\ pipe1 /\ ~flush /\ ~cpu_wait /\ ~wait_for_interrupt
  /\ instr = pc /\ pc = pcp + 1 /\ inst_addr = pc
  /\ IdIsInstr /\ ~rcsr_op_with_read
  /\ OpAt(pcp) = "nop" /\ OpAt(pc) = "nop"
  /\ ~id.irq => pcp = id.addr

(* The pipeline waits: the next instruction is decoded.                    *)
Waiting ==
  /\ pipe0 /\ pipe1 /\ ~flush /\ cpu_wait
  /\ pc = pcp + 1
  /\ IdIsInstr
  /\ ~id.irq => pcp = id.addr
  /\ IF load_mem0 /\ mask_data_en THEN inst_addr = NoAddr ELSE inst_addr = pc
  /\ load_mem => instr = NoAddr
  /\ wait_for_interrupt =>
       instr = pc /\ ~rcsr_op_with_read /\ OpAt(pcp) = "nop" /\ OpAt(pc) = "nop"

PipeShape == Refilling \/ Filling \/ Flowing \/ Skewed \/ Waiting

(* An interrupt that was decoded and lost behind a jump stays pending, so  *)
(* that the next instruction decoded is its entry; none is decoded inside  *)
(* a handler.                                                              *)
IrqInv ==
  /\ irq => cause \in Causes
  /\ start_irq => irq /\ cur_irq = 0 /\ ~handling
  /\ pipe1 => (id.irq <=> start_irq)
  /\ handling => cur_irq # 0
  /\ reset_cur_irq => ~pipe0 /\ ~pipe1 /\ ~handling
  /\ cause \in Causes \cup {0} /\ handling \in BOOLEAN

(* MRET is never behind an access that changes mepc.                       *)
MepcInv == csr_bus.reg = "mepc" /\ pipe1 => id.op # "mret"

PipeInv == PipeShape /\ IrqInv /\ MepcInv
-----------------------------------------------------------------------------
(* Facts about programs and registers.                                     *)
LEMMA Chosen ==
  ASSUME NEW a
  PROVE  {a} # {} /\ (CHOOSE x \in {a} : TRUE) = a
<1>1. {a} # {} OBVIOUS
<1>2. \E x \in {a} : TRUE OBVIOUS
<1>3. (CHOOSE x \in {a} : TRUE) \in {a} BY Zenon, <1>2
<1> QED BY <1>1, <1>3

(* What WellFormed says of any address: outside the program are nops.      *)
LEMMA ProgramRules ==
  ASSUME WellFormed, NEW a
  PROVE  /\ OpAt(a) \in {"wfi", "alias", "loadx0"}
              => OpAt(a + 1) = "nop" /\ OpAt((a + 1) + 1) = "nop"
         /\ OpAt(a) = "setmepc" => OpAt(a + 1) # "mret"
         /\ OpAt(a) = "csrw" => I!Instr(a).csr.reg # "mepc"
         /\ OpAt(a) \in I!Ops
<1>1. CASE a \in DOMAIN Program
  <2>1. I!Instr(a) = Program[a] BY <1>1 DEF I!Instr
  <2> QED BY Zenon, <1>1, <2>1 DEF WellFormed, OpAt
<1>2. CASE a \notin DOMAIN Program
  <2>1. I!Instr(a) = [op |-> "nop", off |-> 0] BY <1>2 DEF I!Instr
  <2>2. OpAt(a) = "nop" BY <2>1 DEF OpAt
  <2> QED BY <2>2 DEF I!Ops
<1> QED BY <1>1, <1>2

(* While the pipeline runs the bus side has nothing outstanding.           *)
LEMMA Running ==
  ASSUME Bus!StallInv, ~cpu_wait
  PROVE  /\ ~rwb /\ ~wait_for_interrupt /\ ~mask_data_en
         /\ ~load_mem0 /\ ~load_mem /\ ~Bus!Writeback
  BY Zenon DEF Bus!StallInv, Bus!StallShape, Bus!Writeback

(* Fetch after a jump, in a stop, and otherwise.                           *)
LEMMA FetchJumps ==
  ASSUME NEW a, NEW clears \in BOOLEAN, Front({a}, clears, FALSE)
  PROVE  /\ pc' = a /\ inst_addr' = a
         /\ flush' /\ ~pipe0' /\ ~pipe1'
         /\ id' = NoInstr
         /\ clears => ~rcsr_op_with_read'
<1>1. {a} # {} /\ NextPC({a}) = a BY Zenon, Chosen DEF NextPC
<1>2. pc' = a /\ inst_addr' = a BY Zenon, <1>1 DEF Front, Fetch
<1>3. flush' /\ ~pipe0' /\ ~pipe1' BY Zenon, <1>1 DEF Front, Fetch
<1>4. id' = NoInstr BY Zenon, <1>1 DEF Front, Decode
<1>5. clears => ~rcsr_op_with_read' BY Zenon DEF Front, Decode
<1> QED BY <1>2, <1>3, <1>4, <1>5

(* The fetch goes on with the next word.                                   *)
LEMMA FetchGoesOn ==
  ASSUME Front({}, FALSE, FALSE), ~StopPC
  PROVE  /\ pc' = pc + 1 /\ pcp' = pc /\ inst_addr' = pc + 1 /\ instr' = inst_addr
         /\ ~flush' /\ pipe0' /\ (pipe1' <=> pipe0)
<1>1. NextPC({}) = pc + 1 BY Zenon DEF NextPC
<1>2. pc' = pc + 1 /\ pcp' = pc /\ inst_addr' = pc + 1 /\ instr' = inst_addr
  BY Zenon, <1>1 DEF Front, Fetch
<1>3. ~flush' /\ pipe0' /\ (pipe1' <=> pipe0) BY Zenon DEF Front, Fetch
<1> QED BY <1>2, <1>3

(* The fetch stops: pc, PCp and the pipeline bits keep their place.        *)
LEMMA FetchStops ==
  ASSUME NEW reads \in BOOLEAN, Front({}, FALSE, reads), StopPC
  PROVE  /\ pc' = pc /\ pcp' = pcp /\ instr' = inst_addr
         /\ inst_addr' = IF reads THEN NoAddr ELSE pc
         /\ ~flush' /\ (pipe0' <=> pipe0) /\ (pipe1' <=> pipe1)
<1>1. NextPC({}) = pc BY Zenon DEF NextPC
<1>2. pc' = pc /\ pcp' = pcp /\ instr' = inst_addr
  BY Zenon, <1>1 DEF Front, Fetch
<1>3. inst_addr' = IF reads THEN NoAddr ELSE pc BY Zenon, <1>1 DEF Front, Fetch
<1>4. ~flush' /\ (pipe0' <=> pipe0) /\ (pipe1' <=> pipe1) BY Zenon DEF Front, Fetch
<1> QED BY <1>2, <1>3, <1>4

(* Decode, when it has an instruction and when not.                        *)
LEMMA DecodesNext ==
  ASSUME NEW reads \in BOOLEAN, Front({}, FALSE, reads), Decodes
  PROVE  /\ id'.addr = instr /\ id'.pcp = pcp /\ (id'.irq <=> MustStartIrq)
         /\ MustStartIrq => id'.op = "ecall"
         /\ ~MustStartIrq => id'.op = OpAt(instr) /\ id'.off = I!Instr(instr).off
         /\ rcsr_op_with_read' <=> StopsAt(instr)
<1>1. id' = Decoded BY Zenon DEF Front, Decode
<1>2. id'.addr = instr /\ id'.pcp = pcp BY <1>1 DEF Decoded
<1>3. id'.irq = MustStartIrq BY <1>1 DEF Decoded
<1>4. id'.op = IF MustStartIrq THEN "ecall" ELSE OpAt(instr)
  BY <1>1 DEF Decoded, OpAt
<1>5. id'.off = I!Instr(instr).off BY <1>1 DEF Decoded
<1>6. rcsr_op_with_read' <=> StopsAt(instr)
  BY Zenon DEF Front, Decode, StopsPipe, StopsAt, OpAt
<1> QED BY Zenon, <1>2, <1>3, <1>4, <1>5, <1>6

(* Nothing delivered, nothing decoded: the decoded instruction stays.      *)
LEMMA DecodesNothing ==
  ASSUME NEW reads \in BOOLEAN, Front({}, FALSE, reads), ~Decodes
  PROVE  id' = id /\ (rcsr_op_with_read' <=> rcsr_op_with_read)
  BY Zenon DEF Front, Decode

-----------------------------------------------------------------------------
(* What executes: the decoded instruction, with the next one behind it.    *)
LEMMA Executing ==
  ASSUME PipeInv, Executes
  PROVE  /\ Flowing \/ Skewed
         /\ Decodes /\ IdIsInstr /\ pipe0 /\ pipe1 /\ ~cpu_wait /\ ~wait_for_interrupt
         /\ ~reset_cur_irq /\ (id.irq <=> start_irq)
         /\ id.irq => id.op = "ecall"
         /\ NextInstr = IF id.irq THEN id.pcp ELSE id.addr
         /\ Skewed => id.op \in {"nop", "ecall"} /\ (id.op = "ecall" => id.irq)
<1>1. Flowing \/ Skewed
  BY Zenon DEF PipeInv, PipeShape, Executes, Refilling, Filling, Waiting
<1>2. pipe0 /\ pipe1 /\ ~flush /\ ~cpu_wait /\ ~wait_for_interrupt /\ IdIsInstr
  BY Zenon, <1>1 DEF Flowing, Skewed
<1>3. Decodes BY Zenon, <1>2 DEF Decodes
<1>4. ~reset_cur_irq /\ (id.irq <=> start_irq) BY Zenon, <1>2 DEF PipeInv, IrqInv
<1>5. NextInstr = IF id.irq THEN id.pcp ELSE id.addr BY Zenon, <1>2 DEF NextInstr
<1>6. id.irq => id.op = "ecall" BY Zenon, <1>2 DEF IdIsInstr
<1>7. ASSUME Skewed
      PROVE  id.op \in {"nop", "ecall"} /\ (id.op = "ecall" => id.irq)
  <2>1. CASE id.irq BY <2>1, <1>6
  <2>2. CASE ~id.irq
    <3>1. id.op = "nop" BY Zenon, <1>7, <2>2 DEF Skewed, IdIsInstr
    <3> QED BY <3>1
  <2> QED BY <2>1, <2>2
<1> QED BY Zenon, <1>1, <1>2, <1>3, <1>4, <1>5, <1>6, <1>7

(* When the fetch stops: for a load, and for what StopsPipe names.         *)
LEMMA StopsFor ==
  ASSUME PipeInv, Executes
  PROVE  /\ StopPC <=> id.op \in Loads \/ rcsr_op_with_read
         /\ ~id.irq => (rcsr_op_with_read <=> id.op \in {"csr", "wfi", "alias"})
         /\ Skewed => ~StopPC
<1>1. ~cpu_wait /\ ~wait_for_interrupt /\ IdIsInstr BY Zenon, Executing
<1>2. StopPC <=> id.op \in Loads \/ rcsr_op_with_read
  BY Zenon, <1>1 DEF StopPC, StopsEarly
<1>3. ~id.irq => (rcsr_op_with_read <=> id.op \in {"csr", "wfi", "alias"})
  BY Zenon, <1>1 DEF IdIsInstr, StopsAt
<1>4. ASSUME Skewed PROVE ~StopPC
  <2>1. id.op \in {"nop", "ecall"} BY Zenon, <1>4, Executing
  <2>2. id.op \notin Loads BY <2>1 DEF Loads
  <2> QED BY Zenon, <1>2, <1>4, <2>2 DEF Skewed
<1> QED BY <1>2, <1>3, <1>4

(* The newly decoded instruction is the one at its address.                *)
LEMMA DecodedIsInstr ==
  ASSUME NEW reads \in BOOLEAN, Front({}, FALSE, reads), Decodes,
         instr = pcp \/ OpAt(instr) = "nop"
  PROVE  IdIsInstr'
<1>1. /\ id'.addr = instr /\ id'.pcp = pcp /\ (id'.irq <=> MustStartIrq)
      /\ MustStartIrq => id'.op = "ecall"
      /\ ~MustStartIrq => id'.op = OpAt(instr) /\ id'.off = I!Instr(instr).off
      /\ rcsr_op_with_read' <=> StopsAt(instr)
  BY DecodesNext
<1>2. ~id'.irq => /\ id'.op = OpAt(id'.addr) /\ id'.off = I!Instr(id'.addr).off
                  /\ id'.pcp = id'.addr \/ id'.op = "nop"
  BY Zenon, <1>1
<1>3. id'.irq => id'.op = "ecall" BY Zenon, <1>1
<1>4. rcsr_op_with_read' <=> StopsAt(id'.addr) BY Zenon, <1>1
<1> QED BY Zenon, <1>2, <1>3, <1>4 DEF IdIsInstr, OpAt, StopsAt, I!Instr

(* An instruction that does not jump is followed by the one behind it, or  *)
(* is a nop that is executed again.                                        *)
LEMMA Follows ==
  ASSUME PipeInv, Executes, NEW reads \in BOOLEAN, Front({}, FALSE, reads), ~id.irq,
         pipe1'
  PROVE  \/ NextInstr' = NextInstr + 1
         \/ id.op = "nop" /\ NextInstr' = NextInstr
<1>1. NextInstr = id.addr BY Executing
<1>2. /\ id'.addr = instr /\ id'.pcp = pcp
  BY Zenon, DecodesNext, Executing
<1>3. NextInstr' = instr \/ NextInstr' = pcp BY Zenon, <1>2 DEF NextInstr
<1>4. CASE Flowing
  <2>1. NextInstr' = pcp BY Zenon, <1>3, <1>4 DEF Flowing
  <2> QED BY Zenon, <1>1, <1>4, <2>1 DEF Flowing
<1>5. CASE Skewed
  <2>1. id.op = "nop" /\ pcp = id.addr /\ instr = pcp + 1
    BY Zenon, <1>5 DEF Skewed, IdIsInstr
  <2> QED BY Zenon, <1>1, <1>3, <2>1
<1> QED BY Zenon, <1>4, <1>5, Executing

(* The shape after an instruction that does not jump: it goes on, ...      *)
LEMMA ShapeGoesOn ==
  ASSUME PipeInv, Executes, Front({}, FALSE, FALSE), ~StopPC,
         ~cpu_wait', ~wait_for_interrupt'
  PROVE  PipeShape' /\ pipe1'
<1>1. /\ pc' = pc + 1 /\ pcp' = pc /\ inst_addr' = pc + 1 /\ instr' = inst_addr
      /\ ~flush' /\ pipe0' /\ (pipe1' <=> pipe0)
  BY FetchGoesOn
<1>2. Decodes /\ pipe0 BY Zenon, Executing
<1>3. /\ id'.addr = instr /\ (id'.irq <=> MustStartIrq)
      /\ ~MustStartIrq => id'.op = OpAt(instr)
  BY Zenon, <1>2, DecodesNext
<1>4. /\ inst_addr = pc /\ pc = pcp + 1
      /\ instr = pcp \/ (instr = pc /\ OpAt(instr) = "nop")
  BY Zenon, Executing DEF Flowing, Skewed
<1>5. IdIsInstr' BY Zenon, <1>2, <1>4, DecodedIsInstr
<1>6. ~id'.irq => pcp' = id'.addr + 1 \/ (pcp' = id'.addr /\ id'.op = "nop")
  BY Zenon, <1>1, <1>3, <1>4
<1>7. Flowing' BY Zenon, <1>1, <1>2, <1>4, <1>5, <1>6 DEF Flowing
<1> QED BY Zenon, <1>1, <1>2, <1>7 DEF PipeShape

(* ... stops the fetch for a cycle and goes on, ...                        *)
LEMMA ShapeSkews ==
  ASSUME WellFormed, PipeInv, Executes, Front({}, FALSE, FALSE), StopPC,
         id.op \in {"alias", "loadx0"}, ~cpu_wait', ~wait_for_interrupt'
  PROVE  PipeShape' /\ pipe1'
<1>1. /\ pc' = pc /\ pcp' = pcp /\ inst_addr' = pc /\ instr' = inst_addr
      /\ ~flush' /\ (pipe0' <=> pipe0) /\ (pipe1' <=> pipe1)
  BY FetchStops
<1>2. Decodes /\ pipe0 /\ pipe1 /\ ~id.irq /\ Flowing /\ IdIsInstr
  BY Zenon, Executing, StopsFor
<1>3. inst_addr = pc /\ pc = pcp + 1 /\ instr = pcp /\ pcp = id.addr + 1
  BY Zenon, <1>2 DEF Flowing
<1>4. OpAt(pcp) = "nop" /\ OpAt(pc) = "nop"
  BY Zenon, <1>2, <1>3, ProgramRules DEF IdIsInstr
<1>5. id'.addr = instr /\ (rcsr_op_with_read' <=> StopsAt(instr))
  BY Zenon, <1>2, DecodesNext
<1>6. IdIsInstr' BY Zenon, <1>2, <1>3, DecodedIsInstr
<1>7. ~rcsr_op_with_read' BY Zenon, <1>3, <1>4, <1>5 DEF StopsAt
<1>8. OpAt(pcp)' = "nop" /\ OpAt(pc)' = "nop"
  BY Zenon, <1>1, <1>4 DEF OpAt, I!Instr
<1>9. Skewed' BY Zenon, <1>1, <1>2, <1>3, <1>5, <1>6, <1>7, <1>8 DEF Skewed
<1> QED BY Zenon, <1>1, <1>2, <1>9 DEF PipeShape

(* ... or waits, for data or an interrupt.                                 *)
LEMMA ShapeWaits ==
  ASSUME WellFormed, PipeInv, Executes, NEW reads \in BOOLEAN, Front({}, FALSE, reads),
         StopPC, id.op \in {"load", "loadinst", "csr", "wfi"}, cpu_wait',
         wait_for_interrupt' => id.op = "wfi" /\ ~reads,
         ~load_mem', reads <=> load_mem0' /\ mask_data_en'
  PROVE  PipeShape' /\ pipe1'
<1>1. /\ pc' = pc /\ pcp' = pcp /\ instr' = inst_addr
      /\ inst_addr' = IF reads THEN NoAddr ELSE pc
      /\ ~flush' /\ (pipe0' <=> pipe0) /\ (pipe1' <=> pipe1)
  BY FetchStops
<1>2. Decodes /\ pipe0 /\ pipe1 /\ ~id.irq /\ Flowing /\ IdIsInstr
  BY Zenon, Executing, StopsFor
<1>3. inst_addr = pc /\ pc = pcp + 1 /\ instr = pcp /\ pcp = id.addr + 1
  BY Zenon, <1>2 DEF Flowing
<1>4. id'.addr = instr /\ (rcsr_op_with_read' <=> StopsAt(instr))
  BY Zenon, <1>2, DecodesNext
<1>5. IdIsInstr' BY Zenon, <1>2, <1>3, DecodedIsInstr
<1>6. ASSUME wait_for_interrupt'
      PROVE  /\ instr' = pc' /\ ~rcsr_op_with_read'
             /\ OpAt(pcp)' = "nop" /\ OpAt(pc)' = "nop"
  <2>1. OpAt(id.addr) = "wfi" BY Zenon, <1>2, <1>6 DEF IdIsInstr
  <2>2. OpAt(pcp) = "nop" /\ OpAt(pc) = "nop" BY Zenon, <2>1, <1>3, ProgramRules
  <2>3. ~rcsr_op_with_read' BY Zenon, <1>3, <1>4, <2>2 DEF StopsAt
  <2> QED BY Zenon, <1>1, <1>3, <2>2, <2>3 DEF OpAt, I!Instr
<1>7. IF load_mem0' /\ mask_data_en' THEN inst_addr' = NoAddr ELSE inst_addr' = pc'
  BY Zenon, <1>1
<1>8. Waiting' BY Zenon, <1>1, <1>2, <1>3, <1>4, <1>5, <1>6, <1>7 DEF Waiting
<1> QED BY Zenon, <1>1, <1>2, <1>8 DEF PipeShape

-----------------------------------------------------------------------------
(* The interrupt registers over an edge.  Decode sees what the registers   *)
(* were: an interrupt starts outside of a handler and stays pending.       *)
LEMMA StartsOutside ==
  ASSUME IrqInv, AnyCsr, MustStartIrq
  PROVE  irq' /\ ~handling /\ cause \in Causes /\ start_irq => irq'
<1>1. ~handling BY Zenon DEF IrqInv, MustStartIrq
<1>2. irq' BY Zenon, <1>1 DEF MustStartIrq, AnyCsr
<1> QED BY <1>1, <1>2

(* csr_irq leaves the cause alone, so what irq announces is a cause.       *)
LEMMA CauseKept ==
  ASSUME IrqInv, AnyCsr
  PROVE  /\ irq' => cause' \in Causes
         /\ cause' \in Causes \cup {0}
<1>1. cause' = cause /\ irq' \in {FALSE, cause # 0} BY Zenon DEF AnyCsr
<1>2. cause \in Causes \cup {0} BY Zenon DEF IrqInv
<1> QED BY <1>1, <1>2

(* start_irq after an edge that does not enter a trap.                     *)
LEMMA StartKept ==
  ASSUME IrqInv, AnyCsr, ~reset_cur_irq \/ ~Decodes,
         start_irq' <=> start_irq \/ (Decodes /\ MustStartIrq),
         cur_irq' = cur_irq \/ (cur_irq' = 0 /\ reset_cur_irq),
         handling' = handling \/ handling' = FALSE
  PROVE  start_irq' => irq' /\ cur_irq' = 0 /\ ~handling'
<1>1. ASSUME start_irq' PROVE irq /\ cur_irq = 0 /\ ~handling
  <2>1. CASE start_irq BY Zenon, <2>1 DEF IrqInv
  <2>2. CASE MustStartIrq BY Zenon, <2>2 DEF IrqInv, MustStartIrq
  <2> QED BY Zenon, <1>1, <2>1, <2>2
<1>2. ASSUME start_irq' PROVE irq' BY Zenon, <1>1, <1>2 DEF AnyCsr
<1> QED BY Zenon, <1>1, <1>2

(* An executed instruction without a jump.                                 *)
LEMMA IrqGoesOn ==
  ASSUME PipeInv, Executes, AnyCsr, NEW reads \in BOOLEAN, Front({}, FALSE, reads),
         IrqRegs(FALSE, FALSE, FALSE), UNCHANGED handling
  PROVE  IrqInv'
<1>1. IrqInv /\ Decodes /\ ~reset_cur_irq /\ (id.irq <=> start_irq)
  BY Zenon, Executing DEF PipeInv
<1>2. /\ start_irq' <=> start_irq \/ MustStartIrq
      /\ cur_irq' = cur_irq /\ ~reset_cur_irq'
  BY Zenon, <1>1 DEF IrqRegs
<1>3. start_irq' => irq' /\ cur_irq' = 0 /\ ~handling'
  BY Zenon, <1>1, <1>2, StartKept
<1>4. id'.irq <=> MustStartIrq BY Zenon, <1>1, DecodesNext
<1>5. start_irq => MustStartIrq BY Zenon, <1>1 DEF IrqInv, MustStartIrq
<1>6. handling' => cur_irq' # 0 BY Zenon, <1>1, <1>2 DEF IrqInv
<1>7. handling' \in BOOLEAN BY Zenon, <1>1 DEF IrqInv
<1> QED BY Zenon, <1>1, <1>2, <1>3, <1>4, <1>5, <1>6, <1>7, CauseKept DEF IrqInv

(* A jump, a taken branch, MRET or an illegal instruction: leaves for MRET.*)
LEMMA IrqJumps ==
  ASSUME PipeInv, Executes, AnyCsr, ~id.irq, ~pipe0', ~pipe1',
         NEW traps \in BOOLEAN, NEW leaves \in BOOLEAN, IrqRegs(FALSE, traps, leaves),
         handling' = handling \/ handling' = FALSE, leaves => handling' = FALSE
  PROVE  IrqInv'
<1>1. IrqInv /\ ~reset_cur_irq /\ ~start_irq BY Zenon, Executing DEF PipeInv
<1>2. /\ start_irq' <=> start_irq \/ (Decodes /\ MustStartIrq)
      /\ cur_irq' = cur_irq /\ (reset_cur_irq' <=> leaves)
  BY Zenon, <1>1 DEF IrqRegs
<1>3. start_irq' => irq' /\ cur_irq' = 0 /\ ~handling'
  BY Zenon, <1>1, <1>2, StartKept
<1>4. handling' => cur_irq' # 0 BY Zenon, <1>1, <1>2 DEF IrqInv
<1>5. handling' \in BOOLEAN BY <1>1 DEF IrqInv
<1> QED BY Zenon, <1>1, <1>2, <1>3, <1>4, <1>5, CauseKept DEF IrqInv

-----------------------------------------------------------------------------
(* csr_irq takes what is on the bus in every edge, so that mepc is always  *)
(* one edge behind NewestMepc.                                             *)
LEMMA MepcFollows ==
  ASSUME AnyCsr
  PROVE  NewestMepc' = IF csr_bus'.reg = "mepc" THEN ValueOf(csr_bus') ELSE NewestMepc
<1>1. mepc' = NewestMepc BY Zenon DEF AnyCsr, NewestMepc
<1>2. NewestMepc' = IF csr_bus'.reg = "mepc" THEN ValueOf(csr_bus') ELSE mepc'
  BY Zenon DEF NewestMepc, ValueOf
<1> QED BY Zenon, <1>1, <1>2

(* What does not write mepc leaves the newest mepc as csr_irq has it.      *)
LEMMA AsksNoMepc ==
  ASSUME AnyCsr, csr_bus'.reg # "mepc"
  PROVE  NewestMepc' = NewestMepc /\ MepcInv'
  BY Zenon, MepcFollows DEF MepcInv

(* A write of mepc is the newest mepc, before csr_irq has taken it.        *)
LEMMA AsksMepc ==
  ASSUME AnyCsr, NEW v, csr_bus'.reg = "mepc", csr_bus'.val = {v}
  PROVE  NewestMepc' = v
<1>1. ValueOf(csr_bus') = v BY Zenon, Chosen DEF ValueOf
<1> QED BY Zenon, <1>1, MepcFollows

(* An edge that asks for no register keeps the newest mepc.                *)
LEMMA NothingAsked ==
  ASSUME AnyCsr, Asks(NoCsr)
  PROVE  NewestMepc' = NewestMepc /\ MepcInv'
<1>1. csr_bus'.reg = "none" BY DEF Asks, NoCsr
<1>2. csr_bus'.reg # "mepc" BY <1>1
<1> QED BY <1>2, AsksNoMepc

-----------------------------------------------------------------------------
(* What the bus side makes of the executed instruction.                    *)
LEMMA BusGoesOn ==
  ASSUME Bus!StallInv, NEW r, NEW wakeup,
         \/ Bus!ExecOther(r, wakeup) \/ Bus!ExecLoadX0(wakeup)
         \/ Bus!ExecStore(wakeup) \/ Bus!ExecCsrWrite(wakeup)
  PROVE  ~cpu_wait' /\ ~wait_for_interrupt'
<1>1. ~cpu_wait
  BY Zenon DEF Bus!ExecOther, Bus!ExecLoadX0, Bus!ExecStore, Bus!ExecCsrWrite
<1>2. ~wait_for_interrupt BY <1>1, Running
<1>3. \E mask : Bus!Commit(FALSE, wait_for_interrupt, mask, FALSE, FALSE, wakeup)
  BY Zenon DEF Bus!ExecOther, Bus!ExecLoadX0, Bus!ExecStore, Bus!ExecCsrWrite
<1> QED BY Zenon, <1>2, <1>3 DEF Bus!Commit

(* The bus side of an instruction that reads: it waits for the data.       *)
LEMMA BusWaits ==
  ASSUME Bus!StallInv, NEW wakeup, NEW inst \in BOOLEAN, ~cpu_wait,
         Bus!Commit(TRUE, wait_for_interrupt, TRUE, TRUE, inst, wakeup)
  PROVE  /\ cpu_wait' /\ ~wait_for_interrupt' /\ ~load_mem'
         /\ inst <=> load_mem0' /\ mask_data_en'
<1>1. ~wait_for_interrupt /\ ~Bus!Writeback /\ ~load_mem0 BY Running
<1> QED BY Zenon, <1>1 DEF Bus!Commit

(* The bus side of WFI: it waits for an interrupt.                         *)
LEMMA BusSleeps ==
  ASSUME Bus!StallInv, NEW wakeup, Bus!ExecWfi(wakeup)
  PROVE  cpu_wait' /\ wait_for_interrupt' /\ ~load_mem' /\ ~load_mem0'
<1>1. ~cpu_wait BY Zenon DEF Bus!ExecWfi
<1>2. ~wait_for_interrupt /\ ~Bus!Writeback /\ ~load_mem0 BY <1>1, Running
<1> QED BY Zenon, <1>2 DEF Bus!ExecWfi, Bus!Commit

-----------------------------------------------------------------------------
(* A step of the sequential machine, or none.                              *)
Simulates == Sequential_!Next \/ UNCHANGED Sequential_!vars

(* The sequential machine and the pipeline read the same program.          *)
LEMMA SameInstr ==
  ASSUME PipeInv, Executes, ~id.irq
  PROVE  /\ Sequential_!Instr(NextInstr).op = id.op
         /\ Sequential_!Instr(NextInstr).off = id.off
         /\ id.op # "nop" => id.pcp = NextInstr
<1>1. IdIsInstr /\ NextInstr = id.addr BY Zenon, Executing
<1>2. Sequential_!Instr(NextInstr) = I!Instr(id.addr)
  BY Zenon, <1>1 DEF Sequential_!Instr, I!Instr
<1> QED BY Zenon, <1>1, <1>2 DEF IdIsInstr, OpAt

(* Straight-line instructions: one step, or a nop's repetition.            *)
LEMMA SimulatesFollowing ==
  ASSUME PipeInv, Executes, ~id.irq, NEW reads \in BOOLEAN, Front({}, FALSE, reads),
         pipe1', UNCHANGED handling, NewestMepc' = NewestMepc,
         IF id.op = "nop" THEN UNCHANGED parity ELSE Counts,
         id.op \in Sequential_!Sequential \cup {"nop", "branch"}
  PROVE  Simulates
<1>1. Sequential_!Instr(NextInstr).op = id.op BY SameInstr
<1>2. CASE NextInstr' = NextInstr + 1
  <2>1. CASE id.op = "nop"
    BY Zenon, <1>1, <1>2, <2>1 DEF Simulates, Sequential_!Next, Sequential_!Nop
  <2>2. CASE id.op # "nop"
    <3>1. Sequential_!Effect({NextInstr + 1})
      BY <1>2, <2>2 DEF Sequential_!Effect, Counts
    <3>2. id.op = "branch" =>
            Sequential_!Effect({NextInstr + 1,
                                NextInstr + Sequential_!Instr(NextInstr).off})
      BY <1>2, <2>2 DEF Sequential_!Effect, Counts
    <3>3. id.op \in Sequential_!Sequential \/ id.op = "branch" BY <2>2
    <3> QED BY Zenon, <1>1, <3>1, <3>2, <3>3
            DEF Simulates, Sequential_!Next, Sequential_!Step
  <2> QED BY <2>1, <2>2
<1>3. CASE id.op = "nop" /\ NextInstr' = NextInstr
  BY Zenon, <1>3 DEF Simulates, Sequential_!vars
<1> QED BY Zenon, <1>2, <1>3, Follows

(* Together: an instruction that does not jump.                            *)
LEMMA StepGoesOn ==
  ASSUME WellFormed, PipeInv, Executes, Front({}, FALSE, FALSE), AnyCsr,
         IrqRegs(FALSE, FALSE, FALSE), UNCHANGED handling,
         ~cpu_wait', ~wait_for_interrupt',
         id.op \notin {"ecall", "load", "loadinst", "csr", "wfi"}
  PROVE  PipeShape' /\ IrqInv' /\ pipe1' /\ ~id.irq
<1>1. ~id.irq /\ (id.irq => id.op = "ecall") BY Zenon, Executing
<1>2. IrqInv' BY Zenon, IrqGoesOn
<1>3. CASE ~StopPC BY <1>1, <1>2, <1>3, ShapeGoesOn
<1>4. CASE StopPC
  <2>1. id.op \in {"alias", "loadx0"}
    <3>1. id.op \in Loads \/ id.op \in {"csr", "wfi", "alias"}
      BY Zenon, <1>1, <1>4, StopsFor
    <3> QED BY <3>1 DEF Loads
  <2> QED BY <1>1, <1>2, <1>4, <2>1, ShapeSkews
<1> QED BY <1>3, <1>4

-----------------------------------------------------------------------------
(* One lemma per action of the pipeline.                                   *)
Ok == PipeShape' /\ IrqInv' /\ MepcInv' /\ Simulates

(* An instruction without effect on the bus or on CSRs.                    *)
LEMMA OpOk ==
  ASSUME WellFormed, Bus!StallInv, PipeInv, AnyCsr, NEW r, NEW wakeup,
         ExecOp(r, wakeup)
  PROVE  Ok
<1>1. /\ Executes /\ id.op \in {"op", "nop"} /\ Front({}, FALSE, FALSE)
      /\ IrqRegs(FALSE, FALSE, FALSE) /\ UNCHANGED handling /\ Asks(NoCsr)
      /\ Bus!ExecOther(r, wakeup)
      /\ IF id.op = "nop" THEN UNCHANGED parity ELSE Counts
  BY Zenon DEF ExecOp, Sequential
<1>2. ~cpu_wait' /\ ~wait_for_interrupt' BY Zenon, <1>1, BusGoesOn
<1>3. id.op \notin {"ecall", "load", "loadinst", "csr", "wfi"} BY <1>1
<1>4. PipeShape' /\ IrqInv' /\ pipe1' /\ ~id.irq BY <1>1, <1>2, <1>3, StepGoesOn
<1>5. NewestMepc' = NewestMepc /\ MepcInv' BY <1>1, NothingAsked
<1>6. id.op \in Sequential_!Sequential \cup {"nop", "branch"}
  BY <1>1 DEF Sequential_!Sequential
<1>7. Simulates BY <1>1, <1>4, <1>5, <1>6, SimulatesFollowing
<1> QED BY Zenon, <1>4, <1>5, <1>7 DEF Ok

(* Stores, and loads whose destination is x0.                              *)
LEMMA QuietOk ==
  ASSUME WellFormed, Bus!StallInv, PipeInv, AnyCsr, NEW wakeup,
         ExecLoadX0(wakeup) \/ ExecStore(wakeup)
  PROVE  Ok
<1>1. /\ Executes /\ id.op \in {"loadx0", "store", "alias"} /\ Front({}, FALSE, FALSE)
      /\ IrqRegs(FALSE, FALSE, FALSE) /\ UNCHANGED handling /\ Asks(NoCsr)
      /\ Bus!ExecLoadX0(wakeup) \/ Bus!ExecStore(wakeup)
      /\ Counts
  <2>1. CASE ExecLoadX0(wakeup)
    <3>1. id.op \in {"loadx0"} BY Zenon, <2>1 DEF ExecLoadX0, Sequential
    <3>2. id.op \in {"loadx0", "store", "alias"} BY <3>1
    <3> QED BY Zenon, <2>1, <3>2 DEF ExecLoadX0, Sequential
  <2>2. CASE ExecStore(wakeup)
    <3>1. id.op \in {"store", "alias"} BY Zenon, <2>2 DEF ExecStore, Sequential
    <3>2. id.op \in {"loadx0", "store", "alias"} BY <3>1
    <3> QED BY Zenon, <2>2, <3>2 DEF ExecStore, Sequential
  <2> QED BY <2>1, <2>2
<1>2. ~cpu_wait' /\ ~wait_for_interrupt' BY Zenon, <1>1, BusGoesOn
<1>3. id.op \notin {"ecall", "load", "loadinst", "csr", "wfi"} BY <1>1
<1>4. PipeShape' /\ IrqInv' /\ pipe1' /\ ~id.irq BY <1>1, <1>2, <1>3, StepGoesOn
<1>5. NewestMepc' = NewestMepc /\ MepcInv' BY <1>1, NothingAsked
<1>6. id.op \in Sequential_!Sequential \cup {"nop", "branch"} /\ id.op # "nop"
  BY <1>1 DEF Sequential_!Sequential
<1>7. Simulates BY <1>1, <1>4, <1>5, <1>6, SimulatesFollowing
<1> QED BY Zenon, <1>4, <1>5, <1>7 DEF Ok

(* Instructions that wait for data.                                        *)
LEMMA ReadOk ==
  ASSUME WellFormed, Bus!StallInv, PipeInv, AnyCsr, NEW r, NEW wakeup,
         ExecLoad(wakeup) \/ ExecLoadInst(r, wakeup) \/ ExecCsrRead(wakeup)
  PROVE  Ok
<1>1. \E reads \in BOOLEAN :
        /\ Executes /\ id.op \in {"load", "loadinst", "csr"} /\ Front({}, FALSE, reads)
        /\ IrqRegs(FALSE, FALSE, FALSE) /\ UNCHANGED handling /\ Counts
        /\ Bus!Commit(TRUE, wait_for_interrupt, TRUE, TRUE, reads, wakeup)
        /\ csr_bus'.reg # "mepc"
  <2>0. TRUE \in BOOLEAN /\ FALSE \in BOOLEAN OBVIOUS
  <2>1. CASE ExecLoad(wakeup)
    <3>1. id.op \in {"load"} /\ Asks(NoCsr) BY Zenon, <2>1 DEF ExecLoad, Sequential
    <3>2. id.op \in {"load", "loadinst", "csr"} /\ csr_bus'.reg # "mepc"
      BY <3>1 DEF Asks, NoCsr
    <3> QED BY Zenon, <2>0, <2>1, <3>2 DEF ExecLoad, Sequential, Bus!ExecLoad
  <2>2. CASE ExecLoadInst(r, wakeup)
    <3>1. id.op \in {"loadinst"} /\ Asks(NoCsr)
      BY Zenon, <2>2 DEF ExecLoadInst, Sequential
    <3>2. id.op \in {"load", "loadinst", "csr"} /\ csr_bus'.reg # "mepc"
      BY <3>1 DEF Asks, NoCsr
    <3> QED BY Zenon, <2>0, <2>2, <3>2 DEF ExecLoadInst, Sequential, Bus!ExecLoadInst
  <2>3. CASE ExecCsrRead(wakeup)
    <3>1. id.op \in {"csr"} /\ Asks(CsrOp("read", "none", {}))
      BY Zenon, <2>3 DEF ExecCsrRead, Sequential
    <3>2. id.op \in {"load", "loadinst", "csr"} /\ csr_bus'.reg # "mepc"
      BY <3>1 DEF Asks, CsrOp
    <3> QED BY Zenon, <2>0, <2>3, <3>2 DEF ExecCsrRead, Sequential, Bus!ExecCsrRead
  <2> QED BY <2>1, <2>2, <2>3
<1>2. PICK reads \in BOOLEAN :
        /\ Executes /\ id.op \in {"load", "loadinst", "csr"} /\ Front({}, FALSE, reads)
        /\ IrqRegs(FALSE, FALSE, FALSE) /\ UNCHANGED handling /\ Counts
        /\ Bus!Commit(TRUE, wait_for_interrupt, TRUE, TRUE, reads, wakeup)
        /\ csr_bus'.reg # "mepc"
  BY <1>1
<1>3. /\ ~id.irq /\ ~cpu_wait
  <2>1. id.op # "ecall" BY <1>2
  <2> QED BY Zenon, <1>2, <2>1, Executing
<1>4. /\ cpu_wait' /\ ~wait_for_interrupt' /\ ~load_mem'
      /\ reads <=> load_mem0' /\ mask_data_en'
  BY <1>2, <1>3, BusWaits
<1>5. /\ id.op \in {"load", "loadinst", "csr", "wfi"} /\ id.op # "nop"
      /\ id.op \in Sequential_!Sequential \cup {"nop", "branch"}
      /\ id.op \in Loads \/ id.op \in {"csr", "wfi", "alias"}
  BY <1>2 DEF Sequential_!Sequential, Loads
<1>6. StopPC BY Zenon, <1>2, <1>3, <1>5, StopsFor
<1>7. PipeShape' /\ pipe1' BY Zenon, <1>2, <1>4, <1>5, <1>6, ShapeWaits
<1>8. IrqInv' BY Zenon, <1>2, IrqGoesOn
<1>9. NewestMepc' = NewestMepc /\ MepcInv' BY <1>2, AsksNoMepc
<1>10. IF id.op = "nop" THEN UNCHANGED parity ELSE Counts BY Zenon, <1>2, <1>5
<1>11. Simulates
  BY Zenon, <1>2, <1>3, <1>5, <1>7, <1>9, <1>10, SimulatesFollowing
<1> QED BY Zenon, <1>7, <1>8, <1>9, <1>11 DEF Ok

(* A write of a CSR; that of mepc is seen by whatever returns through it.  *)
LEMMA CsrWriteOk ==
  ASSUME WellFormed, Bus!StallInv, PipeInv, AnyCsr, NEW wakeup, ExecCsrWrite(wakeup)
  PROVE  Ok
<1>1. /\ Executes /\ id.op \in {"csrw", "setmepc"} /\ Front({}, FALSE, FALSE)
      /\ IrqRegs(FALSE, FALSE, FALSE) /\ UNCHANGED handling /\ Counts
      /\ Bus!ExecCsrWrite(wakeup)
      /\ csr_bus' = IF id.op = "setmepc" THEN CsrOp("rw", "mepc", {id.off})
                    ELSE I!Instr(id.addr).csr
  BY Zenon DEF ExecCsrWrite, Sequential, Asks
<1>2. ~cpu_wait' /\ ~wait_for_interrupt' BY Zenon, <1>1, BusGoesOn
<1>3. id.op \notin {"ecall", "load", "loadinst", "csr", "wfi"} /\ id.op # "nop" BY <1>1
<1>4. PipeShape' /\ IrqInv' /\ pipe1' /\ ~id.irq BY <1>1, <1>2, <1>3, StepGoesOn
<1>5. /\ Flowing /\ Decodes /\ NextInstr = id.addr /\ id.op = OpAt(id.addr)
  <2>1. ~Skewed
    <3>1. id.op \notin {"nop", "ecall"} BY <1>1
    <3> QED BY Zenon, <1>1, <3>1, Executing
  <2> QED BY Zenon, <1>1, <1>4, <2>1, Executing DEF IdIsInstr
<1>6. CASE id.op = "csrw"
  <2>1. csr_bus'.reg # "mepc" BY Zenon, <1>1, <1>5, <1>6, ProgramRules
  <2>2. NewestMepc' = NewestMepc /\ MepcInv' BY <2>1, AsksNoMepc
  <2>3. id.op \in Sequential_!Sequential \cup {"nop", "branch"}
    BY <1>6 DEF Sequential_!Sequential
  <2>4. Simulates BY Zenon, <1>1, <1>3, <1>4, <2>2, <2>3, SimulatesFollowing
  <2> QED BY Zenon, <1>4, <2>2, <2>4 DEF Ok
<1>7. CASE id.op = "setmepc"
  <2>1. csr_bus'.reg = "mepc" /\ csr_bus'.val = {id.off} BY <1>1, <1>7 DEF CsrOp
  <2>2. NewestMepc' = id.off BY Zenon, <2>1, AsksMepc
  <2>3. pcp = NextInstr + 1 /\ instr = pcp BY Zenon, <1>4, <1>5, <1>7 DEF Flowing
  <2>4. NextInstr' = NextInstr + 1 BY Zenon, <1>1, <1>3, <1>4, Follows
  <2>5. MepcInv'
    <3>1. OpAt(instr) # "mret" BY Zenon, <1>5, <1>7, <2>3, ProgramRules
    <3>2. id'.op = "ecall" \/ id'.op = OpAt(instr) BY Zenon, <1>1, <1>5, DecodesNext
    <3>3. id'.op # "mret" BY <3>1, <3>2
    <3> QED BY Zenon, <3>3 DEF MepcInv
  <2>6. Sequential_!Instr(NextInstr).op = "setmepc"
        /\ Sequential_!Instr(NextInstr).off = id.off
    BY Zenon, <1>1, <1>4, <1>7, SameInstr
  <2>7. Sequential_!Effect({NextInstr + 1})
    BY <1>1, <2>4 DEF Sequential_!Effect, Counts
  <2>8. Simulates
    BY Zenon, <1>1, <2>2, <2>6, <2>7 DEF Simulates, Sequential_!Next, Sequential_!Step
  <2> QED BY Zenon, <1>4, <2>5, <2>8 DEF Ok
<1> QED BY <1>1, <1>6, <1>7

(* WFI also writes mepc; the nop behind it is decoded.                     *)
LEMMA WfiOk ==
  ASSUME WellFormed, Bus!StallInv, PipeInv, AnyCsr, NEW wakeup, ExecWfi(wakeup)
  PROVE  Ok
<1>1. /\ Executes /\ id.op \in {"wfi"} /\ Front({}, FALSE, FALSE)
      /\ IrqRegs(FALSE, FALSE, FALSE) /\ UNCHANGED handling /\ Counts
      /\ Bus!ExecWfi(wakeup)
      /\ csr_bus' = CsrOp("wfi", "mepc", {pcp})
  BY Zenon DEF ExecWfi, Sequential, Asks
<1>2. /\ id.op = "wfi" /\ id.op # "nop" /\ id.op # "ecall"
      /\ id.op \in {"load", "loadinst", "csr", "wfi"}
      /\ id.op \in {"csr", "wfi", "alias"}
  BY <1>1
<1>3. /\ ~id.irq /\ Decodes /\ Flowing /\ NextInstr = id.addr
      /\ id.op = OpAt(id.addr)
  BY Zenon, <1>1, <1>2, Executing DEF IdIsInstr
<1>4. cpu_wait' /\ wait_for_interrupt' /\ ~load_mem' /\ ~load_mem0'
  BY Zenon, <1>1, BusSleeps
<1>5. StopPC BY Zenon, <1>1, <1>2, <1>3, StopsFor
<1>6. PipeShape' /\ pipe1'
  <2>1. FALSE \in BOOLEAN OBVIOUS
  <2> QED BY Zenon, <1>1, <1>2, <1>4, <1>5, <2>1, ShapeWaits
<1>7. IrqInv' BY Zenon, <1>1, IrqGoesOn
<1>8. csr_bus'.reg = "mepc" /\ csr_bus'.val = {pcp} BY <1>1 DEF CsrOp
<1>9. NewestMepc' = pcp BY Zenon, <1>8, AsksMepc
<1>10. pcp = NextInstr + 1 /\ instr = pcp BY Zenon, <1>2, <1>3 DEF Flowing
<1>11. MepcInv'
  <2>1. OpAt(instr) = "nop" BY Zenon, <1>2, <1>3, <1>10, ProgramRules
  <2>2. id'.op = "ecall" \/ id'.op = OpAt(instr) BY Zenon, <1>1, <1>3, DecodesNext
  <2>3. id'.op # "mret" BY <2>1, <2>2
  <2> QED BY Zenon, <2>3 DEF MepcInv
<1>12. Simulates
  <2>1. NextInstr' = NextInstr + 1 BY Zenon, <1>1, <1>2, <1>3, <1>6, Follows
  <2>2. Sequential_!Instr(NextInstr).op = "wfi" BY Zenon, <1>1, <1>2, <1>3, SameInstr
  <2>3. Sequential_!Effect({NextInstr + 1})
    BY <1>1, <2>1 DEF Sequential_!Effect, Counts
  <2>4. NewestMepc' \in {NewestMepc, NextInstr, NextInstr + 1} BY <1>9, <1>10
  <2> QED BY Zenon, <1>1, <2>2, <2>3, <2>4 DEF Simulates, Sequential_!Next, Sequential_!Wfi
<1> QED BY Zenon, <1>6, <1>7, <1>11, <1>12 DEF Ok

(* After a jump the pipeline refills from its target.                      *)
LEMMA Redirected ==
  ASSUME NEW a, NEW clears \in BOOLEAN, Front({a}, clears, FALSE),
         ~cpu_wait', ~wait_for_interrupt'
  PROVE  PipeShape' /\ NextInstr' = a /\ ~pipe0' /\ ~pipe1'
<1>1. /\ pc' = a /\ inst_addr' = a /\ flush' /\ ~pipe0' /\ ~pipe1' /\ id' = NoInstr
  BY FetchJumps
<1>2. id' = NoInstr' BY <1>1 DEF NoInstr
<1>3. Refilling' BY Zenon, <1>1, <1>2 DEF Refilling
<1>4. NextInstr' = a BY Zenon, <1>1 DEF NextInstr
<1> QED BY Zenon, <1>1, <1>3, <1>4 DEF PipeShape

(* Jumps and taken branches.                                               *)
LEMMA JumpOk ==
  ASSUME WellFormed, Bus!StallInv, PipeInv, AnyCsr, NEW r, NEW wakeup,
         ExecJump(r, wakeup)
  PROVE  Ok
<1>1. /\ Executes /\ id.op \in {"jump", "branch"}
      /\ \/ Front({id.pcp + id.off}, TRUE, FALSE)
         \/ id.op = "branch" /\ Front({}, FALSE, FALSE)
      /\ IrqRegs(FALSE, FALSE, FALSE) /\ Asks(NoCsr)
      /\ Bus!ExecOther(r, wakeup) /\ Counts /\ UNCHANGED handling
  BY Zenon DEF ExecJump
<1>2. id.op \notin {"ecall", "load", "loadinst", "csr", "wfi"} /\ id.op # "nop" BY <1>1
<1>3. ~id.irq
  <2>1. id.op # "ecall" BY <1>2
  <2> QED BY Zenon, <1>1, <2>1, Executing
<1>4. ~cpu_wait' /\ ~wait_for_interrupt' BY Zenon, <1>1, BusGoesOn
<1>5. NewestMepc' = NewestMepc /\ MepcInv' BY <1>1, NothingAsked
<1>6. CASE Front({id.pcp + id.off}, TRUE, FALSE)
  <2>0. TRUE \in BOOLEAN /\ FALSE \in BOOLEAN OBVIOUS
  <2>1. PipeShape' /\ NextInstr' = id.pcp + id.off /\ ~pipe0' /\ ~pipe1'
    BY Zenon, <1>4, <1>6, <2>0, Redirected
  <2>2. IrqInv' BY Zenon, <1>1, <1>3, <2>0, <2>1, IrqJumps
  <2>3. /\ Sequential_!Instr(NextInstr).op = id.op
        /\ NextInstr' = NextInstr + Sequential_!Instr(NextInstr).off
    BY Zenon, <1>1, <1>2, <1>3, <2>1, SameInstr
  <2>4. /\ Sequential_!Effect({NextInstr + Sequential_!Instr(NextInstr).off})
        /\ Sequential_!Effect({NextInstr + 1,
                               NextInstr + Sequential_!Instr(NextInstr).off})
    BY <1>1, <2>3 DEF Sequential_!Effect, Counts
  <2>5. id.op = "jump" \/ id.op = "branch" BY <1>1
  <2>6. Simulates
    BY Zenon, <1>1, <1>5, <2>3, <2>4, <2>5
       DEF Simulates, Sequential_!Next, Sequential_!Step
  <2> QED BY Zenon, <1>5, <2>1, <2>2, <2>6 DEF Ok
<1>7. CASE id.op = "branch" /\ Front({}, FALSE, FALSE)
  <2>1. PipeShape' /\ IrqInv' /\ pipe1' BY <1>1, <1>2, <1>4, <1>7, StepGoesOn
  <2>2. id.op \in Sequential_!Sequential \cup {"nop", "branch"} BY <1>7
  <2>3. IF id.op = "nop" THEN UNCHANGED parity ELSE Counts BY Zenon, <1>1, <1>2
  <2>4. Simulates
    BY Zenon, <1>1, <1>3, <1>5, <1>7, <2>1, <2>2, <2>3, SimulatesFollowing
  <2> QED BY Zenon, <1>5, <2>1, <2>4 DEF Ok
<1> QED BY <1>1, <1>6, <1>7

(* An ECALL of the program, or the entry of an interrupt.                  *)
LEMMA EcallOk ==
  ASSUME WellFormed, Bus!StallInv, PipeInv, AnyCsr, NEW wakeup, ExecEcall(wakeup)
  PROVE  Ok
<1>1. /\ Executes /\ id.op = "ecall" /\ Front({TrapTarget}, TRUE, FALSE)
      /\ IrqRegs(TRUE, TRUE, FALSE)
      /\ csr_bus' = [op |-> "ecall", reg |-> "mepc", val |-> {id.pcp},
                     cause |-> IF start_irq THEN cause ELSE EcallCause]
      /\ Bus!ExecCsrWrite(wakeup)
      /\ handling' = (handling \/ start_irq)
      /\ IF start_irq THEN UNCHANGED parity ELSE Counts
  BY Zenon DEF ExecEcall, Asks
<1>2. IrqInv /\ ~reset_cur_irq /\ (id.irq <=> start_irq) /\ Vectored
  BY Zenon, <1>1, Executing DEF PipeInv, WellFormed
<1>3. ~cpu_wait' /\ ~wait_for_interrupt' BY Zenon, <1>1, BusGoesOn
<1>4. PipeShape' /\ NextInstr' = TrapTarget /\ ~pipe0' /\ ~pipe1'
  <2>0. TRUE \in BOOLEAN OBVIOUS
  <2> QED BY Zenon, <1>1, <1>3, <2>0, Redirected
<1>5. csr_bus'.reg = "mepc" /\ csr_bus'.val = {id.pcp} BY <1>1
<1>6. NewestMepc' = id.pcp BY Zenon, <1>5, AsksMepc
<1>7. MepcInv' BY Zenon, <1>4 DEF MepcInv
<1>8. /\ ~start_irq' /\ ~reset_cur_irq'
      /\ cur_irq' = IF start_irq THEN cause ELSE cur_irq
  BY Zenon, <1>1, <1>2 DEF IrqRegs
<1>9. start_irq => cause \in Causes /\ cause # 0 /\ ~handling
  BY <1>2, CorePipeAssumption DEF IrqInv
<1>10. IrqInv'
  <2>1. handling' => cur_irq' # 0 BY Zenon, <1>1, <1>2, <1>8, <1>9 DEF IrqInv
  <2>2. handling' \in BOOLEAN BY <1>1
  <2> QED BY Zenon, <1>2, <1>4, <1>8, <2>1, <2>2, CauseKept DEF IrqInv
<1>11. Simulates
  <2>1. CASE start_irq
    <3>1. NextInstr = id.pcp BY Zenon, <1>1, <1>2, <2>1, Executing
    <3>2. TrapTarget = Vector[cause] BY Zenon, <1>2, <1>9, <2>1 DEF TrapTarget
    <3>3. \E c \in DOMAIN Vector : NextInstr' = Vector[c]
      BY Zenon, <1>4, <1>9, <2>1, <3>2 DEF Causes
    <3>4. handling' = TRUE BY Zenon, <1>1, <2>1
    <3> QED BY Zenon, <1>1, <1>6, <1>9, <2>1, <3>1, <3>3, <3>4
            DEF Simulates, Sequential_!Next, Sequential_!Irq
  <2>2. CASE ~start_irq
    <3>1. ~id.irq /\ id.op # "nop" BY <1>1, <1>2, <2>2
    <3>2. Sequential_!Instr(NextInstr).op = "ecall" /\ id.pcp = NextInstr
      BY Zenon, <1>1, <3>1, SameInstr
    <3>3. NextInstr' = TrapBase BY Zenon, <1>4, <2>2 DEF TrapTarget
    <3>4. handling' = handling
      <4>1. handling \in BOOLEAN BY Zenon, <1>2 DEF IrqInv
      <4> QED BY Zenon, <1>1, <2>2, <4>1
    <3>5. Sequential_!Effect({TrapBase}) BY <1>1, <2>2, <3>3 DEF Sequential_!Effect, Counts
    <3> QED BY Zenon, <1>6, <3>2, <3>4, <3>5
            DEF Simulates, Sequential_!Next, Sequential_!Step
  <2> QED BY <2>1, <2>2
<1> QED BY Zenon, <1>4, <1>7, <1>10, <1>11 DEF Ok

(* MRET reads mepc itself: nothing on the bus is about to change it.       *)
LEMMA MretOk ==
  ASSUME WellFormed, Bus!StallInv, PipeInv, AnyCsr, NEW wakeup, ExecMret(wakeup)
  PROVE  Ok
<1>1. /\ Executes /\ id.op = "mret" /\ Front({mepc}, TRUE, FALSE)
      /\ IrqRegs(FALSE, FALSE, TRUE) /\ csr_bus' = CsrOp("rw", "none", {})
      /\ Bus!ExecCsrWrite(wakeup) /\ handling' = FALSE /\ Counts
  BY Zenon DEF ExecMret, Asks
<1>2. id.op # "ecall" BY <1>1
<1>3. ~id.irq /\ pipe1 BY Zenon, <1>1, <1>2, Executing
<1>4. ~cpu_wait' /\ ~wait_for_interrupt' BY Zenon, <1>1, BusGoesOn
<1>5. TRUE \in BOOLEAN /\ FALSE \in BOOLEAN OBVIOUS
<1>6. PipeShape' /\ NextInstr' = mepc /\ ~pipe0' /\ ~pipe1'
  BY Zenon, <1>1, <1>4, <1>5, Redirected
<1>7. csr_bus'.reg # "mepc" BY <1>1 DEF CsrOp
<1>8. NewestMepc' = NewestMepc /\ MepcInv' BY <1>7, AsksNoMepc
<1>9. IrqInv'
  <2>1. handling' = handling \/ handling' = FALSE BY <1>1
  <2>2. TRUE => handling' = FALSE BY <1>1
  <2> QED BY Zenon, <1>1, <1>3, <1>5, <1>6, <2>1, <2>2, IrqJumps
<1>10. mepc = NewestMepc BY Zenon, <1>1, <1>3 DEF PipeInv, MepcInv, NewestMepc
<1>11. Sequential_!Instr(NextInstr).op = "mret" BY Zenon, <1>1, <1>3, SameInstr
<1>12. Sequential_!Effect({NewestMepc})
  BY <1>1, <1>6, <1>10 DEF Sequential_!Effect, Counts
<1>13. Simulates
  BY Zenon, <1>1, <1>8, <1>11, <1>12 DEF Simulates, Sequential_!Next, Sequential_!Step
<1> QED BY Zenon, <1>6, <1>8, <1>9, <1>13 DEF Ok

(* An illegal instruction restarts the pipeline, whatever it was.          *)
LEMMA IllegalOk ==
  ASSUME WellFormed, Bus!StallInv, PipeInv, AnyCsr, NEW r, NEW wakeup,
         ExecIllegal(r, wakeup)
  PROVE  Ok
<1>1. /\ Executes /\ id.op = "illegal" /\ Front({TrapTarget}, FALSE, FALSE)
      /\ IrqRegs(FALSE, TRUE, FALSE) /\ Asks(NoCsr)
      /\ Bus!ExecOther(r, wakeup) /\ Counts /\ UNCHANGED handling
  BY Zenon DEF ExecIllegal
<1>2. id.op # "ecall" BY <1>1
<1>3. ~id.irq /\ ~start_irq BY Zenon, <1>1, <1>2, Executing
<1>4. ~cpu_wait' /\ ~wait_for_interrupt' BY Zenon, <1>1, BusGoesOn
<1>5. TRUE \in BOOLEAN /\ FALSE \in BOOLEAN OBVIOUS
<1>6. PipeShape' /\ NextInstr' = TrapTarget /\ ~pipe0' /\ ~pipe1'
  BY Zenon, <1>1, <1>4, <1>5, Redirected
<1>7. NewestMepc' = NewestMepc /\ MepcInv' BY <1>1, NothingAsked
<1>8. IrqInv' BY Zenon, <1>1, <1>3, <1>5, <1>6, IrqJumps
<1>9. Sequential_!Instr(NextInstr).op = "illegal" BY Zenon, <1>1, <1>3, SameInstr
<1>10. NextInstr' = TrapBase BY Zenon, <1>3, <1>6 DEF TrapTarget
<1>11. Sequential_!Effect({TrapBase}) BY <1>1, <1>10 DEF Sequential_!Effect, Counts
<1>12. Simulates
  BY Zenon, <1>1, <1>7, <1>9, <1>11 DEF Simulates, Sequential_!Next, Sequential_!Step
<1> QED BY Zenon, <1>6, <1>7, <1>8, <1>12 DEF Ok

(* No instruction executes: the pipeline fills, or waits.                  *)
LEMMA WaitingBus ==
  ASSUME Bus!StallInv, cpu_wait, NEW r, NEW wakeup, Bus!NoExec(r, wakeup)
  PROVE  \/ /\ ~wait_for_interrupt /\ ~cpu_wait' /\ ~wait_for_interrupt'
            /\ ~mask_data_en /\ LoadDataOk
         \/ /\ ~wait_for_interrupt /\ cpu_wait' /\ ~wait_for_interrupt' /\ ~LoadDataOk
            /\ ~mask_data_en' /\ (load_mem' => load_mem0 /\ mask_data_en)
         \/ /\ wait_for_interrupt /\ ~load_mem0
            /\ (cpu_wait' <=> wait_for_interrupt') /\ ~load_mem0' /\ ~load_mem'
<1>1. Bus!Commit(cpu_wait, wait_for_interrupt, mask_data_en, rwb, load_mem0, wakeup)
  BY Zenon DEF Bus!NoExec
<1>2. Bus!StallShape /\ (rwb /\ load_mem0 /\ ~mask_data_en => load_mem)
  BY Zenon DEF Bus!StallInv
<1>3. CASE wait_for_interrupt
  <2>1. ~rwb /\ ~load_mem0 /\ ~Bus!Writeback
    BY Zenon, <1>2, <1>3 DEF Bus!StallShape, Bus!Writeback
  <2> QED BY Zenon, <1>1, <1>3, <2>1 DEF Bus!Commit
<1>4. CASE ~wait_for_interrupt
  <2>1. rwb BY Zenon, <1>2, <1>4 DEF Bus!StallShape
  <2>2. LoadDataOk <=> Bus!Writeback
    BY Zenon, <1>2, <2>1 DEF LoadDataOk, Bus!Writeback, Bus!StallShape
  <2>3. Bus!Writeback => ~mask_data_en BY Zenon DEF Bus!Writeback
  <2>4. load_mem0 /\ ~Bus!Writeback => mask_data_en
    BY Zenon, <1>2, <2>1 DEF Bus!Writeback
  <2>5. CASE Bus!Writeback BY Zenon, <1>1, <1>4, <2>2, <2>3, <2>5 DEF Bus!Commit
  <2>6. CASE ~Bus!Writeback BY Zenon, <1>1, <1>4, <2>2, <2>4, <2>6 DEF Bus!Commit
  <2> QED BY <2>5, <2>6
<1> QED BY <1>3, <1>4

LEMMA NoExecOk ==
  ASSUME WellFormed, Bus!StallInv, PipeInv, AnyCsr, NEW r, NEW wakeup,
         NoExec(r, wakeup)
  PROVE  Ok
<1>1. /\ ~Executes /\ Front({}, FALSE, FALSE)
      /\ start_irq' <=> (start_irq \/ (Decodes /\ MustStartIrq))
      /\ cur_irq' = IF reset_cur_irq THEN 0 ELSE cur_irq
      /\ ~reset_cur_irq'
      /\ Asks(NoCsr) /\ Bus!NoExec(r, wakeup)
      /\ handling' = handling /\ parity' = parity
  BY Zenon DEF NoExec
<1>2. NewestMepc' = NewestMepc /\ MepcInv' BY <1>1, NothingAsked
<1>3. IrqInv BY DEF PipeInv
<1>4. FALSE \in BOOLEAN OBVIOUS
<1>5. Refilling \/ Filling \/ Waiting
  BY Zenon, <1>1 DEF PipeInv, PipeShape, Flowing, Skewed, Executes
<1>6. ASSUME pipe1' => (id'.irq <=> start_irq'), ~reset_cur_irq \/ ~Decodes
      PROVE  IrqInv'
  <2>1. start_irq' => irq' /\ cur_irq' = 0 /\ ~handling'
    BY Zenon, <1>1, <1>3, <1>6, StartKept
  <2>2. handling' => cur_irq' # 0
    BY Zenon, <1>1, <1>3 DEF IrqInv
  <2>3. handling' \in BOOLEAN BY Zenon, <1>1, <1>3 DEF IrqInv
  <2> QED BY Zenon, <1>1, <1>3, <1>6, <2>1, <2>2, <2>3, CauseKept DEF IrqInv
<1>7. ASSUME NextInstr' = NextInstr PROVE Simulates
  BY Zenon, <1>1, <1>2, <1>7 DEF Simulates, Sequential_!vars
<1>8. CASE Refilling
  <2>1. ~Decodes /\ ~pipe0 /\ ~pipe1 /\ ~cpu_wait /\ ~wait_for_interrupt /\ id = NoInstr
    BY Zenon, <1>8 DEF Refilling, Decodes
  <2>2. ~cpu_wait' /\ ~wait_for_interrupt'
    BY Zenon, <1>1, <2>1 DEF Bus!NoExec, Bus!Commit
  <2>3. id' = NoInstr' /\ (rcsr_op_with_read' <=> rcsr_op_with_read)
    BY Zenon, <1>1, <1>4, <2>1, DecodesNothing DEF NoInstr
  <2>4. id.op \notin Loads BY <2>1 DEF NoInstr, Loads
  <2>5. StopPC <=> rcsr_op_with_read BY Zenon, <2>1, <2>4 DEF StopPC, StopsEarly
  <2>6. CASE rcsr_op_with_read
    <3>1. /\ pc' = pc /\ inst_addr' = pc /\ ~pipe0' /\ ~pipe1'
      BY Zenon, <1>1, <1>4, <2>1, <2>5, <2>6, FetchStops
    <3>2. Refilling' BY Zenon, <2>2, <2>3, <2>6, <3>1 DEF Refilling
    <3>3. NextInstr' = NextInstr BY Zenon, <2>1, <3>1 DEF NextInstr
    <3> QED BY Zenon, <1>2, <1>6, <1>7, <2>1, <3>1, <3>2, <3>3 DEF Ok, PipeShape
  <2>7. CASE ~rcsr_op_with_read
    <3>1. /\ pc' = pc + 1 /\ pcp' = pc /\ inst_addr' = pc + 1 /\ instr' = inst_addr
          /\ ~flush' /\ pipe0' /\ ~pipe1'
      BY Zenon, <1>1, <2>1, <2>5, <2>7, FetchGoesOn
    <3>2. inst_addr = pc BY Zenon, <1>8 DEF Refilling
    <3>3. Filling' BY Zenon, <2>2, <2>3, <2>7, <3>1, <3>2 DEF Filling
    <3>4. NextInstr' = NextInstr BY Zenon, <2>1, <3>1 DEF NextInstr
    <3> QED BY Zenon, <1>2, <1>6, <1>7, <2>1, <3>1, <3>3, <3>4 DEF Ok, PipeShape
  <2> QED BY <2>6, <2>7
<1>9. CASE Filling
  <2>1. /\ Decodes /\ pipe0 /\ ~pipe1 /\ ~cpu_wait /\ ~wait_for_interrupt /\ id = NoInstr
        /\ ~rcsr_op_with_read /\ instr = pcp /\ pc = pcp + 1 /\ inst_addr = pc
    BY Zenon, <1>9 DEF Filling, Decodes
  <2>2. ~cpu_wait' /\ ~wait_for_interrupt'
    BY Zenon, <1>1, <2>1 DEF Bus!NoExec, Bus!Commit
  <2>3. id.op \notin Loads BY <2>1 DEF NoInstr, Loads
  <2>4. ~StopPC BY Zenon, <2>1, <2>3 DEF StopPC, StopsEarly
  <2>5. /\ pc' = pc + 1 /\ pcp' = pc /\ inst_addr' = pc + 1 /\ instr' = inst_addr
        /\ ~flush' /\ pipe0' /\ pipe1'
    BY Zenon, <1>1, <2>1, <2>4, FetchGoesOn
  <2>6. id'.addr = instr /\ id'.pcp = pcp /\ (id'.irq <=> MustStartIrq)
    BY Zenon, <1>1, <1>4, <2>1, DecodesNext
  <2>7. IdIsInstr' BY Zenon, <1>1, <1>4, <2>1, DecodedIsInstr
  <2>8. Flowing' BY Zenon, <2>1, <2>2, <2>5, <2>6, <2>7 DEF Flowing
  <2>9. NextInstr' = NextInstr BY Zenon, <2>1, <2>5, <2>6 DEF NextInstr
  <2>10. start_irq => MustStartIrq BY Zenon, <1>3 DEF IrqInv, MustStartIrq
  <2>11. ~reset_cur_irq BY Zenon, <1>3, <2>1 DEF IrqInv
  <2>12. IrqInv' BY Zenon, <1>1, <1>6, <2>1, <2>6, <2>10, <2>11
  <2> QED BY Zenon, <1>2, <1>7, <2>8, <2>9, <2>12 DEF Ok, PipeShape
<1>10. CASE Waiting
  <2>1. /\ ~Decodes /\ pipe0 /\ pipe1 /\ cpu_wait /\ pc = pcp + 1 /\ IdIsInstr
        /\ ~id.irq => pcp = id.addr
        /\ IF load_mem0 /\ mask_data_en THEN inst_addr = NoAddr ELSE inst_addr = pc
    BY Zenon, <1>10 DEF Waiting, Decodes
  <2>2. id' = id /\ (rcsr_op_with_read' <=> rcsr_op_with_read)
    BY Zenon, <1>1, <1>4, <2>1, DecodesNothing
  <2>3. IdIsInstr' BY Zenon, <2>1, <2>2 DEF IdIsInstr, StopsAt, OpAt, I!Instr
  <2>4. ASSUME pipe1' PROVE NextInstr' = NextInstr /\ IrqInv'
    <3>1. NextInstr' = NextInstr BY Zenon, <2>1, <2>2, <2>4 DEF NextInstr
    <3>2. pipe1' => (id'.irq <=> start_irq')
      BY Zenon, <1>1, <1>3, <2>1, <2>2 DEF IrqInv
    <3> QED BY Zenon, <1>6, <2>1, <3>1, <3>2
  <2>5. CASE /\ ~wait_for_interrupt /\ ~cpu_wait' /\ ~wait_for_interrupt'
             /\ ~mask_data_en /\ LoadDataOk
    <3>1. ~StopPC BY Zenon, <2>1, <2>5 DEF StopPC, StopsEarly
    <3>2. /\ pc' = pc + 1 /\ pcp' = pc /\ inst_addr' = pc + 1 /\ instr' = inst_addr
          /\ ~flush' /\ pipe0' /\ pipe1'
      BY Zenon, <1>1, <2>1, <3>1, FetchGoesOn
    <3>3. ~id'.irq => pcp' = id'.addr + 1 BY Zenon, <2>1, <2>2, <3>2
    <3>4. inst_addr = pc BY Zenon, <2>1, <2>5
    <3>5. Flowing' BY Zenon, <2>3, <2>5, <3>2, <3>3, <3>4 DEF Flowing
    <3> QED BY Zenon, <1>2, <1>7, <2>4, <3>2, <3>5 DEF Ok, PipeShape
  <2>6. CASE /\ ~wait_for_interrupt /\ cpu_wait' /\ ~wait_for_interrupt' /\ ~LoadDataOk
             /\ ~mask_data_en' /\ (load_mem' => load_mem0 /\ mask_data_en)
    <3>1. StopPC BY Zenon, <2>1, <2>6 DEF StopPC
    <3>2. /\ pc' = pc /\ pcp' = pcp /\ inst_addr' = pc /\ instr' = inst_addr
          /\ ~flush' /\ pipe0' /\ pipe1'
      BY Zenon, <1>1, <1>4, <2>1, <3>1, FetchStops
    <3>3. load_mem' => instr' = NoAddr BY Zenon, <2>1, <2>6, <3>2
    <3>4. IF load_mem0' /\ mask_data_en' THEN inst_addr' = NoAddr ELSE inst_addr' = pc'
      BY Zenon, <2>6, <3>2
    <3>5. Waiting' BY Zenon, <2>1, <2>2, <2>3, <2>6, <3>2, <3>3, <3>4 DEF Waiting
    <3> QED BY Zenon, <1>2, <1>7, <2>4, <3>2, <3>5 DEF Ok, PipeShape
  <2>7. CASE /\ wait_for_interrupt /\ ~load_mem0
             /\ (cpu_wait' <=> wait_for_interrupt') /\ ~load_mem0' /\ ~load_mem'
    <3>1. StopPC BY Zenon, <2>7 DEF StopPC
    <3>2. /\ pc' = pc /\ pcp' = pcp /\ inst_addr' = pc /\ instr' = inst_addr
          /\ ~flush' /\ pipe0' /\ pipe1'
      BY Zenon, <1>1, <1>4, <2>1, <3>1, FetchStops
    <3>3. /\ inst_addr = pc /\ ~rcsr_op_with_read
          /\ OpAt(pcp) = "nop" /\ OpAt(pc) = "nop"
      BY Zenon, <1>10, <2>1, <2>7 DEF Waiting
    <3>4. OpAt(pcp)' = "nop" /\ OpAt(pc)' = "nop"
      BY Zenon, <3>2, <3>3 DEF OpAt, I!Instr
    <3>5. CASE cpu_wait'
      <4>1. IF load_mem0' /\ mask_data_en' THEN inst_addr' = NoAddr ELSE inst_addr' = pc'
        BY Zenon, <2>7, <3>2
      <4>2. Waiting' BY Zenon, <2>1, <2>2, <2>3, <2>7, <3>2, <3>3, <3>4, <3>5, <4>1 DEF Waiting
      <4> QED BY Zenon, <1>2, <1>7, <2>4, <3>2, <4>2 DEF Ok, PipeShape
    <3>6. CASE ~cpu_wait'
      <4>1. Skewed' BY Zenon, <2>1, <2>2, <2>3, <2>7, <3>2, <3>3, <3>4, <3>6 DEF Skewed
      <4> QED BY Zenon, <1>2, <1>7, <2>4, <3>2, <4>1 DEF Ok, PipeShape
    <3> QED BY <3>5, <3>6
  <2> QED BY Zenon, <1>1, <2>1, <2>5, <2>6, <2>7, WaitingBus
<1> QED BY <1>5, <1>8, <1>9, <1>10

(* Every edge preserves the invariant and is a step of the sequential      *)
(* machine, or none.                                                       *)
LEMMA EdgeOk ==
  ASSUME WellFormed, Bus!StallInv, PipeInv, Next
  PROVE  PipeInv' /\ Simulates
<1>1. AnyCsr /\ \E wakeup \in BOOLEAN, r \in Bus!DmaRequests : Edge(r, wakeup)
  BY Zenon DEF Next
<1>2. PICK wakeup \in BOOLEAN, r \in Bus!DmaRequests : Edge(r, wakeup)
  BY <1>1
<1>3. CASE ExecOp(r, wakeup) BY <1>1, <1>3, OpOk DEF Ok, PipeInv
<1>4. CASE ExecLoad(wakeup) \/ ExecLoadInst(r, wakeup) \/ ExecCsrRead(wakeup)
  BY <1>1, <1>4, ReadOk DEF Ok, PipeInv
<1>5. CASE ExecLoadX0(wakeup) \/ ExecStore(wakeup)
  BY <1>1, <1>5, QuietOk DEF Ok, PipeInv
<1>6. CASE ExecCsrWrite(wakeup) BY <1>1, <1>6, CsrWriteOk DEF Ok, PipeInv
<1>7. CASE ExecWfi(wakeup) BY <1>1, <1>7, WfiOk DEF Ok, PipeInv
<1>8. CASE ExecJump(r, wakeup) BY <1>1, <1>8, JumpOk DEF Ok, PipeInv
<1>9. CASE ExecEcall(wakeup) BY <1>1, <1>9, EcallOk DEF Ok, PipeInv
<1>10. CASE ExecMret(wakeup) BY <1>1, <1>10, MretOk DEF Ok, PipeInv
<1>11. CASE ExecIllegal(r, wakeup) BY <1>1, <1>11, IllegalOk DEF Ok, PipeInv
<1>12. CASE NoExec(r, wakeup) BY <1>1, <1>12, NoExecOk DEF Ok, PipeInv
<1> QED BY Zenon, <1>2, <1>3, <1>4, <1>5, <1>6, <1>7, <1>8, <1>9, <1>10, <1>11, <1>12
        DEF Edge

(* A step that changes nothing of the pipeline.                            *)
LEMMA UnchangedOk ==
  ASSUME PipeInv, UNCHANGED vars
  PROVE  PipeInv' /\ UNCHANGED Sequential_!vars
<1>1. /\ UNCHANGED <<cpu_wait, wait_for_interrupt, mask_data_en, load_mem0, load_mem>>
      /\ UNCHANGED pipeVars /\ UNCHANGED irqVars /\ UNCHANGED <<handling, parity>>
  BY DEF vars, busVars
<1>2. UNCHANGED <<pc, pcp, inst_addr, instr, pipe0, pipe1, flush, id, rcsr_op_with_read>>
  BY <1>1 DEF pipeVars
<1>3. UNCHANGED <<irq, cause, start_irq, cur_irq, reset_cur_irq, mepc, csr_bus>>
  BY <1>1 DEF irqVars
<1>4. IdIsInstr <=> IdIsInstr'
  BY Zenon, <1>2 DEF IdIsInstr, StopsAt, OpAt, I!Instr
<1>5. OpAt(pcp)' = OpAt(pcp) /\ OpAt(pc)' = OpAt(pc) BY Zenon, <1>2 DEF OpAt, I!Instr
<1>6. NoInstr' = NoInstr BY DEF NoInstr
<1>7. PipeShape'
  BY Zenon, <1>1, <1>2, <1>4, <1>5, <1>6
     DEF PipeInv, PipeShape, Refilling, Filling, Flowing, Skewed, Waiting
<1>8. IrqInv' /\ MepcInv' BY <1>1, <1>2, <1>3 DEF PipeInv, IrqInv, MepcInv
<1>9. NextInstr' = NextInstr BY Zenon, <1>2 DEF NextInstr
<1>10. NewestMepc' = NewestMepc BY <1>3 DEF NewestMepc, ValueOf
<1> QED BY <1>1, <1>7, <1>8, <1>9, <1>10 DEF PipeInv, Sequential_!vars

-----------------------------------------------------------------------------
(* The pipeline is one of the instruction streams CoreBus allows: what is  *)
(* proved of the bus holds of it.                                          *)
THEOREM BusRefined == Spec => Bus!Spec
<1>1. Init => Bus!Init BY Zenon DEF Init, PipeInit, Bus!Init
<1>2. ASSUME Next PROVE Bus!Next
  <2>1. Bus!SlaveCycle BY <1>2 DEF Next
  <2>2. PICK wakeup \in BOOLEAN, r \in Bus!DmaRequests : Edge(r, wakeup)
    BY <1>2 DEF Next
  <2>3. Bus!CoreCycle(r, wakeup)
    BY Zenon, <2>2
       DEF Edge, ExecOp, ExecLoad, ExecLoadInst, ExecLoadX0, ExecStore, ExecCsrRead,
           ExecCsrWrite, ExecWfi, ExecJump, ExecEcall, ExecMret, ExecIllegal, NoExec,
           Bus!CoreCycle, Bus!FreeCycle, Bus!BusyCycle
  <2> QED BY <2>1, <2>2, <2>3 DEF Bus!Next
<1>3. UNCHANGED vars => UNCHANGED Bus!vars BY DEF vars, busVars, Bus!vars
<1> QED BY <1>1, <1>2, <1>3, PTL DEF Spec, Bus!Spec

(* In every state the pipeline is fed, stalled or lent exactly as the bus is *)
(* (StallInv of CoreBus), for every program.                               *)
THEOREM PipeStalls == Spec => []Bus!StallInv
<1>1. BP!CoreBusAssumption
  BY CorePipeBusAssumption
     DEF Bus!CoreBusAssumption, BP!CoreBusAssumption, Bus!Slaves, BP!Slaves
<1>2. BP!Spec => []BP!StallInv BY <1>1, BP!StallInvariant, PTL
<1>4. (Bus!Init => BP!Init) /\ (Bus!Next => BP!Next)
  BY Zenon
     DEF Bus!Init, BP!Init, Bus!CoreInit, BP!CoreInit, Bus!SlaveInit,
         BP!SlaveInit, Bus!Next, BP!Next, Bus!SlaveCycle,
         BP!SlaveCycle, Bus!CoreCycle, BP!CoreCycle, Bus!FreeCycle,
         BP!FreeCycle, Bus!BusyCycle, BP!BusyCycle, Bus!ExecOther,
         BP!ExecOther, Bus!ExecLoad, BP!ExecLoad, Bus!ExecLoadInst,
         BP!ExecLoadInst, Bus!ExecLoadX0, BP!ExecLoadX0,
         Bus!ExecStore, BP!ExecStore, Bus!ExecCsrRead, BP!ExecCsrRead,
         Bus!ExecCsrWrite, BP!ExecCsrWrite, Bus!ExecWfi, BP!ExecWfi,
         Bus!NoExec, BP!NoExec, Bus!Commit, BP!Commit, Bus!Lend,
         BP!Lend, Bus!Drive, BP!Drive, Bus!Writeback, BP!Writeback,
         Bus!DmaRequests, BP!DmaRequests
<1>5. UNCHANGED Bus!vars => UNCHANGED BP!vars BY DEF Bus!vars, BP!vars
<1>6. Bus!Spec => BP!Spec BY <1>4, <1>5, PTL DEF Bus!Spec, BP!Spec
<1>3. BP!StallInv <=> Bus!StallInv
  BY DEF BP!StallInv, Bus!StallInv, BP!StallShape, Bus!StallShape, BP!FirstStallCycle,
         Bus!FirstStallCycle, BP!LaterStallCycle, Bus!LaterStallCycle
<1> QED BY <1>2, <1>3, <1>6, BusRefined, PTL

(* The shapes the pipeline can have, and the interrupt registers.          *)
THEOREM PipeInvariant == WellFormed => (Spec => []PipeInv)
<1> SUFFICES ASSUME WellFormed PROVE Spec => []PipeInv OBVIOUS
<1>1. Init => PipeInv
  <2> SUFFICES ASSUME Init PROVE PipeInv OBVIOUS
  <2>1. ~cpu_wait /\ ~wait_for_interrupt BY DEF Init, PipeInit, Bus!CoreInit
  <2>2. Refilling BY Zenon, <2>1 DEF Init, PipeInit, Refilling
  <2>3. IrqInv BY DEF Init, PipeInit, IrqInv
  <2>4. MepcInv BY DEF Init, PipeInit, MepcInv
  <2> QED BY <2>2, <2>3, <2>4 DEF PipeInv, PipeShape
<1>2. Bus!StallInv /\ PipeInv /\ [Next]_vars => PipeInv'
  BY EdgeOk, UnchangedOk
<1> QED BY <1>1, <1>2, PipeStalls, PTL DEF Spec

(* What the pipeline executes is what the sequential machine executes:     *)
(* each instruction once and in order, interrupts between two of them, and *)
(* none inside a handler (InProgramOrder).                                 *)
THEOREM ProgramOrder == WellFormed => (Spec => InProgramOrder)
<1> SUFFICES ASSUME WellFormed PROVE Spec => InProgramOrder OBVIOUS
<1>1. Init => Sequential_!Init
  <2> SUFFICES ASSUME Init PROVE Sequential_!Init OBVIOUS
  <2>1. NextInstr = 0 BY Zenon DEF Init, PipeInit, NextInstr
  <2>2. csr_bus.reg # "mepc" BY DEF Init, PipeInit, NoCsr
  <2>3. NewestMepc = 0 BY Zenon, <2>2 DEF Init, NewestMepc
  <2> QED BY Zenon, <2>1, <2>3 DEF Init, PipeInit, Sequential_!Init
<1>2. Bus!StallInv /\ PipeInv /\ [Next]_vars => [Sequential_!Next]_(Sequential_!vars)
  BY EdgeOk, UnchangedOk DEF Simulates
<1> QED BY <1>1, <1>2, PipeStalls, PipeInvariant, PTL
        DEF Spec, InProgramOrder, Sequential_!Spec

(* A load from instruction memory writes back the word at its address: at  *)
(* that edge the memory delivers no instruction.                           *)
THEOREM InstLoadOwnData == WellFormed => (Spec => []InstLoadGetsOwnData)
<1> SUFFICES ASSUME WellFormed PROVE Spec => []InstLoadGetsOwnData OBVIOUS
<1>1. Bus!StallInv /\ PipeInv => InstLoadGetsOwnData
  <2> SUFFICES ASSUME Bus!StallInv, PipeInv, Bus!Writeback, load_mem
               PROVE  instr = NoAddr
    BY DEF InstLoadGetsOwnData
  <2>1. cpu_wait BY Zenon DEF Bus!StallInv, Bus!StallShape, Bus!Writeback
  <2> QED BY Zenon, <2>1 DEF PipeInv, PipeShape, Refilling, Filling, Flowing, Skewed, Waiting
<1> QED BY <1>1, PipeStalls, PipeInvariant, PTL

(* start_irq belongs to the interrupt that is executed next: a trap of the *)
(* program is never taken for one, although start_irq stays set when the   *)
(* jump in front flushes what decode had replaced (risc-V_core.h:444).     *)
THEOREM StartIsInterrupt == WellFormed => (Spec => [](Executes => (start_irq <=> id.irq)))
<1> SUFFICES ASSUME WellFormed PROVE Spec => [](Executes => (start_irq <=> id.irq))
  OBVIOUS
<1>1. PipeInv => (Executes => (start_irq <=> id.irq)) BY Zenon, Executing
<1> QED BY <1>1, PipeInvariant, PTL

=============================================================================
