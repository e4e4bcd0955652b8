--------------------------- MODULE CoreBusProofs ---------------------------
(***************************************************************************)
(* Theorems about CoreBus, for any DMA (any set of accesses, requested in  *)
(* any order) and any instruction stream.                                  *)
(***************************************************************************)
EXTENDS CoreBus, TLAPS

BusType == [cs : BOOLEAN, wr : BOOLEAN, owner : Owners, to : Slaves,
            acc : Accesses \cup {NoAccess}]

(* The registers keep their types.  What drives the bus differs from       *)
(* action to action; Commit and the slaves are common to every cycle.      *)
LEMMA CommitType ==
  ASSUME TypeOK, NEW wait \in BOOLEAN, NEW wfi \in BOOLEAN, NEW mask \in BOOLEAN,
         NEW wb \in BOOLEAN, NEW inst \in BOOLEAN, NEW wakeup \in BOOLEAN,
         Commit(wait, wfi, mask, wb, inst, wakeup)
  PROVE  /\ cpu_wait' \in BOOLEAN /\ wait_for_interrupt' \in BOOLEAN
         /\ mask_data_en' \in BOOLEAN /\ rwb' \in BOOLEAN
         /\ load_mem0' \in BOOLEAN /\ load_mem' \in BOOLEAN
  BY Zenon DEF Commit

LEMMA SlaveType ==
  ASSUME TypeOK, SlaveCycle
  PROVE  answer' \in [en : BOOLEAN, ram : BOOLEAN, owner : Owners,
                      acc : Accesses \cup {NoAccess}]
  BY SMT DEF TypeOK, SlaveCycle

LEMMA LendType ==
  ASSUME TypeOK, NEW r \in DmaRequests, NEW allowed \in BOOLEAN, Lend(r, allowed)
  PROVE  bus' \in BusType /\ dma_grant' \in BOOLEAN /\ dma_granted' \in BOOLEAN
  BY SMT DEF TypeOK, Lend, DmaRequests, Owners, Slaves, BusType

LEMMA DriveType ==
  ASSUME TypeOK, NEW wr \in BOOLEAN, NEW owner \in Owners, NEW to \in Slaves,
         Drive(wr, owner, to)
  PROVE  bus' \in BusType /\ dma_grant' \in BOOLEAN /\ dma_granted' \in BOOLEAN
<1>1. dma_grant' \in BOOLEAN
  BY Zenon DEF Drive
<1>2. dma_granted' \in BOOLEAN
  BY Zenon DEF TypeOK, Drive
<1>3. bus' \in BusType
  BY SMT DEF BusType, Drive
<1> QED BY <1>1, <1>2, <1>3

LEMMA KeptType ==
  ASSUME NEW b \in BusType, NEW w \in BOOLEAN, NEW o \in Owners
  PROVE  [b EXCEPT !.wr = w, !.owner = o] \in BusType
<1> DEFINE c == [b EXCEPT !.wr = w]
<1>1. c \in BusType BY SMT DEF BusType
<1> HIDE DEF c
<1>2. [c EXCEPT !.owner = o] \in BusType BY SMT, <1>1 DEF BusType
<1>3. [b EXCEPT !.wr = w, !.owner = o] = [[b EXCEPT !.wr = w] EXCEPT !.owner = o]
  OBVIOUS
<1> QED BY <1>2, <1>3 DEF c

LEMMA CycleType ==
  ASSUME TypeOK, NEW r \in DmaRequests, NEW wakeup \in BOOLEAN,
         SlaveCycle, CoreCycle(r, wakeup)
  PROVE  TypeOK'
<1> DEFINE Registers == /\ cpu_wait' \in BOOLEAN /\ wait_for_interrupt' \in BOOLEAN
                        /\ mask_data_en' \in BOOLEAN /\ rwb' \in BOOLEAN
                        /\ load_mem0' \in BOOLEAN /\ load_mem' \in BOOLEAN
           Driven == /\ bus' \in BusType /\ dma_grant' \in BOOLEAN
                     /\ dma_granted' \in BOOLEAN
<1>0. /\ cpu_wait \in BOOLEAN /\ wait_for_interrupt \in BOOLEAN
      /\ mask_data_en \in BOOLEAN /\ rwb \in BOOLEAN /\ load_mem0 \in BOOLEAN
  BY DEF TypeOK
<1>a. TRUE \in BOOLEAN /\ FALSE \in BOOLEAN
  OBVIOUS
<1>b. "load" \in Owners /\ "stray" \in Owners /\ "periph" \in Slaves
  BY DEF Owners, Slaves
<1>c. \A to \in Targets : to \in Slaves
  BY CoreBusAssumption
<1>d. SUFFICES Registers /\ Driven
  <2>1. answer' \in [en : BOOLEAN, ram : BOOLEAN, owner : Owners,
                     acc : Accesses \cup {NoAccess}]
    BY SlaveType
  <2> QED BY Zenon, <2>1 DEF TypeOK, BusType
<1>1. CASE ExecOther(r, wakeup)
  <2>1. Registers BY Zenon, <1>0, <1>a, <1>1, CommitType DEF ExecOther
  <2>2. Driven BY Zenon, <1>a, <1>1, LendType DEF ExecOther
  <2> QED BY <2>1, <2>2
<1>2. CASE ExecLoadInst(r, wakeup)
  <2>1. Registers BY Zenon, <1>0, <1>a, <1>2, CommitType DEF ExecLoadInst
  <2>2. Driven BY Zenon, <1>a, <1>2, LendType DEF ExecLoadInst
  <2> QED BY <2>1, <2>2
<1>3. CASE NoExec(r, wakeup)
  <2>1. Registers BY Zenon, <1>0, <1>a, <1>3, CommitType DEF NoExec
  <2>2. (~cpu_wait \/ wait_for_interrupt) \in BOOLEAN OBVIOUS
  <2>3. Driven BY Zenon, <2>2, <1>3, LendType DEF NoExec
  <2> QED BY <2>1, <2>3
<1>4. CASE ExecLoad(wakeup)
  <2>1. Registers BY Zenon, <1>0, <1>a, <1>4, CommitType DEF ExecLoad
  <2>2. Driven BY Zenon, <1>a, <1>b, <1>c, <1>4, DriveType DEF ExecLoad
  <2> QED BY <2>1, <2>2
<1>5. CASE ExecLoadX0(wakeup)
  <2>1. Registers BY Zenon, <1>0, <1>a, <1>5, CommitType DEF ExecLoadX0
  <2>2. bus' \in BusType
    <3> DEFINE o == IF bus.owner = "load" THEN "stray" ELSE bus.owner
    <3>1. bus \in BusType BY DEF TypeOK, BusType
    <3>2. o \in Owners BY <3>1 DEF BusType, Owners
    <3>3. bus' = [bus EXCEPT !.wr = FALSE, !.owner = o]
      BY Zenon, <1>5 DEF ExecLoadX0
    <3> HIDE DEF o
    <3> QED BY Zenon, <1>a, <3>1, <3>2, <3>3, KeptType
  <2>3. dma_grant' \in BOOLEAN /\ dma_granted' \in BOOLEAN
    BY Zenon, <1>5 DEF TypeOK, ExecLoadX0
  <2> QED BY <2>1, <2>2, <2>3
<1>6. CASE ExecStore(wakeup)
  <2>1. Registers BY Zenon, <1>0, <1>a, <1>6, CommitType DEF ExecStore
  <2>2. Driven BY Zenon, <1>a, <1>b, <1>c, <1>6, DriveType DEF ExecStore
  <2> QED BY <2>1, <2>2
<1>7. CASE ExecCsrRead(wakeup)
  <2>1. Registers BY Zenon, <1>0, <1>a, <1>7, CommitType DEF ExecCsrRead
  <2>2. Driven BY Zenon, <1>a, <1>b, <1>7, DriveType DEF ExecCsrRead
  <2> QED BY <2>1, <2>2
<1>8. CASE ExecCsrWrite(wakeup)
  <2>1. Registers BY Zenon, <1>0, <1>a, <1>8, CommitType DEF ExecCsrWrite
  <2>2. \A answered \in BOOLEAN : (~answered) \in BOOLEAN OBVIOUS
  <2>3. Driven BY Zenon, <2>2, <1>b, <1>8, DriveType DEF ExecCsrWrite
  <2> QED BY <2>1, <2>3
<1>9. CASE ExecWfi(wakeup)
  <2>1. Registers BY Zenon, <1>0, <1>a, <1>9, CommitType DEF ExecWfi
  <2>2. Driven BY Zenon, <1>a, <1>b, <1>9, DriveType DEF ExecWfi
  <2> QED BY <2>1, <2>2
<1> QED
  BY <1>1, <1>2, <1>3, <1>4, <1>5, <1>6, <1>7, <1>8, <1>9
     DEF CoreCycle, FreeCycle, BusyCycle

(* Every register of the bus interface always holds a value of its type.   *)
THEOREM TypeCorrect == Spec => []TypeOK
<1>1. Init => TypeOK
  <2> SUFFICES ASSUME Init PROVE TypeOK OBVIOUS
  <2>1. bus \in BusType
    BY SMT DEF Init, CoreInit, BusType, Owners, Slaves
  <2>2. answer \in [en : BOOLEAN, ram : BOOLEAN, owner : Owners,
                    acc : Accesses \cup {NoAccess}]
    BY SMT DEF Init, SlaveInit, Owners
  <2> QED BY Zenon, <2>1, <2>2 DEF Init, CoreInit, TypeOK, BusType
<1>2. TypeOK /\ [Next]_vars => TypeOK'
  <2>1. ASSUME TypeOK, Next PROVE TypeOK'
    BY Zenon, <2>1, CycleType DEF Next
  <2>2. ASSUME TypeOK, UNCHANGED vars PROVE TypeOK'
    <3>1. UNCHANGED <<cpu_wait, wait_for_interrupt, mask_data_en, rwb, load_mem0>>
      BY <2>2 DEF vars
    <3>2. UNCHANGED <<load_mem, dma_grant, dma_granted, bus, answer>>
      BY <2>2 DEF vars
    <3> QED BY <2>2, <3>1, <3>2 DEF TypeOK
  <2> QED BY <2>1, <2>2
<1> QED BY <1>1, <1>2, PTL DEF Spec

-----------------------------------------------------------------------------
(* An instruction is executed only when nothing is outstanding.            *)
LEMMA Running ==
  ASSUME StallInv, ~cpu_wait
  PROVE  /\ ~rwb /\ ~wait_for_interrupt /\ ~mask_data_en
         /\ ~load_mem0 /\ ~load_mem /\ ~Writeback
  BY Zenon DEF StallInv, StallShape, Writeback

(* So what it assigns is what the registers get.                           *)
LEMMA CommitRunning ==
  ASSUME StallInv, ~cpu_wait,
         NEW wait \in BOOLEAN, NEW wfi \in BOOLEAN, NEW mask \in BOOLEAN,
         NEW wb \in BOOLEAN, NEW inst \in BOOLEAN, NEW wakeup \in BOOLEAN,
         Commit(wait, wfi, mask, wb, inst, wakeup)
  PROVE  /\ cpu_wait' <=> wait
         /\ wait_for_interrupt' <=> wfi
         /\ mask_data_en' <=> mask
         /\ rwb' <=> wb
         /\ load_mem0' <=> inst
         /\ ~load_mem'
  BY Zenon, Running DEF Commit

(* The slaves answer what was on the bus.                                  *)
LEMMA Answered ==
  ASSUME SlaveCycle
  PROVE  /\ answer'.en => bus.cs /\ ~bus.wr
         /\ answer'.owner = bus.owner
<1>1. answer'.en = ((bus.cs /\ ~bus.wr) /\ bus.to # "none") BY DEF SlaveCycle
<1>2. answer'.owner = bus.owner BY DEF SlaveCycle
<1> QED BY Zenon, <1>1, <1>2

(* A bus lent to the DMA holds no load; driven, it holds what was asked.   *)
LEMMA Lent ==
  ASSUME NEW r, NEW allowed, Lend(r, allowed)
  PROVE  /\ bus'.owner = "dma"
         /\ bus'.cs => allowed
<1>1. bus'.owner = "dma" BY DEF Lend
<1>2. bus'.cs = ((r.cs /\ allowed) /\ ~dma_granted) BY DEF Lend
<1> QED BY Zenon, <1>1, <1>2

LEMMA Driven ==
  ASSUME NEW wr \in BOOLEAN, NEW owner, NEW to, Drive(wr, owner, to)
  PROVE  bus'.cs /\ (bus'.wr <=> wr) /\ bus'.owner = owner
<1>1. bus'.cs = TRUE BY DEF Drive
<1>2. bus'.wr = wr BY DEF Drive
<1>3. bus'.owner = owner BY DEF Drive
<1> QED BY Zenon, <1>1, <1>2, <1>3

(* Cycles that leave no read outstanding and put no load on the bus.       *)
LEMMA NothingOutstanding ==
  ASSUME StallInv, SlaveCycle, ~rwb, ~rwb', ~mask_data_en', ~load_mem0', ~load_mem',
         wait_for_interrupt' <=> cpu_wait',
         bus'.cs => bus'.owner # "load"
  PROVE  StallInv'
<1>1. ~(answer'.en /\ answer'.owner = "load")
  BY Zenon, Answered DEF StallInv, FirstStallCycle
<1> QED
  BY Zenon, <1>1 DEF StallInv, StallShape, FirstStallCycle, LaterStallCycle

(* An instruction that stalls for an answer has its access on the bus in   *)
(* the first cycle of the stall, and the mask is set.                      *)
LEMMA StallStarts ==
  ASSUME StallInv, ~cpu_wait, SlaveCycle, cpu_wait', ~wait_for_interrupt',
         mask_data_en', rwb', ~load_mem0', ~load_mem',
         bus'.cs, ~bus'.wr, bus'.owner = "load"
  PROVE  StallInv'
<1>1. ~(answer'.en /\ answer'.owner = "load")
  BY Zenon, Answered, Running DEF StallInv, FirstStallCycle
<1> QED
  BY Zenon, <1>1 DEF StallInv, StallShape, FirstStallCycle, LaterStallCycle

LEMMA StallStep ==
  ASSUME TypeOK, StallInv, NEW r \in DmaRequests, NEW wakeup \in BOOLEAN,
         SlaveCycle, CoreCycle(r, wakeup)
  PROVE  StallInv'
<1>0. /\ TRUE \in BOOLEAN /\ FALSE \in BOOLEAN
      /\ wait_for_interrupt \in BOOLEAN /\ mask_data_en \in BOOLEAN
  BY DEF TypeOK
<1>1. CASE ExecOther(r, wakeup)
  <2>1. ~cpu_wait /\ ~rwb /\ ~wait_for_interrupt /\ ~mask_data_en
    BY Zenon, <1>1, Running DEF ExecOther
  <2>2. Commit(FALSE, wait_for_interrupt, mask_data_en, FALSE, FALSE, wakeup)
    BY <1>1 DEF ExecOther
  <2>3. bus'.owner # "load" BY <1>1, Lent DEF ExecOther
  <2>5. /\ ~rwb' /\ ~mask_data_en' /\ ~load_mem0' /\ ~load_mem'
        /\ wait_for_interrupt' <=> cpu_wait'
    BY Zenon, <1>0, <2>1, <2>2, CommitRunning
  <2>6. bus'.cs => bus'.owner # "load" BY <2>3
  <2> QED BY Zenon, <2>1, <2>5, <2>6, NothingOutstanding
<1>2. CASE ExecLoadInst(r, wakeup)
  <2>1. ~cpu_wait /\ ~rwb /\ ~wait_for_interrupt BY Zenon, <1>2, Running DEF ExecLoadInst
  <2>2. Commit(TRUE, wait_for_interrupt, TRUE, TRUE, TRUE, wakeup)
    BY <1>2 DEF ExecLoadInst
  <2>3. bus'.owner # "load" BY <1>2, Lent DEF ExecLoadInst
  <2>4. /\ cpu_wait' /\ ~wait_for_interrupt' /\ mask_data_en' /\ rwb'
        /\ load_mem0' /\ ~load_mem'
    BY Zenon, <1>0, <2>1, <2>2, CommitRunning
  <2>5. ~(answer'.en /\ answer'.owner = "load")
    BY Zenon, <2>1, Answered DEF StallInv, FirstStallCycle
  <2> QED BY Zenon, <2>3, <2>4, <2>5
          DEF StallInv, StallShape, FirstStallCycle, LaterStallCycle
<1>3. CASE ExecLoad(wakeup)
  <2>1. ~cpu_wait /\ ~wait_for_interrupt BY Zenon, <1>3, Running DEF ExecLoad
  <2>2. Commit(TRUE, wait_for_interrupt, TRUE, TRUE, FALSE, wakeup)
    BY <1>3 DEF ExecLoad
  <2>3. bus'.cs /\ ~bus'.wr /\ bus'.owner = "load"
    BY Zenon, <1>3, Driven DEF ExecLoad
  <2>4. /\ cpu_wait' /\ ~wait_for_interrupt' /\ mask_data_en' /\ rwb'
        /\ ~load_mem0' /\ ~load_mem'
    BY Zenon, <1>0, <2>1, <2>2, CommitRunning
  <2> QED BY Zenon, <2>1, <2>3, <2>4, StallStarts
<1>4. CASE ExecCsrRead(wakeup)
  <2>1. ~cpu_wait /\ ~wait_for_interrupt BY Zenon, <1>4, Running DEF ExecCsrRead
  <2>2. Commit(TRUE, wait_for_interrupt, TRUE, TRUE, FALSE, wakeup)
    BY <1>4 DEF ExecCsrRead
  <2>3. bus'.cs /\ ~bus'.wr /\ bus'.owner = "load"
    BY Zenon, <1>4, Driven DEF ExecCsrRead
  <2>4. /\ cpu_wait' /\ ~wait_for_interrupt' /\ mask_data_en' /\ rwb'
        /\ ~load_mem0' /\ ~load_mem'
    BY Zenon, <1>0, <2>1, <2>2, CommitRunning
  <2> QED BY Zenon, <2>1, <2>3, <2>4, StallStarts
<1>5. CASE ExecLoadX0(wakeup)
  <2>1. ~cpu_wait /\ ~rwb /\ ~wait_for_interrupt /\ ~mask_data_en
    BY Zenon, <1>5, Running DEF ExecLoadX0
  <2>2. Commit(FALSE, wait_for_interrupt, mask_data_en, FALSE, FALSE, wakeup)
    BY <1>5 DEF ExecLoadX0
  <2>3. bus'.owner # "load" BY SMT, <1>5 DEF ExecLoadX0, TypeOK
  <2>5. /\ ~rwb' /\ ~mask_data_en' /\ ~load_mem0' /\ ~load_mem'
        /\ wait_for_interrupt' <=> cpu_wait'
    BY Zenon, <1>0, <2>1, <2>2, CommitRunning
  <2>6. bus'.cs => bus'.owner # "load" BY <2>3
  <2> QED BY Zenon, <2>1, <2>5, <2>6, NothingOutstanding
<1>6. CASE ExecStore(wakeup)
  <2>1. ~cpu_wait /\ ~rwb /\ ~wait_for_interrupt /\ ~mask_data_en
    BY Zenon, <1>6, Running DEF ExecStore
  <2>2. Commit(FALSE, wait_for_interrupt, mask_data_en, FALSE, FALSE, wakeup)
    BY <1>6 DEF ExecStore
  <2>3. bus'.owner = "stray" BY Zenon, <1>6, Driven DEF ExecStore
  <2>5. /\ ~rwb' /\ ~mask_data_en' /\ ~load_mem0' /\ ~load_mem'
        /\ wait_for_interrupt' <=> cpu_wait'
    BY Zenon, <1>0, <2>1, <2>2, CommitRunning
  <2>6. bus'.cs => bus'.owner # "load" BY <2>3
  <2> QED BY Zenon, <2>1, <2>5, <2>6, NothingOutstanding
<1>7. CASE ExecCsrWrite(wakeup)
  <2>1. ~cpu_wait /\ ~rwb /\ ~wait_for_interrupt BY Zenon, <1>7, Running DEF ExecCsrWrite
  <2>2. Commit(FALSE, wait_for_interrupt, FALSE, FALSE, FALSE, wakeup)
    BY <1>7 DEF ExecCsrWrite
  <2>3. \A answered \in BOOLEAN : (~answered) \in BOOLEAN OBVIOUS
  <2>4. bus'.owner = "stray" BY Zenon, <1>7, <2>3, Driven DEF ExecCsrWrite
  <2>5. /\ ~rwb' /\ ~mask_data_en' /\ ~load_mem0' /\ ~load_mem'
        /\ wait_for_interrupt' <=> cpu_wait'
    BY Zenon, <1>0, <2>1, <2>2, CommitRunning
  <2>6. bus'.cs => bus'.owner # "load" BY <2>4
  <2> QED BY Zenon, <2>1, <2>5, <2>6, NothingOutstanding
<1>8. CASE ExecWfi(wakeup)
  <2>1. ~cpu_wait /\ ~rwb BY Zenon, <1>8, Running DEF ExecWfi
  <2>2. Commit(TRUE, TRUE, FALSE, FALSE, FALSE, wakeup)
    BY <1>8 DEF ExecWfi
  <2>3. bus'.owner = "stray" BY Zenon, <1>8, Driven DEF ExecWfi
  <2>5. /\ ~rwb' /\ ~mask_data_en' /\ ~load_mem0' /\ ~load_mem'
        /\ wait_for_interrupt' <=> cpu_wait'
    BY Zenon, <1>0, <2>1, <2>2, CommitRunning
  <2>6. bus'.cs => bus'.owner # "load" BY <2>3
  <2> QED BY Zenon, <2>1, <2>5, <2>6, NothingOutstanding
<1>9. CASE NoExec(r, wakeup)
  <2>1. Commit(cpu_wait, wait_for_interrupt, mask_data_en, rwb, load_mem0, wakeup)
    BY <1>9 DEF NoExec
  <2>2. bus'.owner = "dma" /\ (bus'.cs => ~cpu_wait \/ wait_for_interrupt)
    BY Zenon, <1>9, Lent DEF NoExec
  <2>3. CASE ~cpu_wait \/ wait_for_interrupt
    <3>1. /\ ~rwb /\ ~mask_data_en /\ ~load_mem0 /\ ~load_mem /\ ~Writeback
          /\ cpu_wait <=> wait_for_interrupt
      BY Zenon, <2>3 DEF StallInv, StallShape, Writeback
    <3>2. /\ ~rwb' /\ ~mask_data_en' /\ ~load_mem0' /\ ~load_mem'
          /\ wait_for_interrupt' <=> cpu_wait'
      BY Zenon, <2>1, <3>1 DEF Commit
    <3>3. bus'.owner # "load" BY <2>2
    <3> QED BY Zenon, <3>1, <3>2, <3>3, NothingOutstanding
  <2>4. CASE cpu_wait /\ ~wait_for_interrupt
    <3>1. rwb BY Zenon, <2>4 DEF StallInv, StallShape
    <3>2. /\ cpu_wait' <=> ~Writeback
          /\ ~wait_for_interrupt' /\ ~mask_data_en'
          /\ rwb' <=> ~Writeback
          /\ load_mem0' <=> load_mem0 /\ ~Writeback
          /\ load_mem' <=> load_mem0 /\ ~Writeback
      BY Zenon, <2>1, <2>4, <3>1 DEF Commit
    <3>3. ~bus'.cs BY Zenon, <2>2, <2>4
    <3>4. answer'.en => bus.cs /\ ~bus.wr BY Answered
    <3>5. answer'.owner = bus.owner BY Answered
    <3>6. CASE mask_data_en
      <4>1. ~Writeback BY Zenon, <3>6 DEF Writeback
      <4>2. ~load_mem0 => bus.owner = "load"
        BY Zenon, <3>1, <3>6 DEF StallInv, FirstStallCycle
      <4>3. answer'.en /\ answer'.owner = "load" => ~load_mem0
        BY Zenon, <3>4, <3>5 DEF StallInv, FirstStallCycle
      <4> QED BY Zenon, <3>2, <3>3, <3>5, <4>1, <4>2, <4>3
              DEF StallInv, StallShape, FirstStallCycle, LaterStallCycle
    <3>7. CASE ~mask_data_en
      <4>1. ~answer'.en \/ answer'.owner # "load"
        BY Zenon, <3>4, <3>5, <3>7 DEF StallInv, FirstStallCycle
      <4>2. ~load_mem0 => ~answer'.en
        BY Zenon, <3>1, <3>4, <3>7 DEF StallInv, LaterStallCycle
      <4> QED BY Zenon, <3>2, <3>3, <4>1, <4>2
              DEF StallInv, StallShape, FirstStallCycle, LaterStallCycle
    <3> QED BY <3>6, <3>7
  <2> QED BY Zenon, <2>3, <2>4
<1> QED
  BY <1>1, <1>2, <1>3, <1>4, <1>5, <1>6, <1>7, <1>8, <1>9
     DEF CoreCycle, FreeCycle, BusyCycle

(* The stall protocol: one answer can arrive while the pipeline stalls,    *)
(* and it is the one to the access the stalled instruction put on the bus. *)
THEOREM StallInvariant == Spec => []StallInv
<1>1. Init => StallInv
  <2> SUFFICES ASSUME Init PROVE StallInv OBVIOUS
  <2>1. bus.cs = FALSE /\ answer.en = FALSE BY DEF Init, CoreInit, SlaveInit
  <2> QED BY Zenon, <2>1 DEF Init, CoreInit, StallInv, StallShape,
                             FirstStallCycle, LaterStallCycle
<1>2. TypeOK /\ StallInv /\ [Next]_vars => StallInv'
  <2>1. ASSUME TypeOK, StallInv, Next PROVE StallInv'
    BY Zenon, <2>1, StallStep DEF Next
  <2>2. ASSUME StallInv, UNCHANGED vars PROVE StallInv'
    <3>1. UNCHANGED <<cpu_wait, wait_for_interrupt, mask_data_en, rwb, load_mem0>>
      BY <2>2 DEF vars
    <3>2. UNCHANGED <<load_mem, bus, answer>>
      BY <2>2 DEF vars
    <3> QED BY <2>2, <3>1, <3>2
            DEF StallInv, StallShape, FirstStallCycle, LaterStallCycle
  <2> QED BY <2>1, <2>2
<1> QED BY <1>1, <1>2, TypeCorrect, PTL DEF Spec

(* A load and a CSR read write back the answer to their own access: never  *)
(* what a DMA read returned, nor an answer nobody waits for.               *)
THEOREM LoadOwnData == Spec => []LoadGetsOwnData
<1>1. StallInv => LoadGetsOwnData
  BY Zenon DEF StallInv, LoadGetsOwnData, Writeback, LaterStallCycle
<1> QED BY <1>1, StallInvariant, PTL

(* The answer the pipeline waits for is never hidden by the mask, so it    *)
(* cannot be missed.                                                       *)
THEOREM AnswerSeen == Spec => []AnswerIsSeen
<1>1. StallInv => AnswerIsSeen
  BY Zenon DEF StallInv, AnswerIsSeen, Writeback, LaterStallCycle
<1> QED BY <1>1, StallInvariant, PTL

(* From the second cycle of a stall on, the bus carries no DMA access.     *)
THEOREM StalledBus == Spec => []StallOwnsBus
<1>1. StallInv => StallOwnsBus
  BY Zenon DEF StallInv, StallOwnsBus, LaterStallCycle
<1> QED BY <1>1, StallInvariant, PTL

=============================================================================
