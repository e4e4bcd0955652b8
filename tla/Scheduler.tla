------------------------------ MODULE Scheduler ------------------------------
(***************************************************************************)
(* The event-driven simulator: scheduler_t::run, which takes one event     *)
(* after the other from the pool (EventQueue), the processes that wait     *)
(* (FOREVER_WAIT) and drive clocks, and the clocks, each edge of which     *)
(* runs in three deltas: processes, flip-flops, combinational processes.   *)
(*                                                                         *)
(* A step is one round of the loop of run.  What processes compute is left *)
(* out, but for the clocks they derive and the enable of a gated clock.    *)
(***************************************************************************)
EXTENDS EventQueue, Sequences

CONSTANTS
  Forever,   \* processes without a clock
  Drives,    \* the clock a process drives; NoEvent for one that never wakes
  Waits,     \* lengths of the waits of each process
  Clocks,
  Derived,   \* clocks a clock's processes toggle, in program order
  Gated,     \* children of a clock, each behind its enable
  Shift,     \* a wait of n is n * Shift long; shorter times are deltas
  TimeMod,   \* the width of the time
  EndTime    \* the argument of run

(* The pool has a slot for every process and every clock; a wait is longer *)
(* than the deltas of a clock and of one derived from it.                  *)
ASSUME SchedulerAssumption ==
  /\ IsFiniteSet(Forever) /\ IsFiniteSet(Clocks)
  /\ Cardinality(Forever) + Cardinality(Clocks) <= N - 1
  /\ Shift \in Nat /\ Shift > 4 /\ EndTime \in Nat /\ TimeMod \in Nat

(* A process waits for at most longest units of time, or waits for good.   *)
Never(f) == Waits[f] = {-1} /\ Drives[f] = NoEvent
Ticks(f, longest) == \A n \in Waits[f] : n \in Nat \ {0} /\ n * Shift <= longest

(* Time does not wrap around before the run ends, and something runs until *)
(* then.                                                                   *)
ASSUME WaitsAssumption ==
  /\ \E f \in Forever : ~Never(f)
  /\ \E longest \in 0 .. TimeMod :
       /\ EndTime + 2 * longest + Shift < TimeMod
       /\ \A f \in Forever : Never(f) \/ Ticks(f, longest)

(* Clocks form trees of one level: what is gated has one source, which is  *)
(* neither gated nor derived itself, and nothing else drives it; a derived *)
(* clock has one source, too.  A list of clocks has each once.             *)
ASSUME ClockTreeAssumption ==
  /\ Forever \cap Clocks = {} /\ NoEvent \notin Forever \cup Clocks
  /\ Drives \in [Forever -> Clocks \cup {NoEvent}]
  /\ \A e, f \in Forever : Drives[e] = Drives[f] /\ Drives[e] # NoEvent => e = f
  /\ Gated \in [Clocks -> Seq(Clocks)] /\ Derived \in [Clocks -> Seq(Clocks)]
  /\ \A c \in Clocks : \A d \in ToSet(Derived[c]) :
       /\ Gated[d] = <<>> /\ Derived[d] = <<>>
       /\ \A b \in Clocks : d \in ToSet(Derived[b]) => b = c
       /\ \A f \in Forever : Drives[f] # d
  /\ \A c \in Clocks : \A g \in ToSet(Gated[c]) :
       /\ Gated[g] = <<>>
       /\ \A b \in Clocks : g \notin ToSet(Derived[b]) /\ (b # c => g \notin ToSet(Gated[b]))
       /\ \A f \in Forever : Drives[f] # g
  /\ \A c \in Clocks : \A list \in {Gated[c], Derived[c]} :
       \A i, j \in 1 .. Len(list) : list[i] = list[j] => i = j

VARIABLES
  pool, cur_time,
  level,     \* next level a process drives
  val, delta,
  en,        \* enables of the gated clocks
  edge       \* history: time of a clock's last edge, deltas run since

vars == <<pool, cur_time, level, val, delta, en, edge>>

GatedClocks == UNION {ToSet(Gated[c]) : c \in Clocks}

InitialEvents(order) ==
  FoldLeft(LAMBDA p, f : CreateForever(p, 0, f), EmptyPool, order)

Init ==
  /\ pool = InitialEvents(SetToSeq(Forever))
  /\ cur_time = 0
  /\ level = [f \in Forever |-> 0]
  /\ val = [c \in Clocks |-> 0]
  /\ delta = [c \in Clocks |-> 0]
  /\ en \in [GatedClocks -> BOOLEAN]
  /\ edge = [c \in Clocks |-> [at |-> 0, ran |-> 3]]

-----------------------------------------------------------------------------
Next_ == First(pool)
Ended == Next_ = 0 \/ cur_time > EndTime
Now == IF pool.time[Next_] > cur_time THEN pool.time[Next_] ELSE cur_time

(* A clock and its gated clocks, in the order in which their events are    *)
(* created.                                                                *)
Tree(c) == <<c>> \o Gated[c]

(* Those of the list that are in cs are assigned the levels v: each that   *)
(* changes has an event.                                                   *)
Toggle(p, list, cs, v, t) ==
  CreateClks(p, t + 1, list, {c \in cs : val[c] # v[c]})

Assigned(cs, v, t) ==
  /\ val' = [c \in Clocks |-> IF c \in cs THEN v ELSE val[c]]
  /\ edge' = [c \in Clocks |-> IF c \in cs /\ val[c] # v
                                THEN [at |-> t, ran |-> 0] ELSE edge[c]]

\* MUTANT: a wait is not scaled by the deltas
WakeUnscaled(t, n) == (t + n) % TimeMod

(* When a process that waits is called again: unsigned addition, so that   *)
(* parse_scn_file's -1 at time 0 is never.                                 *)
Wake(t, n) == (t + TimeMod + n * Shift) % TimeMod

(* A process: it drives the level of its clock and waits.                  *)
RunForever(f) ==
  LET c == Drives[f]
      list == IF c = NoEvent THEN <<>> ELSE Tree(c)
      cs == IF c = NoEvent THEN {} ELSE {c} \cup {g \in ToSet(Gated[c]) : en[g]}
      v == [x \in Clocks |-> level[f]]
  IN /\ ~Ended /\ f = pool.forever[Next_]
     /\ cur_time' = Now
     /\ \E n \in Waits[f] :
          pool' = CreateForever(Toggle(DropFirst(pool), list, cs, v, Now), Wake(Now, n), f)
     /\ level' = [level EXCEPT ![f] = 1 - @]
     /\ Assigned(cs, level[f], Now)
     /\ delta' = [x \in Clocks |-> IF x \in cs THEN 0 ELSE delta[x]]
     /\ UNCHANGED en

\* MUTANT: the delta cycles of a clock run in one step each, at the same time
AfterDeltaNow(p, t, c) ==
  IF delta[c] + 1 = 3 THEN DropFirst(p)
  ELSE LET again == p.pclk[First(p)] IN CreateClk(DropFirst(p), t, again)

(* After a delta of clock c the first event is dropped and, unless it was  *)
(* the last delta, its clock has one at the next time unit.                *)
AfterDelta(p, t, c) ==
  IF delta[c] + 1 = 3 THEN DropFirst(p)
  ELSE LET again == p.pclk[First(p)] IN CreateClk(DropFirst(p), t + 1, again)

RunsDelta(c, d) ==
  /\ ~Ended
  /\ pool.forever[Next_] = NoEvent /\ c = pool.pclk[Next_]
  /\ delta[c] = d
  /\ cur_time' = Now
  /\ UNCHANGED level

(* Clocked processes, on the rising edge: they toggle some of the clocks   *)
(* derived from theirs.                                                    *)
RunProcesses(c) ==
  \E toggled \in SUBSET (IF val[c] = 1 THEN ToSet(Derived[c]) ELSE {}) :
    LET v == [x \in Clocks |-> 1 - val[x]]
    IN /\ RunsDelta(c, 0)
       /\ pool' = AfterDelta(Toggle(pool, Derived[c], toggled, v, Now), Now, c)
       /\ val' = [x \in Clocks |-> IF x \in toggled THEN v[x] ELSE val[x]]
       /\ delta' = [x \in Clocks |-> IF x = c THEN 1 ELSE IF x \in toggled THEN 0 ELSE delta[x]]
       /\ edge' = [x \in Clocks |->
            CASE x = c -> [edge[c] EXCEPT !.ran = 1]
              [] x # c /\ x \in toggled -> [at |-> Now, ran |-> 0]
              [] OTHER -> edge[x]]
       /\ UNCHANGED en

\* MUTANT: enables change with any edge of the clock
EnablesAnyEdge(c) == \E e \in [GatedClocks -> BOOLEAN] :
  en' = [x \in GatedClocks |-> IF Contains(Gated[c], x) THEN e[x] ELSE en[x]]

(* Flip-flops; those that gate a clock change with its falling edge.       *)
Enables(c) == \E e \in [GatedClocks -> BOOLEAN] :
  en' = [x \in GatedClocks |-> IF Contains(Gated[c], x) /\ val[c] = 0 THEN e[x] ELSE en[x]]

RunFlops(c) ==
  /\ RunsDelta(c, 1)
  /\ pool' = AfterDelta(pool, Now, c)
  /\ delta' = [delta EXCEPT ![c] = 2]
  /\ edge' = [edge EXCEPT ![c].ran = 2]
  /\ Enables(c)
  /\ UNCHANGED val

(* Combinational processes, for every delta beyond the second.             *)
RunComb(c) ==
  /\ \E d \in 2 .. 255 : RunsDelta(c, d)
  /\ pool' = AfterDelta(pool, Now, c)
  /\ delta' = [delta EXCEPT ![c] = (@ + 1) % 256]
  /\ edge' = [edge EXCEPT ![c].ran = 3]
  /\ UNCHANGED <<val, en>>

Next ==
  \/ \E f \in Forever : RunForever(f)
  \/ \E c \in Clocks : RunProcesses(c) \/ RunFlops(c) \/ RunComb(c)

Spec == Init /\ [][Next]_vars

-----------------------------------------------------------------------------
What(i) == IF pool.forever[i] # NoEvent THEN pool.forever[i] ELSE pool.pclk[i]
PendingEvents ==
  LET slots == Pending(pool)
  IN [k \in DOMAIN slots |-> [at |-> pool.time[slots[k]], what |-> What(slots[k])]]

(* The pool never hands out a slot that is pending: the slots that can     *)
(* still be taken and those in the list are all the slots, and disjoint.   *)
(* Nothing in the code checks for the end of the free list                 *)
(* (scheduler2.h:80).                                                      *)
SlotsPartition ==
  /\ Len(Pending(pool)) = pool.in_use
  /\ FreeSlots(pool) \cap ToSet(Pending(pool)) = {}
  /\ FreeSlots(pool) \cup ToSet(Pending(pool)) = Slots

(* The list of slots is a queue of timed events: each runs once, at its    *)
(* time, and time does not go back.                                        *)
Q == INSTANCE SimQueue WITH now <- cur_time, queue <- PendingEvents
RunsInOrder == Q!Spec

(* Clocks with an edge at the same time run delta by delta together: no    *)
(* flip-flop of one changes before the processes of the other have read    *)
(* it.  Two clocks of one source then exchange values without a race.      *)
SameEdgeTogether ==
  \A b, c \in Clocks :
    edge[b].at = edge[c].at /\ edge[b].ran >= 2 => edge[c].ran >= 1

(* A derived clock is one delta behind: its processes see the flip-flops   *)
(* of the edge that made it, as the order of events of the same time makes *)
(* the source's flip-flops run first.                                      *)
DerivedSeesSource ==
  \A c \in Clocks : \A d \in ToSet(Derived[c]) :
    edge[d].at = edge[c].at + 1 /\ edge[d].ran >= 1 => edge[c].ran >= 2

(* A clock has no other edge before the deltas of the last one have run.   *)
DeltasComplete ==
  [][\A c \in Clocks : val'[c] # val[c] => edge[c].ran = 3]_vars

(* "Compute enable on falling edge, otherwise no falling edge detection on *)
(* gated clocks" (clk_gen.h:278): a gated clock follows its source while   *)
(* it is enabled, and is low otherwise.                                    *)
GateIsClean ==
  \A c \in Clocks : \A g \in ToSet(Gated[c]) :
    val[g] = IF en[g] THEN val[c] ELSE 0

=============================================================================
