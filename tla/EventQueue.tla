----------------------------- MODULE EventQueue -----------------------------
(***************************************************************************)
(* The simulator's event pool (src/Include_libs/scheduler2.h): N slots     *)
(* linked by next_idx, of which slot 0 heads the list of pending events in *)
(* order of time, and first_free_event the list of free slots.             *)
(*                                                                         *)
(* The pool is a record; each operator gives the pool a call returns with. *)
(***************************************************************************)
EXTENDS Integers, SequencesExt

CONSTANTS
  N,        \* slots of the pool, 64 in the code
  NoEvent   \* a forever_process_id of -1, or a pclk of NULL

ASSUME PoolAssumption == N \in Nat /\ N > 1

Slots == 1 .. N - 1

(* Slot 0 is linked to itself when nothing is pending; the free slots form *)
(* a ring, the check for its end is left to whoever takes a slot.          *)
EmptyPool ==
  [next |-> [i \in 0 .. N - 1 |-> IF i = 0 THEN 0 ELSE (i % (N - 1)) + 1],
   time |-> [i \in Slots |-> 0],
   forever |-> [i \in Slots |-> NoEvent],
   pclk |-> [i \in Slots |-> NoEvent],
   free |-> 1, in_use |-> 0]

\* MUTANT: the slot stays in front of the free list
GetFreeKeeps(p, t) == [p EXCEPT !.time[p.free] = t, !.in_use = @ + 1]

(* The slot that is taken is p.free.                                       *)
GetFree(p, t) ==
  [p EXCEPT !.time[p.free] = t, !.free = p.next[p.free], !.in_use = @ + 1]

Recycle(p, n) ==
  [p EXCEPT !.next[n] = p.free, !.forever[n] = NoEvent, !.free = n, !.in_use = @ - 1]

(* The first event is recycled and the list starts behind it.              *)
First(p) == p.next[0]
DropFirst(p) == [Recycle(p, First(p)) EXCEPT !.next[0] = p.next[First(p)]]

\* MUTANT: an event goes behind those of the same time
LastNotLater(p, t) ==
  LET steps[k \in 0 .. N] ==
        IF k = 0 THEN 0
        ELSE LET here == steps[k - 1] IN
             IF p.next[here] = 0 \/ p.time[p.next[here]] > t THEN here
             ELSE p.next[here]
  IN steps[N]

(* Where an event of time t is linked in: behind the last event that is    *)
(* earlier, so in front of those of the same time.                         *)
LastBefore(p, t) ==
  LET steps[k \in 0 .. N] ==
        IF k = 0 THEN 0
        ELSE LET here == steps[k - 1] IN
             IF p.next[here] = 0 \/ p.time[p.next[here]] >= t THEN here
             ELSE p.next[here]
  IN steps[N]

Linked(p, new, t) ==
  LET old == LastBefore(p, t)
  IN [p EXCEPT !.next[new] = p.next[old], !.next[old] = new]

CreateForever(p, t, id) ==
  Linked([GetFree(p, t) EXCEPT !.forever[p.free] = id], p.free, t)

CreateClk(p, t, c) ==
  Linked([GetFree(p, t) EXCEPT !.pclk[p.free] = c], p.free, t)

(* The clocks of a list that change have events, one after the other.      *)
CreateClks(p, t, list, changed) ==
  FoldLeft(LAMBDA q, c : IF c \in changed THEN CreateClk(q, t, c) ELSE q, p, list)

-----------------------------------------------------------------------------
(* The slot k links behind slot i.                                         *)
Behind(p, i) ==
  LET at[k \in 0 .. N] == IF k = 0 THEN i ELSE LET prev == at[k - 1] IN p.next[prev]
  IN at

(* The pending events as a sequence of slots, cut off when they form a     *)
(* circle, and the slots that can be taken before one is taken twice.      *)
Pending(p) ==
  LET at == Behind(p, 0)
      len == CHOOSE n \in 0 .. N : (n = N \/ at[n + 1] = 0) /\ \A k \in 1 .. n : at[k] # 0
  IN [k \in 1 .. len |-> at[k]]

FreeSlots(p) ==
  LET at == Behind(p, p.free) IN {at[k] : k \in 0 .. N - 2 - p.in_use}

=============================================================================
