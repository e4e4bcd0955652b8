--------------------------- MODULE SchedulerProofs --------------------------
(***************************************************************************)
(* Theorems about Scheduler, for every number of processes and clocks:     *)
(* gated clocks are clean, and the order in which the deltas of clocks     *)
(* run.  They rest on what the operators of EventQueue do, for any number  *)
(* of slots: the slots form a ring, of which the list of pending events is *)
(* the first part, and the pool holds a queue of entries in order of time. *)
(*                                                                         *)
(* The first part is about slots and links, up to DropFirstFrees; the      *)
(* second about the queue of entries they stand for; the third, from       *)
(* Levels on, about the scheduler.                                         *)
(***************************************************************************)
EXTENDS Scheduler, SequenceTheorems, FiniteSetTheorems, NaturalsInduction,
  WellFoundedInduction, TLAPS

(* A set of numbers has a least one: where a proof would go by induction,  *)
(* a least counterexample is looked at.                                    *)
LEMMA Least ==
  ASSUME NEW T \in SUBSET Nat, T # {}
  PROVE  \E x \in T : \A y \in T : x <= y
<1>1. IsWellFoundedOn(OpToRel(<, Nat), Nat) BY NatLessThanWellFounded
<1>2. PICK x \in T : \A y \in T : ~(<<y, x>> \in OpToRel(<, Nat)) BY <1>1, WFMin
<1>3. \A y \in T : ~(y < x)
  <2> TAKE y \in T
  <2>1. y < x => <<y, x>> \in OpToRel(<, Nat) BY DEF OpToRel
  <2> QED BY <2>1, <1>2
<1>4. \A y \in T : x <= y BY <1>3
<1> QED BY <1>4

(* The first n steps from i along g.                                       *)
IsOrbit(h, g, i, n) == h = [k \in 0 .. n |-> IF k = 0 THEN i ELSE g[h[k - 1]]]

(* There are such steps.                                                   *)
LEMMA Orbits ==
  ASSUME NEW g, NEW i, NEW n \in Nat
  PROVE  \E h : IsOrbit(h, g, i, n)
<1> DEFINE bad == {m \in Nat : ~\E h : IsOrbit(h, g, i, m)}
<1>1. SUFFICES ASSUME bad # {} PROVE FALSE OBVIOUS
<1>2. PICK m \in bad : \A y \in bad : m <= y BY <1>1, Least
<1>3. m # 0
  <2>1. IsOrbit([k \in 0 .. 0 |-> i], g, i, 0) BY DEF IsOrbit
  <2> QED BY <1>2, <2>1
<1>4. m - 1 \in Nat /\ m - 1 \notin bad BY <1>2, <1>3
<1>5. PICK h : IsOrbit(h, g, i, m - 1) BY <1>4
<1>6. IsOrbit([k \in 0 .. m |-> IF k = m THEN g[h[m - 1]] ELSE h[k]], g, i, m)
  <2>1. m \in Nat /\ m > 0 BY <1>2, <1>3
  <2> QED BY <2>1, <1>5 DEF IsOrbit
<1> QED BY <1>2, <1>6

(* Behind takes them along the links of the pool.                          *)
LEMMA BehindAt ==
  ASSUME NEW p, NEW i
  PROVE  IsOrbit(Behind(p, i), p.next, i, N)
<1>1. PICK h : IsOrbit(h, p.next, i, N) BY Orbits, PoolAssumption
<1> QED BY <1>1 DEF Behind, IsOrbit

-----------------------------------------------------------------------------
(* The slots in order: 0, those in the list, those that are free.          *)
Order(s) ==
  /\ s \in [0 .. N - 1 -> 0 .. N - 1] /\ s[0] = 0
  /\ \A i, j \in 0 .. N - 1 : s[i] = s[j] => i = j
  /\ \A x \in 0 .. N - 1 : \E i \in 0 .. N - 1 : s[i] = x

(* The slots up to place n of s are the list.                              *)
Listed(p, n, s) == \A i \in 0 .. n : p.next[s[i]] = IF i = n THEN 0 ELSE s[i + 1]

(* What the links of a pool say of that order.                             *)
Links(p, s) ==
  /\ Listed(p, p.in_use, s)
  /\ \A i \in p.in_use + 1 .. N - 2 : p.next[s[i]] = s[i + 1]
  /\ \A i \in p.in_use + 1 .. N - 1 : p.forever[s[i]] = NoEvent
  /\ p.in_use < N - 1 => p.free = s[p.in_use + 1]

(* The slots of the pool are in this order.                                *)
Ring(p, s) == Order(s) /\ Links(p, s)

(* Pools whose events are those of W: W is the set of the processes and    *)
(* clocks.                                                                 *)
Names(W) == W \cup {NoEvent}
Pools(W) ==
  [next : [0 .. N - 1 -> 0 .. N - 1], time : [Slots -> Nat],
   forever : [Slots -> Names(W)], pclk : [Slots -> Names(W)],
   free : 0 .. N - 1, in_use : 0 .. N - 1]

(* Behind the head there are slots only.                                   *)
LEMMA RingOfSlots ==
  ASSUME NEW s, Order(s)
  PROVE  \A i \in 1 .. N - 1 : s[i] \in Slots
<1> TAKE i \in 1 .. N - 1
<1>1. 0 \in 0 .. N - 1 /\ i \in 0 .. N - 1 /\ i # 0 BY PoolAssumption
<1>2. s[i] \in 0 .. N - 1 /\ s[i] # 0 BY <1>1 DEF Order
<1> QED BY <1>2, PoolAssumption DEF Slots

(* At the start the order is that of the numbers.                          *)
LEMMA EmptyRing ==
  ASSUME NEW W
  PROVE  EmptyPool \in Pools(W) /\ Ring(EmptyPool, [i \in 0 .. N - 1 |-> i])
<1>1. \A i \in 1 .. N - 1 : (i % (N - 1)) \in 0 .. N - 2
  BY PoolAssumption
<1>2. \A i \in 1 .. N - 2 : i % (N - 1) = i
  BY PoolAssumption
<1>3. EmptyPool \in Pools(W)
  BY <1>1, PoolAssumption DEF EmptyPool, Pools, Names, Slots
<1>4. \A i \in 1 .. N - 2 : EmptyPool.next[i] = i + 1
  BY <1>2, PoolAssumption DEF EmptyPool
<1>5. /\ EmptyPool.next[0] = 0 /\ EmptyPool.in_use = 0 /\ EmptyPool.free = 1
      /\ \A i \in Slots : EmptyPool.forever[i] = NoEvent
  BY PoolAssumption DEF EmptyPool
<1> DEFINE s == [i \in 0 .. N - 1 |-> i]
<1>6. Order(s) BY PoolAssumption DEF Order
<1>8. \A i \in 0 .. N - 1 : s[i] = i OBVIOUS
<1> HIDE DEF s
<1>9. \A i \in 0 .. 0 : EmptyPool.next[s[i]] = 0 BY <1>5, <1>8, PoolAssumption
<1>10. \A i \in 1 .. N - 2 : EmptyPool.next[s[i]] = s[i + 1]
  BY <1>4, <1>8, PoolAssumption
<1>11. \A i \in 1 .. N - 1 : EmptyPool.forever[s[i]] = NoEvent
  BY <1>5, <1>8, PoolAssumption DEF Slots
<1>12. EmptyPool.free = s[1] BY <1>5, <1>8, PoolAssumption
<1>7. Links(EmptyPool, s)
  BY <1>5, <1>9, <1>10, <1>11, <1>12, PoolAssumption DEF Links, Listed
<1> QED BY <1>3, <1>6, <1>7 DEF Ring, s

(* The operators Pending and FreeSlots read the ring.                      *)
LEMMA RingPending ==
  ASSUME NEW W, NEW p \in Pools(W), NEW s, Ring(p, s)
  PROVE  Pending(p) = [k \in 1 .. p.in_use |-> s[k]]
<1> DEFINE at == Behind(p, 0)
           n == p.in_use
           Is(l) == (l = N \/ at[l + 1] = 0) /\ \A k \in 1 .. l : at[k] # 0
<1>1. n \in 0 .. N - 1 BY DEF Pools
<1>2. \A k \in 0 .. n + 1 : at[k] = IF k = n + 1 THEN 0 ELSE s[k]
  <2> DEFINE bad == {k \in 0 .. n + 1 : at[k] # (IF k = n + 1 THEN 0 ELSE s[k])}
  <2>1. SUFFICES ASSUME bad # {} PROVE FALSE OBVIOUS
  <2>8. bad \in SUBSET Nat BY <1>1, PoolAssumption
  <2>2. PICK k \in bad : \A y \in bad : k <= y BY <2>1, <2>8, Least
  <2>3. at[k] = IF k = 0 THEN 0 ELSE p.next[at[k - 1]]
    BY <1>1, BehindAt, PoolAssumption DEF IsOrbit
  <2>4. k # 0 BY <2>2, <2>3, <1>1 DEF Ring, Order
  <2>5. k - 1 \in 0 .. n /\ k - 1 \notin bad BY <2>2, <2>4, <1>1
  <2>6. at[k - 1] = s[k - 1] BY <2>5, <1>1
  <2>7. p.next[s[k - 1]] = IF k = n + 1 THEN 0 ELSE s[k]
    BY <2>5, <1>1 DEF Ring, Links, Listed
  <2> QED BY <2>2, <2>3, <2>4, <2>6, <2>7
<1>3. \A k \in 1 .. n : at[k] # 0
  <2> TAKE k \in 1 .. n
  <2>1. s[k] \in Slots BY <1>1, RingOfSlots, PoolAssumption DEF Ring
  <2> QED BY <2>1, <1>1, <1>2 DEF Slots
<1>4. n \in 0 .. N /\ Is(n)
  BY <1>1, <1>2, <1>3, PoolAssumption
<1>5. \A l \in 0 .. N : Is(l) => l = n
  <2> TAKE l \in 0 .. N
  <2> HAVE Is(l)
  <2>1. l <= n BY <1>1, <1>2, PoolAssumption
  <2>2. ~(l < n)
    <3> SUFFICES ASSUME l < n PROVE FALSE OBVIOUS
    <3>1. at[l + 1] = 0 BY <1>1, PoolAssumption
    <3> QED BY <3>1, <1>1, <1>3
  <2> QED BY <2>1, <2>2, <1>1
<1>6. (CHOOSE l \in 0 .. N : Is(l)) = n BY <1>4, <1>5
<1>7. Pending(p) = [k \in 1 .. n |-> at[k]] BY <1>6 DEF Pending
<1> QED BY <1>7, <1>2, <1>1

(* So does FreeSlots.                                                      *)
LEMMA RingFree ==
  ASSUME NEW W, NEW p \in Pools(W), NEW s, Ring(p, s)
  PROVE  FreeSlots(p) = {s[k] : k \in p.in_use + 1 .. N - 1}
<1> DEFINE at == Behind(p, p.free)
           n == p.in_use
<1>1. n \in 0 .. N - 1 BY DEF Pools
<1>2. \A k \in 0 .. N - 2 - n : at[k] = s[n + 1 + k]
  <2> DEFINE bad == {k \in 0 .. N - 2 - n : at[k] # s[n + 1 + k]}
  <2>1. SUFFICES ASSUME bad # {} PROVE FALSE OBVIOUS
  <2>8. bad \in SUBSET Nat BY <1>1, PoolAssumption
  <2>2. PICK k \in bad : \A y \in bad : k <= y BY <2>1, <2>8, Least
  <2>3. at[k] = IF k = 0 THEN p.free ELSE p.next[at[k - 1]]
    BY <1>1, BehindAt, PoolAssumption DEF IsOrbit
  <2>4. k # 0
    <3> SUFFICES ASSUME k = 0 PROVE FALSE OBVIOUS
    <3>1. p.free = s[n + 1] BY <2>2, <1>1, PoolAssumption DEF Ring, Links
    <3> QED BY <3>1, <2>2, <2>3, <1>1
  <2>5. k - 1 \in 0 .. N - 2 - n /\ k - 1 \notin bad BY <2>2, <2>4, <1>1, PoolAssumption
  <2>6. at[k - 1] = s[n + k] BY <2>5, <1>1, PoolAssumption
  <2>7. p.next[s[n + k]] = s[n + k + 1]
    <3>1. n + k \in n + 1 .. N - 2 BY <2>5, <1>1, PoolAssumption
    <3> QED BY <3>1 DEF Ring, Links
  <2> QED BY <2>2, <2>3, <2>4, <2>6, <2>7, <1>1
<1>3. {at[k] : k \in 0 .. N - 2 - n} = {s[k] : k \in n + 1 .. N - 1}
  <2>1. \A k \in 0 .. N - 2 - n : n + 1 + k \in n + 1 .. N - 1
    BY <1>1, PoolAssumption
  <2>2. \A k \in n + 1 .. N - 1 : k - n - 1 \in 0 .. N - 2 - n /\ n + 1 + (k - n - 1) = k
    BY <1>1, PoolAssumption
  <2> QED BY <1>2, <2>1, <2>2
<1> QED BY <1>3 DEF FreeSlots

-----------------------------------------------------------------------------
(* Where an event of time t goes: behind the k-th of the list.             *)
Place(p, n, s, t, k) ==
  /\ k \in 0 .. n
  /\ \A i \in 1 .. k : p.time[s[i]] < t
  /\ k < n => p.time[s[k + 1]] >= t

(* A new event has a place.                                                *)
LEMMA HasPlace ==
  ASSUME NEW W, NEW p \in Pools(W), NEW s, Ring(p, s), NEW t \in Nat
  PROVE  \E k : Place(p, p.in_use, s, t, k)
<1> DEFINE n == p.in_use
           late == {k \in 0 .. n : k = n \/ p.time[s[k + 1]] >= t}
<1>1. n \in 0 .. N - 1 BY DEF Pools
<1>2. late \in SUBSET Nat /\ late # {}
  <2>1. n \in late BY <1>1
  <2> QED BY <2>1, <1>1
<1>3. PICK k \in late : \A y \in late : k <= y BY <1>2, Least
<1>4. \A i \in 1 .. k : p.time[s[i]] < t
  <2> TAKE i \in 1 .. k
  <2>1. i - 1 \in 0 .. n /\ i - 1 # n /\ i - 1 \notin late BY <1>1, <1>3
  <2>2. ~(p.time[s[i]] >= t) BY <2>1
  <2>3. i \in 1 .. N - 1 BY <1>1, <1>3, PoolAssumption
  <2>4. s[i] \in Slots BY <2>3, RingOfSlots DEF Ring
  <2>5. p.time[s[i]] \in Nat BY <2>4 DEF Pools
  <2> QED BY <2>2, <2>5
<1> QED BY <1>3, <1>4, <1>1 DEF Place

(* A step of the search for it.                                            *)
Ahead(p, t, here) ==
  IF p.next[here] = 0 \/ p.time[p.next[here]] >= t THEN here ELSE p.next[here]

(* The search for the place, as a function.                                *)
IsSearch(h, p, t) == h = [j \in 0 .. N |-> IF j = 0 THEN 0 ELSE Ahead(p, t, h[j - 1])]

(* The search ends in front of it.                                         *)
LEMMA LastBeforeAt ==
  ASSUME NEW p, p.time \in [Slots -> Nat], NEW n \in 0 .. N - 1,
         NEW s, Order(s), Listed(p, n, s), NEW t \in Nat,
         NEW k, Place(p, n, s, t, k)
  PROVE  LastBefore(p, t) = s[k]
<1> DEFINE to(j) == IF j < k THEN j ELSE k
           steps == [j \in 0 .. N |-> s[to(j)]]
<1>1. n \in 0 .. N - 1 /\ k \in 0 .. n BY DEF Place
<1>2. \A j \in 0 .. N : to(j) \in 0 .. k BY <1>1, PoolAssumption
<1>3. \A j \in 1 .. N : s[to(j)] = Ahead(p, t, s[to(j - 1)])
  <2> TAKE j \in 1 .. N
  <2>1. CASE j <= k
    <3>1. to(j) = j /\ to(j - 1) = j - 1 BY <2>1, <1>1, PoolAssumption
    <3>2. p.next[s[j - 1]] = s[j]
      BY <2>1, <1>1, PoolAssumption DEF Listed
    <3>3. j \in 1 .. N - 1 BY <2>1, <1>1, PoolAssumption
    <3>4. s[j] \in Slots BY <3>3, RingOfSlots
    <3>5. p.time[s[j]] < t /\ p.time[s[j]] \in Nat
      BY <2>1, <1>1, <3>4 DEF Place
    <3>6. s[j] # 0 BY <3>4 DEF Slots
    <3>7. s[j] = Ahead(p, t, s[j - 1]) BY <3>2, <3>5, <3>6 DEF Ahead
    <3> HIDE DEF to
    <3> QED BY <3>1, <3>7
  <2>2. CASE j > k
    <3>1. to(j) = k /\ to(j - 1) = k BY <2>2, <1>1, PoolAssumption
    <3>2. p.next[s[k]] = IF k = n THEN 0 ELSE s[k + 1]
      BY <1>1 DEF Listed
    <3>3. k # n => p.time[s[k + 1]] >= t BY <1>1 DEF Place
    <3>4. s[k] = Ahead(p, t, s[k]) BY <3>2, <3>3 DEF Ahead
    <3> HIDE DEF to
    <3> QED BY <3>1, <3>4
  <2> QED BY <2>1, <2>2, <1>1, PoolAssumption
<1>4. IsSearch(steps, p, t)
  <2>1. to(0) = 0 /\ s[0] = 0 BY <1>1 DEF Order
  <2>2. \A j \in 1 .. N : steps[j - 1] = s[to(j - 1)] BY PoolAssumption
  <2>3. \A j \in 0 .. N : steps[j] = IF j = 0 THEN 0 ELSE Ahead(p, t, steps[j - 1])
    <3> TAKE j \in 0 .. N
    <3>1. steps[j] = s[to(j)] OBVIOUS
    <3>2. j # 0 => j \in 1 .. N BY PoolAssumption
    <3> HIDE DEF to, steps
    <3> QED BY <3>1, <3>2, <2>1, <2>2, <1>3
  <2>4. steps = [j \in 0 .. N |-> steps[j]] OBVIOUS
  <2> HIDE DEF steps
  <2> QED BY <2>3, <2>4 DEF IsSearch
<1>5. ASSUME NEW h, IsSearch(h, p, t) PROVE h[N] = s[k]
  <2> DEFINE bad == {j \in 0 .. N : h[j] # s[to(j)]}
  <2>1. CASE bad = {}
    <3>1. N \in 0 .. N /\ to(N) = k BY <1>1, PoolAssumption
    <3>2. N \notin bad BY <2>1
    <3> QED BY <3>1, <3>2
  <2>2. CASE bad # {}
    <3>1. bad \in SUBSET Nat BY PoolAssumption
    <3>2. PICK j \in bad : \A y \in bad : j <= y BY <2>2, <3>1, Least
    <3>3. h[0] = 0 /\ to(0) = 0 /\ s[0] = 0
      BY <1>1, <1>5, PoolAssumption DEF Order, IsSearch
    <3>4. j \in 1 .. N /\ j - 1 \in 0 .. N /\ j - 1 \notin bad BY <3>2, <3>3, PoolAssumption
    <3>5. h[j - 1] = s[to(j - 1)] BY <3>4
    <3>6. h[j] = Ahead(p, t, h[j - 1]) BY <3>4, <1>5, PoolAssumption DEF IsSearch
    <3>7. h[j] = s[to(j)] BY <1>3, <3>4, <3>5, <3>6
    <3> QED BY <3>2, <3>7
  <2> QED BY <2>1, <2>2
<1> HIDE DEF steps
<1> QED BY <1>4, <1>5 DEF LastBefore, IsSearch, Ahead

(* What an entry of the list says.                                         *)
Entry(p, x) ==
  [at |-> p.time[x], what |-> IF p.forever[x] # NoEvent THEN p.forever[x] ELSE p.pclk[x]]

(* The slot that was the first free one is the one behind the k-th.        *)
Moved(p, s, k) ==
  [i \in 0 .. N - 1 |->
     IF i <= k \/ i > p.in_use + 1 THEN s[i]
     ELSE IF i = k + 1 THEN s[p.in_use + 1] ELSE s[i - 1]]

(* The links of p when the first free slot goes behind slot old.           *)
Relinked(p, old) == [[p.next EXCEPT ![p.free] = p.next[old]] EXCEPT ![old] = p.free]

(* r is p with an event of time t in its first free slot, behind slot old. *)
Created(p, r, t, old) ==
  /\ r.in_use = p.in_use + 1 /\ r.free = p.next[p.free]
  /\ r.next = Relinked(p, old)
  /\ \A x \in Slots : x # p.free =>
       r.time[x] = p.time[x] /\ r.forever[x] = p.forever[x] /\ r.pclk[x] = p.pclk[x]

(* That is an order, too.                                                  *)
LEMMA MovedOrder ==
  ASSUME NEW W, NEW p \in Pools(W), NEW s, Order(s), p.in_use < N - 1,
         NEW k \in 0 .. p.in_use
  PROVE  Order(Moved(p, s, k))
<1> DEFINE n == p.in_use
           u == Moved(p, s, k)
           from(i) == IF i <= k \/ i > n + 1 THEN i ELSE IF i = k + 1 THEN n + 1 ELSE i - 1
           to(i) == IF i <= k \/ i > n + 1 THEN i ELSE IF i = n + 1 THEN k + 1 ELSE i + 1
<1>1. n \in 0 .. N - 2 BY PoolAssumption DEF Pools
<1>2. \A i \in 0 .. N - 1 : from(i) \in 0 .. N - 1 /\ to(i) \in 0 .. N - 1 /\ from(to(i)) = i
  BY <1>1, PoolAssumption
<1>3. \A i, j \in 0 .. N - 1 : from(i) = from(j) => i = j
  BY <1>1, PoolAssumption
<1>4. \A i \in 0 .. N - 1 : u[i] = s[from(i)]
  BY <1>1, PoolAssumption DEF Moved
<1>5. u \in [0 .. N - 1 -> 0 .. N - 1]
  <2>1. \A i \in 0 .. N - 1 : s[i] \in 0 .. N - 1 BY DEF Order
  <2>2. \A i \in 0 .. N - 1 : u[i] \in 0 .. N - 1 BY <2>1, <1>2, <1>4
  <2> QED BY <2>2 DEF Moved
<1>6. u[0] = 0
  <2>1. s[0] = 0 BY DEF Order
  <2> QED BY <2>1, <1>1, PoolAssumption DEF Moved
<1> HIDE DEF u, from, to
<1>7. \A i, j \in 0 .. N - 1 : u[i] = u[j] => i = j
  BY <1>2, <1>3, <1>4 DEF Order
<1>8. \A x \in 0 .. N - 1 : \E i \in 0 .. N - 1 : u[i] = x
  <2> TAKE x \in 0 .. N - 1
  <2>1. PICK j \in 0 .. N - 1 : s[j] = x BY DEF Order
  <2>2. u[to(j)] = x BY <2>1, <1>2, <1>4
  <2> QED BY <2>2, <1>2
<1> QED BY <1>5, <1>6, <1>7, <1>8 DEF Order, u

(* The slots of a pool with one event more are in that order.              *)
LEMMA CreatedRing ==
  ASSUME NEW W, NEW p \in Pools(W), NEW s, Ring(p, s), p.in_use < N - 1,
         NEW k \in 0 .. p.in_use, NEW r \in Pools(W), NEW t, Created(p, r, t, s[k])
  PROVE  Ring(r, Moved(p, s, k))
<1> DEFINE n == p.in_use
           u == Moved(p, s, k)
<1>1. n \in 0 .. N - 2 BY PoolAssumption DEF Pools
<1>2. p.free = s[n + 1] BY DEF Ring, Links
<1>3. \A i \in 0 .. N - 1 : s[i] \in 0 .. N - 1 BY DEF Ring, Order
<1>17. \A i, j \in 0 .. N - 1 : s[i] = s[j] => i = j BY DEF Ring, Order
<1>18. k \in 0 .. N - 1 /\ n + 1 \in 0 .. N - 1 BY <1>1, PoolAssumption
<1>4. \A i \in 0 .. N - 1 : i # n + 1 => s[i] # p.free BY <1>2, <1>17, <1>18
<1>5. \A i \in 0 .. N - 1 : i # k => s[i] # s[k] BY <1>17, <1>18
<1>6. \A i \in 0 .. N - 1 : r.next[s[i]] =
        IF i = n + 1 THEN p.next[s[k]] ELSE IF i = k THEN s[n + 1] ELSE p.next[s[i]]
  <2>1. p.next \in [0 .. N - 1 -> 0 .. N - 1] BY DEF Pools
  <2>2. k \in 0 .. N - 1 /\ n + 1 \in 0 .. N - 1 /\ k # n + 1 BY <1>1, PoolAssumption
  <2>3. p.free \in 0 .. N - 1 /\ s[k] \in 0 .. N - 1 /\ s[k] # p.free
    BY <2>2, <1>2, <1>3, <1>4
  <2>4. r.next[p.free] = p.next[s[k]] /\ r.next[s[k]] = p.free
    BY <2>1, <2>3 DEF Created, Relinked
  <2>5. \A x \in 0 .. N - 1 : x # p.free /\ x # s[k] => r.next[x] = p.next[x]
    BY <2>1, <2>3 DEF Created, Relinked
  <2> QED BY <2>2, <2>4, <2>5, <1>2, <1>3, <1>4, <1>5
<1>7. Order(u) BY <1>1, MovedOrder, PoolAssumption DEF Ring
<1>8. Listed(r, n + 1, u)
  <2>1. \A i \in 0 .. n : p.next[s[i]] = IF i = n THEN 0 ELSE s[i + 1]
    BY DEF Ring, Links, Listed
  <2> SUFFICES ASSUME NEW i \in 0 .. n + 1
               PROVE  r.next[u[i]] = IF i = n + 1 THEN 0 ELSE u[i + 1]
    BY DEF Listed
  <2>2. CASE i < k
    <3>1. u[i] = s[i] /\ u[i + 1] = s[i + 1]
      BY <1>1, <2>2, PoolAssumption DEF Moved
    <3> QED BY <3>1, <1>1, <1>6, <2>1, <2>2, PoolAssumption
  <2>3. CASE i = k
    <3>1. u[i] = s[k] /\ u[i + 1] = s[n + 1]
      BY <1>1, <2>3, PoolAssumption DEF Moved
    <3> QED BY <3>1, <1>1, <1>6, <2>3, PoolAssumption
  <2>4. CASE i = k + 1
    <3>1. u[i] = s[n + 1] /\ (k # n => u[i + 1] = s[k + 1])
      BY <1>1, <2>4, PoolAssumption DEF Moved
    <3> QED BY <3>1, <1>1, <1>6, <2>1, <2>4, PoolAssumption
  <2>5. CASE i > k + 1
    <3>2. u[i] = s[i - 1]
      BY <1>1, <2>5, PoolAssumption DEF Moved
    <3>3. i # n + 1 => u[i + 1] = s[i]
      <4> SUFFICES ASSUME i # n + 1 PROVE u[i + 1] = s[i] OBVIOUS
      <4>1. i + 1 \in 0 .. n + 1 /\ i + 1 > k + 1 /\ (i + 1) - 1 = i
        BY <1>1, <2>5
      <4>2. u[i + 1] = s[(i + 1) - 1] BY <4>1, <1>1, PoolAssumption DEF Moved
      <4> QED BY <4>1, <4>2
    <3>1. u[i] = s[i - 1] /\ (i # n + 1 => u[i + 1] = s[i]) BY <3>2, <3>3
    <3> QED BY <3>1, <1>1, <1>6, <2>1, <2>5, PoolAssumption
  <2> QED BY <2>2, <2>3, <2>4, <2>5
<1>9. \A i \in n + 2 .. N - 1 : u[i] = s[i]
  BY <1>1, PoolAssumption DEF Moved
<1>10. \A i \in n + 2 .. N - 2 : r.next[u[i]] = u[i + 1]
  <2> TAKE i \in n + 2 .. N - 2
  <2>1. p.next[s[i]] = s[i + 1] BY <1>1, PoolAssumption DEF Ring, Links
  <2>2. u[i] = s[i] /\ u[i + 1] = s[i + 1] BY <1>1, <1>9, PoolAssumption
  <2> QED BY <2>1, <2>2, <1>1, <1>6, PoolAssumption
<1>11. \A i \in n + 2 .. N - 1 : r.forever[u[i]] = NoEvent
  <2> TAKE i \in n + 2 .. N - 1
  <2>1. p.forever[s[i]] = NoEvent BY <1>1, PoolAssumption DEF Ring, Links
  <2>2. i \in 1 .. N - 1 /\ i # n + 1 BY <1>1, PoolAssumption
  <2>3. s[i] \in Slots BY <2>2, RingOfSlots DEF Ring
  <2>4. s[i] # p.free BY <2>2, <1>4
  <2> QED BY <2>1, <2>3, <2>4, <1>9 DEF Created
<1>12. n + 1 < N - 1 => r.free = u[n + 2]
  <2> SUFFICES ASSUME n + 1 < N - 1 PROVE r.free = u[n + 2] OBVIOUS
  <2>1. p.next[s[n + 1]] = s[n + 2] BY <1>1, PoolAssumption DEF Ring, Links
  <2>2. u[n + 2] = s[n + 2] BY <1>1, <1>9, PoolAssumption
  <2> QED BY <2>1, <2>2, <1>2 DEF Created
<1>13. r.in_use = n + 1 BY DEF Created
<1> HIDE DEF u
<1>14. \A i \in r.in_use + 1 .. N - 1 : i \in n + 2 .. N - 1 BY <1>1, <1>13
<1>15. \A i \in r.in_use + 1 .. N - 2 : i \in n + 2 .. N - 2 BY <1>1, <1>13
<1>16. Links(r, u)
  BY <1>1, <1>8, <1>10, <1>11, <1>12, <1>13, <1>14, <1>15 DEF Links
<1> QED BY <1>7, <1>16 DEF Ring, u

(* q is p with a time in its first free slot.                              *)
Timed(p, q, t) == q.next = p.next /\ q.time = [p.time EXCEPT ![p.free] = t]

(* It goes where its time belongs.                                         *)
LEMMA CreatedBehind ==
  ASSUME NEW W, NEW p \in Pools(W), NEW s, Ring(p, s), p.in_use < N - 1,
         NEW t \in Nat, NEW k, Place(p, p.in_use, s, t, k),
         NEW q \in Pools(W), Timed(p, q, t)
  PROVE  LastBefore(q, t) = s[k]
<1> DEFINE n == p.in_use
<1>1. n \in 0 .. N - 2 /\ k \in 0 .. n BY PoolAssumption DEF Pools, Place
<1>2. Order(s) /\ Listed(p, n, s) /\ p.free = s[n + 1] BY DEF Ring, Links
<1>3. \A i, j \in 0 .. N - 1 : s[i] = s[j] => i = j BY <1>2 DEF Order
<1>4. \A i \in 1 .. n : q.time[s[i]] = p.time[s[i]]
  <2> TAKE i \in 1 .. n
  <2>1. i \in 1 .. N - 1 /\ n + 1 \in 0 .. N - 1 /\ i # n + 1 BY <1>1, PoolAssumption
  <2>2. s[i] # p.free BY <2>1, <1>2, <1>3, PoolAssumption
  <2>3. s[i] \in Slots BY <2>1, <1>2, RingOfSlots
  <2>4. p.time \in [Slots -> Nat] BY DEF Pools
  <2> QED BY <2>2, <2>3, <2>4 DEF Timed
<1>5. Listed(q, n, s) BY <1>2 DEF Listed, Timed
<1>6. Place(q, n, s, t, k)
  <2>1. \A i \in 1 .. k : i \in 1 .. n BY <1>1
  <2>2. k < n => k + 1 \in 1 .. n BY <1>1
  <2> QED BY <2>1, <2>2, <1>4 DEF Place
<1>7. q.time \in [Slots -> Nat] /\ n \in 0 .. N - 1 BY <1>1, PoolAssumption DEF Pools
<1> QED BY <1>7, <1>2, <1>5, <1>6, LastBeforeAt

(* That is what CreateClk does,                                            *)
LEMMA CreateClkCreates ==
  ASSUME NEW W, NEW p \in Pools(W), NEW s, Ring(p, s), p.in_use < N - 1,
         NEW t \in Nat, NEW k, Place(p, p.in_use, s, t, k), NEW c \in W
  PROVE  LET r == CreateClk(p, t, c) IN
         /\ r \in Pools(W) /\ Created(p, r, t, s[k])
         /\ Entry(r, p.free) = [at |-> t, what |-> c]
<1> DEFINE n == p.in_use
           q == [GetFree(p, t) EXCEPT !.pclk[p.free] = c]
           r == CreateClk(p, t, c)
<1>1. n \in 0 .. N - 2 /\ k \in 0 .. n BY PoolAssumption DEF Pools, Place
<1>2. p.free \in Slots /\ p.forever[p.free] = NoEvent
  <2>1. n + 1 \in n + 1 .. N - 1 /\ n + 1 \in 1 .. N - 1 BY <1>1, PoolAssumption
  <2> QED BY <2>1, RingOfSlots DEF Ring, Links
<1>3. s[k] \in 0 .. N - 1
  <2>1. k \in 0 .. N - 1 BY <1>1, PoolAssumption
  <2> QED BY <2>1 DEF Ring, Order
<1>4. /\ q.next = p.next /\ q.time = [p.time EXCEPT ![p.free] = t]
      /\ q.forever = p.forever /\ q.pclk = [p.pclk EXCEPT ![p.free] = c]
      /\ q.free = p.next[p.free] /\ q.in_use = n + 1
  BY DEF GetFree, Pools
<1>5. q \in Pools(W)
  <2>2. p.next \in [0 .. N - 1 -> 0 .. N - 1] /\ p.free \in 0 .. N - 1 BY DEF Pools
  <2>1. p.next[p.free] \in 0 .. N - 1 /\ n + 1 \in 0 .. N - 1
    <3> HIDE DEF n
    <3> QED BY <2>2, <1>1, PoolAssumption
  <2> QED BY <1>2, <2>1 DEF GetFree, Pools, Names
<1>6. r = [q EXCEPT !.next = Relinked(p, s[k])]
  <2>1. r = Linked(q, p.free, t) BY DEF CreateClk
  <2> HIDE DEF q, r
  <2>2. Timed(p, q, t) BY <1>4 DEF Timed
  <2>3. LastBefore(q, t) = s[k] BY <2>2, <1>5, CreatedBehind
  <2> QED BY <2>1, <2>3, <1>4, <1>5 DEF Linked, Relinked, Pools
<1> HIDE DEF q, r
<1>7. r \in Pools(W)
  <2>1. p.free \in 0 .. N - 1 /\ p.next \in [0 .. N - 1 -> 0 .. N - 1] BY DEF Pools
  <2>2. Relinked(p, s[k]) \in [0 .. N - 1 -> 0 .. N - 1] BY <2>1, <1>3 DEF Relinked
  <2> QED BY <2>2, <1>5, <1>6 DEF Pools
<1>8. /\ r.in_use = n + 1 /\ r.free = p.next[p.free]
      /\ r.time = [p.time EXCEPT ![p.free] = t] /\ r.forever = p.forever
      /\ r.pclk = [p.pclk EXCEPT ![p.free] = c]
      /\ r.next = Relinked(p, s[k])
  BY <1>4, <1>5, <1>6 DEF Pools
<1>9. Created(p, r, t, s[k]) BY <1>8 DEF Created, Pools
<1>10. Entry(r, p.free) = [at |-> t, what |-> c]
  BY <1>2, <1>8 DEF Entry, Pools
<1> QED BY <1>7, <1>9, <1>10 DEF r

(* and CreateForever.                                                      *)
LEMMA CreateForeverCreates ==
  ASSUME NEW W, NEW p \in Pools(W), NEW s, Ring(p, s), p.in_use < N - 1,
         NEW t \in Nat, NEW k, Place(p, p.in_use, s, t, k), NEW f \in W, f # NoEvent
  PROVE  LET r == CreateForever(p, t, f) IN
         /\ r \in Pools(W) /\ Created(p, r, t, s[k])
         /\ Entry(r, p.free) = [at |-> t, what |-> f]
<1> DEFINE n == p.in_use
           q == [GetFree(p, t) EXCEPT !.forever[p.free] = f]
           r == CreateForever(p, t, f)
<1>1. n \in 0 .. N - 2 /\ k \in 0 .. n BY PoolAssumption DEF Pools, Place
<1>2. p.free \in Slots
  <2>1. n + 1 \in 1 .. N - 1 BY <1>1, PoolAssumption
  <2> QED BY <2>1, RingOfSlots DEF Ring, Links
<1>3. s[k] \in 0 .. N - 1
  <2>1. k \in 0 .. N - 1 BY <1>1, PoolAssumption
  <2> QED BY <2>1 DEF Ring, Order
<1>4. /\ q.next = p.next /\ q.time = [p.time EXCEPT ![p.free] = t]
      /\ q.pclk = p.pclk /\ q.forever = [p.forever EXCEPT ![p.free] = f]
      /\ q.free = p.next[p.free] /\ q.in_use = n + 1
  BY DEF GetFree, Pools
<1>5. q \in Pools(W)
  <2>2. p.next \in [0 .. N - 1 -> 0 .. N - 1] /\ p.free \in 0 .. N - 1 BY DEF Pools
  <2>1. p.next[p.free] \in 0 .. N - 1 /\ n + 1 \in 0 .. N - 1
    <3> HIDE DEF n
    <3> QED BY <2>2, <1>1, PoolAssumption
  <2> QED BY <1>2, <2>1 DEF GetFree, Pools, Names
<1>6. r = [q EXCEPT !.next = Relinked(p, s[k])]
  <2>1. r = Linked(q, p.free, t) BY DEF CreateForever
  <2> HIDE DEF q, r
  <2>2. Timed(p, q, t) BY <1>4 DEF Timed
  <2>3. LastBefore(q, t) = s[k] BY <2>2, <1>5, CreatedBehind
  <2> QED BY <2>1, <2>3, <1>4, <1>5 DEF Linked, Relinked, Pools
<1> HIDE DEF q, r
<1>7. r \in Pools(W)
  <2>1. p.free \in 0 .. N - 1 /\ p.next \in [0 .. N - 1 -> 0 .. N - 1] BY DEF Pools
  <2>2. Relinked(p, s[k]) \in [0 .. N - 1 -> 0 .. N - 1] BY <2>1, <1>3 DEF Relinked
  <2> QED BY <2>2, <1>5, <1>6 DEF Pools
<1>8. /\ r.in_use = n + 1 /\ r.free = p.next[p.free]
      /\ r.time = [p.time EXCEPT ![p.free] = t] /\ r.pclk = p.pclk
      /\ r.forever = [p.forever EXCEPT ![p.free] = f]
      /\ r.next = Relinked(p, s[k])
  BY <1>4, <1>5, <1>6 DEF Pools
<1>9. Created(p, r, t, s[k]) BY <1>8 DEF Created, Pools
<1>10. Entry(r, p.free) = [at |-> t, what |-> f]
  BY <1>2, <1>8 DEF Entry, Pools
<1> QED BY <1>7, <1>9, <1>10 DEF r

(* The first slot of the list is the first free one.                       *)
Freed(p, s) ==
  [i \in 0 .. N - 1 |->
     IF i = 0 \/ i > p.in_use THEN s[i] ELSE IF i = p.in_use THEN s[1] ELSE s[i + 1]]

(* That is an order, too.                                                  *)
LEMMA FreedOrder ==
  ASSUME NEW W, NEW p \in Pools(W), NEW s, Order(s), p.in_use # 0
  PROVE  Order(Freed(p, s))
<1> DEFINE n == p.in_use
           u == Freed(p, s)
           from(i) == IF i = 0 \/ i > n THEN i ELSE IF i = n THEN 1 ELSE i + 1
           to(i) == IF i = 0 \/ i > n THEN i ELSE IF i = 1 THEN n ELSE i - 1
<1>1. n \in 1 .. N - 1 BY PoolAssumption DEF Pools
<1>2. \A i \in 0 .. N - 1 : from(i) \in 0 .. N - 1 /\ to(i) \in 0 .. N - 1 /\ from(to(i)) = i
  BY <1>1, PoolAssumption
<1>3. \A i, j \in 0 .. N - 1 : from(i) = from(j) => i = j
  BY <1>1, PoolAssumption
<1>4. \A i \in 0 .. N - 1 : u[i] = s[from(i)]
  BY <1>1, PoolAssumption DEF Freed
<1>5. u \in [0 .. N - 1 -> 0 .. N - 1]
  <2>1. \A i \in 0 .. N - 1 : s[i] \in 0 .. N - 1 BY DEF Order
  <2>2. \A i \in 0 .. N - 1 : u[i] \in 0 .. N - 1 BY <2>1, <1>2, <1>4
  <2> QED BY <2>2 DEF Freed
<1>6. u[0] = 0
  <2>1. s[0] = 0 BY DEF Order
  <2> QED BY <2>1, <1>1, PoolAssumption DEF Freed
<1> HIDE DEF u, from, to
<1>7. \A i, j \in 0 .. N - 1 : u[i] = u[j] => i = j
  BY <1>2, <1>3, <1>4 DEF Order
<1>8. \A x \in 0 .. N - 1 : \E i \in 0 .. N - 1 : u[i] = x
  <2> TAKE x \in 0 .. N - 1
  <2>1. PICK j \in 0 .. N - 1 : s[j] = x BY DEF Order
  <2>2. u[to(j)] = x BY <2>1, <1>2, <1>4
  <2> QED BY <2>2, <1>2
<1> QED BY <1>5, <1>6, <1>7, <1>8 DEF Order, u

(* That is what DropFirst does.                                            *)
LEMMA DropFirstFrees ==
  ASSUME NEW W, NEW p \in Pools(W), NEW s, Ring(p, s), p.in_use # 0
  PROVE  LET r == DropFirst(p) IN
         /\ First(p) = s[1] /\ First(p) \in Slots
         /\ r \in Pools(W) /\ Ring(r, Freed(p, s)) /\ r.in_use = p.in_use - 1
         /\ \A x \in Slots \ {First(p)} : Entry(r, x) = Entry(p, x)
<1> DEFINE n == p.in_use
           r == DropFirst(p)
           u == Freed(p, s)
<1>1. n \in 1 .. N - 1 BY PoolAssumption DEF Pools
<1>2. \A i, j \in 0 .. N - 1 : s[i] = s[j] => i = j BY DEF Ring, Order
<1>3. \A i \in 0 .. N - 1 : s[i] \in 0 .. N - 1 BY DEF Ring, Order
<1>4. s[0] = 0 BY DEF Ring, Order
<1>5. \A i \in 0 .. n : p.next[s[i]] = IF i = n THEN 0 ELSE s[i + 1]
  BY DEF Ring, Links, Listed
<1>6. First(p) = s[1] BY <1>1, <1>4, <1>5 DEF First
<1>7. First(p) \in Slots
  <2>1. 1 \in 1 .. N - 1 BY PoolAssumption
  <2> QED BY <2>1, <1>6, RingOfSlots DEF Ring
<1>8. p.next[First(p)] \in 0 .. N - 1 /\ First(p) # 0 /\ First(p) \in 0 .. N - 1
  <2>1. p.next \in [0 .. N - 1 -> 0 .. N - 1] BY DEF Pools
  <2>2. First(p) # 0 /\ First(p) \in 0 .. N - 1 BY <1>7, PoolAssumption DEF Slots
  <2> QED BY <2>1, <2>2
<1>9. /\ r.in_use = n - 1 /\ r.free = First(p)
      /\ r.next = [[p.next EXCEPT ![First(p)] = p.free] EXCEPT ![0] = p.next[First(p)]]
      /\ r.forever = [p.forever EXCEPT ![First(p)] = NoEvent]
      /\ r.time = p.time /\ r.pclk = p.pclk
  BY DEF DropFirst, Recycle, Pools
<1>10. r \in Pools(W)
  <2> DEFINE q == Recycle(p, First(p))
  <2>1. n - 1 \in 0 .. N - 1 BY <1>1, PoolAssumption
  <2>2. q \in Pools(W) /\ q.next = [p.next EXCEPT ![First(p)] = p.free]
    <3>1. First(p) \in 0 .. N - 1 BY <1>8
    <3> QED BY <2>1, <3>1, <1>7 DEF Recycle, Pools, Names
  <2>3. r = [q EXCEPT !.next[0] = p.next[First(p)]] BY DEF DropFirst
  <2>4. 0 \in 0 .. N - 1 BY PoolAssumption
  <2> HIDE DEF q, r
  <2> QED BY <2>2, <2>3, <2>4, <1>8 DEF Pools
<1>11. \A x \in Slots \ {First(p)} : Entry(r, x) = Entry(p, x)
  <2>1. \A x \in Slots \ {First(p)} : r.forever[x] = p.forever[x]
    BY <1>9 DEF Pools
  <2> HIDE DEF r
  <2> QED BY <2>1, <1>9 DEF Entry
<1> HIDE DEF r
<1>12. \A i \in 0 .. N - 1 : r.next[s[i]] =
         IF i = 0 THEN p.next[s[1]] ELSE IF i = 1 THEN p.free ELSE p.next[s[i]]
  <2>1. p.next \in [0 .. N - 1 -> 0 .. N - 1] BY DEF Pools
  <2>2. 1 \in 0 .. N - 1 /\ 0 \in 0 .. N - 1 BY PoolAssumption
  <2>3. r.next[0] = p.next[s[1]] /\ r.next[s[1]] = p.free
    BY <2>1, <2>2, <1>6, <1>8, <1>9
  <2>4. \A x \in 0 .. N - 1 : x # 0 /\ x # s[1] => r.next[x] = p.next[x]
    BY <2>1, <2>2, <1>6, <1>8, <1>9
  <2>5. \A i \in 0 .. N - 1 : i # 0 /\ i # 1 => s[i] # 0 /\ s[i] # s[1]
    BY <2>2, <1>2, <1>4
  <2> QED BY <2>2, <2>3, <2>4, <2>5, <1>3, <1>4
<1>13. Order(u) BY FreedOrder DEF Ring
<1>14. Listed(r, n - 1, u)
  <2> SUFFICES ASSUME NEW i \in 0 .. n - 1
               PROVE  r.next[u[i]] = IF i = n - 1 THEN 0 ELSE u[i + 1]
    BY DEF Listed
  <2>1. i + 1 \in 0 .. n /\ i + 1 \in 0 .. N - 1 /\ (i + 1) + 1 = i + 2
    BY <1>1, PoolAssumption
  <2>2. u[i] = IF i = 0 THEN s[0] ELSE s[i + 1]
    BY <1>1, PoolAssumption DEF Freed
  <2>3. i # n - 1 => u[i + 1] = s[i + 2]
    <3> SUFFICES ASSUME i # n - 1 PROVE u[i + 1] = s[i + 2] OBVIOUS
    <3>1. u[i + 1] = s[(i + 1) + 1] BY <2>1, <1>1, PoolAssumption DEF Freed
    <3> QED BY <3>1, <2>1
  <2>4. p.next[s[i + 1]] = IF i = n - 1 THEN 0 ELSE s[i + 2]
    BY <2>1, <1>1, <1>5
  <2>5. r.next[u[i]] = p.next[s[i + 1]]
    <3>1. CASE i = 0 BY <3>1, <2>2, <1>12, PoolAssumption
    <3>2. CASE i # 0
      <4>1. i + 1 # 0 /\ i + 1 # 1 BY <3>2, <1>1, PoolAssumption
      <4> QED BY <4>1, <3>2, <2>1, <2>2, <1>12
    <3> QED BY <3>1, <3>2
  <2> QED BY <2>3, <2>4, <2>5
<1>15. u[n] = s[1] /\ \A i \in n + 1 .. N - 1 : u[i] = s[i]
  <2>1. u[n] = s[1] BY <1>1, PoolAssumption DEF Freed
  <2>2. \A i \in n + 1 .. N - 1 : u[i] = s[i] BY <1>1, PoolAssumption DEF Freed
  <2> QED BY <2>1, <2>2
<1>16. \A i \in n .. N - 2 : r.next[u[i]] = u[i + 1]
  <2> TAKE i \in n .. N - 2
  <2>1. u[i + 1] = s[i + 1] BY <1>1, <1>15, PoolAssumption
  <2>2. CASE i = n
    <3>1. p.free = s[n + 1] BY <1>1, <2>2, PoolAssumption DEF Ring, Links
    <3>2. r.next[s[1]] = p.free BY <1>12, PoolAssumption
    <3> QED BY <3>1, <3>2, <2>1, <2>2, <1>15
  <2>3. CASE i # n
    <3>1. p.next[s[i]] = s[i + 1] BY <1>1, <2>3, PoolAssumption DEF Ring, Links
    <3>2. r.next[s[i]] = p.next[s[i]] BY <1>1, <2>3, <1>12, PoolAssumption
    <3>3. u[i] = s[i] BY <1>1, <2>3, <1>15, PoolAssumption
    <3> QED BY <3>1, <3>2, <3>3, <2>1
  <2> QED BY <2>2, <2>3
<1>17. \A i \in n .. N - 1 : r.forever[u[i]] = NoEvent
  <2> TAKE i \in n .. N - 1
  <2>1. p.forever \in [Slots -> Names(W)] BY DEF Pools
  <2>2. CASE i = n BY <2>1, <2>2, <1>6, <1>7, <1>9, <1>15
  <2>3. CASE i # n
    <3>1. i \in 1 .. N - 1 /\ i \in n + 1 .. N - 1 BY <1>1, <2>3
    <3>2. p.forever[s[i]] = NoEvent BY <3>1 DEF Ring, Links
    <3>3. s[i] \in Slots BY <3>1, RingOfSlots DEF Ring
    <3> QED BY <3>1, <3>2, <3>3, <2>1, <1>7, <1>9, <1>15
  <2> QED BY <2>2, <2>3
<1> HIDE DEF u
<1>18. r.in_use + 1 = n BY <1>1, <1>9
<1>19. Links(r, u)
  BY <1>6, <1>9, <1>14, <1>15, <1>16, <1>17, <1>18 DEF Links
<1>20. Ring(r, u) BY <1>13, <1>19 DEF Ring
<1> QED BY <1>6, <1>7, <1>9, <1>10, <1>11, <1>20 DEF r, u

-----------------------------------------------------------------------------
(* The pool as a queue q of entries, each with a name of its own from W.   *)
Stored(p, s, q) == q = [i \in 1 .. p.in_use |-> Entry(p, s[i])]

(* Entries in order of time, each with a name of its own.                  *)
InTime(q) == \A i, j \in DOMAIN q : i < j => q[i].at <= q[j].at
Distinct(q) == \A i, j \in DOMAIN q : q[i].what = q[j].what => i = j
Entries(q) == {q[i] : i \in DOMAIN q}
(* Entries with names of W.                                                *)
Named(q, W) == \A a \in Entries(q) : a.at \in Nat /\ a.what \in W
(* One entry is in front of another one.                                   *)
Before(q, a, b) == \E i, j \in DOMAIN q : i < j /\ q[i] = a /\ q[j] = b

(* The pool holds the queue q.                                             *)
Queue(p, q, W) ==
  /\ p \in Pools(W) /\ \E s : Ring(p, s) /\ Stored(p, s, q)
  /\ InTime(q) /\ Distinct(q) /\ Named(q, W)

(* r is q with new entries: each goes in front of those that are not       *)
(* earlier, and the order of the others stays.                             *)
Extends(q, r, new) ==
  /\ Entries(r) = Entries(q) \cup new
  /\ \A a, b \in Entries(q) : Before(q, a, b) => Before(r, a, b)
  /\ \A a \in Entries(q), e \in new : a.at >= e.at => Before(r, e, a)

(* in_use counts the entries.                                              *)
LEMMA QueueLength ==
  ASSUME NEW W, NEW p, NEW q, Queue(p, q, W)
  PROVE  p.in_use \in 0 .. N - 1 /\ DOMAIN q = 1 .. p.in_use
BY DEF Queue, Pools, Stored

(* Entries can join in two steps, or none may join.                        *)
LEMMA ExtendsTwice ==
  ASSUME NEW q, NEW r, NEW u, NEW A, NEW B, Extends(q, r, A), Extends(r, u, B)
  PROVE  Extends(q, u, A \cup B)
BY DEF Extends

LEMMA ExtendsNothing ==
  ASSUME NEW q
  PROVE  Extends(q, q, {})
BY DEF Extends

(* As each entry has a name of its own, there is room for one more.        *)
LEMMA Room ==
  ASSUME NEW W, IsFiniteSet(W), Cardinality(W) <= N - 1, NEW p, NEW q, Queue(p, q, W),
         NEW x \in W, \A a \in Entries(q) : a.what # x
  PROVE  p.in_use < N - 1
<1> DEFINE n == p.in_use
           f == [i \in 1 .. n |-> q[i].what]
<1>1. n \in Nat /\ DOMAIN q = 1 .. n BY QueueLength, PoolAssumption
<1>2. f \in Injection(1 .. n, W \ {x})
  <2>1. \A i \in 1 .. n : q[i] \in Entries(q) BY <1>1 DEF Entries
  <2>2. f \in [1 .. n -> W \ {x}] BY <2>1 DEF Queue, Named
  <2>3. \A i, j \in 1 .. n : f[i] = f[j] => i = j BY <1>1 DEF Queue, Distinct
  <2> QED BY <2>2, <2>3 DEF Injection, IsInjective
<1>3. /\ IsFiniteSet(W \ {x}) /\ Cardinality(W \ {x}) = Cardinality(W) - 1
      /\ Cardinality(W) \in Nat
  BY FS_RemoveElement, FS_CardinalityType
<1>4. Cardinality(1 .. n) <= Cardinality(W \ {x}) BY <1>2, <1>3, FS_Injection
<1>5. Cardinality(1 .. n) = n BY <1>1, FS_Interval
<1> QED BY <1>1, <1>3, <1>4, <1>5, PoolAssumption

(* An entry joins the queue where its time belongs.                        *)
Joined(q, n, k, e) ==
  [i \in 1 .. n + 1 |-> IF i <= k THEN q[i] ELSE IF i = k + 1 THEN e ELSE q[i - 1]]

(* A queue with one entry more is in time, and extends the other.          *)
LEMMA JoinedExtends ==
  ASSUME NEW W, NEW n \in Nat, NEW q, DOMAIN q = 1 .. n, InTime(q), Distinct(q), Named(q, W),
         NEW x \in W, \A a \in Entries(q) : a.what # x, NEW t \in Nat, NEW k \in 0 .. n,
         \A i \in 1 .. k : q[i].at < t, k < n => q[k + 1].at >= t
  PROVE  LET e == [at |-> t, what |-> x]
             r == Joined(q, n, k, e)
         IN InTime(r) /\ Distinct(r) /\ Named(r, W) /\ Extends(q, r, {e})
<1> DEFINE e == [at |-> t, what |-> x]
           r == Joined(q, n, k, e)
           to(i) == IF i <= k THEN i ELSE i + 1
           from(i) == IF i <= k THEN i ELSE i - 1
<1>1. \A i \in 1 .. n : q[i] \in Entries(q) /\ q[i].at \in Nat /\ q[i].what \in W /\ q[i].what # x
  BY DEF Named, Entries
<1>2. DOMAIN r = 1 .. n + 1 BY DEF Joined
<1>3. \A i \in 1 .. n : to(i) \in 1 .. n + 1 /\ r[to(i)] = q[i]
  <2> TAKE i \in 1 .. n
  <2>1. CASE i <= k BY <2>1 DEF Joined
  <2>2. CASE i > k
    <3>1. i + 1 \in 1 .. n + 1 /\ ~(i + 1 <= k) /\ i + 1 # k + 1 /\ (i + 1) - 1 = i BY <2>2
    <3>2. r[i + 1] = q[(i + 1) - 1] BY <3>1 DEF Joined
    <3> QED BY <3>1, <3>2, <2>2
  <2> QED BY <2>1, <2>2
<1>4. r[k + 1] = e BY DEF Joined
<1>5. \A i \in 1 .. n + 1 : i # k + 1 => from(i) \in 1 .. n /\ r[i] = q[from(i)]
  <2> TAKE i \in 1 .. n + 1
  <2> HAVE i # k + 1
  <2> QED BY DEF Joined
<1>6. \A i, j \in 1 .. n : i < j => q[i].at <= q[j].at BY DEF InTime
<1>7. \A i \in k + 1 .. n : q[i].at >= t
  <2> TAKE i \in k + 1 .. n
  <2>1. k + 1 \in 1 .. n /\ i \in 1 .. n /\ k < n OBVIOUS
  <2>2. q[k + 1].at >= t /\ (q[k + 1].at <= q[i].at \/ i = k + 1) BY <2>1, <1>6
  <2> QED BY <2>1, <2>2, <1>1
<1> HIDE DEF r
<1>8. InTime(r)
  <2> SUFFICES ASSUME NEW i \in 1 .. n + 1, NEW j \in 1 .. n + 1, i < j
               PROVE  r[i].at <= r[j].at
    BY <1>2 DEF InTime
  <2>1. CASE i = k + 1
    <3>1. j # k + 1 /\ from(j) \in k + 1 .. n BY <2>1
    <3>2. r[j].at >= t BY <3>1, <1>5, <1>7
    <3>3. r[i].at = t BY <2>1, <1>4
    <3>4. r[j].at \in Nat BY <3>1, <1>1, <1>5
    <3> QED BY <3>2, <3>3, <3>4
  <2>2. CASE j = k + 1
    <3>1. i # k + 1 /\ from(i) \in 1 .. k BY <2>2
    <3>2. r[i].at < t /\ r[i].at \in Nat BY <3>1, <1>1, <1>5
    <3>3. r[j].at = t BY <2>2, <1>4
    <3> QED BY <3>2, <3>3
  <2>3. CASE i # k + 1 /\ j # k + 1
    <3>1. from(i) < from(j) BY <2>3
    <3> HIDE DEF from
    <3> QED BY <3>1, <2>3, <1>5, <1>6
  <2> QED BY <2>1, <2>2, <2>3
<1>9. Distinct(r)
  <2> SUFFICES ASSUME NEW i \in 1 .. n + 1, NEW j \in 1 .. n + 1, r[i].what = r[j].what
               PROVE  i = j
    BY <1>2 DEF Distinct
  <2>1. \A l \in 1 .. n + 1 : l # k + 1 => r[l].what # x
    <3> HIDE DEF from
    <3> QED BY <1>1, <1>5
  <2>2. CASE i = k + 1 \/ j = k + 1 BY <2>1, <2>2, <1>4
  <2>3. CASE i # k + 1 /\ j # k + 1
    <3>1. from(i) = from(j)
      <4> HIDE DEF from
      <4> QED BY <2>3, <1>5 DEF Distinct
    <3> QED BY <3>1, <2>3
  <2> QED BY <2>2, <2>3
<1>10. Entries(r) = Entries(q) \cup {e}
  <2>1. \A a \in Entries(r) : a \in Entries(q) \cup {e}
    <3> TAKE a \in Entries(r)
    <3>1. PICK i \in 1 .. n + 1 : a = r[i] BY <1>2 DEF Entries
    <3> HIDE DEF from, e
    <3> QED BY <3>1, <1>1, <1>4, <1>5
  <2>2. \A a \in Entries(q) : a \in Entries(r)
    <3> TAKE a \in Entries(q)
    <3>1. PICK i \in 1 .. n : a = q[i] BY DEF Entries
    <3> HIDE DEF to, e
    <3> QED BY <3>1, <1>2, <1>3 DEF Entries
  <2>3. e \in Entries(r) BY <1>2, <1>4 DEF Entries
  <2> QED BY <2>1, <2>2, <2>3
<1>11. Named(r, W)
  <2>1. e.at \in Nat /\ e.what \in W OBVIOUS
  <2> HIDE DEF e
  <2> QED BY <2>1, <1>10 DEF Named
<1>12. \A a, b \in Entries(q) : Before(q, a, b) => Before(r, a, b)
  <2> SUFFICES ASSUME NEW a, NEW b, Before(q, a, b) PROVE Before(r, a, b) OBVIOUS
  <2>1. PICK i \in 1 .. n, j \in 1 .. n : i < j /\ q[i] = a /\ q[j] = b BY DEF Before
  <2>2. to(i) < to(j) BY <2>1
  <2> HIDE DEF to
  <2>3. /\ to(i) \in DOMAIN r /\ to(j) \in DOMAIN r
        /\ r[to(i)] = a /\ r[to(j)] = b
    BY <2>1, <1>2, <1>3
  <2> QED BY <2>2, <2>3 DEF Before
<1>13. \A a \in Entries(q) : a.at >= e.at => Before(r, e, a)
  <2> SUFFICES ASSUME NEW a \in Entries(q), a.at >= t PROVE Before(r, e, a) OBVIOUS
  <2>1. PICK i \in 1 .. n : q[i] = a BY DEF Entries
  <2>2. i > k
    <3> SUFFICES ASSUME i <= k PROVE FALSE OBVIOUS
    <3>1. q[i].at < t /\ q[i].at \in Nat BY <1>1
    <3> QED BY <3>1, <2>1
  <2>3. to(i) > k + 1 BY <2>2
  <2> HIDE DEF to, e
  <2>4. k + 1 \in DOMAIN r /\ to(i) \in DOMAIN r /\ r[to(i)] = a
    BY <2>1, <1>2, <1>3
  <2> QED BY <2>3, <2>4, <1>4 DEF Before
<1> QED BY <1>8, <1>9, <1>10, <1>11, <1>12, <1>13 DEF Extends, r

(* So it is with a new event of the pool:                                  *)
LEMMA CreatedJoins ==
  ASSUME NEW W, NEW p, NEW q, Queue(p, q, W), NEW s, Ring(p, s), Stored(p, s, q),
         p.in_use < N - 1, NEW t \in Nat, NEW k, Place(p, p.in_use, s, t, k),
         NEW x \in W, \A a \in Entries(q) : a.what # x,
         NEW r \in Pools(W), Created(p, r, t, s[k]), Entry(r, p.free) = [at |-> t, what |-> x]
  PROVE  LET e == [at |-> t, what |-> x]
             u == Joined(q, p.in_use, k, e)
         IN Queue(r, u, W) /\ Extends(q, u, {e})
<1> DEFINE n == p.in_use
           e == [at |-> t, what |-> x]
           u == Joined(q, n, k, e)
           v == Moved(p, s, k)
<1>1. n \in 0 .. N - 2 /\ k \in 0 .. n /\ DOMAIN q = 1 .. n /\ p \in Pools(W)
  <2>1. n \in 0 .. N - 1 /\ DOMAIN q = 1 .. n BY QueueLength
  <2>2. p \in Pools(W) BY DEF Queue
  <2>3. k \in 0 .. n BY DEF Place
  <2> QED BY <2>1, <2>2, <2>3, PoolAssumption
<1>2. \A i \in 1 .. n : q[i] = Entry(p, s[i]) BY DEF Stored
<1>3. \A i \in 1 .. n : q[i].at = p.time[s[i]]
  <2> TAKE i \in 1 .. n
  <2>1. Entry(p, s[i]).at = p.time[s[i]] BY DEF Entry
  <2> QED BY <2>1, <1>2
<1>4. InTime(u) /\ Distinct(u) /\ Named(u, W) /\ Extends(q, u, {e})
  <2>1. \A i \in 1 .. k : q[i].at < t BY <1>1, <1>3 DEF Place
  <2>2. k < n => q[k + 1].at >= t BY <1>1, <1>3 DEF Place
  <2>3. n \in Nat /\ InTime(q) /\ Distinct(q) /\ Named(q, W) BY <1>1 DEF Queue
  <2> HIDE DEF n
  <2> QED BY <2>1, <2>2, <2>3, <1>1, JoinedExtends
<1>5. Ring(r, v)
  <2> HIDE DEF v
  <2>1. k \in 0 .. p.in_use BY <1>1
  <2> QED BY <2>1, <1>1, CreatedRing DEF v
<1>6. \A i \in 1 .. n : Entry(r, s[i]) = Entry(p, s[i])
  <2> TAKE i \in 1 .. n
  <2>1. i \in 1 .. N - 1 /\ n + 1 \in 0 .. N - 1 /\ i # n + 1 BY <1>1, PoolAssumption
  <2>2. p.free = s[n + 1] BY <2>1, <1>1 DEF Ring, Links
  <2>3. \A j, l \in 0 .. N - 1 : s[j] = s[l] => j = l BY DEF Ring, Order
  <2>4. s[i] # p.free BY <2>1, <2>2, <2>3, PoolAssumption
  <2>5. s[i] \in Slots BY <2>1, RingOfSlots DEF Ring
  <2> QED BY <2>4, <2>5 DEF Created, Entry
<1>7. \A i \in 1 .. n + 1 :
        v[i] = IF i <= k THEN s[i] ELSE IF i = k + 1 THEN p.free ELSE s[i - 1]
  <2>1. p.free = s[n + 1] BY <1>1 DEF Ring, Links
  <2> QED BY <2>1, <1>1, PoolAssumption DEF Moved
<1>8. \A i \in 1 .. n + 1 : u[i] = Entry(r, v[i])
  <2> TAKE i \in 1 .. n + 1
  <2>1. CASE i <= k
    <3>1. u[i] = q[i] /\ v[i] = s[i] /\ i \in 1 .. n BY <2>1, <1>1, <1>7 DEF Joined
    <3> QED BY <3>1, <1>2, <1>6
  <2>2. CASE i = k + 1
    <3>1. u[i] = e /\ v[i] = p.free BY <2>2, <1>1, <1>7 DEF Joined
    <3> QED BY <3>1
  <2>3. CASE i > k + 1
    <3>1. u[i] = q[i - 1] /\ v[i] = s[i - 1] /\ i - 1 \in 1 .. n
      BY <2>3, <1>1, <1>7 DEF Joined
    <3> QED BY <3>1, <1>2, <1>6
  <2> QED BY <2>1, <2>2, <2>3, <1>1
<1>9. r.in_use = n + 1 BY DEF Created
<1>10. Stored(r, v, u)
  <2>1. u = [i \in 1 .. n + 1 |-> u[i]] BY DEF Joined
  <2> HIDE DEF u, v
  <2> QED BY <2>1, <1>8, <1>9 DEF Stored
<1> HIDE DEF u, v
<1>11. Queue(r, u, W) BY <1>4, <1>5, <1>10 DEF Queue
<1> QED BY <1>4, <1>11 DEF u

(* A clock, or a process, has an event in the queue that had none.         *)
LEMMA ClkJoins ==
  ASSUME NEW W, IsFiniteSet(W), Cardinality(W) <= N - 1, NEW p, NEW q, Queue(p, q, W),
         NEW c \in W, \A a \in Entries(q) : a.what # c, NEW t \in Nat
  PROVE  \E u : Queue(CreateClk(p, t, c), u, W) /\ Extends(q, u, {[at |-> t, what |-> c]})
<1>1. p.in_use < N - 1 BY Room
<1>2. PICK s : Ring(p, s) /\ Stored(p, s, q) BY DEF Queue
<1>3. p \in Pools(W) BY DEF Queue
<1>4. PICK k : Place(p, p.in_use, s, t, k) BY <1>2, <1>3, HasPlace
<1> DEFINE r == CreateClk(p, t, c)
<1>5. r \in Pools(W) /\ Created(p, r, t, s[k]) /\ Entry(r, p.free) = [at |-> t, what |-> c]
  BY <1>1, <1>2, <1>3, <1>4, CreateClkCreates
<1> HIDE DEF r
<1>6. \E u : Queue(r, u, W) /\ Extends(q, u, {[at |-> t, what |-> c]})
  BY <1>1, <1>2, <1>4, <1>5, CreatedJoins
<1> QED BY <1>6 DEF r

(* a process                                                               *)
LEMMA ForeverJoins ==
  ASSUME NEW W, IsFiniteSet(W), Cardinality(W) <= N - 1, NEW p, NEW q, Queue(p, q, W),
         NEW f \in W, f # NoEvent, \A a \in Entries(q) : a.what # f, NEW t \in Nat
  PROVE  \E u : Queue(CreateForever(p, t, f), u, W) /\ Extends(q, u, {[at |-> t, what |-> f]})
<1>1. p.in_use < N - 1 BY Room
<1>2. PICK s : Ring(p, s) /\ Stored(p, s, q) BY DEF Queue
<1>3. p \in Pools(W) BY DEF Queue
<1>4. PICK k : Place(p, p.in_use, s, t, k) BY <1>2, <1>3, HasPlace
<1> DEFINE r == CreateForever(p, t, f)
<1>5. r \in Pools(W) /\ Created(p, r, t, s[k]) /\ Entry(r, p.free) = [at |-> t, what |-> f]
  BY <1>1, <1>2, <1>3, <1>4, CreateForeverCreates
<1> HIDE DEF r
<1>6. \E u : Queue(r, u, W) /\ Extends(q, u, {[at |-> t, what |-> f]})
  BY <1>1, <1>2, <1>4, <1>5, CreatedJoins
<1> QED BY <1>6 DEF r

(* The first entry leaves.                                                 *)
Rest(q, n) == [i \in 1 .. n - 1 |-> q[i + 1]]

(* The first entry is gone, the others keep their order.                   *)
Leaves(q, u) ==
  /\ q[1] \in Entries(q) /\ q[1] \notin Entries(u) /\ Entries(q) = Entries(u) \cup {q[1]}
  /\ \A a \in Entries(u) : q[1].at <= a.at /\ a.what # q[1].what /\ ~Before(q, a, q[1])
  /\ \A a, b \in Entries(u) : Before(q, a, b) => Before(u, a, b)

(* That is what the rest of a queue is,                                    *)
LEMMA RestLeaves ==
  ASSUME NEW n \in Nat, n # 0, NEW q, DOMAIN q = 1 .. n, InTime(q), Distinct(q)
  PROVE  LET u == Rest(q, n) IN InTime(u) /\ Distinct(u) /\ Leaves(q, u)
<1> DEFINE u == Rest(q, n)
<1>1. DOMAIN u = 1 .. n - 1 /\ \A i \in 1 .. n - 1 : u[i] = q[i + 1] /\ i + 1 \in 2 .. n
  BY DEF Rest
<1>2. \A i \in 2 .. n : i - 1 \in 1 .. n - 1 /\ u[i - 1] = q[i]
  <2> TAKE i \in 2 .. n
  <2>1. i - 1 \in 1 .. n - 1 /\ (i - 1) + 1 = i OBVIOUS
  <2>2. u[i - 1] = q[(i - 1) + 1] BY <2>1 DEF Rest
  <2> QED BY <2>1, <2>2
<1> HIDE DEF u
<1>3. InTime(u)
  <2> SUFFICES ASSUME NEW i \in 1 .. n - 1, NEW j \in 1 .. n - 1, i < j
               PROVE  u[i].at <= u[j].at
    BY <1>1 DEF InTime
  <2>1. i + 1 \in 1 .. n /\ j + 1 \in 1 .. n /\ i + 1 < j + 1 OBVIOUS
  <2>2. q[i + 1].at <= q[j + 1].at BY <2>1 DEF InTime
  <2> QED BY <2>2, <1>1
<1>4. Distinct(u)
  <2> SUFFICES ASSUME NEW i \in 1 .. n - 1, NEW j \in 1 .. n - 1, u[i].what = u[j].what
               PROVE  i = j
    BY <1>1 DEF Distinct
  <2>1. i + 1 \in 1 .. n /\ j + 1 \in 1 .. n OBVIOUS
  <2>2. i + 1 = j + 1 BY <2>1, <1>1 DEF Distinct
  <2> QED BY <2>2
<1>5. 1 \in DOMAIN q OBVIOUS
<1>6. \A a \in Entries(u) : \E i \in 2 .. n : a = q[i] BY <1>1 DEF Entries
<1>7. \A i \in 2 .. n : q[i] \in Entries(u) BY <1>1, <1>2 DEF Entries
<1>8. \A i \in 2 .. n : q[1].at <= q[i].at /\ q[i].what # q[1].what
  BY <1>5 DEF InTime, Distinct
<1>9. q[1] \in Entries(q) BY <1>5 DEF Entries
<1>10. q[1] \notin Entries(u) BY <1>6, <1>8
<1>11. Entries(q) = Entries(u) \cup {q[1]}
  <2>1. \A a \in Entries(q) : \E i \in 1 .. n : a = q[i] BY DEF Entries
  <2>2. \A i \in 1 .. n : i = 1 \/ i \in 2 .. n OBVIOUS
  <2>3. \A i \in 2 .. n : q[i] \in Entries(q) BY DEF Entries
  <2> QED BY <2>1, <2>2, <2>3, <1>6, <1>7, <1>9
<1>12. ASSUME NEW a \in Entries(u) PROVE ~Before(q, a, q[1])
  <2> SUFFICES ASSUME NEW i \in 1 .. n, NEW j \in 1 .. n, i < j, q[j] = q[1] PROVE FALSE
    BY DEF Before
  <2>1. j \in 2 .. n OBVIOUS
  <2> QED BY <2>1, <1>8
<1>13. ASSUME NEW a \in Entries(u), NEW b \in Entries(u), Before(q, a, b)
       PROVE  Before(u, a, b)
  <2>1. PICK i \in 1 .. n, j \in 1 .. n : i < j /\ q[i] = a /\ q[j] = b
    BY <1>13 DEF Before
  <2>2. i # 1 BY <2>1, <1>10
  <2>3. i \in 2 .. n /\ j \in 2 .. n /\ i - 1 < j - 1 BY <2>1, <2>2
  <2>4. /\ i - 1 \in DOMAIN u /\ j - 1 \in DOMAIN u
        /\ u[i - 1] = a /\ u[j - 1] = b
    BY <2>1, <2>3, <1>1, <1>2
  <2> QED BY <2>3, <2>4 DEF Before
<1> QED BY <1>3, <1>4, <1>6, <1>8, <1>9, <1>10, <1>11, <1>12, <1>13 DEF Leaves, u

(* and the pool holds it after DropFirst.                                  *)
LEMMA FirstLeaves ==
  ASSUME NEW W, NEW p, NEW q, Queue(p, q, W), p.in_use # 0
  PROVE  /\ First(p) \in Slots /\ Entry(p, First(p)) = q[1]
         /\ Queue(DropFirst(p), Rest(q, p.in_use), W)
         /\ Leaves(q, Rest(q, p.in_use))
<1> DEFINE n == p.in_use
           r == DropFirst(p)
           u == Rest(q, n)
<1>1. n \in 1 .. N - 1 /\ DOMAIN q = 1 .. n /\ p \in Pools(W)
  BY QueueLength, PoolAssumption DEF Queue
<1>2. PICK s : Ring(p, s) /\ Stored(p, s, q) BY DEF Queue
<1> DEFINE v == Freed(p, s)
<1>3. /\ First(p) = s[1] /\ First(p) \in Slots
      /\ r \in Pools(W) /\ Ring(r, v) /\ r.in_use = n - 1
      /\ \A x \in Slots \ {First(p)} : Entry(r, x) = Entry(p, x)
  BY <1>1, <1>2, DropFirstFrees
<1>4. \A i \in 1 .. n : q[i] = Entry(p, s[i]) BY <1>2 DEF Stored
<1>5. InTime(u) /\ Distinct(u) /\ Leaves(q, u)
  <2>1. n \in Nat /\ n # 0 BY <1>1, PoolAssumption
  <2>2. InTime(q) /\ Distinct(q) BY DEF Queue
  <2> HIDE DEF n
  <2> QED BY <2>1, <2>2, <1>1, RestLeaves
<1>6. Named(u, W) BY <1>5 DEF Queue, Named, Leaves
<1>7. \A i \in 1 .. n - 1 : u[i] = Entry(r, v[i])
  <2> TAKE i \in 1 .. n - 1
  <2>1. i + 1 \in 1 .. n /\ i + 1 \in 1 .. N - 1 /\ i + 1 # 1 BY <1>1, PoolAssumption
  <2>2. u[i] = q[i + 1] BY DEF Rest
  <2>3. v[i] = s[i + 1] BY <1>1, PoolAssumption DEF Freed
  <2>4. s[i + 1] \in Slots BY <2>1, <1>2, RingOfSlots DEF Ring
  <2>5. \A j, l \in 0 .. N - 1 : s[j] = s[l] => j = l BY <1>2 DEF Ring, Order
  <2>6. s[i + 1] # s[1]
    <3>1. i + 1 \in 0 .. N - 1 /\ 1 \in 0 .. N - 1 BY <2>1, PoolAssumption
    <3> QED BY <3>1, <2>1, <2>5
  <2> HIDE DEF r, u, v
  <2> QED BY <2>1, <2>2, <2>3, <2>4, <2>6, <1>3, <1>4
<1>8. Stored(r, v, u)
  <2>1. u = [i \in 1 .. n - 1 |-> u[i]] BY DEF Rest
  <2> HIDE DEF r, u, v
  <2> QED BY <2>1, <1>3, <1>7 DEF Stored
<1>9. Entry(p, First(p)) = q[1] BY <1>1, <1>3, <1>4
<1> HIDE DEF r, u, v
<1>10. Queue(r, u, W) BY <1>3, <1>5, <1>6, <1>8 DEF Queue
<1> QED BY <1>3, <1>5, <1>9, <1>10 DEF r, u

-----------------------------------------------------------------------------
(* Events created one after the other: a fold, as a function on the sets   *)
(* of places in a list of names.                                           *)
Made(p, t, x, kind) == IF kind = "clock" THEN CreateClk(p, t, x) ELSE CreateForever(p, t, x)

(* h maps a set of places to the pool with the events of these places.     *)
IsFold(h, m, p, t, list, changed, kind) ==
  h = [s \in SUBSET (1 .. m) |->
         IF s = {} THEN p
         ELSE IF list[Max(s)] \in changed THEN Made(h[s \ {Max(s)}], t, list[Max(s)], kind)
         ELSE h[s \ {Max(s)}]]

(* The largest number of a set: the last one, when it is in the set.       *)
LEMMA LastIsMax ==
  ASSUME NEW m \in Nat, NEW s \in SUBSET (1 .. m), m \in s
  PROVE  Max(s) = m
<1>1. m \in s /\ \A y \in s : m >= y OBVIOUS
<1>2. Max(s) \in s /\ \A y \in s : Max(s) >= y BY <1>1 DEF Max
<1>3. Max(s) \in 1 .. m /\ Max(s) >= m BY <1>2
<1> QED BY <1>3

(* A set has one.                                                          *)
LEMMA HasMax ==
  ASSUME NEW m \in Nat, NEW s \in SUBSET (1 .. m), s # {}
  PROVE  Max(s) \in s
<1> DEFINE above == {x \in 0 .. m : \A y \in s : x >= y}
<1>1. above \in SUBSET Nat /\ m \in above OBVIOUS
<1>2. PICK x \in above : \A y \in above : x <= y BY <1>1, Least
<1>3. x \in s
  <2> SUFFICES ASSUME x \notin s PROVE FALSE OBVIOUS
  <2>1. PICK y \in s : TRUE OBVIOUS
  <2>2. x >= y /\ y \in 1 .. m BY <1>2
  <2>3. x - 1 \in above BY <2>2, <1>2
  <2> QED BY <2>3, <1>2
<1>4. \A y \in s : x >= y BY <1>2
<1> QED BY <1>3, <1>4 DEF Max

(* There is such a function.                                               *)
LEMMA HasFold ==
  ASSUME NEW p, NEW t, NEW list, NEW changed, NEW kind, NEW n \in Nat
  PROVE  \E h : IsFold(h, n, p, t, list, changed, kind)
<1> DEFINE bad == {m \in Nat : ~\E h : IsFold(h, m, p, t, list, changed, kind)}
<1>1. SUFFICES ASSUME bad # {} PROVE FALSE OBVIOUS
<1>2. PICK m \in bad : \A y \in bad : m <= y BY <1>1, Least
<1>3. m # 0
  <2>1. \A s \in SUBSET (1 .. 0) : s = {} OBVIOUS
  <2>2. IsFold([s \in SUBSET (1 .. 0) |-> p], 0, p, t, list, changed, kind)
    BY <2>1 DEF IsFold
  <2> QED BY <1>2, <2>2
<1>4. m - 1 \in Nat /\ m - 1 \notin bad BY <1>2, <1>3
<1>5. PICK h : IsFold(h, m - 1, p, t, list, changed, kind) BY <1>4
<1> DEFINE g == [s \in SUBSET (1 .. m) |->
                   IF m \notin s THEN h[s]
                   ELSE IF list[m] \in changed THEN Made(h[s \ {m}], t, list[m], kind)
                   ELSE h[s \ {m}]]
<1>6. ASSUME NEW s \in SUBSET (1 .. m)
      PROVE  g[s] = IF s = {} THEN p
                    ELSE IF list[Max(s)] \in changed
                         THEN Made(g[s \ {Max(s)}], t, list[Max(s)], kind)
                    ELSE g[s \ {Max(s)}]
  <2>1. CASE m \in s
    <3>1. Max(s) = m /\ s # {} BY <2>1, LastIsMax, <1>2
    <3>2. s \ {m} \in SUBSET (1 .. m) /\ m \notin s \ {m} OBVIOUS
    <3>3. g[s \ {m}] = h[s \ {m}] BY <3>2
    <3>4. g[s] = IF list[m] \in changed THEN Made(h[s \ {m}], t, list[m], kind)
                 ELSE h[s \ {m}]
      BY <2>1
    <3> HIDE DEF g
    <3> QED BY <3>1, <3>3, <3>4
  <2>2. CASE m \notin s
    <3>1. s \in SUBSET (1 .. m - 1) BY <2>2, <1>2, <1>3
    <3>2. s \ {Max(s)} \in SUBSET (1 .. m) /\ m \notin s \ {Max(s)} BY <2>2
    <3>3. g[s] = h[s] /\ g[s \ {Max(s)}] = h[s \ {Max(s)}] BY <2>2, <3>2
    <3>4. h[s] = IF s = {} THEN p
                 ELSE IF list[Max(s)] \in changed
                      THEN Made(h[s \ {Max(s)}], t, list[Max(s)], kind)
                 ELSE h[s \ {Max(s)}]
      BY <3>1, <1>5 DEF IsFold
    <3> HIDE DEF g
    <3> QED BY <3>3, <3>4
  <2> QED BY <2>1, <2>2
<1>7. g = [s \in SUBSET (1 .. m) |-> g[s]] OBVIOUS
<1> HIDE DEF g
<1>8. IsFold(g, m, p, t, list, changed, kind) BY <1>6, <1>7 DEF IsFold
<1> QED BY <1>2, <1>8

(* The first k names of the list.                                          *)
LEMMA FoldStep ==
  ASSUME NEW p, NEW t, NEW list, NEW changed, NEW kind, NEW n \in Nat,
         NEW h, IsFold(h, n, p, t, list, changed, kind), NEW k \in 0 .. n
  PROVE  h[1 .. k] = IF k = 0 THEN p
                     ELSE IF list[k] \in changed THEN Made(h[1 .. k - 1], t, list[k], kind)
                     ELSE h[1 .. k - 1]
<1>1. 1 .. k \in SUBSET (1 .. n) OBVIOUS
<1>2. CASE k = 0
  <2>1. 1 .. k = {} BY <1>2
  <2> QED BY <1>1, <1>2, <2>1 DEF IsFold
<1>3. CASE k # 0
  <2>1. 1 .. k # {} /\ k \in 1 .. k /\ (1 .. k) \ {k} = 1 .. k - 1 BY <1>3
  <2>2. Max(1 .. k) = k BY <2>1, LastIsMax
  <2> QED BY <1>1, <1>3, <2>1, <2>2 DEF IsFold
<1> QED BY <1>2, <1>3

(* The entries of those that are created.                                  *)
News(t, list, changed, k) ==
  {[at |-> t, what |-> list[i]] : i \in {j \in 1 .. k : list[j] \in changed}}

(* The events of a list join the queue.                                    *)
LEMMA AllJoin ==
  ASSUME NEW W, IsFiniteSet(W), Cardinality(W) <= N - 1, NEW p, NEW q, Queue(p, q, W),
         NEW t \in Nat, NEW n \in Nat, NEW list \in [1 .. n -> W], NEW changed,
         \A i, j \in 1 .. n : list[i] = list[j] => i = j,
         \A i \in 1 .. n : list[i] \in changed => \A a \in Entries(q) : a.what # list[i],
         NEW kind \in {"clock", "process"}, kind = "clock" \/ NoEvent \notin W,
         NEW h, IsFold(h, n, p, t, list, changed, kind)
  PROVE  \E u : Queue(h[1 .. n], u, W) /\ Extends(q, u, News(t, list, changed, n))
<1> DEFINE Good(k) == \E u : Queue(h[1 .. k], u, W) /\ Extends(q, u, News(t, list, changed, k))
           bad == {k \in 0 .. n : ~Good(k)}
<1>1. SUFFICES ASSUME bad # {} PROVE FALSE OBVIOUS
<1>2. PICK k \in bad : \A y \in bad : k <= y
  <2>1. bad \in SUBSET Nat OBVIOUS
  <2> QED BY <1>1, <2>1, Least
<1>3. k # 0
  <2>1. 1 .. 0 = {} /\ 1 .. 0 \in SUBSET (1 .. n) OBVIOUS
  <2>2. h[1 .. 0] = p BY <2>1 DEF IsFold
  <2>4. News(t, list, changed, 0) = {} BY DEF News
  <2>5. Extends(q, q, News(t, list, changed, 0)) BY <2>4, ExtendsNothing
  <2>3. Good(0) BY <2>2, <2>5
  <2> QED BY <1>2, <2>3
<1>4. k \in 1 .. n /\ k - 1 \in 0 .. n /\ k - 1 \notin bad BY <1>2, <1>3
<1>5. PICK u : Queue(h[1 .. k - 1], u, W) /\ Extends(q, u, News(t, list, changed, k - 1))
  BY <1>4
<1>6. h[1 .. k] = IF list[k] \in changed THEN Made(h[1 .. k - 1], t, list[k], kind)
                  ELSE h[1 .. k - 1]
  BY <1>3, <1>4, FoldStep
<1>7. list[k] \in W BY <1>4
<1>8. CASE list[k] \notin changed
  <2>1. \A j \in 1 .. k : list[j] \in changed => j \in 1 .. k - 1 BY <1>4, <1>8
  <2>2. News(t, list, changed, k) = News(t, list, changed, k - 1)
    BY <2>1, <1>4 DEF News
  <2>3. Good(k) BY <1>5, <1>6, <1>8, <2>2
  <2> QED BY <1>2, <2>3
<1>9. CASE list[k] \in changed
  <2> DEFINE e == [at |-> t, what |-> list[k]]
  <2>1. News(t, list, changed, k) = News(t, list, changed, k - 1) \cup {e}
    <3>1. {j \in 1 .. k : list[j] \in changed} = {j \in 1 .. k - 1 : list[j] \in changed} \cup {k}
      BY <1>4, <1>9
    <3> QED BY <3>1 DEF News
  <2>2. \A a \in Entries(u) : a.what # list[k]
    <3> TAKE a \in Entries(u)
    <3>1. CASE a \in Entries(q) BY <3>1, <1>4, <1>9
    <3>2. CASE a \in News(t, list, changed, k - 1)
      <4>1. PICK i \in 1 .. k - 1 : a = [at |-> t, what |-> list[i]] BY <3>2 DEF News
      <4>2. i \in 1 .. n /\ i # k BY <1>4
      <4> QED BY <4>1, <4>2, <1>4
    <3> QED BY <3>1, <3>2, <1>5 DEF Extends
  <2>3. \E v : Queue(Made(h[1 .. k - 1], t, list[k], kind), v, W) /\ Extends(u, v, {e})
    <3>1. CASE kind = "clock"
      <4>1. Made(h[1 .. k - 1], t, list[k], kind) = CreateClk(h[1 .. k - 1], t, list[k])
        BY <3>1 DEF Made
      <4>2. \E v : Queue(CreateClk(h[1 .. k - 1], t, list[k]), v, W) /\ Extends(u, v, {e})
        BY <1>5, <1>7, <2>2, ClkJoins
      <4> QED BY <4>1, <4>2
    <3>2. CASE kind = "process"
      <4>1. Made(h[1 .. k - 1], t, list[k], kind) = CreateForever(h[1 .. k - 1], t, list[k])
        BY <3>2 DEF Made
      <4>2. list[k] # NoEvent BY <3>2, <1>7
      <4>3. \E v : Queue(CreateForever(h[1 .. k - 1], t, list[k]), v, W) /\ Extends(u, v, {e})
        BY <1>5, <1>7, <2>2, <4>2, ForeverJoins
      <4> QED BY <4>1, <4>3
    <3> QED BY <3>1, <3>2
  <2>4. PICK v : Queue(h[1 .. k], v, W) /\ Extends(u, v, {e}) BY <2>3, <1>6, <1>9
  <2>5. Extends(q, v, News(t, list, changed, k)) BY <2>1, <2>4, <1>5, ExtendsTwice
  <2>6. Good(k) BY <2>4, <2>5
  <2> QED BY <1>2, <2>6
<1> QED BY <1>8, <1>9

(* Events of clocks leave the processes of the other events alone.         *)
LEMMA ClkKeepsProcesses ==
  ASSUME NEW p, NEW t, NEW c
  PROVE  CreateClk(p, t, c).forever = p.forever
BY DEF CreateClk, Linked, GetFree

(* Which slots hold processes.                                             *)
LEMMA ProcessesOf ==
  ASSUME NEW p, NEW F, p.forever \in [Slots -> F], NoEvent \in F, NEW f \in F, NEW t
  PROVE  /\ CreateForever(p, t, f).forever \in [Slots -> F]
         /\ DropFirst(p).forever \in [Slots -> F]
<1>1. CreateForever(p, t, f).forever = [p.forever EXCEPT ![p.free] = f]
  BY DEF CreateForever, Linked, GetFree
<1>2. DropFirst(p).forever = [p.forever EXCEPT ![First(p)] = NoEvent]
  BY DEF DropFirst, Recycle
<1> QED BY <1>1, <1>2

(* Events of clocks leave them alone.                                      *)
LEMMA AllKeepProcesses ==
  ASSUME NEW p, NEW t, NEW n \in Nat, NEW list, NEW changed,
         NEW kind, kind = "clock", NEW h, IsFold(h, n, p, t, list, changed, kind)
  PROVE  h[1 .. n].forever = p.forever
<1> DEFINE bad == {k \in 0 .. n : h[1 .. k].forever # p.forever}
<1>1. SUFFICES ASSUME bad # {} PROVE FALSE
  <2>1. n \in 0 .. n OBVIOUS
  <2> QED BY <2>1
<1>2. PICK k \in bad : \A y \in bad : k <= y
  <2>1. bad \in SUBSET Nat OBVIOUS
  <2> QED BY <1>1, <2>1, Least
<1>4. k # 0
  <2>1. 1 .. 0 = {} /\ 1 .. 0 \in SUBSET (1 .. n) OBVIOUS
  <2>2. h[1 .. 0] = p BY <2>1 DEF IsFold
  <2> QED BY <1>2, <2>2
<1>8. k \in 0 .. n BY <1>2
<1> HIDE DEF bad
<1>3. h[1 .. k] = IF list[k] \in changed THEN Made(h[1 .. k - 1], t, list[k], kind)
                  ELSE h[1 .. k - 1]
  BY <1>4, <1>8, FoldStep
<1>7. Made(h[1 .. k - 1], t, list[k], kind) = CreateClk(h[1 .. k - 1], t, list[k])
  BY DEF Made
<1>5. h[1 .. k - 1].forever = p.forever
  <2>1. k - 1 \in 0 .. n /\ k - 1 \notin bad BY <1>2, <1>4, <1>8 DEF bad
  <2> QED BY <2>1 DEF bad
<1>6. h[1 .. k].forever = p.forever BY <1>3, <1>5, <1>7, ClkKeepsProcesses
<1> QED BY <1>2, <1>6 DEF bad

(* The clocks of a list that change join the queue together.               *)
LEMMA ClksJoin ==
  ASSUME NEW W, IsFiniteSet(W), Cardinality(W) <= N - 1, NEW p, NEW q, Queue(p, q, W),
         NEW t \in Nat, NEW list \in Seq(W), NEW changed,
         \A i, j \in 1 .. Len(list) : list[i] = list[j] => i = j,
         \A i \in 1 .. Len(list) : list[i] \in changed => \A a \in Entries(q) : a.what # list[i]
  PROVE  /\ \E u : /\ Queue(CreateClks(p, t, list, changed), u, W)
                   /\ Extends(q, u, News(t, list, changed, Len(list)))
         /\ CreateClks(p, t, list, changed).forever = p.forever
<1> DEFINE n == Len(list)
<1>1. n \in Nat /\ DOMAIN list = 1 .. n /\ list \in [1 .. n -> W] OBVIOUS
<1>2. \E h : IsFold(h, n, p, t, list, changed, "clock") BY <1>1, HasFold
<1>3. \A h : IsFold(h, n, p, t, list, changed, "clock") =>
        \E u : Queue(h[1 .. n], u, W) /\ Extends(q, u, News(t, list, changed, n))
  <2> HIDE DEF n
  <2> TAKE h
  <2> HAVE IsFold(h, n, p, t, list, changed, "clock")
  <2>1. \A i, j \in 1 .. n : list[i] = list[j] => i = j BY DEF n
  <2>2. \A i \in 1 .. n : list[i] \in changed => \A a \in Entries(q) : a.what # list[i]
    BY DEF n
  <2> QED BY <1>1, <2>1, <2>2, AllJoin
<1> DEFINE Is(h) == h = [s \in SUBSET DOMAIN list |->
                        IF s = {} THEN p
                        ELSE IF list[Max(s)] \in changed
                             THEN CreateClk(h[s \ {Max(s)}], t, list[Max(s)])
                        ELSE h[s \ {Max(s)}]]
           h == CHOOSE g : Is(g)
<1>4. CreateClks(p, t, list, changed) = h[DOMAIN list]
  BY DEF CreateClks, FoldLeft, MapThenFoldSet
<1>5. IsFold(h, n, p, t, list, changed, "clock")
  <2>1. \A g : Is(g) <=> IsFold(g, n, p, t, list, changed, "clock")
    <3> HIDE DEF n
    <3> QED BY <1>1 DEF IsFold, Made
  <2>2. \E g : Is(g) BY <2>1, <1>2
  <2> HIDE DEF Is
  <2>3. Is(h) BY <2>2
  <2> HIDE DEF h
  <2> QED BY <2>1, <2>3
<1> HIDE DEF h
<1>6. PICK u : Queue(h[1 .. n], u, W) /\ Extends(q, u, News(t, list, changed, n))
  BY <1>3, <1>5
<1>7. h[1 .. n].forever = p.forever
  <2> HIDE DEF n, Is
  <2> QED BY <1>1, <1>5, AllKeepProcesses
<1> QED BY <1>1, <1>4, <1>6, <1>7

-----------------------------------------------------------------------------
(* The pool at the start holds no entry.                                   *)
LEMMA EmptyQueue ==
  ASSUME NEW W
  PROVE  \E q : Queue(EmptyPool, q, W) /\ Entries(q) = {}
<1> DEFINE s == [i \in 0 .. N - 1 |-> i]
           q == [i \in 1 .. EmptyPool.in_use |-> Entry(EmptyPool, s[i])]
<1>1. EmptyPool \in Pools(W) /\ Ring(EmptyPool, s) BY EmptyRing
<1>2. EmptyPool.in_use = 0 BY DEF EmptyPool
<1>3. DOMAIN q = {} BY <1>2
<1>4. Stored(EmptyPool, s, q) BY DEF Stored
<1> HIDE DEF s, q
<1>5. Entries(q) = {} /\ InTime(q) /\ Distinct(q) BY <1>3 DEF Entries, InTime, Distinct
<1>6. Named(q, W) BY <1>5 DEF Named
<1> QED BY <1>1, <1>4, <1>5, <1>6 DEF Queue

(* Every slot is either in the list or free.                               *)
LEMMA QueuePartition ==
  ASSUME NEW W, NEW p, NEW q, Queue(p, q, W)
  PROVE  /\ Len(Pending(p)) = p.in_use
         /\ FreeSlots(p) \cap ToSet(Pending(p)) = {}
         /\ FreeSlots(p) \cup ToSet(Pending(p)) = Slots
<1> DEFINE n == p.in_use
<1>1. p \in Pools(W) /\ n \in 0 .. N - 1 BY QueueLength DEF Queue
<1>2. PICK s : Ring(p, s) BY DEF Queue
<1>3. Pending(p) = [k \in 1 .. n |-> s[k]] BY <1>1, <1>2, RingPending
<1>4. FreeSlots(p) = {s[k] : k \in n + 1 .. N - 1} BY <1>1, <1>2, RingFree
<1>5. Len(Pending(p)) = n
  <2>1. n \in Nat BY <1>1, PoolAssumption
  <2> HIDE DEF n
  <2> QED BY <1>3, <2>1
<1>6. ToSet(Pending(p)) = {s[k] : k \in 1 .. n}
  <2> HIDE DEF n
  <2> QED BY <1>3 DEF ToSet
<1>7. \A i, j \in 0 .. N - 1 : s[i] = s[j] => i = j BY <1>2 DEF Ring, Order
<1>8. \A x \in 0 .. N - 1 : \E i \in 0 .. N - 1 : s[i] = x BY <1>2 DEF Ring, Order
<1>9. s[0] = 0 /\ \A i \in 1 .. N - 1 : s[i] \in Slots
  BY <1>2, RingOfSlots DEF Ring, Order
<1> HIDE DEF n
<1>10. FreeSlots(p) \cap ToSet(Pending(p)) = {}
  <2> SUFFICES ASSUME NEW k \in n + 1 .. N - 1, NEW j \in 1 .. n, s[k] = s[j] PROVE FALSE
    BY <1>4, <1>6
  <2>1. k \in 0 .. N - 1 /\ j \in 0 .. N - 1 /\ k # j BY <1>1, PoolAssumption
  <2> QED BY <2>1, <1>7
<1>11. \A x \in Slots : x \in FreeSlots(p) \cup ToSet(Pending(p))
  <2> TAKE x \in Slots
  <2>1. x \in 0 .. N - 1 /\ x # 0 BY PoolAssumption DEF Slots
  <2>2. PICK i \in 0 .. N - 1 : s[i] = x BY <2>1, <1>8
  <2>3. i # 0 BY <2>1, <2>2, <1>9
  <2>4. i \in 1 .. n \/ i \in n + 1 .. N - 1 BY <2>3, <1>1, PoolAssumption
  <2> QED BY <2>2, <2>4, <1>4, <1>6
<1>12. \A x \in FreeSlots(p) \cup ToSet(Pending(p)) : x \in Slots
  <2>1. \A k \in 1 .. n : k \in 1 .. N - 1 BY <1>1, PoolAssumption
  <2>2. \A k \in n + 1 .. N - 1 : k \in 1 .. N - 1 BY <1>1, PoolAssumption
  <2> QED BY <2>1, <2>2, <1>4, <1>6, <1>9
<1> QED BY <1>5, <1>10, <1>11, <1>12 DEF n

(* The first entry is the first one as long as only later ones join.       *)
LEMMA FirstStays ==
  ASSUME NEW q, NEW u, NEW n \in Nat, NEW m \in Nat, n # 0, DOMAIN q = 1 .. n, DOMAIN u = 1 .. m,
         InTime(q), InTime(u), Distinct(u), NEW A, Extends(q, u, A),
         \A a \in Entries(u) : a.at \in Nat, \A a \in A : a.at > q[1].at
  PROVE  m # 0 /\ u[1] = q[1]
<1>1. q[1] \in Entries(q) BY DEF Entries
<1>2. q[1] \in Entries(u) BY <1>1 DEF Extends
<1>3. PICK j \in 1 .. m : u[j] = q[1] BY <1>2 DEF Entries
<1>4. ASSUME j # 1 PROVE FALSE
  <2>1. 1 \in 1 .. m /\ 1 < j BY <1>4
  <2>2. u[1] \in Entries(u) BY <2>1 DEF Entries
  <2>3. u[1].at <= q[1].at BY <2>1, <1>3 DEF InTime
  <2>4. u[1] \notin A BY <2>2, <2>3, <1>2
  <2>5. u[1] \in Entries(q) BY <2>2, <2>4 DEF Extends
  <2>6. PICK i \in 1 .. n : q[i] = u[1] BY <2>5 DEF Entries
  <2>7. u[1] # q[1] BY <2>1, <1>3 DEF Distinct
  <2>8. i # 1 /\ 1 \in 1 .. n /\ 1 < i BY <2>6, <2>7
  <2>9. Before(q, q[1], u[1]) BY <2>6, <2>8 DEF Before
  <2>10. Before(u, q[1], u[1]) BY <2>9, <2>5, <1>1 DEF Extends
  <2>11. PICK k \in 1 .. m, l \in 1 .. m : k < l /\ u[k] = q[1] /\ u[l] = u[1]
    BY <2>10 DEF Before
  <2>12. l = 1 BY <2>1, <2>11 DEF Distinct
  <2> QED BY <2>11, <2>12
<1> QED BY <1>3, <1>4

(* The first entry goes, new ones come.                                    *)
Advances(q, w, new) ==
  /\ q[1] \in Entries(q) /\ Entries(w) = (Entries(q) \ {q[1]}) \cup new
  /\ \A a \in Entries(q) : a # q[1] =>
       q[1].at <= a.at /\ a.what # q[1].what /\ ~Before(q, a, q[1])
  /\ \A a, b \in Entries(q) \ {q[1]} : Before(q, a, b) => Before(w, a, b)
  /\ \A a \in Entries(q) \ {q[1]}, e \in new : a.at >= e.at => Before(w, e, a)

(* So it is when the first goes and new ones come,                         *)
LEMMA LeavesExtends ==
  ASSUME NEW q, NEW u, NEW w, NEW A, Leaves(q, u), Extends(u, w, A)
  PROVE  Advances(q, w, A)
<1>1. Entries(u) = Entries(q) \ {q[1]} BY DEF Leaves
<1> QED BY <1>1 DEF Leaves, Extends, Advances

(* when it goes after they came,                                           *)
LEMMA ExtendsLeaves ==
  ASSUME NEW q, NEW n \in Nat, n # 0, DOMAIN q = 1 .. n, InTime(q), Distinct(q),
         NEW u, NEW v, NEW A, Extends(q, u, A), u[1] = q[1], Leaves(u, v),
         \A a \in A : a.at > q[1].at, q[1].at \in Nat
  PROVE  Advances(q, v, A)
<1>1. Leaves(q, Rest(q, n)) BY RestLeaves
<1>2. q[1] \in Entries(q) BY <1>1 DEF Leaves
<1>3. q[1] \notin A
  <2> SUFFICES ASSUME q[1] \in A PROVE FALSE OBVIOUS
  <2>1. q[1].at > q[1].at OBVIOUS
  <2> QED BY <2>1
<1>4. Entries(v) = (Entries(q) \ {q[1]}) \cup A BY <1>2, <1>3 DEF Leaves, Extends
<1>5. \A a \in Entries(q) : a # q[1] =>
       q[1].at <= a.at /\ a.what # q[1].what /\ ~Before(q, a, q[1])
  BY <1>1 DEF Leaves
<1>6. \A a, b \in Entries(v) : Before(u, a, b) => Before(v, a, b) BY DEF Leaves
<1>7. \A a, b \in Entries(q) \ {q[1]} : Before(q, a, b) => Before(v, a, b)
  BY <1>4, <1>6 DEF Extends
<1>8. \A a \in Entries(q) \ {q[1]}, e \in A : a.at >= e.at => Before(v, e, a)
  BY <1>4, <1>6 DEF Extends
<1> QED BY <1>2, <1>4, <1>5, <1>7, <1>8 DEF Advances

(* and when more come.                                                     *)
LEMMA AdvancesExtends ==
  ASSUME NEW q, NEW u, NEW w, NEW A, NEW B, Advances(q, u, A), Extends(u, w, B)
  PROVE  Advances(q, w, A \cup B)
BY DEF Advances, Extends

-----------------------------------------------------------------------------
(* The levels of clocks, and with them what GateIsClean says.              *)
Levels ==
  /\ val \in [Clocks -> {0, 1}]
  /\ level \in [Forever -> {0, 1}]
  /\ en \in [GatedClocks -> BOOLEAN]

(* The invariant behind GateIsClean.                                       *)
ClockInv == Levels /\ GateIsClean

(* Being in a list of gated clocks.                                        *)
LEMMA InGated ==
  ASSUME NEW c \in Clocks, NEW g
  PROVE  Contains(Gated[c], g) <=> g \in ToSet(Gated[c])
<1>1. Gated[c] \in Seq(Clocks) BY ClockTreeAssumption
<1> QED BY <1>1 DEF Contains, ToSet

(* A gated clock is a clock, and one of those with an enable.              *)
LEMMA GatedIsClock ==
  ASSUME NEW c \in Clocks, NEW g \in ToSet(Gated[c])
  PROVE  g \in Clocks /\ g \in GatedClocks /\ g # c
<1>1. Gated[c] \in Seq(Clocks) BY ClockTreeAssumption
<1>2. g \in Clocks BY <1>1 DEF ToSet
<1>3. g \in GatedClocks BY Zenon DEF GatedClocks
<1>4. ASSUME g = c PROVE FALSE
  <2>1. Gated[c] = <<>> BY <1>4, ClockTreeAssumption
  <2> QED BY <2>1 DEF ToSet
<1> QED BY <1>2, <1>3, <1>4

(* A process drives a clock and the gated ones that are enabled.           *)
LEMMA ForeverClean ==
  ASSUME ClockInv, NEW f \in Forever, RunForever(f)
  PROVE  ClockInv'
<1> DEFINE cs == IF Drives[f] = NoEvent THEN {}
                 ELSE {Drives[f]} \cup {g \in ToSet(Gated[Drives[f]]) : en[g]}
<1>1. /\ level' = [level EXCEPT ![f] = 1 - @]
      /\ val' = [c \in Clocks |-> IF c \in cs THEN level[f] ELSE val[c]]
      /\ en' = en
  BY DEF RunForever, Assigned
<1>2. level[f] \in {0, 1} BY DEF ClockInv, Levels
<1>3. Levels' BY <1>1, <1>2 DEF ClockInv, Levels
<1>4. ASSUME NEW c \in Clocks, NEW g \in ToSet(Gated[c])
      PROVE  val'[g] = IF en'[g] THEN val'[c] ELSE 0
  <2>1. g \in Clocks /\ g # c BY GatedIsClock
  <2>2. val[g] = IF en[g] THEN val[c] ELSE 0 BY DEF ClockInv, GateIsClean
  <2>3. Drives[f] # g BY ClockTreeAssumption
  <2>4. c \in cs => Drives[f] = c
    <3> SUFFICES ASSUME c \in cs, Drives[f] # c PROVE FALSE OBVIOUS
    <3>1. Drives[f] \in Clocks /\ c \in ToSet(Gated[Drives[f]])
      BY ClockTreeAssumption
    <3>2. Gated[c] = <<>> BY <3>1, ClockTreeAssumption
    <3> QED BY <3>2 DEF ToSet
  <2>5. g \in cs <=> Drives[f] = c /\ en[g]
    <3>1. g \in cs => Drives[f] \in Clocks /\ g \in ToSet(Gated[Drives[f]]) /\ en[g]
      BY <2>3, ClockTreeAssumption
    <3>2. g \in cs => Drives[f] = c BY <3>1, ClockTreeAssumption
    <3>3. NoEvent \notin Clocks BY ClockTreeAssumption
    <3> QED BY <3>1, <3>2, <3>3
  <2>6. Drives[f] = c => c \in cs
    <3>1. NoEvent \notin Clocks BY ClockTreeAssumption
    <3> QED BY <3>1
  <2> QED BY <1>1, <2>1, <2>2, <2>4, <2>5, <2>6
<1> QED BY <1>3, <1>4 DEF ClockInv, GateIsClean

(* Derived clocks gate nothing and are not gated.                          *)
LEMMA ProcessesClean ==
  ASSUME ClockInv, NEW c \in Clocks, RunProcesses(c)
  PROVE  ClockInv'
<1>1. PICK toggled \in SUBSET ToSet(Derived[c]) :
        /\ val' = [x \in Clocks |-> IF x \in toggled THEN 1 - val[x] ELSE val[x]]
        /\ level' = level /\ en' = en
  <2>1. PICK toggled \in SUBSET (IF val[c] = 1 THEN ToSet(Derived[c]) ELSE {}) :
          /\ val' = [x \in Clocks |->
                IF x \in toggled THEN [y \in Clocks |-> 1 - val[y]][x] ELSE val[x]]
          /\ level' = level /\ en' = en
    BY Zenon DEF RunProcesses, RunsDelta
  <2>2. toggled \in SUBSET ToSet(Derived[c]) BY <2>1
  <2> QED BY <2>1, <2>2
<1>2. Levels' BY <1>1 DEF ClockInv, Levels
<1>3. ASSUME NEW b \in Clocks, NEW g \in ToSet(Gated[b])
      PROVE  val'[g] = IF en'[g] THEN val'[b] ELSE 0
  <2>1. g \in Clocks BY GatedIsClock
  <2>2. val[g] = IF en[g] THEN val[b] ELSE 0 BY <1>3 DEF ClockInv, GateIsClean
  <2>3. g \notin toggled BY ClockTreeAssumption, <1>1
  <2>4. ASSUME b \in toggled PROVE FALSE
    <3>1. Gated[b] = <<>> BY <2>4, <1>1, ClockTreeAssumption
    <3> QED BY <3>1 DEF ToSet
  <2> QED BY <1>1, <2>1, <2>2, <2>3, <2>4
<1> QED BY <1>2, <1>3 DEF ClockInv, GateIsClean

(* Enables change while their clock is low.                                *)
LEMMA FlopsClean ==
  ASSUME ClockInv, NEW c \in Clocks, RunFlops(c)
  PROVE  ClockInv'
<1>1. val' = val /\ level' = level BY DEF RunFlops, RunsDelta
<1>2. PICK e \in [GatedClocks -> BOOLEAN] :
        en' = [x \in GatedClocks |-> IF Contains(Gated[c], x) /\ val[c] = 0 THEN e[x] ELSE en[x]]
  BY Zenon DEF RunFlops, Enables
<1>3. Levels' BY <1>1, <1>2 DEF ClockInv, Levels
<1>4. ASSUME NEW b \in Clocks, NEW g \in ToSet(Gated[b])
      PROVE  val'[g] = IF en'[g] THEN val'[b] ELSE 0
  <2>1. g \in GatedClocks BY GatedIsClock
  <2>2. val[g] = IF en[g] THEN val[b] ELSE 0 BY <1>4 DEF ClockInv, GateIsClean
  <2>3. b # c => ~Contains(Gated[c], g)
    BY InGated, ClockTreeAssumption
  <2> QED BY <1>1, <1>2, <2>1, <2>2, <2>3
<1> QED BY <1>3, <1>4 DEF ClockInv, GateIsClean

(* A gated clock follows its source while it is enabled and is low         *)
(* otherwise (clk_gen.h:326), for every number of clocks and every tree of *)
(* one level, in whatever order events of the same time run.               *)
THEOREM GateClean == Spec => []GateIsClean
<1>1. Init => ClockInv
  <2> SUFFICES ASSUME Init PROVE ClockInv OBVIOUS
  <2>1. Levels BY DEF Init, Levels
  <2>2. ASSUME NEW c \in Clocks, NEW g \in ToSet(Gated[c])
        PROVE  val[g] = IF en[g] THEN val[c] ELSE 0
    <3>1. g \in Clocks BY GatedIsClock
    <3> QED BY <3>1 DEF Init
  <2> QED BY <2>1, <2>2 DEF ClockInv, GateIsClean
<1>2. ClockInv /\ [Next]_vars => ClockInv'
  <2> SUFFICES ASSUME ClockInv, [Next]_vars PROVE ClockInv' OBVIOUS
  <2>1. ASSUME NEW f \in Forever, RunForever(f) PROVE ClockInv'
    BY <2>1, ForeverClean
  <2>2. ASSUME NEW c \in Clocks, RunProcesses(c) PROVE ClockInv'
    BY <2>2, ProcessesClean
  <2>3. ASSUME NEW c \in Clocks, RunFlops(c) PROVE ClockInv'
    BY <2>3, FlopsClean
  <2>4. ASSUME NEW c \in Clocks, RunComb(c) PROVE ClockInv'
    BY <2>4 DEF RunComb, RunsDelta, ClockInv, Levels, GateIsClean
  <2>5. CASE UNCHANGED vars
    BY <2>5 DEF vars, ClockInv, Levels, GateIsClean
  <2> QED BY Zenon, <2>1, <2>2, <2>3, <2>4, <2>5 DEF Next
<1>3. ClockInv => GateIsClean BY DEF ClockInv
<1> QED BY <1>1, <1>2, <1>3, PTL DEF Spec

-----------------------------------------------------------------------------
(* What has events: processes and clocks.                                  *)
W == Forever \cup Clocks

(* The longest wait.                                                       *)
Longest ==
  CHOOSE longest \in 0 .. TimeMod :
    /\ EndTime + 2 * longest + Shift < TimeMod
    /\ \A f \in Forever : Never(f) \/ Ticks(f, longest)

(* A process drives the clock x.                                           *)
Feeds(f, x) == Drives[f] # NoEvent /\ x \in {Drives[f]} \cup ToSet(Gated[Drives[f]])

(* The event of a clock whose deltas are not over.                         *)
Due(x) == [at |-> edge[x].at + edge[x].ran + 1, what |-> x]

(* The types of the variables, without the pool.                           *)
Types ==
  /\ cur_time \in Nat
  /\ level \in [Forever -> {0, 1}] /\ val \in [Clocks -> {0, 1}]
  /\ delta \in [Clocks -> 0 .. 3]
  /\ edge \in [Clocks -> [at : Nat, ran : 0 .. 3]]

(* Nothing is due before now.                                              *)
NotPast(q) == \A a \in Entries(q) : a.at >= cur_time

(* A clock has an event exactly while its deltas are not over.             *)
DeltasDue(q) ==
  \A c \in Clocks :
    IF edge[c].ran < 3 THEN Due(c) \in Entries(q) /\ delta[c] = edge[c].ran
    ELSE \A a \in Entries(q) : a.what # c

(* A process waits, and what it drives is over before it is called again.  *)
ProcessDue(a) ==
  /\ IF Never(a.what) THEN a.at \in {0, TimeMod - Shift}
     ELSE a.at <= EndTime + (IF cur_time <= EndTime THEN Longest ELSE 2 * Longest)
  /\ a.at = 0 => level[a.what] = 0
  /\ \A x \in Clocks : Feeds(a.what, x) => edge[x].at = 0 \/ edge[x].at + Shift <= a.at

(* Each process waits.                                                     *)
ProcessesDue(q) ==
  /\ \A f \in Forever : \E a \in Entries(q) : a.what = f
  /\ \A a \in Entries(q) : a.what \in Forever => ProcessDue(a)

(* Deltas that have run are over; a clock that never had an edge is low.   *)
EdgesPast ==
  /\ \A c \in Clocks : IF edge[c].at = 0 THEN edge[c].ran = 3
                       ELSE edge[c].at + edge[c].ran <= cur_time
  /\ cur_time = 0 => \A c \in Clocks : val[c] = 0

(* How far a derived clock is behind its source.                           *)
OneBehind(q) ==
  \A c \in Clocks : \A d \in ToSet(Derived[c]) :
    /\ IF edge[c].at = 0 THEN edge[d].at = 0 ELSE edge[d].at <= edge[c].at + 1
    /\ edge[c].ran = 0 => edge[d].ran = 3
    /\ edge[d].at = edge[c].at + 1 =>
         /\ edge[d].ran >= 1 => edge[c].ran >= 2
         /\ edge[d].ran = 0 /\ edge[c].ran = 1 => Before(q, Due(c), Due(d))

(* The simulator with the queue q.                                         *)
SInv(q) ==
  Types /\ NotPast(q) /\ DeltasDue(q) /\ ProcessesDue(q) /\ EdgesPast /\ OneBehind(q)

(* Only processes wait.                                                    *)
Kinds == pool.forever \in [Slots -> Forever \cup {NoEvent}]

(* The invariant: the pool holds a queue, and the simulator fits it.       *)
SchedInv == Kinds /\ \E q : Queue(pool, q, W) /\ SInv(q)

(* The assumptions, as they are used.                                      *)
LEMMA Times ==
  /\ Shift \in Nat /\ Shift > 4 /\ EndTime \in Nat /\ TimeMod \in Nat
  /\ Longest \in Nat /\ EndTime + 2 * Longest + Shift < TimeMod
  /\ \A f \in Forever : Never(f) \/ Ticks(f, Longest)
<1> DEFINE Fits(l) == /\ EndTime + 2 * l + Shift < TimeMod
                      /\ \A f \in Forever : Never(f) \/ Ticks(f, l)
<1>1. \E l \in 0 .. TimeMod : Fits(l) BY WaitsAssumption
<1>2. Longest = CHOOSE l \in 0 .. TimeMod : Fits(l) BY DEF Longest
<1> HIDE DEF Fits
<1>3. Longest \in 0 .. TimeMod /\ Fits(Longest) BY <1>1, <1>2
<1> QED BY <1>3, SchedulerAssumption DEF Fits

(* A name is a process or a clock, and the pool has a slot for each.       *)
LEMMA NamesApart ==
  /\ IsFiniteSet(W) /\ Cardinality(W) <= N - 1
  /\ NoEvent \notin W /\ Forever \cap Clocks = {}
<1>1. Cardinality(Forever \cap Clocks) \in Nat
  BY SchedulerAssumption, FS_CardinalityType, FS_Intersection
<1>2. /\ IsFiniteSet(W)
      /\ Cardinality(W) =
           Cardinality(Forever) + Cardinality(Clocks) - Cardinality(Forever \cap Clocks)
  BY SchedulerAssumption, FS_Union DEF W
<1>3. Cardinality(Forever) \in Nat /\ Cardinality(Clocks) \in Nat
  BY SchedulerAssumption, FS_CardinalityType
<1>4. Cardinality(W) <= N - 1 BY <1>1, <1>2, <1>3, SchedulerAssumption, PoolAssumption
<1> QED BY <1>2, <1>4, ClockTreeAssumption DEF W

(* Clocks derived from and gated by a clock.                               *)
LEMMA Lists ==
  ASSUME NEW c \in Clocks
  PROVE  /\ Gated[c] \in Seq(Clocks) /\ Derived[c] \in Seq(Clocks)
         /\ Tree(c) \in Seq(Clocks)
         /\ ToSet(Tree(c)) = {c} \cup ToSet(Gated[c])
         /\ \A i, j \in 1 .. Len(Tree(c)) : Tree(c)[i] = Tree(c)[j] => i = j
         /\ \A i, j \in 1 .. Len(Derived[c]) : Derived[c][i] = Derived[c][j] => i = j
         /\ c \notin ToSet(Derived[c])
<1>1. Gated[c] \in Seq(Clocks) /\ Derived[c] \in Seq(Clocks) BY ClockTreeAssumption
<1> DEFINE n == Len(Gated[c])
<1>2. n \in Nat BY <1>1
<1>3. Tree(c) \in Seq(Clocks) /\ Len(Tree(c)) = n + 1 BY <1>1 DEF Tree
<1>4. \A i \in 1 .. n + 1 : Tree(c)[i] = IF i = 1 THEN c ELSE Gated[c][i - 1]
  BY <1>1 DEF Tree
<1> HIDE DEF n
<1>5. ToSet(Tree(c)) = {c} \cup ToSet(Gated[c])
  <2>1. ToSet(Tree(c)) = {Tree(c)[i] : i \in 1 .. n + 1} BY <1>3 DEF ToSet
  <2>2. ToSet(Gated[c]) = {Gated[c][i] : i \in 1 .. n} BY <1>1 DEF ToSet, n
  <2>3. \A x : x \in ToSet(Tree(c)) => x = c \/ x \in ToSet(Gated[c])
    <3> TAKE x
    <3> HAVE x \in ToSet(Tree(c))
    <3>1. PICK i \in 1 .. n + 1 : x = Tree(c)[i] BY <2>1
    <3>2. i # 1 => i - 1 \in 1 .. n BY <1>2
    <3> QED BY <3>1, <3>2, <1>4, <2>2
  <2>4. c \in ToSet(Tree(c))
    <3>1. 1 \in 1 .. n + 1 BY <1>2
    <3> QED BY <3>1, <2>1, <1>4
  <2>5. \A x \in ToSet(Gated[c]) : x \in ToSet(Tree(c))
    <3> TAKE x \in ToSet(Gated[c])
    <3>1. PICK i \in 1 .. n : x = Gated[c][i] BY <2>2
    <3>2. i + 1 \in 1 .. n + 1 /\ i + 1 # 1 /\ (i + 1) - 1 = i BY <1>2
    <3>3. Tree(c)[i + 1] = Gated[c][(i + 1) - 1] BY <3>2, <1>4
    <3> QED BY <3>1, <3>2, <3>3, <2>1
  <2> QED BY <2>3, <2>4, <2>5
<1>6. \A i, j \in 1 .. n : Gated[c][i] = Gated[c][j] => i = j
  BY ClockTreeAssumption DEF n
<1>7. \A i \in 1 .. n : Gated[c][i] # c
  <2> TAKE i \in 1 .. n
  <2>1. Gated[c][i] \in ToSet(Gated[c]) BY <1>1 DEF ToSet, n
  <2>2. Gated[Gated[c][i]] = <<>> BY <2>1, ClockTreeAssumption
  <2>3. Gated[c] # <<>> BY <1>1 DEF n
  <2> QED BY <2>2, <2>3
<1>8. \A i, j \in 1 .. n + 1 : Tree(c)[i] = Tree(c)[j] => i = j
  <2> SUFFICES ASSUME NEW i \in 1 .. n + 1, NEW j \in 1 .. n + 1, Tree(c)[i] = Tree(c)[j]
               PROVE  i = j
    OBVIOUS
  <2>1. (i # 1 => i - 1 \in 1 .. n) /\ (j # 1 => j - 1 \in 1 .. n) BY <1>2
  <2>2. CASE i = 1 \/ j = 1 BY <2>1, <2>2, <1>4, <1>7
  <2>3. CASE i # 1 /\ j # 1
    <3>1. i - 1 = j - 1 BY <2>1, <2>3, <1>4, <1>6
    <3> QED BY <3>1
  <2> QED BY <2>2, <2>3
<1>9. c \notin ToSet(Derived[c])
  <2> SUFFICES ASSUME c \in ToSet(Derived[c]) PROVE FALSE OBVIOUS
  <2>1. Derived[c] = <<>> BY ClockTreeAssumption
  <2> QED BY <2>1 DEF ToSet
<1>10. \A i, j \in 1 .. Len(Derived[c]) : Derived[c][i] = Derived[c][j] => i = j
  BY ClockTreeAssumption
<1> QED BY <1>1, <1>3, <1>5, <1>8, <1>9, <1>10

(* No two entries have the same name.                                      *)
LEMMA OneEntry ==
  ASSUME NEW p, NEW q, Queue(p, q, W), NEW a \in Entries(q), NEW b \in Entries(q),
         a.what = b.what
  PROVE  a = b
<1>1. Distinct(q) BY DEF Queue
<1> QED BY <1>1 DEF Entries, Distinct

(* What an entry is.                                                       *)
LEMMA InW ==
  ASSUME NEW p, NEW q, Queue(p, q, W), NEW a \in Entries(q)
  PROVE  a.at \in Nat /\ a.what \in W /\ a = [at |-> a.at, what |-> a.what]
<1>1. Named(q, W) BY DEF Queue
<1>2. PICK s : Stored(p, s, q) BY DEF Queue
<1>3. PICK i \in DOMAIN q : a = q[i] BY DEF Entries
<1>4. q[i] = Entry(p, s[i]) BY <1>2, <1>3 DEF Stored
<1> QED BY <1>1, <1>3, <1>4 DEF Named, Entry

(* The event the simulator takes next is the first entry.                  *)
LEMMA TheFirst ==
  ASSUME NEW q, Queue(pool, q, W), SInv(q), ~Ended
  PROVE  /\ pool.in_use \in Nat /\ pool.in_use # 0 /\ DOMAIN q = 1 .. pool.in_use
         /\ q[1] \in Entries(q) /\ q[1].at \in Nat /\ q[1].what \in W
         /\ \A a \in Entries(q) : q[1].at <= a.at
         /\ cur_time <= EndTime /\ cur_time <= q[1].at
         /\ Now = q[1].at /\ Entry(pool, Next_) = q[1]
         /\ Queue(DropFirst(pool), Rest(q, pool.in_use), W)
         /\ Leaves(q, Rest(q, pool.in_use))
<1>1. pool.in_use \in Nat /\ DOMAIN q = 1 .. pool.in_use BY QueueLength, PoolAssumption
<1>2. pool.in_use # 0
  <2> SUFFICES ASSUME pool.in_use = 0 PROVE FALSE OBVIOUS
  <2>1. PICK s : Ring(pool, s) BY DEF Queue
  <2>2. s[0] = 0 /\ pool.next[s[0]] = 0 BY <2>1 DEF Ring, Order, Links, Listed
  <2> QED BY <2>2 DEF Ended, Next_, First
<1>3. /\ Next_ \in Slots /\ Entry(pool, Next_) = q[1]
      /\ Queue(DropFirst(pool), Rest(q, pool.in_use), W)
      /\ Leaves(q, Rest(q, pool.in_use))
  BY <1>2, FirstLeaves DEF Next_
<1>4. q[1] \in Entries(q) /\ 1 \in DOMAIN q BY <1>1, <1>2 DEF Entries
<1>5. q[1].at \in Nat /\ q[1].what \in W BY <1>4, InW
<1>6. \A a \in Entries(q) : q[1].at <= a.at
  <2> TAKE a \in Entries(q)
  <2>1. PICK i \in 1 .. pool.in_use : a = q[i] BY <1>1 DEF Entries
  <2>2. InTime(q) BY DEF Queue
  <2>3. i # 1 => 1 < i BY <1>1
  <2> QED BY <2>1, <2>2, <2>3, <1>1, <1>4, <1>5 DEF InTime
<1>7. cur_time \in Nat /\ q[1].at >= cur_time BY <1>4 DEF SInv, Types, NotPast
<1>8. cur_time <= EndTime BY <1>7, Times DEF Ended
<1>9. pool.time[Next_] = q[1].at BY <1>3 DEF Entry
<1>10. Now = q[1].at BY <1>5, <1>7, <1>9 DEF Now
<1> QED BY <1>1, <1>2, <1>3, <1>4, <1>5, <1>6, <1>7, <1>8, <1>10

-----------------------------------------------------------------------------
(* The events of clocks with an edge at time t.                            *)
EdgesAt(X, t) == {[at |-> t + 1, what |-> x] : x \in X}

(* They are the events the clocks of a list get.                           *)
LEMMA NewsAreEdges ==
  ASSUME NEW list \in Seq(Clocks), NEW X \in SUBSET ToSet(list), NEW t
  PROVE  News(t + 1, list, X, Len(list)) = EdgesAt(X, t)
<1>1. ToSet(list) = {list[i] : i \in 1 .. Len(list)} BY DEF ToSet
<1> QED BY <1>1 DEF News, EdgesAt

(* What a process drives, and the clocks among it that change.             *)
Fed(f) == IF Drives[f] = NoEvent THEN {}
          ELSE {Drives[f]} \cup {g \in ToSet(Gated[Drives[f]]) : en[g]}
(* The clocks of the list Toggle goes through, and those that change.      *)
FedList(f) == IF Drives[f] = NoEvent THEN <<>> ELSE Tree(Drives[f])
Switched(f) == {x \in Fed(f) : val[x] # level[f]}

(* They are clocks the process feeds.                                      *)
LEMMA FedFeeds ==
  ASSUME NEW f \in Forever
  PROVE  /\ FedList(f) \in Seq(Clocks) /\ Fed(f) \in SUBSET ToSet(FedList(f))
         /\ \A i, j \in 1 .. Len(FedList(f)) : FedList(f)[i] = FedList(f)[j] => i = j
         /\ \A x \in ToSet(FedList(f)) : x \in Clocks /\ Feeds(f, x)
         /\ Fed(f) \in SUBSET Clocks /\ \A x \in Fed(f) : Feeds(f, x)
<1>1. CASE Drives[f] = NoEvent
  <2>1. FedList(f) = <<>> /\ Fed(f) = {} BY <1>1 DEF Fed, FedList
  <2>2. ToSet(<<>>) = {} BY DEF ToSet
  <2> QED BY <2>1, <2>2
<1>2. CASE Drives[f] # NoEvent
  <2> DEFINE c == Drives[f]
  <2>1. c \in Clocks BY <1>2, ClockTreeAssumption
  <2>2. FedList(f) = Tree(c) /\ Fed(f) = {c} \cup {g \in ToSet(Gated[c]) : en[g]}
    BY <1>2 DEF Fed, FedList
  <2>3. \A x : Feeds(f, x) <=> x \in {c} \cup ToSet(Gated[c]) BY <1>2 DEF Feeds
  <2>4. ToSet(Gated[c]) \in SUBSET Clocks BY <2>1, Lists DEF ToSet
  <2> HIDE DEF c
  <2> QED BY <2>1, <2>2, <2>3, <2>4, Lists
<1> QED BY <1>1, <1>2

(* The step of a process.                                                  *)
ForeverStep(f) ==
  /\ cur_time' = Now /\ level' = [level EXCEPT ![f] = 1 - level[f]]
  /\ val' = [x \in Clocks |-> IF x \in Fed(f) THEN level[f] ELSE val[x]]
  /\ delta' = [x \in Clocks |-> IF x \in Fed(f) THEN 0 ELSE delta[x]]
  /\ edge' = [x \in Clocks |-> IF x \in Switched(f) THEN [at |-> Now, ran |-> 0] ELSE edge[x]]

(* RunForever takes it, and creates its events.                            *)
LEMMA ForeverRuns ==
  ASSUME NEW f \in Forever, RunForever(f)
  PROVE  /\ ~Ended /\ f = pool.forever[Next_] /\ ForeverStep(f)
         /\ \E n \in Waits[f] : pool' =
              CreateForever(CreateClks(DropFirst(pool), Now + 1, FedList(f), Switched(f)),
                            Wake(Now, n), f)
<1> DEFINE v == [x \in Clocks |-> level[f]]
           list == IF Drives[f] = NoEvent THEN <<>> ELSE Tree(Drives[f])
           cs == IF Drives[f] = NoEvent THEN {}
                 ELSE {Drives[f]} \cup {g \in ToSet(Gated[Drives[f]]) : en[g]}
<1>1. /\ ~Ended /\ f = pool.forever[Next_] /\ cur_time' = Now
      /\ level' = [level EXCEPT ![f] = 1 - level[f]]
  BY Zenon DEF RunForever
<1>2. \E n \in Waits[f] :
        pool' = CreateForever(Toggle(DropFirst(pool), list, cs, v, Now), Wake(Now, n), f)
  BY Zenon DEF RunForever
<1>3. Assigned(cs, level[f], Now) /\ delta' = [x \in Clocks |-> IF x \in cs THEN 0 ELSE delta[x]]
  BY Zenon DEF RunForever
<1>4. cs = Fed(f) /\ list = FedList(f) BY DEF Fed, FedList
<1>5. Fed(f) \in SUBSET Clocks BY FedFeeds
<1>6. {x \in Fed(f) : val[x] # v[x]} = Switched(f) BY <1>5 DEF Switched
<1> HIDE DEF cs, list, v
<1>7. Toggle(DropFirst(pool), list, cs, v, Now) =
        CreateClks(DropFirst(pool), Now + 1, FedList(f), Switched(f))
  BY <1>4, <1>6 DEF Toggle
<1>8. \A x \in Clocks : x \in Fed(f) /\ val[x] # level[f] <=> x \in Switched(f)
  BY <1>5 DEF Switched
<1>9. /\ val' = [x \in Clocks |-> IF x \in Fed(f) THEN level[f] ELSE val[x]]
      /\ edge' = [x \in Clocks |-> IF x \in Switched(f) THEN [at |-> Now, ran |-> 0]
                                   ELSE edge[x]]
  BY <1>3, <1>4, <1>8 DEF Assigned
<1> QED BY <1>1, <1>2, <1>3, <1>4, <1>7, <1>9 DEF ForeverStep

(* The step of a clock: its deltas go on, and the clocks of X, which it    *)
(* derives, have an edge.                                                  *)
ClockStep(c, X) ==
  /\ X \in SUBSET ToSet(Derived[c]) /\ (X # {} => edge[c].ran = 0)
  /\ cur_time' = Now /\ level' = level
  /\ val' = [x \in Clocks |-> IF x \in X THEN 1 - val[x] ELSE val[x]]
  /\ delta' = [x \in Clocks |-> IF x = c THEN delta[c] + 1 ELSE IF x \in X THEN 0 ELSE delta[x]]
  /\ edge' = [x \in Clocks |-> IF x = c THEN [at |-> edge[c].at, ran |-> edge[c].ran + 1]
                               ELSE IF x \in X THEN [at |-> Now, ran |-> 0] ELSE edge[x]]

(* The pool with the events of the clocks of X.                            *)
Derives(c, X, p) ==
  \/ p = CreateClks(pool, Now + 1, Derived[c], X)
  \/ p = pool /\ X = {}

(* A clock that runs is the first entry.                                   *)
LEMMA ClockIsFirst ==
  ASSUME NEW q, Queue(pool, q, W), SInv(q), NEW c \in Clocks, NEW d, RunsDelta(c, d)
  PROVE  q[1] = Due(c) /\ edge[c].ran < 3 /\ delta[c] = edge[c].ran /\ d = edge[c].ran
<1>1. ~Ended /\ pool.forever[Next_] = NoEvent /\ c = pool.pclk[Next_] /\ delta[c] = d
  BY DEF RunsDelta
<1>2. q[1] \in Entries(q) /\ Entry(pool, Next_) = q[1] BY <1>1, TheFirst
<1>3. q[1].what = c BY <1>1, <1>2 DEF Entry
<1>4. edge[c].ran < 3 /\ Due(c) \in Entries(q) /\ delta[c] = edge[c].ran
  BY <1>2, <1>3 DEF SInv, DeltasDue
<1>5. Due(c).what = c BY DEF Due
<1>6. q[1] = Due(c) BY <1>2, <1>3, <1>4, <1>5, OneEntry
<1> QED BY <1>1, <1>4, <1>6

(* A clock's step: it runs the delta that is due.                          *)
LEMMA ClockRuns ==
  ASSUME NEW q, Queue(pool, q, W), SInv(q), NEW c \in Clocks,
         RunProcesses(c) \/ RunFlops(c) \/ RunComb(c)
  PROVE  /\ ~Ended /\ q[1] = Due(c) /\ edge[c].ran < 3 /\ delta[c] = edge[c].ran
         /\ \E X, p : ClockStep(c, X) /\ Derives(c, X, p) /\ pool' = AfterDelta(p, Now, c)
<1>1. Types /\ c \notin ToSet(Derived[c]) BY Lists DEF SInv
<1>2. edge[c] = [at |-> edge[c].at, ran |-> edge[c].ran] BY <1>1 DEF Types
<1>3. CASE RunProcesses(c)
  <2> DEFINE v == [x \in Clocks |-> 1 - val[x]]
  <2>1. PICK X \in SUBSET (IF val[c] = 1 THEN ToSet(Derived[c]) ELSE {}) :
          /\ RunsDelta(c, 0)
          /\ pool' = AfterDelta(Toggle(pool, Derived[c], X, v, Now), Now, c)
          /\ val' = [x \in Clocks |-> IF x \in X THEN v[x] ELSE val[x]]
          /\ delta' = [x \in Clocks |-> IF x = c THEN 1 ELSE IF x \in X THEN 0 ELSE delta[x]]
          /\ edge' = [x \in Clocks |->
               CASE x = c -> [edge[c] EXCEPT !.ran = 1]
                 [] x # c /\ x \in X -> [at |-> Now, ran |-> 0]
                 [] OTHER -> edge[x]]
    BY <1>3, Zenon DEF RunProcesses
  <2>2. X \in SUBSET ToSet(Derived[c]) BY <2>1
  <2>3. ToSet(Derived[c]) \in SUBSET Clocks BY Lists DEF ToSet
  <2>4. q[1] = Due(c) /\ edge[c].ran < 3 /\ delta[c] = edge[c].ran /\ 0 = edge[c].ran
    BY <2>1, ClockIsFirst
  <2>5. \A x \in Clocks : 1 - val[x] # val[x] BY <1>1 DEF Types
  <2>6. {x \in X : val[x] # v[x]} = X BY <2>2, <2>3, <2>5
  <2>7. Toggle(pool, Derived[c], X, v, Now) = CreateClks(pool, Now + 1, Derived[c], X)
    <3> HIDE DEF v
    <3> QED BY <2>6 DEF Toggle
  <2>8. ~Ended /\ cur_time' = Now /\ level' = level BY <2>1 DEF RunsDelta
  <2>9. val' = [x \in Clocks |-> IF x \in X THEN 1 - val[x] ELSE val[x]] BY <2>1
  <2>10. [edge[c] EXCEPT !.ran = 1] = [at |-> edge[c].at, ran |-> edge[c].ran + 1]
    BY <1>2, <2>4
  <2>11. edge' = [x \in Clocks |-> IF x = c THEN [at |-> edge[c].at, ran |-> edge[c].ran + 1]
                                  ELSE IF x \in X THEN [at |-> Now, ran |-> 0] ELSE edge[x]]
    BY <2>1, <2>10
  <2>12. delta' = [x \in Clocks |-> IF x = c THEN delta[c] + 1
                                    ELSE IF x \in X THEN 0 ELSE delta[x]]
    BY <2>1, <2>4
  <2>13. ClockStep(c, X) BY <2>2, <2>4, <2>8, <2>9, <2>11, <2>12 DEF ClockStep
  <2>14. \E p : Derives(c, X, p) /\ pool' = AfterDelta(p, Now, c)
    BY <2>1, <2>7 DEF Derives
  <2> QED BY <2>4, <2>8, <2>13, <2>14
<1>4. CASE RunFlops(c) \/ RunComb(c)
  <2>1. PICK d : RunsDelta(c, d) BY <1>4 DEF RunFlops, RunComb
  <2>2. q[1] = Due(c) /\ edge[c].ran < 3 /\ delta[c] = edge[c].ran BY <2>1, ClockIsFirst
  <2>3. ~Ended /\ cur_time' = Now /\ level' = level BY <2>1 DEF RunsDelta
  <2>4. pool' = AfterDelta(pool, Now, c) /\ val' = val BY <1>4 DEF RunFlops, RunComb
  <2>5. delta \in [Clocks -> 0 .. 3] /\ edge \in [Clocks -> [at : Nat, ran : 0 .. 3]]
    BY <1>1 DEF Types
  <2>6. /\ delta' = [delta EXCEPT ![c] = delta[c] + 1]
        /\ edge' = [edge EXCEPT ![c] = [at |-> edge[c].at, ran |-> edge[c].ran + 1]]
    <3>1. CASE RunFlops(c)
      <4>1. delta[c] = 1 BY <3>1 DEF RunFlops, RunsDelta
      <4>2. delta' = [delta EXCEPT ![c] = 2] /\ edge' = [edge EXCEPT ![c].ran = 2]
        BY <3>1 DEF RunFlops
      <4>3. edge' = [edge EXCEPT ![c] = [edge[c] EXCEPT !.ran = 2]] BY <4>2
      <4>4. [edge[c] EXCEPT !.ran = 2] = [at |-> edge[c].at, ran |-> edge[c].ran + 1]
        BY <1>2, <2>2, <4>1
      <4>5. delta[c] + 1 = 2 BY <4>1
      <4> QED BY <4>2, <4>3, <4>4, <4>5, Zenon
    <3>2. CASE RunComb(c)
      <4>1. PICK e \in 2 .. 255 : RunsDelta(c, e) BY <3>2 DEF RunComb
      <4>2. delta[c] = 2 BY <4>1, <2>2, <2>5 DEF RunsDelta
      <4>3. delta' = [delta EXCEPT ![c] = (@ + 1) % 256] /\ edge' = [edge EXCEPT ![c].ran = 3]
        BY <3>2 DEF RunComb
      <4>4. edge' = [edge EXCEPT ![c] = [edge[c] EXCEPT !.ran = 3]] BY <4>3
      <4>5. [edge[c] EXCEPT !.ran = 3] = [at |-> edge[c].at, ran |-> edge[c].ran + 1]
        BY <1>2, <2>2, <4>2
      <4>6. (delta[c] + 1) % 256 = delta[c] + 1 BY <4>2
      <4>7. delta' = [delta EXCEPT ![c] = (delta[c] + 1) % 256] BY <4>3
      <4>8. delta' = [delta EXCEPT ![c] = delta[c] + 1] BY <4>6, <4>7, Zenon
      <4> QED BY <4>4, <4>5, <4>8
    <3> QED BY <3>1, <3>2, <1>4
  <2>7. ClockStep(c, {})
    <3>1. val' = [x \in Clocks |-> IF x \in {} THEN 1 - val[x] ELSE val[x]]
      BY <2>4, <1>1 DEF Types
    <3>2. delta' = [x \in Clocks |-> IF x = c THEN delta[c] + 1
                                     ELSE IF x \in {} THEN 0 ELSE delta[x]]
      BY <2>5, <2>6
    <3>3. edge' = [x \in Clocks |-> IF x = c THEN [at |-> edge[c].at, ran |-> edge[c].ran + 1]
                               ELSE IF x \in {} THEN [at |-> Now, ran |-> 0] ELSE edge[x]]
      BY <2>5, <2>6
    <3> QED BY <2>3, <3>1, <3>2, <3>3 DEF ClockStep
  <2>8. Derives(c, {}, pool) BY DEF Derives
  <2> QED BY <2>2, <2>3, <2>4, <2>7, <2>8
<1> QED BY <1>3, <1>4

-----------------------------------------------------------------------------
(* When a process is called again.                                         *)
LEMMA WrapsOnce ==
  ASSUME NEW m \in Nat, NEW x \in 0 .. m - 1
  PROVE  (x + m) % m = x
<1>1. m > 0 OBVIOUS
<1> QED BY <1>1

(* When a process is called again: later, within the longest wait;         *)
LEMMA WakesLater ==
  ASSUME NEW f \in Forever, NEW n \in Waits[f], NEW t \in Nat, ~Never(f), t <= EndTime + Longest
  PROVE  /\ Wake(t, n) \in Nat /\ Wake(t, n) >= t + Shift /\ Wake(t, n) <= t + Longest
<1>1. n \in Nat \ {0} /\ n * Shift <= Longest BY Times DEF Ticks
<1>2. n * Shift \in Nat /\ n * Shift >= Shift BY <1>1, Times
<1> DEFINE w == n * Shift
<1>3. Wake(t, n) = (t + w + TimeMod) % TimeMod
  <2>1. t + TimeMod + w = t + w + TimeMod BY <1>2, Times
  <2> QED BY <2>1 DEF Wake
<1>4. w \in Nat /\ w >= Shift /\ w <= Longest BY <1>1, <1>2
<1> HIDE DEF w
<1>5. t + w \in 0 .. TimeMod - 1 BY <1>4, Times
<1>6. (t + w + TimeMod) % TimeMod = t + w BY <1>5, WrapsOnce, Times
<1> QED BY <1>3, <1>4, <1>6, Times

(* one that waits for good, behind the end of the run.                     *)
LEMMA WakesNever ==
  ASSUME NEW f \in Forever, NEW n \in Waits[f], Never(f)
  PROVE  Wake(0, n) = TimeMod - Shift
<1>1. n = -1 BY DEF Never
<1>2. 0 + TimeMod + (-1) * Shift = TimeMod - Shift BY Times
<1>3. Wake(0, n) = (TimeMod - Shift) % TimeMod BY <1>1, <1>2 DEF Wake
<1> DEFINE m == TimeMod - Shift
<1>4. m \in 0 .. TimeMod - 1 /\ TimeMod \in Nat BY Times
<1> HIDE DEF m
<1>5. m % TimeMod = m BY <1>4
<1> QED BY <1>3, <1>5 DEF m

(* One that waits for good is not called again: another is before it.      *)
LEMMA FirstWakes ==
  ASSUME NEW q, Queue(pool, q, W), SInv(q), ~Ended, q[1].what \in Forever
  PROVE  IF Never(q[1].what) THEN q[1].at = 0 ELSE q[1].at <= EndTime + Longest
<1>1. cur_time <= EndTime /\ q[1] \in Entries(q) /\ q[1].at \in Nat BY TheFirst
<1>2. \A a \in Entries(q) : a.what \in Forever => ProcessDue(a) BY DEF SInv, ProcessesDue
<1>3. CASE ~Never(q[1].what) BY <1>1, <1>2, <1>3 DEF ProcessDue
<1>4. CASE Never(q[1].what)
  <2>1. PICK e \in Forever : ~Never(e) BY WaitsAssumption
  <2>2. PICK b \in Entries(q) : b.what = e BY <2>1 DEF SInv, ProcessesDue
  <2>3. b.at <= EndTime + Longest BY <1>1, <1>2, <2>1, <2>2 DEF ProcessDue
  <2>4. q[1].at <= b.at BY <2>2, TheFirst
  <2>5. b.at \in Nat BY <2>2, InW
  <2>6. q[1].at # TimeMod - Shift BY <1>1, <2>3, <2>4, <2>5, Times
  <2>7. q[1].at \in {0, TimeMod - Shift} BY <1>1, <1>2, <1>4 DEF ProcessDue
  <2> QED BY <2>6, <2>7, <1>4
<1> QED BY <1>3, <1>4

(* What is driven has run its deltas.                                      *)
LEMMA FedIsOver ==
  ASSUME NEW q, Queue(pool, q, W), SInv(q), ~Ended, NEW f \in Forever, q[1].what = f,
         NEW x \in Clocks, Feeds(f, x)
  PROVE  edge[x].ran = 3 /\ \A a \in Entries(q) : a.what # x
<1>1. q[1] \in Entries(q) /\ q[1].at \in Nat /\ \A a \in Entries(q) : q[1].at <= a.at
  BY TheFirst
<1>2. edge[x].at = 0 \/ edge[x].at + Shift <= q[1].at
  BY <1>1 DEF SInv, ProcessesDue, ProcessDue
<1>3. edge[x].at \in Nat /\ edge[x].ran \in 0 .. 3 BY DEF SInv, Types
<1>4. edge[x].ran = 3
  <2> SUFFICES ASSUME edge[x].ran < 3 PROVE FALSE BY <1>3
  <2>1. Due(x) \in Entries(q) /\ edge[x].at # 0 BY <1>3 DEF SInv, DeltasDue, EdgesPast
  <2>2. Due(x).at = edge[x].at + edge[x].ran + 1 BY DEF Due
  <2>3. q[1].at <= edge[x].at + edge[x].ran + 1 BY <1>1, <2>1, <2>2
  <2> QED BY <1>1, <1>2, <1>3, <2>1, <2>3, Times
<1> QED BY <1>4 DEF SInv, DeltasDue

(* The clocks derived from what is driven have run theirs, too.            *)
LEMMA DerivedIsOver ==
  ASSUME NEW q, Queue(pool, q, W), SInv(q), ~Ended, NEW f \in Forever, q[1].what = f,
         NEW x \in Clocks, Feeds(f, x), NEW d \in ToSet(Derived[x])
  PROVE  edge[d].ran = 3
<1>1. q[1] \in Entries(q) /\ q[1].at \in Nat /\ \A a \in Entries(q) : q[1].at <= a.at
  BY TheFirst
<1>2. edge[x].at = 0 \/ edge[x].at + Shift <= q[1].at
  BY <1>1 DEF SInv, ProcessesDue, ProcessDue
<1>3. d \in Clocks BY Lists DEF ToSet
<1>4. edge[x].at \in Nat /\ edge[d].at \in Nat /\ edge[d].ran \in 0 .. 3
  BY <1>3 DEF SInv, Types
<1>5. IF edge[x].at = 0 THEN edge[d].at = 0 ELSE edge[d].at <= edge[x].at + 1
  BY DEF SInv, OneBehind
<1> SUFFICES ASSUME edge[d].ran < 3 PROVE FALSE BY <1>4
<1>6. Due(d) \in Entries(q) /\ edge[d].at # 0 BY <1>3, <1>4 DEF SInv, DeltasDue, EdgesPast
<1>7. Due(d).at = edge[d].at + edge[d].ran + 1 BY DEF Due
<1>8. q[1].at <= edge[d].at + edge[d].ran + 1 BY <1>1, <1>6, <1>7
<1> QED BY <1>1, <1>2, <1>4, <1>5, <1>6, <1>8, Times

-----------------------------------------------------------------------------
(* The queue after the step of a process.                                  *)
LEMMA ForeverAdvances ==
  ASSUME Kinds, NEW q, Queue(pool, q, W), SInv(q), NEW f \in Forever, RunForever(f)
  PROVE  /\ ~Ended /\ q[1].what = f /\ Kinds'
         /\ \E w, t :
              /\ Queue(pool', w, W)
              /\ Advances(q, w, EdgesAt(Switched(f), Now) \cup {[at |-> t, what |-> f]})
              /\ IF Never(f) THEN t = TimeMod - Shift
                 ELSE Now <= EndTime + Longest /\ t >= Now + Shift /\ t <= Now + Longest
<1>1. PICK n \in Waits[f] : pool' =
        CreateForever(CreateClks(DropFirst(pool), Now + 1, FedList(f), Switched(f)),
                      Wake(Now, n), f)
  BY ForeverRuns
<1>2. ~Ended /\ f = pool.forever[Next_] BY ForeverRuns
<1>3. f # NoEvent /\ f \in W /\ f \notin Clocks BY NamesApart DEF W
<1>4. /\ q[1] \in Entries(q) /\ q[1].at \in Nat /\ Now = q[1].at /\ Entry(pool, Next_) = q[1]
      /\ Queue(DropFirst(pool), Rest(q, pool.in_use), W) /\ Leaves(q, Rest(q, pool.in_use))
  BY <1>2, TheFirst
<1>5. q[1].what = f BY <1>2, <1>3, <1>4 DEF Entry
<1>6. PICK t : t = Wake(Now, n) OBVIOUS
<1>7. IF Never(f) THEN t = TimeMod - Shift
      ELSE Now <= EndTime + Longest /\ t >= Now + Shift /\ t <= Now + Longest
  <2>1. IF Never(f) THEN Now = 0 ELSE Now <= EndTime + Longest BY <1>2, <1>4, <1>5, FirstWakes
  <2>2. CASE Never(f) BY <2>1, <2>2, <1>6, WakesNever
  <2>3. CASE ~Never(f) BY <2>1, <2>3, <1>4, <1>6, WakesLater
  <2> QED BY <2>2, <2>3
<1>8. t \in Nat
  <2>1. CASE Never(f) BY <2>1, <1>7, Times
  <2>2. CASE ~Never(f) BY <2>2, <1>4, <1>6, <1>7, WakesLater
  <2> QED BY <2>1, <2>2
<1> DEFINE u == Rest(q, pool.in_use)
           p == DropFirst(pool)
           r == CreateClks(p, Now + 1, FedList(f), Switched(f))
           A == EdgesAt(Switched(f), Now)
<1>9. \A x \in Switched(f) : x \in Clocks /\ Feeds(f, x) /\ x \in ToSet(FedList(f))
  BY FedFeeds DEF Switched
<1>10. \A a \in Entries(u) : a.what # f /\ a.what \notin Switched(f)
  <2> TAKE a \in Entries(u)
  <2>1. a \in Entries(q) /\ a.what # q[1].what BY <1>4 DEF Leaves
  <2>2. \A x \in Switched(f) : a.what # x BY <2>1, <1>2, <1>5, <1>9, FedIsOver
  <2> QED BY <2>1, <2>2, <1>5
<1>11. FedList(f) \in Seq(W) /\ FedList(f) \in Seq(Clocks) BY FedFeeds DEF W
<1>12. Switched(f) \in SUBSET ToSet(FedList(f)) BY <1>9
<1>13. Now + 1 \in Nat BY <1>4
<1>14. IsFiniteSet(W) /\ Cardinality(W) <= N - 1 BY NamesApart
<1>15. News(Now + 1, FedList(f), Switched(f), Len(FedList(f))) = A
  BY <1>11, <1>12, NewsAreEdges
<1>16. \A i, j \in 1 .. Len(FedList(f)) : FedList(f)[i] = FedList(f)[j] => i = j BY FedFeeds
<1>17. Queue(p, u, W) /\ Leaves(q, u) BY <1>4
<1> HIDE DEF u, p, A
<1>18. \A i \in 1 .. Len(FedList(f)) : FedList(f)[i] \in Switched(f) =>
         \A a \in Entries(u) : a.what # FedList(f)[i]
  BY <1>10
<1>19. /\ \E y : Queue(r, y, W) /\ Extends(u, y, A)
       /\ r.forever = p.forever
  BY <1>11, <1>13, <1>14, <1>15, <1>16, <1>17, <1>18, ClksJoin
<1>20. PICK y : Queue(r, y, W) /\ Extends(u, y, A) BY <1>19
<1> HIDE DEF r
<1>21. \A a \in Entries(y) : a.what # f
  <2> TAKE a \in Entries(y)
  <2>1. CASE a \in Entries(u) BY <2>1, <1>10
  <2>2. CASE a \in A
    <3>1. PICK x \in Switched(f) : a = [at |-> Now + 1, what |-> x] BY <2>2 DEF A, EdgesAt
    <3> QED BY <3>1, <1>3, <1>9
  <2> QED BY <2>1, <2>2, <1>20 DEF Extends
<1>22. pool' = CreateForever(r, t, f) BY <1>1, <1>6 DEF r, p
<1>23. PICK w : Queue(pool', w, W) /\ Extends(y, w, {[at |-> t, what |-> f]})
  BY <1>3, <1>8, <1>14, <1>20, <1>21, <1>22, ForeverJoins
<1>24. Advances(q, w, A \cup {[at |-> t, what |-> f]})
  BY <1>17, <1>20, <1>23, LeavesExtends, AdvancesExtends
<1>25. Kinds'
  <2> DEFINE F == Forever \cup {NoEvent}
  <2>1. f \in F /\ NoEvent \in F /\ pool.forever \in [Slots -> F] BY DEF Kinds
  <2> HIDE DEF F
  <2>2. r.forever \in [Slots -> F] BY <2>1, <1>19, ProcessesOf DEF p
  <2>3. CreateForever(r, t, f).forever \in [Slots -> F] BY <2>1, <2>2, ProcessesOf
  <2> QED BY <2>3, <1>22 DEF Kinds, F
<1> QED BY <1>2, <1>5, <1>7, <1>23, <1>24, <1>25 DEF A

(* The queue after the step of a clock.                                    *)
LEMMA ClockAdvances ==
  ASSUME Kinds, NEW q, Queue(pool, q, W), SInv(q), NEW c \in Clocks,
         ~Ended, q[1] = Due(c), edge[c].ran < 3, delta[c] = edge[c].ran,
         NEW X, ClockStep(c, X), NEW p, Derives(c, X, p), pool' = AfterDelta(p, Now, c)
  PROVE  /\ Kinds'
         /\ \E w :
              /\ Queue(pool', w, W)
              /\ Advances(q, w, EdgesAt(X, Now) \cup (IF edge[c].ran = 2 THEN {} ELSE {Due(c)'}))
              /\ edge[c].ran # 2 => \A e \in EdgesAt(X, Now) : Before(w, Due(c)', e)
<1>1. /\ q[1] \in Entries(q) /\ q[1].at \in Nat /\ Now = q[1].at /\ q[1].what = c
      /\ pool.in_use \in Nat /\ pool.in_use # 0 /\ DOMAIN q = 1 .. pool.in_use
  BY TheFirst DEF Due
<1>2. X \in SUBSET ToSet(Derived[c]) /\ X \in SUBSET Clocks
  BY Lists DEF ClockStep, ToSet
<1>3. Derived[c] \in Seq(W) /\ Derived[c] \in Seq(Clocks) BY Lists DEF W
<1>4. IsFiniteSet(W) /\ Cardinality(W) <= N - 1 BY NamesApart
<1> DEFINE A == EdgesAt(X, Now)
<1>5. PICK u : Queue(p, u, W) /\ Extends(q, u, A) /\ p.forever = pool.forever
  <2>1. CASE p = pool /\ X = {}
    <3>1. A = {} BY <2>1 DEF EdgesAt
    <3> QED BY <2>1, <3>1, ExtendsNothing
  <2>2. CASE p = CreateClks(pool, Now + 1, Derived[c], X)
    <3>1. \A i \in 1 .. Len(Derived[c]) : Derived[c][i] \in X =>
            \A a \in Entries(q) : a.what # Derived[c][i]
      <4> TAKE i \in 1 .. Len(Derived[c])
      <4> HAVE Derived[c][i] \in X
      <4>1. edge[c].ran = 0 /\ Derived[c][i] \in ToSet(Derived[c]) /\ Derived[c][i] \in Clocks
        BY <1>2 DEF ClockStep
      <4>2. edge[Derived[c][i]].ran = 3 BY <4>1 DEF SInv, OneBehind
      <4> QED BY <4>1, <4>2 DEF SInv, DeltasDue
    <3>2. News(Now + 1, Derived[c], X, Len(Derived[c])) = A BY <1>2, <1>3, NewsAreEdges
    <3>3. Now + 1 \in Nat BY <1>1
    <3>4. \A i, j \in 1 .. Len(Derived[c]) : Derived[c][i] = Derived[c][j] => i = j BY Lists
    <3> HIDE DEF A
    <3> QED BY <2>2, <3>1, <3>2, <3>3, <3>4, <1>3, <1>4, ClksJoin
  <2> QED BY <2>1, <2>2 DEF Derives
<1>6. \A a \in A : a.at > q[1].at
  BY <1>1 DEF EdgesAt
<1> HIDE DEF A
<1>7. p.in_use \in Nat /\ DOMAIN u = 1 .. p.in_use BY <1>5, QueueLength, PoolAssumption
<1>8. InTime(q) /\ Distinct(q) /\ InTime(u) /\ Distinct(u) BY <1>5 DEF Queue
<1>9. \A a \in Entries(u) : a.at \in Nat BY <1>5, InW
<1>10. p.in_use # 0 /\ u[1] = q[1]
  BY <1>1, <1>5, <1>6, <1>7, <1>8, <1>9, FirstStays
<1> DEFINE v == Rest(u, p.in_use)
<1>11. /\ First(p) \in Slots /\ Entry(p, First(p)) = u[1]
       /\ Queue(DropFirst(p), v, W) /\ Leaves(u, v)
  BY <1>5, <1>10, FirstLeaves
<1> HIDE DEF v
<1>12. Advances(q, v, A)
  BY <1>1, <1>5, <1>6, <1>8, <1>10, <1>11, ExtendsLeaves
<1>13. p.pclk[First(p)] = c
  <2>1. Entry(p, First(p)).what = c BY <1>1, <1>10, <1>11
  <2>2. p.forever[First(p)] \in Forever \cup {NoEvent} BY <1>5, <1>11 DEF Kinds
  <2>3. c \notin Forever BY NamesApart
  <2> QED BY <2>1, <2>2, <2>3 DEF Entry
<1>14. DropFirst(p).forever \in [Slots -> Forever \cup {NoEvent}]
  <2> DEFINE F == Forever \cup {NoEvent}
  <2>1. NoEvent \in F /\ p.forever \in [Slots -> F] BY <1>5 DEF Kinds
  <2> HIDE DEF F
  <2>2. DropFirst(p).forever \in [Slots -> F] BY <2>1, ProcessesOf
  <2> QED BY <2>2 DEF F
<1>15. edge[c].ran \in 0 .. 3 /\ edge[c].at \in Nat BY DEF SInv, Types
<1>16. CASE edge[c].ran = 2
  <2>1. pool' = DropFirst(p) BY <1>16 DEF AfterDelta
  <2>2. Kinds' BY <2>1, <1>14 DEF Kinds
  <2>3. A \cup {} = A OBVIOUS
  <2> QED BY <2>1, <2>2, <2>3, <1>11, <1>12, <1>16 DEF A
<1>17. CASE edge[c].ran # 2
  <2> DEFINE e == [at |-> Now + 1, what |-> c]
  <2>1. pool' = CreateClk(DropFirst(p), Now + 1, c) BY <1>13, <1>15, <1>17 DEF AfterDelta
  <2>2. \A a \in Entries(v) : a.what # c BY <1>1, <1>10, <1>11 DEF Leaves
  <2>3. c \in W /\ Now + 1 \in Nat BY <1>1 DEF W
  <2>4. PICK w : Queue(pool', w, W) /\ Extends(v, w, {e})
    BY <2>1, <2>2, <2>3, <1>4, <1>11, ClkJoins
  <2>5. Due(c)' = e
    <3>1. edge'[c] = [at |-> edge[c].at, ran |-> edge[c].ran + 1] BY DEF ClockStep
    <3>2. Now = edge[c].at + edge[c].ran + 1 BY <1>1 DEF Due
    <3>3. Due(c)' = [at |-> edge'[c].at + edge'[c].ran + 1, what |-> c] BY DEF Due
    <3>4. edge[c].at + (edge[c].ran + 1) + 1 = Now + 1 BY <3>2, <1>15
    <3> QED BY <3>1, <3>3, <3>4
  <2>6. Advances(q, w, A \cup {e}) BY <2>4, <1>12, AdvancesExtends
  <2>7. \A b \in A : Before(w, e, b)
    <3> TAKE b \in A
    <3>1. b \in Entries(v) BY <1>12 DEF Advances
    <3>2. b.at = Now + 1 BY DEF A, EdgesAt
    <3>3. b.at >= e.at BY <3>2, <2>3
    <3> HIDE DEF e
    <3> QED BY <3>1, <3>3, <2>4 DEF Extends
  <2>8. Kinds'
    <3>1. pool'.forever = DropFirst(p).forever BY <2>1, ClkKeepsProcesses
    <3> QED BY <3>1, <1>14 DEF Kinds
  <2> QED BY <2>4, <2>5, <2>6, <2>7, <2>8, <1>17 DEF A
<1> QED BY <1>16, <1>17

-----------------------------------------------------------------------------
(* A clock is fed by one process,                                         *)
LEMMA FedOnce ==
  ASSUME NEW f \in Forever, NEW g \in Forever, NEW x, Feeds(f, x), Feeds(g, x)
  PROVE  f = g
<1>1. Drives[f] \in Clocks /\ Drives[g] \in Clocks BY ClockTreeAssumption DEF Feeds
<1>2. CASE x = Drives[f]
  <2>1. x \notin ToSet(Gated[Drives[g]]) BY <1>1, <1>2, ClockTreeAssumption
  <2>2. Drives[g] = Drives[f] BY <2>1, <1>2 DEF Feeds
  <2> QED BY <2>2, <1>1, <1>2, ClockTreeAssumption DEF Feeds
<1>3. CASE x \in ToSet(Gated[Drives[f]])
  <2>1. x # Drives[g] BY <1>1, <1>3, ClockTreeAssumption
  <2>2. x \in ToSet(Gated[Drives[g]]) BY <2>1 DEF Feeds
  <2>3. Drives[g] = Drives[f] BY <2>2, <1>1, <1>3, ClockTreeAssumption
  <2> QED BY <2>3, ClockTreeAssumption DEF Feeds
<1> QED BY <1>2, <1>3 DEF Feeds

(* a derived clock by none.                                                *)
LEMMA DerivedUnfed ==
  ASSUME NEW c \in Clocks, NEW d \in ToSet(Derived[c]), NEW f \in Forever
  PROVE  ~Feeds(f, d)
<1>1. SUFFICES ASSUME Feeds(f, d) PROVE FALSE OBVIOUS
<1>2. Drives[f] \in Clocks BY <1>1, ClockTreeAssumption DEF Feeds
<1>3. Drives[f] # d BY ClockTreeAssumption
<1>4. d \notin ToSet(Gated[Drives[f]]) BY <1>2, ClockTreeAssumption
<1> QED BY <1>1, <1>3, <1>4 DEF Feeds

(* A derived clock has one source and derives nothing.                     *)
LEMMA DerivedOnce ==
  ASSUME NEW c \in Clocks, NEW d \in ToSet(Derived[c])
  PROVE  /\ d \in Clocks /\ d # c /\ Derived[d] = <<>> /\ ToSet(Derived[d]) = {}
         /\ \A b \in Clocks : d \in ToSet(Derived[b]) => b = c
<1>1. d \in Clocks BY Lists DEF ToSet
<1>2. Derived[d] = <<>> /\ \A b \in Clocks : d \in ToSet(Derived[b]) => b = c
  BY ClockTreeAssumption
<1>3. ToSet(Derived[d]) = {} BY <1>2 DEF ToSet
<1> QED BY <1>1, <1>2, <1>3, Lists

(* The step of a process keeps the invariant.                              *)
LEMMA ForeverKeeps ==
  ASSUME NEW q, Queue(pool, q, W), SInv(q), NEW f \in Forever, ~Ended, q[1].what = f,
         ForeverStep(f), NEW w, NEW t,
         Advances(q, w, EdgesAt(Switched(f), Now) \cup {[at |-> t, what |-> f]}),
         IF Never(f) THEN t = TimeMod - Shift
         ELSE Now <= EndTime + Longest /\ t >= Now + Shift /\ t <= Now + Longest,
         t \in Nat
  PROVE  SInv(w)'
<1> DEFINE X == Switched(f)
           A == EdgesAt(X, Now)
           e == [at |-> t, what |-> f]
<1>1. /\ q[1] \in Entries(q) /\ Now = q[1].at /\ Now \in Nat
      /\ cur_time <= EndTime /\ cur_time <= Now
      /\ \A a \in Entries(q) : Now <= a.at
  BY TheFirst
<1>2. cur_time' = Now BY DEF ForeverStep
<1>3. Types BY DEF SInv
<1>4. cur_time \in Nat /\ level[f] \in {0, 1} BY <1>3 DEF Types
<1>5. \A a \in Entries(q) : a.at \in Nat /\ a.what \in W BY InW
<1>6. f \notin Clocks /\ Forever \cap Clocks = {} /\ Clocks \in SUBSET W /\ Forever \in SUBSET W
  BY NamesApart DEF W
<1>7. Entries(w) = (Entries(q) \ {q[1]}) \cup (A \cup {e}) BY DEF Advances
<1>8. \A a \in Entries(q) : a # q[1] => a.what # f BY DEF Advances
<1>9. X \in SUBSET Fed(f) /\ Fed(f) \in SUBSET Clocks /\ \A x \in Fed(f) : Feeds(f, x)
  BY FedFeeds DEF Switched
<1>10. \A x \in Clocks : Feeds(f, x) => edge[x].ran = 3 /\ \A a \in Entries(q) : a.what # x
  BY FedIsOver
<1>11. Now = 0 => X = {} /\ level[f] = 0 /\ \A c \in Clocks : val[c] = 0
  <2> SUFFICES ASSUME Now = 0 PROVE X = {} /\ level[f] = 0 /\ \A c \in Clocks : val[c] = 0
    OBVIOUS
  <2>1. level[f] = 0 BY <1>1 DEF SInv, ProcessesDue, ProcessDue
  <2>2. cur_time = 0 BY <1>1, <1>4
  <2>3. \A c \in Clocks : val[c] = 0 BY <2>2 DEF SInv, EdgesPast
  <2> QED BY <2>1, <2>3, <1>9 DEF Switched
<1>12. \A x \in Clocks : edge[x].at \in Nat /\ edge[x].ran \in 0 .. 3 BY <1>3 DEF Types
<1>13. \A x \in Clocks : edge'[x] = IF x \in X THEN [at |-> Now, ran |-> 0] ELSE edge[x]
  BY DEF ForeverStep
<1>14. \A x \in X : edge'[x].at = Now /\ edge'[x].ran = 0 BY <1>9, <1>13
<1>15. \A x \in Clocks : x \notin X => edge'[x] = edge[x] BY <1>13
<1>16. \A a \in A : a.at = Now + 1 /\ a.what \in X BY DEF EdgesAt
<1>17. \A x \in X : [at |-> Now + 1, what |-> x] \in A BY DEF EdgesAt
<1>18. t >= Now /\ t # 0 /\ (~Never(f) => t >= Now + Shift)
  <2>1. CASE Never(f)
    <3>1. Now = 0 BY <2>1, <1>1, FirstWakes
    <3> QED BY <3>1, <2>1, Times
  <2>2. CASE ~Never(f) BY <2>2, <1>1, Times
  <2> QED BY <2>1, <2>2
<1> HIDE DEF X, A, e
<1>19. Types'
  <2>1. level' \in [Forever -> {0, 1}] BY <1>3, <1>4 DEF Types, ForeverStep
  <2>2. val' \in [Clocks -> {0, 1}] BY <1>3, <1>4 DEF Types, ForeverStep
  <2>3. delta' \in [Clocks -> 0 .. 3] BY <1>3 DEF Types, ForeverStep
  <2>4. edge' \in [Clocks -> [at : Nat, ran : 0 .. 3]]
    <3>1. [at |-> Now, ran |-> 0] \in [at : Nat, ran : 0 .. 3] BY <1>1
    <3> QED BY <3>1, <1>3 DEF Types, ForeverStep
  <2> QED BY <2>1, <2>2, <2>3, <2>4, <1>1, <1>2 DEF Types
<1>20. NotPast(w)'
  <2> SUFFICES ASSUME NEW a \in Entries(w) PROVE a.at >= Now BY <1>2 DEF NotPast
  <2>1. CASE a \in Entries(q) BY <2>1, <1>1, <1>5
  <2>2. CASE a \in A BY <2>2, <1>1, <1>16
  <2>3. CASE a = e BY <2>3, <1>18, <1>1 DEF e
  <2> QED BY <2>1, <2>2, <2>3, <1>7
<1>21. DeltasDue(w)'
  <2> SUFFICES ASSUME NEW c \in Clocks
               PROVE  IF edge'[c].ran < 3 THEN Due(c)' \in Entries(w) /\ delta'[c] = edge'[c].ran
                      ELSE \A a \in Entries(w) : a.what # c
    BY DEF DeltasDue
  <2>1. CASE c \in X
    <3>1. Due(c)' = [at |-> edge'[c].at + edge'[c].ran + 1, what |-> c] BY DEF Due
    <3>2. edge'[c].at + edge'[c].ran + 1 = Now + 1 BY <2>1, <1>1, <1>14
    <3>3. Due(c)' \in Entries(w) BY <3>1, <3>2, <2>1, <1>7, <1>17
    <3>4. delta'[c] = 0 BY <2>1, <1>9 DEF ForeverStep
    <3> QED BY <3>3, <3>4, <2>1, <1>14
  <2>2. CASE c \notin X /\ edge[c].ran < 3
    <3>1. Due(c) \in Entries(q) /\ delta[c] = edge[c].ran BY <2>2 DEF SInv, DeltasDue
    <3>2. Due(c).what = c BY DEF Due
    <3>3. Due(c)' = Due(c) BY <2>2, <1>15 DEF Due
    <3>4. Due(c)' \in Entries(w) BY <3>1, <3>2, <3>3, <1>6, <1>7
    <3>5. c \notin Fed(f) BY <2>2, <1>9, <1>10
    <3>6. delta'[c] = delta[c] BY <3>5 DEF ForeverStep
    <3> QED BY <3>1, <3>4, <3>6, <2>2, <1>15
  <2>3. CASE c \notin X /\ ~(edge[c].ran < 3)
    <3>1. \A a \in Entries(q) : a.what # c BY <2>3 DEF SInv, DeltasDue
    <3>2. e.what # c BY <1>6 DEF e
    <3>3. \A a \in Entries(w) : a.what # c BY <3>1, <3>2, <2>3, <1>7, <1>16
    <3> QED BY <3>3, <2>3, <1>15
  <2> QED BY <2>1, <2>2, <2>3
<1>22. ProcessesDue(w)'
  <2>1. \A g \in Forever : \E a \in Entries(w) : a.what = g
    <3> TAKE g \in Forever
    <3>1. CASE g = f
      <4>1. e \in Entries(w) /\ e.what = f BY <1>7 DEF e
      <4> QED BY <4>1, <3>1
    <3>2. CASE g # f
      <4>1. PICK a \in Entries(q) : a.what = g BY DEF SInv, ProcessesDue
      <4> QED BY <4>1, <3>2, <1>7
    <3> QED BY <3>1, <3>2
  <2>2. ASSUME NEW a \in Entries(w), a.what \in Forever PROVE ProcessDue(a)'
    <3> SUFFICES /\ IF Never(a.what) THEN a.at \in {0, TimeMod - Shift}
                    ELSE a.at <= EndTime + (IF Now <= EndTime THEN Longest ELSE 2 * Longest)
                 /\ a.at = 0 => level'[a.what] = 0
                 /\ \A x \in Clocks : Feeds(a.what, x) =>
                      edge'[x].at = 0 \/ edge'[x].at + Shift <= a.at
      BY <1>2 DEF ProcessDue
    <3>1. CASE a = e
      <4>1. a.at = t /\ a.what = f BY <3>1 DEF e
      <4>2. IF Never(f) THEN t \in {0, TimeMod - Shift}
            ELSE t <= EndTime + (IF Now <= EndTime THEN Longest ELSE 2 * Longest)
        BY <1>1, Times
      <4>3. ASSUME NEW x \in Clocks, Feeds(f, x)
            PROVE  edge'[x].at = 0 \/ edge'[x].at + Shift <= t
        <5>1. ~Never(f) BY <4>3 DEF Feeds, Never
        <5>2. CASE x \in X BY <5>1, <5>2, <1>14, <1>18
        <5>3. CASE x \notin X
          <6>1. edge[x].at = 0 \/ edge[x].at + Shift <= Now
            BY <4>3, <1>1 DEF SInv, ProcessesDue, ProcessDue
          <6> QED BY <6>1, <5>3, <1>1, <1>12, <1>15, <1>18, Times
        <5> QED BY <5>2, <5>3
      <4> QED BY <4>1, <4>2, <4>3, <1>18
    <3>2. CASE a # e
      <4>1. a \in Entries(q) /\ a # q[1] BY <2>2, <3>2, <1>6, <1>7, <1>9, <1>16
      <4>2. a.what # f BY <4>1, <1>8
      <4>3. ProcessDue(a) BY <4>1, <2>2 DEF SInv, ProcessesDue
      <4>4. IF Never(a.what) THEN a.at \in {0, TimeMod - Shift}
            ELSE a.at <= EndTime + Longest
        BY <4>3, <1>1 DEF ProcessDue
      <4>5. level'[a.what] = level[a.what]
        BY <4>2, <2>2, <1>3 DEF Types, ForeverStep
      <4>6. ASSUME NEW x \in Clocks, Feeds(a.what, x)
            PROVE  edge'[x].at = 0 \/ edge'[x].at + Shift <= a.at
        <5>1. x \notin X BY <4>2, <4>6, <2>2, <1>9, FedOnce
        <5> QED BY <5>1, <4>3, <4>6, <1>15 DEF ProcessDue
      <4>7. a.at = 0 => level[a.what] = 0 BY <4>3 DEF ProcessDue
      <4>8. a.at \in Nat BY <4>1, <1>5
      <4>9. IF Never(a.what) THEN a.at \in {0, TimeMod - Shift}
            ELSE a.at <= EndTime + (IF Now <= EndTime THEN Longest ELSE 2 * Longest)
        BY <4>4, <4>8, Times
      <4> QED BY <4>5, <4>6, <4>7, <4>9
    <3> QED BY <3>1, <3>2
  <2> QED BY <2>1, <2>2 DEF ProcessesDue
<1>23. EdgesPast'
  <2>1. ASSUME NEW c \in Clocks
        PROVE  IF edge'[c].at = 0 THEN edge'[c].ran = 3 ELSE edge'[c].at + edge'[c].ran <= Now
    <3>1. CASE c \in X BY <3>1, <1>1, <1>11, <1>14
    <3>2. CASE c \notin X
      <4>1. IF edge[c].at = 0 THEN edge[c].ran = 3 ELSE edge[c].at + edge[c].ran <= cur_time
        BY DEF SInv, EdgesPast
      <4> QED BY <4>1, <3>2, <1>1, <1>4, <1>12, <1>15
    <3> QED BY <3>1, <3>2
  <2>2. Now = 0 => \A c \in Clocks : val'[c] = 0 BY <1>11 DEF ForeverStep
  <2> QED BY <2>1, <2>2, <1>2 DEF EdgesPast
<1>24. ASSUME NEW c \in Clocks, NEW d \in ToSet(Derived[c])
       PROVE  /\ IF edge'[c].at = 0 THEN edge'[d].at = 0 ELSE edge'[d].at <= edge'[c].at + 1
              /\ edge'[c].ran = 0 => edge'[d].ran = 3
              /\ edge'[d].at = edge'[c].at + 1 =>
                   /\ edge'[d].ran >= 1 => edge'[c].ran >= 2
                   /\ edge'[d].ran = 0 /\ edge'[c].ran = 1 => Before(w, Due(c)', Due(d)')
  <2>1. d \in Clocks /\ d \notin X BY <1>9, DerivedOnce, DerivedUnfed
  <2>2. edge'[d] = edge[d] BY <2>1, <1>15
  <2>3. /\ IF edge[c].at = 0 THEN edge[d].at = 0 ELSE edge[d].at <= edge[c].at + 1
        /\ edge[c].ran = 0 => edge[d].ran = 3
        /\ edge[d].at = edge[c].at + 1 =>
             /\ edge[d].ran >= 1 => edge[c].ran >= 2
             /\ edge[d].ran = 0 /\ edge[c].ran = 1 => Before(q, Due(c), Due(d))
    BY DEF SInv, OneBehind
  <2>4. CASE c \in X
    <3>1. edge[d].at <= Now
      <4>1. edge[d].at = 0 \/ edge[d].at + edge[d].ran <= cur_time
        BY <2>1 DEF SInv, EdgesPast
      <4> QED BY <4>1, <2>1, <1>1, <1>4, <1>12
    <3>2. edge[d].ran = 3 BY <2>4, <1>9, DerivedIsOver
    <3>3. Now # 0 BY <2>4, <1>11
    <3> QED BY <3>1, <3>2, <3>3, <2>1, <2>2, <2>4, <1>1, <1>12, <1>14
  <2>5. CASE c \notin X
    <3>1. edge'[c] = edge[c] BY <2>5, <1>15
    <3>2. Due(c)' = Due(c) /\ Due(d)' = Due(d) BY <3>1, <2>2 DEF Due
    <3>3. edge[d].ran = 0 /\ edge[c].ran = 1 =>
            {Due(c), Due(d)} \in SUBSET (Entries(q) \ {q[1]})
      <4> SUFFICES ASSUME edge[d].ran = 0, edge[c].ran = 1
                   PROVE  {Due(c), Due(d)} \in SUBSET (Entries(q) \ {q[1]})
        OBVIOUS
      <4>1. Due(c) \in Entries(q) /\ Due(d) \in Entries(q) BY <2>1 DEF SInv, DeltasDue
      <4>2. Due(c).what = c /\ Due(d).what = d BY DEF Due
      <4> QED BY <4>1, <4>2, <2>1, <1>6
    <3>4. \A a, b \in Entries(q) \ {q[1]} : Before(q, a, b) => Before(w, a, b)
      BY DEF Advances
    <3> QED BY <3>1, <3>2, <3>3, <3>4, <2>2, <2>3
  <2> QED BY <2>4, <2>5
<1>25. OneBehind(w)' BY <1>24 DEF OneBehind
<1> QED BY <1>19, <1>20, <1>21, <1>22, <1>23, <1>25 DEF SInv

(* The step of a clock keeps it.                                           *)
LEMMA ClockKeeps ==
  ASSUME NEW q, Queue(pool, q, W), SInv(q), NEW c \in Clocks,
         ~Ended, q[1] = Due(c), edge[c].ran < 3, delta[c] = edge[c].ran,
         NEW X, ClockStep(c, X), NEW w,
         Advances(q, w, EdgesAt(X, Now) \cup (IF edge[c].ran = 2 THEN {} ELSE {Due(c)'})),
         edge[c].ran # 2 => \A e \in EdgesAt(X, Now) : Before(w, Due(c)', e)
  PROVE  SInv(w)'
<1> DEFINE A == EdgesAt(X, Now)
           E == IF edge[c].ran = 2 THEN {} ELSE {Due(c)'}
<1>1. /\ q[1] \in Entries(q) /\ Now = q[1].at /\ Now \in Nat
      /\ cur_time <= EndTime /\ cur_time <= Now
      /\ \A a \in Entries(q) : Now <= a.at
  BY TheFirst
<1>2. cur_time' = Now /\ level' = level BY DEF ClockStep
<1>3. Types BY DEF SInv
<1>4. cur_time \in Nat BY <1>3 DEF Types
<1>5. \A a \in Entries(q) : a.at \in Nat /\ a.what \in W BY InW
<1>6. c \notin Forever /\ Forever \cap Clocks = {} BY NamesApart
<1>7. Entries(w) = (Entries(q) \ {q[1]}) \cup (A \cup E) BY DEF Advances
<1>8. q[1].what = c /\ \A a \in Entries(q) : a # q[1] => a.what # c BY DEF Advances, Due
<1>9. X \in SUBSET ToSet(Derived[c]) /\ X \in SUBSET Clocks /\ c \notin X
      /\ (X # {} => edge[c].ran = 0)
  BY DerivedOnce DEF ClockStep
<1>10. \A x \in Clocks : edge[x].at \in Nat /\ edge[x].ran \in 0 .. 3 BY <1>3 DEF Types
<1>11. Now = edge[c].at + edge[c].ran + 1 /\ edge[c].at # 0
  <2>1. edge[c].at # 0 BY <1>10 DEF SInv, EdgesPast
  <2> QED BY <2>1, <1>1 DEF Due
<1>12. \A x \in X : edge[x].ran = 3 /\ \A a \in Entries(q) : a.what # x
  <2> TAKE x \in X
  <2>1. edge[x].ran = 3 BY <1>9 DEF SInv, OneBehind
  <2> QED BY <2>1, <1>9 DEF SInv, DeltasDue
<1>13. \A x \in Clocks : edge'[x] = IF x = c THEN [at |-> edge[c].at, ran |-> edge[c].ran + 1]
                                    ELSE IF x \in X THEN [at |-> Now, ran |-> 0] ELSE edge[x]
  BY DEF ClockStep
<1>14. edge'[c].at = edge[c].at /\ edge'[c].ran = edge[c].ran + 1 BY <1>13
<1>15. \A x \in X : edge'[x].at = Now /\ edge'[x].ran = 0 BY <1>9, <1>13
<1>16. \A x \in Clocks : x # c /\ x \notin X => edge'[x] = edge[x] BY <1>13
<1>17. \A a \in A : a.at = Now + 1 /\ a.what \in X BY DEF EdgesAt
<1>18. \A x \in X : [at |-> Now + 1, what |-> x] \in A BY DEF EdgesAt
<1>19. Due(c)' = [at |-> Now + 1, what |-> c]
  <2>1. Due(c)' = [at |-> edge'[c].at + edge'[c].ran + 1, what |-> c] BY DEF Due
  <2>2. edge'[c].at + edge'[c].ran + 1 = Now + 1 BY <1>10, <1>11, <1>14
  <2> QED BY <2>1, <2>2
<1>20. \A x \in X : Due(x)' = [at |-> Now + 1, what |-> x]
  <2> TAKE x \in X
  <2>1. Due(x)' = [at |-> edge'[x].at + edge'[x].ran + 1, what |-> x] BY DEF Due
  <2>2. edge'[x].at + edge'[x].ran + 1 = Now + 1 BY <1>1, <1>15
  <2> QED BY <2>1, <2>2
<1>21. \A a \in E : a.at = Now + 1 /\ a.what = c BY <1>19
<1> HIDE DEF A, E
<1>22. Types'
  <2>1. level' \in [Forever -> {0, 1}] BY <1>2, <1>3 DEF Types
  <2>2. val' \in [Clocks -> {0, 1}] BY <1>3 DEF Types, ClockStep
  <2>3. delta[c] + 1 \in 0 .. 3 BY <1>3, <1>10 DEF Types
  <2>4. delta' \in [Clocks -> 0 .. 3] BY <2>3, <1>3 DEF Types, ClockStep
  <2>5. edge' \in [Clocks -> [at : Nat, ran : 0 .. 3]]
    <3>1. [at |-> Now, ran |-> 0] \in [at : Nat, ran : 0 .. 3] BY <1>1
    <3>2. edge[c].ran + 1 \in 0 .. 3 BY <1>10
    <3>3. [at |-> edge[c].at, ran |-> edge[c].ran + 1] \in [at : Nat, ran : 0 .. 3]
      BY <3>2, <1>10
    <3> QED BY <3>1, <3>3, <1>3 DEF Types, ClockStep
  <2> QED BY <2>1, <2>2, <2>4, <2>5, <1>1, <1>2 DEF Types
<1>23. NotPast(w)'
  <2> SUFFICES ASSUME NEW a \in Entries(w) PROVE a.at >= Now BY <1>2 DEF NotPast
  <2>1. CASE a \in Entries(q) BY <2>1, <1>1, <1>5
  <2>2. CASE a \in A \cup E BY <2>2, <1>1, <1>17, <1>21
  <2> QED BY <2>1, <2>2, <1>7
<1>24. DeltasDue(w)'
  <2> SUFFICES ASSUME NEW b \in Clocks
               PROVE  IF edge'[b].ran < 3 THEN Due(b)' \in Entries(w) /\ delta'[b] = edge'[b].ran
                      ELSE \A a \in Entries(w) : a.what # b
    BY DEF DeltasDue
  <2>1. CASE b = c
    <3>1. delta'[c] = edge'[c].ran BY <1>14 DEF ClockStep
    <3>2. CASE edge[c].ran = 2
      <4>1. E = {} /\ edge'[c].ran = 3 BY <3>2, <1>14 DEF E
      <4>2. \A a \in Entries(w) : a.what # c BY <4>1, <1>7, <1>8, <1>9, <1>17
      <4> QED BY <4>1, <4>2, <2>1
    <3>3. CASE edge[c].ran # 2
      <4>1. Due(c)' \in E BY <3>3 DEF E
      <4>2. edge'[c].ran < 3 BY <3>3, <1>10, <1>14
      <4> QED BY <4>1, <4>2, <3>1, <2>1, <1>7
    <3> QED BY <3>2, <3>3
  <2>2. CASE b \in X
    <3>1. Due(b)' \in Entries(w) BY <2>2, <1>7, <1>18, <1>20
    <3>2. delta'[b] = 0 BY <2>2, <1>9 DEF ClockStep
    <3> QED BY <3>1, <3>2, <2>2, <1>15
  <2>3. CASE b # c /\ b \notin X
    <3>1. edge'[b] = edge[b] /\ delta'[b] = delta[b] BY <2>3, <1>16 DEF ClockStep
    <3>2. CASE edge[b].ran < 3
      <4>1. Due(b) \in Entries(q) /\ delta[b] = edge[b].ran BY <3>2 DEF SInv, DeltasDue
      <4>2. Due(b).what = b /\ Due(b)' = Due(b) BY <3>1 DEF Due
      <4>3. Due(b)' \in Entries(w) BY <4>1, <4>2, <2>3, <1>7, <1>8
      <4> QED BY <4>1, <4>3, <3>1, <3>2
    <3>3. CASE ~(edge[b].ran < 3)
      <4>1. \A a \in Entries(q) : a.what # b BY <3>3 DEF SInv, DeltasDue
      <4>2. \A a \in Entries(w) : a.what # b BY <4>1, <2>3, <1>7, <1>17, <1>21
      <4> QED BY <4>2, <3>1, <3>3
    <3> QED BY <3>2, <3>3
  <2> QED BY <2>1, <2>2, <2>3
<1>25. ProcessesDue(w)'
  <2>1. \A g \in Forever : \E a \in Entries(w) : a.what = g
    <3> TAKE g \in Forever
    <3>1. PICK a \in Entries(q) : a.what = g BY DEF SInv, ProcessesDue
    <3> QED BY <3>1, <1>6, <1>7, <1>8
  <2>2. ASSUME NEW a \in Entries(w), a.what \in Forever PROVE ProcessDue(a)'
    <3> SUFFICES /\ IF Never(a.what) THEN a.at \in {0, TimeMod - Shift}
                    ELSE a.at <= EndTime + (IF Now <= EndTime THEN Longest ELSE 2 * Longest)
                 /\ a.at = 0 => level'[a.what] = 0
                 /\ \A x \in Clocks : Feeds(a.what, x) =>
                      edge'[x].at = 0 \/ edge'[x].at + Shift <= a.at
      BY <1>2 DEF ProcessDue
    <3>1. a \in Entries(q) BY <2>2, <1>6, <1>7, <1>9, <1>17, <1>21
    <3>2. ProcessDue(a) BY <3>1, <2>2 DEF SInv, ProcessesDue
    <3>3. IF Never(a.what) THEN a.at \in {0, TimeMod - Shift}
          ELSE a.at <= EndTime + (IF Now <= EndTime THEN Longest ELSE 2 * Longest)
      <4>1. IF Never(a.what) THEN a.at \in {0, TimeMod - Shift} ELSE a.at <= EndTime + Longest
        BY <3>2, <1>1 DEF ProcessDue
      <4>2. a.at \in Nat BY <3>1, <1>5
      <4> QED BY <4>1, <4>2, Times
    <3>4. a.at = 0 => level'[a.what] = 0 BY <3>2, <1>2 DEF ProcessDue
    <3>5. ASSUME NEW x \in Clocks, Feeds(a.what, x)
          PROVE  edge'[x].at = 0 \/ edge'[x].at + Shift <= a.at
      <4>1. x \notin X BY <3>5, <2>2, <1>9, DerivedUnfed
      <4>2. edge'[x].at = edge[x].at BY <4>1, <1>14, <1>16
      <4> QED BY <4>2, <3>2, <3>5 DEF ProcessDue
    <3> QED BY <3>3, <3>4, <3>5
  <2> QED BY <2>1, <2>2 DEF ProcessesDue
<1>26. EdgesPast'
  <2>1. ASSUME NEW b \in Clocks
        PROVE  IF edge'[b].at = 0 THEN edge'[b].ran = 3 ELSE edge'[b].at + edge'[b].ran <= Now
    <3>1. CASE b = c BY <3>1, <1>10, <1>11, <1>14
    <3>2. CASE b \in X BY <3>2, <1>10, <1>11, <1>15
    <3>3. CASE b # c /\ b \notin X
      <4>1. IF edge[b].at = 0 THEN edge[b].ran = 3 ELSE edge[b].at + edge[b].ran <= cur_time
        BY DEF SInv, EdgesPast
      <4> QED BY <4>1, <3>3, <1>1, <1>4, <1>10, <1>16
    <3> QED BY <3>1, <3>2, <3>3
  <2>2. Now # 0 BY <1>10, <1>11
  <2> QED BY <2>1, <2>2, <1>2 DEF EdgesPast
<1>27. ASSUME NEW b \in Clocks, NEW d \in ToSet(Derived[b])
       PROVE  /\ IF edge'[b].at = 0 THEN edge'[d].at = 0 ELSE edge'[d].at <= edge'[b].at + 1
              /\ edge'[b].ran = 0 => edge'[d].ran = 3
              /\ edge'[d].at = edge'[b].at + 1 =>
                   /\ edge'[d].ran >= 1 => edge'[b].ran >= 2
                   /\ edge'[d].ran = 0 /\ edge'[b].ran = 1 => Before(w, Due(b)', Due(d)')
  <2>1. /\ d \in Clocks /\ d # b /\ ToSet(Derived[d]) = {}
        /\ \A a \in Clocks : d \in ToSet(Derived[a]) => a = b
    BY DerivedOnce
  <2>2. /\ IF edge[b].at = 0 THEN edge[d].at = 0 ELSE edge[d].at <= edge[b].at + 1
        /\ edge[b].ran = 0 => edge[d].ran = 3
        /\ edge[d].at = edge[b].at + 1 =>
             /\ edge[d].ran >= 1 => edge[b].ran >= 2
             /\ edge[d].ran = 0 /\ edge[b].ran = 1 => Before(q, Due(b), Due(d))
    BY DEF SInv, OneBehind
  <2>3. CASE b = c /\ d \in X
    <3>1. edge[c].ran = 0 BY <2>3, <1>9
    <3>2. Due(d)' \in A BY <2>3, <1>18, <1>20
    <3>3. Before(w, Due(c)', Due(d)') BY <3>1, <3>2 DEF A
    <3>4. edge'[d].at = edge'[c].at + 1 /\ edge'[d].ran = 0 /\ edge'[c].ran = 1
      BY <3>1, <2>3, <1>10, <1>11, <1>14, <1>15
    <3> QED BY <3>3, <3>4, <2>3, <1>10, <1>11, <1>14
  <2>4. CASE b = c /\ d \notin X
    <3>1. edge'[d] = edge[d] BY <2>1, <2>4, <1>16
    <3> QED BY <3>1, <2>1, <2>2, <2>4, <1>10, <1>14
  <2>5. CASE b # c /\ d = c
    <3>1. X = {} BY <2>1, <2>5, <1>9
    <3>2. edge'[b] = edge[b] BY <3>1, <2>5, <1>16
    <3>3. edge[b].ran # 0 BY <2>2, <2>5
    <3>4. edge[c].at = edge[b].at + 1 => edge[b].ran >= 2
      <4> SUFFICES ASSUME edge[c].at = edge[b].at + 1, edge[b].ran = 1 PROVE FALSE
        BY <3>3, <1>10
      <4>1. Before(q, Due(b), q[1]) BY <2>2, <2>5, <1>10
      <4>2. Due(b) \in Entries(q) BY DEF SInv, DeltasDue
      <4>3. Due(b) # q[1] BY <2>5, <1>8 DEF Due
      <4> QED BY <4>1, <4>2, <4>3 DEF Advances
    <3> QED BY <3>2, <3>3, <3>4, <2>2, <2>5, <1>10, <1>14
  <2>6. CASE b # c /\ d # c
    <3>1. d \notin X BY <2>1, <2>6, <1>9
    <3>2. b \notin X
      <4> SUFFICES ASSUME b \in X PROVE FALSE OBVIOUS
      <4>1. ToSet(Derived[b]) = {} BY <1>9, DerivedOnce
      <4> QED BY <4>1
    <3>3. edge'[b] = edge[b] /\ edge'[d] = edge[d] BY <3>1, <3>2, <2>1, <2>6, <1>16
    <3>4. Due(b)' = Due(b) /\ Due(d)' = Due(d) BY <3>3 DEF Due
    <3>5. edge[d].ran = 0 /\ edge[b].ran = 1 =>
            {Due(b), Due(d)} \in SUBSET (Entries(q) \ {q[1]})
      <4> SUFFICES ASSUME edge[d].ran = 0, edge[b].ran = 1
                   PROVE  {Due(b), Due(d)} \in SUBSET (Entries(q) \ {q[1]})
        OBVIOUS
      <4>1. Due(b) \in Entries(q) /\ Due(d) \in Entries(q) BY <2>1 DEF SInv, DeltasDue
      <4>2. Due(b).what = b /\ Due(d).what = d BY DEF Due
      <4> QED BY <4>1, <4>2, <2>6, <1>8
    <3>6. \A x, y \in Entries(q) \ {q[1]} : Before(q, x, y) => Before(w, x, y)
      BY DEF Advances
    <3> QED BY <3>3, <3>4, <3>5, <3>6, <2>2
  <2> QED BY <2>3, <2>4, <2>5, <2>6
<1>28. OneBehind(w)' BY <1>27 DEF OneBehind
<1> QED BY <1>22, <1>23, <1>24, <1>25, <1>26, <1>28 DEF SInv

-----------------------------------------------------------------------------
(* The processes are all called at time 0.                                 *)
LEMMA ProcessesInOrder ==
  LET n == Cardinality(Forever)
      list == SetToSeq(Forever)
  IN /\ n \in Nat /\ list \in [1 .. n -> Forever]
     /\ \A i, j \in 1 .. n : list[i] = list[j] => i = j
     /\ \A f \in Forever : \E i \in 1 .. n : list[i] = f
<1> DEFINE n == Cardinality(Forever)
           Is(s) == s \in [1 .. n -> Forever] /\ IsInjective(s)
           list == SetToSeq(Forever)
<1>1. IsFiniteSet(Forever) BY SchedulerAssumption
<1>2. n \in Nat /\ ExistsBijection(1 .. n, Forever) BY <1>1, FS_CardinalityType
<1>3. \E s : Is(s) BY <1>2 DEF ExistsBijection, Bijection, Injection
<1>4. list = CHOOSE s \in [1 .. n -> Forever] : IsInjective(s) BY DEF SetToSeq
<1>5. Is(list)
  <2> HIDE DEF n, list
  <2> QED BY <1>3, <1>4
<1>6. list \in Injection(1 .. n, Forever) BY <1>5 DEF Injection
<1>7. Cardinality(1 .. n) = Cardinality(Forever) BY <1>2, FS_Interval
<1>8. list \in Surjection(1 .. n, Forever) BY <1>1, <1>6, <1>7, FS_Injection
<1> HIDE DEF list, n
<1>9. \A i, j \in 1 .. n : list[i] = list[j] => i = j BY <1>5 DEF IsInjective
<1>10. \A f \in Forever : \E i \in 1 .. n : list[i] = f BY <1>8 DEF Surjection
<1> QED BY <1>2, <1>5, <1>9, <1>10 DEF list, n

(* A queue of some names is one of more names.                             *)
LEMMA QueueOfFewer ==
  ASSUME NEW p, NEW q, NEW V, NEW U, V \in SUBSET U, Queue(p, q, V)
  PROVE  Queue(p, q, U)
<1>1. p \in Pools(U) BY DEF Queue, Pools, Names
<1>2. Named(q, U) BY DEF Queue, Named
<1> QED BY <1>1, <1>2 DEF Queue

(* At the start the queue has every process, at time 0.                    *)
LEMMA StartQueue ==
  \E q : /\ Queue(InitialEvents(SetToSeq(Forever)), q, Forever)
         /\ Entries(q) = {[at |-> 0, what |-> f] : f \in Forever}
<1> DEFINE n == Cardinality(Forever)
           list == SetToSeq(Forever)
           Is(h) == h = [s \in SUBSET DOMAIN list |->
                           IF s = {} THEN EmptyPool
                           ELSE CreateForever(h[s \ {Max(s)}], 0, list[Max(s)])]
           h == CHOOSE g : Is(g)
<1>1. /\ n \in Nat /\ list \in [1 .. n -> Forever]
      /\ \A i, j \in 1 .. n : list[i] = list[j] => i = j
      /\ \A f \in Forever : \E i \in 1 .. n : list[i] = f
  BY ProcessesInOrder
<1>2. InitialEvents(list) = h[DOMAIN list]
  BY DEF InitialEvents, FoldLeft, MapThenFoldSet
<1> HIDE DEF n, list
<1>3. ASSUME NEW g
      PROVE  Is(g) <=> IsFold(g, n, EmptyPool, 0, list, Forever, "process")
  <2>1. \A s \in SUBSET (1 .. n) : s # {} => Max(s) \in 1 .. n
    <3> TAKE s \in SUBSET (1 .. n)
    <3>1. s # {} => Max(s) \in s BY <1>1, HasMax
    <3> QED BY <3>1
  <2>2. \A s \in SUBSET (1 .. n) : s # {} => list[Max(s)] \in Forever BY <2>1, <1>1
  <2>3. \A p, t, x : Made(p, t, x, "process") = CreateForever(p, t, x) BY DEF Made
  <2>4. \A s \in SUBSET (1 .. n) :
          (IF s = {} THEN EmptyPool ELSE CreateForever(g[s \ {Max(s)}], 0, list[Max(s)])) =
          (IF s = {} THEN EmptyPool
           ELSE IF list[Max(s)] \in Forever
                THEN Made(g[s \ {Max(s)}], 0, list[Max(s)], "process")
           ELSE g[s \ {Max(s)}])
    BY <2>2, <2>3
  <2>5. DOMAIN list = 1 .. n BY <1>1
  <2> QED BY <2>4, <2>5 DEF IsFold
<1>4. \E g : Is(g)
  <2>1. PICK g : IsFold(g, n, EmptyPool, 0, list, Forever, "process") BY <1>1, HasFold
  <2> HIDE DEF Is
  <2>2. Is(g) BY <1>3, <2>1
  <2> QED BY <2>2
<1>5. Is(h)
  <2> HIDE DEF Is
  <2> QED BY <1>4
<1> HIDE DEF h, Is
<1>6. IsFold(h, n, EmptyPool, 0, list, Forever, "process") BY <1>3, <1>5
<1>7. PICK q : Queue(EmptyPool, q, Forever) /\ Entries(q) = {} BY EmptyQueue
<1>8. IsFiniteSet(Forever) /\ Cardinality(Forever) <= N - 1 /\ NoEvent \notin Forever
  <2>1. Cardinality(Clocks) \in Nat BY SchedulerAssumption, FS_CardinalityType
  <2> QED BY <2>1, <1>1, SchedulerAssumption, ClockTreeAssumption, PoolAssumption DEF n
<1>9. PICK u : /\ Queue(h[1 .. n], u, Forever)
               /\ Extends(q, u, News(0, list, Forever, n))
  BY <1>1, <1>6, <1>7, <1>8, AllJoin
<1>10. News(0, list, Forever, n) = {[at |-> 0, what |-> f] : f \in Forever}
  <2>1. \A i \in 1 .. n : list[i] \in Forever BY <1>1
  <2> QED BY <2>1, <1>1 DEF News
<1>11. Entries(u) = {[at |-> 0, what |-> f] : f \in Forever}
  BY <1>7, <1>9, <1>10 DEF Extends
<1>12. InitialEvents(list) = h[1 .. n] BY <1>1, <1>2
<1> QED BY <1>9, <1>11, <1>12 DEF list

(* The invariant holds at the start.                                       *)
LEMMA Starts == Init => SchedInv
<1> SUFFICES ASSUME Init PROVE SchedInv OBVIOUS
<1>1. PICK q : /\ Queue(pool, q, Forever)
               /\ Entries(q) = {[at |-> 0, what |-> f] : f \in Forever}
  BY StartQueue DEF Init
<1>2. Queue(pool, q, W) BY <1>1, QueueOfFewer DEF W
<1>3. Kinds BY <1>1 DEF Queue, Pools, Names, Kinds
<1>4. /\ cur_time = 0 /\ level = [f \in Forever |-> 0] /\ val = [c \in Clocks |-> 0]
      /\ delta = [c \in Clocks |-> 0] /\ edge = [c \in Clocks |-> [at |-> 0, ran |-> 3]]
  BY DEF Init
<1>5. \A a \in Entries(q) : a.at = 0 /\ a.what \in Forever BY <1>1
<1>6. \A c \in Clocks : edge[c].at = 0 /\ edge[c].ran = 3 BY <1>4
<1>7. Types
  <2>1. [at |-> 0, ran |-> 3] \in [at : Nat, ran : 0 .. 3] OBVIOUS
  <2> QED BY <2>1, <1>4 DEF Types
<1>8. NotPast(q) BY <1>4, <1>5 DEF NotPast
<1>9. DeltasDue(q)
  <2>1. \A c \in Clocks : c \notin Forever BY NamesApart
  <2> QED BY <2>1, <1>5, <1>6 DEF DeltasDue
<1>10. ProcessesDue(q)
  <2>1. ASSUME NEW f \in Forever PROVE \E a \in Entries(q) : a.what = f
    <3>1. [at |-> 0, what |-> f] \in Entries(q) BY <1>1
    <3>2. [at |-> 0, what |-> f].what = f OBVIOUS
    <3> QED BY <3>1, <3>2
  <2>2. ASSUME NEW a \in Entries(q) PROVE ProcessDue(a)
    <3>1. 0 <= EndTime + Longest /\ 0 <= EndTime + 2 * Longest BY Times
    <3>2. level[a.what] = 0 BY <1>4, <1>5
    <3> QED BY <3>1, <3>2, <1>4, <1>5, <1>6 DEF ProcessDue
  <2> QED BY <2>1, <2>2 DEF ProcessesDue
<1>11. EdgesPast BY <1>4, <1>6 DEF EdgesPast
<1>12. OneBehind(q)
  <2>1. \A c \in Clocks : \A d \in ToSet(Derived[c]) : d \in Clocks BY DerivedOnce
  <2> QED BY <2>1, <1>6 DEF OneBehind
<1> QED BY <1>2, <1>3, <1>7, <1>8, <1>9, <1>10, <1>11, <1>12 DEF SchedInv, SInv

(* Each step keeps it.                                                     *)
LEMMA Keeps == SchedInv /\ [Next]_vars => SchedInv'
<1> SUFFICES ASSUME SchedInv, [Next]_vars PROVE SchedInv' OBVIOUS
<1>1. PICK q : Queue(pool, q, W) /\ SInv(q) BY DEF SchedInv
<1>2. Kinds BY DEF SchedInv
<1>3. ASSUME NEW f \in Forever, RunForever(f) PROVE SchedInv'
  <2>1. ~Ended /\ q[1].what = f /\ Kinds' BY <1>1, <1>2, <1>3, ForeverAdvances
  <2>2. PICK w, t :
          /\ Queue(pool', w, W)
          /\ Advances(q, w, EdgesAt(Switched(f), Now) \cup {[at |-> t, what |-> f]})
          /\ IF Never(f) THEN t = TimeMod - Shift
             ELSE Now <= EndTime + Longest /\ t >= Now + Shift /\ t <= Now + Longest
    BY <1>1, <1>2, <1>3, ForeverAdvances
  <2>3. ForeverStep(f) BY <1>3, ForeverRuns
  <2>4. t \in Nat
    <3>1. [at |-> t, what |-> f] \in Entries(w) BY <2>2 DEF Advances
    <3>2. [at |-> t, what |-> f].at \in Nat BY <3>1, <2>2, InW
    <3> QED BY <3>2
  <2>5. SInv(w)' BY <1>1, <2>1, <2>2, <2>3, <2>4, ForeverKeeps
  <2> QED BY <2>1, <2>2, <2>5 DEF SchedInv
<1>4. ASSUME NEW c \in Clocks, RunProcesses(c) \/ RunFlops(c) \/ RunComb(c) PROVE SchedInv'
  <2>1. ~Ended /\ q[1] = Due(c) /\ edge[c].ran < 3 /\ delta[c] = edge[c].ran
    BY <1>1, <1>4, ClockRuns
  <2>2. PICK X, p : ClockStep(c, X) /\ Derives(c, X, p) /\ pool' = AfterDelta(p, Now, c)
    BY <1>1, <1>4, ClockRuns
  <2>3. Kinds' BY <1>1, <1>2, <2>1, <2>2, ClockAdvances
  <2>4. PICK w :
          /\ Queue(pool', w, W)
          /\ Advances(q, w, EdgesAt(X, Now) \cup (IF edge[c].ran = 2 THEN {} ELSE {Due(c)'}))
          /\ edge[c].ran # 2 => \A e \in EdgesAt(X, Now) : Before(w, Due(c)', e)
    BY <1>1, <1>2, <2>1, <2>2, ClockAdvances
  <2>5. SInv(w)' BY <1>1, <2>1, <2>2, <2>4, ClockKeeps
  <2> QED BY <2>3, <2>4, <2>5 DEF SchedInv
<1>5. CASE UNCHANGED vars
  <2>1. SInv(q)'
    BY <1>1, <1>5 DEF vars, SInv, Types, NotPast, DeltasDue, ProcessesDue, ProcessDue, EdgesPast,
       OneBehind, Due
  <2> QED BY <2>1, <1>1, <1>2, <1>5 DEF vars, SchedInv, Kinds
<1> QED BY Zenon, <1>3, <1>4, <1>5 DEF Next

-----------------------------------------------------------------------------
(* The pool never hands out a pending slot (scheduler2.h:80).              *)
THEOREM SlotsArePartitioned == Spec => []SlotsPartition
<1>1. SchedInv => SlotsPartition BY QueuePartition DEF SchedInv, SlotsPartition
<1> QED BY <1>1, Starts, Keeps, PTL DEF Spec

(* Clocks with an edge at the same time run delta by delta together: no    *)
(* flip-flop of one changes before the processes of the other have read it *)
(* (scheduler2.h:288).                                                     *)
THEOREM EdgesRunTogether == Spec => []SameEdgeTogether
<1>1. SchedInv => SameEdgeTogether
  <2> SUFFICES ASSUME SchedInv, NEW b \in Clocks, NEW c \in Clocks,
                      edge[b].at = edge[c].at, edge[b].ran >= 2, ~(edge[c].ran >= 1)
               PROVE  FALSE
    BY DEF SameEdgeTogether
  <2>1. PICK q : Queue(pool, q, W) /\ SInv(q) BY DEF SchedInv
  <2>2. /\ edge[b].at \in Nat /\ edge[b].ran \in 0 .. 3 /\ edge[c].ran \in 0 .. 3
        /\ cur_time \in Nat
    BY <2>1 DEF SInv, Types
  <2>3. edge[c].ran = 0 BY <2>2
  <2>4. Due(c) \in Entries(q) /\ edge[c].at # 0
    BY <2>1, <2>3 DEF SInv, DeltasDue, EdgesPast
  <2>5. edge[b].at + edge[b].ran <= cur_time BY <2>1, <2>4 DEF SInv, EdgesPast
  <2>6. Due(c).at = edge[c].at + edge[c].ran + 1 BY DEF Due
  <2>7. edge[c].at + edge[c].ran + 1 >= cur_time BY <2>1, <2>4, <2>6 DEF SInv, NotPast
  <2> QED BY <2>2, <2>3, <2>5, <2>7
<1> QED BY <1>1, Starts, Keeps, PTL DEF Spec

(* A derived clock is one delta behind its source: its processes see the   *)
(* flip-flops of the edge that made it, as new events are inserted in      *)
(* front of those of the same time (scheduler2.h:354).                     *)
THEOREM DerivedReadsSource == Spec => []DerivedSeesSource
<1>1. SchedInv => DerivedSeesSource BY DEF SchedInv, SInv, OneBehind, DerivedSeesSource
<1> QED BY <1>1, Starts, Keeps, PTL DEF Spec

(* A clock has no other edge before the three deltas of the last one have  *)
(* run: waits are scaled beyond the deltas (C_macros.h:359).               *)
THEOREM EdgesWaitForDeltas == Spec => DeltasComplete
<1> DEFINE Over == \A c \in Clocks : val'[c] # val[c] => edge[c].ran = 3
<1>1. SchedInv /\ Next => Over
  <2> SUFFICES ASSUME SchedInv, Next, NEW x \in Clocks, val'[x] # val[x]
               PROVE  edge[x].ran = 3
    OBVIOUS
  <2>1. PICK q : Queue(pool, q, W) /\ SInv(q) BY DEF SchedInv
  <2>2. Kinds BY DEF SchedInv
  <2>3. ASSUME NEW f \in Forever, RunForever(f) PROVE edge[x].ran = 3
    <3>1. ~Ended /\ q[1].what = f BY <2>1, <2>2, <2>3, ForeverAdvances
    <3>2. ForeverStep(f) BY <2>3, ForeverRuns
    <3>3. x \in Fed(f) BY <3>2 DEF ForeverStep
    <3>4. Feeds(f, x) BY <3>3, FedFeeds
    <3> QED BY <3>1, <3>4, <2>1, FedIsOver
  <2>4. ASSUME NEW c \in Clocks, RunProcesses(c) \/ RunFlops(c) \/ RunComb(c)
        PROVE  edge[x].ran = 3
    <3>1. PICK X : ClockStep(c, X) BY <2>1, <2>4, ClockRuns
    <3>2. x \in X BY <3>1 DEF ClockStep
    <3>3. x \in ToSet(Derived[c]) /\ edge[c].ran = 0 BY <3>1, <3>2 DEF ClockStep
    <3> QED BY <3>3, <2>1 DEF SInv, OneBehind
  <2> QED BY Zenon, <2>3, <2>4 DEF Next
<1>2. SchedInv /\ [Next]_vars => [Over]_vars BY <1>1
<1> HIDE DEF Over
<1> QED BY <1>2, Starts, Keeps, PTL DEF Spec, DeltasComplete, Over

-----------------------------------------------------------------------------
(* The pending events of a pool.                                           *)
EventsOf(p) ==
  [k \in DOMAIN Pending(p) |-> Entry(p, Pending(p)[k])]

(* They are the queue of the invariant.                                    *)
LEMMA QueueOfEvents ==
  ASSUME NEW p, NEW q, Queue(p, q, W)
  PROVE  EventsOf(p) = q
<1> DEFINE n == p.in_use
<1>1. p \in Pools(W) BY DEF Queue
<1>2. PICK s : Ring(p, s) /\ q = [i \in 1 .. n |-> Entry(p, s[i])] BY DEF Queue, Stored
<1>3. Pending(p) = [k \in 1 .. n |-> s[k]] BY <1>1, <1>2, RingPending
<1> HIDE DEF n
<1>4. DOMAIN Pending(p) = 1 .. n /\ \A k \in 1 .. n : Pending(p)[k] = s[k] BY <1>3
<1> QED BY <1>2, <1>4 DEF EventsOf

(* They are in order, as SimQueue has it.                                  *)
LEMMA QueueInOrder ==
  ASSUME NEW p, NEW q, Queue(p, q, W)
  PROVE  Q!InOrder(q) /\ Q!ToSet(q) = Entries(q)
<1>1. DOMAIN q = 1 .. p.in_use /\ p.in_use \in 0 .. N - 1 BY QueueLength
<1>2. ASSUME NEW i \in DOMAIN q, NEW j \in DOMAIN q, i < j
      PROVE  q[i].at <= q[j].at /\ q[i].what # q[j].what
  <2>1. i # j BY <1>1, <1>2, PoolAssumption
  <2> QED BY <1>2, <2>1 DEF Queue, InTime, Distinct
<1> QED BY <1>2 DEF Q!InOrder, Q!ToSet, Entries

(* What Scheduler maps to SimQueue's queue.                                *)
LEMMA PendingIsQueue ==
  /\ \A q : Queue(pool, q, W) => PendingEvents = q
  /\ \A q : Queue(pool', q, W) => PendingEvents' = q
<1>1. PendingEvents = EventsOf(pool) BY DEF PendingEvents, EventsOf, What, Entry
<1>2. PendingEvents' = EventsOf(pool') BY DEF PendingEvents, EventsOf, What, Entry
<1> QED BY <1>1, <1>2, QueueOfEvents

(* A step that takes the first entry at its time and whose new events are  *)
(* for later is one of SimQueue.                                           *)
LEMMA AdvanceRuns ==
  ASSUME NEW q, Queue(pool, q, W), SInv(q), ~Ended, cur_time' = Now,
         NEW w, Queue(pool', w, W), NEW A, Advances(q, w, A), \A e \in A : e.at > Now
  PROVE  Q!Next
<1>1. /\ q[1] \in Entries(q) /\ Now = q[1].at /\ cur_time <= q[1].at
      /\ DOMAIN q = 1 .. pool.in_use /\ pool.in_use \in Nat /\ pool.in_use # 0
  BY TheFirst
<1>2. PendingEvents = q /\ PendingEvents' = w BY PendingIsQueue
<1>3. /\ Q!ToSet(q) = Entries(q) /\ Q!ToSet(w) = Entries(w) /\ Q!InOrder(w)
  BY QueueInOrder
<1>4. q # <<>> BY <1>1
<1>5. cur_time' = q[1].at /\ cur_time' >= cur_time
  <2>1. cur_time \in Nat /\ q[1].at \in Nat BY TheFirst DEF SInv, Types
  <2> QED BY <2>1, <1>1
<1>6. Q!Adds(q, w, Q!ToSet(q) \ {q[1]}, cur_time')
  <2> DEFINE rest == Entries(q) \ {q[1]}
  <2>1. Entries(w) = rest \cup A BY DEF Advances
  <2>2. \A a, b \in rest : Q!Before(q, a, b) => Q!Before(w, a, b)
    BY DEF Advances, Q!Before, Before
  <2>3. ASSUME NEW e \in Entries(w) \ rest
        PROVE  e.at > cur_time' /\ \A a \in rest : a.at >= e.at => Q!Before(w, e, a)
    <3>1. e \in A BY <2>1, <2>3
    <3> QED BY <3>1 DEF Advances, Q!Before, Before
  <2> QED BY <1>3, <2>1, <2>2, <2>3 DEF Q!Adds
<1> QED BY <1>2, <1>3, <1>4, <1>5, <1>6 DEF Q!Next

(* Each step of the simulator is one of SimQueue.                          *)
LEMMA StepsInOrder == SchedInv /\ Next => Q!Next
<1> SUFFICES ASSUME SchedInv, Next PROVE Q!Next OBVIOUS
<1>1. PICK q : Queue(pool, q, W) /\ SInv(q) BY DEF SchedInv
<1>2. Kinds BY DEF SchedInv
<1>3. ~Ended => Now \in Nat /\ Now <= q[1].at /\ q[1].at = Now BY <1>1, TheFirst
<1>4. \A X : \A e \in EdgesAt(X, Now) : e.at = Now + 1 BY DEF EdgesAt
<1>5. ASSUME NEW f \in Forever, RunForever(f) PROVE Q!Next
  <2>1. ~Ended /\ q[1].what = f BY <1>1, <1>2, <1>5, ForeverAdvances
  <2>2. PICK w, t :
          /\ Queue(pool', w, W)
          /\ Advances(q, w, EdgesAt(Switched(f), Now) \cup {[at |-> t, what |-> f]})
          /\ IF Never(f) THEN t = TimeMod - Shift
             ELSE Now <= EndTime + Longest /\ t >= Now + Shift /\ t <= Now + Longest
    BY <1>1, <1>2, <1>5, ForeverAdvances
  <2>3. cur_time' = Now BY <1>5, ForeverRuns DEF ForeverStep
  <2>4. t \in Nat
    <3>1. [at |-> t, what |-> f] \in Entries(w) BY <2>2 DEF Advances
    <3>2. [at |-> t, what |-> f].at \in Nat BY <3>1, <2>2, InW
    <3> QED BY <3>2
  <2>5. t > Now
    <3>1. CASE Never(f)
      <4>1. Now = 0 BY <1>1, <1>3, <2>1, <3>1, FirstWakes
      <4> QED BY <4>1, <3>1, <2>2, <2>4, Times
    <3>2. CASE ~Never(f) BY <3>2, <2>1, <2>2, <2>4, <1>3, Times
    <3> QED BY <3>1, <3>2
  <2>6. \A e \in EdgesAt(Switched(f), Now) \cup {[at |-> t, what |-> f]} : e.at > Now
    BY <2>1, <2>5, <1>3, <1>4
  <2> QED BY <1>1, <2>1, <2>2, <2>3, <2>6, AdvanceRuns
<1>6. ASSUME NEW c \in Clocks, RunProcesses(c) \/ RunFlops(c) \/ RunComb(c) PROVE Q!Next
  <2>1. ~Ended /\ q[1] = Due(c) /\ edge[c].ran < 3 /\ delta[c] = edge[c].ran
    BY <1>1, <1>6, ClockRuns
  <2>2. PICK X, p : ClockStep(c, X) /\ Derives(c, X, p) /\ pool' = AfterDelta(p, Now, c)
    BY <1>1, <1>6, ClockRuns
  <2>3. PICK w :
          /\ Queue(pool', w, W)
          /\ Advances(q, w, EdgesAt(X, Now) \cup (IF edge[c].ran = 2 THEN {} ELSE {Due(c)'}))
    BY <1>1, <1>2, <2>1, <2>2, ClockAdvances
  <2>4. Due(c)'.at > Now
    <3>1. edge[c].at \in Nat /\ edge[c].ran \in 0 .. 3 /\ edge \in [Clocks -> [at : Nat, ran : 0 .. 3]]
      BY <1>1 DEF SInv, Types
    <3>2. Now = edge[c].at + edge[c].ran + 1 BY <2>1, <1>3 DEF Due
    <3>3. edge'[c] = [at |-> edge[c].at, ran |-> edge[c].ran + 1] BY <2>2 DEF ClockStep
    <3>4. Due(c)'.at = edge[c].at + (edge[c].ran + 1) + 1 BY <3>3 DEF Due
    <3> QED BY <3>1, <3>2, <3>4
  <2>5. \A e \in EdgesAt(X, Now) \cup (IF edge[c].ran = 2 THEN {} ELSE {Due(c)'}) : e.at > Now
    BY <2>1, <2>4, <1>3, <1>4
  <2>6. cur_time' = Now BY <2>2 DEF ClockStep
  <2> QED BY <1>1, <2>1, <2>3, <2>5, <2>6, AdvanceRuns
<1> QED BY Zenon, <1>5, <1>6 DEF Next

(* The queue of the simulator starts as SimQueue's.                        *)
LEMMA StartsInOrder == Init => Q!Init
<1> SUFFICES ASSUME Init PROVE Q!Init OBVIOUS
<1>1. PICK q : /\ Queue(pool, q, Forever)
               /\ Entries(q) = {[at |-> 0, what |-> f] : f \in Forever}
  BY StartQueue DEF Init
<1>2. Queue(pool, q, W) BY <1>1, QueueOfFewer DEF W
<1>3. PendingEvents = q BY <1>2, PendingIsQueue
<1>4. Q!InOrder(q) /\ Q!ToSet(q) = Entries(q) BY <1>2, QueueInOrder
<1>5. \A e \in Entries(q) : e.at = 0 BY <1>1
<1> QED BY <1>3, <1>4, <1>5 DEF Init, Q!Init

(* The pool is a queue of timed events (scheduler2.h:354): each runs once, *)
(* at its time, the newest of the same time first, and time never goes     *)
(* back.                                                                   *)
THEOREM EventsRunInOrder == Spec => RunsInOrder
<1>1. SchedInv /\ [Next]_vars => [Q!Next]_<<cur_time, PendingEvents>>
  <2>1. CASE Next BY <2>1, StepsInOrder
  <2>2. CASE UNCHANGED vars
    <3>1. PendingEvents' = PendingEvents BY <2>2 DEF vars, PendingEvents, What
    <3> QED BY <3>1, <2>2 DEF vars
  <2> QED BY <2>1, <2>2
<1> QED BY <1>1, Starts, Keeps, StartsInOrder, PTL DEF Spec, RunsInOrder, Q!Spec
=============================================================================
