------------------------------ MODULE SimQueue ------------------------------
(***************************************************************************)
(* What the simulator's event queue promises (implemented by Scheduler):   *)
(* events run one after the other, each once and at its time; of events of *)
(* the same time the newest runs first.  An event that runs creates events *)
(* for later only, so that time never goes back, and no process or clock   *)
(* waits twice.                                                            *)
(***************************************************************************)
EXTENDS Naturals, SequencesExt

VARIABLES now, queue   \* queue: what will run and when

Before(q, a, b) == \E i, j \in DOMAIN q : i < j /\ q[i] = a /\ q[j] = b

InOrder(q) ==
  \A i, j \in DOMAIN q : i < j => q[i].at <= q[j].at /\ q[i].what # q[j].what

Init == now = 0 /\ InOrder(queue) /\ \A e \in ToSet(queue) : e.at = 0

(* q has the events of old that are in rest, in their order, and others    *)
(* from after time t, each in front of those that are not earlier.         *)
Adds(old, q, rest, t) ==
  /\ rest \in SUBSET ToSet(q)
  /\ \A a, b \in rest : Before(old, a, b) => Before(q, a, b)
  /\ \A e \in ToSet(q) \ rest :
       e.at > t /\ \A a \in rest : a.at >= e.at => Before(q, e, a)

Next ==
  /\ queue # <<>>
  /\ \E old \in {queue}, q \in {queue'} :
       /\ now' = old[1].at /\ now' >= now
       /\ InOrder(q) /\ Adds(old, q, ToSet(old) \ {old[1]}, now')

Spec == Init /\ [][Next]_<<now, queue>>

=============================================================================
