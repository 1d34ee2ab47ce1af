---------------------------- MODULE MCOrderedPool ----------------------------
(* OrderedPool on a small instance: callers submit at most MaxSubmitted      *)
(* requests.                                                                 *)
EXTENDS OrderedPool

CONSTANT MaxSubmitted

MCSubmit ==
  /\ Len(tasks) + Len(queue) < MaxSubmitted
  /\ \E r \in Request : Submit(r)

(* Everything submitted is done: the pool waits for its next request. *)
Quiescent ==
  /\ Len(tasks) + Len(queue) = MaxSubmitted
  /\ signalled = 1 .. MaxSubmitted
  /\ \A w \in Worker : worker[w] = Idle
  /\ UNCHANGED vars

MCNext == MCSubmit \/ PoolStep \/ Quiescent

MCSpec == Init /\ [][MCNext]_vars
MCFairSpec == MCSpec /\ Fairness

(* Every request the pool accepted is eventually done, with no help from
   requests that come after it: the last link of the chain (partition_worker.rs,
   lines 194-203) does not wait for a next one. *)
EveryAcceptedCompletes ==
  \A i \in 1 .. MaxSubmitted : (i <= Len(Accepted)) ~> (i \in signalled)
=============================================================================
