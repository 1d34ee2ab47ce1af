--------------------------- MODULE SerialExecutor ---------------------------
(***************************************************************************)
(* What a worker pool of the broker promises to the code that feeds it:    *)
(* whatever the number of workers, requests start one at a time, in the    *)
(* order in which they were accepted, and none starts before the one       *)
(* before it has finished.  PartitionPool and ConsumerPool (module         *)
(* OrderedPool) implement this specification.                              *)
(***************************************************************************)
EXTENDS Naturals, Sequences

CONSTANT Request

VARIABLES
  accepted,   \* every request accepted so far, oldest first
  started,    \* every request that started, in the order they started
  finished    \* how many of them have finished

vars == <<accepted, started, finished>>

Init ==
  /\ accepted = <<>>
  /\ started = <<>>
  /\ finished = 0

Accept(r) ==
  /\ accepted' = Append(accepted, r)
  /\ UNCHANGED <<started, finished>>

Start ==
  /\ finished = Len(started)
  /\ Len(started) < Len(accepted)
  /\ started' = Append(started, accepted[Len(started) + 1])
  /\ UNCHANGED <<accepted, finished>>

Finish ==
  /\ finished < Len(started)
  /\ finished' = finished + 1
  /\ UNCHANGED <<accepted, started>>

Next == (\E r \in Request : Accept(r)) \/ Start \/ Finish

Spec == Init /\ [][Next]_vars
=============================================================================
