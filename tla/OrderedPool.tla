----------------------------- MODULE OrderedPool -----------------------------
(***************************************************************************)
(* The worker pool that PartitionPool and ConsumerPool both implement: one *)
(* mpsc channel into a dispatcher, which hands requests round robin to     *)
(* worker tasks with channels of their own.  Each task carries the         *)
(* receiving end of the oneshot that the task dispatched before it will    *)
(* signal, and a worker parks on it before it starts.                      *)
(*                                                                         *)
(* Tasks are numbered by the dispatcher, from 1: the number of a task is   *)
(* also the name of its completion oneshot, and 0 stands for None.         *)
(*                                                                         *)
(* The dispatcher's recv and the send that follows it are one step, so the *)
(* task in the dispatcher's hand counts as one more place of the channel.  *)
(***************************************************************************)
EXTENDS Naturals, Sequences

CONSTANTS
  Request,      \* what the pool is asked to do
  WorkerCount,  \* worker tasks (4 in the broker)
  QueueCap,     \* capacity of the pool's channel (1024)
  WorkerCap     \* capacity of each worker's channel (256)

ASSUME PoolAssumption ==
  /\ WorkerCount \in Nat \ {0}
  /\ QueueCap \in Nat \ {0}
  /\ WorkerCap \in Nat \ {0}

VARIABLES
  queue,        \* the pool's channel
  tasks,        \* every task the dispatcher made, by number
  nextWorker,   \* the dispatcher's next_worker
  workerQueue,  \* each worker's channel: task numbers
  worker,       \* what each worker task is doing
  signalled,    \* the completion oneshots that have been sent
  started       \* history: task numbers in the order their work began

vars == <<queue, tasks, nextWorker, workerQueue, worker, signalled, started>>

Worker == 0 .. WorkerCount - 1
Task == [request : Request, previous : Nat]

Idle == [phase |-> "idle", task |-> 0]

TypeOK ==
  /\ queue \in Seq(Request)
  /\ tasks \in Seq(Task)
  /\ nextWorker \in Worker
  /\ workerQueue \in [Worker -> Seq(Nat)]
  /\ worker \in [Worker -> [phase : {"idle", "parked", "busy"}, task : Nat]]
  /\ signalled \in SUBSET Nat
  /\ started \in Seq(Nat)

Init ==
  /\ queue = <<>>
  /\ tasks = <<>>
  /\ nextWorker = 0
  /\ workerQueue = [w \in Worker |-> <<>>]
  /\ worker = [w \in Worker |-> Idle]
  /\ signalled = {}
  /\ started = <<>>

----------------------------------------------------------------------------
(* sender.send(request): suspends while the channel is full. *)
Submit(r) ==
  /\ Len(queue) < QueueCap
  /\ queue' = Append(queue, r)
  /\ UNCHANGED <<tasks, nextWorker, workerQueue, worker, signalled, started>>

(* Two bugs to tell apart: the dispatcher hands out the oneshot of the task
   before the previous one, or stores the new receiver before it takes the
   old one, so that a task waits on its own oneshot. *)
PreviousSignalOneLate == IF Len(tasks) = 0 THEN 0 ELSE Len(tasks) - 1
PreviousSignalOwn == Len(tasks) + 1

(* The oneshot the next task will wait on: previous_signal.take(), set to
   the completion receiver of the task before. *)
PreviousSignal == Len(tasks)

(* A bug to tell apart: the round robin runs one past the last worker. *)
NextInTurnOnePast == (nextWorker + 1) % (WorkerCount + 1)

NextInTurn == (nextWorker + 1) % WorkerCount

Dispatch ==
  /\ queue # <<>>
  /\ Len(workerQueue[nextWorker]) < WorkerCap
  /\ tasks' = Append(tasks, [request |-> Head(queue), previous |-> PreviousSignal])
  /\ queue' = Tail(queue)
  /\ workerQueue' = [workerQueue EXCEPT ![nextWorker] = Append(@, Len(tasks) + 1)]
  /\ nextWorker' = NextInTurn
  /\ UNCHANGED <<worker, signalled, started>>

(* worker_receiver.recv(): the task is now parked on its previous_signal. *)
Receive(w) ==
  /\ worker[w].phase = "idle"
  /\ workerQueue[w] # <<>>
  /\ worker' = [worker EXCEPT ![w] = [phase |-> "parked", task |-> Head(workerQueue[w])]]
  /\ workerQueue' = [workerQueue EXCEPT ![w] = Tail(@)]
  /\ UNCHANGED <<queue, tasks, nextWorker, signalled, started>>

(* previous_signal.await returned, or there was none to wait for. *)
Awaited(w) ==
  LET previous == tasks[worker[w].task].previous
  IN  previous = 0 \/ previous \in signalled

(* A bug to tell apart: the completion oneshot is sent when work begins. *)
BeginAndSignal(w) ==
  /\ worker[w].phase = "parked"
  /\ Awaited(w)
  /\ worker' = [worker EXCEPT ![w].phase = "busy"]
  /\ started' = Append(started, worker[w].task)
  /\ signalled' = signalled \cup {worker[w].task}
  /\ UNCHANGED <<queue, tasks, nextWorker, workerQueue>>

Begin(w) ==
  /\ worker[w].phase = "parked"
  /\ Awaited(w)
  /\ worker' = [worker EXCEPT ![w].phase = "busy"]
  /\ started' = Append(started, worker[w].task)
  /\ UNCHANGED <<queue, tasks, nextWorker, workerQueue, signalled>>

(* completion_signal.send(()): wakes the next task and takes another. *)
Complete(w) ==
  /\ worker[w].phase = "busy"
  /\ signalled' = signalled \cup {worker[w].task}
  /\ worker' = [worker EXCEPT ![w] = Idle]
  /\ UNCHANGED <<queue, tasks, nextWorker, workerQueue, started>>

PoolStep ==
  \/ Dispatch
  \/ \E w \in Worker : Receive(w) \/ Begin(w) \/ Complete(w)

Next == PoolStep \/ \E r \in Request : Submit(r)

(* Every tokio task of the pool runs again whenever it can; nothing obliges
   a caller to submit. *)
Fairness ==
  /\ WF_vars(Dispatch)
  /\ \A w \in Worker :
       /\ WF_vars(Receive(w))
       /\ WF_vars(Begin(w))
       /\ WF_vars(Complete(w))

Spec == Init /\ [][Next]_vars
FairSpec == Spec /\ Fairness

----------------------------------------------------------------------------
(* Every request the pool accepted, oldest first: those dispatched and, after
   them, those still in the channel. *)
Accepted ==
  [i \in 1 .. Len(tasks) + Len(queue) |->
     IF i <= Len(tasks) THEN tasks[i].request ELSE queue[i - Len(tasks)]]

Busy(w) == worker[w].phase = "busy"

(* The requests whose work has begun, and how many of them are done. *)
Started == [i \in 1 .. Len(started) |-> tasks[started[i]].request]
Finished == IF \E w \in Worker : Busy(w) THEN Len(started) - 1 ELSE Len(started)

(* The chain of oneshots lets one worker work at a time, although the pool
   has WorkerCount of them (partition_worker.rs:61, "Wait for the previous
   partition request to finish its write"). *)
OneAtATime == \A v, w \in Worker : Busy(v) /\ Busy(w) => v = w

(* Work begins in the order in which the pool accepted it, and nothing is
   begun twice or skipped, although requests are spread over workers that
   run in parallel. *)
InOrder == \A i \in DOMAIN started : started[i] = i

(* The pool implements the serial executor: requests start in the order they
   were accepted, each after the one before it has finished. *)
Serial ==
  INSTANCE SerialExecutor WITH accepted <- Accepted, started <- Started, finished <- Finished

ImplementsSerialExecutor == Serial!Spec

----------------------------------------------------------------------------
(* The chain of oneshots, in full: what every step preserves, and why the two
   invariants above hold. *)
InHand(w) == worker[w].phase # "idle"

Linked == \A i \in DOMAIN tasks : tasks[i].previous = i - 1

(* Whatever waits, in a channel or parked, is yet to start. *)
Waiting ==
  /\ Len(started) <= Len(tasks)
  /\ \A w \in Worker :
       /\ \A k \in DOMAIN workerQueue[w] :
            workerQueue[w][k] \in Len(started) + 1 .. Len(tasks)
       /\ worker[w].phase = "parked" =>
            worker[w].task \in Len(started) + 1 .. Len(tasks)

(* A task is in one place: one channel position or one worker's hand. *)
OnePlace ==
  \A v, w \in Worker :
    /\ \A j \in DOMAIN workerQueue[v], k \in DOMAIN workerQueue[w] :
         workerQueue[v][j] = workerQueue[w][k] => v = w /\ j = k
    /\ InHand(v) /\ InHand(w) /\ worker[v].task = worker[w].task => v = w
    /\ \A k \in DOMAIN workerQueue[w] :
         InHand(v) => worker[v].task # workerQueue[w][k]

(* The busy worker has the newest started task; every other started task has
   sent its oneshot. *)
Chain ==
  /\ \A w \in Worker : Busy(w) => worker[w].task = Len(started) /\ started # <<>>
  /\ signalled = IF \E w \in Worker : Busy(w) THEN 1 .. Len(started) - 1
                                             ELSE 1 .. Len(started)

IInv == TypeOK /\ Linked /\ Waiting /\ OnePlace /\ Chain /\ InOrder
=============================================================================
