-------------------------- MODULE OrderedPoolProofs --------------------------
(***************************************************************************)
(* Theorems about OrderedPool, for any number of workers, any capacities   *)
(* and any set of requests.  IInv is inductive; OneAtATime and InOrder     *)
(* follow from it.                                                         *)
(***************************************************************************)
EXTENDS OrderedPool, SequenceTheorems, TLAPS

USE PoolAssumption

(* The empty pool satisfies the invariant. *)
LEMMA InitIInv == Init => IInv
  BY DEF Init, IInv, TypeOK, Linked, Waiting, OnePlace, Chain, InOrder, Worker, Idle, InHand, Busy

----------------------------------------------------------------------------
(* A request that joins the channel touches nothing the invariant speaks of. *)
LEMMA SubmitIInv == IInv /\ (\E r \in Request : Submit(r)) => IInv'
<1> SUFFICES ASSUME IInv, NEW r \in Request, Submit(r)
             PROVE  IInv'
  OBVIOUS
<1> USE DEF IInv, Submit
<1>1. TypeOK'
  BY AppendProperties DEF TypeOK
<1>2. Linked' /\ Waiting' /\ OnePlace' /\ Chain' /\ InOrder'
  BY DEF Linked, Waiting, OnePlace, Chain, InOrder, InHand, Busy
<1> QED
  BY <1>1, <1>2

(* The dispatcher links the new task to the one before and puts it in one place. *)
LEMMA DispatchIInv == IInv /\ Dispatch => IInv'
<1> SUFFICES ASSUME IInv, Dispatch
             PROVE  IInv'
  OBVIOUS
<1> DEFINE n == Len(tasks)
           new == [request |-> Head(queue), previous |-> n]
<1>1. /\ n \in Nat /\ tasks' = Append(tasks, new)
      /\ new \in Task
      /\ tasks' \in Seq(Task) /\ Len(tasks') = n + 1
      /\ \A i \in 1 .. n : tasks'[i] = tasks[i]
      /\ tasks'[n + 1] = new
  BY AppendProperties DEF IInv, TypeOK, Dispatch, PreviousSignal, Task
<1>2. /\ nextWorker \in Worker
      /\ workerQueue[nextWorker] \in Seq(Nat)
      /\ workerQueue' = [workerQueue EXCEPT ![nextWorker] = Append(@, n + 1)]
  BY DEF IInv, TypeOK, Dispatch
<1>3. /\ workerQueue' \in [Worker -> Seq(Nat)]
      /\ \A w \in Worker : \A k \in DOMAIN workerQueue'[w] :
           \/ /\ k \in DOMAIN workerQueue[w]
              /\ workerQueue'[w][k] = workerQueue[w][k]
           \/ /\ w = nextWorker
              /\ k = Len(workerQueue[w]) + 1
              /\ workerQueue'[w][k] = n + 1
  BY <1>1, <1>2, AppendProperties DEF IInv, TypeOK
<1>4. TypeOK'
  <2>1. queue' \in Seq(Request)
    BY HeadTailProperties DEF IInv, TypeOK, Dispatch
  <2>2. nextWorker' \in Worker
    BY DEF IInv, TypeOK, Dispatch, NextInTurn, Worker
  <2> QED
    BY <1>1, <1>3, <2>1, <2>2 DEF IInv, TypeOK, Dispatch
<1>5. Linked'
  BY <1>1 DEF IInv, Linked, TypeOK
<1>6. Waiting'
  BY <1>1, <1>3 DEF IInv, Waiting, TypeOK, Dispatch
<1>7. OnePlace'
  <2>1. \A v \in Worker : InHand(v) => worker[v].task \in Nat /\ worker[v].task <= n
    BY DEF IInv, TypeOK, Waiting, Chain, InHand, Busy
  <2>2. \A w \in Worker : \A k \in DOMAIN workerQueue[w] :
          workerQueue[w][k] \in Nat /\ workerQueue[w][k] <= n
    BY DEF IInv, TypeOK, Waiting
  <2>3. ASSUME NEW v \in Worker, NEW w \in Worker
        PROVE  /\ \A j \in DOMAIN workerQueue'[v], k \in DOMAIN workerQueue'[w] :
                    workerQueue'[v][j] = workerQueue'[w][k] => v = w /\ j = k
               /\ \A k \in DOMAIN workerQueue'[w] :
                    InHand(v) => worker[v].task # workerQueue'[w][k]
    <3>1. ASSUME NEW j \in DOMAIN workerQueue'[v], NEW k \in DOMAIN workerQueue'[w],
                 workerQueue'[v][j] = workerQueue'[w][k]
          PROVE  v = w /\ j = k
      <4>1. CASE workerQueue'[v][j] = n + 1
        <5>1. /\ v = nextWorker /\ j = Len(workerQueue[v]) + 1
              /\ w = nextWorker /\ k = Len(workerQueue[w]) + 1
          <6>1. workerQueue'[w][k] = n + 1
            BY <3>1, <4>1
          <6>2. \A u \in Worker : \A i \in DOMAIN workerQueue[u] : workerQueue[u][i] # n + 1
            BY <1>1, <2>2
          <6>3. v = nextWorker /\ j = Len(workerQueue[v]) + 1
            BY <1>3, <4>1, <6>2
          <6>4. w = nextWorker /\ k = Len(workerQueue[w]) + 1
            BY <1>3, <6>1, <6>2
          <6> QED
            BY <6>3, <6>4
        <5> QED
          BY <5>1
      <4>2. CASE workerQueue'[v][j] # n + 1
        <5>1. /\ j \in DOMAIN workerQueue[v] /\ workerQueue'[v][j] = workerQueue[v][j]
              /\ k \in DOMAIN workerQueue[w] /\ workerQueue'[w][k] = workerQueue[w][k]
          <6>1. workerQueue'[w][k] # n + 1
            BY <3>1, <4>2
          <6> QED
            BY <1>3, <4>2, <6>1
        <5>2. workerQueue[v][j] = workerQueue[w][k]
          BY <3>1, <5>1
        <5> QED
          BY <5>1, <5>2 DEF IInv, OnePlace
      <4> QED
        BY <4>1, <4>2
    <3>2. ASSUME NEW k \in DOMAIN workerQueue'[w], InHand(v)
          PROVE  worker[v].task # workerQueue'[w][k]
      BY <1>1, <1>3, <2>1, <3>2 DEF IInv, OnePlace
    <3> QED
      BY <3>1, <3>2
  <2> QED
    BY <2>3 DEF IInv, OnePlace, InHand, Dispatch
<1>8. Chain' /\ InOrder'
  BY DEF IInv, Chain, InOrder, Busy, Dispatch
<1> QED
  BY <1>4, <1>5, <1>6, <1>7, <1>8 DEF IInv

(* A worker takes the oldest task of its own channel. *)
LEMMA ReceiveIInv == ASSUME NEW w \in Worker PROVE IInv /\ Receive(w) => IInv'
<1> SUFFICES ASSUME IInv, Receive(w)
             PROVE  IInv'
  OBVIOUS
<1> DEFINE b == Len(started)
           n == Len(tasks)
           t == Head(workerQueue[w])
<1>1. /\ b \in Nat /\ n \in Nat
      /\ workerQueue[w] \in Seq(Nat)
      /\ workerQueue[w] # <<>>
      /\ t = workerQueue[w][1]
      /\ t \in b + 1 .. n
  BY DEF IInv, TypeOK, Receive, Waiting
<1>2. /\ workerQueue' \in [Worker -> Seq(Nat)]
      /\ \A k \in DOMAIN workerQueue'[w] :
           /\ k + 1 \in DOMAIN workerQueue[w]
           /\ k \in Nat \ {0}
           /\ workerQueue'[w][k] = workerQueue[w][k + 1]
      /\ \A v \in Worker : v # w => workerQueue'[v] = workerQueue[v]
  BY <1>1, HeadTailProperties DEF IInv, TypeOK, Receive
<1>3. /\ worker' \in [Worker -> [phase : {"idle", "parked", "busy"}, task : Nat]]
      /\ worker'[w] = [phase |-> "parked", task |-> t]
      /\ worker[w].phase = "idle"
      /\ \A v \in Worker : v # w => worker'[v] = worker[v]
  BY <1>1 DEF IInv, TypeOK, Receive
<1>4. TypeOK' /\ Linked' /\ InOrder'
  BY <1>2, <1>3 DEF IInv, TypeOK, Linked, InOrder, Receive
<1>5. Waiting'
  BY <1>1, <1>2, <1>3 DEF IInv, Waiting, Receive
<1>6. OnePlace'
  <2>0. \A u, v \in Worker : \A j \in DOMAIN workerQueue[u], k \in DOMAIN workerQueue[v] :
          workerQueue[u][j] = workerQueue[v][k] => u = v /\ j = k
    BY DEF IInv, OnePlace
  <2>1. ASSUME NEW u \in Worker, NEW v \in Worker
        PROVE  \A j \in DOMAIN workerQueue'[u], k \in DOMAIN workerQueue'[v] :
                 workerQueue'[u][j] = workerQueue'[v][k] => u = v /\ j = k
    <3> SUFFICES ASSUME NEW j \in DOMAIN workerQueue'[u], NEW k \in DOMAIN workerQueue'[v],
                        workerQueue'[u][j] = workerQueue'[v][k]
                 PROVE  u = v /\ j = k
      OBVIOUS
    <3>1. CASE u = w /\ v = w
      <4>1. /\ j \in Nat /\ j + 1 \in DOMAIN workerQueue[w]
            /\ k \in Nat /\ k + 1 \in DOMAIN workerQueue[w]
            /\ workerQueue[w][j + 1] = workerQueue[w][k + 1]
        BY <1>2, <3>1
      <4>2. j + 1 = k + 1
        BY <2>0, <4>1
      <4> QED
        BY <3>1, <4>1, <4>2
    <3>2. CASE u = w /\ v # w
      BY <1>2, <2>0, <3>2
    <3>3. CASE u # w /\ v = w
      <4>1. /\ j \in DOMAIN workerQueue[u]
            /\ k + 1 \in DOMAIN workerQueue[w]
            /\ workerQueue[u][j] = workerQueue[w][k + 1]
        BY <1>2, <3>3
      <4> QED
        BY <2>0, <3>3, <4>1
    <3>4. CASE u # w /\ v # w
      <4>1. /\ j \in DOMAIN workerQueue[u]
            /\ k \in DOMAIN workerQueue[v]
            /\ workerQueue[u][j] = workerQueue[v][k]
        BY <1>2, <3>4
      <4> QED
        BY <2>0, <4>1
    <3> QED
      BY <3>1, <3>2, <3>3, <3>4
  <2>2. ASSUME NEW v \in Worker, NEW k \in DOMAIN workerQueue'[v]
        PROVE  workerQueue'[v][k] # t
    <3>1. CASE v = w
      <4>1. k + 1 \in DOMAIN workerQueue[w] /\ 1 \in DOMAIN workerQueue[w] /\ k + 1 # 1
        BY <1>1, <1>2, <3>1
      <4> QED
        BY <1>1, <1>2, <3>1, <4>1 DEF IInv, OnePlace
    <3>2. CASE v # w
      <4>1. k \in DOMAIN workerQueue[v] /\ workerQueue'[v][k] = workerQueue[v][k]
        BY <1>2, <3>2
      <4>2. 1 \in DOMAIN workerQueue[w]
        BY <1>1
      <4>3. workerQueue[v][k] # workerQueue[w][1]
        BY <2>0, <3>2, <4>1, <4>2
      <4> QED
        BY <1>1, <4>1, <4>3
    <3> QED
      BY <3>1, <3>2
  <2>3. ASSUME NEW u \in Worker, NEW v \in Worker
        PROVE  \A k \in DOMAIN workerQueue'[v] :
                 InHand(u)' => worker'[u].task # workerQueue'[v][k]
    <3> SUFFICES ASSUME NEW k \in DOMAIN workerQueue'[v], InHand(u)'
                 PROVE  worker'[u].task # workerQueue'[v][k]
      OBVIOUS
    <3>1. CASE u = w
      BY <1>3, <2>2, <3>1
    <3>2. CASE u # w
      <4>1. InHand(u) /\ worker'[u].task = worker[u].task
        BY <1>3, <3>2 DEF InHand
      <4>2. \E j \in DOMAIN workerQueue[v] : workerQueue'[v][k] = workerQueue[v][j]
        BY <1>2
      <4> QED
        BY <4>1, <4>2 DEF IInv, OnePlace
    <3> QED
      BY <3>1, <3>2
  <2>4. \A u \in Worker : InHand(u) => worker[u].task # t
    BY <1>1 DEF IInv, OnePlace
  <2>5. ASSUME NEW u \in Worker, NEW v \in Worker
        PROVE  InHand(u)' /\ InHand(v)' /\ worker'[u].task = worker'[v].task => u = v
    BY <1>3, <2>4 DEF IInv, OnePlace, InHand
  <2> QED
    BY <2>1, <2>3, <2>5 DEF OnePlace
<1>7. Chain'
  BY <1>3 DEF IInv, Chain, Busy, Receive
<1> QED
  BY <1>4, <1>5, <1>6, <1>7 DEF IInv

(* The step that matters: the previous task has sent its oneshot, so no worker
   is busy and the task that begins is the next one in order. *)
LEMMA BeginIsNext ==
  ASSUME NEW w \in Worker, IInv, Begin(w)
  PROVE  /\ \A v \in Worker : ~Busy(v)
         /\ worker[w].task = Len(started) + 1
         /\ signalled = 1 .. Len(started)
         /\ Len(started) + 1 \in DOMAIN tasks
<1> DEFINE b == Len(started)
           t == worker[w].task
<1>1. /\ b \in Nat /\ t \in Nat
      /\ t \in b + 1 .. Len(tasks)
      /\ t \in DOMAIN tasks
  BY DEF IInv, TypeOK, Waiting, Begin
<1>2. t - 1 = 0 \/ t - 1 \in signalled
  BY <1>1 DEF IInv, Linked, Begin, Awaited
<1>3. \A v \in Worker : ~Busy(v)
  <2> SUFFICES ASSUME NEW v \in Worker, Busy(v)
               PROVE  FALSE
    OBVIOUS
  <2>1. b > 0 /\ signalled = 1 .. b - 1
    BY <1>1 DEF IInv, TypeOK, Chain
  <2> QED
    BY <1>1, <1>2, <2>1
<1>4. signalled = 1 .. b
  BY <1>3 DEF IInv, Chain
<1> QED
  BY <1>1, <1>2, <1>3, <1>4

(* The task that begins is the next one, so the order is kept. *)
LEMMA BeginIInv == ASSUME NEW w \in Worker PROVE IInv /\ Begin(w) => IInv'
<1> SUFFICES ASSUME IInv, Begin(w)
             PROVE  IInv'
  OBVIOUS
<1> DEFINE b == Len(started)
<1>1. /\ \A v \in Worker : ~Busy(v)
      /\ worker[w].task = b + 1
      /\ signalled = 1 .. b
      /\ b + 1 <= Len(tasks)
      /\ b \in Nat
  <2>1. /\ \A v \in Worker : ~Busy(v)
        /\ worker[w].task = b + 1
        /\ signalled = 1 .. b
        /\ b + 1 \in DOMAIN tasks
    BY BeginIsNext
  <2>2. b \in Nat /\ DOMAIN tasks = 1 .. Len(tasks)
    BY DEF IInv, TypeOK
  <2> QED
    BY <2>1, <2>2
<1>2. /\ started' \in Seq(Nat) /\ Len(started') = b + 1
      /\ \A i \in 1 .. b : started'[i] = started[i]
      /\ started'[b + 1] = b + 1
  BY <1>1, AppendProperties DEF IInv, TypeOK, Begin
<1>3. /\ worker' \in [Worker -> [phase : {"idle", "parked", "busy"}, task : Nat]]
      /\ worker'[w] = [phase |-> "busy", task |-> b + 1]
      /\ worker[w].phase = "parked"
      /\ \A v \in Worker : v # w => worker'[v] = worker[v]
  BY <1>1 DEF IInv, TypeOK, Begin
<1>4. TypeOK' /\ Linked'
  BY <1>2, <1>3 DEF IInv, TypeOK, Linked, Begin
<1>5. InOrder'
  <2>1. DOMAIN started' = 1 .. b + 1 /\ DOMAIN started = 1 .. b
    BY <1>1, <1>2 DEF IInv, TypeOK
  <2> QED
    BY <1>1, <1>2, <2>1 DEF IInv, InOrder
<1>6. Waiting'
  <2>1. ASSUME NEW v \in Worker, NEW k \in DOMAIN workerQueue[v]
        PROVE  workerQueue[v][k] \in b + 2 .. Len(tasks)
    <3>1. workerQueue[v][k] \in b + 1 .. Len(tasks)
      BY DEF IInv, Waiting
    <3>2. workerQueue[v][k] # b + 1
      BY <1>1, <1>3 DEF IInv, OnePlace, InHand
    <3> QED
      BY <1>1, <3>1, <3>2
  <2>2. ASSUME NEW v \in Worker, worker'[v].phase = "parked"
        PROVE  worker[v].task \in b + 2 .. Len(tasks) /\ v # w
    <3>1. v # w /\ worker[v].phase = "parked" /\ worker[v].task \in b + 1 .. Len(tasks)
      BY <1>3, <2>2 DEF IInv, Waiting
    <3>2. worker[v].task # b + 1
      BY <1>1, <1>3, <3>1 DEF IInv, OnePlace, InHand
    <3> QED
      BY <1>1, <3>1, <3>2
  <2> QED
    BY <1>1, <1>2, <1>3, <2>1, <2>2 DEF Waiting, Begin
<1>7. OnePlace'
  <2>1. \A v \in Worker : InHand(v)' <=> InHand(v)
    BY <1>3 DEF InHand
  <2>2. \A v \in Worker : worker'[v].task = worker[v].task
    BY <1>1, <1>3
  <2> QED
    BY <2>1, <2>2 DEF IInv, OnePlace, Begin
<1>8. Chain'
  BY <1>1, <1>2, <1>3 DEF Chain, Busy, Begin
<1> QED
  BY <1>4, <1>5, <1>6, <1>7, <1>8 DEF IInv

(* A worker that is done signals the task it began last. *)
LEMMA CompleteIInv == ASSUME NEW w \in Worker PROVE IInv /\ Complete(w) => IInv'
<1> SUFFICES ASSUME IInv, Complete(w)
             PROVE  IInv'
  OBVIOUS
<1> DEFINE b == Len(started)
<1>1. /\ worker' \in [Worker -> [phase : {"idle", "parked", "busy"}, task : Nat]]
      /\ worker'[w] = Idle
      /\ worker[w].phase = "busy"
      /\ \A v \in Worker : v # w => worker'[v] = worker[v]
  BY DEF IInv, TypeOK, Complete, Idle
<1>2. /\ b \in Nat \ {0}
      /\ worker[w].task = b
      /\ signalled = 1 .. b - 1
      /\ \A v \in Worker : Busy(v) => v = w
  <2>1. Busy(w) /\ worker[w].task = b /\ started # <<>>
    BY <1>1 DEF IInv, Chain, Busy
  <2>2. b \in Nat \ {0}
    BY <2>1, EmptySeq DEF IInv, TypeOK
  <2>3. signalled = 1 .. b - 1
    BY <2>1 DEF IInv, Chain
  <2>4. ASSUME NEW v \in Worker, Busy(v)
        PROVE  v = w
    BY <2>1, <2>4 DEF IInv, Chain, OnePlace, Busy, InHand
  <2> QED
    BY <2>1, <2>2, <2>3, <2>4
<1>3. signalled' = 1 .. b
  BY <1>2 DEF Complete
<1>4. TypeOK' /\ Linked' /\ InOrder'
  BY <1>1, <1>2, <1>3 DEF IInv, TypeOK, Linked, InOrder, Complete
<1>5. Waiting' /\ OnePlace'
  BY <1>1 DEF IInv, Waiting, OnePlace, InHand, Idle, Complete
<1>6. Chain'
  BY <1>1, <1>2, <1>3 DEF Chain, Busy, Idle, Complete
<1> QED
  BY <1>4, <1>5, <1>6 DEF IInv

(* No step breaks the invariant. *)
LEMMA NextIInv == IInv /\ [Next]_vars => IInv'
<1> SUFFICES ASSUME IInv, [Next]_vars
             PROVE  IInv'
  OBVIOUS
<1>1. CASE Dispatch
  BY <1>1, DispatchIInv
<1>2. CASE \E r \in Request : Submit(r)
  BY <1>2, SubmitIInv
<1>3. ASSUME NEW w \in Worker, Receive(w) \/ Begin(w) \/ Complete(w)
      PROVE  IInv'
  BY <1>3, ReceiveIInv, BeginIInv, CompleteIInv
<1>4. CASE UNCHANGED vars
  BY <1>4 DEF vars, IInv, TypeOK, Linked, Waiting, OnePlace, Chain, InOrder, InHand, Busy
<1> QED
  BY <1>1, <1>2, <1>3, <1>4 DEF Next, PoolStep

(* The chain of oneshots is intact in every reachable state of the pool. *)
THEOREM ChainIntact == Spec => []IInv
  BY InitIInv, NextIInv, PTL DEF Spec

(* Every variable of the pool keeps its type. *)
THEOREM TypeCorrect == Spec => []TypeOK
<1>1. IInv => TypeOK
  BY DEF IInv
<1> QED
  BY <1>1, ChainIntact, PTL

(* At most one worker of a PartitionPool or ConsumerPool works at a time. *)
THEOREM MutualExclusion == Spec => []OneAtATime
<1>1. IInv => OneAtATime
  BY DEF IInv, OneAtATime, OnePlace, Chain, Busy, InHand
<1> QED
  BY <1>1, ChainIntact, PTL

(* A PartitionPool or ConsumerPool begins requests in the order in which it
   accepted them, none twice and none skipped. *)
THEOREM OrderKept == Spec => []InOrder
<1>1. IInv => InOrder
  BY DEF IInv
<1> QED
  BY <1>1, ChainIntact, PTL

----------------------------------------------------------------------------
(* The refinement: each step of the pool is a step of the serial executor or
   changes nothing that the executor can see. *)

Mapped ==
  /\ Accepted \in Seq(Request)
  /\ Len(Accepted) = Len(tasks) + Len(queue)
  /\ DOMAIN Accepted = 1 .. Len(tasks) + Len(queue)
  /\ Started \in Seq(Request)
  /\ Len(Started) = Len(started)
  /\ \A i \in 1 .. Len(started) : Started[i] = tasks[i].request

(* The mapped state is what the serial executor's variables can be. *)
LEMMA MappedShape == IInv => Mapped
<1> SUFFICES ASSUME IInv
             PROVE  Mapped
  OBVIOUS
<1>1. /\ Len(tasks) \in Nat /\ Len(queue) \in Nat /\ Len(started) \in Nat
      /\ Len(started) <= Len(tasks)
      /\ \A i \in 1 .. Len(tasks) : tasks[i].request \in Request
      /\ \A i \in 1 .. Len(queue) : queue[i] \in Request
      /\ \A i \in 1 .. Len(started) : started[i] = i
  <2>1. tasks \in Seq(Task) /\ queue \in Seq(Request) /\ started \in Seq(Nat)
    BY DEF IInv, TypeOK
  <2>2. \A i \in 1 .. Len(tasks) : tasks[i] \in Task
    BY <2>1, ElementOfSeq
  <2>3. \A i \in 1 .. Len(tasks) : tasks[i].request \in Request
    BY <2>2 DEF Task
  <2>4. \A i \in 1 .. Len(queue) : queue[i] \in Request
    BY <2>1, ElementOfSeq
  <2>5. DOMAIN started = 1 .. Len(started)
    BY <2>1
  <2> QED
    BY <2>1, <2>3, <2>4, <2>5 DEF IInv, Waiting, InOrder
<1>2. \A i \in 1 .. Len(tasks) + Len(queue) :
        (IF i <= Len(tasks) THEN tasks[i].request ELSE queue[i - Len(tasks)]) \in Request
  BY <1>1
<1>3. Accepted \in [1 .. Len(tasks) + Len(queue) -> Request]
  BY <1>2 DEF Accepted
<1>4. Started \in [1 .. Len(started) -> Request]
  BY <1>1 DEF Started
<1>5. \A i \in 1 .. Len(started) : Started[i] = tasks[i].request
  BY <1>1 DEF Started
<1>6. Accepted \in Seq(Request) /\ Len(Accepted) = Len(tasks) + Len(queue)
  <2> DEFINE m == Len(tasks) + Len(queue)
  <2>1. m \in Nat /\ Accepted \in [1 .. m -> Request]
    BY <1>1, <1>3
  <2> HIDE DEF m
  <2>2. Accepted \in Seq(Request) /\ Len(Accepted) = m
    BY <2>1
  <2> QED
    BY <2>2 DEF m
<1>7. Started \in Seq(Request) /\ Len(Started) = Len(started)
  BY <1>1, <1>4
<1> QED
  BY <1>3, <1>5, <1>6, <1>7 DEF Mapped

(* So it is after a step. *)
LEMMA MappedShapeNext == IInv' => Mapped'
  BY MappedShape, PTL

(* Submitting is accepting. *)
LEMMA SubmitAccepts ==
  ASSUME IInv, NEW r \in Request, Submit(r), IInv'
  PROVE  Serial!Accept(r)
<1>1. /\ Accepted \in Seq(Request) /\ Len(Accepted) = Len(tasks) + Len(queue)
      /\ Accepted' \in Seq(Request) /\ Len(Accepted') = Len(tasks) + Len(queue')
  BY MappedShape, MappedShapeNext DEF Mapped, Submit
<1>2. /\ queue \in Seq(Request) /\ Len(tasks) \in Nat /\ Len(queue) \in Nat
      /\ queue' = Append(queue, r) /\ tasks' = tasks
  BY DEF IInv, TypeOK, Submit
<1>3. /\ Len(queue') = Len(queue) + 1
      /\ \A i \in 1 .. Len(queue) : queue'[i] = queue[i]
      /\ queue'[Len(queue) + 1] = r
  BY <1>2, AppendProperties
<1> DEFINE next == Append(Accepted, r)
<1>4. /\ next \in Seq(Request) /\ Len(next) = Len(Accepted) + 1
      /\ \A i \in 1 .. Len(Accepted) : next[i] = Accepted[i]
      /\ next[Len(Accepted) + 1] = r
  BY <1>1, AppendProperties
<1>5. ASSUME NEW i \in 1 .. Len(Accepted')
      PROVE  Accepted'[i] = next[i]
  <2> HIDE DEF next
  <2>1. Accepted'[i] = IF i <= Len(tasks) THEN tasks[i].request ELSE queue'[i - Len(tasks)]
    BY <1>1, <1>2, <1>3 DEF Accepted
  <2>2. CASE i = Len(Accepted) + 1
    BY <1>1, <1>2, <1>3, <1>4, <2>1, <2>2
  <2>3. CASE i # Len(Accepted) + 1
    <3>1. i \in 1 .. Len(tasks) + Len(queue)
      <4>1. Len(Accepted') = Len(Accepted) + 1 /\ Len(Accepted) \in Nat
        BY <1>1, <1>2, <1>3
      <4> QED
        BY <1>1, <2>3, <4>1
    <3>2. Accepted[i] = IF i <= Len(tasks) THEN tasks[i].request ELSE queue[i - Len(tasks)]
      BY <3>1 DEF Accepted
    <3> QED
      BY <1>1, <1>2, <1>3, <1>4, <2>1, <3>1, <3>2
  <2> QED
    BY <2>2, <2>3
<1>6. Accepted' = next
  <2> HIDE DEF next
  <2>1. Len(Accepted') = Len(next)
    BY <1>1, <1>2, <1>3, <1>4
  <2> QED
    BY <1>1, <1>4, <1>5, <2>1, SeqEqual
<1> QED
  BY <1>6 DEF Serial!Accept, Submit, Started, Finished, Busy

(* Dispatching changes nothing the serial executor sees. *)
LEMMA DispatchStutters ==
  ASSUME IInv, Dispatch, IInv'
  PROVE  UNCHANGED <<Accepted, Started, Finished>>
<1> DEFINE n == Len(tasks)
           q == Len(queue)
<1>1. /\ queue \in Seq(Request) /\ queue # <<>> /\ queue' = Tail(queue)
      /\ Head(queue) = queue[1] /\ q \in Nat /\ n \in Nat /\ tasks \in Seq(Task)
      /\ tasks' = Append(tasks, [request |-> Head(queue), previous |-> n])
      /\ started' = started /\ worker' = worker
      /\ \A i \in 1 .. Len(started) : started[i] \in 1 .. n
  BY DEF IInv, TypeOK, InOrder, Waiting, Dispatch, PreviousSignal
<1>2. /\ Len(queue') = q - 1 /\ q # 0
      /\ \A i \in 1 .. q - 1 : queue'[i] = queue[i + 1]
  BY <1>1, HeadTailProperties, EmptySeq
<1>3. /\ Len(tasks') = n + 1
      /\ \A i \in 1 .. n : tasks'[i] = tasks[i]
      /\ tasks'[n + 1].request = queue[1]
  BY <1>1
<1>4. Accepted' = Accepted
  <2>1. ASSUME NEW i \in 1 .. n + q
        PROVE  (IF i <= n + 1 THEN tasks'[i].request ELSE queue'[i - (n + 1)])
                 = (IF i <= n THEN tasks[i].request ELSE queue[i - n])
    <3>1. CASE i <= n
      BY <1>1, <1>3, <3>1
    <3>2. CASE i = n + 1
      BY <1>1, <1>3, <3>2
    <3>3. CASE i > n + 1
      <4>1. i - (n + 1) \in 1 .. q - 1 /\ (i - (n + 1)) + 1 = i - n
        BY <1>1, <3>3
      <4> QED
        BY <1>1, <1>2, <3>3, <4>1
    <3> QED
      BY <1>1, <3>1, <3>2, <3>3
  <2>2. Len(tasks') + Len(queue') = n + q
    BY <1>1, <1>2, <1>3
  <2> QED
    BY <1>3, <2>1, <2>2 DEF Accepted
<1>5. Started' = Started
  BY <1>1, <1>3 DEF Started
<1> QED
  BY <1>1, <1>4, <1>5 DEF Finished, Busy

(* Nor does receiving. *)
LEMMA ReceiveStutters ==
  ASSUME IInv, NEW w \in Worker, Receive(w)
  PROVE  UNCHANGED <<Accepted, Started, Finished>>
<1>1. \A v \in Worker : Busy(v)' <=> Busy(v)
  BY DEF IInv, TypeOK, Receive, Busy
<1> QED
  BY <1>1 DEF Receive, Accepted, Started, Finished

(* Beginning is starting: everything begun before has finished. *)
LEMMA BeginStarts ==
  ASSUME IInv, NEW w \in Worker, Begin(w), IInv'
  PROVE  Serial!Start
<1> DEFINE b == Len(started)
<1>1. /\ \A v \in Worker : ~Busy(v)
      /\ worker[w].task = b + 1
      /\ b + 1 \in DOMAIN tasks
      /\ b \in Nat /\ Len(tasks) \in Nat /\ Len(queue) \in Nat
  <2>1. b \in Nat /\ Len(tasks) \in Nat /\ Len(queue) \in Nat
    BY DEF IInv, TypeOK
  <2> QED
    BY <2>1, BeginIsNext
<1>2. Finished = b
  BY <1>1 DEF Finished
<1>3. Finished' = b
  <2>1. Len(started') = b + 1
    BY <1>1 DEF IInv, TypeOK, Begin
  <2>2. worker'[w].phase = "busy"
    BY DEF IInv, TypeOK, Begin
  <2> QED
    BY <1>1, <2>1, <2>2 DEF Finished, Busy
<1>4. /\ Accepted' = Accepted /\ Accepted[b + 1] = tasks[b + 1].request
      /\ b < Len(Accepted) /\ tasks' = tasks
  <2>1. b + 1 \in 1 .. Len(tasks)
    BY <1>1 DEF IInv, TypeOK
  <2> QED
    BY <1>1, <2>1, MappedShape DEF Mapped, Accepted, Begin
<1>5. /\ Started \in Seq(Request) /\ Len(Started) = b
      /\ Started' \in Seq(Request) /\ Len(Started') = b + 1
      /\ \A i \in 1 .. b : Started[i] = tasks[i].request
      /\ \A i \in 1 .. b + 1 : Started'[i] = tasks[i].request
  <2>1. Len(started') = b + 1
    BY <1>1 DEF IInv, TypeOK, Begin
  <2> QED
    BY <1>4, <2>1, MappedShape, MappedShapeNext DEF Mapped
<1> DEFINE next == Append(Started, Accepted[b + 1])
<1>6. tasks[b + 1].request \in Request
  BY <1>1, <1>5
<1>7. /\ next \in Seq(Request) /\ Len(next) = b + 1
      /\ \A i \in 1 .. b : next[i] = Started[i]
      /\ next[b + 1] = tasks[b + 1].request
  BY <1>1, <1>4, <1>5, <1>6, AppendProperties
<1>8. Started' = next
  <2> HIDE DEF next
  <2>1. \A i \in 1 .. b + 1 : Started'[i] = next[i]
    BY <1>1, <1>5, <1>7
  <2> QED
    BY <1>5, <1>7, <2>1, SeqEqual
<1> QED
  BY <1>2, <1>3, <1>4, <1>5, <1>8 DEF Serial!Start

(* Completing is finishing. *)
LEMMA CompleteFinishes ==
  ASSUME IInv, NEW w \in Worker, Complete(w), IInv'
  PROVE  Serial!Finish
<1> DEFINE b == Len(started)
<1>1. Busy(w) /\ b \in Nat \ {0} /\ \A v \in Worker : Busy(v) => v = w
  <2>1. Busy(w) /\ started # <<>>
    BY DEF IInv, Chain, Complete, Busy
  <2>2. b \in Nat \ {0}
    BY <2>1, EmptySeq DEF IInv, TypeOK
  <2>3. ASSUME NEW v \in Worker, Busy(v)
        PROVE  v = w
    BY <2>1, <2>3 DEF IInv, Chain, OnePlace, Busy, InHand
  <2> QED
    BY <2>1, <2>2, <2>3
<1>2. Finished = b - 1
  BY <1>1 DEF Finished
<1>3. Finished' = b
  <2>1. \A v \in Worker : worker'[v].phase # "busy"
    BY <1>1 DEF IInv, TypeOK, Complete, Busy, Idle
  <2> QED
    BY <2>1 DEF Finished, Busy, Complete
<1>4. Len(Started) = b
  BY MappedShape DEF Mapped
<1> QED
  BY <1>1, <1>2, <1>3, <1>4 DEF Serial!Finish, Accepted, Started, Complete

(* Every step of the pool is a step of the serial executor, or none. *)
LEMMA StepRefines == IInv /\ [Next]_vars /\ IInv' => [Serial!Next]_Serial!vars
<1> SUFFICES ASSUME IInv, [Next]_vars, IInv'
             PROVE  [Serial!Next]_Serial!vars
  OBVIOUS
<1>1. CASE Dispatch
  BY <1>1, DispatchStutters DEF Serial!vars
<1>2. ASSUME NEW r \in Request, Submit(r)
      PROVE  Serial!Next
  BY <1>2, SubmitAccepts DEF Serial!Next
<1>3. ASSUME NEW w \in Worker, Receive(w)
      PROVE  UNCHANGED Serial!vars
  BY <1>3, ReceiveStutters DEF Serial!vars
<1>4. ASSUME NEW w \in Worker, Begin(w) \/ Complete(w)
      PROVE  Serial!Next
  BY <1>4, BeginStarts, CompleteFinishes DEF Serial!Next
<1>5. CASE UNCHANGED vars
  BY <1>5 DEF vars, Serial!vars, Accepted, Started, Finished, Busy
<1> QED
  BY <1>1, <1>2, <1>3, <1>4, <1>5 DEF Next, PoolStep

(* Whatever the number of workers, a PartitionPool or ConsumerPool behaves as
   a serial executor of the requests sent to it. *)
THEOREM PoolIsSerial == Spec => ImplementsSerialExecutor
<1>1. Init => Serial!Init
  BY DEF Init, Serial!Init, Accepted, Started, Finished, Busy, Idle
<1> QED
  BY <1>1, ChainIntact, StepRefines, PTL DEF Spec, Serial!Spec, ImplementsSerialExecutor
=============================================================================
