---------------------------- MODULE BrokerLocks ----------------------------
(***************************************************************************)
(* The locks and the response channel that the tasks of a broker share:    *)
(* who waits for whom.  What the tasks do with the data is in Broker.      *)
(*                                                                         *)
(* A task runs a program of three kinds of steps: acquire a lock, release  *)
(* it, send to the response pool.  tokio's RwLock is fair: a request that  *)
(* cannot be granted queues, and no later one overtakes it, so a reader    *)
(* waits behind a writer that waits for another reader.                    *)
(*                                                                         *)
(* The locks are the server's, one for each shard's map of topics and one  *)
(* for each partition.  Those of the consumer lists, the groups and the    *)
(* writers of clients are left out: who has one waits for no other lock.   *)
(*                                                                         *)
(* One task writes all answers.  A socket holds what its other side has    *)
(* not read; when it is full the write suspends, and the task with it.     *)
(***************************************************************************)
EXTENDS Naturals, Sequences, FiniteSets, SequencesExt

CONSTANTS
  Job,           \* the requests and connections of an instance
  ProgramOf,     \* what each of them has a task run
  Topic,
  Shard,
  Partition,
  ShardOf,       \* the shard whose map a topic is in
  PartitionsOf,  \* a topic's partitions, as a registration goes over them
  ConsumersOf,   \* the connections of a partition's consumers
  Connection,    \* the connections of clients, and the controller's
  Deaf,          \* those whose other side does not read
  Ends,          \* the jobs in which a connection's handler removes its writer
  ResponseCap,   \* capacity of the response pool's channel (1024)
  SocketCap      \* answers a socket's buffers hold

ASSUME LocksAssumption ==
  /\ Deaf \subseteq Connection
  /\ {ResponseCap, SocketCap} \subseteq Nat \ {0}
  /\ "server" \notin Shard \cup Partition /\ Shard \cap Partition = {}
  /\ ShardOf \in [Topic -> Shard]
  /\ \A t \in Topic : PartitionsOf[t] \in Seq(Partition)
  /\ \A p \in Partition : ConsumersOf[p] \in Seq(Connection)

Lock == {"server"} \cup Shard \cup Partition

Acquire(l, mode) == [step |-> "acquire", lock |-> l, mode |-> mode]
Release(l) == [step |-> "release", lock |-> l]
SendResponse(c) == [step |-> "send", to |-> c]

(* { let guard = server.read().await; ... clone() } *)
LookAt(l) == <<Acquire(l, "read"), Release(l)>>

(* The same with one lock after the other. *)
LookAtEach(ls) ==
  [n \in 1 .. 2 * Len(ls) |->
     IF n % 2 = 1 THEN Acquire(ls[(n + 1) \div 2], "read") ELSE Release(ls[n \div 2])]

(* The connection's task copies the request pool's sender. *)
ReadRequests == LookAt("server")

(* Respond: the worker clones the response pool's sender and sends. *)
Respond(c) == LookAt("server") \o <<SendResponse(c)>>

WhoLeader(c) == LookAt("server") \o Respond(c)

(* A bug to tell apart: the answer is sent before the guard is dropped. *)
TopicInsertHolding(t, c) ==
  LookAt("server") \o <<Acquire(ShardOf[t], "write")>> \o Respond(c) \o <<Release(ShardOf[t])>>

TopicInsert(t, c) ==
  LookAt("server") \o <<Acquire(ShardOf[t], "write"), Release(ShardOf[t])>> \o Respond(c)

(* topic_data_insert and consumer_assignment look the partition up with the
   server still locked. *)
LocatePartition(t) ==
  <<Acquire("server", "read"), Acquire(ShardOf[t], "read"),
    Release(ShardOf[t]), Release("server")>>

(* The value goes on to the partition pool, or is refused. *)
InsertData(t) == LocatePartition(t) \o LookAt("server")
RefuseData(t, c) == LocatePartition(t) \o Respond(c)

AssignConsumer(t, p, c) ==
  LocatePartition(t) \o <<Acquire(p, "write"), Release(p)>> \o Respond(c)

(* A partition worker has its partition locked until it has written and
   answered, and looks at the server in between.  That it waits for room in the
   consumer pool too is in Broker. *)
WriteValue(p, c) ==
  <<Acquire(p, "write")>> \o Respond(c) \o <<Release(p)>>

(* A consumer worker sends to each of a partition's consumers. *)
NotifyConsumers(p) ==
  LookAt("server") \o LookAt(p)
    \o [i \in 1 .. Len(ConsumersOf[p]) |-> SendResponse(ConsumersOf[p][i])]

(* ConsumerReg keeps the map's guard while it goes over the topic's partitions,
   and until the answer is sent. *)
RegisterConsumer(t, c) ==
  LookAt("server") \o LookAt("server") \o <<Acquire(ShardOf[t], "read")>>
    \o LookAtEach(PartitionsOf[t]) \o <<SendResponse(c), Release(ShardOf[t])>>

(* A topic that does not exist panics the task, and the guard is dropped. *)
RegisterUnknown(t) == LookAt("server") \o LookAt("server") \o LookAt(ShardOf[t])

(* A connection enters its writer among the server's clients, and removes it
   when it ends. *)
Connect == <<Acquire("server", "write"), Release("server")>>

(* All that a broker's tasks run. *)
Program ==
  {ReadRequests, Connect}
    \cup {Respond(c) : c \in Connection}
    \cup {WhoLeader(c) : c \in Connection}
    \cup {TopicInsert(t, c) : t \in Topic, c \in Connection}
    \cup {InsertData(t) : t \in Topic}
    \cup {RefuseData(t, c) : t \in Topic, c \in Connection}
    \cup {AssignConsumer(t, p, c) : t \in Topic, p \in Partition, c \in Connection}
    \cup {WriteValue(p, c) : p \in Partition, c \in Connection}
    \cup {NotifyConsumers(p) : p \in Partition}
    \cup {RegisterConsumer(t, c) : t \in Topic, c \in Connection}
    \cup {RegisterUnknown(t) : t \in Topic}

ResponsePool == "response pool"

ASSUME ProgramsAssumption ==
  /\ ResponsePool \notin Job
  /\ ProgramOf \in [Job -> Program]
  /\ Ends \in [Connection -> SUBSET Job]
  /\ \A c \in Connection : \A j \in Ends[c] : ProgramOf[j] = Connect

(* The connections that end in an instance.  Their peers may be gone already. *)
Leaving == {c \in Connection : Ends[c] # {}}

VARIABLES
  pc,          \* the next step of each job
  holders,     \* holders[l]: the jobs that hold a lock, with the mode
  queue,       \* queue[l]: those that asked for it, first come first served
  responses,   \* the response pool's channel: whom the answers are for
  pool,        \* what the response pool is doing, and for whom
  socket,      \* answers in a socket that were not read
  heard,       \* history: how many answers were read from it
  lost         \* history: how many answers to a connection were thrown away

vars == <<pc, holders, queue, responses, pool, socket, heard, lost>>

Entry == [task : Job \cup {ResponsePool}, mode : {"read", "write"}]

Idle == [state |-> "idle"]

TypeOK ==
  /\ pc \in [Job -> Nat]
  /\ holders \in [Lock -> SUBSET Entry]
  /\ queue \in [Lock -> Seq(Entry)]
  /\ responses \in Seq(Connection) /\ Len(responses) <= ResponseCap
  /\ pool = Idle \/ pool \in [state : {"waiting", "found", "writing"}, to : Connection]
  /\ socket \in [Connection -> 0 .. SocketCap]
  /\ heard \in [Connection -> Nat] /\ lost \in [Connection -> Nat]
  /\ \A l \in Lock : \A e \in holders[l] : e.mode = "write" => holders[l] = {e}

Init ==
  /\ pc = [j \in Job |-> 1]
  /\ holders = [l \in Lock |-> {}]
  /\ queue = [l \in Lock |-> <<>>]
  /\ responses = <<>>
  /\ pool = Idle
  /\ socket = [c \in Connection |-> 0]
  /\ heard = [c \in Connection |-> 0]
  /\ lost = [c \in Connection |-> 0]

Ended(j) == pc[j] > Len(ProgramOf[j])
At(j, kind) == ~Ended(j) /\ ProgramOf[j][pc[j]].step = kind
Step(j) == ProgramOf[j][pc[j]]
Advance(j) == pc' = [pc EXCEPT ![j] = @ + 1]

Queued(l, task) == \E e \in ToSet(queue[l]) : e.task = task

Ask(l, task, mode) ==
  queue' = [queue EXCEPT ![l] = Append(@, [task |-> task, mode |-> mode])]

Drop(l, task) == holders' = [holders EXCEPT ![l] = {e \in @ : e.task # task}]

MayAsk(j) == At(j, "acquire") /\ ~Queued(Step(j).lock, j)

AskLock(j) ==
  /\ MayAsk(j)
  /\ Ask(Step(j).lock, j, Step(j).mode)
  /\ UNCHANGED <<pc, holders, responses, pool, socket, heard, lost>>

(* A bug to tell apart: a writer does not wait for the readers. *)
CompatibleAlways(l, mode) == mode = "write" \/ \A e \in holders[l] : e.mode = "read"

(* Two readers go together; a writer goes alone. *)
Compatible(l, mode) ==
  holders[l] = {} \/ (mode = "read" /\ \A e \in holders[l] : e.mode = "read")

MayGrant(l) == queue[l] # <<>> /\ Compatible(l, Head(queue[l]).mode)

Grant(l) ==
  LET e == Head(queue[l]) IN
  /\ MayGrant(l)
  /\ queue' = [queue EXCEPT ![l] = Tail(@)]
  /\ holders' = [holders EXCEPT ![l] = @ \cup {e}]
  /\ IF e.task = ResponsePool
       THEN pool' = [pool EXCEPT !.state = "found"] /\ UNCHANGED pc
       ELSE Advance(e.task) /\ UNCHANGED pool
  /\ UNCHANGED <<responses, socket, heard, lost>>

ReleaseLock(j) ==
  /\ At(j, "release")
  /\ Drop(Step(j).lock, j)
  /\ Advance(j)
  /\ UNCHANGED <<queue, responses, pool, socket, heard, lost>>

(* send suspends while the channel is full. *)
MaySend(j) == At(j, "send") /\ Len(responses) < ResponseCap

Send(j) ==
  /\ MaySend(j)
  /\ responses' = Append(responses, Step(j).to)
  /\ Advance(j)
  /\ UNCHANGED <<holders, queue, pool, socket, heard, lost>>

(* The response pool takes an answer and copies the Arc of its client's writer,
   for which it locks the server. *)
TakeResponse ==
  /\ pool = Idle /\ responses # <<>>
  /\ responses' = Tail(responses)
  /\ pool' = [state |-> "waiting", to |-> Head(responses)]
  /\ Ask("server", ResponsePool, "read")
  /\ UNCHANGED <<pc, holders, socket, heard, lost>>

(* server.clients: whose handler has not had the lock to remove it. *)
clients == {c \in Connection : \A j \in Ends[c] : pc[j] = 1}

Lose(c) == lost' = [lost EXCEPT ![c] = @ + 1]

(* An answer to a client that is not there any more is thrown away. *)
FindWriter ==
  /\ pool.state = "found"
  /\ Drop("server", ResponsePool)
  /\ IF pool.to \in clients
       THEN pool' = [pool EXCEPT !.state = "writing"] /\ UNCHANGED lost
       ELSE pool' = Idle /\ Lose(pool.to)
  /\ UNCHANGED <<pc, queue, responses, socket, heard>>

(* write_all suspends while the socket is full, and fails when the peer has
   gone: its answer is lost. *)
WriteResponse ==
  /\ pool.state = "writing"
  /\ \/ /\ socket[pool.to] < SocketCap
        /\ socket' = [socket EXCEPT ![pool.to] = @ + 1]
        /\ UNCHANGED lost
     \/ /\ pool.to \in Leaving
        /\ Lose(pool.to)
        /\ UNCHANGED socket
  /\ pool' = Idle
  /\ UNCHANGED <<pc, holders, queue, responses, heard>>

(* The other side reads, if it does at all. *)
ReadSocket(c) ==
  /\ c \notin Deaf /\ socket[c] > 0
  /\ socket' = [socket EXCEPT ![c] = @ - 1]
  /\ heard' = [heard EXCEPT ![c] = @ + 1]
  /\ UNCHANGED <<pc, holders, queue, responses, pool, lost>>

JobStep(j) == AskLock(j) \/ ReleaseLock(j) \/ Send(j)

Next ==
  \/ \E j \in Job : JobStep(j)
  \/ \E l \in Lock : Grant(l)
  \/ TakeResponse \/ FindWriter \/ WriteResponse
  \/ \E c \in Connection : ReadSocket(c)

Spec == Init /\ [][Next]_vars

(* Every task runs again when what it waits for is there.  Whoever neither leaves
   nor is deaf reads. *)
Fairness ==
  /\ \A j \in Job : WF_vars(JobStep(j))
  /\ \A l \in Lock : WF_vars(Grant(l))
  /\ WF_vars(TakeResponse) /\ WF_vars(FindWriter) /\ WF_vars(WriteResponse)
  /\ \A c \in Connection \ Leaving : WF_vars(ReadSocket(c))

FairSpec == Spec /\ Fairness

----------------------------------------------------------------------------
HasLock(l, task) == \E e \in holders[l] : e.task = task

(* The circle that a broker's tasks can close: a partition worker has a
   partition and waits for the server; a lookup has the server and waits for a
   map; a registration has the map and waits for the partition.  Readers wait for
   readers because a writer is ahead of them: a connection, and a topic_insert. *)
Circle(write, look, reg, s, p) ==
  /\ HasLock(p, write) /\ Queued("server", write)
  /\ HasLock("server", look) /\ Queued(s, look)
  /\ HasLock(s, reg) /\ Queued(p, reg)
  /\ Head(queue["server"]).mode = "write" /\ Head(queue[s]).mode = "write"

WaitCycle ==
  \E write, look, reg \in Job : \E s \in Shard, p \in Partition : Circle(write, look, reg, s, p)

(* Some step of a task, or of a lock, is possible without the response pool's
   having written anything. *)
SomeoneMoves ==
  \/ \E j \in Job : MayAsk(j) \/ At(j, "release") \/ MaySend(j)
  \/ \E l \in Lock : MayGrant(l)
  \/ pool.state = "found"

(* While the response channel has room, tasks that have not ended do not wait
   for each other, whatever the sockets do: only that one circle stops them. *)
StuckOnlyInCycle ==
  (\E j \in Job : ~Ended(j)) /\ Len(responses) < ResponseCap
    => SomeoneMoves \/ WaitCycle

SentTo(c) ==
  UNION {{<<j, n>> : n \in {m \in DOMAIN ProgramOf[j] : ProgramOf[j][m] = SendResponse(c)}} :
           j \in Job}

Served ==
  /\ \A j \in Job : Ended(j)
  /\ \A c \in Connection \ (Deaf \cup Leaving) : heard[c] = Cardinality(SentTo(c))

(* Nobody waits for ever: requests, connections and registrations all end, and
   whoever reads and stays gets all that was sent to it. *)
EverybodyEnds == <>[]Served

(* So it is, unless the circle closes. *)
EverybodyEndsUnlessInCycle == <>[]Served \/ <>[]WaitCycle
=============================================================================
