# Verification of msg-broker-v2

A TLA+ model of the message broker in this repository: what its tasks do, in
which orders they can do it, and which promises survive all of them. The models
are written from the source; `PROJECT.json` maps each definition to the lines it
models. Line numbers below are those of the files under `src/src/`.

## The system

One process starts three controllers and three brokers (`cluster.rs`, `main.rs`)
and a client. Everything is a tokio task; tasks share state through
`Arc<RwLock<..>>` and talk through bounded `mpsc` channels, `oneshot` channels and
TCP.

| Component | State | Operations | Talks to | Module |
|---|---|---|---|---|
| Controller election (`controller.rs` 123-369, 387-488) | `term`, `leader`, `leader_addr`, the timer task's locals | timer expiry, `election`, `leader_elected`, `heartbeat` | the other controllers, one connection each way | `Election` |
| Controller metadata (`controller.rs` 494-1012) | `broker_ids`, `broker_sockets`, `partitions`, `consumer_grps`, `consumer_id` | `i_am_broker`, `create_topic`, `subscribe`, `who_leader` | brokers (`topic_insert`), clients | `Controller`, `ConsumerGroups` |
| Broker start (`brokers.rs` 58-176) | `leader_socket_addr` | ask every controller `who_leader`, register with `i_am_broker` | controllers | `LeaderDiscovery` |
| Connection handlers (`brokers.rs` 181-355) | `server.clients` | insert the writer, read batches, feed the request pool, remove the writer | request pool | `Broker`, `BrokerLocks` |
| Request pool (`server_workers.rs` 19-282) | a chain of oneshots over all requests, four workers | run `HandleOperation`, wait for the previous request or not, answer or pass on | partition pool, `ConsumerReg`, response pool | `Broker` |
| `HandleOperation` (308-535) | shard map, topics, partition objects, consumer lists, log files | `topic_insert`, `topic_data_insert`, `consumer_assignment`, `subscribe`, `who_leader` | - | `Broker`, `BrokerLocks` |
| Partition pool (`partition_worker.rs`) | channel, dispatcher, four workers, chain of oneshots | write the value, ack the producer, notify | response pool, consumer pool | `OrderedPool`, `Broker`, `BrokerLocks` |
| Consumer pool (`consumer_worker.rs` 21-206) | as the partition pool | send the value to the consumers of its partition | response pool | `OrderedPool`, `Broker`, `BrokerLocks` |
| Consumer registration (`consumer_worker.rs` 220-445) | `Consumergrp` | give out an id, rebalance the topic's partitions over the group | response pool | `Broker`, `BrokerLocks` |
| Response pool (`server/init.rs` 84-136) | one channel, one task | write an answer to its client's socket, or drop it | clients | `Broker`, `BrokerLocks` |
| Client (`client/init.rs`) | streams to brokers, `metadata`, the `waiting` map, consumers | batch and send requests, match responses, `insert_topic`, `send_topic_data`, `subscribe` | controllers, brokers | `Client` |

What makes it hard:

* **Four workers and one order.** Both inner pools hand requests round robin to
  workers with channels of their own, and restore one order by a chain of oneshots.
  The request pool has such a chain too, but some requests do not wait for it.
* **Steps between awaits.** `consumer_assignment` clears and pushes in two steps;
  a data insert carries the `Arc` of a partition object that a `topic_insert` may
  replace; the announced term is read again for each peer; `i_am_broker` enters an
  address before its connection.
* **Two channels into one task.** The client's background reader selects among
  registrations and answers, in either order.
* **Backpressure and locks.** Every channel is bounded and every send suspends,
  sometimes with a lock held; tokio's locks are fair, so a waiting writer blocks readers.
* **Three writers of the term.** The timer task and two handlers of a controller
  interleave, and messages of different terms overtake one another.
* **Arrangements that travel.** The controller arranges a consumer group, the client
  passes the arrangement on, and brokers apply it partition by partition.
* **Partial failure.** A file that cannot be created or written, a client that
  leaves with answers on their way, a broker that never registers or is lost, a task that
  panics.

What makes each part correct: the pools are serial executors; a request gets one
answer and gets it in the end; an acked value is in its file, in the order of the
acks, and consumers hear of it afterwards and in that order; a partition's list
keeps a consumer, and a group's consumers share its topic; a controller votes once in
a term, its term never goes back, votes are counted right, a leader gets known and
brokers join it; a topic's partitions are divided whole and exist where the mapping
says; a group's ids are unique, its shares even; a call of the client returns with the
answer to its own request.

## Modules

| Module | What it is |
|---|---|
| `SerialExecutor` | abstract: requests start one at a time, in the order they were accepted |
| `OrderedPool` | `PartitionPool` and `ConsumerPool` without the work itself: channel, dispatcher, workers, oneshots; implements `SerialExecutor` |
| `OrderedPoolProofs` | its proofs |
| `Broker` | one broker from a request read to the answer written; two instances of `SerialExecutor` stand for its inner pools |
| `BrokerProofs` | its proofs: types, one answer to each request, acks and files |
| `BrokerOrderProofs` | its proofs: orders of answers and notifications, and what the partitions' lists hold |
| `BrokerLocks` | the locks and the response channel of a broker, as programs of acquire, release and send |
| `BrokerLocksProofs` | its proofs |
| `Election` | timer tasks, handlers and connections of the controllers |
| `ElectionProofs` | proofs about the election and about `LeaderDiscovery` |
| `LeaderDiscovery` | brokers that start, over `Election` |
| `Controller` | registrations, topics and consumer groups at the leader |
| `ControllerProofs` | proofs about `Controller` and `ConsumerGroups` |
| `ConsumerGroups` | `Controller`, the clients that pass assignments on, and the brokers' lists |
| `Rpc` | abstract: one call at a time, which returns with its own answer |
| `Client` | the client library's methods and tasks; implements `Rpc` |
| `ClientProofs` | its proofs |
| `DataLemmas` | facts about numbers and sequences that the proofs share |
| `MCOrderedPool`, `MCBroker`, `MCBrokerLocks`, `MCElection`, `MCController`, `MCConsumerGroups`, `MCClient` | the instances for TLC |

### OrderedPool

Tasks are numbered by the dispatcher, and a task's number names its oneshot.
`queue` and `workerQueue` are the channels, `worker` says what each worker does
(`idle`, `parked` on its `previous_signal`, `busy`), `signalled` holds the oneshots
that were sent. `Submit` is `sender.send`, `Dispatch` one turn of the dispatcher's
loop (171-221), `Receive`, `Awaited`/`Begin` and `Complete` the worker's loop
(42-166). Taking a request from the channel and sending it to a worker is one step:
the request in the dispatcher's hand counts as one more place in the channel.

### Broker

A request is named by its position in the order in which the request pool received
it, and a data insert's value is that name, so the files, the answers and the
notifications can be compared. The request pool is modelled worker by worker: worker
`w` of `n` takes requests `w`, `w + n`, ... (the round robin of 263-279);
`HandleTopicInsert`, `HandleDataInsert`, ... are the arms of `HandleOperation`;
`AnswerRequest` is the answer of the arms `Ok(None)` and `Err`, which do not wait;
`AnswerLeader`, `ForwardToPartition` and `ForwardToRegistration` wait for the previous
request (`ItsTurn`). `consumer_assignment` is cut at its awaits: locate the partition,
take its lock to copy the list's `Arc`, clear, push.

An `Arc<RwLock<Partition>>` is an index into `partitions`, so that requests and
pools can hold objects a `topic_insert` has replaced; files belong to the topic and
partition number, whichever object names them, and `truncated` is the history of what each
of them lost when it was created anew. `Locked` is the partition's write lock,
held from before the write until the worker's task ends (81-165), through the
suspension in `consumer_pool.send`.

The work of the two inner pools is cut into the steps between their awaits
(`BeginWrite`, `Write`, `AckWrite`, `NotifyConsumers`, `AnswerFailedWrite`;
`BeginNotify`, `CopyConsumers`, `SendToConsumer`, `EndNotify`), while *when* a task
may start and finish comes from `SerialExecutor`. That is justified by
`PoolIsSerial`, proved for every number of workers and every capacity.

`reg` is `ConsumerReg`'s one task: `Register` (id, group, the lookup of the topic,
whose `unwrap` kills the task), `AssignPartition` once for each partition, in the order of a
hash map, and `AckSubscription`; `dealt` is the history of how many members a group had when a topic
was last dealt out to it. It keeps the topic map's read guard from the lookup to the
ack (`TopicMapRead`), so a `topic_insert` waits for it.

`responses` is the history of what was sent to the response pool, and `delivered`
how far its one task has come; `dropped` are the answers whose client had left.

### BrokerLocks

What the tasks of a broker hold while they wait, which `Broker` leaves out. A job is a
program of acquire, release and send steps, one for each path through the code that takes
the server's lock, a shard's topic map or a partition: reading a request, answering, `topic_insert`,
the lookups of a data insert and an assignment, the write of a value, the notification of consumers,
a registration, a connection that comes or goes. `Program` is the set of all of them, for every topic,
partition and connection; an instance says which ones run together, each once (`Job`, `ProgramOf`). Locks queue fairly, as
tokio's do: a reader behind a waiting writer waits. The response pool takes the server's lock
for each answer, and then writes to the socket, which fills when the other side does not read (`Deaf`).
A connection may end (`Ends`): its handler takes the server's lock to remove it from `clients`, and an answer
is thrown away (`lost`) if it comes after that (`FindWriter`, init.rs 99-103) or if the peer is gone and
the write fails (`WriteResponse`, 129-131). A registration for a topic that does not exist (`RegisterUnknown`) ends
with the lookup, whose panic drops the guard.
The locks of the consumer lists, the groups and the clients' writers are left out, since who has one of them
waits for no other lock, and so are the channels between the pools, which `OrderedPool` and `Broker` have. Each request is a job of
its own, though a broker has four workers for them: one that waits for a worker or for its turn has no lock.

`WaitCycle` is the one way in which tasks stop each other: a partition worker, a lookup and a registration,
each with the lock the next one waits for, two of them behind writers.

### Election and LeaderDiscovery

`channel[i][j]` is the TCP connection from `i` to `j`, `reply[j][i]` the answer on
it, `campaign[i]` the timer task's locals (term, next peer, `accept_count`), `peers[i]`
the order in which the peer map happens to list the peers. `handler[i][j]` is `j`'s
task for the connection from `i`: it reads the leader flag first (`Admit`, 332),
which waits while `j` is announcing, because the winner keeps the flag's write lock
until every peer was told (262-298); then it handles the message in one step (`Reject`,
`Accept`) or, for `leader_elected`, in three: the term, the address and the flag are written each under
a lock of its own (`LearnLeader`, `SaveLeader`, `StepDown`). The term announced is read anew for each peer
(`AnnounceNext`). The timer task ends when its controller wins (`EndAnnouncement`), as
in the code: no controller can win twice.

Time is left out: a waiting timer may expire at any moment, so every choice of
timeouts and delays is covered. Heartbeats, which only restart a timer, are covered by
that, and are not sent. `votes` is a history variable. Controllers do not crash in the
code's world (one process), and the connections between them are not made again.

`LeaderDiscovery` adds the brokers that start meanwhile. `Ask` is one question of the round
and the answer to it: it names a leader or not, and `home` is set by the first that does.
`JoinHome` is `i_am_broker` at that controller, and there is no other question ever after.

### Controller and ConsumerGroups

`registration[b]` is how far `i_am_broker` of broker `b` came: its address entered, then its
connection (`NameBroker`, `KeepSocket`). `create_topic` is cut at its awaits: `PlaceShare` looks up
one broker after another and adds its local partitions to the mapping under the next global
numbers, `SendBatch` writes one broker's `topic_insert` or passes it over, `RecordMapping`
replaces the mapping and answers. `inserts` are the `topic_insert`s no broker has handled.
`subscribe` holds the lock of `consumer_id` from its first step to its last, and is one step.

`ConsumerGroups` composes that with `client.subscribe` (`PassOn`: one assignment for each partition
of the arrangement, consumers of other clients among them) and with the brokers' two steps for
each (`Clear`, `Push`). `made` tells which `topic_insert` made a list, so that a push into a replaced
object is lost as it is in the code.

### Client and Rpc

The methods take `&mut self`, so there is one call (`caller`); behind it are, for each broker, a
dispatcher (`BufferRequest` registers the caller and buffers; the request in its hand counts as one more
place in its channel; `Flush` writes a batch when it is full
or the channel is quiet) and a reader of its socket, then the background reader, whose `select!`
is the free choice between `TakeRegistration` and `TakeResponse`, and the consumer pool
(`HandOver`). A request's number stands for the random id drawn for it. Brokers are their contract,
from `Broker`: each request is answered once, in any order. A dropped receiver kills the
consumer pool, and the next message for a consumer then kills a reader, as the `unwrap`s do.

`Rpc` is the promise to the caller. The refinement maps the call that awaits an answer and the answers that
callers got; everything else is stuttering.

## Runs

All bounds are constants of the MC modules or of the configurations. Several MC modules have a
variable `scenario`, chosen in the initial state and never changed: one run explores each of
its scenarios. Deadlock is checked in every run but the two that are to find one, where the system is expected to
stop; an instance that has used up its bound may stutter (`Quiescent`, `Done`), and only then.

| Run | Instance | Shows |
|---|---|---|
| `pool` | 3 workers, tiny channels, 5 requests | `InOrder`, `ImplementsSerialExecutor` (which implies `OneAtATime`), and `EveryAcceptedCompletes` under fairness |
| `broker` | 2 workers, request pool of 2, partition pool, consumer pool, registration channel and response channel of 1, both file operations may fail; scenarios: 4 requests of five kinds; 4 with two consumers assigned to one partition; 4 with subscriptions of two groups to two partitions; 3 of a client that may leave; 3 of two clients with subscriptions to a topic that may not exist | `OneAnswer`, `FileFollowsAnswers`, `NotificationsFollowAcks`, `RunsKeepOrder`, `ListBounded`, `StaysAssigned`, `GroupShares`, `AckedIsWritten`, and `AnsweredUnlessBlocked` under fairness |
| `broker_locks` | a topic is created, a consumer is assigned, a value written, a consumer registers, and the producer leaves with its answer on its way; three connections, one of which never reads; sockets of 1 | `StuckOnlyInCycle`, and `EverybodyEndsUnlessInCycle` under fairness |
| `client` | 2 brokers, 2 consumers, all channels of 1, at most 4 requests, 2 messages to consumers, 5 of both | `ImplementsRpc`, `RequestsInOrder`, `OnePlaceEach`, `LostInARace`, `CallReturnsOrIsStranded` |
| `election` | 3 controllers; scenarios: 2 campaign, one after the other or at once, with all orders of their peers; 3 campaign, one term each; 2 campaign and a broker starts, all orders of its questions | `VoteOnce`, `MajorityUnique`, `DeposedKnowsALeader`, `MembersOfTheElected`, `TermMonotonic`, `LeaderIsFound`, `EveryBrokerJoins` |
| `election_five` | 5 controllers, 2 campaign, terms to 2, one order of peers, until someone is elected | `CountsItsVotes` where a campaign can be lost |
| `controller` | 3 brokers, one may be lost; scenarios: two clients, two topics, a broker that never comes; one client, 0, 1, 4 or 5 partitions | `SharesAreWhole`, `MappedIsMade`, `CreateIsAnswered` |
| `consumer_groups` | 1 broker, 2 clients, 2 groups, 4 calls, 1 or 2 partitions | `LastSubscriberIsListed`, `IdsUnique`, `GroupsAreEven`, `GroupKeepsPartitions` |
| `broker_backpressure` | consumer pool of 1 | **violation** of `EveryRequestAnswered` |
| `broker_lock_cycle` | the jobs of `broker_locks` with the lookup of a data insert for the assignment, and a client that connects instead of the one that leaves | **violation** of `EverybodyEnds` |
| `election_rejected` | 3 controllers | **violation** of `RejectedNeverLeads` |
| `client_race` | 2 requests | **violation** of `AnswersFindTheirCaller` |

Why the bounds are enough. The pool's order is a matter of two tasks next to each
other in the chain and of one worker getting its second task; three workers and more
tasks than workers have both, and the theorems take it to every size. In the broker a request can be
overtaken by one behind a request that does not wait: a write, one such request and another
write, on two workers, with the topic created before. An assignment needs another, a write and a re-creation
beside it to be disturbed; two consumers and two partitions tell a group that was dealt out evenly, one each,
from one in which a consumer got both. A consumer pool of one place fills with the second value. Five tasks close
the circle of locks, and the theorems say that more do not close another. In the
election two candidates and a voter have every conflict
of two campaigns, of which none is lost, so that terms go to 2; three candidates have the split vote. With three controllers the
code's threshold is the own vote, so no campaign is ever lost; five are needed for `Lose`.
Brokers do not meet before they are members, so one stands for all. Three brokers have both remainders
of a division, and fewer partitions than brokers. Two creations of a topic with two
subscriptions between and after them, or a creation and three subscriptions, are what four calls allow: a
group's partitions can be renewed, ids repeated, and more consumers than partitions. In the client two
requests to a broker share a batch of two or go in two, and two messages to a consumer kill the pool
and then a reader; symmetry is used in `consumer_groups` only, which has no liveness property.

Every property is broken by a mutant of the model, an operator kept next to the
definition it replaces and marked as a bug to tell apart.

### Fairness

Each tokio task runs again whenever it can: weak fairness per worker of the request
pool, per inner pool, for `ConsumerReg`, the response pool, each timer task and each handler, each task of the
client, each lock that is granted. Nobody is obliged to send a request. Clients and brokers read what they are
sent unless they are `Deaf` or dead, or leave. In the election a timer that waits must expire only
while no controller has its leader flag set (`DueTimerStep`): a leader's heartbeats restart the timers,
and without one only the brokers' questions come, once a second, where timers are 150 to 300 ms.
Writes to files are taken to return. In `Client` the choices of one task share one fairness condition,
so `select!` may prefer either channel for ever while both have something, which bounded requests never do.

### Findings

1. **Deadlock under backpressure** (`partition_worker.rs` 110): a partition worker waits
   for room in the consumer pool with the partition's write lock held, and the
   consumer worker that would make room needs the read lock of that partition. The run
   uses a pool of one place; the code's has some 2050, and it fills whenever values are
   written faster than they are handed on, since acks do not wait for notifications.
2. **A rejected candidate leads** (`controller.rs` 261): the threshold of three
   controllers is met by the own vote, so rejection has no effect, and one term can have
   two leaders. That a *majority* is unique in a term (`MajorityUnique`) is proved: only the
   threshold is wrong.
3. **An answer overtakes its registration** (`client/init.rs` 182): both are queued and `select!` takes
   the answer first; it is thrown away and the caller waits for ever. `LostInARace` shows that this is
   the only way an answer is lost.
4. **Deadlock of the locks** (`partition_worker.rs` 84): a partition worker with its partition
   locked asks for the server's lock, a lookup that has the server's asks for the topic map's, and a registration that has the
   map's asks for the partition. Each of the three reads, but a connection that waits to write the server and a
   `topic_insert` that waits to write the map are ahead of two of them, and tokio's fair locks let no reader pass.
   No channel has to be full. It is proved that this is the only circle, that it never opens, and that it takes
   both writers (`BrokerLocksProofs`).

### What the properties allow for

Behaviours of the code the passing properties make an exception for; each is in the models.

* A subscription to an unknown topic panics `ConsumerReg` (`consumer_worker.rs` 289): no later one is
  answered. `AnsweredUnlessBlocked` excepts subscriptions from then on, and executions in which the partition pool and the
  consumer pool come to block each other for ever (finding 1), and nothing else.
* A `topic_insert` of a topic that exists empties its files (`File::create`, `partition.rs` 67), and acked values are
  gone. `AckedIsWritten` excuses a value that was in the file of its own topic and partition when that file was emptied,
  and no other.
* A `topic_insert` also replaces the partition objects by ones without consumers (`server_workers.rs` 348-354). `StaysAssigned` is
  about an object, so it does not say that a partition of the topic keeps a consumer across that.
* An answer to a connection that ends can be lost, after the handler removed it (`init.rs` 99-103) or because the write fails (129-131).
  `EverybodyEndsUnlessInCycle` promises answers to those who stay, and `AnsweredUnlessBlocked` to clients that did not leave.
* `ConsumerReg` holds the topic map's read guard while it sends its ack. With the response channel full a
  longer cycle `ConsumerReg`, response pool, server lock, connection, lookup, `topic_insert` closes, and with a
  full socket of a peer that does not read the response pool stops: `StuckOnlyInCycle` is about a channel that
  has room, and `EverybodyEndsUnlessInCycle` is checked with one and with as much socket as is sent to that peer. The controllers are such peers:
  they never read the connections they send `topic_insert` over.
* `consumer_assignment` clears the consumers of every group (`server_workers.rs` 519), so `GroupShares` holds
  while nobody assigns, and `LastSubscriberIsListed` is about the last arrangement of any group. `StaysAssigned` asks for a consumer of
  any group: that those of the other groups vanish is not caught.
* Who joins a group after a topic was dealt out has no share of it until the next subscription to it: `GroupShares` is about
  the members the group had then.
* A consumer is listed at the connection its assignment came over, not at its own (514), so values for one
  client's consumer go to the client that subscribed last; `LastSubscriberIsListed` states just that.
* The leader never records its own address (`controller.rs` 263): it answers `who_leader` as if it knew none, and
  brokers join when a follower tells them. `EveryBrokerJoins` shows they do.
* `create_topic` maps partitions to a broker whose address is known and passes over its batch if its
  connection is not (757, 771), and answers before any broker has created the topic (806). Two
  creations of a topic can reach the map and a broker in different orders. `MappedIsMade` says what is left: of
  a topic created once, what was sent exists or is on its way.
* `subscribe` of the client drops the new consumer's receiver (`client/init.rs` 900-915), so the first value for it
  kills the client's consumer pool (159) and the second a reader: `CallReturnsOrIsStranded` excepts the calls
  of a broker whose reader died.
* A group that subscribes to several topics deals each of them to all its consumers: `GroupsAreEven` is about
  groups of one topic.

## Proofs

Each theorem speaks of every value of the constants, under the named assumption of its
module. A part of an inductive invariant that is stronger than the property was checked by TLC
on the run's instance before it was proved.

`OrderedPoolProofs`, for every set of requests, number of workers and capacity
(`PoolAssumption`: all at least 1):

* `ChainIntact`: `IInv` is inductive. Exclusion and order are not inductive by
  themselves: they follow from what the oneshots link. `IInv` says that every task waits
  for the task before (`Linked`), that what is in a channel or parked has not started
  (`Waiting`), that a task is in one place (`OnePlace`), that everything started but
  the last has signalled and the last has unless a worker is busy with it (`Chain`),
  and that starts are in order (`InOrder`). A parked worker may begin only if the task before has
  signalled; so that task was the last to start, and nobody is busy.
* `TypeCorrect`, `MutualExclusion`, `OrderKept`: the checked invariants.
* `PoolIsSerial`: the refinement. `Submit` maps to `Accept`, `Begin` to `Start`, `Complete`
  to `Finish`, the other steps to stuttering.

`BrokerProofs` and `BrokerOrderProofs`, for every number of connections, topics, partitions,
groups, workers and requests, every capacity and every set of file operations that may fail
(`BrokerAssumption`: the sizes are at least 1; `OperationAssumption`: requests are those that the
parser lets through). The work of a request crosses five tasks, so the invariant is made of parts
that speak of a few variables each, and a frame lemma for each group of variables names the actions
that change it:

* `BrokerTypes`: `TypeInv`, the types together with what the tasks hold: a worker's task is a
  request once it was received, an object it located exists, a pool is at work on what it started.
* `AnsweredOnce`: `PathInv`. A worker goes through the requests dealt to it without coming back
  (`DealtInTurn`); a request enters the partition pool or the registration channel once, and is
  signalled by then (`PartitionQueuedOnce`, `RegQueuedOnce`); and whoever has it next is the only one
  that will answer it (`AnsweredLast`).
* `AckMeansWritten`: `WrittenInv` carries the write from `Write` to `AckWrite`. That it is in the file its producer named takes that
  an object keeps its topic and partition (`NamedBy`) and that what the pool holds was located for its request (`QueuedWell`).
* `FilesFollowAnswers`: in a file only the value being written is not answered yet (`FileInv`), so
  an answer comes at the end of both orders.
* `ConsumersFollowAcks`: values are handed to the consumer pool in the order of their acks
  (`AckedInOrder`), it starts them in that order, and a notification is of the one it is at
  (`NotifiedFromPool`). This needs that both pools are serial, hence `PoolIsSerial`.
* `OrderUnlessAnsweredAtOnce`: `ChainInv`. A request that waited its turn has the one before it
  signalled; so a request that is overtaken has, between it and the one that overtook it, one
  that was signalled without waiting.
* `ListsAreBounded`: `ListBounded` is inductive given the types. Between its clear and its
  push a worker has a place to spare, and a subscription drops one entry of its group for the one it adds.
* `GroupSharesHold`: `SharesInv`. A group that a topic was dealt out to has one entry in each list, dealt in
  turn over some order of the partition objects to the members it had then, the first `dealt` (`AllDealt`), so that each of
  them, also one with nothing, is within one of each other; while
  `ConsumerReg` is dealing, this is so of the first `reg.next` objects of the order, and the others are those it has left
  (`PartlyDealt`). It takes that no two partitions have one object (`ObjectsDiffer`), that a member is in its
  group once (`MembersDiffer`), and what the retain and push keep of other groups (`RejoinPlaces`).
* `PartitionsStayAssigned`: `StaysAssigned`, by an invariant for each partition from the time it has a consumer.

`BrokerLocksProofs`, for every number of jobs, shards, topics, partitions, consumers and connections, whichever peers
are deaf and whatever the channel and the sockets hold (`LocksAssumption`: at least 1; `ProgramsAssumption`: every job runs one of
the programs of `Program`):

* `LocksInvariant`: `LockInv` is inductive. Who has a lock is between the steps of its program that acquire and
  release it (`HeldByProgram`); who is in a queue is at the step that asks, and there once (`QueuedAtStep`); the response pool waits in the
  server's queue when it says so. That a lock is released by its owner, and only while held, follows from the programs being
  `Orderly`: what a program holds it gives back by its end, and while it has a lock it asks for another in three cases only, a map
  with the server's, a partition with a map, the server's with a partition it writes. `ProgramsAreOrderly` shows this of all of
  `Program` from the pieces they are put together of, for a registration that goes over any number of partitions too.
* `LocksTypeCorrect`: a lock held to write is held alone, and the types.
* `TasksStopOnlyInCycle`: `StuckOnlyInCycle`. When nobody moves, every task that has not ended is in a queue, behind
  somebody who is in another; after a partition comes the server, after the server a map, after a map a partition. A reader
  only waits for readers behind a writer.
* `CycleIsForEver`: the tasks of the circle release nothing, and the first of each of its queues cannot have the lock.
* `CycleNeedsBothWriters`: without a connection that comes or goes, or without a topic that is created, it does not close.
* `AnswersAccountedFor`: `Accounted`, which counts. What was sent to a connection was read, is in its socket, in the response
  channel or at the response pool, or was thrown away, once each; and it is thrown away only for a connection that ends.
* `RestMeansServed`: from these, if a broker comes to rest with room in the response channel, everything has ended and who reads and stays
  has read all that was sent to it, but for the circle and a full socket nobody reads. It is `EverybodyEndsUnlessInCycle` without the
  coming to rest, which takes fairness and stays with TLC.

`ElectionProofs`, for every finite non-empty set of controllers, every order of peers and
every bound on terms (`ElectionAssumption`):

* `ElectionInvariant`: `IInv` is inductive: types, an admitted handler has its message,
  no vote is newer than its voter's term, and `VoteOnce`. A vote is given in a term the
  voter has just entered, so it cannot have voted in it before.
* `TypeCorrect`, `OneVotePerTerm`, `TermsGrow`: the checked properties.
* `OneMajorityPerTerm`: two majorities share a controller, which voted once.
* `DeposedReports`: a handler that is about to clear the flag has taken the new leader's address
  before (`DepositionKnown`).
* `CountIsHonest`: `CampaignInv`. A candidate has one question out at most (`QuestionsOf`), nobody has
  voted for it in a term it has not reached (`BehindOf`), and its supporters are those it asked and counted and the one
  whose acceptance is on its way (`CountedOf`). Terms have to be compared with `campaign[i].term`,
  not `term[i]`, which a handler may raise during the campaign.

`ElectionProofs` also, about `LeaderDiscovery`, for every number of controllers and brokers and every order in which
brokers ask:

* `JoinsTheElected`: a broker is a member only of a controller that won an election. The
  inductive invariant `DiscoveryInv` is that of the election together with the way the news
  travels: a `leader_elected` in a channel is of a controller that won (`Announced`), so is a
  leader that a controller reports (`ReportedIsElected`) and one that a broker keeps
  (`HomeIsElected`), and a handler that is about to save an address has it from such a one (`LearnedFromElected`); a campaign once won
  stays won (`ElectedStays`).
* `DiscoveryTypeCorrect`: types, from the same invariant.

`ControllerProofs`, for every number of clients, brokers, topics, groups and calls, and every set of
partition counts (`ControllerAssumption`):

* `ControllerTypeCorrect`: `ControllerTypes`. To keep an arrangement's consumers members of
  something, the group's consumers, the handlers' mappings and the calls have to be typed with it.
* `IdsAreUnique`: no two consumers have one id. The inductive invariant `IdsInv` adds that
  every id is below `consumerId`; a handler that dies takes its id with it. (`consumer_id` is
  a `u64`; the model counts in `Nat`, as a process does not live for 2^64 subscriptions.)
* `GroupsKeepTheirPartitions`: a rebalance changes consumers and nothing else.
* `GroupsStayEven`: while a group has one topic, partition `i` belongs to consumer
  `(i - 1) % Len(consumers) + 1` (`GroupsInTurn`), also when a new consumer is one too many and
  nothing is dealt out again; and what is dealt in turn is even (`RoundsAreEven`).
* `SharesStayWhole`: `SharesSoFar`, of the brokers looked up so far; the shares add up
  (`SharesAddUp`), which takes the division with remainder.
* `WhatIsMappedIsMade`: while a topic that is created once is looked up and sent, every mapped partition's batch is unsent,
  underway, handled or given up (`MadeWhileCreated`), and no `topic_insert` underway has fewer partitions than
  the mapping (`MadeWhenKept`). That needs to know that inserts and handlers come
  from calls, no two handlers from one (`FromCalls`).

`ControllerProofs` also, about `ConsumerGroups`, under the same assumption and one more, that there is a greatest
number of partitions asked for (`CountsAssumption`: the model's lists have that many places):

* `GroupsAreControlled`: the composed system implements `Controller!Spec`, so the theorems above hold of it. The
  run `consumer_groups` checks three of them there.
* `LastSubscriberListed`: `GroupsInv`. Of a topic that was not disturbed, every partition of the last
  arrangement has either its own assignment underway, alone at that partition and, once it has cleared the list, with
  the list empty (`Begun`), or its consumer listed (`PassedOn`). This needs that an arrangement names no partition
  twice (`Proper`), which goes back to the shares: `create_topic` looks each broker up once, and a rebalance only
  changes consumers.

`ClientProofs`, for every set of brokers, topics and consumers, every capacity, batch size and number of
calls (`ClientAssumption`):

* `ClientTypeCorrect`: `ClientTypes`.
* `RequestsKeepOrder`: `RequestsInOrder` is inductive as it stands: a broker's stream of
  requests, from what it has read to what waits in the dispatcher's channel, is its own requests in rising order.
* `CallersKeepAPlace`, `OnlyTheRaceLoses`: `ClientInvariant`. Only one request at a time is without an answer and
  expects one (`CallerWaits`), it is in one place (`Placed`), and an answer on its way back is the only one to
  its request and was given by its broker (`AnswerFlow`).
* `ClientIsRpc`: the refinement of `Rpc`, from the same invariant. Making a request that is
  awaited maps to `Ask`, an answer that finds its caller to `Return`, all else to stuttering.

`DataLemmas` has the lemmas on numbers and sequences that several of these cite: for one, that dealing in turn
is even (`RoundsAreEven`), which the controller's groups and the broker's both need. The library's
induction theorems take an operator as a parameter, which none of the provers used can instantiate; `NatMin` stands in for
them: a non-empty set of numbers has a least element, from the well-foundedness of inclusion among finite sets. With it a
recursive *function* can be reasoned about (`FlattenSeq`, the loop of a rebalance): the least
argument where a claim fails is not the first, and the claim held just before.

Only model-checked: the liveness properties (`EveryAcceptedCompletes`, `AnsweredUnlessBlocked`,
`EverybodyEndsUnlessInCycle`, `CallReturnsOrIsStranded`, `LeaderIsFound`, `EveryBrokerJoins`, `CreateIsAnswered`),
since the prover does neither fairness nor `ENABLED`. Every invariant and every other action property that a run checks
is proved.

## Not modelled

* **Wire format** (`Simplify`, batches): parsing changes no state but that of its own buffer, and every
  sender of the repository writes well-formed messages; the models take parsed requests.
* **Heartbeats**: a message whose only effect is to restart a timer; `Election` leaves time out.
* **Cluster start**: fixed addresses, random timers, everything started once and in one process; its
  numbers are the constants of the models. A crash of the process ends all of it, and nothing is
  read back from the files.
* **Command line, errors**: no state of their own.
* **Stubs and benchmarks** (`consumer/`, `producer/`, `producer_benchmark.rs`,
  `kafka_producer_benchmark.rs`): commented out, or a stub that nothing calls.
