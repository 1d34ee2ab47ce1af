------------------------------- MODULE Broker -------------------------------
(***************************************************************************)
(* One broker: connection handlers, the request pool, the partition pool,  *)
(* the consumer pool and the response pool, from the moment a request of a *)
(* client is read until its answer is written to a client's socket.        *)
(*                                                                         *)
(* The partition and the consumer pool are serial executors, which is what *)
(* OrderedPool shows them to be.  The request pool is not: its workers run *)
(* HandleOperation before they wait for the previous request, and requests *)
(* that are answered at once do not wait at all, so it is modelled here    *)
(* worker by worker.                                                       *)
(*                                                                         *)
(* A request is named by its position in the order in which the request    *)
(* pool received it; the value of a topic_data_insert is that name.  An    *)
(* Arc<RwLock<Partition>> is an index into partitions.                     *)
(***************************************************************************)
EXTENDS Naturals, Sequences, FiniteSets, SequencesExt

CONSTANTS
  Client,            \* connections, by their socket address
  Topic,
  ShardOf,           \* GetShard: the shard a topic's name hashes to
  Group,             \* consumer groups
  Consumer,          \* consumer ids, as the controller hands them out
  MaxPartitions,     \* partitions of a topic on this broker, at most
  Operation,         \* the operations clients send
  Faults,            \* which file operations may fail: subset of {"create", "write"}
  RequestWorkers,    \* InitWorkers(4)
  RequestBacklog,    \* unanswered requests the request pool can hold
  PartitionBacklog,  \* unfinished requests the partition pool can hold
  ConsumerBacklog,   \* unfinished requests the consumer pool can hold
  RegistrationCap,   \* capacity of ConsumerReg's channel (1024)
  ResponseCap        \* capacity of the response pool's channel (1024)

ASSUME BrokerAssumption ==
  /\ Faults \subseteq {"create", "write"}
  /\ {MaxPartitions, RequestWorkers, RequestBacklog, PartitionBacklog,
      ConsumerBacklog, RegistrationCap, ResponseCap} \subseteq Nat \ {0}

PartitionId == 1 .. MaxPartitions

(* The operations of HandleOperation, with the part of the payload that
   decides what happens. *)
TopicInsert(t, count) == [op |-> "topic_insert", topic |-> t, count |-> count]
DataInsert(t, p) == [op |-> "topic_data_insert", topic |-> t, partition |-> p]
Assignment(t, p, g, k) ==
  [op |-> "consumer_assignment", topic |-> t, partition |-> p, group |-> g, consumer |-> k]
Subscribe(t, g) == [op |-> "subscribe", topic |-> t, group |-> g]
WhoLeader == [op |-> "who_leader"]
Unknown == [op |-> "unknown"]

(* Clients send any of these, with any partition number. *)
ASSUME OperationAssumption ==
  Operation \subseteq
    [op : {"topic_insert"}, topic : Topic, count : 0 .. MaxPartitions]
      \cup [op : {"topic_data_insert"}, topic : Topic, partition : Nat]
      \cup [op : {"consumer_assignment"}, topic : Topic, partition : Nat,
            group : Group, consumer : Consumer]
      \cup [op : {"subscribe"}, topic : Topic, group : Group]
      \cup [op : {"who_leader", "unknown"}]

VARIABLES
  clients,      \* server.clients: the connections that have a writer
  requests,     \* every request the request pool received, oldest first
  worker,       \* the request pool's workers
  signalled,    \* requests whose signal_sender has been sent
  topicMap,     \* the shard map: a topic's partitions, <<>> while it has none
  partitions,   \* every Partition ever created
  log,          \* the partition files
  truncated,    \* history: the values that were in a file when it was created anew
  pAccepted, pStarted, pFinished,  \* the partition pool
  writing,      \* how far the partition worker at work has come
  cAccepted, cStarted, cFinished,  \* the consumer pool
  registered,   \* Consumergrp.consumers: consumer number i is registered[i]
  members,      \* Consumergrp.grp: the consumers of a group, oldest first
  dealt,        \* history: how many they were when a topic was last dealt out to them
  regQueue,     \* ConsumerReg's channel
  reg,          \* what ConsumerReg's task is doing
  notifying,    \* what the consumer worker at work has still to send
  responses,    \* everything sent to the response pool, oldest first
  delivered,    \* how many of them the response pool has taken
  dropped       \* those it found no client for

requestVars == <<clients, requests>>
workerVars == <<worker, signalled>>
topicVars == <<topicMap, partitions, log, truncated>>
partitionPool == <<pAccepted, pStarted, pFinished>>
consumerPool == <<cAccepted, cStarted, cFinished>>
regVars == <<registered, members, dealt, regQueue, reg>>
responseVars == <<responses, delivered, dropped>>
vars == <<requestVars, workerVars, topicVars, partitionPool, writing,
          consumerPool, notifying, regVars, responseVars>>

PartitionPool ==
  INSTANCE SerialExecutor WITH
    Request <- Nat \X Nat, accepted <- pAccepted, started <- pStarted, finished <- pFinished

ConsumerPool ==
  INSTANCE SerialExecutor WITH
    Request <- Nat \X Nat, accepted <- cAccepted, started <- cStarted, finished <- cFinished

Worker == 1 .. RequestWorkers

(* Work for the two pools behind the request pool: a value and the partition
   object it is for. *)
Work(id, part) == [id |-> id, part |-> part]

(* Answers to requests, and the "consumer" messages. *)
Answer(id, ack) == [to |-> requests[id].client, kind |-> "answer", id |-> id, ack |-> ack]
Notification(id, c) == [to |-> c.addr, kind |-> "consumer", id |-> id, consumer |-> c.id]

PartitionBusy == pFinished < Len(pStarted)
ConsumerBusy == cFinished < Len(cStarted)
Writing == pStarted[Len(pStarted)]
Notifying == cStarted[Len(cStarted)]

(* The partition worker holds the partition's write lock from before the
   write until its task ends. *)
Locked(part) ==
  PartitionBusy /\ writing \in {"written", "acked", "failed"} /\ Writing.part = part

Phases == {"idle", "located", "listed", "cleared", "ordered", "answer"}

(* Ids are the controller's or, for consumers that subscribed here, numbers. *)
ListedConsumer == [id : Consumer \cup Nat, addr : Client, group : Group]

NotRegistering == [phase |-> "idle"]

TypeOK ==
  /\ clients \subseteq Client
  /\ requests \in Seq([client : Client, op : Operation])
  /\ worker \in [Worker -> [task : Nat \ {0}, phase : Phases, part : Nat, ack : BOOLEAN]]
  /\ signalled \subseteq DOMAIN requests
  /\ topicMap \in [Topic -> Seq(DOMAIN partitions)]
  /\ partitions \in Seq([topic : Topic, id : PartitionId,
                         consumers : Seq(ListedConsumer)])
  /\ log \in [Topic -> [PartitionId -> Seq(DOMAIN requests)]]
  /\ truncated \in [Topic -> [PartitionId -> SUBSET DOMAIN requests]]
  /\ writing \in {"none", "begun", "written", "acked", "failed"}
  /\ (writing = "none") = ~PartitionBusy
  /\ notifying \in [copied : BOOLEAN, left : Seq(ListedConsumer)]
  /\ registered \in Seq([addr : Client, group : Group])
  /\ members \in [Group -> Seq(DOMAIN registered)]
  /\ dealt \in [Topic -> [Group -> Nat]]
  /\ regQueue \in Seq(DOMAIN requests) /\ Len(regQueue) <= RegistrationCap
  /\ reg.phase \in {"idle", "rebalancing", "dead"}
  /\ delivered \in 0 .. Len(responses)
  /\ dropped \subseteq 1 .. delivered

Init ==
  /\ clients = Client
  /\ requests = <<>>
  /\ worker = [w \in Worker |-> [task |-> w, phase |-> "idle", part |-> 0, ack |-> FALSE]]
  /\ signalled = {}
  /\ topicMap = [t \in Topic |-> <<>>]
  /\ partitions = <<>>
  /\ log = [t \in Topic |-> [p \in PartitionId |-> <<>>]]
  /\ truncated = [t \in Topic |-> [p \in PartitionId |-> {}]]
  /\ PartitionPool!Init
  /\ writing = "none"
  /\ ConsumerPool!Init
  /\ notifying = [copied |-> FALSE, left |-> <<>>]
  /\ registered = <<>>
  /\ members = [g \in Group |-> <<>>]
  /\ dealt = [t \in Topic |-> [g \in Group |-> 0]]
  /\ regQueue = <<>>
  /\ reg = NotRegistering
  /\ responses = <<>>
  /\ delivered = 0
  /\ dropped = {}

----------------------------------------------------------------------------
(* Connections. *)

(* The connection handler reads the next request of a batch and sends it to
   the request pool, which suspends while the pool is full. *)
Submit(c, op) ==
  /\ c \in clients
  /\ Len(requests) - Cardinality(signalled) < RequestBacklog
  /\ requests' = Append(requests, [client |-> c, op |-> op])
  /\ UNCHANGED <<clients, workerVars, topicVars, partitionPool, writing, consumerPool,
                 notifying, responseVars, regVars>>

(* The connection ends: its handler removes the writer and reads no more.
   What it sent is still processed. *)
Disconnect(c) ==
  /\ c \in clients
  /\ clients' = clients \ {c}
  /\ UNCHANGED <<requests, workerVars, topicVars, partitionPool, writing, consumerPool,
                 notifying, responseVars, regVars>>

----------------------------------------------------------------------------
(* The request pool.  The dispatcher deals requests round robin, so worker w
   takes requests w, w + RequestWorkers, w + 2 * RequestWorkers ... *)

Op(w) == requests[worker[w].task].op

Taking(w, operation) ==
  /\ worker[w].phase = "idle"
  /\ worker[w].task <= Len(requests)
  /\ Op(w).op = operation

(* Ok(None) and Err are answered without waiting for the previous request;
   Ok(Some(_)) waits. *)
AnswerAtOnce(w, ack) == worker' = [worker EXCEPT ![w].phase = "answer", ![w].ack = ack]
WaitForTurn(w, part) == worker' = [worker EXCEPT ![w].phase = "ordered", ![w].part = part]

HasPartition(t, p) == p \in DOMAIN topicMap[t]

(* CreatePartitions opens the first n files of the topic with File::create,
   which empties them. *)
Truncate(t, n) ==
  /\ log' = [log EXCEPT ![t] = [p \in PartitionId |-> IF p <= n THEN <<>> ELSE @[p]]]
  /\ truncated' = [truncated EXCEPT ![t] =
       [p \in PartitionId |-> IF p <= n THEN @[p] \cup ToSet(log[t][p]) ELSE @[p]]]

(* ConsumerReg reads the shard's topic map from a subscription's lookup to its
   ack; topic_insert needs to write it. *)
TopicMapRead(t) == reg.phase = "rebalancing" /\ ShardOf[reg.topic] = ShardOf[t]

(* topic_insert: the map entry is replaced by new partition objects, without
   consumers.  A file that cannot be created leaves the map as it was. *)
HandleTopicInsert(w) ==
  LET t == Op(w).topic
      count == Op(w).count
  IN  /\ Taking(w, "topic_insert")
      /\ \/ /\ count = 0
            /\ AnswerAtOnce(w, FALSE)
            /\ UNCHANGED topicVars
         \/ /\ count > 0 /\ ~TopicMapRead(t)
            /\ Truncate(t, count)
            /\ partitions' = partitions \o
                 [p \in 1 .. count |-> [topic |-> t, id |-> p, consumers |-> <<>>]]
            /\ topicMap' = [topicMap EXCEPT ![t] = [p \in 1 .. count |-> Len(partitions) + p]]
            /\ AnswerAtOnce(w, TRUE)
         \/ /\ "create" \in Faults /\ count > 0 /\ ~TopicMapRead(t)
            /\ \E n \in 0 .. count - 1 : Truncate(t, n)
            /\ AnswerAtOnce(w, FALSE)
            /\ UNCHANGED <<topicMap, partitions>>
      /\ UNCHANGED <<requestVars, signalled, partitionPool, writing, consumerPool, notifying,
                     responseVars, regVars>>

(* topic_data_insert: looks the partition up; the result holds its Arc. *)
HandleDataInsert(w) ==
  LET t == Op(w).topic
      p == Op(w).partition
  IN  /\ Taking(w, "topic_data_insert")
      /\ IF HasPartition(t, p) THEN WaitForTurn(w, topicMap[t][p]) ELSE AnswerAtOnce(w, FALSE)
      /\ UNCHANGED <<requestVars, signalled, topicVars, partitionPool, writing, consumerPool,
                     notifying, responseVars, regVars>>

(* who_leader: a broker serves clients only once it knows a leader, so the
   result is always Leader. *)
HandleWhoLeader(w) ==
  /\ Taking(w, "who_leader")
  /\ WaitForTurn(w, 0)
  /\ UNCHANGED <<requestVars, signalled, topicVars, partitionPool, writing, consumerPool,
                 notifying, responseVars, regVars>>

(* subscribe: nothing but parsing; ConsumerReg does the rest. *)
HandleSubscribe(w) ==
  /\ Taking(w, "subscribe")
  /\ WaitForTurn(w, 0)
  /\ UNCHANGED <<requestVars, signalled, topicVars, partitionPool, writing, consumerPool,
                 notifying, regVars, responseVars>>

HandleUnknown(w) ==
  /\ Taking(w, "unknown")
  /\ AnswerAtOnce(w, FALSE)
  /\ UNCHANGED <<requestVars, signalled, topicVars, partitionPool, writing, consumerPool,
                 notifying, responseVars, regVars>>

(* consumer_assignment, in the steps between its awaits: find the partition,
   take its lock for long enough to copy the Arc of its list, clear the list,
   push the consumer at the address this request came from. *)
LocatePartition(w) ==
  LET t == Op(w).topic
      p == Op(w).partition
  IN  /\ Taking(w, "consumer_assignment")
      /\ IF HasPartition(t, p)
           THEN worker' = [worker EXCEPT ![w].phase = "located", ![w].part = topicMap[t][p]]
           ELSE AnswerAtOnce(w, FALSE)
      /\ UNCHANGED <<requestVars, signalled, topicVars, partitionPool, writing, consumerPool,
                     notifying, responseVars, regVars>>

CopyListArc(w) ==
  /\ worker[w].phase = "located"
  /\ ~Locked(worker[w].part)
  /\ worker' = [worker EXCEPT ![w].phase = "listed"]
  /\ UNCHANGED <<requestVars, signalled, topicVars, partitionPool, writing, consumerPool,
                 notifying, responseVars, regVars>>

(* Two bugs to tell apart: the list is not cleared, or a list that had to be
   cleared is taken for an assignment that is done. *)
ClearConsumersSkipped(w) ==
  /\ worker[w].phase = "listed"
  /\ worker' = [worker EXCEPT ![w].phase = "cleared"]
  /\ UNCHANGED <<requestVars, signalled, topicVars, partitionPool, writing, consumerPool,
                 notifying, responseVars, regVars>>

ClearConsumersAndAnswer(w) ==
  /\ worker[w].phase = "listed"
  /\ IF partitions[worker[w].part].consumers = <<>>
       THEN worker' = [worker EXCEPT ![w].phase = "cleared"]
       ELSE AnswerAtOnce(w, TRUE)
  /\ partitions' = [partitions EXCEPT ![worker[w].part].consumers = <<>>]
  /\ UNCHANGED <<requestVars, signalled, topicMap, log, truncated, partitionPool, writing,
                 consumerPool, notifying, responseVars, regVars>>

ClearConsumers(w) ==
  /\ worker[w].phase = "listed"
  /\ partitions' = [partitions EXCEPT ![worker[w].part].consumers = <<>>]
  /\ worker' = [worker EXCEPT ![w].phase = "cleared"]
  /\ UNCHANGED <<requestVars, signalled, topicMap, log, truncated, partitionPool, writing,
                 consumerPool, notifying, responseVars, regVars>>

PushConsumer(w) ==
  /\ worker[w].phase = "cleared"
  /\ partitions' = [partitions EXCEPT ![worker[w].part].consumers =
       Append(@, [id |-> Op(w).consumer, addr |-> requests[worker[w].task].client,
                  group |-> Op(w).group])]
  /\ AnswerAtOnce(w, TRUE)
  /\ UNCHANGED <<requestVars, signalled, topicMap, log, truncated, partitionPool, writing,
                 consumerPool, notifying, responseVars, regVars>>

(* Sending to the response pool suspends while its channel is full. *)
Respond(answer) ==
  /\ Len(responses) - delivered < ResponseCap
  /\ responses' = Append(responses, answer)
  /\ UNCHANGED <<delivered, dropped>>

(* signal_sender.send(true), and on to the worker's next request. *)
SignalNext(w) ==
  /\ signalled' = signalled \cup {worker[w].task}
  /\ worker' = [worker EXCEPT ![w] = [task |-> worker[w].task + RequestWorkers,
                                      phase |-> "idle", part |-> 0, ack |-> FALSE]]

AnswerRequest(w) ==
  /\ worker[w].phase = "answer"
  /\ Respond(Answer(worker[w].task, worker[w].ack))
  /\ SignalNext(w)
  /\ UNCHANGED <<requestVars, topicVars, partitionPool, writing, consumerPool, notifying,
                 regVars>>

(* A bug to tell apart: a worker does not wait for the previous request. *)
ItsTurnAtOnce(w) == TRUE

(* previous_receiver.await returned, or this is the first request. *)
ItsTurn(w) == worker[w].task = 1 \/ worker[w].task - 1 \in signalled

AnswerLeader(w) ==
  /\ worker[w].phase = "ordered" /\ Op(w) = WhoLeader
  /\ ItsTurn(w)
  /\ Respond(Answer(worker[w].task, TRUE))
  /\ SignalNext(w)
  /\ UNCHANGED <<requestVars, topicVars, partitionPool, writing, consumerPool, notifying,
                 regVars>>

(* consumer_req_queue.send: suspends while the channel is full; when ConsumerReg
   is dead it fails, and the request is left without an answer. *)
ForwardToRegistration(w) ==
  /\ worker[w].phase = "ordered" /\ Op(w).op = "subscribe"
  /\ ItsTurn(w)
  /\ IF reg.phase = "dead"
       THEN UNCHANGED regQueue
       ELSE Len(regQueue) < RegistrationCap /\ regQueue' = Append(regQueue, worker[w].task)
  /\ SignalNext(w)
  /\ UNCHANGED <<requestVars, topicVars, partitionPool, writing, consumerPool, notifying,
                 registered, members, dealt, reg, responseVars>>

(* A bug to tell apart: the request pool answers a data insert when it has
   queued it, and the partition pool answers it again. *)
ForwardAndAnswer(w) ==
  /\ worker[w].phase = "ordered" /\ worker[w].part # 0
  /\ ItsTurn(w)
  /\ Len(pAccepted) - pFinished < PartitionBacklog
  /\ PartitionPool!Accept(Work(worker[w].task, worker[w].part))
  /\ Respond(Answer(worker[w].task, TRUE))
  /\ SignalNext(w)
  /\ UNCHANGED <<requestVars, topicVars, writing, consumerPool, notifying, regVars>>

ForwardToPartition(w) ==
  /\ worker[w].phase = "ordered" /\ worker[w].part # 0
  /\ ItsTurn(w)
  /\ Len(pAccepted) - pFinished < PartitionBacklog
  /\ PartitionPool!Accept(Work(worker[w].task, worker[w].part))
  /\ SignalNext(w)
  /\ UNCHANGED <<requestVars, topicVars, writing, consumerPool, notifying, responseVars,
                 regVars>>

----------------------------------------------------------------------------
(* The partition pool. *)

BeginWrite ==
  /\ PartitionPool!Start
  /\ writing' = "begun"
  /\ UNCHANGED <<requestVars, workerVars, topicVars, consumerPool, notifying, responseVars,
                 regVars>>

(* Appends to the file of that name, whichever Partition object names it. *)
AppendToFile ==
  LET part == partitions[Writing.part]
  IN  log' = [log EXCEPT ![part.topic][part.id] = Append(@, Writing.id)]

(* A bug to tell apart: a failed write is taken for a good one. *)
WriteErrorIgnored ==
  /\ writing = "begun"
  /\ AppendToFile \/ ("write" \in Faults /\ UNCHANGED log)
  /\ writing' = "written"
  /\ UNCHANGED <<requestVars, workerVars, topicMap, partitions, truncated, partitionPool,
                 consumerPool, notifying, responseVars, regVars>>

(* partition.write().await, then WriteTOFile.  A failed write may have put
   the value in the file all the same: the newline has a write of its own. *)
Write ==
  /\ writing = "begun"
  /\ \/ AppendToFile /\ writing' = "written"
     \/ "write" \in Faults /\ (AppendToFile \/ UNCHANGED log) /\ writing' = "failed"
  /\ UNCHANGED <<requestVars, workerVars, topicMap, partitions, truncated, partitionPool,
                 consumerPool, notifying, responseVars, regVars>>

(* A bug to tell apart: no ack is sent. *)
AckWriteSkipped ==
  /\ writing = "written"
  /\ writing' = "acked"
  /\ UNCHANGED <<requestVars, workerVars, topicVars, partitionPool, consumerPool, notifying,
                 responseVars, regVars>>

AckWrite ==
  /\ writing = "written"
  /\ Respond(Answer(Writing.id, TRUE))
  /\ writing' = "acked"
  /\ UNCHANGED <<requestVars, workerVars, topicVars, partitionPool, consumerPool, notifying,
                 regVars>>

(* A bug to tell apart: the partition's next task is not woken. *)
NotifyConsumersUnfinished ==
  /\ writing = "acked"
  /\ Len(cAccepted) - cFinished < ConsumerBacklog
  /\ ConsumerPool!Accept(Writing)
  /\ writing' = "none"
  /\ UNCHANGED <<requestVars, workerVars, topicVars, partitionPool, notifying, responseVars,
                 regVars>>

(* consumer_pool.send(..).await with the partition still locked, then the
   completion signal. *)
NotifyConsumers ==
  /\ writing = "acked"
  /\ Len(cAccepted) - cFinished < ConsumerBacklog
  /\ ConsumerPool!Accept(Writing)
  /\ PartitionPool!Finish
  /\ writing' = "none"
  /\ UNCHANGED <<requestVars, workerVars, topicVars, notifying, responseVars, regVars>>

(* A bug to tell apart: a failed write is not answered. *)
AnswerFailedWriteSkipped ==
  /\ writing = "failed"
  /\ PartitionPool!Finish
  /\ writing' = "none"
  /\ UNCHANGED <<requestVars, workerVars, topicVars, consumerPool, notifying, responseVars,
                 regVars>>

AnswerFailedWrite ==
  /\ writing = "failed"
  /\ Respond(Answer(Writing.id, FALSE))
  /\ PartitionPool!Finish
  /\ writing' = "none"
  /\ UNCHANGED <<requestVars, workerVars, topicVars, consumerPool, notifying, regVars>>

----------------------------------------------------------------------------
(* The consumer pool. *)

BeginNotify ==
  /\ ConsumerPool!Start
  /\ notifying' = [copied |-> FALSE, left |-> <<>>]
  /\ UNCHANGED <<requestVars, workerVars, topicVars, partitionPool, writing, responseVars,
                 regVars>>

(* partition.read().await, then a copy of the list. *)
CopyConsumers ==
  /\ ConsumerBusy /\ ~notifying.copied
  /\ ~Locked(Notifying.part)
  /\ notifying' = [copied |-> TRUE, left |-> partitions[Notifying.part].consumers]
  /\ UNCHANGED <<requestVars, workerVars, topicVars, partitionPool, writing, consumerPool,
                 responseVars, regVars>>

SendToConsumer ==
  /\ notifying.left # <<>>
  /\ Respond(Notification(Notifying.id, Head(notifying.left)))
  /\ notifying' = [notifying EXCEPT !.left = Tail(@)]
  /\ UNCHANGED <<requestVars, workerVars, topicVars, partitionPool, writing, consumerPool,
                 regVars>>

EndNotify ==
  /\ notifying.copied /\ notifying.left = <<>>
  /\ ConsumerPool!Finish
  /\ notifying' = [copied |-> FALSE, left |-> <<>>]
  /\ UNCHANGED <<requestVars, workerVars, topicVars, partitionPool, writing, responseVars,
                 regVars>>

----------------------------------------------------------------------------
(* ConsumerReg: one task. *)

(* The partition objects in the order in which the topic's map lists them. *)
Orders(parts) ==
  {order \in [1 .. Len(parts) -> ToSet(parts)] : ToSet(order) = ToSet(parts)}

(* A new consumer, whose id follows the largest one, joins its group.  A topic
   that does not exist panics the task. *)
Register ==
  LET id == Head(regQueue)
      t == requests[id].op.topic
      g == requests[id].op.group
      new == Len(registered) + 1
  IN  /\ reg.phase = "idle" /\ regQueue # <<>>
      /\ regQueue' = Tail(regQueue)
      /\ IF topicMap[t] = <<>>
           THEN reg' = [phase |-> "dead"] /\ UNCHANGED <<registered, members, dealt>>
           ELSE /\ registered' = Append(registered, [addr |-> requests[id].client, group |-> g])
                /\ members' = [members EXCEPT ![g] = Append(@, new)]
                /\ dealt' = [dealt EXCEPT ![t][g] = Len(members'[g])]
                /\ \E order \in Orders(topicMap[t]) :
                     reg' = [phase |-> "rebalancing", id |-> id, topic |-> t, group |-> g,
                             left |-> order, next |-> 0]
      /\ UNCHANGED <<requestVars, workerVars, topicVars, partitionPool, writing, consumerPool,
                     notifying, responseVars>>

(* The group's old consumer of the partition is replaced in one step, under the
   list's lock. *)
Rejoin(list, c) ==
  LET kept[i \in 0 .. Len(list)] ==
        IF i = 0 THEN <<>>
        ELSE IF list[i].group = c.group THEN kept[i - 1] ELSE Append(kept[i - 1], list[i])
  IN  Append(kept[Len(list)], c)

(* A bug to tell apart: the count of the partitions dealt out does not go on. *)
AssignPartitionToFirst ==
  LET part == Head(reg.left)
      k == members[reg.group][1]
  IN  /\ reg.phase = "rebalancing" /\ reg.left # <<>>
      /\ ~Locked(part)
      /\ partitions' = [partitions EXCEPT ![part].consumers =
           Rejoin(@, [id |-> k, addr |-> registered[k].addr, group |-> reg.group])]
      /\ reg' = [reg EXCEPT !.left = Tail(@)]
      /\ UNCHANGED <<requestVars, workerVars, topicMap, log, truncated, partitionPool, writing,
                     consumerPool, notifying, registered, members, dealt, regQueue,
                     responseVars>>

(* The consumers of the group get the topic's partitions in turn. *)
AssignPartition ==
  LET part == Head(reg.left)
      group == members[reg.group]
      k == group[(reg.next % Len(group)) + 1]
  IN  /\ reg.phase = "rebalancing" /\ reg.left # <<>>
      /\ ~Locked(part)
      /\ partitions' = [partitions EXCEPT ![part].consumers =
           Rejoin(@, [id |-> k, addr |-> registered[k].addr, group |-> reg.group])]
      /\ reg' = [reg EXCEPT !.left = Tail(@), !.next = @ + 1]
      /\ UNCHANGED <<requestVars, workerVars, topicMap, log, truncated, partitionPool, writing,
                     consumerPool, notifying, registered, members, dealt, regQueue,
                     responseVars>>

AckSubscription ==
  /\ reg.phase = "rebalancing" /\ reg.left = <<>>
  /\ Respond(Answer(reg.id, TRUE))
  /\ reg' = NotRegistering
  /\ UNCHANGED <<requestVars, workerVars, topicVars, partitionPool, writing, consumerPool,
                 notifying, registered, members, dealt, regQueue>>

----------------------------------------------------------------------------
(* The response pool: one task, one response at a time. *)
Deliver ==
  /\ delivered < Len(responses)
  /\ delivered' = delivered + 1
  /\ dropped' = IF responses[delivered + 1].to \in clients THEN dropped ELSE dropped \cup {delivered'}
  /\ UNCHANGED <<requestVars, workerVars, topicVars, partitionPool, writing, consumerPool,
                 notifying, responses, regVars>>

----------------------------------------------------------------------------
RequestStep(w) ==
  \/ HandleTopicInsert(w) \/ HandleDataInsert(w) \/ HandleWhoLeader(w) \/ HandleUnknown(w)
  \/ HandleSubscribe(w) \/ ForwardToRegistration(w)
  \/ LocatePartition(w) \/ CopyListArc(w) \/ ClearConsumers(w) \/ PushConsumer(w)
  \/ AnswerRequest(w) \/ AnswerLeader(w) \/ ForwardToPartition(w)

PartitionStep == BeginWrite \/ Write \/ AckWrite \/ NotifyConsumers \/ AnswerFailedWrite
ConsumerStep == BeginNotify \/ CopyConsumers \/ SendToConsumer \/ EndNotify

RegistrationStep == Register \/ AssignPartition \/ AckSubscription

BrokerStep ==
  \/ \E w \in Worker : RequestStep(w)
  \/ PartitionStep
  \/ ConsumerStep
  \/ RegistrationStep
  \/ Deliver

Next ==
  \/ \E c \in Client : Disconnect(c) \/ \E op \in Operation : Submit(c, op)
  \/ BrokerStep

(* Each task of the broker is one tokio task (or one pool that is a serial
   executor), which runs again whenever it can. *)
Fairness ==
  /\ \A w \in Worker : WF_vars(RequestStep(w))
  /\ WF_vars(PartitionStep)
  /\ WF_vars(ConsumerStep)
  /\ WF_vars(RegistrationStep)
  /\ WF_vars(Deliver)

Spec == Init /\ [][Next]_vars
FairSpec == Spec /\ Fairness

----------------------------------------------------------------------------
(* Positions in the stream of responses. *)
AnswersTo(id) == {i \in DOMAIN responses : responses[i].kind = "answer" /\ responses[i].id = id}
Answered(id) == AnswersTo(id) # {}
AnswerPosition(id) == CHOOSE i \in AnswersTo(id) : TRUE
Acked(id) == \E i \in AnswersTo(id) : responses[i].ack

IsDataInsert(id) == requests[id].op.op = "topic_data_insert"

(* No request is answered twice, although a data insert passes through three
   tasks that each could answer it. *)
OneAnswer == \A id \in DOMAIN requests : Cardinality(AnswersTo(id)) <= 1

(* An acked value is in the file of the topic and the partition that its producer
   named, or was in that file until a topic_insert emptied it; and no value ever
   gets into another file, although workers write through partition objects that a
   later topic_insert has replaced. *)
MeantFor(id, t, p) ==
  IsDataInsert(id) /\ requests[id].op.topic = t /\ requests[id].op.partition = p
Written(id, t, p) == id \in ToSet(log[t][p]) \cup truncated[t][p]

AckedIsWritten ==
  \A id \in DOMAIN requests :
    /\ IsDataInsert(id) /\ Acked(id) =>
         \E t \in Topic, p \in PartitionId : MeantFor(id, t, p) /\ Written(id, t, p)
    /\ \A t \in Topic, p \in PartitionId : Written(id, t, p) => MeantFor(id, t, p)

(* A partition file lists values in the order in which they were answered;
   at most its last value is not answered yet. *)
FileFollowsAnswers ==
  \A t \in Topic, p \in PartitionId :
    \A i, j \in DOMAIN log[t][p] :
      LET v == log[t][p][i]
          w == log[t][p][j]
      IN  i < j => Answered(v) /\ (Answered(w) => AnswerPosition(v) < AnswerPosition(w))

(* Consumers are told of a value after its producer got the ack, and of all
   values in the order of the acks, however lists and files change. *)
NotificationsFollowAcks ==
  \A i, j \in DOMAIN responses :
    responses[i].kind = "consumer" /\ responses[j].kind = "consumer" =>
      /\ Acked(responses[i].id)
      /\ AnswerPosition(responses[i].id) < i
      /\ i < j => AnswerPosition(responses[i].id) <= AnswerPosition(responses[j].id)

(* What the request pool's chain of signals guarantees: two writes reach the
   partition pool out of order only if a request that was answered at once
   came between them. *)
Forwarded(id) == \E i \in DOMAIN pAccepted : pAccepted[i].id = id
WaitedItsTurn(id) == requests[id].op.op \in {"who_leader", "subscribe"} \/ Forwarded(id)

RunsKeepOrder ==
  \A a, b \in DOMAIN pAccepted :
    a < b /\ pAccepted[b].id < pAccepted[a].id =>
      \E k \in pAccepted[b].id + 1 .. pAccepted[a].id - 1 : ~WaitedItsTurn(k)

(* consumer_assignment clears and pushes in two steps that other workers can
   come between: a list can hold several consumers of a group, but beyond one
   for each group that subscribed here never more than there are workers. *)
ClearedBy(part) == {w \in Worker : worker[w].phase = "cleared" /\ worker[w].part = part}
SubscribedGroups(list) ==
  {g \in Group : \E i \in DOMAIN list : list[i].group = g /\ list[i].id \in Nat}

ListBounded ==
  \A part \in DOMAIN partitions :
    LET list == partitions[part].consumers
    IN  Len(list) + Cardinality(ClearedBy(part))
          <= RequestWorkers + Cardinality(SubscribedGroups(list))

(* A partition that has a consumer keeps one, save while an assignment that
   cleared the list has yet to push. *)
HasConsumer(part) == part \in DOMAIN partitions /\ partitions[part].consumers # <<>>

StaysAssigned ==
  \A part \in 1 .. MaxPartitions :
    [](HasConsumer(part) => [](ClearedBy(part) = {} => HasConsumer(part)))

(* A topic's partitions belong to a group as a whole: unless ConsumerReg is
   dealing them out, none has a consumer of the group, or each has exactly one.
   Those who were in the group when the topic was last dealt out have shares
   that differ by one at most, whoever has none included; those who joined it
   since, through another topic, have none.  (While clients subscribe and none
   assigns: a consumer_assignment clears what all groups had.) *)
NoneAssigns == \A id \in DOMAIN requests : requests[id].op.op # "consumer_assignment"

(* Where a list has consumers of the group. *)
Places(list, g) == {i \in DOMAIN list : list[i].group = g}
ListAt(t, p) == partitions[topicMap[t][p]].consumers
ShareOf(t, g, k) ==
  Cardinality({p \in DOMAIN topicMap[t] : \E i \in Places(ListAt(t, p), g) : ListAt(t, p)[i].id = k})
DealingOut(t, g) == reg.phase = "rebalancing" /\ reg.topic = t /\ reg.group = g

(* Place i of the group, and the share of the consumer there. *)
ShareAt(t, g, i) == ShareOf(t, g, members[g][i])

EvenlyDealt(t, g) ==
  /\ dealt[t][g] \in 1 .. Len(members[g])
  /\ \A i, j \in 1 .. dealt[t][g] : ShareAt(t, g, i) <= ShareAt(t, g, j) + 1
  /\ \A i \in dealt[t][g] + 1 .. Len(members[g]) : ShareAt(t, g, i) = 0

GroupShares ==
  NoneAssigns => \A t \in Topic, g \in Group :
    \/ DealingOut(t, g)
    \/ \A p \in DOMAIN topicMap[t] : Places(ListAt(t, p), g) = {}
    \/ /\ \A p \in DOMAIN topicMap[t] : Cardinality(Places(ListAt(t, p), g)) = 1
       /\ EvenlyDealt(t, g)
=============================================================================
