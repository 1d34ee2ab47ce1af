---------------------------- MODULE BrokerProofs ----------------------------
(***************************************************************************)
(* What Broker guarantees for any number of clients, topics, groups,       *)
(* workers and requests, any capacity of its channels, and any file        *)
(* operations that fail: the types of its state, that no request is        *)
(* answered twice, and that an acked value was written.                    *)
(*                                                                         *)
(* Each part of the inductive invariant speaks of a few variables, and     *)
(* each group of variables is changed by a few actions, which the frame    *)
(* lemmas name.  So a part is proved for these actions and for the growth  *)
(* of what it refers to: requests and partitions are only ever added.      *)
(***************************************************************************)
EXTENDS Broker, DataLemmas

(* The records of the pools and of the responses. *)
WorkItem == [id : DOMAIN requests, part : DOMAIN partitions]

AnswerRecord == [to : Client, kind : {"answer"}, id : DOMAIN requests, ack : BOOLEAN]
NotificationRecord ==
  [to : Client, kind : {"consumer"}, id : DOMAIN requests, consumer : Consumer \cup Nat]

(* A consumer that ConsumerReg is putting on the topic's lists. *)
Rebalancing ==
  [phase : {"rebalancing"}, id : DOMAIN requests, topic : Topic, group : Group,
   left : Seq(DOMAIN partitions), next : Nat]

(* What a worker in a phase works on, given the requests and the partitions
   there are. *)
WorkerRecord == [task : Nat \ {0}, phase : Phases, part : Nat, ack : BOOLEAN]

WorkerSound(x, reqs, parts) ==
  LET op == reqs[x.task].op.op
  IN  /\ x.phase # "idle" => x.task \in DOMAIN reqs
      /\ x.phase \in {"located", "listed", "cleared"} =>
           op = "consumer_assignment" /\ x.part \in DOMAIN parts
      /\ x.phase = "ordered" =>
           \/ op \in {"who_leader", "subscribe"} /\ x.part = 0
           \/ op = "topic_data_insert" /\ x.part \in DOMAIN parts
      /\ x.phase = "answer" =>
           /\ op \notin {"who_leader", "subscribe"}
           /\ x.ack => op # "topic_data_insert"

WorkerTypes ==
  /\ worker \in [Worker -> WorkerRecord]
  /\ signalled \subseteq DOMAIN requests
  /\ \A w \in Worker : WorkerSound(worker[w], requests, partitions)

RequestTypes ==
  /\ clients \subseteq Client
  /\ requests \in Seq([client : Client, op : Operation])

TopicTypes ==
  /\ topicMap \in [Topic -> Seq(DOMAIN partitions)]
  /\ partitions \in Seq([topic : Topic, id : PartitionId, consumers : Seq(ListedConsumer)])
  /\ log \in [Topic -> [PartitionId -> Seq(DOMAIN requests)]]
  /\ truncated \in [Topic -> [PartitionId -> SUBSET DOMAIN requests]]

(* A pool starts what it accepted, in that order, one after the other. *)
PartitionPoolTypes ==
  /\ pAccepted \in Seq(WorkItem)
  /\ \A i \in DOMAIN pAccepted : IsDataInsert(pAccepted[i].id)
  /\ pStarted \in Seq(WorkItem)
  /\ Len(pStarted) <= Len(pAccepted)
  /\ \A i \in DOMAIN pStarted : pStarted[i] = pAccepted[i]
  /\ pFinished \in Nat /\ pFinished <= Len(pStarted) /\ Len(pStarted) <= pFinished + 1
  /\ writing \in {"none", "begun", "written", "acked", "failed"}
  /\ (writing = "none") = ~PartitionBusy

ConsumerPoolTypes ==
  /\ cAccepted \in Seq(WorkItem)
  /\ cStarted \in Seq(WorkItem)
  /\ Len(cStarted) <= Len(cAccepted)
  /\ \A i \in DOMAIN cStarted : cStarted[i] = cAccepted[i]
  /\ cFinished \in Nat /\ cFinished <= Len(cStarted) /\ Len(cStarted) <= cFinished + 1
  /\ notifying \in [copied : BOOLEAN, left : Seq(ListedConsumer)]
  /\ notifying.left # <<>> => notifying.copied
  /\ notifying.copied => ConsumerBusy

RegTypes ==
  /\ registered \in Seq([addr : Client, group : Group])
  /\ members \in [Group -> Seq(DOMAIN registered)]
  /\ dealt \in [Topic -> [Group -> Nat]]
  /\ regQueue \in Seq(DOMAIN requests) /\ Len(regQueue) <= RegistrationCap
  /\ \A i \in DOMAIN regQueue : requests[regQueue[i]].op.op = "subscribe"
  /\ reg \in {NotRegistering, [phase |-> "dead"]} \cup Rebalancing
  /\ reg.phase = "rebalancing" =>
       members[reg.group] # <<>> /\ requests[reg.id].op.op = "subscribe"

ResponseTypes ==
  /\ responses \in Seq(AnswerRecord \cup NotificationRecord)
  /\ delivered \in 0 .. Len(responses)
  /\ dropped \subseteq 1 .. delivered

TypeInv ==
  /\ RequestTypes
  /\ WorkerTypes
  /\ TopicTypes
  /\ PartitionPoolTypes
  /\ ConsumerPoolTypes
  /\ RegTypes
  /\ ResponseTypes

----------------------------------------------------------------------------
(* The one path a request takes to its answer. *)

(* The requests that worker w is dealt. *)
DealtTo(w, n) == \E k \in Nat : n = w + k * RequestWorkers

(* A worker has not signalled the request it is at, nor a later one of its
   requests. *)
DealtInTurn ==
  /\ \A w \in Worker : DealtTo(w, worker[w].task)
  /\ \A w \in Worker, s \in signalled : DealtTo(w, s) => s < worker[w].task

(* A request is in one queue at most, once, and not before its worker is done
   with it. *)
PartitionQueuedOnce ==
  /\ \A i \in DOMAIN pAccepted : pAccepted[i].id \in signalled
  /\ \A i, j \in DOMAIN pAccepted : pAccepted[i].id = pAccepted[j].id => i = j

RegQueuedOnce ==
  /\ \A i \in DOMAIN regQueue : regQueue[i] \in signalled
  /\ \A i, j \in DOMAIN regQueue : regQueue[i] = regQueue[j] => i = j
  /\ reg.phase = "rebalancing" =>
       reg.id \in signalled /\ \A i \in DOMAIN regQueue : regQueue[i] # reg.id

(* What is answered is signalled, and in none of the queues any more. *)
ToBeAnswered(i) ==
  \/ i > Len(pStarted)
  \/ i = Len(pStarted) /\ writing \in {"begun", "written", "failed"}

AnsweredLast ==
  /\ \A i \in DOMAIN responses : responses[i].kind = "answer" => responses[i].id \in signalled
  /\ \A i, j \in DOMAIN responses :
       responses[i].kind = "answer" /\ responses[j].kind = "answer"
         /\ responses[i].id = responses[j].id => i = j
  /\ \A i \in DOMAIN pAccepted : ToBeAnswered(i) => ~Answered(pAccepted[i].id)
  /\ \A i \in DOMAIN regQueue : ~Answered(regQueue[i])
  /\ reg.phase = "rebalancing" => ~Answered(reg.id)

PathInv == DealtInTurn /\ PartitionQueuedOnce /\ RegQueuedOnce /\ AnsweredLast

(* The partition objects of the topics are all different. *)
ObjectsOf ==
  \A t \in Topic : \A p \in DOMAIN topicMap[t] :
    partitions[topicMap[t][p]].topic = t /\ partitions[topicMap[t][p]].id = p

(* A value is queued with an object of the topic and the partition that its producer
   named, be the object in the map still or not. *)
NamedBy(id, part) ==
  /\ partitions[part].topic = requests[id].op.topic
  /\ partitions[part].id = requests[id].op.partition

QueuedWell ==
  /\ ObjectsOf
  /\ \A w \in Worker :
       worker[w].phase = "ordered" /\ worker[w].part # 0 => NamedBy(worker[w].task, worker[w].part)
  /\ \A i \in DOMAIN pAccepted : NamedBy(pAccepted[i].id, pAccepted[i].part)

(* In its own file, or in that file when it was created anew. *)
IsWritten(id) == \E t \in Topic, p \in PartitionId : MeantFor(id, t, p) /\ Written(id, t, p)

WrittenInv ==
  /\ writing \in {"written", "acked"} => IsWritten(Writing.id)
  /\ \A id \in DOMAIN requests : IsDataInsert(id) /\ Acked(id) => IsWritten(id)
  /\ \A id \in DOMAIN requests, t \in Topic, p \in PartitionId :
       Written(id, t, p) => MeantFor(id, t, p)

----------------------------------------------------------------------------
(* Which actions change which variables. *)

USE DEF requestVars, workerVars, topicVars, partitionPool, consumerPool, regVars, responseVars

(* One step of the system, by its kind. *)
LEMMA StepKinds ==
  ASSUME [Next]_vars
  PROVE  \/ UNCHANGED vars
         \/ \E c \in Client : Disconnect(c) \/ \E op \in Operation : Submit(c, op)
         \/ \E w \in Worker : RequestStep(w)
         \/ PartitionStep
         \/ ConsumerStep
         \/ RegistrationStep
         \/ Deliver
BY DEF Next, BrokerStep

(* Clients come and requests arrive in the connection handlers only. *)
LEMMA RequestFrame ==
  ASSUME [Next]_vars
  PROVE  \/ UNCHANGED requestVars
         \/ \E c \in Client : Disconnect(c) \/ \E op \in Operation : Submit(c, op)
<1>1. ASSUME NEW w \in Worker, RequestStep(w) PROVE UNCHANGED requestVars
  BY <1>1 DEF RequestStep, HandleTopicInsert, HandleDataInsert, HandleWhoLeader, HandleUnknown,
     HandleSubscribe, ForwardToRegistration, LocatePartition, CopyListArc, ClearConsumers,
     PushConsumer, AnswerRequest, AnswerLeader, ForwardToPartition
<1>2. PartitionStep => UNCHANGED requestVars
  BY DEF PartitionStep, BeginWrite, Write, AckWrite, NotifyConsumers, AnswerFailedWrite
<1>3. ConsumerStep => UNCHANGED requestVars
  BY DEF ConsumerStep, BeginNotify, CopyConsumers, SendToConsumer, EndNotify
<1>4. RegistrationStep => UNCHANGED requestVars
  BY DEF RegistrationStep, Register, AssignPartition, AckSubscription
<1>5. Deliver \/ UNCHANGED vars => UNCHANGED requestVars
  BY DEF Deliver, vars
<1> QED
  BY <1>1, <1>2, <1>3, <1>4, <1>5, StepKinds

(* The workers of the request pool move by their own steps only. *)
LEMMA WorkerFrame ==
  ASSUME [Next]_vars
  PROVE  UNCHANGED workerVars \/ \E w \in Worker : RequestStep(w)
<1>1. ASSUME NEW c \in Client, Disconnect(c) \/ \E op \in Operation : Submit(c, op)
      PROVE  UNCHANGED workerVars
  BY <1>1 DEF Disconnect, Submit
<1>2. PartitionStep => UNCHANGED workerVars
  BY DEF PartitionStep, BeginWrite, Write, AckWrite, NotifyConsumers, AnswerFailedWrite
<1>3. ConsumerStep => UNCHANGED workerVars
  BY DEF ConsumerStep, BeginNotify, CopyConsumers, SendToConsumer, EndNotify
<1>4. RegistrationStep => UNCHANGED workerVars
  BY DEF RegistrationStep, Register, AssignPartition, AckSubscription
<1>5. Deliver \/ UNCHANGED vars => UNCHANGED workerVars
  BY DEF Deliver, vars
<1> QED
  BY <1>1, <1>2, <1>3, <1>4, <1>5, StepKinds

(* Topics, partitions and files. *)
LEMMA TopicFrame ==
  ASSUME [Next]_vars
  PROVE  \/ UNCHANGED topicVars
         \/ \E w \in Worker : HandleTopicInsert(w) \/ ClearConsumers(w) \/ PushConsumer(w)
         \/ Write
         \/ AssignPartition
<1>1. ASSUME NEW c \in Client, Disconnect(c) \/ \E op \in Operation : Submit(c, op)
      PROVE  UNCHANGED topicVars
  BY <1>1 DEF Disconnect, Submit
<1>2. ASSUME NEW w \in Worker, RequestStep(w)
      PROVE  HandleTopicInsert(w) \/ ClearConsumers(w) \/ PushConsumer(w) \/ UNCHANGED topicVars
  BY <1>2 DEF RequestStep, HandleDataInsert, HandleWhoLeader, HandleUnknown, HandleSubscribe,
     ForwardToRegistration, LocatePartition, CopyListArc, AnswerRequest, AnswerLeader,
     ForwardToPartition
<1>3. PartitionStep => Write \/ UNCHANGED topicVars
  BY DEF PartitionStep, BeginWrite, AckWrite, NotifyConsumers, AnswerFailedWrite
<1>4. ConsumerStep => UNCHANGED topicVars
  BY DEF ConsumerStep, BeginNotify, CopyConsumers, SendToConsumer, EndNotify
<1>5. RegistrationStep => AssignPartition \/ UNCHANGED topicVars
  BY DEF RegistrationStep, Register, AckSubscription
<1>6. Deliver \/ UNCHANGED vars => UNCHANGED topicVars
  BY DEF Deliver, vars
<1> QED
  BY <1>1, <1>2, <1>3, <1>4, <1>5, <1>6, StepKinds

(* The partition pool. *)
LEMMA PartitionPoolFrame ==
  ASSUME [Next]_vars
  PROVE  \/ UNCHANGED <<partitionPool, writing>>
         \/ \E w \in Worker : ForwardToPartition(w)
         \/ PartitionStep
<1>1. ASSUME NEW c \in Client, Disconnect(c) \/ \E op \in Operation : Submit(c, op)
      PROVE  UNCHANGED <<partitionPool, writing>>
  BY <1>1 DEF Disconnect, Submit
<1>2. ASSUME NEW w \in Worker, RequestStep(w)
      PROVE  ForwardToPartition(w) \/ UNCHANGED <<partitionPool, writing>>
  BY <1>2 DEF RequestStep, HandleTopicInsert, HandleDataInsert, HandleWhoLeader, HandleUnknown,
     HandleSubscribe, ForwardToRegistration, LocatePartition, CopyListArc, ClearConsumers,
     PushConsumer, AnswerRequest, AnswerLeader
<1>3. ConsumerStep => UNCHANGED <<partitionPool, writing>>
  BY DEF ConsumerStep, BeginNotify, CopyConsumers, SendToConsumer, EndNotify
<1>4. RegistrationStep => UNCHANGED <<partitionPool, writing>>
  BY DEF RegistrationStep, Register, AssignPartition, AckSubscription
<1>5. Deliver \/ UNCHANGED vars => UNCHANGED <<partitionPool, writing>>
  BY DEF Deliver, vars
<1> QED
  BY <1>1, <1>2, <1>3, <1>4, <1>5, StepKinds

(* The consumer pool. *)
LEMMA ConsumerPoolFrame ==
  ASSUME [Next]_vars
  PROVE  UNCHANGED <<consumerPool, notifying>> \/ NotifyConsumers \/ ConsumerStep
<1>1. ASSUME NEW c \in Client, Disconnect(c) \/ \E op \in Operation : Submit(c, op)
      PROVE  UNCHANGED <<consumerPool, notifying>>
  BY <1>1 DEF Disconnect, Submit
<1>2. ASSUME NEW w \in Worker, RequestStep(w) PROVE UNCHANGED <<consumerPool, notifying>>
  BY <1>2 DEF RequestStep, HandleTopicInsert, HandleDataInsert, HandleWhoLeader, HandleUnknown,
     HandleSubscribe, ForwardToRegistration, LocatePartition, CopyListArc, ClearConsumers,
     PushConsumer, AnswerRequest, AnswerLeader, ForwardToPartition
<1>3. PartitionStep => NotifyConsumers \/ UNCHANGED <<consumerPool, notifying>>
  BY DEF PartitionStep, BeginWrite, Write, AckWrite, AnswerFailedWrite
<1>4. RegistrationStep => UNCHANGED <<consumerPool, notifying>>
  BY DEF RegistrationStep, Register, AssignPartition, AckSubscription
<1>5. Deliver \/ UNCHANGED vars => UNCHANGED <<consumerPool, notifying>>
  BY DEF Deliver, vars
<1> QED
  BY <1>1, <1>2, <1>3, <1>4, <1>5, StepKinds

(* ConsumerReg and its queue. *)
LEMMA RegFrame ==
  ASSUME [Next]_vars
  PROVE  \/ UNCHANGED regVars
         \/ \E w \in Worker : ForwardToRegistration(w)
         \/ RegistrationStep
<1>1. ASSUME NEW c \in Client, Disconnect(c) \/ \E op \in Operation : Submit(c, op)
      PROVE  UNCHANGED regVars
  BY <1>1 DEF Disconnect, Submit
<1>2. ASSUME NEW w \in Worker, RequestStep(w)
      PROVE  ForwardToRegistration(w) \/ UNCHANGED regVars
  BY <1>2 DEF RequestStep, HandleTopicInsert, HandleDataInsert, HandleWhoLeader, HandleUnknown,
     HandleSubscribe, LocatePartition, CopyListArc, ClearConsumers, PushConsumer, AnswerRequest,
     AnswerLeader, ForwardToPartition
<1>3. PartitionStep => UNCHANGED regVars
  BY DEF PartitionStep, BeginWrite, Write, AckWrite, NotifyConsumers, AnswerFailedWrite
<1>4. ConsumerStep => UNCHANGED regVars
  BY DEF ConsumerStep, BeginNotify, CopyConsumers, SendToConsumer, EndNotify
<1>5. Deliver \/ UNCHANGED vars => UNCHANGED regVars
  BY DEF Deliver, vars
<1> QED
  BY <1>1, <1>2, <1>3, <1>4, <1>5, StepKinds

(* The stream of responses: five tasks write to it, and one reads. *)
LEMMA ResponseFrame ==
  ASSUME [Next]_vars
  PROVE  \/ UNCHANGED responseVars
         \/ \E w \in Worker : AnswerRequest(w) \/ AnswerLeader(w)
         \/ AckWrite \/ AnswerFailedWrite
         \/ SendToConsumer
         \/ AckSubscription
         \/ Deliver
<1>1. ASSUME NEW c \in Client, Disconnect(c) \/ \E op \in Operation : Submit(c, op)
      PROVE  UNCHANGED responseVars
  BY <1>1 DEF Disconnect, Submit
<1>2. ASSUME NEW w \in Worker, RequestStep(w)
      PROVE  AnswerRequest(w) \/ AnswerLeader(w) \/ UNCHANGED responseVars
  BY <1>2 DEF RequestStep, HandleTopicInsert, HandleDataInsert, HandleWhoLeader, HandleUnknown,
     HandleSubscribe, ForwardToRegistration, LocatePartition, CopyListArc, ClearConsumers,
     PushConsumer, ForwardToPartition
<1>3. PartitionStep => AckWrite \/ AnswerFailedWrite \/ UNCHANGED responseVars
  BY DEF PartitionStep, BeginWrite, Write, NotifyConsumers
<1>4. ConsumerStep => SendToConsumer \/ UNCHANGED responseVars
  BY DEF ConsumerStep, BeginNotify, CopyConsumers, EndNotify
<1>5. RegistrationStep => AckSubscription \/ UNCHANGED responseVars
  BY DEF RegistrationStep, Register, AssignPartition
<1>6. UNCHANGED vars => UNCHANGED responseVars
  BY DEF vars
<1> QED
  BY <1>1, <1>2, <1>3, <1>4, <1>5, <1>6, StepKinds

----------------------------------------------------------------------------
(* Growth. *)

(* Requests are named for good. *)
RequestsGrow ==
  /\ DOMAIN requests \subseteq DOMAIN requests'
  /\ \A id \in DOMAIN requests : requests'[id] = requests[id]

(* A Partition keeps its file; only its list changes. *)
PartitionsGrow ==
  /\ DOMAIN partitions \subseteq DOMAIN partitions'
  /\ \A part \in DOMAIN partitions :
       /\ partitions'[part].topic = partitions[part].topic
       /\ partitions'[part].id = partitions[part].id

(* What the operations carry. *)
LEMMA OperationTypes ==
  ASSUME NEW o \in Operation
  PROVE  /\ o.op = "topic_insert" => o.topic \in Topic /\ o.count \in 0 .. MaxPartitions
         /\ o.op = "topic_data_insert" => o.topic \in Topic /\ o.partition \in Nat
         /\ o.op = "consumer_assignment" =>
              /\ o.topic \in Topic /\ o.partition \in Nat
              /\ o.group \in Group /\ o.consumer \in Consumer
         /\ o.op = "subscribe" => o.topic \in Topic /\ o.group \in Group
BY OperationAssumption

LEMMA RequestFields ==
  ASSUME RequestTypes, NEW id \in DOMAIN requests
  PROVE  requests[id].client \in Client /\ requests[id].op \in Operation
<1> DEFINE R == [client : Client, op : Operation]
<1>1. requests[id] \in R
  <2> HIDE DEF R
  <2>1. requests \in Seq(R)
    BY DEF RequestTypes, R
  <2> QED
    BY <2>1
<1> QED
  BY <1>1

LEMMA PartitionFields ==
  ASSUME TopicTypes, NEW part \in DOMAIN partitions
  PROVE  /\ partitions[part].topic \in Topic
         /\ partitions[part].id \in PartitionId
         /\ partitions[part].consumers \in Seq(ListedConsumer)
         /\ part \in Nat \ {0}
<1> DEFINE P == [topic : Topic, id : PartitionId, consumers : Seq(ListedConsumer)]
<1>1. partitions[part] \in P /\ part \in Nat \ {0}
  <2> HIDE DEF P
  <2>1. partitions \in Seq(P)
    BY DEF TopicTypes, P
  <2> QED
    BY <2>1
<1> QED
  BY <1>1

LEMMA RequestsStep ==
  ASSUME RequestTypes, [Next]_vars
  PROVE  RequestTypes' /\ RequestsGrow
<1>1. CASE UNCHANGED requestVars
  BY <1>1 DEF RequestTypes, RequestsGrow
<1>2. ASSUME NEW c \in Client, Disconnect(c) PROVE RequestTypes' /\ RequestsGrow
  BY <1>2 DEF RequestTypes, RequestsGrow, Disconnect
<1>3. ASSUME NEW c \in Client, NEW op \in Operation, Submit(c, op)
      PROVE  RequestTypes' /\ RequestsGrow
  <2>1. [client |-> c, op |-> op] \in [client : Client, op : Operation]
    OBVIOUS
  <2>2. requests' = Append(requests, [client |-> c, op |-> op]) /\ clients' = clients
    BY <1>3 DEF Submit
  <2> QED
    BY <2>1, <2>2, AppendedSeq DEF RequestTypes, RequestsGrow
<1> QED
  BY <1>1, <1>2, <1>3, RequestFrame

----------------------------------------------------------------------------
(* The list ConsumerReg leaves behind when it replaces a group's consumer. *)

(* The consumers of other groups among the first i of a list. *)
Kept(list, g) ==
  LET kept[i \in 0 .. Len(list)] ==
        IF i = 0 THEN <<>>
        ELSE IF list[i].group = g THEN kept[i - 1] ELSE Append(kept[i - 1], list[i])
  IN  kept

KeptUpTo(f, n, list, g) ==
  f = [i \in 0 .. n |->
         IF i = 0 THEN <<>>
         ELSE IF list[i].group = g THEN f[i - 1] ELSE Append(f[i - 1], list[i])]

LEMMA KeptExists ==
  ASSUME NEW list, NEW g, NEW n \in Nat
  PROVE  \E f : KeptUpTo(f, n, list, g)
<1> SUFFICES ASSUME ~ \E f : KeptUpTo(f, n, list, g) PROVE FALSE
  OBVIOUS
<1> DEFINE T == {k \in Nat : ~ \E f : KeptUpTo(f, k, list, g)}
<1>1. PICK m \in T : \A k \in T : m <= k
  <2> T \subseteq Nat /\ T # {}
    OBVIOUS
  <2> HIDE DEF T
  <2> QED
    BY NatMin
<1>2. m # 0
  <2> DEFINE e == [i \in 0 .. 0 |-> <<>>]
  <2>1. KeptUpTo(e, 0, list, g)
    BY DEF KeptUpTo
  <2> QED
    BY <2>1
<1>3. PICK f : KeptUpTo(f, m - 1, list, g)
  BY <1>1, <1>2
<1> DEFINE last == IF list[m].group = g THEN f[m - 1] ELSE Append(f[m - 1], list[m])
           h == [i \in 0 .. m |-> IF i = m THEN last ELSE f[i]]
<1>4. ASSUME NEW i \in 0 .. m
      PROVE  h[i] = IF i = 0 THEN <<>>
                    ELSE IF list[i].group = g THEN h[i - 1] ELSE Append(h[i - 1], list[i])
  <2>1. CASE i = m
    BY <2>1, <1>2
  <2>2. CASE i # m
    <3>1. i \in 0 .. m - 1 /\ h[i] = f[i] /\ (i # 0 => h[i - 1] = f[i - 1])
      BY <2>2
    <3>2. f[i] = IF i = 0 THEN <<>>
                 ELSE IF list[i].group = g THEN f[i - 1] ELSE Append(f[i - 1], list[i])
      BY <1>3, <3>1 DEF KeptUpTo
    <3> QED
      BY <3>1, <3>2
  <2> QED
    BY <2>1, <2>2
<1>5. KeptUpTo(h, m, list, g)
  BY <1>4 DEF KeptUpTo
<1> QED
  BY <1>5

LEMMA KeptIs ==
  ASSUME NEW list, NEW g, Len(list) \in Nat
  PROVE  KeptUpTo(Kept(list, g), Len(list), list, g)
<1>1. PICK f : KeptUpTo(f, Len(list), list, g)
  BY KeptExists
<1> QED
  BY <1>1 DEF KeptUpTo, Kept

(* After i consumers: as many as there are of other groups. *)
KeptInv(k, i, list, g, S) ==
  /\ k \in Seq(S)
  /\ Len(k) <= i
  /\ (\E j \in 1 .. i : list[j].group = g) => Len(k) < i
  /\ \A j \in 1 .. i : list[j].group # g => \E n \in DOMAIN k : k[n] = list[j]

LEMMA KeptOthers ==
  ASSUME NEW S, NEW list \in Seq(S), NEW g, NEW n \in 0 .. Len(list)
  PROVE  KeptInv(Kept(list, g)[n], n, list, g, S)
<1> SUFFICES ASSUME ~KeptInv(Kept(list, g)[n], n, list, g, S) PROVE FALSE
  OBVIOUS
<1> DEFINE f == Kept(list, g)
           T == {k \in 0 .. Len(list) : ~KeptInv(f[k], k, list, g, S)}
<1> HIDE DEF f
<1>1. PICK m \in T : \A k \in T : m <= k
  <2> T \subseteq Nat /\ T # {}
    BY DEF f
  <2> HIDE DEF T
  <2> QED
    BY NatMin
<1>2. ASSUME NEW i \in 0 .. Len(list)
      PROVE  f[i] = IF i = 0 THEN <<>>
                    ELSE IF list[i].group = g THEN f[i - 1] ELSE Append(f[i - 1], list[i])
  <2>1. KeptUpTo(f, Len(list), list, g)
    BY KeptIs DEF f
  <2> QED
    BY <2>1 DEF KeptUpTo
<1>3. m # 0
  <2>1. f[0] = <<>>
    BY <1>2
  <2>2. KeptInv(<<>>, 0, list, g, S)
    BY DEF KeptInv
  <2> QED
    BY <2>1, <2>2
<1>4. m - 1 \in 0 .. Len(list) /\ m \in 1 .. Len(list)
  BY <1>3
<1>5. KeptInv(f[m - 1], m - 1, list, g, S)
  BY <1>1, <1>4
<1>6. CASE list[m].group = g
  <2>1. f[m] = f[m - 1]
    BY <1>2, <1>3, <1>4, <1>6
  <2>2. KeptInv(f[m], m, list, g, S)
    <3> DEFINE k == f[m - 1]
    <3>1. k \in Seq(S) /\ Len(k) <= m - 1
      BY <1>5 DEF KeptInv
    <3>2. \A j \in 1 .. m - 1 : list[j].group # g => \E i \in DOMAIN k : k[i] = list[j]
      BY <1>5 DEF KeptInv
    <3> HIDE DEF k
    <3>3. \A j \in 1 .. m : list[j].group # g => \E i \in DOMAIN k : k[i] = list[j]
      BY <3>2, <1>6, <1>4
    <3>4. KeptInv(k, m, list, g, S)
      BY <3>1, <3>3, <1>4 DEF KeptInv
    <3> QED
      BY <3>4, <2>1 DEF k
  <2> QED
    BY <2>2
<1>7. CASE list[m].group # g
  <2> DEFINE k == f[m - 1]
             l == Append(k, list[m])
  <2>1. f[m] = l
    BY <1>2, <1>3, <1>4, <1>7
  <2>2. k \in Seq(S) /\ Len(k) <= m - 1 /\ list[m] \in S
    BY <1>5, <1>4 DEF KeptInv
  <2>3. (\E j \in 1 .. m - 1 : list[j].group = g) => Len(k) < m - 1
    BY <1>5 DEF KeptInv
  <2>4. \A j \in 1 .. m - 1 : list[j].group # g => \E i \in DOMAIN k : k[i] = list[j]
    BY <1>5 DEF KeptInv
  <2> HIDE DEF k
  <2>5. /\ l \in Seq(S) /\ Len(l) = Len(k) + 1 /\ DOMAIN l = DOMAIN k \cup {Len(k) + 1}
        /\ \A i \in DOMAIN k : l[i] = k[i]
        /\ l[Len(k) + 1] = list[m]
    BY <2>2
  <2> HIDE DEF l
  <2>6. (\E j \in 1 .. m : list[j].group = g) => Len(l) < m
    BY <2>3, <2>5, <1>7, <1>4, <2>2
  <2>7. \A j \in 1 .. m : list[j].group # g => \E i \in DOMAIN l : l[i] = list[j]
    BY <2>4, <2>5, <1>4
  <2>8. KeptInv(l, m, list, g, S)
    BY <2>5, <2>6, <2>7, <2>2, <1>4 DEF KeptInv
  <2> QED
    BY <2>8, <2>1
<1> QED
  BY <1>6, <1>7

(* Rejoin puts the new consumer last, keeps those of other groups, and makes
   the list longer only if the group had no consumer in it. *)
LEMMA RejoinFacts ==
  ASSUME NEW S, NEW list \in Seq(S), NEW c \in S
  PROVE  /\ Rejoin(list, c) \in Seq(S)
         /\ Rejoin(list, c) # <<>>
         /\ Len(Rejoin(list, c)) <= Len(list) + 1
         /\ (\E j \in DOMAIN list : list[j].group = c.group) => Len(Rejoin(list, c)) <= Len(list)
         /\ \E n \in DOMAIN Rejoin(list, c) : Rejoin(list, c)[n] = c
         /\ \A j \in DOMAIN list :
              list[j].group # c.group => \E n \in DOMAIN Rejoin(list, c) : Rejoin(list, c)[n] = list[j]
<1> DEFINE k == Kept(list, c.group)[Len(list)]
<1>1. Rejoin(list, c) = Append(k, c)
  BY Zenon DEF Rejoin, Kept
<1>2. KeptInv(k, Len(list), list, c.group, S)
  BY KeptOthers
<1> HIDE DEF k
<1>3. k \in Seq(S) /\ Len(k) <= Len(list)
  BY <1>2 DEF KeptInv
<1>4. /\ Append(k, c) \in Seq(S) /\ Len(Append(k, c)) = Len(k) + 1
      /\ DOMAIN Append(k, c) = DOMAIN k \cup {Len(k) + 1}
      /\ \A i \in DOMAIN k : Append(k, c)[i] = k[i]
      /\ Append(k, c)[Len(k) + 1] = c
  BY <1>3
<1>5. DOMAIN list = 1 .. Len(list) /\ Len(list) \in Nat
  OBVIOUS
<1>6. (\E j \in DOMAIN list : list[j].group = c.group) => Len(k) < Len(list)
  BY <1>2, <1>5 DEF KeptInv
<1>7. \A j \in DOMAIN list : list[j].group # c.group => \E n \in DOMAIN k : k[n] = list[j]
  BY <1>2, <1>5 DEF KeptInv
<1>8. \A j \in DOMAIN list :
        list[j].group # c.group => \E n \in DOMAIN Append(k, c) : Append(k, c)[n] = list[j]
  BY <1>7, <1>4
<1>9. Append(k, c) # <<>> /\ \E n \in DOMAIN Append(k, c) : Append(k, c)[n] = c
  BY <1>3, <1>4
<1> QED
  BY <1>1, <1>3, <1>4, <1>5, <1>6, <1>8, <1>9

----------------------------------------------------------------------------
(* Types of topics, partitions and files. *)

LEMMA NatConstants ==
  /\ MaxPartitions \in Nat \ {0} /\ RequestWorkers \in Nat \ {0}
  /\ RegistrationCap \in Nat \ {0}
BY BrokerAssumption

LEMMA TruncateTypes ==
  ASSUME TopicTypes, NEW t \in Topic, NEW n \in 0 .. MaxPartitions, Truncate(t, n)
  PROVE  /\ log' \in [Topic -> [PartitionId -> Seq(DOMAIN requests)]]
         /\ truncated' \in [Topic -> [PartitionId -> SUBSET DOMAIN requests]]
<1>1. ASSUME NEW p \in PartitionId
      PROVE  /\ truncated[t][p] \subseteq DOMAIN requests
             /\ ToSet(log[t][p]) \subseteq DOMAIN requests
  <2>1. log[t][p] \in Seq(DOMAIN requests) /\ truncated[t][p] \subseteq DOMAIN requests
    BY DEF TopicTypes
  <2> QED
    BY <2>1 DEF ToSet
<1>2. truncated' \in [Topic -> [PartitionId -> SUBSET DOMAIN requests]]
  <2> DEFINE row == [p \in PartitionId |-> IF p <= n THEN truncated[t][p] \cup ToSet(log[t][p])
                                           ELSE truncated[t][p]]
  <2>1. row \in [PartitionId -> SUBSET DOMAIN requests]
    BY <1>1
  <2>2. truncated' = [truncated EXCEPT ![t] = row]
    BY DEF Truncate
  <2> HIDE DEF row
  <2> QED
    BY <2>1, <2>2 DEF TopicTypes
<1>3. log' \in [Topic -> [PartitionId -> Seq(DOMAIN requests)]]
  <2>1. log \in [Topic -> [PartitionId -> Seq(DOMAIN requests)]]
    BY DEF TopicTypes
  <2> DEFINE row == [p \in PartitionId |-> IF p <= n THEN <<>> ELSE log[t][p]]
  <2>2. row \in [PartitionId -> Seq(DOMAIN requests)]
    <3>1. \A p \in PartitionId : row[p] \in Seq(DOMAIN requests)
      <4>1. \A p \in PartitionId : log[t][p] \in Seq(DOMAIN requests)
        BY <2>1
      <4>2. <<>> \in Seq(DOMAIN requests)
        OBVIOUS
      <4> QED
        BY <4>1, <4>2
    <3> QED
      BY <3>1
  <2>3. log' = [log EXCEPT ![t] = row]
    BY DEF Truncate
  <2> HIDE DEF row
  <2> QED
    BY <2>1, <2>2, <2>3
<1> QED
  BY <1>2, <1>3

(* The consumer an assignment pushes, and the one ConsumerReg puts on a list. *)
LEMMA PushedConsumer ==
  ASSUME TypeInv, NEW w \in Worker, PushConsumer(w)
  PROVE  /\ worker[w].part \in DOMAIN partitions
         /\ \E c \in ListedConsumer :
              partitions' = [partitions EXCEPT ![worker[w].part].consumers = Append(@, c)]
<1> DEFINE c == [id |-> Op(w).consumer, addr |-> requests[worker[w].task].client,
                 group |-> Op(w).group]
<1>1. worker[w].part \in DOMAIN partitions /\ worker[w].task \in DOMAIN requests
      /\ Op(w).op = "consumer_assignment"
  BY DEF TypeInv, PushConsumer, WorkerTypes, WorkerSound, Op
<1>2. Op(w) \in Operation /\ requests[worker[w].task].client \in Client
  BY <1>1, RequestFields DEF Op, TypeInv
<1>3. c \in ListedConsumer
  BY <1>1, <1>2, OperationTypes DEF ListedConsumer
<1>4. partitions' = [partitions EXCEPT ![worker[w].part].consumers = Append(@, c)]
  BY DEF PushConsumer
<1> QED
  BY <1>1, <1>3, <1>4

LEMMA AssignedConsumer ==
  ASSUME TypeInv, AssignPartition
  PROVE  \E part \in DOMAIN partitions, c \in ListedConsumer :
           /\ c.id \in Nat
           /\ partitions' = [partitions EXCEPT ![part].consumers = Rejoin(@, c)]
<1> DEFINE part == Head(reg.left)
           group == members[reg.group]
           k == group[(reg.next % Len(group)) + 1]
           c == [id |-> k, addr |-> registered[k].addr, group |-> reg.group]
<1>1. reg \in Rebalancing /\ reg.left # <<>>
  BY DEF TypeInv, AssignPartition, RegTypes, NotRegistering
<1>2. part \in DOMAIN partitions
  BY <1>1 DEF Rebalancing
<1>3. group \in Seq(DOMAIN registered) /\ group # <<>> /\ reg.next \in Nat /\ reg.group \in Group
  BY <1>1 DEF TypeInv, RegTypes, Rebalancing
<1>4. k \in DOMAIN registered
  <2> HIDE DEF group
  <2>1. Len(group) \in Nat /\ Len(group) > 0 /\ DOMAIN group = 1 .. Len(group)
    BY <1>3
  <2>2. (reg.next % Len(group)) + 1 \in DOMAIN group
    BY <2>1, <1>3
  <2> QED
    BY <2>2, <1>3
<1>5. c \in ListedConsumer /\ c.id \in Nat
  <2> HIDE DEF k
  <2> DEFINE C == [addr : Client, group : Group]
  <2>1. registered[k] \in C /\ k \in Nat
    <3> HIDE DEF C
    <3>1. registered \in Seq(C)
      BY DEF TypeInv, RegTypes, C
    <3> QED
      BY <3>1, <1>4
  <2>2. registered[k].addr \in Client
    BY <2>1
  <2> QED
    BY <2>1, <2>2, <1>3 DEF ListedConsumer
<1>6. partitions' = [partitions EXCEPT ![part].consumers = Rejoin(@, c)]
  BY DEF AssignPartition
<1> HIDE DEF c, part
<1> QED
  BY <1>2, <1>5, <1>6

(* The partitions an insertion of a topic adds have no consumers; the old ones
   stay as they are. *)
LEMMA InsertedPartitions ==
  ASSUME TypeInv, NEW w \in Worker, HandleTopicInsert(w)
  PROVE  /\ \A part \in DOMAIN partitions :
              part \in DOMAIN partitions' /\ partitions'[part] = partitions[part]
         /\ \A part \in DOMAIN partitions' \ DOMAIN partitions : partitions'[part].consumers = <<>>
<1> DEFINE t == Op(w).topic
           n == Op(w).count
           new == [p \in 1 .. n |-> [topic |-> t, id |-> p, consumers |-> <<>>]]
           P == [topic : Topic, id : PartitionId, consumers : Seq(ListedConsumer)]
<1>1. Op(w).op = "topic_insert" /\ worker[w].task \in DOMAIN requests
  BY DEF HandleTopicInsert, Taking, TypeInv, WorkerTypes, WorkerRecord, RequestTypes
<1>2. t \in Topic /\ n \in 0 .. MaxPartitions
  BY <1>1, RequestFields, OperationTypes DEF Op, TypeInv
<1>3. UNCHANGED partitions \/ partitions' = partitions \o new
  BY DEF HandleTopicInsert
<1> HIDE DEF t, n
<1>4. CASE partitions' = partitions \o new
  <2>1. new \in Seq(P) /\ Len(new) = n /\ \A i \in 1 .. n : new[i].consumers = <<>>
    <3>1. \A p \in 1 .. n : [topic |-> t, id |-> p, consumers |-> <<>>] \in P
      BY <1>2, NatConstants DEF PartitionId
    <3> QED
      BY <3>1, <1>2, NatConstants
  <2>2. partitions \in Seq(P)
    BY DEF TypeInv, TopicTypes
  <2> HIDE DEF new, P
  <2>3. /\ partitions \o new \in Seq(P)
        /\ Len(partitions \o new) = Len(partitions) + Len(new)
        /\ \A i \in 1 .. Len(partitions) + Len(new) :
             (partitions \o new)[i] = IF i <= Len(partitions) THEN partitions[i]
                                      ELSE new[i - Len(partitions)]
    BY <2>1, <2>2, ConcatProperties
  <2>4. /\ DOMAIN partitions = 1 .. Len(partitions) /\ Len(partitions) \in Nat /\ n \in Nat
        /\ DOMAIN partitions' = 1 .. Len(partitions) + n
    BY <2>1, <2>2, <2>3, <1>2, <1>4, NatConstants
  <2> QED
    BY <2>1, <2>3, <2>4, <1>4
<1> QED
  BY <1>3, <1>4

(* The types stay while requests and partitions grow. *)
LEMMA TopicsStep ==
  ASSUME TypeInv, [Next]_vars
  PROVE  TopicTypes' /\ PartitionsGrow
<1> DEFINE P == [topic : Topic, id : PartitionId, consumers : Seq(ListedConsumer)]
<1>1. RequestsGrow
  BY RequestsStep DEF TypeInv
<1>2. TopicTypes /\ WorkerTypes /\ RequestTypes /\ RegTypes /\ PartitionPoolTypes
  BY DEF TypeInv
<1>a. /\ topicMap \in [Topic -> Seq(DOMAIN partitions)]
      /\ partitions \in Seq(P)
      /\ log \in [Topic -> [PartitionId -> Seq(DOMAIN requests)]]
      /\ truncated \in [Topic -> [PartitionId -> SUBSET DOMAIN requests]]
  BY <1>2 DEF TopicTypes
<1>3. CASE UNCHANGED topicVars
  <2>1. PartitionsGrow
    BY <1>3 DEF PartitionsGrow
  <2>2. log' \in [Topic -> [PartitionId -> Seq(DOMAIN requests')]]
    BY <1>a, <1>3, <1>1, SeqGrows DEF RequestsGrow
  <2>3. truncated' \in [Topic -> [PartitionId -> SUBSET DOMAIN requests']]
    BY <1>a, <1>3, <1>1 DEF RequestsGrow
  <2> QED
    BY <2>1, <2>2, <2>3, <1>a, <1>3 DEF TopicTypes
<1>4. ASSUME NEW w \in Worker, HandleTopicInsert(w) PROVE TopicTypes' /\ PartitionsGrow
  <2> DEFINE t == Op(w).topic
             n == Op(w).count
             new == [p \in 1 .. n |-> [topic |-> t, id |-> p, consumers |-> <<>>]]
             entry == [p \in 1 .. n |-> Len(partitions) + p]
  <2>1. t \in Topic /\ n \in 0 .. MaxPartitions /\ UNCHANGED requests
    <3>1. Op(w).op = "topic_insert" /\ worker[w].task \in DOMAIN requests
      BY <1>4, <1>2 DEF HandleTopicInsert, Taking, WorkerTypes, WorkerRecord, RequestTypes
    <3>2. Op(w) \in Operation
      BY <3>1, <1>2, RequestFields DEF Op
    <3>3. UNCHANGED requests
      BY <1>4 DEF HandleTopicInsert
    <3> QED
      BY <3>1, <3>2, <3>3, OperationTypes
  <2> HIDE DEF t, n
  <2>2. CASE UNCHANGED topicVars
    BY <2>2, <1>3
  <2>3. CASE /\ Truncate(t, n)
             /\ partitions' = partitions \o new
             /\ topicMap' = [topicMap EXCEPT ![t] = entry]
    <3>1. new \in Seq(P) /\ Len(new) = n
      <4>1. ASSUME NEW p \in 1 .. n
            PROVE  [topic |-> t, id |-> p, consumers |-> <<>>] \in P
        BY <2>1, NatConstants DEF PartitionId
      <4> QED
        BY <4>1, <2>1, NatConstants
    <3> HIDE DEF new
    <3>2. /\ partitions' \in Seq(P) /\ Len(partitions') = Len(partitions) + n
          /\ \A i \in DOMAIN partitions : partitions'[i] = partitions[i]
      <4> HIDE DEF P
      <4>1. /\ partitions \o new \in Seq(P)
            /\ Len(partitions \o new) = Len(partitions) + Len(new)
            /\ \A i \in 1 .. Len(partitions) + Len(new) :
                 (partitions \o new)[i] = IF i <= Len(partitions) THEN partitions[i]
                                          ELSE new[i - Len(partitions)]
        BY <3>1, <1>a, ConcatProperties
      <4>2. DOMAIN partitions = 1 .. Len(partitions) /\ Len(partitions) \in Nat /\ Len(new) \in Nat
        BY <1>a, <3>1
      <4> QED
        BY <4>1, <4>2, <3>1, <2>3
    <3> HIDE DEF P
    <3>3. DOMAIN partitions = 1 .. Len(partitions) /\ DOMAIN partitions' = 1 .. Len(partitions')
          /\ Len(partitions) \in Nat /\ n \in Nat
      BY <3>2, <1>a, <2>1, NatConstants
    <3>4. PartitionsGrow
      BY <3>2, <3>3 DEF PartitionsGrow
    <3>5. entry \in Seq(DOMAIN partitions')
      <4>1. \A p \in 1 .. n : Len(partitions) + p \in DOMAIN partitions'
        BY <3>2, <3>3
      <4> QED
        BY <4>1, <3>3
    <3> HIDE DEF entry
    <3>6. topicMap' \in [Topic -> Seq(DOMAIN partitions')]
      <4>1. \A s \in Topic : topicMap[s] \in Seq(DOMAIN partitions')
        BY <1>a, <3>4, SeqGrows DEF PartitionsGrow
      <4> QED
        BY <4>1, <3>5, <2>1, <2>3, <1>a
    <3>7. /\ log' \in [Topic -> [PartitionId -> Seq(DOMAIN requests')]]
          /\ truncated' \in [Topic -> [PartitionId -> SUBSET DOMAIN requests']]
      BY <2>1, <2>3, <1>2, TruncateTypes
    <3> QED
      BY <3>2, <3>4, <3>6, <3>7 DEF TopicTypes, P
  <2>4. ASSUME NEW m \in 0 .. n - 1, Truncate(t, m), UNCHANGED <<topicMap, partitions>>
        PROVE  TopicTypes' /\ PartitionsGrow
    <3>1. m \in 0 .. MaxPartitions
      BY <2>1, NatConstants
    <3>2. /\ log' \in [Topic -> [PartitionId -> Seq(DOMAIN requests')]]
          /\ truncated' \in [Topic -> [PartitionId -> SUBSET DOMAIN requests']]
      BY <3>1, <2>1, <2>4, <1>2, TruncateTypes
    <3> QED
      BY <3>2, <2>4, <1>a DEF TopicTypes, PartitionsGrow
  <2> QED
    BY <2>2, <2>3, <2>4, <1>4 DEF HandleTopicInsert, t, n
(* A list is replaced by another. *)
<1>5. ASSUME NEW part \in DOMAIN partitions, NEW list \in Seq(ListedConsumer),
             partitions' = [partitions EXCEPT ![part].consumers = list],
             UNCHANGED <<topicMap, log, truncated, requests>>
      PROVE  TopicTypes' /\ PartitionsGrow
  <2>1. /\ partitions' \in Seq(P) /\ DOMAIN partitions' = DOMAIN partitions
        /\ PartitionsGrow
    <3>1. [partitions[part] EXCEPT !.consumers = list] \in P
      <4>1. partitions[part] \in P
        <5> HIDE DEF P
        <5> QED
          BY <1>a
      <4> QED
        BY <4>1
    <3>2. partitions' = [partitions EXCEPT ![part] = [partitions[part] EXCEPT !.consumers = list]]
      BY <1>5
    <3>3. partitions[part] \in P
      <4> HIDE DEF P
      <4> QED
        BY <1>a
    <3>4. /\ [partitions[part] EXCEPT !.consumers = list].topic = partitions[part].topic
          /\ [partitions[part] EXCEPT !.consumers = list].id = partitions[part].id
      BY <3>3
    <3> DEFINE e == [partitions[part] EXCEPT !.consumers = list]
    <3> HIDE DEF P, e
    <3> QED
      BY <3>1, <3>2, <3>4, <1>a DEF PartitionsGrow, e
  <2> QED
    BY <2>1, <1>5, <1>a DEF TopicTypes
<1>6. ASSUME NEW w \in Worker, ClearConsumers(w) PROVE TopicTypes' /\ PartitionsGrow
  <2>1. worker[w].part \in DOMAIN partitions
    BY <1>6, <1>2 DEF ClearConsumers, WorkerTypes, WorkerSound
  <2>2. /\ partitions' = [partitions EXCEPT ![worker[w].part].consumers = <<>>]
        /\ UNCHANGED <<topicMap, log, truncated, requests>>
    BY <1>6 DEF ClearConsumers
  <2>3. <<>> \in Seq(ListedConsumer)
    OBVIOUS
  <2> QED
    BY <2>1, <2>2, <2>3, <1>5
<1>7. ASSUME NEW w \in Worker, PushConsumer(w) PROVE TopicTypes' /\ PartitionsGrow
  <2> DEFINE part == worker[w].part
  <2>1. PICK c \in ListedConsumer : partitions' = [partitions EXCEPT ![part].consumers = Append(@, c)]
    BY <1>7, PushedConsumer
  <2>2. part \in DOMAIN partitions /\ UNCHANGED <<topicMap, log, truncated, requests>>
    BY <1>7, PushedConsumer DEF PushConsumer
  <2> HIDE DEF part
  <2>3. partitions[part].consumers \in Seq(ListedConsumer)
    BY <2>2, <1>2, PartitionFields
  <2>4. /\ Append(partitions[part].consumers, c) \in Seq(ListedConsumer)
        /\ partitions' = [partitions EXCEPT ![part].consumers =
                            Append(partitions[part].consumers, c)]
    BY <2>1, <2>3
  <2> QED
    BY <2>2, <2>4, <1>5
<1>8. CASE Write
  <2>1. /\ UNCHANGED <<topicMap, partitions, truncated, requests>>
        /\ AppendToFile \/ UNCHANGED log
    BY <1>8 DEF Write
  <2>2. ASSUME AppendToFile PROVE log' \in [Topic -> [PartitionId -> Seq(DOMAIN requests)]]
    <3>1. Writing \in WorkItem
      BY <1>8, <1>2 DEF Write, Writing, PartitionPoolTypes, PartitionBusy
    <3> DEFINE part == partitions[Writing.part]
    <3>2. part.topic \in Topic /\ part.id \in PartitionId /\ Writing.id \in DOMAIN requests
      BY <3>1, <1>2, PartitionFields DEF WorkItem
    <3>3. log' = [log EXCEPT ![part.topic][part.id] = Append(@, Writing.id)]
      BY <2>2 DEF AppendToFile
    <3> HIDE DEF part
    <3>4. Append(log[part.topic][part.id], Writing.id) \in Seq(DOMAIN requests)
      BY <3>2, <1>a
    <3> QED
      BY <3>2, <3>3, <3>4, <1>a
  <2>3. log' \in [Topic -> [PartitionId -> Seq(DOMAIN requests)]]
    BY <2>1, <2>2, <1>a
  <2> QED
    BY <2>1, <2>3, <1>a DEF TopicTypes, PartitionsGrow
<1>9. CASE AssignPartition
  <2>1. PICK part \in DOMAIN partitions, c \in ListedConsumer :
          partitions' = [partitions EXCEPT ![part].consumers = Rejoin(@, c)]
    BY <1>9, AssignedConsumer
  <2>2. UNCHANGED <<topicMap, log, truncated, requests>>
    BY <1>9 DEF AssignPartition
  <2>3. /\ Rejoin(partitions[part].consumers, c) \in Seq(ListedConsumer)
        /\ partitions' = [partitions EXCEPT ![part].consumers =
                            Rejoin(partitions[part].consumers, c)]
    BY <2>1, <1>2, PartitionFields, RejoinFacts
  <2> QED
    BY <2>2, <2>3, <1>5
<1> QED
  BY <1>3, <1>4, <1>6, <1>7, <1>8, <1>9, TopicFrame

----------------------------------------------------------------------------
(* Types of the request pool's workers. *)

(* A worker moves to a record that is sound; what the others work on stays. *)
LEMMA WorkerMoves ==
  ASSUME TypeInv, RequestsGrow, PartitionsGrow, NEW w \in Worker, NEW e \in WorkerRecord,
         WorkerSound(e, requests', partitions'), worker' = [worker EXCEPT ![w] = e],
         signalled' \subseteq DOMAIN requests'
  PROVE  WorkerTypes'
<1>1. WorkerTypes
  BY DEF TypeInv
<1>2. worker' \in [Worker -> WorkerRecord]
  BY <1>1 DEF WorkerTypes
<1>3. ASSUME NEW v \in Worker, v # w PROVE WorkerSound(worker'[v], requests', partitions')
  <2>1. worker'[v] = worker[v] /\ WorkerSound(worker[v], requests, partitions)
    BY <1>1, <1>3 DEF WorkerTypes
  <2> QED
    BY <2>1 DEF WorkerSound, RequestsGrow, PartitionsGrow
<1>4. WorkerSound(worker'[w], requests', partitions')
  BY <1>1 DEF WorkerTypes
<1> QED
  BY <1>2, <1>3, <1>4 DEF WorkerTypes

LEMMA WorkersStep ==
  ASSUME TypeInv, [Next]_vars
  PROVE  WorkerTypes'
<1>1. RequestsGrow /\ PartitionsGrow
  BY RequestsStep, TopicsStep DEF TypeInv
<1>2. /\ WorkerTypes /\ RequestTypes /\ TopicTypes
      /\ worker \in [Worker -> WorkerRecord] /\ signalled \subseteq DOMAIN requests
  BY DEF TypeInv, WorkerTypes
<1>3. CASE UNCHANGED workerVars
  <2>1. \A w \in Worker : WorkerSound(worker[w], requests', partitions')
    BY <1>1, <1>2 DEF WorkerTypes, WorkerSound, RequestsGrow, PartitionsGrow
  <2> QED
    BY <2>1, <1>1, <1>2, <1>3 DEF WorkerTypes, RequestsGrow
<1>4. ASSUME NEW w \in Worker, RequestStep(w) PROVE WorkerTypes'
  <2> DEFINE n == worker[w].task
             op == requests[n].op
  <2>1. /\ worker[w] \in WorkerRecord /\ n \in Nat \ {0}
        /\ WorkerSound(worker[w], requests, partitions)
        /\ n \in DOMAIN requests => n \in DOMAIN requests' /\ requests'[n].op = op
    BY <1>1, <1>2 DEF WorkerTypes, WorkerRecord, RequestsGrow
  <2>2. UNCHANGED signalled => signalled' \subseteq DOMAIN requests'
    BY <1>1, <1>2 DEF RequestsGrow
  <2>3. ASSUME NEW o, Taking(w, o)
        PROVE  n \in DOMAIN requests /\ op.op = o /\ op \in Operation
    <3>1. n \in DOMAIN requests
      BY <2>1, <2>3, <1>2 DEF Taking, RequestTypes
    <3> QED
      BY <3>1, <2>3, <1>2, RequestFields DEF Taking, Op
  (* The answer is decided at once. *)
  <2>4. ASSUME NEW ack \in BOOLEAN, AnswerAtOnce(w, ack), UNCHANGED signalled,
               n \in DOMAIN requests, op.op \notin {"who_leader", "subscribe"},
               ack => op.op # "topic_data_insert"
        PROVE  WorkerTypes'
    <3> DEFINE e == [worker[w] EXCEPT !.phase = "answer", !.ack = ack]
    <3>1. e \in WorkerRecord /\ e.task = n /\ e.phase = "answer" /\ e.ack = ack
      BY <2>1 DEF WorkerRecord, Phases
    <3>2. worker' = [worker EXCEPT ![w] = e]
      BY <2>4, <1>2 DEF AnswerAtOnce
    <3> HIDE DEF e
    <3>3. WorkerSound(e, requests', partitions')
      BY <2>1, <2>4, <3>1 DEF WorkerSound
    <3> QED
      BY <3>1, <3>2, <3>3, <1>1, <2>2, <2>4, WorkerMoves
  (* It waits for the request before. *)
  <2>5. ASSUME NEW part \in Nat, WaitForTurn(w, part), UNCHANGED signalled,
               n \in DOMAIN requests,
               \/ op.op \in {"who_leader", "subscribe"} /\ part = 0
               \/ op.op = "topic_data_insert" /\ part \in DOMAIN partitions'
        PROVE  WorkerTypes'
    <3> DEFINE e == [worker[w] EXCEPT !.phase = "ordered", !.part = part]
    <3>1. e \in WorkerRecord /\ e.task = n /\ e.phase = "ordered" /\ e.part = part
      BY <2>1 DEF WorkerRecord, Phases
    <3>2. worker' = [worker EXCEPT ![w] = e]
      BY <2>5, <1>2 DEF WaitForTurn
    <3> HIDE DEF e
    <3>3. WorkerSound(e, requests', partitions')
      BY <2>1, <2>5, <3>1 DEF WorkerSound
    <3> QED
      BY <3>1, <3>2, <3>3, <1>1, <2>2, <2>5, WorkerMoves
  (* The next step of an assignment. *)
  <2>6. ASSUME NEW ph \in {"located", "listed", "cleared"}, NEW part \in Nat,
               worker' = [worker EXCEPT ![w].phase = ph, ![w].part = part],
               UNCHANGED signalled, n \in DOMAIN requests,
               op.op = "consumer_assignment", part \in DOMAIN partitions'
        PROVE  WorkerTypes'
    <3> DEFINE e == [worker[w] EXCEPT !.phase = ph, !.part = part]
    <3>1. e \in WorkerRecord /\ e.task = n /\ e.phase = ph /\ e.part = part
      BY <2>1 DEF WorkerRecord, Phases
    <3>2. worker' = [worker EXCEPT ![w] = e]
      BY <2>6, <1>2
    <3> HIDE DEF e
    <3>3. WorkerSound(e, requests', partitions')
      BY <2>1, <2>6, <3>1 DEF WorkerSound
    <3> QED
      BY <3>1, <3>2, <3>3, <1>1, <2>2, <2>6, WorkerMoves
  <2>7. ASSUME NEW t \in Topic, NEW p, HasPartition(t, p)
        PROVE  topicMap[t][p] \in DOMAIN partitions /\ topicMap[t][p] \in DOMAIN partitions'
               /\ topicMap[t][p] \in Nat
    <3>1. topicMap[t] \in Seq(DOMAIN partitions) /\ p \in DOMAIN topicMap[t]
      BY <2>7, <1>2 DEF TopicTypes, HasPartition
    <3>2. topicMap[t][p] \in DOMAIN partitions
      BY <3>1
    <3> QED
      BY <3>2, <1>1, <1>2, PartitionFields DEF PartitionsGrow
  <2>8. CASE HandleTopicInsert(w)
    <3>1. n \in DOMAIN requests /\ op.op = "topic_insert"
      BY <2>3, <2>8 DEF HandleTopicInsert
    <3>2. UNCHANGED signalled /\ (AnswerAtOnce(w, TRUE) \/ AnswerAtOnce(w, FALSE))
      BY <2>8 DEF HandleTopicInsert
    <3> QED
      BY <3>1, <3>2, <2>4
  <2>9. CASE HandleDataInsert(w)
    <3>1. n \in DOMAIN requests /\ op.op = "topic_data_insert" /\ op \in Operation
      BY <2>3, <2>9 DEF HandleDataInsert
    <3>2. op.topic \in Topic
      BY <3>1, OperationTypes
    <3>3. UNCHANGED signalled
      BY <2>9 DEF HandleDataInsert
    <3>4. CASE HasPartition(op.topic, op.partition)
      <4>1. WaitForTurn(w, topicMap[op.topic][op.partition])
        BY <3>4, <2>9 DEF HandleDataInsert, Op
      <4> QED
        BY <4>1, <3>1, <3>2, <3>3, <3>4, <2>5, <2>7
    <3>5. CASE ~HasPartition(op.topic, op.partition)
      <4>1. AnswerAtOnce(w, FALSE)
        BY <3>5, <2>9 DEF HandleDataInsert, Op
      <4> QED
        BY <4>1, <3>1, <3>3, <2>4
    <3> QED
      BY <3>4, <3>5
  <2>10. CASE HandleWhoLeader(w) \/ HandleSubscribe(w)
    <3>1. n \in DOMAIN requests /\ op.op \in {"who_leader", "subscribe"}
      BY <2>3, <2>10 DEF HandleWhoLeader, HandleSubscribe
    <3>2. UNCHANGED signalled /\ WaitForTurn(w, 0)
      BY <2>10 DEF HandleWhoLeader, HandleSubscribe
    <3> QED
      BY <3>1, <3>2, <2>5
  <2>11. CASE HandleUnknown(w)
    <3>1. n \in DOMAIN requests /\ op.op = "unknown"
      BY <2>3, <2>11 DEF HandleUnknown
    <3>2. UNCHANGED signalled /\ AnswerAtOnce(w, FALSE)
      BY <2>11 DEF HandleUnknown
    <3> QED
      BY <3>1, <3>2, <2>4
  <2>12. CASE LocatePartition(w)
    <3>1. n \in DOMAIN requests /\ op.op = "consumer_assignment" /\ op \in Operation
      BY <2>3, <2>12 DEF LocatePartition
    <3>2. op.topic \in Topic
      BY <3>1, OperationTypes
    <3>3. UNCHANGED signalled
      BY <2>12 DEF LocatePartition
    <3>4. CASE HasPartition(op.topic, op.partition)
      <4>1. worker' = [worker EXCEPT ![w].phase = "located",
                                     ![w].part = topicMap[op.topic][op.partition]]
        BY <3>4, <2>12 DEF LocatePartition, Op
      <4> QED
        BY <4>1, <3>1, <3>2, <3>3, <3>4, <2>6, <2>7
    <3>5. CASE ~HasPartition(op.topic, op.partition)
      <4>1. AnswerAtOnce(w, FALSE)
        BY <3>5, <2>12 DEF LocatePartition, Op
      <4> QED
        BY <4>1, <3>1, <3>3, <2>4
    <3> QED
      BY <3>4, <3>5
  <2>13. CASE CopyListArc(w) \/ ClearConsumers(w)
    <3>1. /\ n \in DOMAIN requests /\ op.op = "consumer_assignment"
          /\ worker[w].part \in DOMAIN partitions'
      BY <2>13, <2>1, <1>1 DEF CopyListArc, ClearConsumers, WorkerSound, PartitionsGrow
    <3>2. PICK ph \in {"listed", "cleared"} :
            UNCHANGED signalled /\ worker' = [worker EXCEPT ![w].phase = ph]
      BY <2>13 DEF CopyListArc, ClearConsumers
    <3>3. worker' = [worker EXCEPT ![w].phase = ph, ![w].part = worker[w].part]
      BY <3>2, <2>1, <1>2 DEF WorkerRecord
    <3>4. worker[w].part \in Nat
      BY <2>1 DEF WorkerRecord
    <3> QED
      BY <3>1, <3>2, <3>3, <3>4, <2>6
  <2>14. CASE PushConsumer(w)
    <3>1. n \in DOMAIN requests /\ op.op = "consumer_assignment"
      BY <2>14, <2>1 DEF PushConsumer, WorkerSound
    <3>2. UNCHANGED signalled /\ AnswerAtOnce(w, TRUE)
      BY <2>14 DEF PushConsumer
    <3> QED
      BY <3>1, <3>2, <2>4
  <2>15. CASE AnswerRequest(w) \/ AnswerLeader(w) \/ ForwardToRegistration(w)
              \/ ForwardToPartition(w)
    <3> DEFINE e == [task |-> n + RequestWorkers, phase |-> "idle", part |-> 0, ack |-> FALSE]
    <3>1. /\ n \in DOMAIN requests
          /\ signalled' = signalled \cup {n} /\ worker' = [worker EXCEPT ![w] = e]
      BY <2>15, <2>1 DEF AnswerRequest, AnswerLeader, ForwardToRegistration, ForwardToPartition,
         SignalNext, WorkerSound
    <3>2. e \in WorkerRecord /\ WorkerSound(e, requests', partitions')
      BY <2>1, NatConstants DEF WorkerRecord, WorkerSound, Phases
    <3>3. signalled' \subseteq DOMAIN requests'
      BY <3>1, <1>1, <1>2 DEF RequestsGrow
    <3> HIDE DEF e
    <3> QED
      BY <3>1, <3>2, <3>3, <1>1, WorkerMoves
  <2> QED
    BY <1>4, <2>8, <2>9, <2>10, <2>11, <2>12, <2>13, <2>14, <2>15 DEF RequestStep
<1> QED
  BY <1>3, <1>4, WorkerFrame

----------------------------------------------------------------------------
(* Types of the pools behind the request pool. *)

(* Work stays work while requests and partitions grow. *)
LEMMA WorkStays ==
  ASSUME RequestsGrow, PartitionsGrow, NEW s \in Seq(WorkItem)
  PROVE  s \in Seq(WorkItem')
<1>1. WorkItem \subseteq WorkItem'
  BY DEF WorkItem, RequestsGrow, PartitionsGrow
<1> HIDE DEF WorkItem
<1> QED
  BY <1>1, SeqGrows

(* While a worker is at work, what it works on is the last item started. *)
LEMMA WritingIsWork ==
  ASSUME PartitionPoolTypes, writing # "none"
  PROVE  /\ Writing \in WorkItem /\ Writing.id \in DOMAIN requests
         /\ Writing.part \in DOMAIN partitions
         /\ Len(pStarted) \in DOMAIN pAccepted /\ Writing = pAccepted[Len(pStarted)]
<1>1. Len(pStarted) \in DOMAIN pStarted /\ Writing \in WorkItem
  <2> HIDE DEF WorkItem
  <2>1. Len(pStarted) \in Nat /\ Len(pStarted) # 0
    BY DEF PartitionPoolTypes, PartitionBusy
  <2> QED
    BY <2>1 DEF PartitionPoolTypes, Writing
<1>2. Len(pStarted) \in DOMAIN pAccepted /\ Writing = pAccepted[Len(pStarted)]
  BY <1>1 DEF PartitionPoolTypes, Writing
<1> QED
  BY <1>1, <1>2 DEF WorkItem

LEMMA NotifyingIsWork ==
  ASSUME ConsumerPoolTypes, ConsumerBusy
  PROVE  /\ Notifying \in WorkItem /\ Notifying.id \in DOMAIN requests
         /\ Notifying.part \in DOMAIN partitions
         /\ Len(cStarted) \in DOMAIN cStarted
<1>1. Len(cStarted) \in DOMAIN cStarted /\ Notifying \in WorkItem
  <2> HIDE DEF WorkItem
  <2>1. Len(cStarted) \in Nat /\ Len(cStarted) # 0
    BY DEF ConsumerPoolTypes, ConsumerBusy
  <2> QED
    BY <2>1 DEF ConsumerPoolTypes, Notifying
<1> QED
  BY <1>1 DEF WorkItem

LEMMA PartitionPoolStep ==
  ASSUME TypeInv, [Next]_vars
  PROVE  PartitionPoolTypes'
<1>1. RequestsGrow /\ PartitionsGrow
  BY RequestsStep, TopicsStep DEF TypeInv
<1>2. PartitionPoolTypes /\ WorkerTypes /\ RequestTypes /\ TopicTypes
  BY DEF TypeInv
<1>3. pAccepted \in Seq(WorkItem') /\ pStarted \in Seq(WorkItem')
  BY <1>1, <1>2, WorkStays DEF PartitionPoolTypes
<1>4. \A i \in DOMAIN pAccepted :
        pAccepted[i].id \in DOMAIN requests' /\ requests'[pAccepted[i].id].op.op = "topic_data_insert"
  <2>1. ASSUME NEW i \in DOMAIN pAccepted PROVE pAccepted[i] \in WorkItem
    <3> HIDE DEF WorkItem
    <3> QED
      BY <1>2 DEF PartitionPoolTypes
  <2> QED
    BY <2>1, <1>1, <1>2 DEF PartitionPoolTypes, IsDataInsert, RequestsGrow, WorkItem
<1>5. CASE UNCHANGED <<partitionPool, writing>>
  BY <1>2, <1>3, <1>4, <1>5 DEF PartitionPoolTypes, IsDataInsert, PartitionBusy
<1>6. ASSUME NEW w \in Worker, ForwardToPartition(w) PROVE PartitionPoolTypes'
  <2> DEFINE item == Work(worker[w].task, worker[w].part)
  <2>1. /\ worker[w].task \in DOMAIN requests /\ worker[w].part \in DOMAIN partitions
        /\ requests[worker[w].task].op.op = "topic_data_insert"
    BY <1>6, <1>2 DEF ForwardToPartition, WorkerTypes, WorkerSound, WorkerRecord
  <2>2. item \in WorkItem' /\ requests'[item.id].op.op = "topic_data_insert"
    BY <2>1, <1>1 DEF Work, WorkItem, RequestsGrow, PartitionsGrow
  <2>3. pAccepted' = Append(pAccepted, item) /\ UNCHANGED <<pStarted, pFinished, writing>>
    BY <1>6 DEF ForwardToPartition, PartitionPool!Accept
  <2> HIDE DEF item
  <2>4. /\ pAccepted' \in Seq(WorkItem') /\ Len(pAccepted') = Len(pAccepted) + 1
        /\ DOMAIN pAccepted' = DOMAIN pAccepted \cup {Len(pAccepted) + 1}
        /\ \A i \in DOMAIN pAccepted : pAccepted'[i] = pAccepted[i]
        /\ pAccepted'[Len(pAccepted) + 1] = item
    <3> HIDE DEF WorkItem
    <3> QED
      BY <2>2, <2>3, <1>3, AppendedSeq
  <2>5. \A i \in DOMAIN pAccepted' : requests'[pAccepted'[i].id].op.op = "topic_data_insert"
    BY <2>2, <2>4, <1>4
  <2>6. \A i \in DOMAIN pStarted : i \in DOMAIN pAccepted
    BY <1>2, <1>3 DEF PartitionPoolTypes
  <2> QED
    BY <2>3, <2>4, <2>5, <2>6, <1>2, <1>3 DEF PartitionPoolTypes, PartitionBusy, IsDataInsert
<1>7. CASE BeginWrite
  <2> DEFINE item == pAccepted[Len(pStarted) + 1]
  <2>1. /\ pFinished = Len(pStarted) /\ Len(pStarted) < Len(pAccepted)
        /\ pStarted' = Append(pStarted, item) /\ UNCHANGED <<pAccepted, pFinished>>
        /\ writing' = "begun"
    BY <1>7 DEF BeginWrite, PartitionPool!Start
  <2>2. item \in WorkItem'
    BY <2>1, <1>3
  <2>3. item = pAccepted[Len(pStarted) + 1]
    OBVIOUS
  <2> HIDE DEF item
  <2>4. /\ pStarted' \in Seq(WorkItem') /\ Len(pStarted') = Len(pStarted) + 1
        /\ DOMAIN pStarted' = DOMAIN pStarted \cup {Len(pStarted) + 1}
        /\ \A i \in DOMAIN pStarted : pStarted'[i] = pStarted[i]
        /\ pStarted'[Len(pStarted) + 1] = item
    <3> HIDE DEF WorkItem
    <3> QED
      BY <2>1, <2>2, <1>3, AppendedSeq
  <2>5. \A i \in DOMAIN pStarted' : pStarted'[i] = pAccepted'[i]
    BY <2>1, <2>3, <2>4, <1>2 DEF PartitionPoolTypes
  <2> QED
    BY <2>1, <2>4, <2>5, <1>2, <1>3, <1>4 DEF PartitionPoolTypes, PartitionBusy, IsDataInsert
<1>8. CASE Write \/ AckWrite
  <2>1. UNCHANGED partitionPool /\ writing # "none" /\ writing' \in {"written", "acked", "failed"}
    BY <1>8 DEF Write, AckWrite
  <2> QED
    BY <2>1, <1>2, <1>3, <1>4 DEF PartitionPoolTypes, PartitionBusy, IsDataInsert
<1>9. CASE NotifyConsumers \/ AnswerFailedWrite
  <2>1. /\ UNCHANGED <<pAccepted, pStarted>> /\ pFinished' = pFinished + 1
        /\ pFinished < Len(pStarted) /\ writing' = "none"
    BY <1>9 DEF NotifyConsumers, AnswerFailedWrite, PartitionPool!Finish
  <2> QED
    BY <2>1, <1>2, <1>3, <1>4 DEF PartitionPoolTypes, PartitionBusy, IsDataInsert
<1> QED
  BY <1>5, <1>6, <1>7, <1>8, <1>9, PartitionPoolFrame DEF PartitionStep

LEMMA ConsumerPoolStep ==
  ASSUME TypeInv, [Next]_vars
  PROVE  ConsumerPoolTypes'
<1>1. RequestsGrow /\ PartitionsGrow
  BY RequestsStep, TopicsStep DEF TypeInv
<1>2. PartitionPoolTypes /\ ConsumerPoolTypes /\ TopicTypes
  BY DEF TypeInv
<1>3. cAccepted \in Seq(WorkItem') /\ cStarted \in Seq(WorkItem')
  BY <1>1, <1>2, WorkStays DEF ConsumerPoolTypes
<1>4. CASE UNCHANGED <<consumerPool, notifying>>
  BY <1>2, <1>3, <1>4 DEF ConsumerPoolTypes, ConsumerBusy
<1>5. CASE NotifyConsumers
  <2>1. Writing \in WorkItem'
    <3>1. Writing \in WorkItem
      BY <1>5, <1>2, WritingIsWork DEF NotifyConsumers
    <3> QED
      BY <3>1, <1>1 DEF WorkItem, RequestsGrow, PartitionsGrow
  <2>2. cAccepted' = Append(cAccepted, Writing) /\ UNCHANGED <<cStarted, cFinished, notifying>>
    BY <1>5 DEF NotifyConsumers, ConsumerPool!Accept
  <2>3. /\ cAccepted' \in Seq(WorkItem') /\ Len(cAccepted') = Len(cAccepted) + 1
        /\ \A i \in DOMAIN cAccepted : cAccepted'[i] = cAccepted[i]
    <3> HIDE DEF WorkItem
    <3> QED
      BY <2>1, <2>2, <1>3, AppendedSeq
  <2>4. \A i \in DOMAIN cStarted : i \in DOMAIN cAccepted
    BY <1>2, <1>3 DEF ConsumerPoolTypes
  <2> QED
    BY <2>2, <2>3, <2>4, <1>2, <1>3 DEF ConsumerPoolTypes, ConsumerBusy
<1>6. CASE BeginNotify
  <2> DEFINE item == cAccepted[Len(cStarted) + 1]
  <2>1. /\ cFinished = Len(cStarted) /\ Len(cStarted) < Len(cAccepted)
        /\ cStarted' = Append(cStarted, item) /\ UNCHANGED <<cAccepted, cFinished>>
        /\ notifying' = [copied |-> FALSE, left |-> <<>>]
    BY <1>6 DEF BeginNotify, ConsumerPool!Start
  <2>2. item \in WorkItem'
    BY <2>1, <1>3
  <2>3. item = cAccepted[Len(cStarted) + 1]
    OBVIOUS
  <2> HIDE DEF item
  <2>4. /\ cStarted' \in Seq(WorkItem') /\ Len(cStarted') = Len(cStarted) + 1
        /\ DOMAIN cStarted' = DOMAIN cStarted \cup {Len(cStarted) + 1}
        /\ \A i \in DOMAIN cStarted : cStarted'[i] = cStarted[i]
        /\ cStarted'[Len(cStarted) + 1] = item
    <3> HIDE DEF WorkItem
    <3> QED
      BY <2>1, <2>2, <1>3, AppendedSeq
  <2>5. \A i \in DOMAIN cStarted' : cStarted'[i] = cAccepted'[i]
    BY <2>1, <2>3, <2>4, <1>2 DEF ConsumerPoolTypes
  <2>6. /\ notifying' \in [copied : BOOLEAN, left : Seq(ListedConsumer)]
        /\ notifying'.left = <<>> /\ notifying'.copied = FALSE
    BY <2>1
  <2> QED
    BY <2>1, <2>4, <2>5, <2>6, <1>2, <1>3 DEF ConsumerPoolTypes, ConsumerBusy
<1>7. CASE CopyConsumers
  <2>1. Notifying \in WorkItem
    BY <1>7, <1>2, NotifyingIsWork DEF CopyConsumers
  <2>2. partitions[Notifying.part].consumers \in Seq(ListedConsumer)
    BY <2>1, <1>2, PartitionFields DEF WorkItem
  <2>3. /\ notifying' \in [copied : BOOLEAN, left : Seq(ListedConsumer)]
        /\ notifying'.copied = TRUE /\ UNCHANGED consumerPool /\ ConsumerBusy
    BY <1>7, <2>2 DEF CopyConsumers
  <2> QED
    BY <2>3, <1>2, <1>3 DEF ConsumerPoolTypes, ConsumerBusy
<1>8. CASE SendToConsumer
  <2>1. /\ notifying' \in [copied : BOOLEAN, left : Seq(ListedConsumer)]
        /\ notifying'.copied = notifying.copied /\ UNCHANGED consumerPool
        /\ notifying.copied
    <3>1. /\ notifying.left # <<>> /\ notifying' = [notifying EXCEPT !.left = Tail(@)]
          /\ UNCHANGED consumerPool
      BY <1>8 DEF SendToConsumer
    <3>2. /\ notifying \in [copied : BOOLEAN, left : Seq(ListedConsumer)] /\ notifying.copied
      BY <3>1, <1>2 DEF ConsumerPoolTypes
    <3>3. Tail(notifying.left) \in Seq(ListedConsumer)
      BY <3>1, <3>2
    <3> QED
      BY <3>1, <3>2, <3>3
  <2> QED
    BY <2>1, <1>2, <1>3 DEF ConsumerPoolTypes, ConsumerBusy
<1>9. CASE EndNotify
  <2>1. /\ UNCHANGED <<cAccepted, cStarted>> /\ cFinished' = cFinished + 1
        /\ cFinished < Len(cStarted)
        /\ notifying' = [copied |-> FALSE, left |-> <<>>]
    BY <1>9 DEF EndNotify, ConsumerPool!Finish
  <2>2. /\ notifying' \in [copied : BOOLEAN, left : Seq(ListedConsumer)]
        /\ notifying'.left = <<>> /\ notifying'.copied = FALSE
    BY <2>1
  <2> QED
    BY <2>1, <2>2, <1>2, <1>3 DEF ConsumerPoolTypes, ConsumerBusy
<1> QED
  BY <1>4, <1>5, <1>6, <1>7, <1>8, <1>9, ConsumerPoolFrame DEF ConsumerStep

----------------------------------------------------------------------------
(* Types of ConsumerReg's state. *)

LEMMA RegStep ==
  ASSUME TypeInv, [Next]_vars
  PROVE  RegTypes'
<1>1. RequestsGrow /\ PartitionsGrow
  BY RequestsStep, TopicsStep DEF TypeInv
<1>2. RegTypes /\ WorkerTypes /\ RequestTypes /\ TopicTypes
  BY DEF TypeInv
<1>3. /\ regQueue \in Seq(DOMAIN requests')
      /\ \A i \in DOMAIN regQueue : requests'[regQueue[i]].op.op = "subscribe"
  <2>1. regQueue \in Seq(DOMAIN requests)
    BY <1>2 DEF RegTypes
  <2>2. regQueue \in Seq(DOMAIN requests')
    BY <2>1, <1>1, SeqGrows DEF RequestsGrow
  <2>3. \A i \in DOMAIN regQueue : regQueue[i] \in DOMAIN requests
    BY <2>1
  <2> QED
    BY <2>2, <2>3, <1>1, <1>2 DEF RegTypes, RequestsGrow
<1>4. /\ Rebalancing \subseteq Rebalancing'
      /\ reg \in {NotRegistering, [phase |-> "dead"]} \cup Rebalancing'
      /\ reg.phase = "rebalancing" => requests'[reg.id].op.op = "subscribe" /\ reg \in Rebalancing
  <2>1. Seq(DOMAIN partitions) \subseteq Seq(DOMAIN partitions')
    BY <1>1, SeqGrows DEF PartitionsGrow
  <2>2. Rebalancing \subseteq Rebalancing'
    BY <2>1, <1>1 DEF Rebalancing, RequestsGrow
  <2>3. reg.phase = "rebalancing" => reg \in Rebalancing
    BY <1>2 DEF RegTypes, NotRegistering
  <2>4. reg.phase = "rebalancing" => requests'[reg.id].op.op = "subscribe"
    BY <2>3, <1>1, <1>2 DEF RegTypes, Rebalancing, RequestsGrow
  <2> QED
    BY <2>2, <2>3, <2>4, <1>2 DEF RegTypes
<1>5. CASE UNCHANGED regVars
  BY <1>2, <1>3, <1>4, <1>5 DEF RegTypes, NotRegistering
<1>6. ASSUME NEW w \in Worker, ForwardToRegistration(w) PROVE RegTypes'
  <2> DEFINE n == worker[w].task
  <2>1. n \in DOMAIN requests' /\ requests'[n].op.op = "subscribe"
    BY <1>6, <1>1, <1>2 DEF ForwardToRegistration, WorkerTypes, WorkerSound, Op, RequestsGrow
  <2>2. UNCHANGED <<registered, members, dealt, reg>>
    BY <1>6 DEF ForwardToRegistration
  <2>3. \/ UNCHANGED regQueue
        \/ Len(regQueue) < RegistrationCap /\ regQueue' = Append(regQueue, n)
    BY <1>6 DEF ForwardToRegistration
  <2>4. CASE UNCHANGED regQueue
    BY <2>4, <2>2, <1>5
  <2>5. CASE Len(regQueue) < RegistrationCap /\ regQueue' = Append(regQueue, n)
    <3> HIDE DEF n
    <3>1. /\ regQueue' \in Seq(DOMAIN requests') /\ Len(regQueue') <= RegistrationCap
          /\ \A i \in DOMAIN regQueue' : requests'[regQueue'[i]].op.op = "subscribe"
      BY <2>1, <2>5, <1>3, NatConstants
    <3> QED
      BY <3>1, <2>2, <1>2, <1>4 DEF RegTypes, NotRegistering
  <2> QED
    BY <2>3, <2>4, <2>5
<1>7. CASE Register
  <2> DEFINE id == Head(regQueue)
             t == requests[id].op.topic
             g == requests[id].op.group
             new == Len(registered) + 1
             C == [addr : Client, group : Group]
             c == [addr |-> requests[id].client, group |-> g]
  <2>1. regQueue # <<>> /\ regQueue' = Tail(regQueue)
    BY <1>7 DEF Register
  <2>2. /\ regQueue' \in Seq(DOMAIN requests') /\ Len(regQueue') <= RegistrationCap
        /\ \A i \in DOMAIN regQueue' : requests'[regQueue'[i]].op.op = "subscribe"
    BY <2>1, <1>2, <1>3, NatConstants DEF RegTypes
  <2>3. id \in DOMAIN requests /\ requests[id].op.op = "subscribe"
    <3>1. 1 \in DOMAIN regQueue /\ Head(regQueue) = regQueue[1]
      BY <2>1, <1>3
    <3> QED
      BY <3>1, <1>2 DEF RegTypes
  <2>4. t \in Topic /\ g \in Group /\ c \in C
    BY <2>3, <1>2, RequestFields, OperationTypes
  <2>5. CASE reg' = [phase |-> "dead"] /\ UNCHANGED <<registered, members, dealt>>
    BY <2>2, <2>5, <1>2 DEF RegTypes
  <2>6. CASE /\ registered' = Append(registered, c)
             /\ members' = [members EXCEPT ![g] = Append(@, new)]
             /\ dealt' = [dealt EXCEPT ![t][g] = Len(members'[g])]
             /\ \E order \in Orders(topicMap[t]) :
                  reg' = [phase |-> "rebalancing", id |-> id, topic |-> t, group |-> g,
                          left |-> order, next |-> 0]
    <3> HIDE DEF c, g, t, id
    <3>1. registered \in Seq(C) /\ members \in [Group -> Seq(DOMAIN registered)]
      BY <1>2 DEF RegTypes
    <3>2. /\ registered' \in Seq(C) /\ DOMAIN registered \subseteq DOMAIN registered'
          /\ new \in DOMAIN registered'
      <4> HIDE DEF C
      <4> QED
        BY <2>4, <2>6, <3>1
    <3>3. \A h \in Group : members[h] \in Seq(DOMAIN registered')
      BY <3>1, <3>2, SeqGrows
    <3> HIDE DEF new
    <3>4. members' \in [Group -> Seq(DOMAIN registered')] /\ members'[g] # <<>>
      <4>1. Append(members[g], new) \in Seq(DOMAIN registered') /\ Append(members[g], new) # <<>>
        <5> DEFINE D == DOMAIN registered'
        <5>1. members[g] \in Seq(D) /\ new \in D
          BY <3>2, <3>3, <2>4
        <5> HIDE DEF D
        <5>2. Append(members[g], new) \in Seq(D) /\ Append(members[g], new) # <<>>
          BY <5>1, AppendedSeq
        <5> QED
          BY <5>2 DEF D
      <4> QED
        BY <4>1, <3>1, <3>3, <2>4, <2>6
    <3>9. dealt' \in [Topic -> [Group -> Nat]]
      <4>1. members'[g] \in Seq(DOMAIN registered')
        BY <3>4, <2>4
      <4>2. Len(members'[g]) \in Nat
        BY <4>1
      <4>3. PICK n \in Nat : n = Len(members'[g])
        BY <4>2
      <4>4. dealt' = [dealt EXCEPT ![t][g] = n]
        BY <4>3, <2>6
      <4> QED
        BY <4>3, <4>4, <2>4, <1>2 DEF RegTypes
    <3>5. PICK order \in Orders(topicMap[t]) :
            reg' = [phase |-> "rebalancing", id |-> id, topic |-> t, group |-> g,
                    left |-> order, next |-> 0]
      BY <2>6
    <3>6. order \in Seq(DOMAIN partitions)
      <4>1. topicMap[t] \in Seq(DOMAIN partitions)
        BY <2>4, <1>2 DEF TopicTypes
      <4>2. ToSet(topicMap[t]) \subseteq DOMAIN partitions /\ Len(topicMap[t]) \in Nat
        BY <4>1 DEF ToSet
      <4>3. order \in [1 .. Len(topicMap[t]) -> ToSet(topicMap[t])]
        BY DEF Orders
      <4>4. order \in [1 .. Len(topicMap[t]) -> DOMAIN partitions]
        BY <4>2, <4>3
      <4> QED
        BY <4>2, <4>4
    <3>7. reg' \in Rebalancing /\ reg'.group = g /\ reg'.id = id
      BY <3>5, <3>6, <2>3, <2>4 DEF Rebalancing
    <3>8. requests'[id].op.op = "subscribe"
      BY <2>3, <1>1 DEF RequestsGrow, id
    <3> QED
      BY <3>2, <3>4, <3>7, <3>8, <3>9, <2>2, <1>4 DEF RegTypes
  <2> QED
    BY <1>7, <2>5, <2>6 DEF Register
<1>8. CASE AssignPartition
  <2>1. /\ reg.phase = "rebalancing" /\ reg.left # <<>>
        /\ reg' = [reg EXCEPT !.left = Tail(@), !.next = @ + 1]
        /\ UNCHANGED <<registered, members, dealt, regQueue>>
    BY <1>8 DEF AssignPartition
  <2>2. reg \in Rebalancing /\ Tail(reg.left) \in Seq(DOMAIN partitions)
    BY <2>1, <1>4 DEF Rebalancing
  <2>3. reg' \in Rebalancing /\ reg'.id = reg.id /\ reg'.group = reg.group
    <3> DEFINE L == Seq(DOMAIN partitions)
               l == Tail(reg.left)
    <3>1. /\ reg \in [phase : {"rebalancing"}, id : DOMAIN requests, topic : Topic, group : Group,
                      left : L, next : Nat]
          /\ l \in L /\ reg.next + 1 \in Nat
          /\ reg' = [reg EXCEPT !.left = l, !.next = reg.next + 1]
      BY <2>1, <2>2 DEF Rebalancing
    <3> HIDE DEF L, l
    <3>2. /\ reg' \in [phase : {"rebalancing"}, id : DOMAIN requests, topic : Topic, group : Group,
                       left : L, next : Nat]
          /\ reg'.id = reg.id /\ reg'.group = reg.group
      BY <3>1
    <3> QED
      BY <3>2 DEF Rebalancing, L
  <2> QED
    BY <2>1, <2>3, <1>2, <1>3, <1>4 DEF RegTypes
<1>9. CASE AckSubscription
  <2>1. reg' = NotRegistering /\ UNCHANGED <<registered, members, dealt, regQueue>>
    BY <1>9 DEF AckSubscription
  <2> QED
    BY <2>1, <1>2, <1>3 DEF RegTypes, NotRegistering
<1> QED
  BY <1>5, <1>6, <1>7, <1>8, <1>9, RegFrame DEF RegistrationStep

----------------------------------------------------------------------------
(* Types of the responses. *)

LEMMA ResponsesStep ==
  ASSUME TypeInv, [Next]_vars
  PROVE  ResponseTypes'
<1> DEFINE R == AnswerRecord \cup NotificationRecord
<1>1. RequestsGrow
  BY RequestsStep DEF TypeInv
<1>2. /\ ResponseTypes /\ WorkerTypes /\ RequestTypes /\ TopicTypes
      /\ PartitionPoolTypes /\ ConsumerPoolTypes /\ RegTypes
  BY DEF TypeInv
<1>3. R \subseteq R'
  BY <1>1 DEF AnswerRecord, NotificationRecord, RequestsGrow
<1> HIDE DEF R
<1>4. responses \in Seq(R') /\ delivered \in 0 .. Len(responses) /\ dropped \subseteq 1 .. delivered
  BY <1>2, <1>3, SeqGrows DEF ResponseTypes, R
<1>5. ASSUME NEW r \in R, Respond(r) PROVE ResponseTypes'
  <2>1. responses' = Append(responses, r) /\ UNCHANGED <<delivered, dropped>>
    BY <1>5 DEF Respond
  <2>2. responses' \in Seq(R') /\ Len(responses') = Len(responses) + 1
    BY <2>1, <1>3, <1>4
  <2>3. delivered' \in 0 .. Len(responses')
    BY <2>1, <2>2, <1>4
  <2> QED
    BY <2>1, <2>2, <2>3, <1>4 DEF ResponseTypes, R
<1>6. ASSUME NEW id \in DOMAIN requests, NEW ack \in BOOLEAN, Respond(Answer(id, ack))
      PROVE  ResponseTypes'
  <2>1. Answer(id, ack) \in R
    BY <1>2, RequestFields DEF R, Answer, AnswerRecord
  <2> QED
    BY <2>1, <1>5, <1>6
<1>7. CASE UNCHANGED responseVars
  BY <1>4, <1>7 DEF ResponseTypes, R
<1>8. ASSUME NEW w \in Worker, AnswerRequest(w) \/ AnswerLeader(w) PROVE ResponseTypes'
  <2>1. worker[w].task \in DOMAIN requests /\ worker[w].ack \in BOOLEAN
    BY <1>8, <1>2 DEF AnswerRequest, AnswerLeader, WorkerTypes, WorkerSound, WorkerRecord
  <2> QED
    BY <2>1, <1>6, <1>8 DEF AnswerRequest, AnswerLeader
<1>9. CASE AckWrite \/ AnswerFailedWrite
  <2>1. Writing \in WorkItem
    BY <1>9, <1>2, WritingIsWork DEF AckWrite, AnswerFailedWrite
  <2> QED
    BY <2>1, <1>6, <1>9 DEF AckWrite, AnswerFailedWrite, WorkItem
<1>10. CASE SendToConsumer
  <2> DEFINE c == Head(notifying.left)
  <2>1. Notifying \in WorkItem /\ c \in ListedConsumer
    <3>1. notifying.left # <<>> /\ notifying.left \in Seq(ListedConsumer) /\ ConsumerBusy
      BY <1>10, <1>2 DEF SendToConsumer, ConsumerPoolTypes
    <3>2. c \in ListedConsumer
      <4> HIDE DEF ListedConsumer
      <4> QED
        BY <3>1
    <3> QED
      BY <3>1, <3>2, <1>2, NotifyingIsWork
  <2>2. Notification(Notifying.id, c) \in R
    BY <2>1 DEF R, Notification, NotificationRecord, WorkItem, ListedConsumer
  <2> QED
    BY <2>2, <1>5, <1>10 DEF SendToConsumer
<1>11. CASE AckSubscription
  <2>1. reg \in Rebalancing
    BY <1>11, <1>2 DEF AckSubscription, RegTypes, NotRegistering
  <2> QED
    BY <2>1, <1>6, <1>11 DEF AckSubscription, Rebalancing
<1>12. CASE Deliver
  <2>1. /\ delivered < Len(responses) /\ delivered' = delivered + 1 /\ UNCHANGED responses
        /\ dropped' \subseteq dropped \cup {delivered'}
    BY <1>12 DEF Deliver
  <2> QED
    BY <2>1, <1>4 DEF ResponseTypes, R
<1> QED
  BY <1>7, <1>8, <1>9, <1>10, <1>11, <1>12, ResponseFrame

LEMMA TypeInvInit == Init => TypeInv
<1> SUFFICES ASSUME Init PROVE TypeInv
  OBVIOUS
<1>1. RequestTypes /\ ResponseTypes
  BY DEF Init, RequestTypes, ResponseTypes
<1>2. WorkerTypes
  BY NatConstants DEF Init, WorkerTypes, WorkerRecord, WorkerSound, Phases, Worker
<1>3. TopicTypes
  BY DEF Init, TopicTypes
<1>4. PartitionPoolTypes /\ ConsumerPoolTypes
  BY DEF Init, PartitionPoolTypes, ConsumerPoolTypes, PartitionPool!Init, ConsumerPool!Init,
     PartitionBusy, ConsumerBusy
<1>5. RegTypes
  BY NatConstants DEF Init, RegTypes, NotRegistering
<1> QED
  BY <1>1, <1>2, <1>3, <1>4, <1>5 DEF TypeInv

LEMMA TypeInvNext == TypeInv /\ [Next]_vars => TypeInv'
BY RequestsStep, WorkersStep, TopicsStep, PartitionPoolStep, ConsumerPoolStep, RegStep,
   ResponsesStep DEF TypeInv

LEMMA TypeInvAlways == Spec => []TypeInv
BY TypeInvInit, TypeInvNext, PTL DEF Spec

LEMMA TypesAreTyped == TypeInv => TypeOK
<1> SUFFICES ASSUME TypeInv PROVE TypeOK
  OBVIOUS
<1>1. reg.phase \in {"idle", "rebalancing", "dead"}
  BY DEF TypeInv, RegTypes, NotRegistering, Rebalancing
<1> QED
  BY <1>1 DEF TypeInv, TypeOK, RequestTypes, WorkerTypes, WorkerRecord, TopicTypes,
     PartitionPoolTypes, ConsumerPoolTypes, RegTypes, ResponseTypes

(* The broker's state has its types: in particular a worker's task is a request
   it received, the partitions of the maps and of the queues exist, and
   ConsumerReg's queue holds no more than its channel. *)
THEOREM BrokerTypes == Spec => []TypeOK
BY TypeInvAlways, TypesAreTyped, PTL

----------------------------------------------------------------------------
(* The one path of a request. *)

(* A request step either leaves tasks and signals alone, or is the last one
   for the worker's request. *)
SignalStep(w) ==
  AnswerRequest(w) \/ AnswerLeader(w) \/ ForwardToRegistration(w) \/ ForwardToPartition(w)

LEMMA TasksStep ==
  ASSUME TypeInv, [Next]_vars
  PROVE  \/ UNCHANGED signalled /\ \A v \in Worker : worker'[v].task = worker[v].task
         \/ \E w \in Worker : SignalStep(w) /\ SignalNext(w)
<1>1. worker \in [Worker -> WorkerRecord]
  BY DEF TypeInv, WorkerTypes
<1>2. CASE UNCHANGED workerVars
  BY <1>2
<1>3. ASSUME NEW w \in Worker, RequestStep(w)
      PROVE  \/ UNCHANGED signalled /\ \A v \in Worker : worker'[v].task = worker[v].task
             \/ SignalStep(w) /\ SignalNext(w)
  <2>1. SignalStep(w) => SignalNext(w)
    BY DEF SignalStep, AnswerRequest, AnswerLeader, ForwardToRegistration, ForwardToPartition
  <2>2. CASE ~SignalStep(w)
    <3>1. UNCHANGED signalled
      BY <1>3, <2>2 DEF RequestStep, SignalStep, HandleTopicInsert, HandleDataInsert,
         HandleWhoLeader, HandleUnknown, HandleSubscribe, LocatePartition, CopyListArc,
         ClearConsumers, PushConsumer
    <3>2. \/ \E ack \in BOOLEAN : AnswerAtOnce(w, ack)
          \/ \E part : WaitForTurn(w, part)
          \/ \E ph, part : worker' = [worker EXCEPT ![w].phase = ph, ![w].part = part]
          \/ \E ph : worker' = [worker EXCEPT ![w].phase = ph]
      BY <1>3, <2>2 DEF RequestStep, SignalStep, HandleTopicInsert, HandleDataInsert,
         HandleWhoLeader, HandleUnknown, HandleSubscribe, LocatePartition, CopyListArc,
         ClearConsumers, PushConsumer
    <3>3. \A v \in Worker : worker'[v].task = worker[v].task
      <4>1. ASSUME NEW ack \in BOOLEAN, AnswerAtOnce(w, ack)
            PROVE  \A v \in Worker : worker'[v].task = worker[v].task
        BY <4>1, <1>1 DEF AnswerAtOnce, WorkerRecord
      <4>2. ASSUME NEW part, WaitForTurn(w, part)
            PROVE  \A v \in Worker : worker'[v].task = worker[v].task
        BY <4>2, <1>1 DEF WaitForTurn, WorkerRecord
      <4>3. ASSUME NEW ph, NEW part, worker' = [worker EXCEPT ![w].phase = ph, ![w].part = part]
            PROVE  \A v \in Worker : worker'[v].task = worker[v].task
        BY <4>3, <1>1 DEF WorkerRecord
      <4>4. ASSUME NEW ph, worker' = [worker EXCEPT ![w].phase = ph]
            PROVE  \A v \in Worker : worker'[v].task = worker[v].task
        BY <4>4, <1>1 DEF WorkerRecord
      <4> QED
        BY <3>2, <4>1, <4>2, <4>3, <4>4
    <3> QED
      BY <3>1, <3>3
  <2> QED
    BY <2>1, <2>2
<1> QED
  BY <1>2, <1>3, WorkerFrame

(* What a worker is at is not signalled. *)
LEMMA TaskNotSignalled ==
  ASSUME DealtInTurn, NEW w \in Worker, WorkerTypes
  PROVE  worker[w].task \notin signalled
BY DEF DealtInTurn, WorkerTypes, WorkerRecord

LEMMA DealtInTurnStep ==
  ASSUME TypeInv, DealtInTurn, [Next]_vars
  PROVE  DealtInTurn' /\ signalled \subseteq signalled'
<1>1. /\ worker \in [Worker -> WorkerRecord] /\ signalled \subseteq DOMAIN requests
      /\ DOMAIN requests \subseteq Nat
  BY DEF TypeInv, WorkerTypes, RequestTypes
<1>2. CASE UNCHANGED signalled /\ \A v \in Worker : worker'[v].task = worker[v].task
  BY <1>2 DEF DealtInTurn
<1>3. ASSUME NEW w \in Worker, SignalNext(w) PROVE DealtInTurn' /\ signalled \subseteq signalled'
  <2> DEFINE n == worker[w].task
             R == RequestWorkers
  <2>1. /\ n \in Nat \ {0} /\ R \in Nat \ {0}
        /\ worker'[w].task = n + R
        /\ \A v \in Worker : v # w => worker'[v].task = worker[v].task
        /\ signalled' = signalled \cup {n}
    BY <1>1, <1>3, NatConstants DEF SignalNext, WorkerRecord
  <2>2. ASSUME NEW v \in Worker, DealtTo(v, n) PROVE v = w
    <3>1. PICK j \in Nat : n = v + j * R
      BY <2>2 DEF DealtTo
    <3>2. PICK k \in Nat : n = w + k * R
      BY DEF DealtInTurn, DealtTo
    <3> QED
      BY <3>1, <3>2, NatConstants, OneWorkerEach DEF Worker
  <2>3. DealtTo(w, n + R)
    <3>1. PICK k \in Nat : n = w + k * R
      BY DEF DealtInTurn, DealtTo
    <3>2. k + 1 \in Nat /\ k * R \in Nat /\ w \in Nat /\ (k + 1) * R = k * R + R
      BY <2>1 DEF Worker
    <3>3. n + R = w + (k + 1) * R
      BY <3>1, <3>2, <2>1
    <3> QED
      BY <3>2, <3>3 DEF DealtTo
  <2>4. \A v \in Worker : DealtTo(v, worker'[v].task)
    BY <2>1, <2>3 DEF DealtInTurn
  <2>5. ASSUME NEW v \in Worker, NEW s \in signalled', DealtTo(v, s) PROVE s < worker'[v].task
    <3>1. CASE s \in signalled
      <4>1. s < worker[v].task /\ worker[v].task \in Nat /\ s \in Nat
        BY <2>5, <3>1, <1>1 DEF DealtInTurn, WorkerRecord
      <4> QED
        BY <4>1, <2>1
    <3>2. CASE s = n
      <4>1. v = w
        BY <2>2, <2>5, <3>2
      <4> QED
        BY <4>1, <3>2, <2>1
    <3> QED
      BY <3>1, <3>2, <2>1
  <2> QED
    BY <2>1, <2>4, <2>5 DEF DealtInTurn, DealtTo
<1> QED
  BY <1>2, <1>3, TasksStep

(* The partition pool gets a request once. *)
LEMMA PartitionQueuedOnceStep ==
  ASSUME TypeInv, DealtInTurn, PartitionQueuedOnce, [Next]_vars
  PROVE  PartitionQueuedOnce'
<1>1. signalled \subseteq signalled'
  BY DealtInTurnStep
<1>2. CASE UNCHANGED pAccepted
  BY <1>1, <1>2 DEF PartitionQueuedOnce
<1>3. ASSUME NEW w \in Worker, ForwardToPartition(w) PROVE PartitionQueuedOnce'
  <2> DEFINE n == worker[w].task
             item == Work(n, worker[w].part)
  <2>1. n \notin signalled /\ n \in signalled'
    BY <1>3, TaskNotSignalled DEF ForwardToPartition, SignalNext, TypeInv
  <2>2. pAccepted' = Append(pAccepted, item) /\ item.id = n
    BY <1>3 DEF ForwardToPartition, PartitionPool!Accept, Work
  <2> HIDE DEF item, n
  <2>3. /\ DOMAIN pAccepted' = DOMAIN pAccepted \cup {Len(pAccepted) + 1}
        /\ \A i \in DOMAIN pAccepted : pAccepted'[i] = pAccepted[i]
        /\ pAccepted'[Len(pAccepted) + 1].id = n
    <3> HIDE DEF WorkItem
    <3>1. pAccepted \in Seq(WorkItem)
      BY DEF TypeInv, PartitionPoolTypes
    <3> QED
      BY <2>2, <3>1
  <2> QED
    BY <2>1, <2>3, <1>1 DEF PartitionQueuedOnce
<1>4. CASE PartitionStep
  BY <1>2, <1>4 DEF PartitionStep, BeginWrite, Write, AckWrite, NotifyConsumers,
     AnswerFailedWrite, PartitionPool!Start, PartitionPool!Finish
<1> QED
  BY <1>2, <1>3, <1>4, PartitionPoolFrame

(* ConsumerReg gets a subscription once. *)
LEMMA RegQueuedOnceStep ==
  ASSUME TypeInv, DealtInTurn, RegQueuedOnce, [Next]_vars
  PROVE  RegQueuedOnce'
<1>1. signalled \subseteq signalled'
  BY DealtInTurnStep
<1>2. regQueue \in Seq(DOMAIN requests)
  BY DEF TypeInv, RegTypes
<1>3. CASE UNCHANGED regVars
  BY <1>1, <1>3 DEF RegQueuedOnce
<1>4. ASSUME NEW w \in Worker, ForwardToRegistration(w) PROVE RegQueuedOnce'
  <2> DEFINE n == worker[w].task
  <2>1. n \notin signalled /\ n \in signalled' /\ UNCHANGED reg
    BY <1>4, TaskNotSignalled DEF ForwardToRegistration, SignalNext, TypeInv
  <2>2. regQueue' = regQueue \/ regQueue' = Append(regQueue, n)
    BY <1>4 DEF ForwardToRegistration
  <2>3. CASE regQueue' = regQueue
    BY <2>1, <2>3, <1>1 DEF RegQueuedOnce
  <2>4. CASE regQueue' = Append(regQueue, n)
    <3> HIDE DEF n
    <3>1. /\ DOMAIN regQueue' = DOMAIN regQueue \cup {Len(regQueue) + 1}
          /\ \A i \in DOMAIN regQueue : regQueue'[i] = regQueue[i]
          /\ regQueue'[Len(regQueue) + 1] = n
      BY <2>4, <1>2
    <3> QED
      BY <3>1, <2>1, <1>1 DEF RegQueuedOnce
  <2> QED
    BY <2>2, <2>3, <2>4
<1>5. CASE Register
  <2>1. /\ regQueue # <<>> /\ regQueue' = Tail(regQueue)
        /\ reg'.phase = "rebalancing" => reg'.id = Head(regQueue)
    BY <1>5 DEF Register
  <2>2. /\ \A i \in DOMAIN regQueue' : i + 1 \in DOMAIN regQueue /\ regQueue'[i] = regQueue[i + 1]
                                       /\ i \in Nat \ {0}
        /\ 1 \in DOMAIN regQueue /\ Head(regQueue) = regQueue[1]
    BY <2>1, <1>2
  <2> QED
    BY <2>1, <2>2, <1>1 DEF RegQueuedOnce
<1>6. CASE AssignPartition
  <2>1. reg.phase = "rebalancing" /\ reg \in Rebalancing
    BY <1>6 DEF AssignPartition, TypeInv, RegTypes, NotRegistering
  <2>2. reg'.id = reg.id /\ UNCHANGED regQueue
    BY <2>1, <1>6 DEF AssignPartition, Rebalancing
  <2> QED
    BY <2>1, <2>2, <1>1 DEF RegQueuedOnce
<1>7. CASE AckSubscription
  BY <1>7, <1>1 DEF AckSubscription, RegQueuedOnce, NotRegistering
<1> QED
  BY <1>3, <1>4, <1>5, <1>6, <1>7, RegFrame DEF RegistrationStep

(* What appending to the stream of responses does to the answers. *)
LEMMA AnswersAppended ==
  ASSUME ResponseTypes, NEW r, responses' = Append(responses, r)
  PROVE  /\ Len(responses) \in Nat /\ Len(responses') = Len(responses) + 1
         /\ DOMAIN responses = 1 .. Len(responses)
         /\ DOMAIN responses' = DOMAIN responses \cup {Len(responses) + 1}
         /\ \A i \in DOMAIN responses : responses'[i] = responses[i]
         /\ responses'[Len(responses) + 1] = r
         /\ \A id : AnswersTo(id)' =
              IF r.kind = "answer" /\ r.id = id THEN AnswersTo(id) \cup {Len(responses) + 1}
              ELSE AnswersTo(id)
<1> DEFINE R == AnswerRecord \cup NotificationRecord
<1> HIDE DEF R
<1>1. responses \in Seq(R)
  BY DEF ResponseTypes, R
<1>2. /\ Len(responses) \in Nat /\ Len(responses') = Len(responses) + 1
      /\ DOMAIN responses = 1 .. Len(responses)
      /\ DOMAIN responses' = DOMAIN responses \cup {Len(responses) + 1}
      /\ \A i \in DOMAIN responses : responses'[i] = responses[i]
      /\ responses'[Len(responses) + 1] = r
  BY <1>1
<1>3. ASSUME NEW id
      PROVE  AnswersTo(id)' =
              IF r.kind = "answer" /\ r.id = id THEN AnswersTo(id) \cup {Len(responses) + 1}
              ELSE AnswersTo(id)
  BY <1>2 DEF AnswersTo
<1> QED
  BY <1>2, <1>3

(* Who answers: a worker its own request, the partition pool the value it is
   at, or ConsumerReg its subscription; none was answered before. *)
NewAnswer(id, ack) ==
  /\ Respond(Answer(id, ack))
  /\ id \in DOMAIN requests /\ ~Answered(id) /\ id \in signalled'
  /\ \/ id \notin signalled /\ (ack => ~IsDataInsert(id))
        /\ \E w \in Worker : id = worker[w].task /\ SignalNext(w)
                             /\ (AnswerRequest(w) \/ AnswerLeader(w))
     \/ id = Writing.id /\ writing = "written" /\ ack /\ AckWrite
     \/ id = Writing.id /\ writing = "failed" /\ ~ack /\ AnswerFailedWrite
     \/ id = reg.id /\ reg.phase = "rebalancing" /\ ~IsDataInsert(id) /\ AckSubscription

LEMMA NewResponse ==
  ASSUME TypeInv, PathInv, [Next]_vars
  PROVE  \/ UNCHANGED responses
         \/ SendToConsumer /\ responses' = Append(responses, Notification(Notifying.id, Head(notifying.left)))
         \/ \E id, ack : NewAnswer(id, ack)
<1>1. /\ WorkerTypes /\ RequestTypes /\ PartitionPoolTypes /\ RegTypes
      /\ PartitionQueuedOnce /\ RegQueuedOnce /\ AnsweredLast
      /\ signalled \subseteq signalled'
  BY DealtInTurnStep DEF TypeInv, PathInv
<1>2. ASSUME NEW id, Answered(id) PROVE id \in signalled
  BY <1>1, <1>2 DEF AnsweredLast, Answered, AnswersTo
<1>3. ASSUME NEW w \in Worker, AnswerRequest(w) \/ AnswerLeader(w)
      PROVE  \E id, ack : NewAnswer(id, ack)
  <2> DEFINE n == worker[w].task
             ack == IF AnswerLeader(w) THEN TRUE ELSE worker[w].ack
  <2>1. n \notin signalled /\ n \in DOMAIN requests /\ SignalNext(w) /\ n \in signalled'
    BY <1>1, <1>3, TaskNotSignalled DEF AnswerRequest, AnswerLeader, WorkerTypes, WorkerSound,
       SignalNext, PathInv
  <2>2. PICK a : Respond(Answer(n, a)) /\ (a => ~IsDataInsert(n))
    <3>1. CASE AnswerRequest(w)
      BY <3>1, <1>1 DEF AnswerRequest, WorkerTypes, WorkerSound, IsDataInsert
    <3>2. CASE AnswerLeader(w)
      <4>1. WhoLeader.op = "who_leader"
        BY DEF WhoLeader
      <4>2. requests[n].op = WhoLeader /\ Respond(Answer(n, TRUE))
        BY <3>2 DEF AnswerLeader, Op
      <4>3. ~IsDataInsert(n)
        BY <4>1, <4>2 DEF IsDataInsert
      <4> QED
        BY <4>2, <4>3
    <3> QED
      BY <1>3, <3>1, <3>2
  <2>3. NewAnswer(n, a)
    BY <2>1, <2>2, <1>2, <1>3 DEF NewAnswer
  <2> QED
    BY <2>3
<1>4. ASSUME writing \in {"written", "failed"}
      PROVE  /\ Writing.id \in DOMAIN requests /\ ~Answered(Writing.id)
             /\ Writing.id \in signalled'
  <2>1. /\ Len(pStarted) \in DOMAIN pAccepted /\ Writing = pAccepted[Len(pStarted)]
        /\ Writing.id \in DOMAIN requests
    BY <1>1, <1>4, WritingIsWork
  <2> QED
    BY <2>1, <1>1, <1>4 DEF PartitionQueuedOnce, AnsweredLast, ToBeAnswered
<1>5. CASE AckWrite
  <2>1. NewAnswer(Writing.id, TRUE)
    BY <1>4, <1>5 DEF AckWrite, NewAnswer
  <2> QED
    BY <2>1
<1>6. CASE AnswerFailedWrite
  <2>1. NewAnswer(Writing.id, FALSE)
    BY <1>4, <1>6 DEF AnswerFailedWrite, NewAnswer
  <2> QED
    BY <2>1
<1>7. CASE AckSubscription
  <2>1. reg.phase = "rebalancing" /\ reg \in Rebalancing
    BY <1>7, <1>1 DEF AckSubscription, RegTypes, NotRegistering
  <2>2. reg.id \in DOMAIN requests /\ ~IsDataInsert(reg.id)
    BY <2>1, <1>1 DEF Rebalancing, RegTypes, IsDataInsert
  <2>3. ~Answered(reg.id) /\ reg.id \in signalled'
    BY <2>1, <1>1 DEF AnsweredLast, RegQueuedOnce
  <2>4. NewAnswer(reg.id, TRUE)
    BY <2>1, <2>2, <2>3, <1>7 DEF AckSubscription, NewAnswer
  <2> QED
    BY <2>4
<1>8. SendToConsumer =>
        responses' = Append(responses, Notification(Notifying.id, Head(notifying.left)))
  BY DEF SendToConsumer, Respond
<1>9. Deliver => UNCHANGED responses
  BY DEF Deliver
<1> QED
  BY <1>3, <1>5, <1>6, <1>7, <1>8, <1>9, ResponseFrame

(* What is answered or has been told to consumers, after the step. *)
LEMMA AnsweredAfter ==
  ASSUME TypeInv, PathInv, [Next]_vars, NEW id
  PROVE  /\ AnswersTo(id) \subseteq AnswersTo(id)'
         /\ Answered(id)' => Answered(id) \/ \E ack : NewAnswer(id, ack)
<1>1. CASE UNCHANGED responses
  BY <1>1 DEF AnswersTo, Answered
<1>2. CASE responses' = Append(responses, Notification(Notifying.id, Head(notifying.left)))
  <2> DEFINE r == Notification(Notifying.id, Head(notifying.left))
  <2>1. r.kind = "consumer"
    BY DEF Notification
  <2> HIDE DEF r
  <2>2. AnswersTo(id)' = AnswersTo(id)
    BY <1>2, <2>1, AnswersAppended DEF TypeInv, r
  <2> QED
    BY <2>2 DEF Answered
<1>3. ASSUME NEW x, NEW ack, NewAnswer(x, ack)
      PROVE  /\ AnswersTo(id) \subseteq AnswersTo(id)'
             /\ Answered(id)' => Answered(id) \/ id = x
  <2>1. Answer(x, ack).kind = "answer" /\ Answer(x, ack).id = x
    BY DEF Answer
  <2>2. responses' = Append(responses, Answer(x, ack))
    BY <1>3 DEF NewAnswer, Respond
  <2>3. AnswersTo(id)' = IF x = id THEN AnswersTo(id) \cup {Len(responses) + 1} ELSE AnswersTo(id)
    BY <2>1, <2>2, AnswersAppended DEF TypeInv
  <2> QED
    BY <2>3 DEF Answered
<1> QED
  BY <1>1, <1>2, <1>3, NewResponse

(* The answer is the last a queue's request gets. *)
LEMMA AnsweredLastStep ==
  ASSUME TypeInv, PathInv, [Next]_vars
  PROVE  AnsweredLast'
<1>1. /\ WorkerTypes /\ RequestTypes /\ PartitionPoolTypes /\ RegTypes /\ ResponseTypes
      /\ DealtInTurn /\ PartitionQueuedOnce /\ RegQueuedOnce /\ AnsweredLast
      /\ signalled \subseteq signalled'
  BY DealtInTurnStep DEF TypeInv, PathInv
(* Answers are signalled, and one each. *)
<1>2. /\ \A i \in DOMAIN responses' :
           responses'[i].kind = "answer" => responses'[i].id \in signalled'
      /\ \A i, j \in DOMAIN responses' :
           responses'[i].kind = "answer" /\ responses'[j].kind = "answer"
             /\ responses'[i].id = responses'[j].id => i = j
  <2>1. CASE UNCHANGED responses
    BY <2>1, <1>1 DEF AnsweredLast
  <2>2. CASE responses' = Append(responses, Notification(Notifying.id, Head(notifying.left)))
    <3> DEFINE r == Notification(Notifying.id, Head(notifying.left))
    <3>1. r.kind = "consumer"
      BY DEF Notification
    <3> HIDE DEF r
    <3>2. /\ DOMAIN responses' = DOMAIN responses \cup {Len(responses) + 1}
          /\ \A i \in DOMAIN responses : responses'[i] = responses[i]
          /\ responses'[Len(responses) + 1] = r
      BY <2>2, <1>1, AnswersAppended DEF r
    <3> QED
      BY <3>1, <3>2, <1>1 DEF AnsweredLast
  <2>3. ASSUME NEW x, NEW ack, NewAnswer(x, ack)
        PROVE  <1>2!1 /\ <1>2!2
    <3> DEFINE r == Answer(x, ack)
    <3>1. r.kind = "answer" /\ r.id = x
      BY DEF Answer
    <3> HIDE DEF r
    <3>2. /\ DOMAIN responses' = DOMAIN responses \cup {Len(responses) + 1}
          /\ \A i \in DOMAIN responses : responses'[i] = responses[i]
          /\ responses'[Len(responses) + 1] = r
      BY <2>3, <1>1, AnswersAppended DEF r, NewAnswer, Respond
    <3>3. x \in signalled'
      BY <2>3 DEF NewAnswer
    <3>4. \A i \in DOMAIN responses : responses[i].kind = "answer" => responses[i].id # x
      BY <2>3 DEF NewAnswer, Answered, AnswersTo
    <3> QED
      BY <3>1, <3>2, <3>3, <3>4, <1>1 DEF AnsweredLast
  <2> QED
    BY <2>1, <2>2, <2>3, NewResponse
<1>3. ASSUME NEW id, Answered(id) PROVE id \in signalled
  BY <1>1, <1>3 DEF AnsweredLast, Answered, AnswersTo
(* The partition pool's requests. *)
<1>4. ASSUME NEW i \in DOMAIN pAccepted, ToBeAnswered(i)'
      PROVE  ToBeAnswered(i) /\ pAccepted'[i] = pAccepted[i]
             /\ \A ack : ~NewAnswer(pAccepted[i].id, ack)
  <2> DEFINE id == pAccepted[i].id
  <2>1. id \in signalled /\ IsDataInsert(id) /\ i \in Nat /\ Len(pStarted) \in Nat
    BY <1>1 DEF PartitionQueuedOnce, PartitionPoolTypes
  <2>2. pAccepted'[i] = pAccepted[i] /\ ToBeAnswered(i)
    <3>1. CASE UNCHANGED <<partitionPool, writing>>
      BY <3>1, <1>4 DEF ToBeAnswered
    <3>2. ASSUME NEW w \in Worker, ForwardToPartition(w)
          PROVE  pAccepted'[i] = pAccepted[i] /\ ToBeAnswered(i)
      <4> DEFINE item == Work(worker[w].task, worker[w].part)
      <4>1. pAccepted' = Append(pAccepted, item) /\ UNCHANGED <<pStarted, writing>>
        BY <3>2 DEF ForwardToPartition, PartitionPool!Accept
      <4> HIDE DEF item
      <4>2. pAccepted'[i] = pAccepted[i]
        BY <4>1, <1>1 DEF PartitionPoolTypes
      <4> QED
        BY <4>1, <4>2, <1>4 DEF ToBeAnswered
    <3>3. CASE BeginWrite
      <4>1. UNCHANGED pAccepted /\ Len(pStarted') = Len(pStarted) + 1
        BY <3>3, <1>1 DEF BeginWrite, PartitionPool!Start, PartitionPoolTypes
      <4> QED
        BY <4>1, <2>1, <1>4 DEF ToBeAnswered
    <3>4. CASE Write \/ AckWrite \/ NotifyConsumers \/ AnswerFailedWrite
      BY <3>4, <1>4 DEF Write, AckWrite, NotifyConsumers, AnswerFailedWrite, PartitionPool!Finish,
         ToBeAnswered
    <3> QED
      BY <3>1, <3>2, <3>3, <3>4, PartitionPoolFrame DEF PartitionStep
  <2>3. ASSUME NEW ack, NewAnswer(id, ack) PROVE FALSE
    <3>1. id = Writing.id /\ writing \in {"written", "failed"} /\ (AckWrite \/ AnswerFailedWrite)
      <4>1. ~(id = reg.id /\ ~IsDataInsert(id))
        BY <2>1
      <4> QED
        BY <2>1, <2>3, <4>1 DEF NewAnswer
    <3>2. Len(pStarted) \in DOMAIN pAccepted /\ Writing = pAccepted[Len(pStarted)]
      BY <3>1, <1>1, WritingIsWork
    <3>3. i = Len(pStarted)
      BY <3>1, <3>2, <1>1 DEF PartitionQueuedOnce
    <3>4. UNCHANGED pStarted /\ writing' \in {"acked", "none"}
      BY <3>1 DEF AckWrite, AnswerFailedWrite, PartitionPool!Finish
    <3> QED
      BY <3>3, <3>4, <2>1, <1>4 DEF ToBeAnswered
  <2> QED
    BY <2>2, <2>3
<1>5. ASSUME NEW i \in DOMAIN pAccepted', ToBeAnswered(i)' PROVE ~Answered(pAccepted[i].id)'
  <2>1. CASE i \in DOMAIN pAccepted
    <3>1. PICK id : id = pAccepted[i].id
      OBVIOUS
    <3>2. ~Answered(id) /\ ~ \E ack : NewAnswer(id, ack) /\ pAccepted'[i].id = id
      BY <3>1, <2>1, <1>1, <1>4, <1>5 DEF AnsweredLast
    <3>3. ~Answered(id)'
      BY <3>2, <1>4, <1>5, <2>1, <3>1, AnsweredAfter
    <3>4. pAccepted'[i].id = id
      BY <3>1, <2>1, <1>4, <1>5
    <3> QED
      BY <3>3, <3>4 DEF Answered, AnswersTo
  <2>2. CASE i \notin DOMAIN pAccepted
    <3>1. PICK w \in Worker : ForwardToPartition(w)
      BY <2>2, <1>5, PartitionPoolFrame DEF PartitionStep, BeginWrite, Write, AckWrite,
         NotifyConsumers, AnswerFailedWrite, PartitionPool!Start, PartitionPool!Finish
    <3> DEFINE n == worker[w].task
               item == Work(n, worker[w].part)
    <3>2. n \notin signalled /\ UNCHANGED responses
      BY <3>1, <1>1, TaskNotSignalled DEF ForwardToPartition
    <3>3. pAccepted' = Append(pAccepted, item) /\ item.id = n
      BY <3>1 DEF ForwardToPartition, PartitionPool!Accept, Work
    <3> HIDE DEF item, n
    <3>4. pAccepted'[i].id = n
      BY <3>3, <2>2, <1>1, <1>5 DEF PartitionPoolTypes
    <3> QED
      BY <3>2, <3>4, <1>3 DEF Answered, AnswersTo
  <2> QED
    BY <2>1, <2>2
(* The subscriptions. *)
<1>6. ASSUME NEW id, NEW ack, NewAnswer(id, ack), id \in signalled, ~IsDataInsert(id)
      PROVE  id = reg.id /\ reg.phase = "rebalancing" /\ AckSubscription
  <2>1. ASSUME writing \in {"written", "failed"} PROVE IsDataInsert(Writing.id)
    <3>1. Len(pStarted) \in DOMAIN pAccepted /\ Writing = pAccepted[Len(pStarted)]
      BY <2>1, <1>1, WritingIsWork
    <3> QED
      BY <3>1, <1>1 DEF PartitionPoolTypes
  <2> QED
    BY <2>1, <1>6 DEF NewAnswer
<1>7. \A i \in DOMAIN regQueue : regQueue[i] \in signalled /\ ~IsDataInsert(regQueue[i])
  BY <1>1 DEF RegQueuedOnce, RegTypes, IsDataInsert
<1>8. ASSUME NEW i \in DOMAIN regQueue, NEW id, id = regQueue[i] PROVE ~Answered(id)'
  <2>1. ~Answered(id)
    BY <1>8, <1>1 DEF AnsweredLast
  <2>2. ASSUME NEW ack, NewAnswer(id, ack) PROVE FALSE
    BY <2>2, <1>1, <1>6, <1>7, <1>8 DEF RegQueuedOnce
  <2> QED
    BY <2>1, <2>2, AnsweredAfter
<1>9. ASSUME reg.phase = "rebalancing", reg'.phase = "rebalancing", NEW id, id = reg.id
      PROVE  ~Answered(id)'
  <2>1. ~Answered(id) /\ id \in signalled /\ ~IsDataInsert(id)
    BY <1>9, <1>1 DEF AnsweredLast, RegQueuedOnce, RegTypes, IsDataInsert
  <2>2. ~AckSubscription
    <3>1. AckSubscription => reg' = NotRegistering
      BY DEF AckSubscription
    <3>2. NotRegistering.phase = "idle"
      BY DEF NotRegistering
    <3> QED
      BY <1>9, <3>1, <3>2
  <2> QED
    BY <2>1, <2>2, <1>6, AnsweredAfter
<1>10. ASSUME NEW n, n \notin signalled, UNCHANGED responses PROVE ~Answered(n)'
  BY <1>3, <1>10 DEF Answered, AnswersTo
<1>11. ASSUME NEW i \in DOMAIN regQueue' PROVE ~Answered(regQueue[i])'
  <2>1. \/ \E j \in DOMAIN regQueue : regQueue'[i] = regQueue[j]
        \/ regQueue'[i] \notin signalled /\ UNCHANGED responses
    <3>1. CASE UNCHANGED regQueue
      BY <3>1, <1>11
    <3>2. ASSUME NEW w \in Worker, ForwardToRegistration(w), regQueue' # regQueue PROVE <2>1
      <4> DEFINE n == worker[w].task
      <4>1. regQueue' = Append(regQueue, n) /\ UNCHANGED responses /\ n \notin signalled
        BY <3>2, <1>1, TaskNotSignalled DEF ForwardToRegistration
      <4> HIDE DEF n
      <4>2. regQueue \in Seq(DOMAIN requests)
        BY <1>1 DEF RegTypes
      <4> QED
        BY <4>1, <4>2, <1>11
    <3>3. CASE Register
      <4>1. regQueue' = Tail(regQueue) /\ regQueue # <<>> /\ regQueue \in Seq(DOMAIN requests)
        BY <3>3, <1>1 DEF Register, RegTypes
      <4>2. i + 1 \in DOMAIN regQueue /\ regQueue'[i] = regQueue[i + 1]
        BY <4>1, <1>11
      <4> QED
        BY <4>2
    <3> QED
      BY <3>1, <3>2, <3>3, RegFrame DEF RegistrationStep, AssignPartition, AckSubscription
  <2> QED
    BY <2>1, <1>8, <1>10 DEF Answered, AnswersTo
<1>12. ASSUME reg'.phase = "rebalancing" PROVE ~Answered(reg.id)'
  <2>1. \/ reg.phase = "rebalancing" /\ reg'.id = reg.id
        \/ \E j \in DOMAIN regQueue : reg'.id = regQueue[j]
    <3>1. CASE UNCHANGED reg
      BY <3>1, <1>12
    <3>2. CASE Register
      <4>1. reg'.id = Head(regQueue) /\ regQueue # <<>> /\ regQueue \in Seq(DOMAIN requests)
        BY <3>2, <1>1, <1>12 DEF Register, RegTypes
      <4>2. 1 \in DOMAIN regQueue /\ Head(regQueue) = regQueue[1]
        BY <4>1
      <4> QED
        BY <4>1, <4>2
    <3>3. CASE AssignPartition
      <4>1. reg.phase = "rebalancing" /\ reg \in Rebalancing
        BY <3>3, <1>1 DEF AssignPartition, RegTypes, NotRegistering
      <4> QED
        BY <4>1, <3>3 DEF AssignPartition, Rebalancing
    <3>4. ~AckSubscription
      <4>1. AckSubscription => reg' = NotRegistering
        BY DEF AckSubscription
      <4>2. NotRegistering.phase = "idle"
        BY DEF NotRegistering
      <4> QED
        BY <1>12, <4>1, <4>2
    <3> QED
      BY <3>1, <3>2, <3>3, <3>4, RegFrame DEF RegistrationStep, ForwardToRegistration
  <2> QED
    BY <2>1, <1>8, <1>9, <1>12 DEF Answered, AnswersTo
<1> QED
  BY <1>2, <1>5, <1>11, <1>12 DEF AnsweredLast

LEMMA PathInvInit == Init => PathInv
<1> SUFFICES ASSUME Init PROVE PathInv
  OBVIOUS
<1>1. DealtInTurn
  <2>1. \A w \in Worker : 0 \in Nat /\ w = w + 0 * RequestWorkers
    BY NatConstants DEF Worker
  <2> QED
    BY <2>1 DEF Init, DealtInTurn, DealtTo
<1>2. PartitionQueuedOnce /\ RegQueuedOnce /\ AnsweredLast
  BY DEF Init, PartitionPool!Init, PartitionQueuedOnce, RegQueuedOnce, AnsweredLast, NotRegistering
<1> QED
  BY <1>1, <1>2 DEF PathInv

LEMMA PathInvNext == TypeInv /\ PathInv /\ [Next]_vars => PathInv'
BY DealtInTurnStep, PartitionQueuedOnceStep, RegQueuedOnceStep, AnsweredLastStep DEF PathInv

LEMMA PathInvAlways == Spec => [](TypeInv /\ PathInv)
BY TypeInvInit, PathInvInit, TypeInvNext, PathInvNext, PTL DEF Spec

(* No request is answered twice, whoever answers it: the request pool, the
   partition pool after the write, or ConsumerReg. *)
THEOREM AnsweredOnce == Spec => []OneAnswer
<1>1. TypeInv /\ PathInv => OneAnswer
  <2> SUFFICES ASSUME PathInv, NEW id \in DOMAIN requests
               PROVE  Cardinality(AnswersTo(id)) <= 1
    BY DEF OneAnswer
  <2>1. \A i, j \in AnswersTo(id) : i = j
    BY DEF PathInv, AnsweredLast, AnswersTo
  <2>2. CASE AnswersTo(id) = {}
    BY <2>2, FS_EmptySet
  <2>3. ASSUME NEW i \in AnswersTo(id) PROVE Cardinality(AnswersTo(id)) <= 1
    <3>1. AnswersTo(id) = {i}
      BY <2>1
    <3>2. Cardinality({i}) = 1
      BY FS_Singleton
    <3> QED
      BY <3>1, <3>2
  <2> QED
    BY <2>2, <2>3
<1> QED
  BY <1>1, PathInvAlways, PTL

----------------------------------------------------------------------------
(* What is acked was written. *)

(* A topic that is inserted gets new partition objects, while ConsumerReg deals
   out no partitions of it. *)
LEMMA InsertedObjects ==
  ASSUME TypeInv, NEW w \in Worker, HandleTopicInsert(w)
  PROVE  \/ UNCHANGED <<topicMap, partitions>>
         \/ \E t \in Topic :
              /\ ~(reg.phase = "rebalancing" /\ reg.topic = t)
              /\ \A u \in Topic : u # t => topicMap'[u] = topicMap[u]
              /\ \A p \in DOMAIN topicMap'[t] :
                   LET part == partitions'[topicMap'[t][p]]
                   IN  part.topic = t /\ part.id = p /\ part.consumers = <<>>
<1> DEFINE t == Op(w).topic
           n == Op(w).count
           new == [p \in 1 .. n |-> [topic |-> t, id |-> p, consumers |-> <<>>]]
           entry == [p \in 1 .. n |-> Len(partitions) + p]
           P == [topic : Topic, id : PartitionId, consumers : Seq(ListedConsumer)]
<1>1. Op(w).op = "topic_insert" /\ worker[w].task \in DOMAIN requests
  BY DEF HandleTopicInsert, Taking, TypeInv, WorkerTypes, WorkerRecord, RequestTypes
<1>2. t \in Topic /\ n \in 0 .. MaxPartitions
  BY <1>1, RequestFields, OperationTypes DEF Op, TypeInv
<1>3. \/ UNCHANGED <<topicMap, partitions>>
      \/ /\ ~TopicMapRead(t)
         /\ partitions' = partitions \o new
         /\ topicMap' = [topicMap EXCEPT ![t] = entry]
  BY DEF HandleTopicInsert, topicVars
<1> HIDE DEF t, n
<1>4. CASE ~TopicMapRead(t) /\ partitions' = partitions \o new
             /\ topicMap' = [topicMap EXCEPT ![t] = entry]
  <2>1. n \in Nat /\ new \in Seq(P) /\ Len(new) = n
    <3>1. \A p \in 1 .. n : [topic |-> t, id |-> p, consumers |-> <<>>] \in P
      BY <1>2, NatConstants DEF PartitionId
    <3>2. n \in Nat
      BY <1>2, NatConstants
    <3>3. new \in [1 .. n -> P]
      BY <3>1
    <3> HIDE DEF new, P
    <3> QED
      BY <3>2, <3>3
  <2>2. ASSUME NEW p \in 1 .. n
        PROVE  new[p].topic = t /\ new[p].id = p /\ new[p].consumers = <<>> /\ entry[p] = Len(partitions) + p
    OBVIOUS
  <2>3. partitions \in Seq(P) /\ Len(partitions) \in Nat /\ topicMap \in [Topic -> Seq(DOMAIN partitions)]
    BY DEF TypeInv, TopicTypes
  <2>4. DOMAIN entry = 1 .. n
    OBVIOUS
  <2> HIDE DEF new, P, entry
  <2>5. \A i \in 1 .. Len(partitions) + Len(new) :
          (partitions \o new)[i] = IF i <= Len(partitions) THEN partitions[i]
                                   ELSE new[i - Len(partitions)]
    BY <2>1, <2>3, ConcatProperties
  <2>6. topicMap'[t] = entry /\ \A u \in Topic : u # t => topicMap'[u] = topicMap[u]
    BY <1>2, <1>4, <2>3
  <2>7. ASSUME NEW p \in 1 .. n PROVE partitions'[topicMap'[t][p]] = new[p]
    BY <1>4, <2>1, <2>2, <2>3, <2>5, <2>6
  <2>8. ~(reg.phase = "rebalancing" /\ reg.topic = t)
    BY <1>4 DEF TopicMapRead
  <2> QED
    BY <1>2, <2>2, <2>4, <2>6, <2>7, <2>8
<1> QED
  BY <1>3, <1>4

LEMMA ObjectsStep ==
  ASSUME TypeInv, ObjectsOf, [Next]_vars
  PROVE  ObjectsOf'
<1>1. PartitionsGrow /\ TopicTypes
  BY TopicsStep DEF TypeInv
<1>2. ASSUME NEW t \in Topic, topicMap'[t] = topicMap[t], NEW p \in DOMAIN topicMap'[t]
      PROVE  partitions'[topicMap'[t][p]].topic = t /\ partitions'[topicMap'[t][p]].id = p
  <2>1. topicMap[t] \in Seq(DOMAIN partitions)
    BY <1>1 DEF TopicTypes
  <2>2. topicMap[t][p] \in DOMAIN partitions
    BY <1>2, <2>1
  <2> QED
    BY <1>1, <1>2, <2>2 DEF ObjectsOf, PartitionsGrow
<1>3. CASE UNCHANGED topicMap
  BY <1>2, <1>3 DEF ObjectsOf
<1>4. ASSUME NEW w \in Worker, HandleTopicInsert(w) PROVE ObjectsOf'
  BY <1>2, <1>3, <1>4, InsertedObjects DEF ObjectsOf
<1>5. Write \/ AssignPartition \/ (\E w \in Worker : ClearConsumers(w) \/ PushConsumer(w))
        => UNCHANGED topicMap
  BY DEF Write, AssignPartition, ClearConsumers, PushConsumer
<1> QED
  BY <1>3, <1>4, <1>5, TopicFrame DEF topicVars

(* What an insertion of a topic does to the files. *)
LEMMA InsertTruncates ==
  ASSUME TypeInv, NEW w \in Worker, HandleTopicInsert(w)
  PROVE  \/ UNCHANGED <<log, truncated>>
         \/ \E t \in Topic, n \in 0 .. MaxPartitions : Truncate(t, n)
<1>1. Op(w).op = "topic_insert" /\ worker[w].task \in DOMAIN requests
  BY DEF HandleTopicInsert, Taking, TypeInv, WorkerTypes, WorkerRecord, RequestTypes
<1>2. Op(w).topic \in Topic /\ Op(w).count \in 0 .. MaxPartitions
  BY <1>1, RequestFields, OperationTypes DEF Op, TypeInv
<1>3. \A n \in 0 .. Op(w).count - 1 : n \in 0 .. MaxPartitions
  BY <1>2, NatConstants
<1> QED
  BY <1>2, <1>3 DEF HandleTopicInsert

LEMMA AppendedSet ==
  ASSUME NEW S, NEW s \in Seq(S), NEW e
  PROVE  ToSet(Append(s, e)) = ToSet(s) \cup {e}
<1> DEFINE T == S \cup {e}
<1>1. s \in Seq(T) /\ e \in T
  BY SeqGrows
<1> HIDE DEF T
<1> QED
  BY <1>1, AppendedSeq DEF ToSet

(* A value stays in its file until the topic is inserted anew, and gets into a file
   when the partition worker writes it there. *)
LEMMA WrittenStays ==
  ASSUME TypeInv, [Next]_vars, NEW id, NEW s \in Topic, NEW p \in PartitionId
  PROVE  /\ Written(id, s, p) => Written(id, s, p)'
         /\ Written(id, s, p)' =>
              \/ Written(id, s, p)
              \/ /\ Write /\ id = Writing.id
                 /\ s = partitions[Writing.part].topic /\ p = partitions[Writing.part].id
<1> DEFINE Put == /\ Write /\ id = Writing.id
                  /\ s = partitions[Writing.part].topic /\ p = partitions[Writing.part].id
           Goal == /\ Written(id, s, p) => Written(id, s, p)'
                   /\ Written(id, s, p)' => Written(id, s, p) \/ Put
<1> SUFFICES Goal
  OBVIOUS
<1>1. /\ log \in [Topic -> [PartitionId -> Seq(DOMAIN requests)]]
      /\ truncated \in [Topic -> [PartitionId -> SUBSET DOMAIN requests]]
  BY DEF TypeInv, TopicTypes
<1>2. CASE log'[s][p] = log[s][p] /\ truncated'[s][p] = truncated[s][p]
  BY <1>2 DEF Written
<1>3. ASSUME NEW t \in Topic, NEW n \in 0 .. MaxPartitions, Truncate(t, n) PROVE Goal
  <2>1. /\ log' = [log EXCEPT ![t] = [q \in PartitionId |-> IF q <= n THEN <<>> ELSE log[t][q]]]
        /\ truncated' = [truncated EXCEPT ![t] = [q \in PartitionId |->
             IF q <= n THEN truncated[t][q] \cup ToSet(log[t][q]) ELSE truncated[t][q]]]
    BY <1>3 DEF Truncate
  <2>2. CASE s = t /\ p <= n
    <3>1. log'[s][p] = <<>> /\ truncated'[s][p] = truncated[s][p] \cup ToSet(log[s][p])
      BY <1>1, <2>1, <2>2
    <3>2. ToSet(<<>>) = {}
      BY DEF ToSet
    <3> QED
      BY <3>1, <3>2 DEF Written
  <2>3. CASE ~(s = t /\ p <= n)
    <3>1. log'[s][p] = log[s][p] /\ truncated'[s][p] = truncated[s][p]
      BY <1>1, <2>1, <2>3
    <3> QED
      BY <3>1 DEF Written
  <2> QED
    BY <2>2, <2>3
<1>4. CASE Write
  <2>1. UNCHANGED truncated /\ (AppendToFile \/ UNCHANGED log)
    BY <1>4 DEF Write
  <2>2. CASE AppendToFile
    <3> DEFINE part == partitions[Writing.part]
               v == Writing.id
    <3>1. log' = [log EXCEPT ![part.topic][part.id] = Append(@, v)]
      BY <2>2 DEF AppendToFile
    <3>2. log[s][p] \in Seq(DOMAIN requests)
      BY <1>1
    <3> HIDE DEF part, v
    <3>3. CASE s = part.topic /\ p = part.id
      <4>1. log'[s][p] = Append(log[s][p], v)
        BY <3>1, <3>3, <1>1
      <4>2. ToSet(Append(log[s][p], v)) = ToSet(log[s][p]) \cup {v}
        BY <3>2, AppendedSet
      <4>3. Put <=> id = v
        BY <3>3, <1>4 DEF part, v
      <4> HIDE DEF Put
      <4> QED
        BY <4>1, <4>2, <4>3, <2>1 DEF Written
    <3>4. CASE ~(s = part.topic /\ p = part.id)
      <4>1. log'[s][p] = log[s][p]
        BY <3>1, <3>4, <1>1
      <4> QED
        BY <4>1, <2>1 DEF Written
    <3> QED
      BY <3>3, <3>4
  <2> QED
    BY <2>1, <2>2, <1>2
<1>5. CASE UNCHANGED <<log, truncated>>
  BY <1>2, <1>5
<1>6. \/ UNCHANGED <<log, truncated>>
      \/ \E t \in Topic, n \in 0 .. MaxPartitions : Truncate(t, n)
      \/ Write
  BY TopicFrame, InsertTruncates DEF ClearConsumers, PushConsumer, AssignPartition
<1> QED
  BY <1>3, <1>4, <1>5, <1>6

(* A worker that waits to queue a value found its object in the map when the value's
   request asked for it. *)
LEMMA QueuedWellStep ==
  ASSUME TypeInv, QueuedWell, [Next]_vars
  PROVE  QueuedWell'
<1>1. /\ RequestsGrow /\ PartitionsGrow /\ ObjectsOf'
      /\ RequestTypes /\ TopicTypes /\ WorkerTypes /\ PartitionPoolTypes
  BY RequestsStep, TopicsStep, ObjectsStep DEF TypeInv, QueuedWell
<1>2. ASSUME NEW id \in DOMAIN requests, NEW part \in DOMAIN partitions, NamedBy(id, part)
      PROVE  NamedBy(id, part)'
  BY <1>1, <1>2 DEF NamedBy, RequestsGrow, PartitionsGrow
<1>3. ASSUME NEW w \in Worker, worker'[w].phase = "ordered", worker'[w].part # 0
      PROVE  NamedBy(worker[w].task, worker[w].part)'
  <2>1. worker \in [Worker -> WorkerRecord] /\ WorkerSound(worker[w], requests, partitions)
    BY <1>1 DEF WorkerTypes
  <2>2. CASE worker'[w] = worker[w]
    <3>1. worker[w].phase = "ordered" /\ worker[w].part # 0
      BY <1>3, <2>2
    <3>2. /\ worker[w].task \in DOMAIN requests /\ worker[w].part \in DOMAIN partitions
          /\ NamedBy(worker[w].task, worker[w].part)
      BY <3>1, <2>1 DEF WorkerSound, QueuedWell
    <3> QED
      BY <3>2, <2>2, <1>2 DEF NamedBy
  <2>3. CASE HandleDataInsert(w)
    <3> DEFINE n == worker[w].task
               t == requests[n].op.topic
               p == requests[n].op.partition
    <3>1. /\ requests[n].op.op = "topic_data_insert" /\ n \in DOMAIN requests
          /\ UNCHANGED <<requests, partitions>>
      BY <2>1, <2>3, <1>1 DEF HandleDataInsert, Taking, Op, WorkerRecord, RequestTypes
    <3>2. HasPartition(t, p) /\ WaitForTurn(w, topicMap[t][p])
      BY <2>1, <2>3, <1>3 DEF HandleDataInsert, AnswerAtOnce, Op, WorkerRecord
    <3>3. worker'[w].task = n /\ worker'[w].part = topicMap[t][p]
      BY <2>1, <3>2 DEF WaitForTurn, WorkerRecord
    <3>4. t \in Topic /\ p \in DOMAIN topicMap[t]
      BY <3>1, <3>2, <1>1, RequestFields, OperationTypes DEF HasPartition
    <3>5. NamedBy(n, topicMap[t][p])
      BY <3>4 DEF NamedBy, QueuedWell, ObjectsOf
    <3> QED
      BY <3>1, <3>3, <3>5 DEF NamedBy
  <2>4. ASSUME NEW v \in Worker, RequestStep(v)
        PROVE  worker'[w] = worker[w] \/ HandleDataInsert(w)
    <3>1. CASE v # w
      BY <2>1, <2>4, <3>1 DEF RequestStep, HandleTopicInsert, HandleDataInsert, HandleWhoLeader,
         HandleUnknown, HandleSubscribe, ForwardToRegistration, LocatePartition, CopyListArc,
         ClearConsumers, PushConsumer, AnswerRequest, AnswerLeader, ForwardToPartition,
         AnswerAtOnce, WaitForTurn, SignalNext
    <3>2. CASE v = w
      <4>1. ~(\E ack : AnswerAtOnce(w, ack)) /\ ~WaitForTurn(w, 0) /\ ~SignalNext(w)
        BY <2>1, <1>3 DEF AnswerAtOnce, WaitForTurn, SignalNext, WorkerRecord
      <4>2. ~(LocatePartition(w) \/ CopyListArc(w) \/ ClearConsumers(w))
        BY <2>1, <1>3, <4>1 DEF LocatePartition, CopyListArc, ClearConsumers, WorkerRecord
      <4> QED
        BY <2>4, <3>2, <4>1, <4>2 DEF RequestStep, HandleTopicInsert, HandleWhoLeader,
           HandleUnknown, HandleSubscribe, ForwardToRegistration, PushConsumer, AnswerRequest,
           AnswerLeader, ForwardToPartition
    <3> QED
      BY <3>1, <3>2
  <2> QED
    BY <2>2, <2>3, <2>4, WorkerFrame
<1>4. ASSUME NEW i \in DOMAIN pAccepted' PROVE NamedBy(pAccepted[i].id, pAccepted[i].part)'
  <2>1. ASSUME i \in DOMAIN pAccepted, pAccepted'[i] = pAccepted[i]
        PROVE  NamedBy(pAccepted[i].id, pAccepted[i].part)'
    <3>1. pAccepted[i] \in WorkItem
      <4> HIDE DEF WorkItem
      <4> QED
        BY <2>1, <1>1 DEF PartitionPoolTypes
    <3>2. NamedBy(pAccepted[i].id, pAccepted[i].part)
      BY <2>1 DEF QueuedWell
    <3> QED
      BY <3>1, <3>2, <2>1, <1>2 DEF WorkItem, NamedBy
  <2>2. ASSUME NEW w \in Worker, ForwardToPartition(w)
        PROVE  NamedBy(pAccepted[i].id, pAccepted[i].part)'
    <3> DEFINE item == Work(worker[w].task, worker[w].part)
    <3>1. /\ pAccepted' = Append(pAccepted, item) /\ UNCHANGED <<requests, partitions>>
          /\ worker[w].phase = "ordered" /\ worker[w].part # 0
      BY <2>2 DEF ForwardToPartition, PartitionPool!Accept
    <3>2. NamedBy(item.id, item.part)
      BY <3>1 DEF QueuedWell, Work
    <3> HIDE DEF item
    <3>3. \/ i \in DOMAIN pAccepted /\ pAccepted'[i] = pAccepted[i]
          \/ pAccepted'[i] = item
      <4> DEFINE W == WorkItem
      <4>1. pAccepted \in Seq(W)
        BY <1>1 DEF PartitionPoolTypes
      <4> HIDE DEF W
      <4> QED
        BY <4>1, <3>1, <1>4
    <3> QED
      BY <2>1, <3>1, <3>2, <3>3 DEF NamedBy
  <2>3. PartitionStep => UNCHANGED pAccepted
    BY DEF PartitionStep, BeginWrite, Write, AckWrite, NotifyConsumers, AnswerFailedWrite,
       PartitionPool!Start, PartitionPool!Finish
  <2> QED
    BY <1>4, <2>1, <2>2, <2>3, PartitionPoolFrame
<1> QED
  BY <1>1, <1>3, <1>4 DEF QueuedWell

(* The step that writes puts the value where its producer wanted it. *)
LEMMA WritesWell ==
  ASSUME TypeInv, QueuedWell, writing # "none"
  PROVE  /\ Writing.id \in DOMAIN requests
         /\ partitions[Writing.part].topic \in Topic /\ partitions[Writing.part].id \in PartitionId
         /\ MeantFor(Writing.id, partitions[Writing.part].topic, partitions[Writing.part].id)
<1>1. /\ Writing.id \in DOMAIN requests /\ Writing.part \in DOMAIN partitions
      /\ Len(pStarted) \in DOMAIN pAccepted /\ Writing = pAccepted[Len(pStarted)]
  BY WritingIsWork DEF TypeInv
<1>2. IsDataInsert(Writing.id) /\ NamedBy(Writing.id, Writing.part)
  BY <1>1 DEF TypeInv, PartitionPoolTypes, QueuedWell
<1> QED
  BY <1>1, <1>2, PartitionFields DEF TypeInv, MeantFor, NamedBy

LEMMA WriteWrites ==
  ASSUME TypeInv, QueuedWell, AppendToFile, writing # "none", UNCHANGED <<pStarted, requests>>
  PROVE  IsWritten(Writing.id)'
<1> DEFINE part == partitions[Writing.part]
           old == log[part.topic][part.id]
           v == Writing.id
<1>1. part.topic \in Topic /\ part.id \in PartitionId /\ MeantFor(v, part.topic, part.id)
  BY WritesWell
<1>2. log' = [log EXCEPT ![part.topic][part.id] = Append(@, v)]
  BY DEF AppendToFile
<1>3. v' = v
  BY DEF Writing
<1>4. PICK t \in Topic, p \in PartitionId : t = part.topic /\ p = part.id
  BY <1>1
<1> HIDE DEF part, v
<1>5. log[t][p] \in Seq(DOMAIN requests) /\ log'[t][p] = Append(log[t][p], v)
  BY <1>2, <1>4 DEF TypeInv, TopicTypes
<1>6. v \in ToSet(log'[t][p])
  BY <1>5, AppendedSet
<1>7. MeantFor(v, t, p)'
  BY <1>1, <1>3, <1>4 DEF MeantFor, IsDataInsert
<1>8. Written(v, t, p)'
  BY <1>3, <1>6 DEF Written
<1>9. IsWritten(v)'
  BY <1>7, <1>8 DEF IsWritten
<1> QED
  BY <1>9 DEF v

(* A new ack. *)
LEMMA AckedAfter ==
  ASSUME TypeInv, PathInv, [Next]_vars, NEW id
  PROVE  /\ Acked(id) => Acked(id)'
         /\ Acked(id)' => Acked(id) \/ \E ack : ack /\ NewAnswer(id, ack)
<1>1. CASE UNCHANGED responses
  BY <1>1 DEF AnswersTo, Acked
<1>2. CASE responses' = Append(responses, Notification(Notifying.id, Head(notifying.left)))
  <2> DEFINE r == Notification(Notifying.id, Head(notifying.left))
  <2>1. r.kind = "consumer"
    BY DEF Notification
  <2> HIDE DEF r
  <2>2. /\ AnswersTo(id)' = AnswersTo(id)
        /\ \A i \in DOMAIN responses : responses'[i] = responses[i]
    BY <1>2, <2>1, AnswersAppended DEF TypeInv, r
  <2> QED
    BY <2>2 DEF Acked, AnswersTo
<1>3. ASSUME NEW x, NEW a, NewAnswer(x, a)
      PROVE  /\ Acked(id) => Acked(id)'
             /\ Acked(id)' => Acked(id) \/ (id = x /\ a)
  <2> DEFINE r == Answer(x, a)
  <2>1. r.kind = "answer" /\ r.id = x /\ r.ack = a
    BY DEF Answer
  <2>2. responses' = Append(responses, r)
    BY <1>3 DEF NewAnswer, Respond
  <2> HIDE DEF r
  <2>3. /\ AnswersTo(id)' = IF x = id THEN AnswersTo(id) \cup {Len(responses) + 1} ELSE AnswersTo(id)
        /\ \A i \in DOMAIN responses : responses'[i] = responses[i]
        /\ responses'[Len(responses) + 1] = r
        /\ AnswersTo(id) \subseteq DOMAIN responses
    BY <2>1, <2>2, AnswersAppended DEF TypeInv, AnswersTo
  <2> QED
    BY <2>1, <2>3 DEF Acked
<1> QED
  BY <1>1, <1>2, <1>3, NewResponse

LEMMA WrittenInvStep ==
  ASSUME TypeInv, PathInv, QueuedWell, WrittenInv, [Next]_vars
  PROVE  WrittenInv'
<1>1. /\ PartitionPoolTypes /\ WorkerTypes /\ RequestTypes
      /\ RequestsGrow
  BY RequestsStep DEF TypeInv
<1>2. ASSUME NEW id \in DOMAIN requests, NEW t, NEW p PROVE MeantFor(id, t, p)' <=> MeantFor(id, t, p)
  BY <1>1 DEF MeantFor, IsDataInsert, RequestsGrow
<1>3. ASSUME NEW id \in DOMAIN requests, IsWritten(id) PROVE IsWritten(id)'
  <2>1. PICK t \in Topic, p \in PartitionId : MeantFor(id, t, p) /\ Written(id, t, p)
    BY <1>3 DEF IsWritten
  <2>2. MeantFor(id, t, p)' /\ Written(id, t, p)'
    BY <2>1, <1>2, WrittenStays
  <2> QED
    BY <2>2 DEF IsWritten
<1>4. ASSUME writing' \in {"written", "acked"} PROVE IsWritten(Writing.id)'
  <2>1. ASSUME writing \in {"written", "acked"}, Writing' = Writing PROVE IsWritten(Writing.id)'
    <3>1. PICK id : id = Writing.id
      OBVIOUS
    <3>2. id \in DOMAIN requests
      BY <3>1, <2>1, <1>1, WritingIsWork
    <3>3. IsWritten(id)'
      BY <3>1, <3>2, <2>1, <1>3 DEF WrittenInv
    <3>4. id = Writing'.id
      BY <3>1, <2>1
    <3> QED
      BY <3>3, <3>4 DEF IsWritten, MeantFor, Written, IsDataInsert
  <2>2. CASE UNCHANGED <<pStarted, writing>> \/ AckWrite
    BY <1>4, <2>1, <2>2 DEF Writing, AckWrite
  <2>3. CASE Write
    <3>1. writing = "begun" /\ UNCHANGED <<pStarted, requests>> /\ AppendToFile
      BY <1>4, <2>3 DEF Write
    <3> QED
      BY <3>1, WriteWrites
  <2>4. ~(BeginWrite \/ NotifyConsumers \/ AnswerFailedWrite)
    BY <1>4 DEF BeginWrite, NotifyConsumers, AnswerFailedWrite
  <2> QED
    BY <2>2, <2>3, <2>4, PartitionPoolFrame DEF PartitionStep, ForwardToPartition,
       PartitionPool!Accept
<1>5. ASSUME NEW id \in DOMAIN requests', IsDataInsert(id)', Acked(id)' PROVE IsWritten(id)'
  <2>1. id \in DOMAIN requests
    <3>1. Acked(id) => id \in signalled
      BY DEF PathInv, AnsweredLast, Acked, AnswersTo
    <3>2. ASSUME NEW ack, NewAnswer(id, ack) PROVE id \in DOMAIN requests
      BY <3>2 DEF NewAnswer
    <3> QED
      BY <3>1, <3>2, <1>1, <1>5, AckedAfter DEF WorkerTypes
  <2>2. IsDataInsert(id)
    BY <2>1, <1>1, <1>5 DEF IsDataInsert, RequestsGrow
  <2>3. IsWritten(id)
    <3>1. ASSUME NEW ack, ack, NewAnswer(id, ack) PROVE id = Writing.id /\ writing = "written"
      BY <3>1, <2>2 DEF NewAnswer
    <3> QED
      BY <3>1, <2>1, <2>2, <1>5, AckedAfter DEF WrittenInv
  <2> QED
    BY <2>1, <2>3, <1>3
<1>6. ASSUME NEW id \in DOMAIN requests', NEW t \in Topic, NEW p \in PartitionId, Written(id, t, p)'
      PROVE  MeantFor(id, t, p)'
  <2>1. CASE Written(id, t, p)
    <3>1. log[t][p] \in Seq(DOMAIN requests) /\ truncated[t][p] \subseteq DOMAIN requests
      BY DEF TypeInv, TopicTypes
    <3>2. id \in DOMAIN requests
      BY <2>1, <3>1 DEF Written, ToSet
    <3> QED
      BY <3>2, <2>1, <1>2 DEF WrittenInv
  <2>2. CASE /\ Write /\ id = Writing.id
             /\ t = partitions[Writing.part].topic /\ p = partitions[Writing.part].id
    <3>1. writing # "none"
      BY <2>2 DEF Write
    <3>2. id \in DOMAIN requests /\ MeantFor(id, t, p)
      BY <3>1, <2>2, WritesWell
    <3> QED
      BY <3>2, <1>2
  <2> QED
    BY <1>6, <2>1, <2>2, WrittenStays
<1> QED
  BY <1>4, <1>5, <1>6 DEF WrittenInv

(* A producer's ack says that its value is in the file of the topic and partition the
   producer named, or was in that very file until a topic_insert created it anew
   (partition.rs, line 67); a write that failed is never acked.  And no file ever
   holds a value that was meant for another, although a value may wait in two pools
   with a partition object that the topic's map has lost since. *)
THEOREM AckMeansWritten == Spec => []AckedIsWritten
<1>1. Init => QueuedWell /\ WrittenInv
  <2> SUFFICES ASSUME Init PROVE QueuedWell /\ WrittenInv
    OBVIOUS
  <2>1. QueuedWell
    BY DEF Init, QueuedWell, ObjectsOf, PartitionPool!Init
  <2>2. responses = <<>> /\ writing = "none" /\ requests = <<>>
    BY DEF Init
  <2> QED
    BY <2>1, <2>2 DEF WrittenInv
<1>2. TypeInv /\ QueuedWell /\ [Next]_vars => QueuedWell'
  BY QueuedWellStep
<1>3. TypeInv /\ PathInv /\ QueuedWell /\ WrittenInv /\ [Next]_vars => WrittenInv'
  BY WrittenInvStep
<1>4. WrittenInv => AckedIsWritten
  BY DEF WrittenInv, AckedIsWritten, IsWritten
<1> QED
  BY <1>1, <1>2, <1>3, <1>4, PathInvAlways, PTL DEF Spec
=============================================================================
