----------------------------- MODULE Controller -----------------------------
(***************************************************************************)
(* The metadata of the leading controller: the brokers that registered,    *)
(* the topics and which broker has which of their partitions, and the      *)
(* consumer groups.                                                        *)
(*                                                                         *)
(* Each client's connection has a handler task, which takes one call at a  *)
(* time.  create_topic looks the brokers up one after another, sends each  *)
(* of them its share as a topic_insert and answers without waiting for     *)
(* theirs.  subscribe holds the lock of consumer_id from its first step to *)
(* its last, so it is one step here.                                       *)
(*                                                                         *)
(* A broker works on the requests of one connection concurrently (Broker), *)
(* so topic_inserts are a set from which it takes any.                     *)
(***************************************************************************)
EXTENDS Naturals, Sequences, FiniteSets

CONSTANTS
  Client,
  BrokerNo,       \* broker_no: the number of brokers the cluster is started with
  Topic,
  Group,
  Counts,         \* the partition numbers clients ask for
  Faulty,         \* brokers that may refuse a connection, or lose it later
  MaxCalls        \* bound: create_topic and subscribe calls in a behaviour

ASSUME ControllerAssumption ==
  /\ BrokerNo \in Nat \ {0}
  /\ Counts \subseteq Nat
  /\ MaxCalls \in Nat

Broker == 0 .. BrokerNo - 1

VARIABLES
  registration,   \* broker_ids and broker_sockets: how far a broker's i_am_broker got
  lost,           \* brokers whose connection from the controller is broken
  partitions,     \* partitions: each topic's global -> (broker, local) mapping
  consumerId,
  groups,         \* consumer_grps
  handler,        \* the handler tasks of the clients' connections
  answers,        \* what was written to a client and not read
  inserts,        \* topic_inserts on their way to a broker
  created,        \* the brokers: the number of partitions they have of a topic
  calls,          \* history: the calls made, as [op, topic]
  unserved        \* history: shares that were not sent, as <<topic, broker>>

brokerVars == <<registration, lost>>
groupVars == <<consumerId, groups>>
vars == <<brokerVars, partitions, groupVars, handler, answers, inserts, created, calls, unserved>>

Found(b) == registration[b] \in {"named", "connected"}

Mapped == [broker : Broker, local : Nat]
Member == [id : Nat, client : Client]
Assigned == [broker : Broker, local : Nat, consumer : Member]
Insert == [broker : Broker, topic : Topic, count : Nat \ {0}, call : Nat]

TypeOK ==
  /\ registration \in [Broker -> {"none", "named", "connected", "refused"}]
  /\ lost \subseteq Faulty
  /\ DOMAIN partitions \subseteq Topic
  /\ \A t \in DOMAIN partitions : partitions[t] \in Seq(Mapped)
  /\ consumerId \in Nat
  /\ DOMAIN groups \subseteq Group
  /\ \A g \in DOMAIN groups :
       /\ groups[g].consumers \in Seq(Member)
       /\ DOMAIN groups[g].topics \subseteq Topic
       /\ \A t \in DOMAIN groups[g].topics : groups[g].topics[t] \in Seq(Assigned)
  /\ \A c \in Client : handler[c].phase \in {"idle", "creating", "dead"}
  /\ inserts \subseteq Insert
  /\ created \in [Broker -> [Topic -> Nat]]
  /\ calls \in Seq([op : {"create_topic", "subscribe"}, topic : Topic])
  /\ unserved \subseteq Topic \X Broker

Idle == [phase |-> "idle"]
NoAnswer == [kind |-> "none"]
Empty == [x \in {} |-> x]

Init ==
  /\ registration = [b \in Broker |-> "none"]
  /\ lost = {}
  /\ partitions = Empty
  /\ consumerId = 0
  /\ groups = Empty
  /\ handler = [c \in Client |-> Idle]
  /\ answers = [c \in Client |-> NoAnswer]
  /\ inserts = {}
  /\ created = [b \in Broker |-> [t \in Topic |-> 0]]
  /\ calls = <<>>
  /\ unserved = {}

With(f, x, value) == [y \in DOMAIN f \cup {x} |-> IF y = x THEN value ELSE f[y]]

----------------------------------------------------------------------------
(* i_am_broker: the controller connects to the broker that calls, enters its
   address under its id, and then the connection under its address.  A broker
   calls once: if the connection fails the controller never knows it. *)

NameBroker(b) ==
  /\ registration[b] = "none"
  /\ registration' = [registration EXCEPT ![b] = "named"]
  /\ UNCHANGED <<lost, partitions, groupVars, handler, answers, inserts, created, calls, unserved>>

RefuseController(b) ==
  /\ b \in Faulty /\ registration[b] = "none"
  /\ registration' = [registration EXCEPT ![b] = "refused"]
  /\ UNCHANGED <<lost, partitions, groupVars, handler, answers, inserts, created, calls, unserved>>

KeepSocket(b) ==
  /\ registration[b] = "named"
  /\ registration' = [registration EXCEPT ![b] = "connected"]
  /\ UNCHANGED <<lost, partitions, groupVars, handler, answers, inserts, created, calls, unserved>>

(* The environment: the connection to a broker breaks. *)
LoseBroker(b) ==
  /\ b \in Faulty \ lost /\ registration[b] = "connected"
  /\ lost' = lost \cup {b}
  /\ UNCHANGED <<registration, partitions, groupVars, handler, answers, inserts, created, calls,
                 unserved>>

----------------------------------------------------------------------------
(* create_topic. *)

(* A client has one call at a time: it waits for the answer. *)
MayCall(c) == handler[c] = Idle /\ answers[c] = NoAnswer /\ Len(calls) < MaxCalls

CreateTopic(c, t, n) ==
  /\ MayCall(c)
  /\ handler' = [handler EXCEPT ![c] =
       [phase |-> "creating", topic |-> t, count |-> n, call |-> Len(calls), next |-> 0,
        mapping |-> <<>>, unsent |-> {}, known |-> {b \in Broker : Found(b)}]]
  /\ calls' = Append(calls, [op |-> "create_topic", topic |-> t])
  /\ UNCHANGED <<brokerVars, partitions, groupVars, answers, inserts, created, unserved>>

(* A bug to tell apart: the remainder goes to one broker too many. *)
ShareOnePast(n, k, i) == n \div k + (IF i <= n % k THEN 1 ELSE 0)

(* n things divided among k: the first n % k of them get one more. *)
Share(n, k, i) == n \div k + (IF i < n % k THEN 1 ELSE 0)

LocalCount(c) == Share(handler[c].count, BrokerNo, handler[c].next)

LookingUp(c) == handler[c].phase = "creating" /\ handler[c].next < BrokerNo
LookedUp(c) == handler[c].phase = "creating" /\ handler[c].next = BrokerNo

(* A bug to tell apart: the loop waits for a broker that is not there. *)
PlaceShareWaiting(c) ==
  /\ LookingUp(c) /\ Found(handler[c].next)
  /\ handler' = [handler EXCEPT
       ![c].mapping = @ \o [i \in 1 .. LocalCount(c) |->
                              [broker |-> handler[c].next, local |-> i - 1]],
       ![c].unsent = @ \cup {handler[c].next},
       ![c].next = @ + 1]
  /\ UNCHANGED <<brokerVars, partitions, groupVars, answers, inserts, created, calls, unserved>>

(* The next broker gets its local partitions, which take the next global
   numbers.  One that is not registered is left out, with its share. *)
PlaceShare(c) ==
  LET b == handler[c].next IN
  /\ LookingUp(c)
  /\ IF LocalCount(c) > 0 /\ Found(b)
       THEN /\ handler' = [handler EXCEPT
                 ![c].mapping = @ \o [i \in 1 .. LocalCount(c) |->
                                        [broker |-> b, local |-> i - 1]],
                 ![c].unsent = @ \cup {b},
                 ![c].next = @ + 1]
            /\ UNCHANGED unserved
       ELSE /\ handler' = [handler EXCEPT ![c].next = @ + 1]
            /\ unserved' = unserved \cup {<<handler[c].topic, b>>}
  /\ UNCHANGED <<brokerVars, partitions, groupVars, answers, inserts, created, calls>>

(* A bug to tell apart: the remainder is mapped and not sent. *)
InsertForBase(c, b) ==
  [broker |-> b, topic |-> handler[c].topic, count |-> handler[c].count \div BrokerNo,
   call |-> handler[c].call]

InsertFor(c, b) ==
  [broker |-> b, topic |-> handler[c].topic, count |-> Share(handler[c].count, BrokerNo, b),
   call |-> handler[c].call]

(* The batches go out in the order of a hash map.  A broker without a socket
   yet, or with a broken one, is passed over. *)
SendBatch(c, b) ==
  /\ LookedUp(c) /\ b \in handler[c].unsent
  /\ handler' = [handler EXCEPT ![c].unsent = @ \ {b}]
  /\ IF registration[b] = "connected" /\ b \notin lost
       THEN inserts' = inserts \cup {InsertFor(c, b)} /\ UNCHANGED unserved
       ELSE unserved' = unserved \cup {<<handler[c].topic, b>>} /\ UNCHANGED inserts
  /\ UNCHANGED <<brokerVars, partitions, groupVars, answers, created, calls>>

(* The mapping is kept, whatever became of the batches, and is the answer. *)
RecordMapping(c) ==
  /\ LookedUp(c) /\ handler[c].unsent = {}
  /\ partitions' = With(partitions, handler[c].topic, handler[c].mapping)
  /\ answers' = [answers EXCEPT ![c] =
       [kind |-> "mapping", topic |-> handler[c].topic, mapping |-> handler[c].mapping]]
  /\ handler' = [handler EXCEPT ![c] = Idle]
  /\ UNCHANGED <<brokerVars, groupVars, inserts, created, calls, unserved>>

(* A broker makes new partition objects, in place of those it had. *)
InsertTopic(m) ==
  /\ m \in inserts
  /\ inserts' = inserts \ {m}
  /\ created' = [created EXCEPT ![m.broker][m.topic] = m.count]
  /\ UNCHANGED <<brokerVars, partitions, groupVars, handler, answers, calls, unserved>>

----------------------------------------------------------------------------
(* subscribe. *)

Orders(n) == {s \in [1 .. n -> 1 .. n] : \A i, j \in 1 .. n : s[i] = s[j] => i = j}

Group0 == [consumers |-> <<>>, topics |-> Empty]
GroupOf(g) == IF g \in DOMAIN groups THEN groups[g] ELSE Group0

(* A bug to tell apart: ids are counted by group. *)
NextIdInGroup(g) == Len(GroupOf(g).consumers)

NextId(g) == consumerId

(* A bug to tell apart: the group takes the present mapping each time. *)
ArrangementsAnew(g, t, k) ==
  IF t \in DOMAIN partitions
    THEN {[i \in DOMAIN partitions[t] |->
             [broker |-> partitions[t][i].broker, local |-> partitions[t][i].local,
              consumer |-> k]]}
    ELSE {GroupOf(g).topics[t]}

(* What the group starts from: what it has of the topic, or else the present
   mapping, in the order of a hash map and all with the new consumer. *)
Arrangements(g, t, k) ==
  IF t \in DOMAIN GroupOf(g).topics
    THEN {GroupOf(g).topics[t]}
    ELSE {[i \in DOMAIN partitions[t] |->
             [broker |-> partitions[t][s[i]].broker, local |-> partitions[t][s[i]].local,
              consumer |-> k]] : s \in Orders(Len(partitions[t]))}

(* A bug to tell apart: no rebalance when there is one consumer per partition. *)
RebalancesBelow(consumers, n) == Len(consumers) < n

Rebalances(consumers, n) == Len(consumers) <= n

(* The partitions are dealt out to all consumers of the group in turn. *)
Dealt(arrangement, consumers) ==
  IF Rebalances(consumers, Len(arrangement))
    THEN [i \in DOMAIN arrangement |->
            [arrangement[i] EXCEPT !.consumer = consumers[((i - 1) % Len(consumers)) + 1]]]
    ELSE arrangement

(* The topic is known to the group or to the controller. *)
Subscribe(c, t, g) ==
  /\ MayCall(c)
  /\ t \in DOMAIN GroupOf(g).topics \cup DOMAIN partitions
  /\ LET k == [id |-> NextId(g), client |-> c]
         consumers == Append(GroupOf(g).consumers, k) IN
     \E arrangement \in Arrangements(g, t, k) :
       /\ groups' = With(groups, g,
            [consumers |-> consumers,
             topics |-> With(GroupOf(g).topics, t, Dealt(arrangement, consumers))])
       /\ answers' = [answers EXCEPT ![c] =
            [kind |-> "arrangement", topic |-> t, group |-> g, id |-> k.id,
             arrangement |-> Dealt(arrangement, consumers)]]
  /\ consumerId' = consumerId + 1
  /\ calls' = Append(calls, [op |-> "subscribe", topic |-> t])
  /\ UNCHANGED <<brokerVars, partitions, handler, inserts, created, unserved>>

(* It is not: the handler panics, with the id and the group made, and the
   writer stays in the controller's map, so that the client sees nothing. *)
SubscribeUnknown(c, t, g) ==
  /\ MayCall(c)
  /\ t \notin DOMAIN GroupOf(g).topics \cup DOMAIN partitions
  /\ groups' = With(groups, g, GroupOf(g))
  /\ consumerId' = consumerId + 1
  /\ handler' = [handler EXCEPT ![c] = [phase |-> "dead"]]
  /\ calls' = Append(calls, [op |-> "subscribe", topic |-> t])
  /\ UNCHANGED <<brokerVars, partitions, answers, inserts, created, unserved>>

(* The client reads its answer. *)
ReadAnswer(c) ==
  /\ answers[c] # NoAnswer
  /\ answers' = [answers EXCEPT ![c] = NoAnswer]
  /\ UNCHANGED <<brokerVars, partitions, groupVars, handler, inserts, created, calls, unserved>>

----------------------------------------------------------------------------
Register(b) == NameBroker(b) \/ RefuseController(b) \/ KeepSocket(b)

Create(c) == PlaceShare(c) \/ (\E b \in Broker : SendBatch(c, b)) \/ RecordMapping(c)

Call(c) ==
  \/ \E t \in Topic, n \in Counts : CreateTopic(c, t, n)
  \/ \E t \in Topic, g \in Group : Subscribe(c, t, g) \/ SubscribeUnknown(c, t, g)

Next ==
  \/ \E b \in Broker : Register(b) \/ LoseBroker(b)
  \/ \E c \in Client : Call(c) \/ Create(c) \/ ReadAnswer(c)
  \/ \E m \in inserts : InsertTopic(m)

Spec == Init /\ [][Next]_vars

(* Tasks that can run do so in the end, and clients read what they are sent. *)
Fairness ==
  /\ \A b \in Broker : WF_vars(KeepSocket(b))
  /\ \A c \in Client : WF_vars(Create(c)) /\ WF_vars(ReadAnswer(c))
  /\ WF_vars(\E m \in inserts : InsertTopic(m))

FairSpec == Spec /\ Fairness

----------------------------------------------------------------------------
(* Properties. *)

Members ==
  {m \in (DOMAIN groups) \X (1 .. MaxCalls) : m[2] \in DOMAIN groups[m[1]].consumers}
MemberAt(m) == groups[m[1]].consumers[m[2]]

(* controller.rs:40, "unique id for each consumer": no two consumers have one
   id, whichever groups and clients they are of and whichever handlers died. *)
IdsUnique == \A m, n \in Members : MemberAt(m).id = MemberAt(n).id => m = n

MappedOn(mapping, b) == {i \in DOMAIN mapping : mapping[i].broker = b}
Whole(c, b) == Share(handler[c].count, BrokerNo, b)

(* Brokers may register while create_topic looks them up.  Each of them has its
   whole share in the mapping or nothing of it, those that were there when the
   call began have it, and if all were there the mapping has the partitions
   asked for. *)
SharesAreWhole ==
  \A c \in Client : LookedUp(c) =>
    LET mapping == handler[c].mapping IN
    /\ \A b \in Broker : Cardinality(MappedOn(mapping, b)) \in {0, Whole(c, b)}
    /\ \A b \in handler[c].known : Cardinality(MappedOn(mapping, b)) = Whole(c, b)
    /\ handler[c].known = Broker => Len(mapping) = handler[c].count

CreatedOnce(t) ==
  Cardinality({i \in DOMAIN calls : calls[i] = [op |-> "create_topic", topic |-> t]}) = 1

Underway(t, b) == {m \in inserts : m.topic = t /\ m.broker = b}

(* The mapping a client gets names partitions that their broker has, or will
   have when it comes to the topic_insert: if the topic was created once and the
   share was sent. *)
MappedIsMade ==
  \A t \in {u \in DOMAIN partitions : CreatedOnce(u)} : \A i \in DOMAIN partitions[t] :
    LET b == partitions[t][i].broker IN
    \/ partitions[t][i].local < created[b][t]
    \/ \E m \in Underway(t, b) : partitions[t][i].local < m.count
    \/ <<t, b>> \in unserved

PartsOf(arrangement, k) == Cardinality({i \in DOMAIN arrangement : arrangement[i].consumer = k})

(* A group that subscribed to one topic: no consumer has two partitions more than
   another, whatever number of consumers joined. *)
GroupsAreEven ==
  \A g \in DOMAIN groups : \A t \in DOMAIN groups[g].topics :
    DOMAIN groups[g].topics = {t} =>
      LET consumers == groups[g].consumers
          arrangement == groups[g].topics[t] IN
      \A i, j \in DOMAIN consumers :
        PartsOf(arrangement, consumers[i]) <= PartsOf(arrangement, consumers[j]) + 1

Served(arrangement) ==
  {<<arrangement[i].broker, arrangement[i].local>> : i \in DOMAIN arrangement}

(* A group keeps the partitions it had when it first subscribed, also when the
   topic is created again with others. *)
GroupKeepsPartitions ==
  [][\A g \in DOMAIN groups : \A t \in DOMAIN groups[g].topics :
       Served(groups'[g].topics[t]) = Served(groups[g].topics[t])]_vars

(* create_topic is answered, whichever brokers are missing or lost. *)
CreateIsAnswered ==
  \A c \in Client : handler[c].phase = "creating" ~> answers[c].kind = "mapping"
=============================================================================
