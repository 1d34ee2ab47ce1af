--------------------------- MODULE ConsumerGroups ---------------------------
(***************************************************************************)
(* Consumer groups across the system: the controller arranges a group      *)
(* (Controller), each client that subscribes passes the arrangement it got *)
(* on to the brokers as consumer_assignments, and the brokers keep a list  *)
(* of consumers with each partition.                                       *)
(*                                                                         *)
(* An assignment holds the consumer the controller meant for a partition,  *)
(* which may be another client's.  A broker handles the requests of a      *)
(* connection concurrently (Broker), so assignments are a set too.         *)
(***************************************************************************)
EXTENDS Controller

(* The lists are bounded by the greatest number of partitions asked for. *)
ASSUME CountsAssumption == \E n \in Counts : \A m \in Counts : m <= n

VARIABLES
  listeners,    \* the consumers map of each client
  assignments,  \* consumer_assignments that are not handled yet
  made,         \* the topic_insert that made a broker's partitions of a topic
  lists,        \* the consumers of each partition
  latest,       \* history: the arrangement that was passed on last, by topic
  disturbed     \* history: topics where a step ran into another one's assignments

listVars == <<listeners, assignments, made, lists, latest, disturbed>>
allVars == <<vars, listVars>>

MaxCount == CHOOSE n \in Counts : \A m \in Counts : m <= n
Local == 0 .. MaxCount - 1
Listed == [id : Nat, client : Client, group : Group]

(* "made" is noted when the partition is located, with the stage "cleared". *)
Assignment ==
  [sender : Client, broker : Broker, topic : Topic, local : Local, group : Group,
   id : Nat, by : Nat, stage : {"sent", "cleared"}, made : Nat]

GroupsTypeOK ==
  /\ listeners \in [Client -> SUBSET Nat]
  /\ assignments \subseteq Assignment
  /\ made \in [Broker -> [Topic -> Nat]]
  /\ lists \in [Broker -> [Topic -> [Local -> Seq(Listed)]]]
  /\ DOMAIN latest \subseteq Topic
  /\ disturbed \subseteq Topic

GroupsInit ==
  /\ Init
  /\ listeners = [c \in Client |-> {}]
  /\ assignments = {}
  /\ made = [b \in Broker |-> [t \in Topic |-> 0]]
  /\ lists = [b \in Broker |-> [t \in Topic |-> [l \in Local |-> <<>>]]]
  /\ latest = Empty
  /\ disturbed = {}

Pending(t) == {a \in assignments : a.topic = t}
Settled(t) == Pending(t) = {} /\ \A m \in inserts : m.topic # t

----------------------------------------------------------------------------
(* client.subscribe, once it has its answer: it listens for its own id, and
   sends an assignment for each partition of the arrangement. *)
PassOn(c) ==
  LET answer == answers[c]
      t == answer.topic IN
  /\ answer.kind = "arrangement"
  /\ ReadAnswer(c)
  /\ listeners' = [listeners EXCEPT ![c] = @ \cup {answer.id}]
  /\ assignments' = assignments \cup
       {[sender |-> c, broker |-> answer.arrangement[i].broker, topic |-> t,
         local |-> answer.arrangement[i].local, group |-> answer.group,
         id |-> answer.arrangement[i].consumer.id, by |-> answer.id, stage |-> "sent",
         made |-> 0]
        : i \in DOMAIN answer.arrangement}
  /\ latest' = With(latest, t, answer)
  /\ disturbed' = IF Settled(t) THEN disturbed ELSE disturbed \cup {t}
  /\ UNCHANGED <<made, lists>>

ReadMapping(c) ==
  /\ answers[c].kind = "mapping"
  /\ ReadAnswer(c)
  /\ UNCHANGED listVars

(* topic_insert: the new partition objects have no consumers. *)
RenewPartitions(m) ==
  /\ InsertTopic(m)
  /\ made' = [made EXCEPT ![m.broker][m.topic] = m.call]
  /\ lists' = [lists EXCEPT ![m.broker][m.topic] = [l \in Local |-> <<>>]]
  /\ disturbed' = IF m.topic \in DOMAIN latest \/ Pending(m.topic) # {}
                    THEN disturbed \cup {m.topic} ELSE disturbed
  /\ UNCHANGED <<listeners, assignments, latest>>

----------------------------------------------------------------------------
(* consumer_assignment at the broker. *)

Exists(a) == a.local < created[a.broker][a.topic]

(* The topic or the partition is not there: an error, and the end of it. *)
RejectAssignment(a) ==
  /\ a \in assignments /\ a.stage = "sent" /\ ~Exists(a)
  /\ assignments' = assignments \ {a}
  /\ disturbed' = disturbed \cup {a.topic}
  /\ UNCHANGED <<vars, listeners, made, lists, latest>>

(* A bug to tell apart: the list is not cleared. *)
ClearKeeping(a) ==
  /\ a \in assignments /\ a.stage = "sent" /\ Exists(a)
  /\ assignments' = (assignments \ {a}) \cup
       {[a EXCEPT !.stage = "cleared", !.made = made[a.broker][a.topic]]}
  /\ UNCHANGED <<vars, listeners, made, lists, latest, disturbed>>

(* The partition is located and its list cleared, of every group's consumers. *)
Clear(a) ==
  /\ a \in assignments /\ a.stage = "sent" /\ Exists(a)
  /\ assignments' = (assignments \ {a}) \cup
       {[a EXCEPT !.stage = "cleared", !.made = made[a.broker][a.topic]]}
  /\ lists' = [lists EXCEPT ![a.broker][a.topic][a.local] = <<>>]
  /\ UNCHANGED <<vars, listeners, made, latest, disturbed>>

(* The consumer is entered with the address of the connection the assignment
   came over; consumer_addr is not looked at.  If the topic was created again
   in between, it enters a list nobody reads any more. *)
Push(a) ==
  /\ a \in assignments /\ a.stage = "cleared"
  /\ assignments' = assignments \ {a}
  /\ lists' = IF made[a.broker][a.topic] = a.made
                THEN [lists EXCEPT ![a.broker][a.topic][a.local] =
                        Append(@, [id |-> a.id, client |-> a.sender, group |-> a.group])]
                ELSE lists
  /\ UNCHANGED <<vars, listeners, made, latest, disturbed>>

----------------------------------------------------------------------------
AtController ==
  \/ \E b \in Broker : Register(b) \/ LoseBroker(b)
  \/ \E c \in Client : Call(c) \/ Create(c)

GroupsNext ==
  \/ AtController /\ UNCHANGED listVars
  \/ \E c \in Client : PassOn(c) \/ ReadMapping(c)
  \/ \E m \in inserts : RenewPartitions(m)
  \/ \E a \in assignments : RejectAssignment(a) \/ Clear(a) \/ Push(a)

GroupsSpec == GroupsInit /\ [][GroupsNext]_allVars

----------------------------------------------------------------------------
(* Properties. *)

(* If subscribers take turns, each waiting until the assignments of the one
   before are handled, and the topic is not created again, then every partition
   lists exactly the consumer of the last arrangement, under the group and at
   the connection of the client that subscribed last. *)
LastSubscriberIsListed ==
  \A t \in DOMAIN latest \ disturbed : Pending(t) = {} =>
    \A i \in DOMAIN latest[t].arrangement :
      LET part == latest[t].arrangement[i]
          list == lists[part.broker][t][part.local] IN
      /\ Len(list) = 1
      /\ list[1].id = part.consumer.id
      /\ list[1].group = latest[t].group
      /\ latest[t].id \in listeners[list[1].client]
=============================================================================
