--------------------------- MODULE ControllerProofs ---------------------------
(***************************************************************************)
(* What holds of the controller's metadata for any number of clients,      *)
(* brokers, groups, topics and calls, and whichever handlers die and       *)
(* whichever brokers are missing or lost on the way: its types, unique ids *)
(* of consumers, even groups that keep their partitions, whole shares in   *)
(* the mapping of a new topic, and partitions that are made on the brokers *)
(* they were mapped to.  And across the system (ConsumerGroups): for any   *)
(* order in which assignments are handled, every partition lists the       *)
(* consumer that the last arrangement meant for it.                        *)
(***************************************************************************)
EXTENDS ConsumerGroups, DataLemmas

----------------------------------------------------------------------------
(* The ids of consumers. *)

ConsumersOf(g) == groups[g].consumers

GroupsTyped == \A g \in DOMAIN groups : ConsumersOf(g) \in Seq(Member)

(* What keeps the ids apart: the next one is above all that were given. *)
IdsBelowNext == \A g \in DOMAIN groups : \A i \in DOMAIN ConsumersOf(g) :
                  ConsumersOf(g)[i].id < consumerId

NoIdTwice ==
  \A g, h \in DOMAIN groups : \A i \in DOMAIN ConsumersOf(g), j \in DOMAIN ConsumersOf(h) :
    ConsumersOf(g)[i].id = ConsumersOf(h)[j].id => g = h /\ i = j

(* The inductive invariant of the ids. *)
IdsInv == consumerId \in Nat /\ GroupsTyped /\ IdsBelowNext /\ NoIdTwice

(* At the start there are no groups. *)
LEMMA InitIdsInv == Init => IdsInv
BY DEF Init, Empty, IdsInv, GroupsTyped, IdsBelowNext, NoIdTwice

(* The ids that were given are natural numbers below the next one. *)
LEMMA GivenIds ==
  ASSUME IdsInv, NEW g \in DOMAIN groups, NEW i \in DOMAIN ConsumersOf(g)
  PROVE  ConsumersOf(g)[i].id \in Nat /\ ConsumersOf(g)[i].id < consumerId
<1>1. ConsumersOf(g) \in Seq(Member)
  BY DEF IdsInv, GroupsTyped
<1>2. ConsumersOf(g)[i] \in Member
  BY <1>1
<1>3. ConsumersOf(g)[i].id \in Nat
  BY <1>2 DEF Member
<1> QED
  BY <1>3 DEF IdsInv, IdsBelowNext

(* The consumers a group has before a subscription are those that are kept, or none. *)
LEMMA GroupOfTyped ==
  ASSUME GroupsTyped, NEW g
  PROVE  GroupOf(g).consumers \in Seq(Member)
BY DEF GroupsTyped, ConsumersOf, GroupOf, Group0

(* subscribe appends one consumer to one group, and leaves the other groups alone. *)
LEMMA SubscribeAppends ==
  ASSUME IdsInv, NEW c \in Client, NEW t, NEW g, Subscribe(c, t, g),
         NEW h \in DOMAIN groups', NEW i \in DOMAIN ConsumersOf(h)'
  PROVE  /\ ConsumersOf(h)' \in Seq(Member)
         /\ \/ /\ h \in DOMAIN groups /\ i \in DOMAIN ConsumersOf(h)
               /\ ConsumersOf(h)'[i] = ConsumersOf(h)[i]
            \/ /\ h = g /\ i = Len(GroupOf(g).consumers) + 1
               /\ ConsumersOf(h)'[i].id = consumerId
<1> DEFINE k == [id |-> consumerId, client |-> c]
<1>1. k \in Member
  BY DEF Member, IdsInv
<1>2. PICK topics : groups' = With(groups, g,
                      [consumers |-> Append(GroupOf(g).consumers, k), topics |-> topics])
  BY DEF Subscribe, NextId
<1>3. GroupOf(g).consumers \in Seq(Member)
  BY GroupOfTyped DEF IdsInv
<1> HIDE DEF k
<1>4. CASE h = g
  <2>1. ConsumersOf(h)' = Append(GroupOf(g).consumers, k)
    BY <1>2, <1>4 DEF With, ConsumersOf
  <2>2. ConsumersOf(h)' \in Seq(Member)
    BY <1>1, <1>3, <2>1
  <2>3. CASE i = Len(GroupOf(g).consumers) + 1
    BY <1>3, <1>4, <2>1, <2>2, <2>3 DEF k
  <2>4. CASE i # Len(GroupOf(g).consumers) + 1
    <3>1. i \in DOMAIN GroupOf(g).consumers /\ ConsumersOf(h)'[i] = GroupOf(g).consumers[i]
      BY <1>1, <1>3, <2>1, <2>4
    <3>2. g \in DOMAIN groups
      BY <3>1 DEF GroupOf, Group0
    <3> QED
      BY <1>4, <2>2, <3>1, <3>2 DEF GroupOf, ConsumersOf
  <2> QED
    BY <2>3, <2>4
<1>5. CASE h # g
  <2>1. h \in DOMAIN groups /\ groups'[h] = groups[h]
    BY <1>2, <1>5 DEF With
  <2> QED
    BY <2>1 DEF ConsumersOf, IdsInv, GroupsTyped
<1> QED
  BY <1>4, <1>5

(* Every step keeps the invariant. *)
LEMMA NextIdsInv == IdsInv /\ [Next]_vars => IdsInv'
<1> SUFFICES ASSUME IdsInv, [Next]_vars
             PROVE  IdsInv'
  OBVIOUS
<1> USE DEF IdsInv
<1>1. CASE UNCHANGED groupVars
  BY <1>1 DEF groupVars, GroupsTyped, IdsBelowNext, NoIdTwice, ConsumersOf
<1>2. ASSUME NEW c \in Client, NEW t \in Topic, NEW g \in Group, Subscribe(c, t, g)
      PROVE  IdsInv'
  <2>1. consumerId' = consumerId + 1
    BY <1>2 DEF Subscribe
  <2>2. ASSUME NEW h \in DOMAIN groups'
        PROVE  ConsumersOf(h)' \in Seq(Member)
    <3>1. CASE h = g
      <4>1. GroupOf(g).consumers \in Seq(Member) /\ [id |-> consumerId, client |-> c] \in Member
        BY GroupOfTyped DEF Member
      <4>2. ConsumersOf(h)' =
              Append(GroupOf(g).consumers, [id |-> consumerId, client |-> c])
        BY <1>2, <3>1 DEF Subscribe, NextId, With, ConsumersOf
      <4> QED
        BY <4>1, <4>2
    <3>2. CASE h # g
      BY <1>2, <3>2 DEF Subscribe, With, ConsumersOf, GroupsTyped
    <3> QED
      BY <3>1, <3>2
  <2>3. GroupsTyped'
    BY <2>2 DEF GroupsTyped
  <2>4. IdsBelowNext'
    <3> SUFFICES ASSUME NEW h \in DOMAIN groups', NEW i \in DOMAIN ConsumersOf(h)'
                 PROVE  ConsumersOf(h)'[i].id < consumerId'
      BY DEF IdsBelowNext
    <3>1. CASE h \in DOMAIN groups /\ i \in DOMAIN ConsumersOf(h)
               /\ ConsumersOf(h)'[i] = ConsumersOf(h)[i]
      <4>1. ConsumersOf(h)[i].id < consumerId /\ ConsumersOf(h)[i].id \in Nat
        BY <3>1, GivenIds
      <4> QED
        BY <2>1, <3>1, <4>1
    <3>2. CASE ConsumersOf(h)'[i].id = consumerId
      BY <2>1, <3>2
    <3> QED
      BY <1>2, <3>1, <3>2, SubscribeAppends
  <2>5. NoIdTwice'
    <3> SUFFICES ASSUME NEW h \in DOMAIN groups', NEW i \in DOMAIN ConsumersOf(h)',
                        NEW l \in DOMAIN groups', NEW j \in DOMAIN ConsumersOf(l)',
                        ConsumersOf(h)'[i].id = ConsumersOf(l)'[j].id
                 PROVE  h = l /\ i = j
      BY DEF NoIdTwice
    <3> DEFINE Kept(m, n) == m \in DOMAIN groups /\ n \in DOMAIN ConsumersOf(m)
                             /\ ConsumersOf(m)'[n] = ConsumersOf(m)[n]
               Added(m, n) == m = g /\ n = Len(GroupOf(g).consumers) + 1
                              /\ ConsumersOf(m)'[n].id = consumerId
    <3>1. (Kept(h, i) \/ Added(h, i)) /\ (Kept(l, j) \/ Added(l, j))
      BY <1>2, SubscribeAppends
    <3>2. ASSUME NEW m, NEW n, Kept(m, n)
          PROVE  ConsumersOf(m)'[n].id < consumerId /\ ConsumersOf(m)'[n].id \in Nat
      BY <3>2, GivenIds
    <3>3. CASE Kept(h, i) /\ Kept(l, j)
      BY <3>3 DEF NoIdTwice
    <3>4. CASE Added(h, i) /\ Added(l, j)
      BY <3>4
    <3>5. CASE Kept(h, i) /\ Added(l, j)
      BY <3>2, <3>5
    <3>6. CASE Added(h, i) /\ Kept(l, j)
      BY <3>2, <3>6
    <3> QED
      BY <3>1, <3>3, <3>4, <3>5, <3>6
  <2> QED
    BY <2>1, <2>3, <2>4, <2>5
<1>3. ASSUME NEW c \in Client, NEW t \in Topic, NEW g \in Group, SubscribeUnknown(c, t, g)
      PROVE  IdsInv'
  <2>1. consumerId' = consumerId + 1 /\ groups' = With(groups, g, GroupOf(g))
    BY <1>3 DEF SubscribeUnknown
  <2>2. ASSUME NEW h \in DOMAIN groups'
        PROVE  \/ h \in DOMAIN groups /\ ConsumersOf(h)' = ConsumersOf(h)
               \/ ConsumersOf(h)' = <<>>
    BY <2>1 DEF With, GroupOf, Group0, ConsumersOf
  <2>3. GroupsTyped'
    <3> SUFFICES ASSUME NEW h \in DOMAIN groups'
                 PROVE  ConsumersOf(h)' \in Seq(Member)
      BY DEF GroupsTyped
    <3>1. <<>> \in Seq(Member)
      OBVIOUS
    <3> QED
      BY <2>2, <3>1 DEF GroupsTyped
  <2>4. IdsBelowNext'
    <3> SUFFICES ASSUME NEW h \in DOMAIN groups', NEW i \in DOMAIN ConsumersOf(h)'
                 PROVE  ConsumersOf(h)'[i].id < consumerId'
      BY DEF IdsBelowNext
    <3>1. h \in DOMAIN groups /\ ConsumersOf(h)' = ConsumersOf(h)
      BY <2>2
    <3>2. ConsumersOf(h)[i].id < consumerId /\ ConsumersOf(h)[i].id \in Nat
      BY <3>1, GivenIds
    <3> QED
      BY <2>1, <3>1, <3>2
  <2>5. NoIdTwice'
    BY <2>2 DEF NoIdTwice
  <2> QED
    BY <2>1, <2>3, <2>4, <2>5
<1>4. ASSUME NEW b \in Broker, Register(b) \/ LoseBroker(b)
      PROVE  UNCHANGED groupVars
  BY <1>4 DEF Register, NameBroker, RefuseController, KeepSocket, LoseBroker
<1>5. ASSUME NEW c \in Client, Create(c) \/ ReadAnswer(c)
      PROVE  UNCHANGED groupVars
  BY <1>5 DEF Create, PlaceShare, SendBatch, RecordMapping, ReadAnswer
<1>6. ASSUME NEW c \in Client, NEW t \in Topic, NEW n \in Counts, CreateTopic(c, t, n)
      PROVE  UNCHANGED groupVars
  BY <1>6 DEF CreateTopic
<1>7. ASSUME NEW m \in inserts, InsertTopic(m)
      PROVE  UNCHANGED groupVars
  BY <1>7 DEF InsertTopic
<1>8. CASE UNCHANGED vars
  BY <1>1, <1>8 DEF vars, groupVars
<1> QED
  BY <1>1, <1>2, <1>3, <1>4, <1>5, <1>6, <1>7, <1>8 DEF Next, Call

(* No two consumers have one id, whichever groups they are of and whichever
   handlers died after taking one (controller.rs, lines 41 and 907-911). *)
THEOREM IdsAreUnique == Spec => []IdsUnique
<1>1. Spec => []IdsInv
  BY InitIdsInv, NextIdsInv, PTL DEF Spec
<1>2. IdsInv => IdsUnique
  BY DEF IdsInv, NoIdTwice, IdsUnique, Members, MemberAt, ConsumersOf
<1> QED
  BY <1>1, <1>2, PTL

----------------------------------------------------------------------------
(* Types. *)

Dead == [phase |-> "dead"]
Creating ==
  [phase : {"creating"}, topic : Topic, count : Nat, call : Nat, next : 0 .. BrokerNo,
   mapping : Seq(Mapped), unsent : SUBSET Broker, known : SUBSET Broker]

Creates(c) == handler[c].phase = "creating"

BrokersTyped ==
  /\ registration \in [Broker -> {"none", "named", "connected", "refused"}]
  /\ lost \subseteq Faulty
  /\ created \in [Broker -> [Topic -> Nat]]

PartitionsTyped ==
  /\ DOMAIN partitions \subseteq Topic
  /\ \A t \in DOMAIN partitions : partitions[t] \in Seq(Mapped)

TopicsOf(g) == groups[g].topics

ArrangementsTyped ==
  /\ DOMAIN groups \subseteq Group
  /\ \A g \in DOMAIN groups :
       /\ DOMAIN TopicsOf(g) \subseteq Topic
       /\ \A t \in DOMAIN TopicsOf(g) : TopicsOf(g)[t] \in Seq(Assigned)

(* A handler is between calls, has died, or is creating a topic; then the shares
   it has still to send are of brokers it has looked up, and are not empty. *)
HandlersTyped ==
  /\ handler \in [Client -> {Idle, Dead} \cup Creating]
  /\ \A c \in Client : Creates(c) =>
       \A b \in handler[c].unsent :
         b < handler[c].next /\ Share(handler[c].count, BrokerNo, b) > 0

CallsTyped ==
  /\ calls \in Seq([op : {"create_topic", "subscribe"}, topic : Topic])
  /\ inserts \subseteq Insert
  /\ unserved \subseteq Topic \X Broker

(* The inductive invariant of the types.  The ids are part of it: a group's
   consumers are typed there. *)
ControllerTypes ==
  /\ IdsInv /\ BrokersTyped /\ PartitionsTyped /\ ArrangementsTyped
  /\ HandlersTyped /\ CallsTyped

(* The brokers' share of n things is a number, and the fields of the broker and
   client numbers are what the code computes with. *)
LEMMA ShareTyped ==
  ASSUME NEW n \in Nat, NEW b \in Broker
  PROVE  Share(n, BrokerNo, b) \in Nat
BY ControllerAssumption DEF Share, Broker

(* What a handler that creates a topic knows. *)
LEMMA CreatingFields ==
  ASSUME HandlersTyped, NEW c \in Client, Creates(c)
  PROVE  /\ handler[c] \in Creating
         /\ handler[c].topic \in Topic /\ handler[c].count \in Nat /\ handler[c].call \in Nat
         /\ handler[c].next \in 0 .. BrokerNo /\ handler[c].mapping \in Seq(Mapped)
         /\ handler[c].unsent \in SUBSET Broker /\ handler[c].known \in SUBSET Broker
<1>1. handler[c] \in {Idle, Dead} \cup Creating
  BY DEF HandlersTyped
<1>2. handler[c] # Idle /\ handler[c] # Dead
  BY DEF Creates, Idle, Dead
<1>3. handler[c] \in Creating
  BY <1>1, <1>2
<1> DEFINE M == Seq(Mapped)
           N == 0 .. BrokerNo
           B == SUBSET Broker
<1>4. handler[c] \in [phase : {"creating"}, topic : Topic, count : Nat, call : Nat, next : N,
                      mapping : M, unsent : B, known : B]
  BY <1>3 DEF Creating
<1> HIDE DEF M, N, B
<1>5. /\ handler[c].topic \in Topic /\ handler[c].count \in Nat /\ handler[c].call \in Nat
      /\ handler[c].next \in N /\ handler[c].mapping \in M
      /\ handler[c].unsent \in B /\ handler[c].known \in B
  BY <1>4
<1> QED
  BY <1>3, <1>5 DEF M, N, B

(* The mapping with the share of one more broker. *)
WithShare(s, n, b) == s \o [i \in 1 .. n |-> [broker |-> b, local |-> i - 1]]

LEMMA SegmentAdded ==
  ASSUME NEW s \in Seq(Mapped), NEW n \in Nat, NEW b \in Broker
  PROVE  /\ WithShare(s, n, b) \in Seq(Mapped)
         /\ Len(WithShare(s, n, b)) = Len(s) + n
         /\ DOMAIN WithShare(s, n, b) = 1 .. Len(s) + n
         /\ \A i \in DOMAIN s : WithShare(s, n, b)[i] = s[i]
         /\ \A i \in (Len(s) + 1) .. (Len(s) + n) :
              WithShare(s, n, b)[i] = [broker |-> b, local |-> i - Len(s) - 1]
<1> DEFINE seg == [i \in 1 .. n |-> [broker |-> b, local |-> i - 1]]
           more == s \o seg
<1>1. seg \in Seq(Mapped)
  <2>1. \A i \in 1 .. n : seg[i] \in Mapped
    BY DEF Mapped
  <2> QED
    BY <2>1
<1>2. Len(seg) = n
  BY <1>1
<1>3. more \in Seq(Mapped) /\ Len(more) = Len(s) + n
  BY <1>1, <1>2
<1>4. DOMAIN more = 1 .. Len(s) + n
  BY <1>3
<1>5. \A i \in DOMAIN s : more[i] = s[i]
  BY <1>1
<1>6. ASSUME NEW i \in (Len(s) + 1) .. (Len(s) + n)
      PROVE  more[i] = [broker |-> b, local |-> i - Len(s) - 1]
  <2>1. more[i] = seg[i - Len(s)]
    BY <1>1, <1>2
  <2>2. i - Len(s) \in 1 .. n
    OBVIOUS
  <2> QED
    BY <2>1, <2>2
<1> QED
  BY <1>3, <1>4, <1>5, <1>6 DEF WithShare

(* create_topic looks one broker up: it gets its whole share, or nothing. *)
LEMMA PlaceShareStep ==
  ASSUME HandlersTyped, NEW c \in Client, PlaceShare(c)
  PROVE  /\ Creates(c) /\ handler[c].next \in Broker
         /\ handler' = [handler EXCEPT ![c] = handler'[c]]
         /\ handler'[c] \in Creating
         /\ handler'[c].topic = handler[c].topic /\ handler'[c].count = handler[c].count
         /\ handler'[c].call = handler[c].call /\ handler'[c].known = handler[c].known
         /\ handler'[c].next = handler[c].next + 1
         /\ \/ /\ LocalCount(c) > 0 /\ Found(handler[c].next)
               /\ handler'[c].mapping =
                    WithShare(handler[c].mapping, LocalCount(c), handler[c].next)
               /\ handler'[c].unsent = handler[c].unsent \cup {handler[c].next}
               /\ unserved' = unserved
            \/ /\ ~(LocalCount(c) > 0 /\ Found(handler[c].next))
               /\ handler'[c].mapping = handler[c].mapping
               /\ handler'[c].unsent = handler[c].unsent
               /\ unserved' = unserved \cup {<<handler[c].topic, handler[c].next>>}
<1> DEFINE h == handler[c]
           M == Seq(Mapped)
           N == 0 .. BrokerNo
           B == SUBSET Broker
<1>1. Creates(c) /\ h.next \in 0 .. BrokerNo /\ h.next < BrokerNo
  BY CreatingFields DEF PlaceShare, LookingUp, Creates
<1>2. h.next \in Broker /\ h.next + 1 \in N
  BY <1>1, ControllerAssumption DEF Broker
<1>3. /\ h \in Creating /\ h.topic \in Topic /\ h.count \in Nat /\ h.call \in Nat
      /\ h.mapping \in M /\ h.unsent \in B /\ h.known \in B
  BY <1>1, CreatingFields
<1>4. LocalCount(c) \in Nat
  BY <1>2, <1>3, ShareTyped DEF LocalCount
<1>5. h \in [phase : {"creating"}, topic : Topic, count : Nat, call : Nat, next : N,
             mapping : M, unsent : B, known : B]
  BY <1>3 DEF Creating
<1> DEFINE more == WithShare(h.mapping, LocalCount(c), h.next)
           both == h.unsent \cup {h.next}
<1>6. more \in M /\ both \in B
  BY <1>2, <1>3, <1>4, SegmentAdded
<1>7. c \in DOMAIN handler
  BY DEF HandlersTyped
<1>8. CASE LocalCount(c) > 0 /\ Found(h.next)
  <2>1. handler' = [handler EXCEPT ![c].mapping = more, ![c].unsent = both, ![c].next = h.next + 1]
    BY <1>8 DEF PlaceShare, WithShare
  <2> HIDE DEF more, both, M, N, B
  <2>2. handler'[c] = [h EXCEPT !.mapping = more, !.unsent = both, !.next = h.next + 1]
    BY <1>7, <2>1
  <2>3. handler' = [handler EXCEPT ![c] = handler'[c]]
    BY <1>7, <2>1
  <2>4. handler'[c] \in [phase : {"creating"}, topic : Topic, count : Nat, call : Nat, next : N,
                         mapping : M, unsent : B, known : B]
    BY <1>2, <1>5, <1>6, <2>2
  <2>5. handler'[c] \in Creating
    BY <2>4 DEF Creating, M, N, B
  <2>6. unserved' = unserved
    BY <1>8 DEF PlaceShare
  <2>7. /\ handler'[c].topic = h.topic /\ handler'[c].count = h.count
        /\ handler'[c].call = h.call /\ handler'[c].known = h.known
        /\ handler'[c].next = h.next + 1 /\ handler'[c].mapping = more
        /\ handler'[c].unsent = both
    BY <1>5, <2>2
  <2> QED
    BY <1>1, <1>2, <1>8, <2>3, <2>5, <2>6, <2>7 DEF more, both
<1>9. CASE ~(LocalCount(c) > 0 /\ Found(h.next))
  <2>1. /\ handler' = [handler EXCEPT ![c].next = h.next + 1]
        /\ unserved' = unserved \cup {<<h.topic, h.next>>}
    BY <1>9 DEF PlaceShare
  <2> HIDE DEF M, N, B
  <2>2. handler'[c] = [h EXCEPT !.next = h.next + 1]
    BY <1>7, <2>1
  <2>3. handler' = [handler EXCEPT ![c] = handler'[c]]
    BY <1>7, <2>1
  <2>4. handler'[c] \in [phase : {"creating"}, topic : Topic, count : Nat, call : Nat, next : N,
                         mapping : M, unsent : B, known : B]
    BY <1>2, <1>5, <2>2
  <2>5. handler'[c] \in Creating
    BY <2>4 DEF Creating, M, N, B
  <2>7. /\ handler'[c].topic = h.topic /\ handler'[c].count = h.count
        /\ handler'[c].call = h.call /\ handler'[c].known = h.known
        /\ handler'[c].next = h.next + 1 /\ handler'[c].mapping = h.mapping
        /\ handler'[c].unsent = h.unsent
    BY <1>5, <2>2
  <2> QED
    BY <1>1, <1>2, <1>9, <2>1, <2>3, <2>5, <2>7
<1> QED
  BY <1>8, <1>9

(* create_topic sends one broker its share, or passes it over. *)
LEMMA SendBatchStep ==
  ASSUME HandlersTyped, NEW c \in Client, NEW b \in Broker, SendBatch(c, b)
  PROVE  /\ Creates(c) /\ handler[c].next = BrokerNo /\ b \in handler[c].unsent
         /\ handler' = [handler EXCEPT ![c] = handler'[c]]
         /\ handler'[c] \in Creating
         /\ handler'[c].topic = handler[c].topic /\ handler'[c].count = handler[c].count
         /\ handler'[c].call = handler[c].call /\ handler'[c].known = handler[c].known
         /\ handler'[c].next = handler[c].next /\ handler'[c].mapping = handler[c].mapping
         /\ handler'[c].unsent = handler[c].unsent \ {b}
         /\ InsertFor(c, b) \in Insert
         /\ \/ inserts' = inserts \cup {InsertFor(c, b)} /\ unserved' = unserved
            \/ unserved' = unserved \cup {<<handler[c].topic, b>>} /\ inserts' = inserts
<1> DEFINE h == handler[c]
           M == Seq(Mapped)
           N == 0 .. BrokerNo
           B == SUBSET Broker
           less == h.unsent \ {b}
<1>1. Creates(c) /\ h.next = BrokerNo /\ b \in h.unsent
  BY DEF SendBatch, LookedUp, Creates
<1>2. /\ h \in Creating /\ h.topic \in Topic /\ h.count \in Nat /\ h.call \in Nat
      /\ h.next \in N /\ h.mapping \in M /\ h.unsent \in B /\ h.known \in B
  BY <1>1, CreatingFields
<1>3. less \in B
  BY <1>2
<1>4. h \in [phase : {"creating"}, topic : Topic, count : Nat, call : Nat, next : N,
             mapping : M, unsent : B, known : B]
  BY <1>2 DEF Creating
<1>5. c \in DOMAIN handler
  BY DEF HandlersTyped
<1>6. handler' = [handler EXCEPT ![c].unsent = less]
  BY DEF SendBatch
<1>7. InsertFor(c, b) \in Insert
  <2>1. Share(h.count, BrokerNo, b) \in Nat \ {0}
    BY <1>1, <1>2, ShareTyped DEF HandlersTyped
  <2> QED
    BY <1>2, <2>1 DEF InsertFor, Insert
<1>8. \/ inserts' = inserts \cup {InsertFor(c, b)} /\ unserved' = unserved
      \/ unserved' = unserved \cup {<<h.topic, b>>} /\ inserts' = inserts
  BY DEF SendBatch
<1> HIDE DEF less, M, N, B
<1>9. handler'[c] = [h EXCEPT !.unsent = less] /\ handler' = [handler EXCEPT ![c] = handler'[c]]
  BY <1>5, <1>6
<1>10. handler'[c] \in [phase : {"creating"}, topic : Topic, count : Nat, call : Nat, next : N,
                        mapping : M, unsent : B, known : B]
  BY <1>3, <1>4, <1>9
<1>11. handler'[c] \in Creating
  BY <1>10 DEF Creating, M, N, B
<1>12. /\ handler'[c].topic = h.topic /\ handler'[c].count = h.count
       /\ handler'[c].call = h.call /\ handler'[c].known = h.known
       /\ handler'[c].next = h.next /\ handler'[c].mapping = h.mapping
       /\ handler'[c].unsent = less
  BY <1>4, <1>9
<1> QED
  BY <1>1, <1>7, <1>8, <1>9, <1>11, <1>12 DEF less

(* A call of create_topic. *)
LEMMA CreateTopicStep ==
  ASSUME HandlersTyped, CallsTyped, NEW c \in Client, NEW t \in Topic, NEW n \in Counts,
         CreateTopic(c, t, n)
  PROVE  /\ handler[c] = Idle
         /\ handler' = [handler EXCEPT ![c] = handler'[c]]
         /\ handler'[c] \in Creating
         /\ handler'[c].topic = t /\ handler'[c].count = n /\ handler'[c].call = Len(calls)
         /\ handler'[c].next = 0 /\ handler'[c].mapping = <<>> /\ handler'[c].unsent = {}
         /\ handler'[c].known = {b \in Broker : Found(b)}
         /\ calls' = Append(calls, [op |-> "create_topic", topic |-> t])
<1> DEFINE M == Seq(Mapped)
           N == 0 .. BrokerNo
           B == SUBSET Broker
           none == <<>>
           nobody == {}
           seen == {b \in Broker : Found(b)}
           new == [phase |-> "creating", topic |-> t, count |-> n, call |-> Len(calls), next |-> 0,
                   mapping |-> none, unsent |-> nobody, known |-> seen]
<1>1. /\ handler[c] = Idle
      /\ handler' = [handler EXCEPT ![c] = new]
      /\ calls' = Append(calls, [op |-> "create_topic", topic |-> t])
  BY DEF CreateTopic, MayCall
<1>2. n \in Nat /\ Len(calls) \in Nat /\ 0 \in N
  BY ControllerAssumption DEF CallsTyped
<1>3. none \in M /\ nobody \in B /\ seen \in B
  OBVIOUS
<1>4. c \in DOMAIN handler
  BY DEF HandlersTyped
<1> HIDE DEF M, N, B, none, nobody, seen
<1>5. handler'[c] = new /\ handler' = [handler EXCEPT ![c] = handler'[c]]
  BY <1>1, <1>4
<1>6. new \in [phase : {"creating"}, topic : Topic, count : Nat, call : Nat, next : N,
               mapping : M, unsent : B, known : B]
  BY <1>2, <1>3
<1>7. handler'[c] \in Creating
  BY <1>5, <1>6 DEF Creating, M, N, B
<1> QED
  BY <1>1, <1>5, <1>7 DEF none, nobody, seen

(* A handler that was replaced by a typed one: the others are as they were. *)
LEMMA HandlersReplaced ==
  ASSUME HandlersTyped, NEW c \in Client, handler' = [handler EXCEPT ![c] = handler'[c]],
         handler'[c] \in {Idle, Dead} \cup Creating,
         Creates(c)' => \A b \in handler'[c].unsent :
                          b < handler'[c].next /\ Share(handler'[c].count, BrokerNo, b) > 0
  PROVE  HandlersTyped'
<1> DEFINE H == {Idle, Dead} \cup Creating
<1>1. handler \in [Client -> H]
  BY DEF HandlersTyped
<1> HIDE DEF H
<1>2. handler' \in [Client -> H]
  <2>1. handler'[c] \in H
    BY DEF H
  <2> QED
    BY <1>1, <2>1
<1>3. ASSUME NEW d \in Client, d # c
      PROVE  handler'[d] = handler[d]
  BY <1>1, <1>3
<1>4. ASSUME NEW d \in Client, Creates(d)', NEW b \in handler'[d].unsent
      PROVE  b < handler'[d].next /\ Share(handler'[d].count, BrokerNo, b) > 0
  <2>1. CASE d = c
    BY <1>4, <2>1
  <2>2. CASE d # c
    BY <1>3, <1>4, <2>2 DEF HandlersTyped, Creates
  <2> QED
    BY <2>1, <2>2
<1>5. handler' \in [Client -> {Idle, Dead} \cup Creating]
  BY <1>2 DEF H
<1> QED
  BY <1>4, <1>5 DEF HandlersTyped, Idle, Dead, Creating, Broker, Mapped, Share

(* An arrangement that was dealt out has the partitions it had, in their places,
   and each has a consumer of the group. *)
LEMMA DealtTyped ==
  ASSUME NEW a \in Seq(Assigned), NEW k \in Seq(Member), k # <<>>
  PROVE  /\ Dealt(a, k) \in Seq(Assigned) /\ DOMAIN Dealt(a, k) = DOMAIN a
         /\ \A i \in DOMAIN a :
              Dealt(a, k)[i].broker = a[i].broker /\ Dealt(a, k)[i].local = a[i].local
<1>1. CASE ~Rebalances(k, Len(a))
  BY <1>1 DEF Dealt
<1>2. CASE Rebalances(k, Len(a))
  <2> DEFINE d == [i \in DOMAIN a |-> [a[i] EXCEPT !.consumer = k[((i - 1) % Len(k)) + 1]]]
  <2>1. Dealt(a, k) = d
    BY <1>2 DEF Dealt
  <2>2. ASSUME NEW i \in DOMAIN a
        PROVE  d[i] \in Assigned /\ d[i].broker = a[i].broker /\ d[i].local = a[i].local
    <3> a[i] \in Assigned
      OBVIOUS
    <3>1. a[i] \in [broker : Broker, local : Nat, consumer : Member]
      BY DEF Assigned
    <3>2. Len(k) \in Nat \ {0} /\ i - 1 \in Nat
      OBVIOUS
    <3>3. (i - 1) % Len(k) \in 0 .. Len(k) - 1
      BY <3>2
    <3>4. ((i - 1) % Len(k)) + 1 \in DOMAIN k
      BY <3>2, <3>3
    <3>5. k[((i - 1) % Len(k)) + 1] \in Member
      BY <3>4
    <3>6. d[i] = [a[i] EXCEPT !.consumer = k[((i - 1) % Len(k)) + 1]]
      OBVIOUS
    <3> HIDE DEF d
    <3>7. d[i] \in [broker : Broker, local : Nat, consumer : Member]
      BY <3>1, <3>5, <3>6
    <3>8. d[i].broker = a[i].broker /\ d[i].local = a[i].local
      BY <3>1, <3>6
    <3> QED
      BY <3>7, <3>8 DEF Assigned
  <2>3. DOMAIN d = 1 .. Len(a) /\ Len(a) \in Nat
    OBVIOUS
  <2>4. d \in Seq(Assigned)
    BY <2>2, <2>3
  <2> QED
    BY <2>1, <2>2, <2>4
<1> QED
  BY <1>1, <1>2

(* What subscribe starts from is what the group has of the topic, or a list of
   the topic's partitions, all with the new consumer. *)
LEMMA ArrangementTyped ==
  ASSUME PartitionsTyped, ArrangementsTyped, NEW g, NEW t, NEW k \in Member,
         t \in DOMAIN GroupOf(g).topics \cup DOMAIN partitions,
         NEW a \in Arrangements(g, t, k)
  PROVE  /\ a \in Seq(Assigned)
         /\ \/ g \in DOMAIN groups /\ t \in DOMAIN TopicsOf(g) /\ a = TopicsOf(g)[t]
            \/ /\ ~(g \in DOMAIN groups /\ t \in DOMAIN TopicsOf(g))
               /\ \A i \in DOMAIN a : a[i].consumer = k
<1>1. t \in DOMAIN GroupOf(g).topics <=> g \in DOMAIN groups /\ t \in DOMAIN TopicsOf(g)
  BY DEF GroupOf, Group0, TopicsOf, Empty
<1>2. CASE t \in DOMAIN GroupOf(g).topics
  BY <1>1, <1>2 DEF Arrangements, ArrangementsTyped, GroupOf, TopicsOf
<1>3. CASE t \notin DOMAIN GroupOf(g).topics
  <2> DEFINE p == partitions[t]
  <2>1. p \in Seq(Mapped)
    BY <1>3 DEF PartitionsTyped
  <2>2. PICK s \in Orders(Len(p)) :
          a = [i \in DOMAIN p |->
                 [broker |-> p[s[i]].broker, local |-> p[s[i]].local, consumer |-> k]]
    BY <1>3 DEF Arrangements
  <2>3. s \in [1 .. Len(p) -> 1 .. Len(p)]
    BY DEF Orders
  <2>4. DOMAIN p = 1 .. Len(p) /\ Len(p) \in Nat
    BY <2>1
  <2>5. ASSUME NEW i \in 1 .. Len(p)
        PROVE  a[i] \in Assigned /\ a[i].consumer = k
    <3>1. p[s[i]] \in Mapped
      BY <2>1, <2>3, <2>4
    <3> QED
      BY <2>2, <2>4, <3>1 DEF Assigned, Mapped
  <2>6. a \in Seq(Assigned)
    BY <2>2, <2>4, <2>5
  <2> QED
    BY <1>1, <1>3, <2>2, <2>4, <2>5, <2>6
<1> QED
  BY <1>2, <1>3

(* subscribe: the group gets one more consumer, and the topic is dealt out among
   all it has. *)
Joins(k, t, g, a) ==
  LET all == Append(GroupOf(g).consumers, k) IN
  /\ all \in Seq(Member) /\ Len(all) = Len(GroupOf(g).consumers) + 1
  /\ groups' = With(groups, g,
       [consumers |-> all, topics |-> With(GroupOf(g).topics, t, Dealt(a, all))])
  /\ Dealt(a, all) \in Seq(Assigned)
  /\ \/ g \in DOMAIN groups /\ t \in DOMAIN TopicsOf(g) /\ a = TopicsOf(g)[t]
     \/ /\ ~(g \in DOMAIN groups /\ t \in DOMAIN TopicsOf(g))
        /\ \A i \in DOMAIN a : a[i].consumer = k

LEMMA SubscribeStep ==
  ASSUME IdsInv, PartitionsTyped, ArrangementsTyped,
         NEW c \in Client, NEW t \in Topic, NEW g \in Group, Subscribe(c, t, g)
  PROVE  \E k \in Member, a \in Seq(Assigned) : Joins(k, t, g, a)
<1> DEFINE k == [id |-> NextId(g), client |-> c]
           all == Append(GroupOf(g).consumers, k)
<1>1. k \in Member
  BY DEF IdsInv, NextId, Member
<1>2. PICK a \in Arrangements(g, t, k) :
        groups' = With(groups, g,
          [consumers |-> all, topics |-> With(GroupOf(g).topics, t, Dealt(a, all))])
  BY DEF Subscribe
<1>3. t \in DOMAIN GroupOf(g).topics \cup DOMAIN partitions
  BY DEF Subscribe
<1> HIDE DEF k
<1>4. /\ a \in Seq(Assigned)
      /\ \/ g \in DOMAIN groups /\ t \in DOMAIN TopicsOf(g) /\ a = TopicsOf(g)[t]
         \/ /\ ~(g \in DOMAIN groups /\ t \in DOMAIN TopicsOf(g))
            /\ \A i \in DOMAIN a : a[i].consumer = k
  BY <1>1, <1>3, ArrangementTyped
<1>5. GroupOf(g).consumers \in Seq(Member)
  BY GroupOfTyped DEF IdsInv
<1>6. all \in Seq(Member) /\ all # <<>> /\ Len(all) = Len(GroupOf(g).consumers) + 1
  BY <1>1, <1>5, AppendedSeq
<1> HIDE DEF all
<1>7. Dealt(a, all) \in Seq(Assigned)
  BY <1>4, <1>6, DealtTyped
<1> QED
  BY <1>1, <1>2, <1>4, <1>6, <1>7 DEF all, Joins

(* subscribe keeps the arrangements typed, whether the group had the topic or is new. *)
LEMMA SubscribeTyped ==
  ASSUME IdsInv, PartitionsTyped, ArrangementsTyped,
         NEW c \in Client, NEW t \in Topic, NEW g \in Group, Subscribe(c, t, g)
  PROVE  ArrangementsTyped'
<1>1. PICK k \in Member, d \in Seq(Assigned) :
        groups' = With(groups, g,
          [consumers |-> Append(GroupOf(g).consumers, k),
           topics |-> With(GroupOf(g).topics, t, d)])
  BY SubscribeStep DEF Joins
<1>2. DOMAIN groups' = DOMAIN groups \cup {g}
  BY <1>1 DEF With
<1>3. TopicsOf(g)' = With(GroupOf(g).topics, t, d)
  BY <1>1 DEF With, TopicsOf
<1>4. ASSUME NEW h \in DOMAIN groups', h # g
      PROVE  h \in DOMAIN groups /\ TopicsOf(h)' = TopicsOf(h)
  BY <1>1, <1>2, <1>4 DEF With, TopicsOf
<1>5. /\ DOMAIN GroupOf(g).topics \subseteq Topic
      /\ \A u \in DOMAIN GroupOf(g).topics : GroupOf(g).topics[u] \in Seq(Assigned)
  BY DEF GroupOf, Group0, Empty, ArrangementsTyped, TopicsOf
<1>6. /\ DOMAIN TopicsOf(g)' \subseteq Topic
      /\ \A u \in DOMAIN TopicsOf(g)' : TopicsOf(g)'[u] \in Seq(Assigned)
  BY <1>3, <1>5 DEF With
<1>7. ASSUME NEW h \in DOMAIN groups'
      PROVE  /\ DOMAIN TopicsOf(h)' \subseteq Topic
             /\ \A u \in DOMAIN TopicsOf(h)' : TopicsOf(h)'[u] \in Seq(Assigned)
  BY <1>4, <1>6 DEF ArrangementsTyped
<1> QED
  BY <1>2, <1>7 DEF ArrangementsTyped, Assigned, Member, Broker

(* At the start nothing is registered, created or subscribed to. *)
LEMMA InitControllerTypes == Init => ControllerTypes
<1> SUFFICES ASSUME Init
             PROVE  ControllerTypes
  OBVIOUS
<1>1. IdsInv
  BY InitIdsInv
<1>2. BrokersTyped
  BY DEF Init, BrokersTyped
<1>3. PartitionsTyped /\ ArrangementsTyped
  BY DEF Init, Empty, PartitionsTyped, ArrangementsTyped
<1>4. HandlersTyped
  BY DEF Init, HandlersTyped, Creates, Idle
<1>5. CallsTyped
  BY DEF Init, CallsTyped
<1> QED
  BY <1>1, <1>2, <1>3, <1>4, <1>5 DEF ControllerTypes

(* A step is one of the actions, or changes nothing. *)
LEMMA ControllerSteps ==
  ASSUME [Next]_vars
  PROVE  \/ \E b \in Broker : Register(b) \/ LoseBroker(b)
         \/ \E c \in Client, t \in Topic, n \in Counts : CreateTopic(c, t, n)
         \/ \E c \in Client, t \in Topic, g \in Group : Subscribe(c, t, g)
         \/ \E c \in Client, t \in Topic, g \in Group : SubscribeUnknown(c, t, g)
         \/ \E c \in Client : PlaceShare(c)
         \/ \E c \in Client, b \in Broker : SendBatch(c, b)
         \/ \E c \in Client : RecordMapping(c)
         \/ \E c \in Client : ReadAnswer(c)
         \/ \E m \in inserts : InsertTopic(m)
         \/ UNCHANGED vars
BY DEF Next, Call, Create

(* Steps keep the types: one lemma for each part. *)
LEMMA NextBrokersTyped ==
  ASSUME BrokersTyped, CallsTyped, [Next]_vars
  PROVE  BrokersTyped'
<1>1. ASSUME NEW b \in Broker, Register(b) \/ LoseBroker(b)
      PROVE  BrokersTyped'
  BY <1>1 DEF Register, NameBroker, RefuseController, KeepSocket, LoseBroker, BrokersTyped, Broker
<1>2. ASSUME NEW m \in inserts, InsertTopic(m)
      PROVE  BrokersTyped'
  <2>1. m.broker \in Broker /\ m.topic \in Topic /\ m.count \in Nat
    BY DEF CallsTyped, Insert
  <2> DEFINE row == [created[m.broker] EXCEPT ![m.topic] = m.count]
  <2>2. row \in [Topic -> Nat]
    BY <2>1 DEF BrokersTyped
  <2>3. created' = [created EXCEPT ![m.broker] = row]
    BY <1>2, <2>1 DEF InsertTopic, BrokersTyped
  <2> HIDE DEF row
  <2>4. created' \in [Broker -> [Topic -> Nat]]
    BY <2>2, <2>3 DEF BrokersTyped
  <2> QED
    BY <1>2, <2>4 DEF InsertTopic, brokerVars, BrokersTyped, Broker
<1>3. CASE UNCHANGED <<brokerVars, created>>
  BY <1>3 DEF brokerVars, BrokersTyped, Broker
<1>4. ASSUME NEW c \in Client, NEW t \in Topic, NEW n \in Counts, CreateTopic(c, t, n)
      PROVE  UNCHANGED <<brokerVars, created>>
  BY <1>4 DEF CreateTopic
<1>5. ASSUME NEW c \in Client, NEW t \in Topic, NEW g \in Group,
             Subscribe(c, t, g) \/ SubscribeUnknown(c, t, g)
      PROVE  UNCHANGED <<brokerVars, created>>
  BY <1>5 DEF Subscribe, SubscribeUnknown
<1>6. ASSUME NEW c \in Client, PlaceShare(c) \/ RecordMapping(c) \/ ReadAnswer(c)
      PROVE  UNCHANGED <<brokerVars, created>>
  BY <1>6 DEF PlaceShare, RecordMapping, ReadAnswer
<1>7. ASSUME NEW c \in Client, NEW b \in Broker, SendBatch(c, b)
      PROVE  UNCHANGED <<brokerVars, created>>
  BY <1>7 DEF SendBatch
<1> QED
  BY ControllerSteps, <1>1, <1>2, <1>3, <1>4, <1>5, <1>6, <1>7 DEF vars

LEMMA NextPartitionsTyped ==
  ASSUME PartitionsTyped, HandlersTyped, [Next]_vars
  PROVE  PartitionsTyped'
<1>1. ASSUME NEW c \in Client, RecordMapping(c)
      PROVE  PartitionsTyped'
  <2>1. Creates(c)
    BY <1>1 DEF RecordMapping, LookedUp, Creates
  <2>2. handler[c].topic \in Topic /\ handler[c].mapping \in Seq(Mapped)
    BY <2>1, CreatingFields
  <2>3. partitions' = With(partitions, handler[c].topic, handler[c].mapping)
    BY <1>1 DEF RecordMapping
  <2> QED
    BY <2>2, <2>3 DEF With, PartitionsTyped, Mapped, Broker
<1>2. CASE UNCHANGED partitions
  BY <1>2 DEF PartitionsTyped, Mapped, Broker
<1>3. ASSUME NEW b \in Broker, Register(b) \/ LoseBroker(b)
      PROVE  UNCHANGED partitions
  BY <1>3 DEF Register, NameBroker, RefuseController, KeepSocket, LoseBroker
<1>4. ASSUME NEW c \in Client, NEW t \in Topic, NEW n \in Counts, CreateTopic(c, t, n)
      PROVE  UNCHANGED partitions
  BY <1>4 DEF CreateTopic
<1>5. ASSUME NEW c \in Client, NEW t \in Topic, NEW g \in Group,
             Subscribe(c, t, g) \/ SubscribeUnknown(c, t, g)
      PROVE  UNCHANGED partitions
  BY <1>5 DEF Subscribe, SubscribeUnknown
<1>6. ASSUME NEW c \in Client, PlaceShare(c) \/ ReadAnswer(c)
      PROVE  UNCHANGED partitions
  BY <1>6 DEF PlaceShare, ReadAnswer
<1>7. ASSUME NEW c \in Client, NEW b \in Broker, SendBatch(c, b)
      PROVE  UNCHANGED partitions
  BY <1>7 DEF SendBatch
<1>8. ASSUME NEW m \in inserts, InsertTopic(m)
      PROVE  UNCHANGED partitions
  BY <1>8 DEF InsertTopic
<1> QED
  BY ControllerSteps, <1>1, <1>2, <1>3, <1>4, <1>5, <1>6, <1>7, <1>8 DEF vars

LEMMA NextArrangementsTyped ==
  ASSUME IdsInv, PartitionsTyped, ArrangementsTyped, [Next]_vars
  PROVE  ArrangementsTyped'
<1>1. ASSUME NEW c \in Client, NEW t \in Topic, NEW g \in Group, Subscribe(c, t, g)
      PROVE  ArrangementsTyped'
  BY <1>1, SubscribeTyped
<1>2. ASSUME NEW c \in Client, NEW t \in Topic, NEW g \in Group, SubscribeUnknown(c, t, g)
      PROVE  ArrangementsTyped'
  <2>1. groups' = With(groups, g, GroupOf(g))
    BY <1>2 DEF SubscribeUnknown
  <2>2. DOMAIN groups' = DOMAIN groups \cup {g}
    BY <2>1 DEF With
  <2>3. ASSUME NEW h \in DOMAIN groups'
        PROVE  \/ h \in DOMAIN groups /\ TopicsOf(h)' = TopicsOf(h)
               \/ TopicsOf(h)' = Empty
    BY <2>1 DEF With, GroupOf, Group0, TopicsOf
  <2>4. ASSUME NEW h \in DOMAIN groups'
        PROVE  /\ DOMAIN TopicsOf(h)' \subseteq Topic
               /\ \A u \in DOMAIN TopicsOf(h)' : TopicsOf(h)'[u] \in Seq(Assigned)
    BY <2>3 DEF ArrangementsTyped, Empty
  <2> QED
    BY <2>2, <2>4 DEF ArrangementsTyped, Assigned, Member, Broker
<1>3. CASE UNCHANGED groups
  BY <1>3 DEF ArrangementsTyped, TopicsOf, Assigned, Member, Broker
<1>4. ASSUME NEW b \in Broker, Register(b) \/ LoseBroker(b)
      PROVE  UNCHANGED groups
  BY <1>4 DEF Register, NameBroker, RefuseController, KeepSocket, LoseBroker, groupVars
<1>5. ASSUME NEW c \in Client, NEW t \in Topic, NEW n \in Counts, CreateTopic(c, t, n)
      PROVE  UNCHANGED groups
  BY <1>5 DEF CreateTopic, groupVars
<1>6. ASSUME NEW c \in Client, PlaceShare(c) \/ RecordMapping(c) \/ ReadAnswer(c)
      PROVE  UNCHANGED groups
  BY <1>6 DEF PlaceShare, RecordMapping, ReadAnswer, groupVars
<1>7. ASSUME NEW c \in Client, NEW b \in Broker, SendBatch(c, b)
      PROVE  UNCHANGED groups
  BY <1>7 DEF SendBatch, groupVars
<1>8. ASSUME NEW m \in inserts, InsertTopic(m)
      PROVE  UNCHANGED groups
  BY <1>8 DEF InsertTopic, groupVars
<1> QED
  BY ControllerSteps, <1>1, <1>2, <1>3, <1>4, <1>5, <1>6, <1>7, <1>8 DEF vars, groupVars

LEMMA NextHandlersTyped ==
  ASSUME HandlersTyped, CallsTyped, [Next]_vars
  PROVE  HandlersTyped'
<1>1. ASSUME NEW c \in Client, PlaceShare(c)
      PROVE  HandlersTyped'
  <2>1. ASSUME NEW b \in handler'[c].unsent
        PROVE  b < handler'[c].next /\ Share(handler'[c].count, BrokerNo, b) > 0
    <3>1. handler[c].next \in Nat
      BY <1>1, PlaceShareStep DEF Broker
    <3>2. CASE b \in handler[c].unsent
      <4>1. b < handler[c].next /\ Share(handler[c].count, BrokerNo, b) > 0
        BY <1>1, <3>2, PlaceShareStep DEF HandlersTyped
      <4>2. b \in Nat
        BY <1>1, <3>2, PlaceShareStep, CreatingFields DEF Broker
      <4>3. handler'[c].next = handler[c].next + 1 /\ handler'[c].count = handler[c].count
        BY <1>1, PlaceShareStep
      <4> QED
        BY <3>1, <4>1, <4>2, <4>3
    <3>3. CASE b = handler[c].next /\ LocalCount(c) > 0
      <4>1. handler'[c].next = handler[c].next + 1 /\ handler'[c].count = handler[c].count
        BY <1>1, PlaceShareStep
      <4> QED
        BY <3>1, <3>3, <4>1 DEF LocalCount
    <3> QED
      BY <1>1, <3>2, <3>3, PlaceShareStep
  <2> QED
    BY <1>1, <2>1, PlaceShareStep, HandlersReplaced
<1>2. ASSUME NEW c \in Client, NEW b \in Broker, SendBatch(c, b)
      PROVE  HandlersTyped'
  <2>1. ASSUME NEW a \in handler'[c].unsent
        PROVE  a < handler'[c].next /\ Share(handler'[c].count, BrokerNo, a) > 0
    <3>1. a \in handler[c].unsent /\ Creates(c)
      BY <1>2, SendBatchStep
    <3>2. a < handler[c].next /\ Share(handler[c].count, BrokerNo, a) > 0
      BY <3>1 DEF HandlersTyped
    <3> QED
      BY <1>2, <3>2, SendBatchStep
  <2> QED
    BY <1>2, <2>1, SendBatchStep, HandlersReplaced
<1>3. ASSUME NEW c \in Client, NEW t \in Topic, NEW n \in Counts, CreateTopic(c, t, n)
      PROVE  HandlersTyped'
  <2>1. handler'[c].unsent = {}
    BY <1>3, CreateTopicStep
  <2> QED
    BY <1>3, <2>1, CreateTopicStep, HandlersReplaced
<1>4. ASSUME NEW c \in Client, handler' = [handler EXCEPT ![c] = Idle]
      PROVE  HandlersTyped'
  <2>1. handler'[c] = Idle /\ ~Creates(c)'
    BY <1>4 DEF HandlersTyped, Creates, Idle
  <2> QED
    BY <1>4, <2>1, HandlersReplaced
<1>5. ASSUME NEW c \in Client, handler' = [handler EXCEPT ![c] = Dead]
      PROVE  HandlersTyped'
  <2>1. handler'[c] = Dead /\ ~Creates(c)'
    BY <1>5 DEF HandlersTyped, Creates, Dead
  <2> QED
    BY <1>5, <2>1, HandlersReplaced
<1>6. CASE UNCHANGED handler
  BY <1>6 DEF HandlersTyped, Creates, Idle, Dead, Creating, Mapped, Broker, Share
<1>7. ASSUME NEW b \in Broker, Register(b) \/ LoseBroker(b)
      PROVE  UNCHANGED handler
  BY <1>7 DEF Register, NameBroker, RefuseController, KeepSocket, LoseBroker
<1>8. ASSUME NEW c \in Client, NEW t \in Topic, NEW g \in Group,
             Subscribe(c, t, g) \/ SubscribeUnknown(c, t, g)
      PROVE  HandlersTyped'
  BY <1>5, <1>6, <1>8 DEF Subscribe, SubscribeUnknown, Dead
<1>9. ASSUME NEW c \in Client, RecordMapping(c) \/ ReadAnswer(c)
      PROVE  HandlersTyped'
  BY <1>4, <1>6, <1>9 DEF RecordMapping, ReadAnswer
<1>10. ASSUME NEW m \in inserts, InsertTopic(m)
       PROVE  UNCHANGED handler
  BY <1>10 DEF InsertTopic
<1> QED
  BY ControllerSteps, <1>1, <1>2, <1>3, <1>6, <1>7, <1>8, <1>9, <1>10 DEF vars

LEMMA NextCallsTyped ==
  ASSUME CallsTyped, HandlersTyped, [Next]_vars
  PROVE  CallsTyped'
<1> DEFINE Entry == [op : {"create_topic", "subscribe"}, topic : Topic]
<1>1. calls \in Seq(Entry) /\ inserts \subseteq Insert /\ unserved \subseteq Topic \X Broker
  BY DEF CallsTyped
<1>2. SUFFICES /\ calls' \in Seq(Entry) /\ inserts' \subseteq Insert
               /\ unserved' \subseteq Topic \X Broker
  BY DEF CallsTyped, Insert, Broker
<1>3. ASSUME NEW e \in Entry, calls' = Append(calls, e)
      PROVE  calls' \in Seq(Entry)
  <2> HIDE DEF Entry
  <2> QED
    BY <1>1, <1>3
<1>4. ASSUME NEW t \in Topic
      PROVE  /\ [op |-> "create_topic", topic |-> t] \in Entry
             /\ [op |-> "subscribe", topic |-> t] \in Entry
  OBVIOUS
<1> HIDE DEF Entry
<1>5. ASSUME NEW c \in Client, NEW t \in Topic, NEW n \in Counts, CreateTopic(c, t, n)
      PROVE  /\ calls' \in Seq(Entry) /\ inserts' \subseteq Insert
             /\ unserved' \subseteq Topic \X Broker
  BY <1>1, <1>3, <1>4, <1>5 DEF CreateTopic
<1>6. ASSUME NEW c \in Client, NEW t \in Topic, NEW g \in Group,
             Subscribe(c, t, g) \/ SubscribeUnknown(c, t, g)
      PROVE  /\ calls' \in Seq(Entry) /\ inserts' \subseteq Insert
             /\ unserved' \subseteq Topic \X Broker
  BY <1>1, <1>3, <1>4, <1>6 DEF Subscribe, SubscribeUnknown
<1>7. ASSUME NEW c \in Client, PlaceShare(c)
      PROVE  /\ calls' \in Seq(Entry) /\ inserts' \subseteq Insert
             /\ unserved' \subseteq Topic \X Broker
  <2>1. UNCHANGED <<calls, inserts>>
    BY <1>7 DEF PlaceShare
  <2>2. Creates(c) /\ handler[c].next \in Broker
    BY <1>7, PlaceShareStep
  <2>3. handler[c].topic \in Topic
    BY <2>2, CreatingFields
  <2>4. unserved' = unserved \/ unserved' = unserved \cup {<<handler[c].topic, handler[c].next>>}
    BY <1>7, PlaceShareStep
  <2> QED
    BY <1>1, <2>1, <2>2, <2>3, <2>4
<1>8. ASSUME NEW c \in Client, NEW b \in Broker, SendBatch(c, b)
      PROVE  /\ calls' \in Seq(Entry) /\ inserts' \subseteq Insert
             /\ unserved' \subseteq Topic \X Broker
  <2>1. UNCHANGED calls
    BY <1>8 DEF SendBatch
  <2>2. Creates(c)
    BY <1>8, SendBatchStep
  <2>3. handler[c].topic \in Topic
    BY <2>2, CreatingFields
  <2>4. InsertFor(c, b) \in Insert
    BY <1>8, SendBatchStep
  <2>5. \/ inserts' = inserts \cup {InsertFor(c, b)} /\ unserved' = unserved
        \/ unserved' = unserved \cup {<<handler[c].topic, b>>} /\ inserts' = inserts
    BY <1>8, SendBatchStep
  <2> QED
    BY <1>1, <2>1, <2>3, <2>4, <2>5
<1>9. ASSUME NEW m \in inserts, InsertTopic(m)
      PROVE  /\ calls' \in Seq(Entry) /\ inserts' \subseteq Insert
             /\ unserved' \subseteq Topic \X Broker
  BY <1>1, <1>9 DEF InsertTopic
<1>10. ASSUME NEW b \in Broker, Register(b) \/ LoseBroker(b)
       PROVE  UNCHANGED <<calls, inserts, unserved>>
  BY <1>10 DEF Register, NameBroker, RefuseController, KeepSocket, LoseBroker
<1>11. ASSUME NEW c \in Client, RecordMapping(c) \/ ReadAnswer(c)
       PROVE  UNCHANGED <<calls, inserts, unserved>>
  BY <1>11 DEF RecordMapping, ReadAnswer
<1> QED
  BY ControllerSteps, <1>1, <1>5, <1>6, <1>7, <1>8, <1>9, <1>10, <1>11 DEF vars

LEMMA NextControllerTypes == ControllerTypes /\ [Next]_vars => ControllerTypes'
BY NextIdsInv, NextBrokersTyped, NextPartitionsTyped, NextArrangementsTyped,
   NextHandlersTyped, NextCallsTyped DEF ControllerTypes

LEMMA TypesHold == Spec => []ControllerTypes
BY InitControllerTypes, NextControllerTypes, PTL DEF Spec

(* The state is as it was declared, after any number of calls: partitions are
   mapped to brokers of the cluster, what is sent to a broker is a share that is
   not empty, and a group's partitions belong to consumers. *)
THEOREM ControllerTypeCorrect == Spec => []TypeOK
<1>1. ControllerTypes => TypeOK
  <2> SUFFICES ASSUME ControllerTypes
               PROVE  TypeOK
    OBVIOUS
  <2>1. \A c \in Client : handler[c].phase \in {"idle", "creating", "dead"}
    <3> SUFFICES ASSUME NEW c \in Client
                 PROVE  handler[c].phase \in {"idle", "creating", "dead"}
      OBVIOUS
    <3>1. handler[c] \in {Idle, Dead} \cup Creating
      BY DEF ControllerTypes, HandlersTyped
    <3> QED
      BY <3>1 DEF Idle, Dead, Creating
  <2>2. \A g \in DOMAIN groups :
          /\ groups[g].consumers \in Seq(Member)
          /\ DOMAIN groups[g].topics \subseteq Topic
          /\ \A t \in DOMAIN groups[g].topics : groups[g].topics[t] \in Seq(Assigned)
    BY DEF ControllerTypes, IdsInv, GroupsTyped, ConsumersOf, ArrangementsTyped, TopicsOf
  <2> QED
    BY <2>1, <2>2 DEF ControllerTypes, TypeOK, IdsInv, BrokersTyped, PartitionsTyped,
                      ArrangementsTyped, CallsTyped
<1> QED
  BY <1>1, TypesHold, PTL

----------------------------------------------------------------------------
(* What a group has of a topic. *)

(* A subscription changes one topic of one group. *)
LEMMA OtherTopicsKept ==
  ASSUME NEW c \in Client, NEW t \in Topic, NEW g \in Group, Subscribe(c, t, g),
         NEW h \in DOMAIN groups, NEW u \in DOMAIN TopicsOf(h), ~(h = g /\ u = t)
  PROVE  TopicsOf(h)'[u] = TopicsOf(h)[u]
<1>1. PICK all, d : groups' = With(groups, g,
        [consumers |-> all, topics |-> With(GroupOf(g).topics, t, d)])
  BY DEF Subscribe
<1>2. CASE h # g
  BY <1>1, <1>2 DEF With, TopicsOf
<1>3. CASE h = g /\ u # t
  <2>1. TopicsOf(h)' = With(GroupOf(g).topics, t, d)
    BY <1>1, <1>3 DEF With, TopicsOf
  <2>2. GroupOf(g).topics = TopicsOf(h)
    BY <1>3 DEF GroupOf, TopicsOf
  <2> QED
    BY <1>3, <2>1, <2>2 DEF With
<1> QED
  BY <1>2, <1>3

(* Nor does a subscription that fails change what groups have. *)
LEMMA FailedSubscriptionKeeps ==
  ASSUME NEW c \in Client, NEW t \in Topic, NEW g \in Group, SubscribeUnknown(c, t, g),
         NEW h \in DOMAIN groups
  PROVE  groups'[h] = groups[h]
BY DEF SubscribeUnknown, With, GroupOf

(* All other steps leave the groups alone. *)
LEMMA GroupsLeftAlone ==
  ASSUME [Next]_vars,
         \A c \in Client, t \in Topic, g \in Group :
           ~Subscribe(c, t, g) /\ ~SubscribeUnknown(c, t, g)
  PROVE  groups' = groups
<1>1. ASSUME NEW b \in Broker, Register(b) \/ LoseBroker(b)
      PROVE  groups' = groups
  BY <1>1 DEF Register, NameBroker, RefuseController, KeepSocket, LoseBroker, groupVars
<1>2. ASSUME NEW c \in Client, NEW t \in Topic, NEW n \in Counts, CreateTopic(c, t, n)
      PROVE  groups' = groups
  BY <1>2 DEF CreateTopic, groupVars
<1>3. ASSUME NEW c \in Client, PlaceShare(c) \/ RecordMapping(c) \/ ReadAnswer(c)
      PROVE  groups' = groups
  BY <1>3 DEF PlaceShare, RecordMapping, ReadAnswer, groupVars
<1>4. ASSUME NEW c \in Client, NEW b \in Broker, SendBatch(c, b)
      PROVE  groups' = groups
  BY <1>4 DEF SendBatch, groupVars
<1>5. ASSUME NEW m \in inserts, InsertTopic(m)
      PROVE  groups' = groups
  BY <1>5 DEF InsertTopic, groupVars
<1> QED
  BY ControllerSteps, <1>1, <1>2, <1>3, <1>4, <1>5 DEF vars, groupVars

(* A group that is dealt a topic again keeps the partitions it had of it. *)
LEMMA SubscribeServes ==
  ASSUME ControllerTypes, NEW c \in Client, NEW t \in Topic, NEW g \in Group, Subscribe(c, t, g),
         g \in DOMAIN groups, t \in DOMAIN TopicsOf(g)
  PROVE  Served(TopicsOf(g)'[t]) = Served(TopicsOf(g)[t])
<1>1. PICK k \in Member, a \in Seq(Assigned) : Joins(k, t, g, a) /\ a = TopicsOf(g)[t]
  BY SubscribeStep DEF ControllerTypes, Joins
<1> DEFINE all == Append(GroupOf(g).consumers, k)
           d == Dealt(a, all)
<1>2. all \in Seq(Member) /\ all # <<>>
  <2>1. GroupOf(g).consumers \in Seq(Member)
    BY GroupOfTyped DEF ControllerTypes, IdsInv
  <2> QED
    BY <2>1, AppendedSeq
<1> HIDE DEF all
<1>3. /\ DOMAIN d = DOMAIN a
      /\ \A i \in DOMAIN a : d[i].broker = a[i].broker /\ d[i].local = a[i].local
  BY <1>2, DealtTyped
<1> HIDE DEF d
<1>4. TopicsOf(g)'[t] = d
  <2>1. groups' = With(groups, g, [consumers |-> all, topics |-> With(GroupOf(g).topics, t, d)])
    BY <1>1 DEF all, d, Joins
  <2> QED
    BY <2>1 DEF With, TopicsOf
<1>5. Served(d) = Served(a)
  BY <1>3 DEF Served
<1> QED
  BY <1>1, <1>4, <1>5

(* A group keeps the partitions it had when it first subscribed to a topic, also
   when the topic is created again with others (controller.rs, lines 927-969). *)
THEOREM GroupsKeepTheirPartitions == Spec => GroupKeepsPartitions
<1>1. ControllerTypes /\ [Next]_vars =>
        \A g \in DOMAIN groups : \A t \in DOMAIN groups[g].topics :
          Served(groups'[g].topics[t]) = Served(groups[g].topics[t])
  <2> SUFFICES ASSUME ControllerTypes, [Next]_vars,
                      NEW h \in DOMAIN groups, NEW u \in DOMAIN groups[h].topics
               PROVE  Served(groups'[h].topics[u]) = Served(groups[h].topics[u])
    OBVIOUS
  <2>1. ASSUME NEW c \in Client, NEW t \in Topic, NEW g \in Group, Subscribe(c, t, g)
        PROVE  Served(groups'[h].topics[u]) = Served(groups[h].topics[u])
    <3>1. CASE h = g /\ u = t
      BY <2>1, <3>1, SubscribeServes DEF TopicsOf
    <3>2. CASE ~(h = g /\ u = t)
      BY <2>1, <3>2, OtherTopicsKept DEF TopicsOf
    <3> QED
      BY <3>1, <3>2
  <2>2. ASSUME NEW c \in Client, NEW t \in Topic, NEW g \in Group, SubscribeUnknown(c, t, g)
        PROVE  groups'[h] = groups[h]
    BY <2>2, FailedSubscriptionKeeps
  <2> QED
    BY <2>1, <2>2, GroupsLeftAlone
<1> QED
  BY <1>1, TypesHold, PTL DEF Spec, GroupKeepsPartitions

----------------------------------------------------------------------------
(* Groups are even. *)

(* The partitions belong to the consumers in turn. *)
InTurn(a, k) == \A i \in DOMAIN a : a[i].consumer = k[((i - 1) % Len(k)) + 1]

(* A group that has subscribed to nothing yet has no consumers; one that
   subscribed to one topic has its partitions dealt out in turn.  That holds also
   when there are more consumers than partitions and nothing is dealt out again:
   then every partition belongs to the consumer with its own number. *)
GroupsInTurn ==
  \A g \in DOMAIN groups :
    /\ DOMAIN TopicsOf(g) = {} => ConsumersOf(g) = <<>>
    /\ \A t \in DOMAIN TopicsOf(g) : DOMAIN TopicsOf(g) = {t} =>
         ConsumersOf(g) # <<>> /\ InTurn(TopicsOf(g)[t], ConsumersOf(g))

(* One more consumer joins, the partitions go round again, or stay. *)
LEMMA DealtGoesRound ==
  ASSUME NEW a \in Seq(Assigned), NEW k \in Seq(Member), NEW e \in Member,
         \/ k # <<>> /\ InTurn(a, k)
         \/ k = <<>> /\ \A i \in DOMAIN a : a[i].consumer = e
  PROVE  InTurn(Dealt(a, Append(k, e)), Append(k, e))
<1> DEFINE all == Append(k, e)
<1>1. /\ all \in Seq(Member) /\ all # <<>> /\ Len(all) = Len(k) + 1
      /\ \A i \in DOMAIN k : all[i] = k[i]
      /\ all[Len(k) + 1] = e
  BY AppendedSeq
<1>2. Len(a) \in Nat /\ Len(k) \in Nat /\ DOMAIN a = 1 .. Len(a) /\ DOMAIN k = 1 .. Len(k)
  OBVIOUS
<1> HIDE DEF all
<1>3. CASE Rebalances(all, Len(a))
  <2> SUFFICES ASSUME NEW i \in DOMAIN Dealt(a, all)
               PROVE  Dealt(a, all)[i].consumer = all[((i - 1) % Len(all)) + 1]
    BY DEF InTurn, all
  <2> DEFINE m == all[((i - 1) % Len(all)) + 1]
  <2>1. i \in DOMAIN a
    BY <1>1, DealtTyped
  <2>2. Dealt(a, all)[i] = [a[i] EXCEPT !.consumer = m]
    BY <1>3, <2>1 DEF Dealt
  <2>3. a[i] \in Assigned
    BY <2>1
  <2> HIDE DEF m
  <2>4. Dealt(a, all)[i].consumer = m
    BY <2>2, <2>3 DEF Assigned
  <2> QED
    BY <2>4 DEF m
<1>4. CASE ~Rebalances(all, Len(a))
  <2>1. Dealt(a, all) = a /\ Len(a) <= Len(k)
    BY <1>1, <1>2, <1>4 DEF Dealt, Rebalances
  <2>2. ASSUME NEW i \in DOMAIN a
        PROVE  a[i].consumer = all[((i - 1) % Len(all)) + 1]
    <3>1. i \in 1 .. Len(k)
      BY <1>2, <2>1
    <3>2. (i - 1) % Len(k) = i - 1 /\ (i - 1) % Len(all) = i - 1
      <4>1. PICK z : z = i - 1
        OBVIOUS
      <4>2. PICK m : m = Len(k)
        OBVIOUS
      <4>3. z \in Nat /\ m \in Nat /\ z < m
        BY <1>2, <3>1, <4>1, <4>2
      <4>4. z % m = z /\ z % (m + 1) = z
        BY <4>3
      <4> QED
        BY <1>1, <4>1, <4>2, <4>4
    <3>3. k # <<>>
      BY <1>2, <3>1
    <3>4. ((i - 1) % Len(k)) + 1 = i /\ ((i - 1) % Len(all)) + 1 = i
      BY <3>1, <3>2
    <3>5. a[i].consumer = k[((i - 1) % Len(k)) + 1]
      BY <3>3 DEF InTurn
    <3>6. all[i] = k[i]
      BY <1>1, <1>2, <3>1
    <3> QED
      BY <3>4, <3>5, <3>6
  <2> QED
    BY <2>1, <2>2 DEF InTurn, all
<1> QED
  BY <1>3, <1>4

(* Every step keeps the groups in turn. *)
LEMMA NextGroupsInTurn ==
  ASSUME ControllerTypes, GroupsInTurn, [Next]_vars
  PROVE  GroupsInTurn'
<1>1. ASSUME NEW c \in Client, NEW t \in Topic, NEW g \in Group, Subscribe(c, t, g)
      PROVE  GroupsInTurn'
  <2>1. PICK k \in Member, a \in Seq(Assigned) : Joins(k, t, g, a)
    BY <1>1, SubscribeStep DEF ControllerTypes
  <2> DEFINE old == GroupOf(g).consumers
             all == Append(old, k)
             d == Dealt(a, all)
  <2>2. old \in Seq(Member)
    BY GroupOfTyped DEF ControllerTypes, IdsInv
  <2>3. all # <<>>
    BY <2>2, AppendedSeq
  <2>4. groups' = With(groups, g, [consumers |-> all, topics |-> With(GroupOf(g).topics, t, d)])
    BY <2>1 DEF Joins
  <2>5. ASSUME DOMAIN With(GroupOf(g).topics, t, d) = {t}
        PROVE  InTurn(d, all)
    <3>1. DOMAIN GroupOf(g).topics \subseteq {t}
      BY <2>5 DEF With
    <3>2. CASE g \in DOMAIN groups /\ t \in DOMAIN TopicsOf(g)
      <4>1. GroupOf(g).topics = TopicsOf(g) /\ old = ConsumersOf(g)
        BY <3>2 DEF GroupOf, TopicsOf, ConsumersOf
      <4>2. DOMAIN TopicsOf(g) = {t}
        BY <3>1, <3>2, <4>1
      <4>3. old # <<>> /\ InTurn(a, old)
        BY <2>1, <3>2, <4>1, <4>2 DEF GroupsInTurn, Joins
      <4> HIDE DEF old
      <4> QED
        BY <2>2, <4>3, DealtGoesRound
    <3>3. CASE ~(g \in DOMAIN groups /\ t \in DOMAIN TopicsOf(g))
      <4>1. old = <<>>
        <5>1. CASE g \in DOMAIN groups
          <6>1. GroupOf(g).topics = TopicsOf(g) /\ old = ConsumersOf(g)
            BY <5>1 DEF GroupOf, TopicsOf, ConsumersOf
          <6>2. DOMAIN TopicsOf(g) = {}
            BY <3>1, <3>3, <5>1, <6>1
          <6> QED
            BY <5>1, <6>1, <6>2 DEF GroupsInTurn
        <5>2. CASE g \notin DOMAIN groups
          BY <5>2 DEF GroupOf, Group0
        <5> QED
          BY <5>1, <5>2
      <4>2. \A i \in DOMAIN a : a[i].consumer = k
        BY <2>1, <3>3 DEF Joins
      <4> HIDE DEF old
      <4> QED
        BY <2>2, <4>1, <4>2, DealtGoesRound
    <3> QED
      BY <3>2, <3>3
  <2> HIDE DEF d, all
  <2>6. ASSUME NEW h \in DOMAIN groups'
        PROVE  /\ DOMAIN TopicsOf(h)' = {} => ConsumersOf(h)' = <<>>
               /\ \A u \in DOMAIN TopicsOf(h)' : DOMAIN TopicsOf(h)' = {u} =>
                    ConsumersOf(h)' # <<>> /\ InTurn(TopicsOf(h)'[u], ConsumersOf(h)')
    <3>1. CASE h = g
      <4>1. TopicsOf(h)' = With(GroupOf(g).topics, t, d) /\ ConsumersOf(h)' = all
        BY <2>4, <3>1 DEF With, TopicsOf, ConsumersOf
      <4>2. t \in DOMAIN TopicsOf(h)' /\ TopicsOf(h)'[t] = d
        BY <4>1 DEF With
      <4> QED
        BY <2>3, <2>5, <4>1, <4>2
    <3>2. CASE h # g
      <4>1. h \in DOMAIN groups /\ groups'[h] = groups[h]
        BY <2>4, <3>2 DEF With
      <4>2. TopicsOf(h)' = TopicsOf(h) /\ ConsumersOf(h)' = ConsumersOf(h)
        BY <4>1 DEF TopicsOf, ConsumersOf
      <4> QED
        BY <4>1, <4>2 DEF GroupsInTurn
    <3> QED
      BY <3>1, <3>2
  <2> QED
    BY <2>6 DEF GroupsInTurn, InTurn
<1>2. ASSUME NEW c \in Client, NEW t \in Topic, NEW g \in Group, SubscribeUnknown(c, t, g)
      PROVE  GroupsInTurn'
  <2>1. groups' = With(groups, g, GroupOf(g))
    BY <1>2 DEF SubscribeUnknown
  <2>2. ASSUME NEW h \in DOMAIN groups'
        PROVE  \/ /\ h \in DOMAIN groups
                  /\ TopicsOf(h)' = TopicsOf(h) /\ ConsumersOf(h)' = ConsumersOf(h)
               \/ TopicsOf(h)' = Empty /\ ConsumersOf(h)' = <<>>
    BY <2>1 DEF With, GroupOf, Group0, TopicsOf, ConsumersOf
  <2>3. DOMAIN Empty = {}
    BY DEF Empty
  <2> QED
    BY <2>2, <2>3 DEF GroupsInTurn, InTurn
<1>3. CASE groups' = groups
  BY <1>3 DEF GroupsInTurn, InTurn, TopicsOf, ConsumersOf
<1> QED
  BY <1>1, <1>2, <1>3, GroupsLeftAlone

(* Of partitions that are dealt in turn to different consumers, none has two more
   than another. *)
LEMMA InTurnIsEven ==
  ASSUME NEW a \in Seq(Assigned), NEW k \in Seq(Member), InTurn(a, k),
         \A i, j \in DOMAIN k : k[i] = k[j] => i = j,
         NEW i \in DOMAIN k, NEW j \in DOMAIN k
  PROVE  PartsOf(a, k[i]) <= PartsOf(a, k[j]) + 1
<1> DEFINE m == Len(k)
           n == Len(a)
           P(x) == {p \in DOMAIN a : a[p].consumer = k[x]}
<1>1. /\ m \in Nat /\ n \in Nat /\ DOMAIN a = 1 .. n /\ DOMAIN k = 1 .. m
      /\ i \in 1 .. m /\ j \in 1 .. m
  OBVIOUS
<1>2. ASSUME NEW x \in 1 .. m
      PROVE  P(x) = {p \in 1 .. n : (p - 1) % m = x - 1}
  <2>1. ASSUME NEW p \in 1 .. n
        PROVE  a[p].consumer = k[x] <=> (p - 1) % m = x - 1
    <3>1. (p - 1) % m \in 0 .. m - 1
      BY <1>1
    <3>2. ((p - 1) % m) + 1 \in DOMAIN k /\ x \in DOMAIN k
      BY <1>1, <3>1
    <3>3. a[p].consumer = k[((p - 1) % m) + 1]
      BY <1>1 DEF InTurn
    <3>4. a[p].consumer = k[x] <=> ((p - 1) % m) + 1 = x
      BY <3>2, <3>3
    <3> QED
      BY <1>1, <3>1, <3>4
  <2> QED
    BY <1>1, <2>1
<1>3. P(i) = {p \in 1 .. n : (p - 1) % m = i - 1} /\ P(j) = {p \in 1 .. n : (p - 1) % m = j - 1}
  BY <1>1, <1>2
<1>4. PartsOf(a, k[i]) = Cardinality(P(i)) /\ PartsOf(a, k[j]) = Cardinality(P(j))
  BY DEF PartsOf
<1> HIDE DEF P, m, n
<1>5. P(i) = Round(n, m, i) /\ P(j) = Round(n, m, j)
  BY <1>3 DEF Round
<1>6. Cardinality(P(i)) <= Cardinality(P(j)) + 1
  BY <1>1, <1>5, RoundsAreEven
<1> QED
  BY <1>4, <1>6

(* A group that subscribed to one topic: no consumer has two partitions more than
   another, whatever number of consumers joined (controller.rs, lines 953-969). *)
THEOREM GroupsStayEven == Spec => []GroupsAreEven
<1>1. Init => GroupsInTurn
  BY DEF Init, Empty, GroupsInTurn
<1>2. Spec => []GroupsInTurn
  BY <1>1, TypesHold, NextGroupsInTurn, PTL DEF Spec
<1>3. ControllerTypes /\ GroupsInTurn => GroupsAreEven
  <2> SUFFICES ASSUME ControllerTypes, GroupsInTurn,
                      NEW g \in DOMAIN groups, NEW t \in DOMAIN groups[g].topics,
                      DOMAIN groups[g].topics = {t},
                      NEW i \in DOMAIN ConsumersOf(g), NEW j \in DOMAIN ConsumersOf(g)
               PROVE  PartsOf(TopicsOf(g)[t], ConsumersOf(g)[i])
                        <= PartsOf(TopicsOf(g)[t], ConsumersOf(g)[j]) + 1
    BY DEF GroupsAreEven, TopicsOf, ConsumersOf
  <2>1. TopicsOf(g)[t] \in Seq(Assigned)
    BY DEF ControllerTypes, ArrangementsTyped, TopicsOf
  <2>2. ConsumersOf(g) \in Seq(Member)
    BY DEF ControllerTypes, IdsInv, GroupsTyped
  <2>3. InTurn(TopicsOf(g)[t], ConsumersOf(g))
    BY DEF GroupsInTurn, TopicsOf
  <2>4. \A x, y \in DOMAIN ConsumersOf(g) : ConsumersOf(g)[x] = ConsumersOf(g)[y] => x = y
    BY DEF ControllerTypes, IdsInv, NoIdTwice
  <2> QED
    BY <2>1, <2>2, <2>3, <2>4, InTurnIsEven
<1> QED
  BY <1>2, <1>3, TypesHold, PTL

----------------------------------------------------------------------------
(* The shares of a topic. *)

(* A handler that creates a topic after a step was as it is, or has done a step of
   create_topic itself. *)
LEMMA HandlerSteps ==
  ASSUME ControllerTypes, [Next]_vars, NEW d \in Client, Creates(d)'
  PROVE  \/ handler'[d] = handler[d]
         \/ \E t \in Topic, n \in Counts : CreateTopic(d, t, n)
         \/ PlaceShare(d)
         \/ \E b \in Broker : SendBatch(d, b)
<1>1. HandlersTyped /\ CallsTyped /\ d \in DOMAIN handler
  BY DEF ControllerTypes, HandlersTyped
<1>2. ASSUME NEW b \in Broker, Register(b) \/ LoseBroker(b)
      PROVE  handler'[d] = handler[d]
  BY <1>2 DEF Register, NameBroker, RefuseController, KeepSocket, LoseBroker
<1>3. ASSUME NEW c \in Client, NEW t \in Topic, NEW n \in Counts, CreateTopic(c, t, n), c # d
      PROVE  handler'[d] = handler[d]
  <2>1. handler' = [handler EXCEPT ![c] = handler'[c]]
    BY <1>1, <1>3, CreateTopicStep
  <2> QED
    BY <1>1, <1>3, <2>1
<1>4. ASSUME NEW c \in Client, NEW t \in Topic, NEW g \in Group, Subscribe(c, t, g)
      PROVE  handler'[d] = handler[d]
  BY <1>4 DEF Subscribe
<1>5. ASSUME NEW c \in Client, handler' = [handler EXCEPT ![c] = Dead]
      PROVE  handler'[d] = handler[d]
  BY <1>1, <1>5 DEF Creates, Dead
<1>6. ASSUME NEW c \in Client, NEW t \in Topic, NEW g \in Group, SubscribeUnknown(c, t, g)
      PROVE  handler'[d] = handler[d]
  BY <1>5, <1>6 DEF SubscribeUnknown, Dead
<1>7. ASSUME NEW c \in Client, PlaceShare(c), c # d
      PROVE  handler'[d] = handler[d]
  BY <1>1, <1>7, PlaceShareStep
<1>8. ASSUME NEW c \in Client, NEW b \in Broker, SendBatch(c, b), c # d
      PROVE  handler'[d] = handler[d]
  BY <1>1, <1>8, SendBatchStep
<1>9. ASSUME NEW c \in Client, RecordMapping(c)
      PROVE  handler'[d] = handler[d]
  BY <1>1, <1>9 DEF RecordMapping, Creates, Idle
<1>10. ASSUME NEW c \in Client, ReadAnswer(c)
       PROVE  handler'[d] = handler[d]
  BY <1>10 DEF ReadAnswer
<1>11. ASSUME NEW m \in inserts, InsertTopic(m)
       PROVE  handler'[d] = handler[d]
  BY <1>11 DEF InsertTopic
<1> QED
  BY ControllerSteps, <1>2, <1>3, <1>4, <1>6, <1>7, <1>8, <1>9, <1>10, <1>11 DEF vars

(* A broker that was found is found from then on, also when it is lost. *)
LEMMA FoundStays ==
  ASSUME ControllerTypes, [Next]_vars, NEW b \in Broker, Found(b)
  PROVE  Found(b)'
<1>1. registration \in [Broker -> {"none", "named", "connected", "refused"}]
  BY DEF ControllerTypes, BrokersTyped
<1>2. ASSUME NEW a \in Broker, Register(a) \/ LoseBroker(a)
      PROVE  Found(b)'
  BY <1>1, <1>2 DEF Found, Register, NameBroker, RefuseController, KeepSocket, LoseBroker
<1>3. ASSUME registration' = registration
      PROVE  Found(b)'
  BY <1>3 DEF Found
<1>4. ASSUME NEW c \in Client, NEW t \in Topic, NEW n \in Counts, CreateTopic(c, t, n)
      PROVE  registration' = registration
  BY <1>4 DEF CreateTopic, brokerVars
<1>5. ASSUME NEW c \in Client, NEW t \in Topic, NEW g \in Group,
             Subscribe(c, t, g) \/ SubscribeUnknown(c, t, g)
      PROVE  registration' = registration
  BY <1>5 DEF Subscribe, SubscribeUnknown, brokerVars
<1>6. ASSUME NEW c \in Client, PlaceShare(c) \/ RecordMapping(c) \/ ReadAnswer(c)
      PROVE  registration' = registration
  BY <1>6 DEF PlaceShare, RecordMapping, ReadAnswer, brokerVars
<1>7. ASSUME NEW c \in Client, NEW a \in Broker, SendBatch(c, a)
      PROVE  registration' = registration
  BY <1>7 DEF SendBatch, brokerVars
<1>8. ASSUME NEW m \in inserts, InsertTopic(m)
      PROVE  registration' = registration
  BY <1>8 DEF InsertTopic, brokerVars
<1> QED
  BY ControllerSteps, <1>2, <1>3, <1>4, <1>5, <1>6, <1>7, <1>8 DEF vars, brokerVars

(* What the first j brokers get of n things that are divided among all. *)
Given(n, j) ==
  j * (n \div BrokerNo) + (IF j < n % BrokerNo THEN j ELSE n % BrokerNo)

(* It grows by a broker's share, and all brokers get all there is. *)
LEMMA SharesAddUp ==
  ASSUME NEW n \in Nat
  PROVE  /\ Given(n, 0) = 0
         /\ \A j \in Broker : Given(n, j + 1) = Given(n, j) + Share(n, BrokerNo, j)
         /\ Given(n, BrokerNo) = n
<1> DEFINE q == n \div BrokerNo
           r == n % BrokerNo
<1>1. q \in Nat /\ r \in 0 .. BrokerNo - 1 /\ n = BrokerNo * q + r /\ BrokerNo \in Nat \ {0}
  BY ControllerAssumption
<1>2. /\ \A j : Given(n, j) = j * q + (IF j < r THEN j ELSE r)
      /\ \A j : Share(n, BrokerNo, j) = q + (IF j < r THEN 1 ELSE 0)
  BY DEF Given, Share
<1> HIDE DEF q, r
<1>3. Given(n, 0) = 0
  <2>1. 0 * q = 0
    BY <1>1
  <2> QED
    BY <1>1, <1>2, <2>1
<1>4. ASSUME NEW j \in Broker
      PROVE  Given(n, j + 1) = Given(n, j) + Share(n, BrokerNo, j)
  <2>1. PICK s \in Nat : s = j * q
    BY <1>1 DEF Broker
  <2>2. (j + 1) * q = s + q
    BY <1>1, <2>1 DEF Broker
  <2>3. (IF j + 1 < r THEN j + 1 ELSE r) = (IF j < r THEN j ELSE r) + (IF j < r THEN 1 ELSE 0)
    BY <1>1 DEF Broker
  <2>4. Given(n, j) = s + (IF j < r THEN j ELSE r)
    BY <1>2, <2>1
  <2>5. Given(n, j + 1) = (s + q) + (IF j + 1 < r THEN j + 1 ELSE r)
    BY <1>2, <2>2
  <2>6. j \in Nat
    BY DEF Broker
  <2> QED
    BY <1>1, <1>2, <2>3, <2>4, <2>5, <2>6
<1>5. Given(n, BrokerNo) = n
  BY <1>1, <1>2
<1> QED
  BY <1>3, <1>4, <1>5

(* The places of a mapping that name a broker, when another share is added. *)
LEMMA MappedAfter ==
  ASSUME NEW s \in Seq(Mapped), NEW n \in Nat, NEW b \in Broker, MappedOn(s, b) = {}
  PROVE  /\ Cardinality(MappedOn(WithShare(s, n, b), b)) = n
         /\ \A a \in Broker \ {b} : MappedOn(WithShare(s, n, b), a) = MappedOn(s, a)
<1> DEFINE more == WithShare(s, n, b)
<1>1. /\ DOMAIN more = 1 .. Len(s) + n
      /\ \A i \in DOMAIN s : more[i] = s[i]
      /\ \A i \in (Len(s) + 1) .. (Len(s) + n) :
           more[i] = [broker |-> b, local |-> i - Len(s) - 1]
  BY SegmentAdded
<1>2. DOMAIN s = 1 .. Len(s) /\ Len(s) \in Nat
  OBVIOUS
<1> HIDE DEF more
<1>3. ASSUME NEW i \in (Len(s) + 1) .. (Len(s) + n)
      PROVE  more[i].broker = b
  <2>1. PICK l : l = i - Len(s) - 1
    OBVIOUS
  <2>2. more[i] = [broker |-> b, local |-> l]
    BY <1>1, <2>1
  <2> QED
    BY <2>2
<1>4. ASSUME NEW i \in DOMAIN more
      PROVE  \/ i \in DOMAIN s /\ more[i].broker = s[i].broker
             \/ i \in (Len(s) + 1) .. (Len(s) + n) /\ more[i].broker = b
  <2>1. i \in 1 .. Len(s) \/ i \in (Len(s) + 1) .. (Len(s) + n)
    BY <1>1, <1>2
  <2> QED
    BY <1>1, <1>2, <1>3, <2>1
<1>5. DOMAIN s \subseteq DOMAIN more /\ (Len(s) + 1) .. (Len(s) + n) \subseteq DOMAIN more
  BY <1>1, <1>2
<1>6. \A i \in (Len(s) + 1) .. (Len(s) + n) : i \notin DOMAIN s /\ more[i].broker = b
  <2>1. \A i \in (Len(s) + 1) .. (Len(s) + n) : i \notin 1 .. Len(s)
    BY <1>2
  <2> QED
    BY <1>2, <1>3, <2>1
<1>7. MappedOn(more, b) = (Len(s) + 1) .. (Len(s) + n)
  BY <1>4, <1>5, <1>6 DEF MappedOn
<1>8. Cardinality((Len(s) + 1) .. (Len(s) + n)) = n
  <2>1. PICK l \in Int, u \in Int : l = Len(s) + 1 /\ u = Len(s) + n
    BY <1>2
  <2>2. Cardinality(l .. u) = IF l > u THEN 0 ELSE u - l + 1
    BY FS_Interval
  <2> QED
    BY <1>2, <2>1, <2>2
<1>9. ASSUME NEW a \in Broker \ {b}
      PROVE  MappedOn(more, a) = MappedOn(s, a)
  BY <1>1, <1>4, <1>5 DEF MappedOn
<1> QED
  BY <1>7, <1>8, <1>9 DEF more

(* What a handler has mapped so far: of each broker it looked up the whole share
   or nothing, the whole share of those that were there when the call began, and
   nothing yet of the others. *)
SharesOf(h) ==
  /\ \A b \in Broker : h.next <= b => MappedOn(h.mapping, b) = {}
  /\ \A b \in Broker : b < h.next =>
       Cardinality(MappedOn(h.mapping, b)) \in {0, Share(h.count, BrokerNo, b)}
  /\ \A b \in h.known : b < h.next =>
       Cardinality(MappedOn(h.mapping, b)) = Share(h.count, BrokerNo, b)
  /\ h.known = Broker => Len(h.mapping) = Given(h.count, h.next)

SharesSoFar ==
  \A c \in Client : Creates(c) => SharesOf(handler[c]) /\ \A b \in handler[c].known : Found(b)

(* The next broker's share is added, or there is nothing to add. *)
LEMMA PlaceShareWhole ==
  ASSUME ControllerTypes, NEW c \in Client, PlaceShare(c), SharesOf(handler[c]),
         \A b \in handler[c].known : Found(b)
  PROVE  SharesOf(handler'[c])
<1>1. HandlersTyped
  BY DEF ControllerTypes
<1> DEFINE h == handler[c]
           l == h.next
<1>2. PICK g : g = handler'[c]
  OBVIOUS
<1>3. /\ Creates(c) /\ l \in Broker
      /\ g.count = h.count /\ g.known = h.known /\ g.next = l + 1
      /\ \/ /\ LocalCount(c) > 0 /\ Found(l)
            /\ g.mapping = WithShare(h.mapping, LocalCount(c), l)
         \/ /\ ~(LocalCount(c) > 0 /\ Found(l))
            /\ g.mapping = h.mapping
  BY <1>1, <1>2, PlaceShareStep
<1>4. h.mapping \in Seq(Mapped) /\ h.count \in Nat /\ h.known \subseteq Broker
  BY <1>1, <1>3, CreatingFields
<1>5. LocalCount(c) \in Nat /\ LocalCount(c) = Share(h.count, BrokerNo, l)
  BY <1>3, <1>4, ShareTyped DEF LocalCount
<1>6. MappedOn(h.mapping, l) = {} /\ l \in Nat
  BY <1>3 DEF SharesOf, Broker
<1>7. Given(h.count, l + 1) = Given(h.count, l) + LocalCount(c)
  BY <1>3, <1>4, <1>5, SharesAddUp
<1>8. Cardinality({}) = 0
  BY FS_EmptySet
<1>9. ASSUME NEW b \in Broker, b # l
      PROVE  MappedOn(g.mapping, b) = MappedOn(h.mapping, b)
  BY <1>3, <1>4, <1>5, <1>6, <1>9, MappedAfter
<1>10. CASE LocalCount(c) > 0 /\ Found(l)
  <2>1. Cardinality(MappedOn(g.mapping, l)) = LocalCount(c)
    BY <1>3, <1>4, <1>5, <1>6, <1>10, MappedAfter
  <2>2. Len(g.mapping) = Len(h.mapping) + LocalCount(c)
    <3>1. g.mapping = WithShare(h.mapping, LocalCount(c), l)
      BY <1>3, <1>10
    <3>2. Len(WithShare(h.mapping, LocalCount(c), l)) = Len(h.mapping) + LocalCount(c)
      BY <1>3, <1>4, <1>5, SegmentAdded
    <3> QED
      BY <3>1, <3>2
  <2>3. \A b \in Broker : b < l + 1 => b < l \/ b = l
    BY <1>6 DEF Broker
  <2>4. \A b \in Broker : l + 1 <= b => l <= b /\ b # l
    BY <1>6 DEF Broker
  <2>5. \A b \in Broker : g.next <= b => MappedOn(g.mapping, b) = {}
    BY <1>3, <1>9, <2>4 DEF SharesOf
  <2>6. \A b \in Broker : b < g.next =>
          Cardinality(MappedOn(g.mapping, b)) \in {0, Share(g.count, BrokerNo, b)}
    BY <1>3, <1>5, <1>9, <2>1, <2>3 DEF SharesOf
  <2>7. \A b \in g.known : b < g.next =>
          Cardinality(MappedOn(g.mapping, b)) = Share(g.count, BrokerNo, b)
    BY <1>3, <1>4, <1>5, <1>9, <2>1, <2>3 DEF SharesOf
  <2>8. g.known = Broker => Len(g.mapping) = Given(g.count, g.next)
    BY <1>3, <1>7, <2>2 DEF SharesOf
  <2> QED
    BY <1>2, <2>5, <2>6, <2>7, <2>8 DEF SharesOf
<1>11. CASE ~(LocalCount(c) > 0 /\ Found(l))
  <2>1. Cardinality(MappedOn(g.mapping, l)) = 0
    BY <1>3, <1>6, <1>8, <1>11
  <2>2. l \in h.known => LocalCount(c) = 0
    BY <1>5, <1>11
  <2>3. \A b \in Broker : b < l + 1 => b < l \/ b = l
    BY <1>6 DEF Broker
  <2>4. \A b \in Broker : l + 1 <= b => l <= b /\ b # l
    BY <1>6 DEF Broker
  <2>5. \A b \in Broker : g.next <= b => MappedOn(g.mapping, b) = {}
    BY <1>3, <1>9, <2>4 DEF SharesOf
  <2>6. \A b \in Broker : b < g.next =>
          Cardinality(MappedOn(g.mapping, b)) \in {0, Share(g.count, BrokerNo, b)}
    BY <1>3, <1>9, <2>1, <2>3 DEF SharesOf
  <2>7. \A b \in g.known : b < g.next =>
          Cardinality(MappedOn(g.mapping, b)) = Share(g.count, BrokerNo, b)
    BY <1>3, <1>4, <1>5, <1>9, <2>1, <2>2, <2>3 DEF SharesOf
  <2>8. g.known = Broker => Len(g.mapping) = Given(g.count, g.next)
    <3> SUFFICES ASSUME g.known = Broker
                 PROVE  Len(g.mapping) = Given(g.count, g.next)
      OBVIOUS
    <3>1. LocalCount(c) = 0
      BY <1>3, <2>2
    <3>2. g.mapping = h.mapping /\ Len(h.mapping) = Given(h.count, l) /\ Len(h.mapping) \in Nat
      BY <1>3, <1>4, <1>11 DEF SharesOf
    <3> QED
      BY <1>3, <1>7, <3>1, <3>2
  <2> QED
    BY <1>2, <2>5, <2>6, <2>7, <2>8 DEF SharesOf
<1> QED
  BY <1>10, <1>11

(* Every step keeps the shares whole. *)
LEMMA NextSharesSoFar ==
  ASSUME ControllerTypes, SharesSoFar, [Next]_vars
  PROVE  SharesSoFar'
<1> SUFFICES ASSUME NEW c \in Client, Creates(c)'
             PROVE  SharesOf(handler'[c]) /\ \A b \in handler'[c].known : Found(b)'
  BY DEF SharesSoFar, SharesOf, MappedOn, Share, Given, Broker
<1>1. HandlersTyped /\ CallsTyped
  BY DEF ControllerTypes
<1>2. CASE handler'[c] = handler[c]
  <2>1. Creates(c) /\ SharesOf(handler[c]) /\ \A b \in handler[c].known : Found(b)
    BY <1>2 DEF Creates, SharesSoFar
  <2>2. handler[c].known \subseteq Broker
    BY <1>1, <2>1, CreatingFields
  <2> QED
    BY <1>2, <2>1, <2>2, FoundStays
<1>3. ASSUME NEW t \in Topic, NEW n \in Counts, CreateTopic(c, t, n)
      PROVE  SharesOf(handler'[c]) /\ \A b \in handler'[c].known : Found(b)'
  <2>1. PICK g : g = handler'[c]
    OBVIOUS
  <2>2. g.next = 0 /\ g.mapping = <<>> /\ g.known = {b \in Broker : Found(b)} /\ g.count = n
    BY <1>1, <1>3, <2>1, CreateTopicStep
  <2>3. \A b \in Broker : MappedOn(g.mapping, b) = {} /\ ~(b < g.next)
    BY <2>2 DEF MappedOn, Broker
  <2>4. Len(g.mapping) = Given(g.count, g.next)
    <3>1. n \in Nat
      BY ControllerAssumption
    <3> QED
      BY <2>2, <3>1, SharesAddUp
  <2>5. SharesOf(g)
    BY <2>2, <2>3, <2>4 DEF SharesOf
  <2> QED
    BY <2>1, <2>2, <2>5, FoundStays
<1>4. CASE PlaceShare(c)
  <2>1. Creates(c) /\ handler'[c].known = handler[c].known
    BY <1>1, <1>4, PlaceShareStep
  <2>2. SharesOf(handler[c]) /\ \A b \in handler[c].known : Found(b)
    BY <2>1 DEF SharesSoFar
  <2>3. handler[c].known \subseteq Broker
    BY <1>1, <2>1, CreatingFields
  <2> QED
    BY <1>4, <2>1, <2>2, <2>3, FoundStays, PlaceShareWhole
<1>5. ASSUME NEW a \in Broker, SendBatch(c, a)
      PROVE  SharesOf(handler'[c]) /\ \A b \in handler'[c].known : Found(b)'
  <2>1. PICK g : g = handler'[c]
    OBVIOUS
  <2>2. /\ Creates(c) /\ g.known = handler[c].known /\ g.count = handler[c].count
        /\ g.next = handler[c].next /\ g.mapping = handler[c].mapping
    BY <1>1, <1>5, <2>1, SendBatchStep
  <2>3. SharesOf(handler[c]) /\ \A b \in handler[c].known : Found(b)
    BY <2>2 DEF SharesSoFar
  <2>4. handler[c].known \subseteq Broker
    BY <1>1, <2>2, CreatingFields
  <2>5. SharesOf(g)
    BY <2>2, <2>3 DEF SharesOf
  <2> QED
    BY <2>1, <2>2, <2>3, <2>4, <2>5, FoundStays
<1> QED
  BY <1>2, <1>3, <1>4, <1>5, HandlerSteps

(* When create_topic has looked all brokers up, each has its whole share of the
   mapping or nothing of it, whichever brokers register meanwhile; those that were
   there when the call began have theirs, and if all were there the mapping has
   the partitions asked for (controller.rs, lines 494-581). *)
THEOREM SharesStayWhole == Spec => []SharesAreWhole
<1>1. Init => SharesSoFar
  BY DEF Init, SharesSoFar, Creates, Idle
<1>2. Spec => []SharesSoFar
  BY <1>1, TypesHold, NextSharesSoFar, PTL DEF Spec
<1>3. ControllerTypes /\ SharesSoFar => SharesAreWhole
  <2> SUFFICES ASSUME ControllerTypes, SharesSoFar, NEW c \in Client, LookedUp(c)
               PROVE  /\ \A b \in Broker :
                           Cardinality(MappedOn(handler[c].mapping, b)) \in {0, Whole(c, b)}
                      /\ \A b \in handler[c].known :
                           Cardinality(MappedOn(handler[c].mapping, b)) = Whole(c, b)
                      /\ handler[c].known = Broker => Len(handler[c].mapping) = handler[c].count
    BY DEF SharesAreWhole
  <2>1. Creates(c) /\ handler[c].next = BrokerNo
    BY DEF LookedUp, Creates
  <2>2. SharesOf(handler[c])
    BY <2>1 DEF SharesSoFar
  <2>3. handler[c].known \subseteq Broker /\ handler[c].count \in Nat
    BY <2>1, CreatingFields DEF ControllerTypes
  <2>4. \A b \in Broker : b < handler[c].next
    BY <2>1, ControllerAssumption DEF Broker
  <2>5. Given(handler[c].count, BrokerNo) = handler[c].count
    BY <2>3, SharesAddUp
  <2> QED
    BY <2>1, <2>2, <2>3, <2>4, <2>5 DEF SharesOf, Whole
<1> QED
  BY <1>2, <1>3, TypesHold, PTL

----------------------------------------------------------------------------
(* What is mapped is made. *)

IsCreate(i, t) == i \in DOMAIN calls /\ calls[i] = [op |-> "create_topic", topic |-> t]

NotTwice(t) == \A i, j \in DOMAIN calls : IsCreate(i, t) /\ IsCreate(j, t) => i = j

(* Handlers, topic_inserts and mappings come from calls, and no two handlers from
   one call. *)
FromCalls ==
  /\ \A c \in Client : Creates(c) => IsCreate(handler[c].call + 1, handler[c].topic)
  /\ \A c, d \in Client : Creates(c) /\ Creates(d) /\ handler[c].call = handler[d].call => c = d
  /\ \A m \in inserts : IsCreate(m.call + 1, m.topic)
  /\ \A t \in DOMAIN partitions : \E i \in DOMAIN calls : IsCreate(i, t)

Entries(s) == {s[i] : i \in DOMAIN s}

(* A partition p that is mapped: its broker has it, or will have it, or was not
   sent its share; and no topic_insert underway takes it away again. *)
Made(t, p) ==
  \/ p.local < created[p.broker][t]
  \/ \E m \in Underway(t, p.broker) : p.local < m.count
  \/ <<t, p.broker>> \in unserved

Fits(t, p) == \A m \in Underway(t, p.broker) : p.local < m.count

(* While a topic that is created once is looked up and sent, and when its mapping
   is kept. *)
MadeWhileCreated ==
  \A t \in Topic : \A c \in Client : NotTwice(t) /\ Creates(c) /\ handler[c].topic = t =>
    /\ t \notin DOMAIN partitions
    /\ \A m \in inserts : m.topic = t => m.count = Share(handler[c].count, BrokerNo, m.broker)
    /\ \A p \in Entries(handler[c].mapping) :
         /\ p.local < Share(handler[c].count, BrokerNo, p.broker)
         /\ p.broker \in handler[c].unsent \/ Made(t, p)

MadeWhenKept ==
  \A t \in DOMAIN partitions : NotTwice(t) =>
    \A p \in Entries(partitions[t]) : Made(t, p) /\ Fits(t, p)

(* The history of calls only grows. *)
LEMMA CallsGrow ==
  ASSUME ControllerTypes, [Next]_vars
  PROVE  \/ calls' = calls
         \/ \E e \in [op : {"create_topic", "subscribe"}, topic : Topic] : calls' = Append(calls, e)
<1> DEFINE Entry == [op : {"create_topic", "subscribe"}, topic : Topic]
<1>1. ASSUME NEW b \in Broker, Register(b) \/ LoseBroker(b)
      PROVE  calls' = calls
  BY <1>1 DEF Register, NameBroker, RefuseController, KeepSocket, LoseBroker
<1>2. ASSUME NEW t \in Topic
      PROVE  /\ [op |-> "create_topic", topic |-> t] \in Entry
             /\ [op |-> "subscribe", topic |-> t] \in Entry
  OBVIOUS
<1> HIDE DEF Entry
<1>3. ASSUME NEW c \in Client, NEW t \in Topic, NEW n \in Counts, CreateTopic(c, t, n)
      PROVE  \E e \in Entry : calls' = Append(calls, e)
  BY <1>2, <1>3 DEF CreateTopic
<1>4. ASSUME NEW c \in Client, NEW t \in Topic, NEW g \in Group,
             Subscribe(c, t, g) \/ SubscribeUnknown(c, t, g)
      PROVE  \E e \in Entry : calls' = Append(calls, e)
  BY <1>2, <1>4 DEF Subscribe, SubscribeUnknown
<1>5. ASSUME NEW c \in Client, PlaceShare(c) \/ RecordMapping(c) \/ ReadAnswer(c)
      PROVE  calls' = calls
  BY <1>5 DEF PlaceShare, RecordMapping, ReadAnswer
<1>6. ASSUME NEW c \in Client, NEW b \in Broker, SendBatch(c, b)
      PROVE  calls' = calls
  BY <1>6 DEF SendBatch
<1>7. ASSUME NEW m \in inserts, InsertTopic(m)
      PROVE  calls' = calls
  BY <1>7 DEF InsertTopic
<1>8. calls' = calls \/ \E e \in Entry : calls' = Append(calls, e)
  BY ControllerSteps, <1>1, <1>3, <1>4, <1>5, <1>6, <1>7 DEF vars
<1> QED
  BY <1>8 DEF Entry

(* So a call stays where it is, and a topic that was created once until now was
   created no more often before. *)
LEMMA CallsStay ==
  ASSUME ControllerTypes, [Next]_vars
  PROVE  /\ DOMAIN calls \subseteq DOMAIN calls'
         /\ \A i, t : IsCreate(i, t) => IsCreate(i, t)'
         /\ \A t : NotTwice(t)' => NotTwice(t)
<1> DEFINE Entry == [op : {"create_topic", "subscribe"}, topic : Topic]
<1>1. calls \in Seq(Entry)
  BY DEF ControllerTypes, CallsTyped
<1>2. calls' = calls \/ \E e \in Entry : calls' = Append(calls, e)
  BY CallsGrow
<1> HIDE DEF Entry
<1>3. DOMAIN calls \subseteq DOMAIN calls' /\ \A i \in DOMAIN calls : calls'[i] = calls[i]
  BY <1>1, <1>2, AppendedSeq
<1>4. ASSUME NEW i, NEW t, IsCreate(i, t)
      PROVE  IsCreate(i, t)'
  BY <1>3, <1>4 DEF IsCreate
<1>5. ASSUME NEW t, NotTwice(t)'
      PROVE  NotTwice(t)
  BY <1>3, <1>4, <1>5 DEF NotTwice
<1> QED
  BY <1>3, <1>4, <1>5

(* A new call has a place of its own. *)
LEMMA NewCall ==
  ASSUME ControllerTypes, [Next]_vars, NEW c \in Client, NEW t \in Topic, NEW n \in Counts,
         CreateTopic(c, t, n)
  PROVE  /\ \E k \in Nat \ DOMAIN calls : k = Len(calls) + 1 /\ IsCreate(k, t)'
         /\ \A i \in DOMAIN calls : IsCreate(i, t) => ~NotTwice(t)'
<1> DEFINE Entry == [op : {"create_topic", "subscribe"}, topic : Topic]
           e == [op |-> "create_topic", topic |-> t]
<1>1. calls \in Seq(Entry) /\ e \in Entry /\ calls' = Append(calls, e)
  BY DEF ControllerTypes, CallsTyped, CreateTopic
<1> HIDE DEF Entry
<1>2. PICK k : k = Len(calls) + 1
  OBVIOUS
<1>3. k \in DOMAIN calls' /\ calls'[k] = e /\ k \in Nat \ DOMAIN calls
  <2> HIDE DEF e
  <2>1. DOMAIN calls = 1 .. Len(calls) /\ Len(calls) \in Nat
    BY <1>1
  <2> QED
    BY <1>1, <1>2, <2>1, AppendedSeq
<1>4. IsCreate(k, t)'
  BY <1>3 DEF IsCreate
<1>5. ASSUME NEW i \in DOMAIN calls, IsCreate(i, t)
      PROVE  ~NotTwice(t)'
  <2>1. IsCreate(i, t)' /\ i \in DOMAIN calls'
    BY <1>5, CallsStay
  <2>2. i # k
    BY <1>3
  <2> QED
    BY <1>3, <1>4, <2>1, <2>2 DEF NotTwice
<1> QED
  BY <1>2, <1>3, <1>4, <1>5

(* A handler stays with its call, its topic and its count. *)
LEMMA HandlerCalls ==
  ASSUME ControllerTypes, [Next]_vars, NEW d \in Client, Creates(d)'
  PROVE  \/ /\ Creates(d) /\ handler'[d].call = handler[d].call
            /\ handler'[d].topic = handler[d].topic /\ handler'[d].count = handler[d].count
         \/ \E t \in Topic, n \in Counts : CreateTopic(d, t, n)
<1>1. HandlersTyped
  BY DEF ControllerTypes
<1>2. CASE handler'[d] = handler[d]
  BY <1>2 DEF Creates
<1>3. CASE PlaceShare(d)
  BY <1>1, <1>3, PlaceShareStep
<1>4. ASSUME NEW b \in Broker, SendBatch(d, b)
      PROVE  /\ Creates(d) /\ handler'[d].call = handler[d].call
             /\ handler'[d].topic = handler[d].topic /\ handler'[d].count = handler[d].count
  BY <1>1, <1>4, SendBatchStep
<1> QED
  BY <1>2, <1>3, <1>4, HandlerSteps

(* Where a topic_insert and a kept mapping come from. *)
LEMMA InsertsFrom ==
  ASSUME [Next]_vars, NEW m \in inserts', m \notin inserts
  PROVE  \E c \in Client, b \in Broker : SendBatch(c, b) /\ m = InsertFor(c, b)
<1>1. ASSUME NEW b \in Broker, Register(b) \/ LoseBroker(b)
      PROVE  inserts' = inserts
  BY <1>1 DEF Register, NameBroker, RefuseController, KeepSocket, LoseBroker
<1>2. ASSUME NEW c \in Client, NEW t \in Topic, NEW n \in Counts, CreateTopic(c, t, n)
      PROVE  inserts' = inserts
  BY <1>2 DEF CreateTopic
<1>3. ASSUME NEW c \in Client, NEW t \in Topic, NEW g \in Group,
             Subscribe(c, t, g) \/ SubscribeUnknown(c, t, g)
      PROVE  inserts' = inserts
  BY <1>3 DEF Subscribe, SubscribeUnknown
<1>4. ASSUME NEW c \in Client, PlaceShare(c) \/ RecordMapping(c) \/ ReadAnswer(c)
      PROVE  inserts' = inserts
  BY <1>4 DEF PlaceShare, RecordMapping, ReadAnswer
<1>5. ASSUME NEW c \in Client, NEW b \in Broker, SendBatch(c, b)
      PROVE  m = InsertFor(c, b)
  BY <1>5 DEF SendBatch
<1>6. ASSUME NEW n \in inserts, InsertTopic(n)
      PROVE  inserts' \subseteq inserts
  BY <1>6 DEF InsertTopic
<1> QED
  BY ControllerSteps, <1>1, <1>2, <1>3, <1>4, <1>5, <1>6 DEF vars

LEMMA MappingsFrom ==
  ASSUME [Next]_vars, NEW t \in DOMAIN partitions'
  PROVE  \/ t \in DOMAIN partitions /\ partitions'[t] = partitions[t]
         \/ \E c \in Client :
              /\ RecordMapping(c) /\ handler[c].topic = t
              /\ partitions'[t] = handler[c].mapping
<1>1. ASSUME NEW b \in Broker, Register(b) \/ LoseBroker(b)
      PROVE  partitions' = partitions
  BY <1>1 DEF Register, NameBroker, RefuseController, KeepSocket, LoseBroker
<1>2. ASSUME NEW c \in Client, NEW u \in Topic, NEW n \in Counts, CreateTopic(c, u, n)
      PROVE  partitions' = partitions
  BY <1>2 DEF CreateTopic
<1>3. ASSUME NEW c \in Client, NEW u \in Topic, NEW g \in Group,
             Subscribe(c, u, g) \/ SubscribeUnknown(c, u, g)
      PROVE  partitions' = partitions
  BY <1>3 DEF Subscribe, SubscribeUnknown
<1>4. ASSUME NEW c \in Client, PlaceShare(c) \/ ReadAnswer(c)
      PROVE  partitions' = partitions
  BY <1>4 DEF PlaceShare, ReadAnswer
<1>5. ASSUME NEW c \in Client, NEW b \in Broker, SendBatch(c, b)
      PROVE  partitions' = partitions
  BY <1>5 DEF SendBatch
<1>6. ASSUME NEW m \in inserts, InsertTopic(m)
      PROVE  partitions' = partitions
  BY <1>6 DEF InsertTopic
<1>7. ASSUME NEW c \in Client, RecordMapping(c)
      PROVE  \/ t \in DOMAIN partitions /\ partitions'[t] = partitions[t]
             \/ handler[c].topic = t /\ partitions'[t] = handler[c].mapping
  BY <1>7 DEF RecordMapping, With
<1> QED
  BY ControllerSteps, <1>1, <1>2, <1>3, <1>4, <1>5, <1>6, <1>7 DEF vars

LEMMA NextFromCalls ==
  ASSUME ControllerTypes, FromCalls, [Next]_vars
  PROVE  FromCalls'
<1>1. HandlersTyped /\ CallsTyped
  BY DEF ControllerTypes
<1>2. ASSUME NEW c \in Client, Creates(c)'
      PROVE  \/ /\ Creates(c) /\ handler'[c].call = handler[c].call
                /\ IsCreate(handler[c].call + 1, handler[c].topic)
                /\ handler'[c].topic = handler[c].topic
             \/ \E t \in Topic, n \in Counts : CreateTopic(c, t, n)
  BY <1>2, HandlerCalls DEF FromCalls
<1>3. ASSUME NEW c \in Client, Creates(c)'
      PROVE  IsCreate(handler[c].call + 1, handler[c].topic)'
  <2>1. PICK k : k = handler'[c].call + 1
    OBVIOUS
  <2>2. PICK t : t = handler'[c].topic
    OBVIOUS
  <2>3. IsCreate(k, t)'
    <3>1. CASE \E u \in Topic, n \in Counts : CreateTopic(c, u, n)
      <4>1. PICK u \in Topic, n \in Counts : CreateTopic(c, u, n)
        BY <3>1
      <4>2. k = Len(calls) + 1 /\ t = u
        BY <1>1, <2>1, <2>2, <4>1, CreateTopicStep
      <4> QED
        BY <4>1, <4>2, NewCall
    <3>2. CASE IsCreate(k, t)
      BY <3>2, CallsStay
    <3> QED
      BY <1>2, <1>3, <2>1, <2>2, <3>1, <3>2
  <2> QED
    BY <2>1, <2>2, <2>3 DEF IsCreate
<1>4. ASSUME NEW c \in Client, NEW d \in Client, Creates(c)', Creates(d)',
             handler'[c].call = handler'[d].call
      PROVE  c = d
  <2> SUFFICES ASSUME c # d
               PROVE  FALSE
    OBVIOUS
  <2>1. ASSUME NEW x \in Client, NEW y \in Client, x # y, Creates(x)', Creates(y)',
               handler'[x].call = handler'[y].call,
               NEW t \in Topic, NEW n \in Counts, CreateTopic(x, t, n)
        PROVE  FALSE
    <3>1. handler'[x].call = Len(calls) /\ handler' = [handler EXCEPT ![x] = handler'[x]]
      BY <1>1, <2>1, CreateTopicStep
    <3>2. handler'[y] = handler[y]
      BY <1>1, <2>1, <3>1 DEF HandlersTyped
    <3>3. Creates(y) /\ handler[y].call = Len(calls)
      BY <2>1, <3>1, <3>2 DEF Creates
    <3>4. Len(calls) + 1 \in DOMAIN calls
      BY <3>3 DEF FromCalls, IsCreate
    <3> QED
      BY <1>1, <3>4 DEF CallsTyped
  <2>2. CASE \E t \in Topic, n \in Counts : CreateTopic(c, t, n)
    BY <1>4, <2>1, <2>2
  <2>3. CASE \E t \in Topic, n \in Counts : CreateTopic(d, t, n)
    BY <1>4, <2>1, <2>3
  <2>4. CASE /\ Creates(c) /\ handler'[c].call = handler[c].call
             /\ Creates(d) /\ handler'[d].call = handler[d].call
    BY <1>4, <2>4 DEF FromCalls
  <2> QED
    BY <1>2, <1>4, <2>2, <2>3, <2>4
<1>5. ASSUME NEW m \in inserts'
      PROVE  IsCreate(m.call + 1, m.topic)'
  <2>1. CASE m \in inserts
    BY <2>1, CallsStay DEF FromCalls
  <2>2. ASSUME NEW c \in Client, NEW b \in Broker, SendBatch(c, b), m = InsertFor(c, b)
        PROVE  IsCreate(m.call + 1, m.topic)'
    <3>1. Creates(c)
      BY <1>1, <2>2, SendBatchStep
    <3>2. m.call = handler[c].call /\ m.topic = handler[c].topic
      BY <2>2 DEF InsertFor
    <3>3. IsCreate(m.call + 1, m.topic)
      BY <3>1, <3>2 DEF FromCalls
    <3> QED
      BY <3>3, CallsStay
  <2> QED
    BY <2>1, <2>2, InsertsFrom
<1>6. ASSUME NEW t \in DOMAIN partitions'
      PROVE  \E i \in DOMAIN calls' : IsCreate(i, t)'
  <2>1. CASE t \in DOMAIN partitions
    <3>1. PICK i \in DOMAIN calls : IsCreate(i, t)
      BY <2>1 DEF FromCalls
    <3> QED
      BY <3>1, CallsStay
  <2>2. ASSUME NEW c \in Client, RecordMapping(c), handler[c].topic = t
        PROVE  \E i \in DOMAIN calls' : IsCreate(i, t)'
    <3>1. Creates(c)
      BY <2>2 DEF RecordMapping, LookedUp, Creates
    <3>2. PICK i : i = handler[c].call + 1
      OBVIOUS
    <3>3. IsCreate(i, t) /\ i \in DOMAIN calls
      BY <2>2, <3>1, <3>2 DEF FromCalls, IsCreate
    <3> QED
      BY <3>3, CallsStay
  <2> QED
    BY <2>1, <2>2, MappingsFrom
<1> QED
  BY <1>3, <1>4, <1>5, <1>6 DEF FromCalls, IsCreate

(* A topic that is created once has one handler that creates it. *)
LEMMA OneCreator ==
  ASSUME FromCalls, ControllerTypes, NEW t, NotTwice(t), NEW c \in Client, NEW d \in Client,
         Creates(c), Creates(d), handler[c].topic = t, handler[d].topic = t
  PROVE  c = d
<1>1. IsCreate(handler[c].call + 1, t) /\ IsCreate(handler[d].call + 1, t)
  BY DEF FromCalls
<1>2. handler[c].call + 1 = handler[d].call + 1
  BY <1>1 DEF NotTwice, IsCreate
<1>3. handler[c].call \in Nat /\ handler[d].call \in Nat
  BY CreatingFields DEF ControllerTypes
<1>4. handler[c].call = handler[d].call
  BY <1>2, <1>3
<1> QED
  BY <1>4 DEF FromCalls

(* What was made stays made: a topic_insert that arrives fits. *)
LEMMA MadeStays ==
  ASSUME ControllerTypes, [Next]_vars, NEW t \in Topic, NEW p \in Mapped, Made(t, p), Fits(t, p)
  PROVE  Made(t, p)'
<1>1. p.broker \in Broker /\ created \in [Broker -> [Topic -> Nat]]
  BY DEF Mapped, ControllerTypes, BrokersTyped
<1>2. ASSUME created' = created, inserts \subseteq inserts', unserved \subseteq unserved'
      PROVE  Made(t, p)'
  BY <1>2 DEF Made, Underway
<1>3. ASSUME NEW b \in Broker, Register(b) \/ LoseBroker(b)
      PROVE  UNCHANGED <<created, inserts, unserved>>
  BY <1>3 DEF Register, NameBroker, RefuseController, KeepSocket, LoseBroker
<1>4. ASSUME NEW c \in Client, NEW u \in Topic, NEW n \in Counts, CreateTopic(c, u, n)
      PROVE  UNCHANGED <<created, inserts, unserved>>
  BY <1>4 DEF CreateTopic
<1>5. ASSUME NEW c \in Client, NEW u \in Topic, NEW g \in Group,
             Subscribe(c, u, g) \/ SubscribeUnknown(c, u, g)
      PROVE  UNCHANGED <<created, inserts, unserved>>
  BY <1>5 DEF Subscribe, SubscribeUnknown
<1>6. ASSUME NEW c \in Client, RecordMapping(c) \/ ReadAnswer(c)
      PROVE  UNCHANGED <<created, inserts, unserved>>
  BY <1>6 DEF RecordMapping, ReadAnswer
<1>7. ASSUME NEW c \in Client, PlaceShare(c)
      PROVE  Made(t, p)'
  BY <1>2, <1>7 DEF PlaceShare
<1>8. ASSUME NEW c \in Client, NEW b \in Broker, SendBatch(c, b)
      PROVE  Made(t, p)'
  BY <1>2, <1>8 DEF SendBatch
<1>9. ASSUME NEW m \in inserts, InsertTopic(m)
      PROVE  Made(t, p)'
  <2>1. /\ inserts' = inserts \ {m} /\ unserved' = unserved
        /\ created' = [created EXCEPT ![m.broker][m.topic] = m.count]
    BY <1>9 DEF InsertTopic
  <2>2. m.broker \in Broker /\ m.topic \in Topic
    BY DEF ControllerTypes, CallsTyped, Insert
  <2>3. CASE m.broker = p.broker /\ m.topic = t
    <3>1. p.local < m.count
      BY <2>3 DEF Fits, Underway
    <3>2. created'[p.broker][t] = m.count
      BY <1>1, <2>1, <2>2, <2>3
    <3> QED
      BY <3>1, <3>2 DEF Made
  <2>4. CASE ~(m.broker = p.broker /\ m.topic = t)
    <3>1. created'[p.broker][t] = created[p.broker][t]
      BY <1>1, <2>1, <2>2, <2>4
    <3>2. Underway(t, p.broker)' = Underway(t, p.broker)
      BY <2>1, <2>4 DEF Underway
    <3> QED
      BY <2>1, <3>1, <3>2 DEF Made
  <2> QED
    BY <2>3, <2>4
<1> QED
  BY ControllerSteps, <1>2, <1>3, <1>4, <1>5, <1>6, <1>7, <1>8, <1>9 DEF vars

(* The entries of a mapping, and those that the next broker's share adds. *)
LEMMA EntriesMapped ==
  ASSUME NEW s \in Seq(Mapped)
  PROVE  Entries(s) \subseteq Mapped
BY DEF Entries

LEMMA EntriesAdded ==
  ASSUME NEW s \in Seq(Mapped), NEW n \in Nat, NEW b \in Broker,
         NEW p \in Entries(WithShare(s, n, b))
  PROVE  p \in Entries(s) \/ (p.broker = b /\ p.local < n)
<1> DEFINE more == WithShare(s, n, b)
<1>1. /\ DOMAIN more = 1 .. Len(s) + n
      /\ \A i \in DOMAIN s : more[i] = s[i]
      /\ \A i \in (Len(s) + 1) .. (Len(s) + n) :
           more[i] = [broker |-> b, local |-> i - Len(s) - 1]
  BY SegmentAdded
<1>2. DOMAIN s = 1 .. Len(s) /\ Len(s) \in Nat
  OBVIOUS
<1> HIDE DEF more
<1>3. PICK i \in DOMAIN more : p = more[i]
  BY DEF Entries, more
<1>4. CASE i \in DOMAIN s
  BY <1>1, <1>3, <1>4 DEF Entries
<1>5. CASE i \in (Len(s) + 1) .. (Len(s) + n)
  <2>1. PICK l \in Nat : l = i - Len(s) - 1 /\ l < n
    BY <1>2, <1>5
  <2>2. p = [broker |-> b, local |-> l]
    BY <1>1, <1>3, <1>5, <2>1
  <2> QED
    BY <2>1, <2>2
<1>6. i \in 1 .. Len(s) \/ i \in (Len(s) + 1) .. (Len(s) + n)
  BY <1>1, <1>2
<1> QED
  BY <1>2, <1>4, <1>5, <1>6

(* While a topic that is created once is looked up and sent, its mapping and the
   topic_inserts that were sent belong together. *)
LEMMA NextMadeWhileCreated ==
  ASSUME ControllerTypes, FromCalls, MadeWhileCreated, [Next]_vars
  PROVE  MadeWhileCreated'
<1> SUFFICES ASSUME NEW t \in Topic, NEW c \in Client,
                    NotTwice(t)', Creates(c)', handler'[c].topic = t
             PROVE  /\ t \notin DOMAIN partitions'
                    /\ \A m \in inserts' : m.topic = t =>
                         m.count = Share(handler'[c].count, BrokerNo, m.broker)
                    /\ \A p \in Entries(handler'[c].mapping) :
                         /\ p.local < Share(handler'[c].count, BrokerNo, p.broker)
                         /\ p.broker \in handler'[c].unsent \/ Made(t, p)'
  BY DEF MadeWhileCreated, Entries, Share
<1>1. HandlersTyped /\ CallsTyped /\ NotTwice(t)
  BY CallsStay DEF ControllerTypes
<1>2. ASSUME NEW u \in Topic, NEW n \in Counts, CreateTopic(c, u, n)
      PROVE  /\ t \notin DOMAIN partitions'
             /\ \A m \in inserts' : m.topic # t
             /\ Entries(handler'[c].mapping) = {}
  <2>1. u = t /\ handler'[c].mapping = <<>>
    BY <1>1, <1>2, CreateTopicStep
  <2>2. partitions' = partitions /\ inserts' = inserts
    BY <1>2 DEF CreateTopic
  <2>3. \A i \in DOMAIN calls : ~IsCreate(i, t)
    BY <1>2, <2>1, NewCall
  <2>4. t \notin DOMAIN partitions
    BY <2>3 DEF FromCalls
  <2>5. ASSUME NEW m \in inserts, m.topic = t
        PROVE  FALSE
    <3>1. PICK i : i = m.call + 1
      OBVIOUS
    <3>2. IsCreate(i, t)
      BY <2>5, <3>1 DEF FromCalls
    <3>3. i \in DOMAIN calls
      BY <3>2 DEF IsCreate
    <3> QED
      BY <2>3, <3>2, <3>3
  <2> QED
    BY <2>1, <2>2, <2>4, <2>5 DEF Entries
<1>3. ASSUME Creates(c), handler'[c].topic = handler[c].topic,
             handler'[c].count = handler[c].count
      PROVE  /\ t \notin DOMAIN partitions'
             /\ \A m \in inserts' : m.topic = t =>
                  m.count = Share(handler'[c].count, BrokerNo, m.broker)
             /\ \A p \in Entries(handler'[c].mapping) :
                  /\ p.local < Share(handler'[c].count, BrokerNo, p.broker)
                  /\ p.broker \in handler'[c].unsent \/ Made(t, p)'
  <2>1. /\ t \notin DOMAIN partitions
        /\ \A m \in inserts : m.topic = t => m.count = Share(handler[c].count, BrokerNo, m.broker)
        /\ \A p \in Entries(handler[c].mapping) :
             /\ p.local < Share(handler[c].count, BrokerNo, p.broker)
             /\ p.broker \in handler[c].unsent \/ Made(t, p)
    BY <1>1, <1>3 DEF MadeWhileCreated
  <2>2. handler[c].mapping \in Seq(Mapped) /\ handler[c].count \in Nat
    BY <1>1, <1>3, CreatingFields
  <2>3. Entries(handler[c].mapping) \subseteq Mapped
    BY <2>2, EntriesMapped
  <2>4. t \notin DOMAIN partitions'
    <3>1. ASSUME NEW d \in Client, RecordMapping(d), handler[d].topic = t
          PROVE  FALSE
      <4>1. Creates(d)
        BY <3>1 DEF RecordMapping, LookedUp, Creates
      <4>2. c = d
        BY <1>1, <1>3, <3>1, <4>1, OneCreator
      <4>3. handler'[c] = Idle
        BY <1>1, <3>1, <4>2 DEF RecordMapping, HandlersTyped
      <4> QED
        BY <4>3 DEF Creates, Idle
    <3> QED
      BY <2>1, <3>1, MappingsFrom
  <2>5. ASSUME NEW m \in inserts', m.topic = t
        PROVE  m.count = Share(handler'[c].count, BrokerNo, m.broker)
    <3>1. CASE m \in inserts
      BY <1>3, <2>1, <2>5, <3>1
    <3>2. ASSUME NEW d \in Client, NEW b \in Broker, SendBatch(d, b), m = InsertFor(d, b)
          PROVE  m.count = Share(handler'[c].count, BrokerNo, m.broker)
      <4>1. Creates(d)
        BY <1>1, <3>2, SendBatchStep
      <4>2. /\ m.topic = handler[d].topic /\ m.broker = b
            /\ m.count = Share(handler[d].count, BrokerNo, b)
        BY <3>2 DEF InsertFor
      <4>3. c = d
        BY <1>1, <1>3, <2>5, <4>1, <4>2, OneCreator
      <4> QED
        BY <1>3, <4>2, <4>3
    <3> QED
      BY <3>1, <3>2, InsertsFrom
  <2>6. ASSUME NEW p \in Entries(handler[c].mapping)
        PROVE  /\ p.local < Share(handler'[c].count, BrokerNo, p.broker)
               /\ Made(t, p) => Made(t, p)'
    <3>1. p \in Mapped /\ Fits(t, p)
      BY <2>1, <2>3 DEF Fits, Underway
    <3> QED
      BY <1>3, <2>1, <3>1, MadeStays
  <2>7. CASE handler'[c] = handler[c]
    BY <2>1, <2>4, <2>5, <2>6, <2>7
  <2>8. CASE PlaceShare(c)
    <3>1. handler[c].next \in Broker /\ LocalCount(c) = Share(handler[c].count, BrokerNo, handler[c].next)
      BY <1>1, <2>8, PlaceShareStep DEF LocalCount
    <3>2. LocalCount(c) \in Nat
      BY <2>2, <3>1, ShareTyped
    <3>3. CASE /\ handler'[c].mapping = handler[c].mapping
               /\ handler'[c].unsent = handler[c].unsent
      BY <2>1, <2>4, <2>5, <2>6, <3>3
    <3>4. CASE /\ handler'[c].mapping =
                    WithShare(handler[c].mapping, LocalCount(c), handler[c].next)
               /\ handler'[c].unsent = handler[c].unsent \cup {handler[c].next}
      <4>1. ASSUME NEW p \in Entries(handler'[c].mapping)
            PROVE  \/ p \in Entries(handler[c].mapping)
                   \/ p.broker = handler[c].next /\ p.local < LocalCount(c)
        BY <2>2, <3>1, <3>2, <3>4, <4>1, EntriesAdded
      <4>2. ASSUME NEW p \in Entries(handler'[c].mapping)
            PROVE  /\ p.local < Share(handler'[c].count, BrokerNo, p.broker)
                   /\ p.broker \in handler'[c].unsent \/ Made(t, p)'
        <5>1. CASE p \in Entries(handler[c].mapping)
          BY <2>1, <2>6, <3>4, <5>1
        <5>2. CASE p.broker = handler[c].next /\ p.local < LocalCount(c)
          BY <1>3, <3>1, <3>4, <5>2
        <5> QED
          BY <4>1, <5>1, <5>2
      <4> QED
        BY <2>4, <2>5, <4>2
    <3> QED
      BY <1>1, <2>8, <3>3, <3>4, PlaceShareStep
  <2>9. ASSUME NEW b \in Broker, SendBatch(c, b)
        PROVE  /\ t \notin DOMAIN partitions'
               /\ \A m \in inserts' : m.topic = t =>
                    m.count = Share(handler'[c].count, BrokerNo, m.broker)
               /\ \A p \in Entries(handler'[c].mapping) :
                    /\ p.local < Share(handler'[c].count, BrokerNo, p.broker)
                    /\ p.broker \in handler'[c].unsent \/ Made(t, p)'
    <3>1. /\ handler'[c].mapping = handler[c].mapping
          /\ handler'[c].unsent = handler[c].unsent \ {b}
          /\ \/ InsertFor(c, b) \in inserts'
             \/ <<t, b>> \in unserved'
      BY <1>1, <1>3, <2>9, SendBatchStep
    <3>2. ASSUME NEW p \in Entries(handler[c].mapping), p.broker = b
          PROVE  Made(t, p)'
      <4>1. CASE <<t, b>> \in unserved'
        BY <3>2, <4>1 DEF Made
      <4>2. CASE InsertFor(c, b) \in inserts'
        <5>1. PICK m : m = InsertFor(c, b)
          OBVIOUS
        <5>2. m.topic = t /\ m.broker = b /\ m.count = Share(handler[c].count, BrokerNo, b)
          BY <1>3, <5>1 DEF InsertFor
        <5>3. p.local < m.count
          BY <2>1, <3>2, <5>2
        <5>4. m \in inserts'
          BY <4>2, <5>1
        <5> QED
          BY <3>2, <5>2, <5>3, <5>4 DEF Made, Underway
      <4> QED
        BY <3>1, <4>1, <4>2
    <3>3. ASSUME NEW p \in Entries(handler[c].mapping)
          PROVE  p.broker \in handler'[c].unsent \/ Made(t, p)'
      BY <2>1, <2>6, <3>1, <3>2
    <3> QED
      BY <2>4, <2>5, <2>6, <3>1, <3>3
  <2>10. ASSUME NEW u \in Topic, NEW n \in Counts, CreateTopic(c, u, n)
         PROVE  FALSE
    <3>1. handler[c] = Idle
      BY <2>10 DEF CreateTopic, MayCall
    <3> QED
      BY <1>3, <3>1 DEF Creates, Idle
  <2> QED
    BY <2>7, <2>8, <2>9, <2>10, HandlerSteps
<1>4. CASE \E u \in Topic, n \in Counts : CreateTopic(c, u, n)
  BY <1>2, <1>4
<1>5. CASE /\ Creates(c) /\ handler'[c].topic = handler[c].topic
           /\ handler'[c].count = handler[c].count
  BY <1>3, <1>5
<1> QED
  BY <1>4, <1>5, HandlerCalls

(* A mapping that is kept stays true, as long as the topic is not created again. *)
LEMMA NextMadeWhenKept ==
  ASSUME ControllerTypes, FromCalls, MadeWhileCreated, MadeWhenKept, [Next]_vars
  PROVE  MadeWhenKept'
<1> SUFFICES ASSUME NEW t \in DOMAIN partitions', NotTwice(t)',
                    NEW p \in Entries(partitions'[t])
             PROVE  Made(t, p)' /\ Fits(t, p)'
  BY DEF MadeWhenKept, Entries
<1>1. HandlersTyped /\ NotTwice(t) /\ PartitionsTyped
  BY CallsStay DEF ControllerTypes
<1>2. CASE t \in DOMAIN partitions /\ partitions'[t] = partitions[t]
  <2>1. Made(t, p) /\ Fits(t, p)
    BY <1>1, <1>2 DEF MadeWhenKept
  <2>2. t \in Topic /\ p \in Mapped
    BY <1>1, <1>2, EntriesMapped DEF PartitionsTyped
  <2>3. ASSUME NEW m \in inserts', m.topic = t, m.broker = p.broker
        PROVE  p.local < m.count
    <3>1. CASE m \in inserts
      BY <2>1, <2>3, <3>1 DEF Fits, Underway
    <3>2. ASSUME NEW d \in Client, NEW b \in Broker, SendBatch(d, b), m = InsertFor(d, b)
          PROVE  FALSE
      <4>1. Creates(d)
        BY <1>1, <3>2, SendBatchStep
      <4>2. handler[d].topic = t
        BY <2>3, <3>2 DEF InsertFor
      <4> QED
        BY <1>1, <1>2, <2>2, <4>1, <4>2 DEF MadeWhileCreated
    <3> QED
      BY <3>1, <3>2, InsertsFrom
  <2> QED
    BY <2>1, <2>2, <2>3, MadeStays DEF Fits, Underway
<1>3. ASSUME NEW c \in Client, RecordMapping(c), handler[c].topic = t,
             partitions'[t] = handler[c].mapping
      PROVE  Made(t, p)' /\ Fits(t, p)'
  <2>1. Creates(c) /\ handler[c].unsent = {}
    BY <1>3 DEF RecordMapping, LookedUp, Creates
  <2>2. t \in Topic /\ p \in Entries(handler[c].mapping)
    BY <1>1, <1>3, <2>1, CreatingFields
  <2>3. /\ \A m \in inserts : m.topic = t => m.count = Share(handler[c].count, BrokerNo, m.broker)
        /\ p.local < Share(handler[c].count, BrokerNo, p.broker)
        /\ Made(t, p)
    BY <1>1, <1>3, <2>1, <2>2 DEF MadeWhileCreated
  <2>4. Fits(t, p)
    BY <2>3 DEF Fits, Underway
  <2>5. UNCHANGED <<created, inserts, unserved>>
    BY <1>3 DEF RecordMapping
  <2> QED
    BY <2>3, <2>4, <2>5 DEF Made, Fits, Underway
<1> QED
  BY <1>2, <1>3, MappingsFrom

(* The mapping a client gets names partitions that their broker has, or will have
   when it comes to the topic_insert, if the topic was created once and the share
   was sent: whichever topics are created concurrently, and in whichever order the
   brokers take the inserts (controller.rs, lines 690-808). *)
THEOREM WhatIsMappedIsMade == Spec => []MappedIsMade
<1>1. Init => FromCalls /\ MadeWhileCreated /\ MadeWhenKept
  <2> SUFFICES ASSUME Init
               PROVE  FromCalls /\ MadeWhileCreated /\ MadeWhenKept
    OBVIOUS
  <2>1. \A c \in Client : ~Creates(c)
    BY DEF Init, Creates, Idle
  <2>2. inserts = {} /\ DOMAIN partitions = {}
    BY DEF Init, Empty
  <2> QED
    BY <2>1, <2>2 DEF FromCalls, MadeWhileCreated, MadeWhenKept
<1>2. Spec => [](FromCalls /\ MadeWhileCreated /\ MadeWhenKept)
  BY <1>1, TypesHold, NextFromCalls, NextMadeWhileCreated, NextMadeWhenKept, PTL DEF Spec
<1>3. ControllerTypes /\ MadeWhenKept => MappedIsMade
  <2> SUFFICES ASSUME ControllerTypes, MadeWhenKept, NEW t \in DOMAIN partitions, CreatedOnce(t),
                      NEW i \in DOMAIN partitions[t]
               PROVE  \/ partitions[t][i].local < created[partitions[t][i].broker][t]
                      \/ \E m \in Underway(t, partitions[t][i].broker) :
                           partitions[t][i].local < m.count
                      \/ <<t, partitions[t][i].broker>> \in unserved
    BY DEF MappedIsMade
  <2>1. NotTwice(t)
    <3> DEFINE T == {x \in DOMAIN calls : calls[x] = [op |-> "create_topic", topic |-> t]}
    <3>1. IsFiniteSet(T)
      <4>1. DOMAIN calls = 1 .. Len(calls) /\ Len(calls) \in Int
        BY DEF ControllerTypes, CallsTyped
      <4>2. IsFiniteSet(1 .. Len(calls))
        BY <4>1, FS_Interval
      <4> QED
        BY <4>1, <4>2, FS_Subset
    <3>2. Cardinality(T) = 1
      BY DEF CreatedOnce
    <3>3. \E x : T = {x}
      BY <3>1, <3>2, FS_Singleton
    <3>4. \A x \in DOMAIN calls : IsCreate(x, t) => x \in T
      BY DEF IsCreate
    <3> HIDE DEF T
    <3> QED
      BY <3>3, <3>4 DEF NotTwice
  <2>2. PICK p : p = partitions[t][i]
    OBVIOUS
  <2>3. p \in Entries(partitions[t])
    BY <2>2 DEF Entries
  <2>4. Made(t, p)
    BY <2>1, <2>3 DEF MadeWhenKept
  <2> QED
    BY <2>2, <2>4 DEF Made
<1> QED
  BY <1>2, <1>3, TypesHold, PTL

----------------------------------------------------------------------------
(* At the controller: an arrangement names no partition twice. *)

Proper(s) ==
  /\ \A i \in DOMAIN s : s[i].local \in Local
  /\ \A i, j \in DOMAIN s : s[i].broker = s[j].broker /\ s[i].local = s[j].local => i = j

MappingsProper ==
  /\ \A c \in Client : Creates(c) => handler[c].count \in Counts /\ Proper(handler[c].mapping)
  /\ \A t \in DOMAIN partitions : Proper(partitions[t])
  /\ \A g \in DOMAIN groups : \A t \in DOMAIN TopicsOf(g) : Proper(TopicsOf(g)[t])

(* An arrangement as a client gets it. *)
Arrived(answer) ==
  /\ answer.topic \in Topic /\ answer.group \in Group /\ answer.id \in Nat
  /\ answer.arrangement \in Seq(Assigned) /\ Proper(answer.arrangement)

AnswersProper ==
  /\ answers = [c \in Client |-> answers[c]]
  /\ \A c \in Client : answers[c].kind = "arrangement" => Arrived(answers[c])

(* The greatest number of partitions is one that is asked for. *)
LEMMA MaxCountIs ==
  /\ MaxCount \in Nat
  /\ \A n \in Counts : n \in Nat /\ n <= MaxCount
<1>1. \E n \in Counts : \A m \in Counts : m <= n
  BY CountsAssumption
<1>2. MaxCount \in Counts /\ \A m \in Counts : m <= MaxCount
  BY <1>1 DEF MaxCount
<1> QED
  BY <1>2, ControllerAssumption

(* A broker's share is not more than there is. *)
LEMMA ShareIsPart ==
  ASSUME NEW n \in Nat, NEW b \in Broker
  PROVE  Share(n, BrokerNo, b) <= n
<1> DEFINE d == n \div BrokerNo
           r == n % BrokerNo
<1>1. BrokerNo \in Nat \ {0} /\ b \in Nat
  BY ControllerAssumption DEF Broker
<1>2. d \in Nat /\ r \in Nat /\ n = BrokerNo * d + r
  BY <1>1
<1>3. Share(n, BrokerNo, b) = d + (IF b < r THEN 1 ELSE 0)
  BY DEF Share
<1> HIDE DEF d, r
<1>4. PICK k \in Nat : BrokerNo = k + 1
  <2>1. BrokerNo - 1 \in Nat /\ BrokerNo = (BrokerNo - 1) + 1
    BY <1>1
  <2> QED
    BY <2>1
<1>5. BrokerNo * d = k * d + d /\ k * d \in Nat
  BY <1>2, <1>4
<1>6. d + r <= n
  BY <1>2, <1>5
<1>7. CASE b < r
  BY <1>1, <1>2, <1>3, <1>6, <1>7
<1>8. CASE ~(b < r)
  BY <1>2, <1>3, <1>6, <1>8
<1> QED
  BY <1>7, <1>8

(* The next broker's share is of another broker, and numbers its partitions. *)
LEMMA ProperWithShare ==
  ASSUME NEW s \in Seq(Mapped), Proper(s), NEW n \in Nat, n <= MaxCount, NEW b \in Broker,
         MappedOn(s, b) = {}
  PROVE  Proper(WithShare(s, n, b))
<1> DEFINE more == WithShare(s, n, b)
<1>1. /\ DOMAIN more = 1 .. Len(s) + n
      /\ \A i \in DOMAIN s : more[i] = s[i]
      /\ \A i \in (Len(s) + 1) .. (Len(s) + n) :
           more[i] = [broker |-> b, local |-> i - Len(s) - 1]
  BY SegmentAdded
<1>2. DOMAIN s = 1 .. Len(s) /\ Len(s) \in Nat
  OBVIOUS
<1>3. \A i \in DOMAIN s : s[i].broker # b
  BY DEF MappedOn
<1> HIDE DEF more
<1>4. \A i \in DOMAIN more : i \in DOMAIN s \/ i \in (Len(s) + 1) .. (Len(s) + n)
  BY <1>1, <1>2
<1>5. ASSUME NEW i \in (Len(s) + 1) .. (Len(s) + n)
      PROVE  more[i].broker = b /\ more[i].local = i - Len(s) - 1 /\ i - Len(s) - 1 \in 0 .. n - 1
  <2>1. more[i] = [broker |-> b, local |-> i - Len(s) - 1]
    BY <1>1
  <2>2. i - Len(s) - 1 \in 0 .. n - 1
    BY <1>2
  <2> QED
    BY <2>1, <2>2
<1>6. \A i \in DOMAIN more : more[i].local \in Local
  <2> SUFFICES ASSUME NEW i \in DOMAIN more PROVE more[i].local \in Local
    OBVIOUS
  <2>1. CASE i \in DOMAIN s
    BY <1>1, <2>1 DEF Proper
  <2>2. CASE i \in (Len(s) + 1) .. (Len(s) + n)
    <3>1. more[i].local \in 0 .. n - 1
      BY <1>5, <2>2
    <3> QED
      BY <3>1, MaxCountIs DEF Local
  <2> QED
    BY <1>4, <2>1, <2>2
<1>7. ASSUME NEW i \in DOMAIN more, NEW j \in DOMAIN more, more[i].broker = more[j].broker,
             more[i].local = more[j].local
      PROVE  i = j
  <2>1. CASE i \in DOMAIN s /\ j \in DOMAIN s
    BY <1>1, <1>7, <2>1 DEF Proper
  <2>2. CASE i \in DOMAIN s /\ j \in (Len(s) + 1) .. (Len(s) + n)
    BY <1>1, <1>3, <1>5, <1>7, <2>2
  <2>3. CASE j \in DOMAIN s /\ i \in (Len(s) + 1) .. (Len(s) + n)
    BY <1>1, <1>3, <1>5, <1>7, <2>3
  <2>4. CASE i \in (Len(s) + 1) .. (Len(s) + n) /\ j \in (Len(s) + 1) .. (Len(s) + n)
    <3>1. i - Len(s) - 1 = j - Len(s) - 1
      BY <1>5, <1>7, <2>4
    <3> QED
      BY <1>2, <2>4, <3>1
  <2> QED
    BY <1>4, <2>1, <2>2, <2>3, <2>4
<1> QED
  BY <1>6, <1>7 DEF Proper, more

(* Dealing an arrangement out leaves its partitions where they are. *)
LEMMA ProperDealt ==
  ASSUME NEW a \in Seq(Assigned), NEW k \in Seq(Member), k # <<>>, Proper(a)
  PROVE  Proper(Dealt(a, k))
BY DealtTyped DEF Proper

(* A group's arrangement is one it has, or all of a mapping in some order. *)
LEMMA ProperArrangement ==
  ASSUME PartitionsTyped, MappingsProper, NEW g, NEW t, NEW k,
         t \in DOMAIN GroupOf(g).topics \cup DOMAIN partitions,
         NEW a \in Arrangements(g, t, k)
  PROVE  Proper(a)
<1>1. CASE t \in DOMAIN GroupOf(g).topics
  <2>1. g \in DOMAIN groups /\ a = TopicsOf(g)[t] /\ t \in DOMAIN TopicsOf(g)
    BY <1>1 DEF Arrangements, GroupOf, Group0, Empty, TopicsOf
  <2> QED
    BY <2>1 DEF MappingsProper
<1>2. CASE t \notin DOMAIN GroupOf(g).topics
  <2> DEFINE p == partitions[t]
  <2>1. p \in Seq(Mapped) /\ Proper(p)
    BY <1>2 DEF PartitionsTyped, MappingsProper
  <2>2. PICK s \in Orders(Len(p)) :
          a = [i \in DOMAIN p |->
                 [broker |-> p[s[i]].broker, local |-> p[s[i]].local, consumer |-> k]]
    BY <1>2 DEF Arrangements
  <2>3. DOMAIN p = 1 .. Len(p) /\ Len(p) \in Nat
    BY <2>1
  <2> HIDE DEF p
  <2>4. /\ s \in [DOMAIN p -> DOMAIN p]
        /\ \A i, j \in DOMAIN p : s[i] = s[j] => i = j
    BY <2>3 DEF Orders
  <2>5. DOMAIN a = DOMAIN p
    BY <2>2
  <2>6. \A i \in DOMAIN a : /\ s[i] \in DOMAIN p
                            /\ a[i].broker = p[s[i]].broker /\ a[i].local = p[s[i]].local
    BY <2>2, <2>4
  <2> QED
    BY <2>1, <2>4, <2>5, <2>6, SMTT(20) DEF Proper
<1> QED
  BY <1>1, <1>2

(* subscribe: the group gets a proper arrangement of the topic, and so does the client. *)
LEMMA SubscribeArranges ==
  ASSUME ControllerTypes, MappingsProper,
         NEW c \in Client, NEW t \in Topic, NEW g \in Group, Subscribe(c, t, g)
  PROVE  \E d \in Seq(Assigned), all \in Seq(Member), n \in Nat :
           /\ Proper(d)
           /\ groups' = With(groups, g,
                [consumers |-> all, topics |-> With(GroupOf(g).topics, t, d)])
           /\ answers' = [answers EXCEPT ![c] =
                [kind |-> "arrangement", topic |-> t, group |-> g, id |-> n, arrangement |-> d]]
<1> DEFINE k == [id |-> NextId(g), client |-> c]
           all == Append(GroupOf(g).consumers, k)
<1>1. k \in Member /\ k.id \in Nat
  BY DEF ControllerTypes, IdsInv, NextId, Member
<1>2. t \in DOMAIN GroupOf(g).topics \cup DOMAIN partitions
  BY DEF Subscribe
<1>3. PICK a \in Arrangements(g, t, k) :
        /\ groups' = With(groups, g,
             [consumers |-> all, topics |-> With(GroupOf(g).topics, t, Dealt(a, all))])
        /\ answers' = [answers EXCEPT ![c] =
             [kind |-> "arrangement", topic |-> t, group |-> g, id |-> k.id,
              arrangement |-> Dealt(a, all)]]
  BY DEF Subscribe
<1> HIDE DEF k
<1>4. a \in Seq(Assigned)
  BY <1>1, <1>2, ArrangementTyped DEF ControllerTypes
<1>5. Proper(a)
  BY <1>2, ProperArrangement DEF ControllerTypes
<1>6. GroupOf(g).consumers \in Seq(Member)
  BY GroupOfTyped DEF ControllerTypes, IdsInv
<1>7. all \in Seq(Member) /\ all # <<>>
  BY <1>1, <1>6, AppendedSeq
<1> HIDE DEF all
<1>8. Dealt(a, all) \in Seq(Assigned) /\ Proper(Dealt(a, all))
  BY <1>4, <1>5, <1>7, DealtTyped, ProperDealt
<1> QED
  BY <1>1, <1>3, <1>7, <1>8

(* A step keeps the handlers' mappings proper: a share is added of a broker that
   was not looked up before. *)
LEMMA HandlersProper ==
  ASSUME ControllerTypes, SharesSoFar, MappingsProper, [Next]_vars, NEW c \in Client, Creates(c)'
  PROVE  handler'[c].count \in Counts /\ Proper(handler'[c].mapping)
<1>1. HandlersTyped /\ CallsTyped
  BY DEF ControllerTypes
<1>2. PICK h : h = handler'[c]
  OBVIOUS
<1>3. CASE h = handler[c]
  BY <1>2, <1>3 DEF Creates, MappingsProper
<1>4. ASSUME NEW t \in Topic, NEW n \in Counts, CreateTopic(c, t, n)
      PROVE  h.count \in Counts /\ Proper(h.mapping)
  <2>1. h.mapping = <<>> /\ h.count = n
    BY <1>1, <1>2, <1>4, CreateTopicStep
  <2> QED
    BY <2>1 DEF Proper
<1>5. CASE PlaceShare(c)
  <2>1. /\ Creates(c) /\ handler[c].next \in Broker /\ h.count = handler[c].count
        /\ \/ h.mapping = WithShare(handler[c].mapping, LocalCount(c), handler[c].next)
           \/ h.mapping = handler[c].mapping
    BY <1>1, <1>2, <1>5, PlaceShareStep
  <2>2. handler[c].count \in Counts /\ Proper(handler[c].mapping)
    BY <2>1 DEF MappingsProper
  <2>3. CASE h.mapping = WithShare(handler[c].mapping, LocalCount(c), handler[c].next)
    <3>1. MappedOn(handler[c].mapping, handler[c].next) = {}
      <4>1. SharesOf(handler[c])
        BY <2>1 DEF SharesSoFar
      <4>2. handler[c].next <= handler[c].next
        BY <2>1 DEF Broker
      <4> QED
        BY <2>1, <4>1, <4>2 DEF SharesOf
    <3>2. handler[c].count \in Nat /\ handler[c].count <= MaxCount /\ MaxCount \in Nat
      BY <2>2, MaxCountIs
    <3>3. /\ LocalCount(c) = Share(handler[c].count, BrokerNo, handler[c].next)
          /\ LocalCount(c) \in Nat /\ LocalCount(c) <= handler[c].count
      BY <2>1, <3>2, ShareTyped, ShareIsPart DEF LocalCount
    <3>4. LocalCount(c) <= MaxCount
      BY <3>2, <3>3
    <3>5. handler[c].mapping \in Seq(Mapped)
      BY <1>1, <2>1, CreatingFields
    <3>6. Proper(WithShare(handler[c].mapping, LocalCount(c), handler[c].next))
      BY <2>1, <2>2, <3>1, <3>3, <3>4, <3>5, ProperWithShare
    <3> QED
      BY <1>2, <2>1, <2>2, <2>3, <3>6
  <2>4. CASE h.mapping = handler[c].mapping
    BY <1>2, <2>1, <2>2, <2>4
  <2> QED
    BY <2>1, <2>3, <2>4
<1>6. ASSUME NEW b \in Broker, SendBatch(c, b)
      PROVE  h.count \in Counts /\ Proper(h.mapping)
  <2>1. Creates(c) /\ h.count = handler[c].count /\ h.mapping = handler[c].mapping
    BY <1>1, <1>2, <1>6, SendBatchStep
  <2> QED
    BY <2>1 DEF MappingsProper
<1> QED
  BY <1>2, <1>3, <1>4, <1>5, <1>6, HandlerSteps

(* Every arrangement of a group is one it had, or the one of a subscription. *)
LEMMA GroupsProper ==
  ASSUME ControllerTypes, MappingsProper, [Next]_vars,
         NEW g \in DOMAIN groups', NEW t \in DOMAIN TopicsOf(g)'
  PROVE  Proper(TopicsOf(g)'[t])
<1>1. ASSUME NEW c \in Client, NEW u \in Topic, NEW h \in Group, Subscribe(c, u, h)
      PROVE  Proper(TopicsOf(g)'[t])
  <2>1. PICK d \in Seq(Assigned), all \in Seq(Member), n \in Nat :
          /\ Proper(d)
          /\ groups' = With(groups, h,
               [consumers |-> all, topics |-> With(GroupOf(h).topics, u, d)])
          /\ answers' = [answers EXCEPT ![c] =
               [kind |-> "arrangement", topic |-> u, group |-> h, id |-> n, arrangement |-> d]]
    BY <1>1, SubscribeArranges
  <2>2. CASE g = h
    <3>1. TopicsOf(g)' = With(GroupOf(h).topics, u, d)
      BY <2>1, <2>2 DEF With, TopicsOf
    <3>2. CASE t = u
      BY <2>1, <3>1, <3>2 DEF With
    <3>3. CASE t # u
      <4>1. t \in DOMAIN GroupOf(h).topics /\ TopicsOf(g)'[t] = GroupOf(h).topics[t]
        BY <3>1, <3>3 DEF With
      <4>2. h \in DOMAIN groups /\ GroupOf(h).topics = TopicsOf(h)
        BY <4>1 DEF GroupOf, Group0, Empty, TopicsOf
      <4> QED
        BY <4>1, <4>2 DEF MappingsProper
    <3> QED
      BY <3>2, <3>3
  <2>3. CASE g # h
    <3>1. g \in DOMAIN groups /\ TopicsOf(g)' = TopicsOf(g)
      BY <2>1, <2>3 DEF With, TopicsOf
    <3> QED
      BY <3>1 DEF MappingsProper
  <2> QED
    BY <2>2, <2>3
<1>2. ASSUME g \in DOMAIN groups, TopicsOf(g)' = TopicsOf(g)
      PROVE  Proper(TopicsOf(g)'[t])
  BY <1>2 DEF MappingsProper
<1>3. ASSUME NEW c \in Client, NEW u \in Topic, NEW h \in Group, SubscribeUnknown(c, u, h)
      PROVE  Proper(TopicsOf(g)'[t])
  <2>1. groups' = With(groups, h, GroupOf(h))
    BY <1>3 DEF SubscribeUnknown
  <2>2. CASE g \in DOMAIN groups
    <3>1. TopicsOf(g)' = TopicsOf(g)
      BY <2>1, <2>2 DEF With, TopicsOf, GroupOf
    <3> QED
      BY <1>2, <2>2, <3>1
  <2>3. CASE g \notin DOMAIN groups
    <3>1. TopicsOf(g)' = Empty
      BY <2>1, <2>3 DEF With, TopicsOf, GroupOf, Group0
    <3> QED
      BY <3>1 DEF Empty
  <2> QED
    BY <2>2, <2>3
<1>4. ASSUME groups' = groups
      PROVE  Proper(TopicsOf(g)'[t])
  BY <1>2, <1>4 DEF TopicsOf
<1> QED
  BY <1>1, <1>3, <1>4, GroupsLeftAlone

LEMMA NextMappingsProper ==
  ASSUME ControllerTypes, SharesSoFar, MappingsProper, [Next]_vars
  PROVE  MappingsProper'
<1>1. ASSUME NEW t \in DOMAIN partitions' PROVE Proper(partitions'[t])
  <2>1. ASSUME NEW c \in Client, RecordMapping(c) PROVE Proper(handler[c].mapping)
    BY <2>1 DEF RecordMapping, LookedUp, Creates, MappingsProper
  <2> QED
    BY <2>1, MappingsFrom DEF MappingsProper
<1> QED
  BY <1>1, HandlersProper, GroupsProper DEF MappingsProper, Proper, Local, MaxCount

(* An answer to subscribe is a proper arrangement. *)
LEMMA NextAnswersProper ==
  ASSUME ControllerTypes, MappingsProper, AnswersProper, [Next]_vars
  PROVE  AnswersProper'
<1>1. ASSUME NEW c \in Client, NEW answer, answers' = [answers EXCEPT ![c] = answer],
             answer.kind = "arrangement" => Arrived(answer)
      PROVE  AnswersProper'
  <2>1. answers' = [d \in Client |-> answers'[d]]
    BY <1>1 DEF AnswersProper
  <2>2. ASSUME NEW d \in Client
        PROVE  answers'[d] = IF d = c THEN answer ELSE answers[d]
    BY <1>1 DEF AnswersProper
  <2>3. ASSUME NEW d \in Client, answers'[d].kind = "arrangement"
        PROVE  Arrived(answers'[d])
    BY <1>1, <2>2, <2>3 DEF AnswersProper
  <2> QED
    BY <2>1, <2>3 DEF AnswersProper, Arrived, Proper, Local, MaxCount, Assigned, Member, Broker
<1>2. CASE answers' = answers
  BY <1>2 DEF AnswersProper, Arrived, Proper, Local, MaxCount, Assigned, Member, Broker
<1>3. ASSUME NEW c \in Client, NEW t \in Topic, NEW g \in Group, Subscribe(c, t, g)
      PROVE  AnswersProper'
  <2>1. PICK d \in Seq(Assigned), all \in Seq(Member), n \in Nat :
          /\ Proper(d)
          /\ groups' = With(groups, g,
               [consumers |-> all, topics |-> With(GroupOf(g).topics, t, d)])
          /\ answers' = [answers EXCEPT ![c] =
               [kind |-> "arrangement", topic |-> t, group |-> g, id |-> n, arrangement |-> d]]
    BY <1>3, SubscribeArranges
  <2>2. PICK answer : answer =
          [kind |-> "arrangement", topic |-> t, group |-> g, id |-> n, arrangement |-> d]
    OBVIOUS
  <2>3. Arrived(answer)
    BY <2>1, <2>2 DEF Arrived
  <2> QED
    BY <1>1, <2>1, <2>2, <2>3
<1>4. ASSUME NEW c \in Client, RecordMapping(c)
      PROVE  AnswersProper'
  <2>1. PICK answer : answer =
          [kind |-> "mapping", topic |-> handler[c].topic, mapping |-> handler[c].mapping]
    OBVIOUS
  <2>2. answers' = [answers EXCEPT ![c] = answer] /\ answer.kind # "arrangement"
    BY <1>4, <2>1 DEF RecordMapping
  <2> QED
    BY <1>1, <2>2
<1>5. ASSUME NEW c \in Client, ReadAnswer(c)
      PROVE  AnswersProper'
  <2>1. answers' = [answers EXCEPT ![c] = NoAnswer] /\ NoAnswer.kind # "arrangement"
    BY <1>5 DEF ReadAnswer, NoAnswer
  <2> QED
    BY <1>1, <2>1
<1>6. ASSUME NEW b \in Broker, Register(b) \/ LoseBroker(b)
      PROVE  answers' = answers
  BY <1>6 DEF Register, NameBroker, RefuseController, KeepSocket, LoseBroker
<1>7. ASSUME NEW c \in Client, NEW t \in Topic, NEW n \in Counts, CreateTopic(c, t, n)
      PROVE  answers' = answers
  BY <1>7 DEF CreateTopic
<1>8. ASSUME NEW c \in Client, NEW t \in Topic, NEW g \in Group, SubscribeUnknown(c, t, g)
      PROVE  answers' = answers
  BY <1>8 DEF SubscribeUnknown
<1>9. ASSUME NEW c \in Client, PlaceShare(c) \/ (\E b \in Broker : SendBatch(c, b))
      PROVE  answers' = answers
  BY <1>9 DEF PlaceShare, SendBatch
<1>10. ASSUME NEW m \in inserts, InsertTopic(m)
       PROVE  answers' = answers
  BY <1>10 DEF InsertTopic
<1> QED
  BY ControllerSteps, <1>2, <1>3, <1>4, <1>5, <1>6, <1>7, <1>8, <1>9, <1>10 DEF vars

----------------------------------------------------------------------------
(* Assignments and lists. *)

(* The steps of the clients and the brokers' lists are steps of the controller's
   module, or leave its variables alone. *)
LEMMA GroupsRefine ==
  /\ GroupsInit => Init
  /\ [GroupsNext]_allVars => [Next]_vars
<1>1. ASSUME GroupsNext PROVE [Next]_vars
  <2>1. CASE AtController
    BY <2>1 DEF AtController, Next
  <2>2. ASSUME NEW c \in Client, PassOn(c) \/ ReadMapping(c) PROVE Next
    BY <2>2 DEF PassOn, ReadMapping, Next
  <2>3. ASSUME NEW m \in inserts, RenewPartitions(m) PROVE Next
    BY <2>3 DEF RenewPartitions, Next
  <2>4. ASSUME NEW a \in assignments, RejectAssignment(a) \/ Clear(a) \/ Push(a)
        PROVE  UNCHANGED vars
    BY <2>4 DEF RejectAssignment, Clear, Push
  <2> QED
    BY <1>1, <2>1, <2>2, <2>3, <2>4 DEF GroupsNext
<1>2. ASSUME UNCHANGED allVars PROVE UNCHANGED vars
  BY <1>2 DEF allVars
<1> QED
  BY <1>1, <1>2 DEF GroupsInit

(* What a step does to the lists and the assignments. *)
LEMMA GroupsSteps ==
  ASSUME [GroupsNext]_allVars
  PROVE  \/ UNCHANGED listVars
         \/ \E c \in Client : PassOn(c)
         \/ \E m \in inserts : RenewPartitions(m)
         \/ \E a \in assignments : RejectAssignment(a)
         \/ \E a \in assignments : Clear(a)
         \/ \E a \in assignments : Push(a)
BY DEF GroupsNext, ReadMapping, allVars

LatestProper == \A t \in DOMAIN latest : Arrived(latest[t])

(* What an assignment says. *)
LEMMA AssignmentFields ==
  ASSUME GroupsTypeOK, NEW a \in assignments
  PROVE  /\ a.sender \in Client /\ a.broker \in Broker /\ a.topic \in Topic /\ a.local \in Local
         /\ a.group \in Group /\ a.id \in Nat /\ a.made \in Nat /\ a.stage \in {"sent", "cleared"}
         /\ [a EXCEPT !.stage = "cleared", !.made = made[a.broker][a.topic]] \in Assignment
         /\ lists[a.broker][a.topic][a.local] \in Seq(Listed)
<1> DEFINE L == Local
           B == Broker
           S == Seq(Listed)
<1>1. a \in Assignment /\ made \in [B -> [Topic -> Nat]]
  BY DEF GroupsTypeOK
<1>2. a \in [sender : Client, broker : B, topic : Topic, local : L, group : Group,
             id : Nat, by : Nat, stage : {"sent", "cleared"}, made : Nat]
  BY <1>1 DEF Assignment
<1>3. lists \in [B -> [Topic -> [L -> S]]]
  BY DEF GroupsTypeOK
<1> HIDE DEF L, B, S
<1>4. /\ a.sender \in Client /\ a.broker \in B /\ a.topic \in Topic /\ a.local \in L
      /\ a.group \in Group /\ a.id \in Nat /\ a.made \in Nat /\ a.stage \in {"sent", "cleared"}
  BY <1>2
<1>5. made[a.broker][a.topic] \in Nat /\ lists[a.broker][a.topic][a.local] \in S
  BY <1>1, <1>3, <1>4
<1>6. [a EXCEPT !.stage = "cleared", !.made = made[a.broker][a.topic]] \in
        [sender : Client, broker : B, topic : Topic, local : L, group : Group,
         id : Nat, by : Nat, stage : {"sent", "cleared"}, made : Nat]
  BY <1>2, <1>5
<1> QED
  BY <1>4, <1>5, <1>6 DEF L, B, S, Assignment

(* The assignments for an arrangement. *)
Sent(c, answer) ==
  {[sender |-> c, broker |-> answer.arrangement[i].broker, topic |-> answer.topic,
    local |-> answer.arrangement[i].local, group |-> answer.group,
    id |-> answer.arrangement[i].consumer.id, by |-> answer.id, stage |-> "sent",
    made |-> 0]
   : i \in DOMAIN answer.arrangement}

LEMMA PassOnStep ==
  ASSUME AnswersProper, NEW c \in Client, PassOn(c)
  PROVE  \E answer :
           /\ Arrived(answer)
           /\ listeners' = [listeners EXCEPT ![c] = @ \cup {answer.id}]
           /\ assignments' = assignments \cup Sent(c, answer)
           /\ latest' = With(latest, answer.topic, answer)
           /\ disturbed' = IF Settled(answer.topic) THEN disturbed
                             ELSE disturbed \cup {answer.topic}
           /\ UNCHANGED <<made, lists>>
<1>1. PICK answer : answer = answers[c]
  OBVIOUS
<1>2. Arrived(answer)
  BY <1>1 DEF PassOn, AnswersProper
<1>3. /\ listeners' = [listeners EXCEPT ![c] = @ \cup {answer.id}]
      /\ assignments' = assignments \cup Sent(c, answer)
      /\ latest' = With(latest, answer.topic, answer)
      /\ disturbed' = IF Settled(answer.topic) THEN disturbed ELSE disturbed \cup {answer.topic}
      /\ UNCHANGED <<made, lists>>
  BY <1>1 DEF PassOn, Sent
<1> QED
  BY <1>2, <1>3

(* An entry of an arrangement, and the assignment for it. *)
LEMMA SentFields ==
  ASSUME NEW c \in Client, NEW answer, Arrived(answer), NEW i \in DOMAIN answer.arrangement
  PROVE  LET e == answer.arrangement[i]
             a == [sender |-> c, broker |-> e.broker, topic |-> answer.topic, local |-> e.local,
                   group |-> answer.group, id |-> e.consumer.id, by |-> answer.id,
                   stage |-> "sent", made |-> 0] IN
         a \in Sent(c, answer) /\ a \in Assignment
<1> DEFINE e == answer.arrangement[i]
           a == [sender |-> c, broker |-> e.broker, topic |-> answer.topic, local |-> e.local,
                 group |-> answer.group, id |-> e.consumer.id, by |-> answer.id,
                 stage |-> "sent", made |-> 0]
<1>1. e \in Assigned
  BY DEF Arrived
<1>2. e.broker \in Broker /\ e.consumer \in Member
  BY <1>1 DEF Assigned
<1>3. e.consumer.id \in Nat
  BY <1>2 DEF Member
<1>4. e.local \in Local
  BY DEF Arrived, Proper
<1>5. a \in Sent(c, answer)
  BY DEF Sent
<1>6. answer.topic \in Topic /\ answer.group \in Group /\ answer.id \in Nat
  BY DEF Arrived
<1> HIDE DEF e
<1>7. a \in Assignment
  BY <1>2, <1>3, <1>4, <1>6 DEF Assignment
<1> QED
  BY <1>5, <1>7 DEF e

(* The lists and the assignments are typed. *)
LEMMA NextGroupsTypeOK ==
  ASSUME ControllerTypes, AnswersProper, LatestProper, GroupsTypeOK, [GroupsNext]_allVars
  PROVE  GroupsTypeOK' /\ LatestProper'
<1>1. CASE UNCHANGED listVars
  BY <1>1, ZenonT(40) DEF listVars, GroupsTypeOK, LatestProper, Arrived, Proper, Local, MaxCount,
              Assigned, Member, Broker, Assignment, Listed
<1>2. ASSUME NEW c \in Client, PassOn(c) PROVE GroupsTypeOK' /\ LatestProper'
  <2>1. PICK answer :
           /\ Arrived(answer)
           /\ listeners' = [listeners EXCEPT ![c] = @ \cup {answer.id}]
           /\ assignments' = assignments \cup Sent(c, answer)
           /\ latest' = With(latest, answer.topic, answer)
           /\ disturbed' = IF Settled(answer.topic) THEN disturbed
                             ELSE disturbed \cup {answer.topic}
           /\ UNCHANGED <<made, lists>>
    BY <1>2, PassOnStep
  <2>2. answer.id \in Nat /\ answer.topic \in Topic
    BY <2>1 DEF Arrived
  <2>3. listeners' \in [Client -> SUBSET Nat]
    BY <2>1, <2>2 DEF GroupsTypeOK
  <2>4. Sent(c, answer) \subseteq Assignment
    <3> SUFFICES ASSUME NEW a \in Sent(c, answer) PROVE a \in Assignment
      OBVIOUS
    <3>1. PICK i \in DOMAIN answer.arrangement :
            a = [sender |-> c, broker |-> answer.arrangement[i].broker, topic |-> answer.topic,
                 local |-> answer.arrangement[i].local, group |-> answer.group,
                 id |-> answer.arrangement[i].consumer.id, by |-> answer.id, stage |-> "sent",
                 made |-> 0]
      BY DEF Sent
    <3> QED
      BY <2>1, <3>1, SentFields
  <2>5. assignments' \subseteq Assignment
    BY <2>1, <2>4 DEF GroupsTypeOK
  <2>6. DOMAIN latest' \subseteq Topic /\ \A t \in DOMAIN latest' : Arrived(latest'[t])
    BY <2>1, <2>2 DEF With, GroupsTypeOK, LatestProper
  <2>7. disturbed' \subseteq Topic
    BY <2>1, <2>2 DEF GroupsTypeOK
  <2> QED
    BY <2>1, <2>3, <2>5, <2>6, <2>7 DEF GroupsTypeOK, LatestProper, Arrived, Proper, Local,
       MaxCount, Assigned, Member, Broker, Assignment, Listed
<1>3. ASSUME UNCHANGED <<listeners, latest>>, assignments' \subseteq Assignment,
             made' \in [Broker -> [Topic -> Nat]],
             lists' \in [Broker -> [Topic -> [Local -> Seq(Listed)]]],
             disturbed' \subseteq Topic
      PROVE  GroupsTypeOK' /\ LatestProper'
  BY <1>3, ZenonT(40) DEF GroupsTypeOK, LatestProper, Arrived, Proper, Local, MaxCount,
              Assigned, Member, Broker, Assignment, Listed
<1>4. ASSUME NEW b \in Broker, NEW t \in Topic, NEW l \in Local, NEW s \in Seq(Listed)
      PROVE  [lists EXCEPT ![b][t][l] = s] \in [Broker -> [Topic -> [Local -> Seq(Listed)]]]
  <2> DEFINE S == Seq(Listed)
  <2>1. lists \in [Broker -> [Topic -> [Local -> S]]] /\ s \in S
    BY DEF GroupsTypeOK
  <2> HIDE DEF S
  <2>2. [lists EXCEPT ![b][t][l] = s] \in [Broker -> [Topic -> [Local -> S]]]
    BY <2>1
  <2> QED
    BY <2>2 DEF S
<1>5. ASSUME NEW m \in inserts, RenewPartitions(m) PROVE GroupsTypeOK' /\ LatestProper'
  <2>1. m \in Insert
    BY DEF ControllerTypes, CallsTyped
  <2>2. m.broker \in Broker /\ m.topic \in Topic /\ m.call \in Nat
    BY <2>1 DEF Insert
  <2>3. made' \in [Broker -> [Topic -> Nat]]
    BY <1>5, <2>2 DEF RenewPartitions, GroupsTypeOK
  <2>4. lists' \in [Broker -> [Topic -> [Local -> Seq(Listed)]]]
    <3> DEFINE S == Seq(Listed)
    <3>1. lists \in [Broker -> [Topic -> [Local -> S]]] /\ <<>> \in S
      BY DEF GroupsTypeOK
    <3> HIDE DEF S
    <3>2. lists' \in [Broker -> [Topic -> [Local -> S]]]
      BY <1>5, <2>2, <3>1 DEF RenewPartitions
    <3> QED
      BY <3>2 DEF S
  <2>5. disturbed' \subseteq Topic
    BY <1>5, <2>2 DEF RenewPartitions, GroupsTypeOK
  <2> QED
    BY <1>3, <1>5, <2>3, <2>4, <2>5 DEF RenewPartitions, GroupsTypeOK
<1>6. ASSUME NEW a \in assignments, RejectAssignment(a) PROVE GroupsTypeOK' /\ LatestProper'
  <2>1. a.topic \in Topic
    BY AssignmentFields
  <2> QED
    BY <1>3, <1>6, <2>1 DEF RejectAssignment, GroupsTypeOK
<1>7. ASSUME NEW a \in assignments, Clear(a) PROVE GroupsTypeOK' /\ LatestProper'
  <2>1. /\ a.broker \in Broker /\ a.topic \in Topic /\ a.local \in Local
        /\ [a EXCEPT !.stage = "cleared", !.made = made[a.broker][a.topic]] \in Assignment
    BY AssignmentFields
  <2>2. <<>> \in Seq(Listed)
    OBVIOUS
  <2>3. lists' \in [Broker -> [Topic -> [Local -> Seq(Listed)]]]
    BY <1>4, <1>7, <2>1, <2>2 DEF Clear
  <2>4. assignments' \subseteq Assignment
    BY <1>7, <2>1 DEF Clear, GroupsTypeOK
  <2> QED
    BY <1>3, <1>7, <2>3, <2>4 DEF Clear, GroupsTypeOK
<1>8. ASSUME NEW a \in assignments, Push(a) PROVE GroupsTypeOK' /\ LatestProper'
  <2>1. /\ a.broker \in Broker /\ a.topic \in Topic /\ a.local \in Local
        /\ a.sender \in Client /\ a.id \in Nat /\ a.group \in Group
        /\ lists[a.broker][a.topic][a.local] \in Seq(Listed)
    BY AssignmentFields
  <2>2. [id |-> a.id, client |-> a.sender, group |-> a.group] \in Listed
    BY <2>1 DEF Listed
  <2>3. Append(lists[a.broker][a.topic][a.local],
               [id |-> a.id, client |-> a.sender, group |-> a.group]) \in Seq(Listed)
    BY <2>1, <2>2, AppendedSeq
  <2>4. lists' \in [Broker -> [Topic -> [Local -> Seq(Listed)]]]
    <3>1. CASE made[a.broker][a.topic] = a.made
      <4>1. lists' = [lists EXCEPT ![a.broker][a.topic][a.local] =
                        Append(lists[a.broker][a.topic][a.local],
                               [id |-> a.id, client |-> a.sender, group |-> a.group])]
        BY <1>8, <3>1 DEF Push
      <4> QED
        BY <1>4, <2>1, <2>3, <4>1
    <3>2. CASE made[a.broker][a.topic] # a.made
      BY <1>8, <3>2 DEF Push, GroupsTypeOK
    <3> QED
      BY <3>1, <3>2
  <2> QED
    BY <1>3, <1>8, <2>4 DEF Push, GroupsTypeOK
<1> QED
  BY <1>1, <1>2, <1>5, <1>6, <1>7, <1>8, GroupsSteps

----------------------------------------------------------------------------
(* What becomes of an arrangement. *)

At(a, e) == a.broker = e.broker /\ a.local = e.local

(* An assignment is for a partition of the arrangement that was passed on last. *)
MeantFor(a, t, e) ==
  /\ At(a, e) /\ a.id = e.consumer.id /\ a.group = latest[t].group
  /\ latest[t].id \in listeners[a.sender]

(* One that has cleared its list has it to itself. *)
Begun(a) ==
  a.stage = "cleared" => /\ a.made = made[a.broker][a.topic]
                         /\ lists[a.broker][a.topic][a.local] = <<>>

ListIs(t, e, list) ==
  /\ Len(list) = 1
  /\ list[1].id = e.consumer.id /\ list[1].group = latest[t].group
  /\ list[1].client \in Client /\ latest[t].id \in listeners[list[1].client]

Lists(t, e) == ListIs(t, e, lists[e.broker][t][e.local])

(* Each partition has its assignment underway, alone, or its consumer listed. *)
PassedOn(t) ==
  /\ \A a \in Pending(t) : Begun(a) /\ \E i \in DOMAIN latest[t].arrangement :
                                         MeantFor(a, t, latest[t].arrangement[i])
  /\ \A a, b \in Pending(t) : At(a, b) => a = b
  /\ \A i \in DOMAIN latest[t].arrangement :
       \/ \E a \in Pending(t) : At(a, latest[t].arrangement[i])
       \/ Lists(t, latest[t].arrangement[i])

ListedInv == \A t \in DOMAIN latest \ disturbed : PassedOn(t)

(* What is kept of a topic whose lists and assignments a step leaves alone. *)
LEMMA PassedOnStays ==
  ASSUME GroupsTypeOK, LatestProper, NEW t \in DOMAIN latest, PassedOn(t),
         t \in DOMAIN latest', latest'[t] = latest[t], Pending(t)' = Pending(t),
         \A b \in Broker : made'[b][t] = made[b][t] /\ lists'[b][t] = lists[b][t],
         \A c \in Client : listeners[c] \subseteq listeners'[c]
  PROVE  PassedOn(t)'
<1>1. \A a \in Pending(t) : /\ a \in assignments /\ a.topic = t /\ a.broker \in Broker
                            /\ a.sender \in Client
  BY AssignmentFields DEF Pending
<1>2. PICK answer : answer = latest[t]
  OBVIOUS
<1>3. \A i \in DOMAIN answer.arrangement : answer.arrangement[i].broker \in Broker
  <2>1. answer.arrangement \in Seq(Assigned)
    BY <1>2 DEF LatestProper, Arrived
  <2>2. \A i \in DOMAIN answer.arrangement : answer.arrangement[i] \in Assigned
    BY <2>1
  <2> QED
    BY <2>2 DEF Assigned
<1>4. PICK P : P = Pending(t)
  OBVIOUS
<1>5. Pending(t)' = P /\ latest'[t] = answer
  BY <1>2, <1>4
<1>6. /\ \A a \in P : Begun(a) /\ \E i \in DOMAIN answer.arrangement :
                                     MeantFor(a, t, answer.arrangement[i])
      /\ \A a, b \in P : At(a, b) => a = b
      /\ \A i \in DOMAIN answer.arrangement :
           (\E a \in P : At(a, answer.arrangement[i])) \/ Lists(t, answer.arrangement[i])
  BY <1>2, <1>4 DEF PassedOn
<1>7. ASSUME NEW a \in P PROVE Begun(a)'
  BY <1>1, <1>4, <1>6 DEF Begun
<1>8. ASSUME NEW a \in P, NEW e, MeantFor(a, t, e) PROVE MeantFor(a, t, e)'
  BY <1>1, <1>4, <1>8 DEF MeantFor, At
<1>9. ASSUME NEW e, e.broker \in Broker, Lists(t, e) PROVE Lists(t, e)'
  BY <1>9 DEF Lists, ListIs
<1> QED
  BY <1>3, <1>5, <1>6, <1>7, <1>8, <1>9 DEF PassedOn, At

(* An arrangement is passed on when nothing of the topic is underway: then there
   is one assignment for each of its partitions, and nothing else. *)
LEMMA PassOnListed ==
  ASSUME GroupsTypeOK, LatestProper, AnswersProper, ListedInv, NEW c \in Client, PassOn(c)
  PROVE  ListedInv'
<1>1. PICK answer :
         /\ Arrived(answer)
         /\ listeners' = [listeners EXCEPT ![c] = @ \cup {answer.id}]
         /\ assignments' = assignments \cup Sent(c, answer)
         /\ latest' = With(latest, answer.topic, answer)
         /\ disturbed' = IF Settled(answer.topic) THEN disturbed
                           ELSE disturbed \cup {answer.topic}
         /\ UNCHANGED <<made, lists>>
  BY PassOnStep
<1> SUFFICES ASSUME NEW t \in DOMAIN latest' \ disturbed' PROVE PassedOn(t)'
  BY DEF ListedInv
<1>2. \A a \in Sent(c, answer) : a.topic = answer.topic
  BY DEF Sent
<1>3. \A d \in Client : listeners[d] \subseteq listeners'[d]
  BY <1>1 DEF GroupsTypeOK
<1>4. CASE t # answer.topic
  <2>1. t \in DOMAIN latest \ disturbed /\ latest'[t] = latest[t]
    BY <1>1, <1>4 DEF With
  <2>2. Pending(t)' = Pending(t)
    BY <1>1, <1>2, <1>4 DEF Pending
  <2> QED
    BY <1>1, <1>3, <2>1, <2>2, PassedOnStays DEF ListedInv
<1>5. CASE t = answer.topic
  <2>1. Pending(t) = {} /\ latest'[t] = answer
    BY <1>1, <1>5 DEF With, Settled
  <2>2. Pending(t)' = Sent(c, answer)
    BY <1>1, <1>2, <1>5, <2>1 DEF Pending
  <2>3. answer.id \in listeners'[c]
    BY <1>1 DEF GroupsTypeOK
  <2>4. ASSUME NEW a \in Sent(c, answer)
        PROVE  /\ Begun(a)'
               /\ \E i \in DOMAIN answer.arrangement : MeantFor(a, t, answer.arrangement[i])'
    <3>1. PICK i \in DOMAIN answer.arrangement :
            a = [sender |-> c, broker |-> answer.arrangement[i].broker, topic |-> answer.topic,
                 local |-> answer.arrangement[i].local, group |-> answer.group,
                 id |-> answer.arrangement[i].consumer.id, by |-> answer.id, stage |-> "sent",
                 made |-> 0]
      BY DEF Sent
    <3>2. /\ a.broker = answer.arrangement[i].broker /\ a.local = answer.arrangement[i].local
          /\ a.id = answer.arrangement[i].consumer.id /\ a.group = answer.group
          /\ a.sender = c /\ a.stage = "sent"
      BY <3>1
    <3>3. MeantFor(a, t, answer.arrangement[i])'
      BY <2>1, <2>3, <3>2 DEF MeantFor, At
    <3> QED
      BY <3>2, <3>3 DEF Begun
  <2>5. ASSUME NEW a \in Sent(c, answer), NEW b \in Sent(c, answer), At(a, b)
        PROVE  a = b
    <3>1. PICK i \in DOMAIN answer.arrangement :
            a = [sender |-> c, broker |-> answer.arrangement[i].broker, topic |-> answer.topic,
                 local |-> answer.arrangement[i].local, group |-> answer.group,
                 id |-> answer.arrangement[i].consumer.id, by |-> answer.id, stage |-> "sent",
                 made |-> 0]
      BY DEF Sent
    <3>2. PICK j \in DOMAIN answer.arrangement :
            b = [sender |-> c, broker |-> answer.arrangement[j].broker, topic |-> answer.topic,
                 local |-> answer.arrangement[j].local, group |-> answer.group,
                 id |-> answer.arrangement[j].consumer.id, by |-> answer.id, stage |-> "sent",
                 made |-> 0]
      BY DEF Sent
    <3>3. /\ answer.arrangement[i].broker = answer.arrangement[j].broker
          /\ answer.arrangement[i].local = answer.arrangement[j].local
      BY <2>5, <3>1, <3>2 DEF At
    <3>4. i = j
      BY <1>1, <3>3 DEF Arrived, Proper
    <3> QED
      BY <3>1, <3>2, <3>4
  <2>6. ASSUME NEW i \in DOMAIN answer.arrangement
        PROVE  \E a \in Sent(c, answer) : At(a, answer.arrangement[i])
    <3>1. PICK a : a = [sender |-> c, broker |-> answer.arrangement[i].broker,
                        topic |-> answer.topic, local |-> answer.arrangement[i].local,
                        group |-> answer.group, id |-> answer.arrangement[i].consumer.id,
                        by |-> answer.id, stage |-> "sent", made |-> 0]
      OBVIOUS
    <3>2. a \in Sent(c, answer)
      BY <1>1, <3>1, SentFields
    <3>3. At(a, answer.arrangement[i])
      BY <3>1 DEF At
    <3> QED
      BY <3>2, <3>3
  <2> QED
    BY <2>1, <2>2, <2>4, <2>5, <2>6 DEF PassedOn, At
<1> QED
  BY <1>4, <1>5

(* A step that writes one list leaves the others alone. *)
Writes(b, u, l, s) == lists' = [lists EXCEPT ![b][u][l] = s]

LEMMA OneListWritten ==
  ASSUME GroupsTypeOK, NEW b \in Broker, NEW u \in Topic, NEW l \in Local, NEW s,
         Writes(b, u, l, s)
  PROVE  /\ lists'[b][u][l] = s
         /\ \A c \in Broker, t \in Topic : t # u => lists'[c][t] = lists[c][t]
         /\ \A c \in Broker, m \in Local :
              ~(c = b /\ m = l) => lists'[c][u][m] = lists[c][u][m]
<1> DEFINE S == Seq(Listed)
<1>1. lists \in [Broker -> [Topic -> [Local -> S]]]
  BY DEF GroupsTypeOK
<1> HIDE DEF S
<1> QED
  BY <1>1 DEF Writes

(* The assignments and entries of a topic that is not disturbed, by name. *)
LEMMA OfTopic ==
  ASSUME GroupsTypeOK, LatestProper, NEW t \in DOMAIN latest, PassedOn(t)
  PROVE  /\ \A i \in DOMAIN latest[t].arrangement :
              latest[t].arrangement[i].broker \in Broker /\ latest[t].arrangement[i].local \in Local
         /\ \A i, j \in DOMAIN latest[t].arrangement :
              At(latest[t].arrangement[i], latest[t].arrangement[j]) => i = j
         /\ \A a \in Pending(t) :
              /\ a \in assignments /\ a.topic = t /\ a.broker \in Broker /\ a.local \in Local
              /\ a.sender \in Client
         /\ t \in Topic
<1>1. PICK answer : answer = latest[t]
  OBVIOUS
<1>2. answer.arrangement \in Seq(Assigned) /\ Proper(answer.arrangement)
  BY <1>1 DEF LatestProper, Arrived
<1>3. \A i \in DOMAIN answer.arrangement : answer.arrangement[i] \in Assigned
  BY <1>2
<1>4. \A i \in DOMAIN answer.arrangement :
        answer.arrangement[i].broker \in Broker /\ answer.arrangement[i].local \in Local
  BY <1>2, <1>3 DEF Assigned, Proper
<1>5. \A i, j \in DOMAIN answer.arrangement :
        At(answer.arrangement[i], answer.arrangement[j]) => i = j
  BY <1>2 DEF Proper, At
<1>6. \A a \in Pending(t) :
        /\ a \in assignments /\ a.topic = t /\ a.broker \in Broker /\ a.local \in Local
        /\ a.sender \in Client
  BY AssignmentFields DEF Pending
<1> QED
  BY <1>1, <1>4, <1>5, <1>6 DEF GroupsTypeOK

(* A list is cleared: the assignment has it to itself, and stays where it is. *)
LEMMA ClearListed ==
  ASSUME GroupsTypeOK, LatestProper, ListedInv, NEW a \in assignments, Clear(a)
  PROVE  ListedInv'
<1>1. /\ a.broker \in Broker /\ a.topic \in Topic /\ a.local \in Local /\ a \in Assignment
  BY AssignmentFields DEF GroupsTypeOK
<1>2. PICK b : b = [a EXCEPT !.stage = "cleared", !.made = made[a.broker][a.topic]]
  OBVIOUS
<1>3. /\ b.broker = a.broker /\ b.topic = a.topic /\ b.local = a.local /\ b.id = a.id
      /\ b.group = a.group /\ b.sender = a.sender
      /\ b.stage = "cleared" /\ b.made = made[a.broker][a.topic]
  BY <1>1, <1>2 DEF Assignment
<1>4. /\ assignments' = (assignments \ {a}) \cup {b}
      /\ Writes(a.broker, a.topic, a.local, <<>>)
      /\ UNCHANGED <<listeners, made, latest, disturbed>>
  BY <1>2 DEF Clear, Writes
<1>5. /\ lists'[a.broker][a.topic][a.local] = <<>>
      /\ \A c \in Broker, t \in Topic : t # a.topic => lists'[c][t] = lists[c][t]
      /\ \A c \in Broker, m \in Local :
           ~(c = a.broker /\ m = a.local) => lists'[c][a.topic][m] = lists[c][a.topic][m]
  BY <1>1, <1>4, OneListWritten
<1> SUFFICES ASSUME NEW t \in DOMAIN latest' \ disturbed' PROVE PassedOn(t)'
  BY DEF ListedInv
<1>6. t \in DOMAIN latest \ disturbed /\ PassedOn(t) /\ t \in Topic
  BY <1>4 DEF ListedInv, GroupsTypeOK
<1>7. CASE t # a.topic
  <2>1. Pending(t)' = Pending(t)
    BY <1>3, <1>4, <1>7 DEF Pending
  <2> QED
    BY <1>4, <1>5, <1>6, <1>7, <2>1, PassedOnStays
<1>8. CASE t = a.topic
  <2>1. PICK P, answer : P = Pending(t) /\ answer = latest[t]
    OBVIOUS
  <2>2. /\ \A x \in P : Begun(x) /\ \E i \in DOMAIN answer.arrangement :
                                      MeantFor(x, t, answer.arrangement[i])
        /\ \A x, y \in P : At(x, y) => x = y
        /\ \A i \in DOMAIN answer.arrangement :
             (\E x \in P : At(x, answer.arrangement[i])) \/ Lists(t, answer.arrangement[i])
    BY <1>6, <2>1 DEF PassedOn
  <2>3. /\ \A i \in DOMAIN answer.arrangement :
             answer.arrangement[i].broker \in Broker /\ answer.arrangement[i].local \in Local
        /\ \A x \in P : x.topic = t /\ x.broker \in Broker /\ x.local \in Local
    BY <1>6, <2>1, OfTopic
  <2>4. Pending(t)' = (P \ {a}) \cup {b} /\ latest'[t] = answer /\ a \in P
    BY <1>3, <1>4, <1>8, <2>1 DEF Pending
  <2>5. ASSUME NEW x \in (P \ {a}) \cup {b} PROVE Begun(x)'
    <3>1. CASE x = b
      BY <1>3, <1>4, <1>5, <3>1 DEF Begun
    <3>2. CASE x \in P \ {a}
      <4>1. ~At(x, a)
        BY <2>2, <2>4, <3>2
      <4> QED
        BY <1>4, <1>5, <1>8, <2>2, <2>3, <3>2, <4>1 DEF Begun, At
    <3> QED
      BY <2>5, <3>1, <3>2
  <2>6. ASSUME NEW x \in (P \ {a}) \cup {b}
        PROVE  \E i \in DOMAIN answer.arrangement : MeantFor(x, t, answer.arrangement[i])'
    <3>1. \A y, e : MeantFor(y, t, e) => MeantFor(y, t, e)'
      BY <1>4 DEF MeantFor, At
    <3>2. \A e : MeantFor(a, t, e) => MeantFor(b, t, e)
      BY <1>3 DEF MeantFor, At
    <3> QED
      BY <2>2, <2>4, <2>6, <3>1, <3>2
  <2>7. \A x, y \in (P \ {a}) \cup {b} : At(x, y) => x = y
    BY <1>3, <2>2, <2>4 DEF At
  <2>8. ASSUME NEW i \in DOMAIN answer.arrangement
        PROVE  \/ \E x \in (P \ {a}) \cup {b} : At(x, answer.arrangement[i])
               \/ Lists(t, answer.arrangement[i])'
    <3>1. PICK e : e = answer.arrangement[i]
      OBVIOUS
    <3>2. CASE At(a, e)
      BY <1>3, <3>1, <3>2 DEF At
    <3>3. CASE ~At(a, e)
      <4>1. e.broker \in Broker /\ e.local \in Local
        BY <2>3, <3>1
      <4>2. lists'[e.broker][t][e.local] = lists[e.broker][t][e.local]
        BY <1>5, <1>8, <3>3, <4>1 DEF At
      <4>3. Lists(t, e) => Lists(t, e)'
        BY <1>4, <4>2 DEF Lists, ListIs
      <4> QED
        BY <2>2, <3>1, <3>3, <4>3
    <3> QED
      BY <3>2, <3>3
  <2> QED
    BY <2>4, <2>5, <2>6, <2>7, <2>8 DEF PassedOn, At
<1> QED
  BY <1>7, <1>8

(* A consumer is entered: it is the one its partition was to have. *)
LEMMA PushListed ==
  ASSUME GroupsTypeOK, LatestProper, ListedInv, NEW a \in assignments, Push(a)
  PROVE  ListedInv'
<1>1. /\ a.broker \in Broker /\ a.topic \in Topic /\ a.local \in Local
  BY AssignmentFields
<1>2. PICK k : k = [id |-> a.id, client |-> a.sender, group |-> a.group]
  OBVIOUS
<1>3. PICK s : s = IF made[a.broker][a.topic] = a.made
                     THEN Append(lists[a.broker][a.topic][a.local], k)
                     ELSE lists[a.broker][a.topic][a.local]
  OBVIOUS
<1>4. /\ assignments' = assignments \ {a}
      /\ UNCHANGED <<listeners, made, latest, disturbed>>
      /\ a.stage = "cleared"
  BY DEF Push
<1>5. /\ lists'[a.broker][a.topic][a.local] = s
      /\ \A c \in Broker, t \in Topic : t # a.topic => lists'[c][t] = lists[c][t]
      /\ \A c \in Broker, m \in Local :
           ~(c = a.broker /\ m = a.local) => lists'[c][a.topic][m] = lists[c][a.topic][m]
  <2>1. CASE made[a.broker][a.topic] = a.made
    <3>1. Writes(a.broker, a.topic, a.local, s)
      BY <1>2, <1>3, <2>1 DEF Push, Writes
    <3> QED
      BY <1>1, <3>1, OneListWritten
  <2>2. CASE made[a.broker][a.topic] # a.made
    BY <1>3, <2>2 DEF Push
  <2> QED
    BY <2>1, <2>2
<1> SUFFICES ASSUME NEW t \in DOMAIN latest' \ disturbed' PROVE PassedOn(t)'
  BY DEF ListedInv
<1>6. t \in DOMAIN latest \ disturbed /\ PassedOn(t) /\ t \in Topic
  BY <1>4 DEF ListedInv, GroupsTypeOK
<1>7. CASE t # a.topic
  <2>1. Pending(t)' = Pending(t)
    BY <1>4, <1>7 DEF Pending
  <2> QED
    BY <1>4, <1>5, <1>6, <1>7, <2>1, PassedOnStays
<1>8. CASE t = a.topic
  <2>1. PICK P, answer : P = Pending(t) /\ answer = latest[t]
    OBVIOUS
  <2>2. /\ \A x \in P : Begun(x) /\ \E i \in DOMAIN answer.arrangement :
                                      MeantFor(x, t, answer.arrangement[i])
        /\ \A x, y \in P : At(x, y) => x = y
        /\ \A i \in DOMAIN answer.arrangement :
             (\E x \in P : At(x, answer.arrangement[i])) \/ Lists(t, answer.arrangement[i])
    BY <1>6, <2>1 DEF PassedOn
  <2>3. /\ \A i \in DOMAIN answer.arrangement :
             answer.arrangement[i].broker \in Broker /\ answer.arrangement[i].local \in Local
        /\ \A i, j \in DOMAIN answer.arrangement :
             At(answer.arrangement[i], answer.arrangement[j]) => i = j
        /\ \A x \in P : /\ x.topic = t /\ x.broker \in Broker /\ x.local \in Local
                        /\ x.sender \in Client
    BY <1>6, <2>1, OfTopic
  <2>4. Pending(t)' = P \ {a} /\ latest'[t] = answer /\ a \in P
    BY <1>4, <1>8, <2>1 DEF Pending
  <2>5. ASSUME NEW x \in P \ {a} PROVE Begun(x)'
    <3>1. ~At(x, a)
      BY <2>2, <2>4
    <3> QED
      BY <1>4, <1>5, <1>8, <2>2, <2>3, <3>1 DEF Begun, At
  <2>6. ASSUME NEW x \in P \ {a}
        PROVE  \E i \in DOMAIN answer.arrangement : MeantFor(x, t, answer.arrangement[i])'
    <3>1. \A e : MeantFor(x, t, e) => MeantFor(x, t, e)'
      BY <1>4 DEF MeantFor, At
    <3> QED
      BY <2>2, <3>1
  <2>7. ASSUME NEW i \in DOMAIN answer.arrangement
        PROVE  \/ \E x \in P \ {a} : At(x, answer.arrangement[i])
               \/ Lists(t, answer.arrangement[i])'
    <3>1. PICK e : e = answer.arrangement[i]
      OBVIOUS
    <3>2. CASE At(a, e)
      <4>1. PICK j \in DOMAIN answer.arrangement : MeantFor(a, t, answer.arrangement[j])
        BY <2>2, <2>4
      <4>2. j = i
        BY <2>3, <3>1, <3>2, <4>1 DEF MeantFor, At
      <4>3. MeantFor(a, t, e)
        BY <3>1, <4>1, <4>2
      <4>4. s = Append(<<>>, k)
        BY <1>3, <1>4, <2>2, <2>4 DEF Begun
      <4>5. Len(s) = 1 /\ s[1] = k
        BY <4>4
      <4>6. lists'[e.broker][t][e.local] = s
        BY <1>5, <1>8, <3>2 DEF At
      <4>7. ListIs(t, e, s)
        BY <1>2, <2>3, <2>4, <4>3, <4>5 DEF ListIs, MeantFor
      <4> QED
        BY <1>4, <3>1, <4>6, <4>7 DEF Lists, ListIs
    <3>3. CASE ~At(a, e)
      <4>1. e.broker \in Broker /\ e.local \in Local
        BY <2>3, <3>1
      <4>2. lists'[e.broker][t][e.local] = lists[e.broker][t][e.local]
        BY <1>5, <1>8, <3>3, <4>1 DEF At
      <4>3. Lists(t, e) => Lists(t, e)'
        BY <1>4, <4>2 DEF Lists, ListIs
      <4> QED
        BY <2>2, <3>1, <3>3, <4>3
    <3> QED
      BY <3>2, <3>3
  <2> QED
    BY <2>2, <2>4, <2>5, <2>6, <2>7 DEF PassedOn, At
<1> QED
  BY <1>7, <1>8

(* Every step keeps what becomes of the arrangements. *)
LEMMA NextListedInv ==
  ASSUME ControllerTypes, AnswersProper, LatestProper, GroupsTypeOK, ListedInv, [GroupsNext]_allVars
  PROVE  ListedInv'
<1>1. ASSUME NEW t \in DOMAIN latest' \ disturbed', UNCHANGED <<listeners, latest>>,
             Pending(t)' = Pending(t), disturbed \subseteq disturbed',
             \A b \in Broker : made'[b][t] = made[b][t] /\ lists'[b][t] = lists[b][t]
      PROVE  PassedOn(t)'
  <2>1. t \in DOMAIN latest \ disturbed /\ latest'[t] = latest[t] /\ t \in DOMAIN latest'
    BY <1>1
  <2>2. \A c \in Client : listeners[c] \subseteq listeners'[c]
    BY <1>1
  <2> QED
    BY <1>1, <2>1, <2>2, PassedOnStays DEF ListedInv
<1>2. CASE UNCHANGED listVars
  <2>1. UNCHANGED <<listeners, assignments, made, lists, latest, disturbed>>
    BY <1>2 DEF listVars
  <2> SUFFICES ASSUME NEW t \in DOMAIN latest' \ disturbed' PROVE PassedOn(t)'
    BY DEF ListedInv
  <2>2. Pending(t)' = Pending(t)
    BY <2>1 DEF Pending
  <2> QED
    BY <1>1, <2>1, <2>2
<1>3. ASSUME NEW m \in inserts, RenewPartitions(m) PROVE ListedInv'
  <2> SUFFICES ASSUME NEW t \in DOMAIN latest' \ disturbed' PROVE PassedOn(t)'
    BY DEF ListedInv
  <2>1. t # m.topic /\ disturbed \subseteq disturbed'
    BY <1>3 DEF RenewPartitions
  <2>2. Pending(t)' = Pending(t) /\ UNCHANGED <<listeners, latest>>
    BY <1>3 DEF RenewPartitions, Pending
  <2>3. \A b \in Broker : made'[b][t] = made[b][t] /\ lists'[b][t] = lists[b][t]
    BY <1>3, <2>1 DEF RenewPartitions, GroupsTypeOK
  <2> QED
    BY <1>1, <2>1, <2>2, <2>3
<1>4. ASSUME NEW a \in assignments, RejectAssignment(a) PROVE ListedInv'
  <2> SUFFICES ASSUME NEW t \in DOMAIN latest' \ disturbed' PROVE PassedOn(t)'
    BY DEF ListedInv
  <2>1. t # a.topic /\ disturbed \subseteq disturbed'
    BY <1>4 DEF RejectAssignment
  <2>2. Pending(t)' = Pending(t)
    BY <1>4, <2>1 DEF RejectAssignment, Pending
  <2> QED
    BY <1>1, <1>4, <2>1, <2>2 DEF RejectAssignment
<1> QED
  BY <1>2, <1>3, <1>4, GroupsSteps, PassOnListed, ClearListed, PushListed

(* The inductive invariant of the lists. *)
GroupsInv ==
  /\ ControllerTypes /\ SharesSoFar /\ MappingsProper /\ AnswersProper
  /\ GroupsTypeOK /\ LatestProper /\ ListedInv

LEMMA InitGroupsInv == GroupsInit => GroupsInv
<1> SUFFICES ASSUME GroupsInit PROVE GroupsInv
  OBVIOUS
<1>1. Init
  BY DEF GroupsInit
<1>2. ControllerTypes
  BY <1>1, InitControllerTypes
<1>3. SharesSoFar /\ MappingsProper
  BY <1>1 DEF Init, SharesSoFar, MappingsProper, Creates, Idle, Empty
<1>4. AnswersProper
  BY <1>1 DEF Init, AnswersProper, NoAnswer
<1>5. GroupsTypeOK
  <2>1. <<>> \in Seq(Listed)
    OBVIOUS
  <2>2. listeners \in [Client -> SUBSET Nat] /\ assignments \subseteq Assignment
    BY DEF GroupsInit
  <2>3. made \in [Broker -> [Topic -> Nat]]
    BY DEF GroupsInit
  <2>4. lists \in [Broker -> [Topic -> [Local -> Seq(Listed)]]]
    <3> DEFINE S == Seq(Listed)
    <3> HIDE DEF S
    <3>1. <<>> \in S
      BY DEF S
    <3>2. lists \in [Broker -> [Topic -> [Local -> S]]]
      BY <3>1 DEF GroupsInit
    <3> QED
      BY <3>2 DEF S
  <2>5. DOMAIN latest = {} /\ disturbed = {}
    BY DEF GroupsInit, Empty
  <2> QED
    BY <2>2, <2>3, <2>4, <2>5 DEF GroupsTypeOK
<1>6. LatestProper /\ ListedInv
  BY DEF GroupsInit, Empty, LatestProper, ListedInv
<1> QED
  BY <1>2, <1>3, <1>4, <1>5, <1>6 DEF GroupsInv

LEMMA NextGroupsInv == GroupsInv /\ [GroupsNext]_allVars => GroupsInv'
<1> SUFFICES ASSUME GroupsInv, [GroupsNext]_allVars PROVE GroupsInv'
  OBVIOUS
<1>1. [Next]_vars
  BY GroupsRefine
<1>2. ControllerTypes'
  BY <1>1, NextControllerTypes DEF GroupsInv
<1>3. SharesSoFar' /\ MappingsProper' /\ AnswersProper'
  BY <1>1, NextSharesSoFar, NextMappingsProper, NextAnswersProper DEF GroupsInv
<1>4. GroupsTypeOK' /\ LatestProper' /\ ListedInv'
  BY NextGroupsTypeOK, NextListedInv DEF GroupsInv
<1> QED
  BY <1>2, <1>3, <1>4 DEF GroupsInv

(* What holds of the controller holds of the system of controller, clients and
   brokers' lists: the theorems of ControllerProofs are about it too. *)
THEOREM GroupsAreControlled == GroupsSpec => Spec
BY GroupsRefine, PTL DEF GroupsSpec, Spec

(* If subscribers take turns, each waiting until the assignments of the one before
   are handled, and the topic is not created again, every partition lists exactly
   the consumer of the last arrangement, under the group and at the connection of
   the client that subscribed last, whatever order the brokers take the assignments
   in (server_workers.rs, lines 471-522; client/init.rs, lines 793-898). *)
THEOREM LastSubscriberListed == GroupsSpec => []LastSubscriberIsListed
<1>1. GroupsSpec => []GroupsInv
  BY InitGroupsInv, NextGroupsInv, PTL DEF GroupsSpec
<1>2. GroupsInv => LastSubscriberIsListed
  BY DEF GroupsInv, ListedInv, PassedOn, Lists, ListIs, LastSubscriberIsListed
<1> QED
  BY <1>1, <1>2, PTL
=============================================================================
