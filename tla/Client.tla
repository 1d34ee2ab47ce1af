------------------------------- MODULE Client -------------------------------
(***************************************************************************)
(* The client library: the caller's methods, and the tasks behind them.    *)
(*                                                                         *)
(*   method -> dispatcher of the broker -> socket -> broker -> socket      *)
(*     ^         | (registers who waits)                        |          *)
(*     |         v                                              v          *)
(*     +-- background reader (select!) <-- reader of the broker's socket   *)
(*                                           |                             *)
(*                                           +--> consumer pool            *)
(*                                                                         *)
(* Methods take &mut self, so there is one call at a time.  Requests are   *)
(* numbered as they are made; the number stands for the random req_id the  *)
(* dispatcher draws.  A broker answers each request once, in any order     *)
(* (Broker, OneAnswer), and sends values to the consumers assigned there.  *)
(***************************************************************************)
EXTENDS Naturals, Sequences, SequencesExt, FiniteSets

CONSTANTS
  Server,          \* the brokers
  Topic,
  Consumer,        \* consumer ids the controller hands out
  Mappings,        \* what create_topic may answer: the brokers of a topic's partitions
  Arrangements,    \* what subscribe may answer: sequences of Assigned(b, k)
  MaxBatch,        \* MAX_REQUESTS
  DispatchCap,     \* capacity of a dispatcher's channel (1024)
  RegisterCap,     \* of the background reader's two channels (1024 each)
  ResponseCap,
  PoolCap,         \* of the consumer pool's channel (1024)
  ConsumerCap      \* of a consumer's channel (1024)

Assigned(b, k) == [broker |-> b, consumer |-> k]

ASSUME ClientAssumption ==
  /\ {MaxBatch, DispatchCap, RegisterCap, ResponseCap, PoolCap, ConsumerCap} \subseteq Nat \ {0}
  /\ Mappings \subseteq SUBSET Server
  /\ Arrangements \subseteq Seq([broker : Server, consumer : Consumer])

VARIABLES
  caller,         \* what the method being called is doing
  leaderStream,   \* whether there is a stream to the leader
  metadata,       \* topics the client created: the brokers of their partitions
  consumers,      \* the consumers map: state of the receiver, values it holds
  requests,       \* every request made so far; its number is its position
  dispatch,       \* the dispatchers' channels
  batch,          \* the dispatchers' buffers
  outbound,       \* batches written and not yet read by the broker
  received,       \* requests the broker has read, oldest first
  unanswered,     \* those it has not answered
  inbound,        \* messages of the broker that the client has not read
  reader,         \* the readers of the brokers' sockets
  registrations,  \* channel: requests whose caller waits
  responses,      \* channel: answers
  waiting,        \* the background reader's map
  pool,           \* the consumer pool's channel
  poolTask,
  results,        \* history: the answers the caller got, by request
  lost            \* history: answers to waiting callers that were thrown away

callVars == <<caller, leaderStream, metadata>>
sendVars == <<requests, dispatch, batch, outbound>>
brokerVars == <<received, unanswered>>
readVars == <<inbound, reader>>
matchVars == <<registrations, responses, waiting, results, lost>>
poolVars == <<consumers, pool, poolTask>>
vars == <<callVars, sendVars, brokerVars, readVars, matchVars, poolVars>>

RequestNo == DOMAIN requests
AnswerMessage(n) == [kind |-> "answer", id |-> n]
ConsumerMessage(k) == [kind |-> "consumer", id |-> k]
Expects(n) == requests[n].op # "consumer_assignment"

CallerStates == {"idle", "asking", "creating", "awaiting", "assigning", "panicked"}

TypeOK ==
  /\ caller.state \in CallerStates
  /\ leaderStream \in BOOLEAN
  /\ DOMAIN metadata \subseteq Topic /\ \A t \in DOMAIN metadata : metadata[t] \in Mappings
  /\ consumers \in [Consumer -> [receiver : {"none", "open", "dropped"}, held : 0 .. ConsumerCap]]
  /\ \A n \in RequestNo :
       /\ requests[n].broker \in Server
       /\ requests[n].op \in {"who_leader", "topic_data_insert", "consumer_assignment"}
  /\ \A b \in Server :
       /\ dispatch[b] \in Seq(RequestNo) /\ Len(dispatch[b]) <= DispatchCap
       /\ batch[b] \in Seq(RequestNo) /\ Len(batch[b]) <= MaxBatch
       /\ outbound[b] \in Seq(Seq(RequestNo))
       /\ received[b] \in Seq(RequestNo)
       /\ unanswered[b] \subseteq ToSet(received[b])
  /\ reader \in [Server -> {"reading", "dead"}]
  /\ registrations \in Seq(RequestNo) /\ Len(registrations) <= RegisterCap
  /\ responses \in Seq(RequestNo) /\ Len(responses) <= ResponseCap
  /\ waiting \subseteq RequestNo
  /\ pool \in Seq(Consumer) /\ Len(pool) <= PoolCap
  /\ poolTask \in {"running", "dead"}
  /\ lost \subseteq RequestNo

Idle == [state |-> "idle"]

Init ==
  /\ caller = Idle
  /\ leaderStream = FALSE
  /\ metadata = [t \in {} |-> {}]
  /\ consumers = [k \in Consumer |-> [receiver |-> "none", held |-> 0]]
  /\ requests = <<>>
  /\ dispatch = [b \in Server |-> <<>>]
  /\ batch = [b \in Server |-> <<>>]
  /\ outbound = [b \in Server |-> <<>>]
  /\ received = [b \in Server |-> <<>>]
  /\ unanswered = [b \in Server |-> {}]
  /\ inbound = [b \in Server |-> <<>>]
  /\ reader = [b \in Server |-> "reading"]
  /\ registrations = <<>>
  /\ responses = <<>>
  /\ waiting = {}
  /\ pool = <<>>
  /\ poolTask = "running"
  /\ results = [n \in {} |-> 0]
  /\ lost = {}

----------------------------------------------------------------------------
(* The methods. *)

(* A bug to tell apart: the channel's capacity is not minded. *)
DispatchUnbounded(b, request) ==
  /\ requests' = Append(requests, request)
  /\ dispatch' = [dispatch EXCEPT ![b] = Append(@, Len(requests) + 1)]
  /\ UNCHANGED <<batch, outbound>>

(* sender.send to the broker's dispatcher, which suspends while it is full. *)
Dispatch(b, request) ==
  /\ Len(dispatch[b]) < DispatchCap
  /\ requests' = Append(requests, request)
  /\ dispatch' = [dispatch EXCEPT ![b] = Append(@, Len(requests) + 1)]
  /\ UNCHANGED <<batch, outbound>>

(* insert_topic starts with get_leader_stream. *)
InsertTopic(t) ==
  /\ caller = Idle
  /\ caller' = [state |-> IF leaderStream THEN "creating" ELSE "asking", topic |-> t]
  /\ UNCHANGED <<leaderStream, metadata, sendVars, brokerVars, readVars, matchVars, poolVars>>

(* get_leader_stream asks one broker after another. *)
AskLeader(b) ==
  /\ caller.state = "asking"
  /\ Dispatch(b, [op |-> "who_leader", broker |-> b])
  /\ caller' = [state |-> "awaiting", n |-> Len(requests) + 1, topic |-> caller.topic]
  /\ UNCHANGED <<leaderStream, metadata, brokerVars, readVars, matchVars, poolVars>>

(* create_topic is written to the leader and its answer read from it. *)
CreateTopic(mapping) ==
  /\ caller.state = "creating"
  /\ metadata' = [t \in DOMAIN metadata \cup {caller.topic} |->
                    IF t = caller.topic THEN mapping ELSE metadata[t]]
  /\ caller' = Idle
  /\ UNCHANGED <<leaderStream, sendVars, brokerVars, readVars, matchVars, poolVars>>

(* send_topic_data: the key's hash picks a partition, and so a broker. *)
SendTopicData(t, b) ==
  /\ caller = Idle
  /\ t \in DOMAIN metadata /\ b \in metadata[t]
  /\ Dispatch(b, [op |-> "topic_data_insert", broker |-> b])
  /\ caller' = [state |-> "awaiting", n |-> Len(requests) + 1]
  /\ UNCHANGED <<leaderStream, metadata, brokerVars, readVars, matchVars, poolVars>>

(* A topic the client did not create, or one without partitions (hash % 0),
   panics the caller. *)
SendToNowhere(t) ==
  /\ caller = Idle
  /\ t \in DOMAIN metadata => metadata[t] = {}
  /\ caller' = [state |-> "panicked"]
  /\ UNCHANGED <<leaderStream, metadata, sendVars, brokerVars, readVars, matchVars, poolVars>>

(* The answer arrived: response_receiver.await returns.  An answer of a broker
   that names no leader, or one that cannot be reached, has the next asked. *)
Return ==
  /\ caller.state = "awaiting"
  /\ caller.n \in DOMAIN results
  /\ IF requests[caller.n].op = "who_leader"
       THEN \/ /\ leaderStream' = TRUE
               /\ caller' = [state |-> "creating", topic |-> caller.topic]
            \/ /\ caller' = [state |-> "asking", topic |-> caller.topic]
               /\ UNCHANGED leaderStream
       ELSE caller' = Idle /\ UNCHANGED leaderStream
  /\ UNCHANGED <<metadata, sendVars, brokerVars, readVars, matchVars, poolVars>>

(* subscribe: the controller's answer has an id for the new consumer and an
   assignment for each partition, which are sent on without awaiting answers. *)
Subscribe(k, arrangement) ==
  /\ caller = Idle
  /\ leaderStream
  /\ consumers[k].receiver = "none"
  /\ consumers' = [consumers EXCEPT ![k].receiver = "open"]
  /\ caller' = [state |-> "assigning", consumer |-> k, left |-> arrangement]
  /\ UNCHANGED <<leaderStream, metadata, sendVars, brokerVars, readVars, matchVars, pool, poolTask>>

SendAssignment ==
  LET next == Head(caller.left)
  IN  /\ caller.state = "assigning" /\ caller.left # <<>>
      /\ Dispatch(next.broker, [op |-> "consumer_assignment", broker |-> next.broker,
                                consumer |-> next.consumer])
      /\ caller' = [caller EXCEPT !.left = Tail(@)]
      /\ UNCHANGED <<leaderStream, metadata, brokerVars, readVars, matchVars, poolVars>>

(* The receiver of the consumer's channel goes out of scope. *)
EndSubscribe ==
  /\ caller.state = "assigning" /\ caller.left = <<>>
  /\ consumers' = [consumers EXCEPT ![caller.consumer].receiver = "dropped"]
  /\ caller' = Idle
  /\ UNCHANGED <<leaderStream, metadata, sendVars, brokerVars, readVars, matchVars, pool, poolTask>>

----------------------------------------------------------------------------
(* The dispatcher of a broker. *)

Full(b) == Len(batch[b]) >= MaxBatch

(* A bug to tell apart: the request that fills a batch is not registered. *)
BufferLastUnregistered(b) ==
  LET n == Head(dispatch[b])
  IN  /\ dispatch[b] # <<>> /\ ~Full(b)
      /\ IF Expects(n) /\ Len(batch[b]) + 1 < MaxBatch
           THEN /\ Len(registrations) < RegisterCap
                /\ registrations' = Append(registrations, n)
           ELSE UNCHANGED registrations
      /\ dispatch' = [dispatch EXCEPT ![b] = Tail(@)]
      /\ batch' = [batch EXCEPT ![b] = Append(@, n)]
      /\ UNCHANGED <<callVars, requests, outbound, brokerVars, readVars, responses, waiting,
                     results, lost, poolVars>>

(* The next request: its caller is registered before it is put in the batch.  A
   request in the dispatcher's hand, which waits for room among the registrations,
   counts as one more place in its channel: no batch is flushed meanwhile. *)
BufferRequest(b) ==
  LET n == Head(dispatch[b])
  IN  /\ dispatch[b] # <<>> /\ ~Full(b)
      /\ IF Expects(n)
           THEN /\ Len(registrations) < RegisterCap
                /\ registrations' = Append(registrations, n)
           ELSE UNCHANGED registrations
      /\ dispatch' = [dispatch EXCEPT ![b] = Tail(@)]
      /\ batch' = [batch EXCEPT ![b] = Append(@, n)]
      /\ UNCHANGED <<callVars, requests, outbound, brokerVars, readVars, responses, waiting,
                     results, lost, poolVars>>

(* Two bugs to tell apart: a batch is only written when it is full, or ahead
   of batches written before. *)
FlushFull(b) ==
  /\ Full(b)
  /\ outbound' = [outbound EXCEPT ![b] = Append(@, batch[b])]
  /\ batch' = [batch EXCEPT ![b] = <<>>]
  /\ UNCHANGED <<callVars, requests, dispatch, brokerVars, readVars, matchVars, poolVars>>

FlushReversed(b) ==
  /\ batch[b] # <<>>
  /\ Full(b) \/ dispatch[b] = <<>>
  /\ outbound' = [outbound EXCEPT ![b] = <<batch[b]>> \o @]
  /\ batch' = [batch EXCEPT ![b] = <<>>]
  /\ UNCHANGED <<callVars, requests, dispatch, brokerVars, readVars, matchVars, poolVars>>

(* The batch is written when it is full, or BATCH_TIMEOUT after the last
   request, while none is in the channel. *)
Flush(b) ==
  /\ batch[b] # <<>>
  /\ Full(b) \/ dispatch[b] = <<>>
  /\ outbound' = [outbound EXCEPT ![b] = Append(@, batch[b])]
  /\ batch' = [batch EXCEPT ![b] = <<>>]
  /\ UNCHANGED <<callVars, requests, dispatch, brokerVars, readVars, matchVars, poolVars>>

----------------------------------------------------------------------------
(* The broker. *)

ReadBatch(b) ==
  /\ outbound[b] # <<>>
  /\ received' = [received EXCEPT ![b] = @ \o Head(outbound[b])]
  /\ unanswered' = [unanswered EXCEPT ![b] = @ \cup ToSet(Head(outbound[b]))]
  /\ outbound' = [outbound EXCEPT ![b] = Tail(@)]
  /\ UNCHANGED <<callVars, requests, dispatch, batch, readVars, matchVars, poolVars>>

AnswerRequest(b, n) ==
  /\ n \in unanswered[b]
  /\ unanswered' = [unanswered EXCEPT ![b] = @ \ {n}]
  /\ inbound' = [inbound EXCEPT ![b] = Append(@, AnswerMessage(n))]
  /\ UNCHANGED <<callVars, sendVars, received, reader, matchVars, poolVars>>

AssignedAt(b) ==
  {requests[n].consumer : n \in {m \in ToSet(received[b]) : ~Expects(m)}}

NotifyConsumer(b, k) ==
  /\ k \in AssignedAt(b)
  /\ inbound' = [inbound EXCEPT ![b] = Append(@, ConsumerMessage(k))]
  /\ UNCHANGED <<callVars, sendVars, brokerVars, reader, matchVars, poolVars>>

----------------------------------------------------------------------------
(* The reader of a broker's socket. *)

NextMessage(b) == Head(inbound[b])

ReadAnswer(b) ==
  /\ reader[b] = "reading" /\ inbound[b] # <<>> /\ NextMessage(b).kind = "answer"
  /\ Len(responses) < ResponseCap
  /\ responses' = Append(responses, NextMessage(b).id)
  /\ inbound' = [inbound EXCEPT ![b] = Tail(@)]
  /\ UNCHANGED <<callVars, sendVars, brokerVars, reader, registrations, waiting, results, lost, poolVars>>

(* A message for a consumer goes to the consumer pool; when that is dead the
   send fails and its unwrap panics the reader. *)
ReadConsumerMessage(b) ==
  /\ reader[b] = "reading" /\ inbound[b] # <<>> /\ NextMessage(b).kind = "consumer"
  /\ IF poolTask = "dead"
       THEN reader' = [reader EXCEPT ![b] = "dead"] /\ UNCHANGED pool
       ELSE /\ Len(pool) < PoolCap
            /\ pool' = Append(pool, NextMessage(b).id)
            /\ UNCHANGED reader
  /\ inbound' = [inbound EXCEPT ![b] = Tail(@)]
  /\ UNCHANGED <<callVars, sendVars, brokerVars, matchVars, consumers, poolTask>>

----------------------------------------------------------------------------
(* The background reader: select! takes from either channel. *)

TakeRegistration ==
  /\ registrations # <<>>
  /\ waiting' = waiting \cup {Head(registrations)}
  /\ registrations' = Tail(registrations)
  /\ UNCHANGED <<callVars, sendVars, brokerVars, readVars, responses, results, lost, poolVars>>

(* A bug to tell apart: the map's entry is read and not removed. *)
MatchKeeping(n, caught) ==
  /\ IF caught # 0
       THEN /\ results' = [m \in DOMAIN results \cup {caught} |-> IF m = caught THEN n ELSE results[m]]
            /\ UNCHANGED lost
       ELSE /\ lost' = IF Expects(n) THEN lost \cup {n} ELSE lost
            /\ UNCHANGED results
  /\ responses' = Tail(responses)
  /\ UNCHANGED <<callVars, sendVars, brokerVars, readVars, registrations, waiting, poolVars>>

(* Answers to requests nobody waits for are thrown away, as are those of
   callers that are not registered yet. *)
Match(n, caught) ==
  /\ IF caught # 0
       THEN /\ results' = [m \in DOMAIN results \cup {caught} |-> IF m = caught THEN n ELSE results[m]]
            /\ UNCHANGED lost
       ELSE /\ lost' = IF Expects(n) THEN lost \cup {n} ELSE lost
            /\ UNCHANGED results
  /\ waiting' = waiting \ {caught}
  /\ responses' = Tail(responses)
  /\ UNCHANGED <<callVars, sendVars, brokerVars, readVars, registrations, poolVars>>

(* A bug to tell apart: an answer goes to whoever waits. *)
TakeResponseForAnyone ==
  /\ responses # <<>>
  /\ Match(Head(responses), IF waiting # {} THEN CHOOSE m \in waiting : TRUE ELSE 0)

TakeResponse ==
  /\ responses # <<>>
  /\ Match(Head(responses), IF Head(responses) \in waiting THEN Head(responses) ELSE 0)

----------------------------------------------------------------------------
(* The consumer pool: one task. *)
HandOver ==
  LET k == Head(pool)
  IN  /\ poolTask = "running" /\ pool # <<>>
      /\ CASE consumers[k].receiver = "none" -> UNCHANGED <<consumers, poolTask>>
           [] consumers[k].receiver = "open" ->
                /\ consumers[k].held < ConsumerCap
                /\ consumers' = [consumers EXCEPT ![k].held = @ + 1]
                /\ UNCHANGED poolTask
           [] consumers[k].receiver = "dropped" -> poolTask' = "dead" /\ UNCHANGED consumers
      /\ pool' = Tail(pool)
      /\ UNCHANGED <<callVars, sendVars, brokerVars, readVars, matchVars>>

----------------------------------------------------------------------------
Call ==
  \/ \E t \in Topic : InsertTopic(t) \/ SendToNowhere(t) \/ \E b \in Server : SendTopicData(t, b)
  \/ \E k \in Consumer, arrangement \in Arrangements : Subscribe(k, arrangement)

MethodStep ==
  \/ \E b \in Server : AskLeader(b)
  \/ \E mapping \in Mappings : CreateTopic(mapping)
  \/ Return \/ SendAssignment \/ EndSubscribe

DispatcherStep(b) == BufferRequest(b) \/ Flush(b)
ReaderStep(b) == ReadAnswer(b) \/ ReadConsumerMessage(b)
MatcherStep == TakeRegistration \/ TakeResponse
ServerStep(b) == ReadBatch(b) \/ \E n \in RequestNo : AnswerRequest(b, n)

TaskStep ==
  \/ MethodStep \/ MatcherStep \/ HandOver
  \/ \E b \in Server : DispatcherStep(b) \/ ReaderStep(b) \/ ServerStep(b)

Next == Call \/ TaskStep \/ \E b \in Server, k \in Consumer : NotifyConsumer(b, k)

(* Every task runs again whenever it can, and a broker answers what it read.
   Nobody is obliged to make a call, and brokers need not have values. *)
Fairness ==
  /\ WF_vars(MethodStep) /\ WF_vars(MatcherStep) /\ WF_vars(HandOver)
  /\ \A b \in Server :
       WF_vars(DispatcherStep(b)) /\ WF_vars(ReaderStep(b)) /\ WF_vars(ServerStep(b))

Spec == Init /\ [][Next]_vars

----------------------------------------------------------------------------
(* A call that waits for an answer gets that of its own request, and gets it
   once, although answers to assignments and to other requests come through
   the same map in any order. *)
Answers ==
  INSTANCE Rpc WITH
    NoCall <- 0,
    asked <- IF caller.state = "awaiting" /\ caller.n \notin DOMAIN results
               THEN caller.n ELSE 0,
    returned <- results

ImplementsRpc == Answers!Spec

(* Each broker receives the client's requests in the order they were made,
   each once: whatever was batched with what, and whatever was awaited. *)
Stream(b) == received[b] \o FlattenSeq(outbound[b]) \o batch[b] \o dispatch[b]

RequestsInOrder ==
  \A b \in Server :
    /\ \A i, j \in DOMAIN Stream(b) : i < j => Stream(b)[i] < Stream(b)[j]
    /\ ToSet(Stream(b)) = {n \in RequestNo : requests[n].broker = b}

(* A caller is in one place: it is on its way to the map, in it, answered, or
   its answer was thrown away before it got there. *)
Buffered(n) == \E b \in Server : n \in ToSet(dispatch[b])
OnePlaceEach ==
  \A n \in RequestNo : Expects(n) =>
    Cardinality({place \in {"buffered", "registering", "waiting", "answered"} :
       \/ place = "buffered" /\ Buffered(n)
       \/ place = "registering" /\ n \in ToSet(registrations)
       \/ place = "waiting" /\ n \in waiting
       \/ place = "answered" /\ n \in DOMAIN results}) = 1

(* An answer whose caller waits is thrown away only when it overtakes the
   caller's registration, which is in its channel at that moment. *)
LostInARace == [][\A n \in lost' \ lost : n \in ToSet(registrations)]_vars

(* A call comes back, unless its answer lost that race or the reader of its
   broker died. *)
Returned(n) == n \in DOMAIN results
Stranded(n) == n \in lost \/ reader[requests[n].broker] = "dead"

(* What "If this request expects a response, register its response sender
   with the ID" is for: an answer finds its caller. *)
AnswersFindTheirCaller == lost = {}
=============================================================================
