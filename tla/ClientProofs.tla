---------------------------- MODULE ClientProofs ----------------------------
(***************************************************************************)
(* Proofs about the client library, for any brokers, topics, channel       *)
(* capacities and sequence of calls.                                       *)
(***************************************************************************)
EXTENDS Client, DataLemmas

----------------------------------------------------------------------------
(* Flattening a sequence of sequences. *)

FlatUpTo(f, n, seqs) ==
  f = [i \in 1 .. n |-> IF i = 1 THEN seqs[i] ELSE f[i - 1] \o seqs[i]]

(* What FlattenSeq computes on its way. *)
Flat(seqs) ==
  LET flatten[i \in 1 .. Len(seqs)] ==
        IF i = 1 THEN seqs[i] ELSE flatten[i - 1] \o seqs[i]
  IN  flatten

LEMMA FlatExists ==
  ASSUME NEW seqs, NEW n \in Nat
  PROVE  \E f : FlatUpTo(f, n, seqs)
<1> SUFFICES ASSUME ~ \E f : FlatUpTo(f, n, seqs) PROVE FALSE
  OBVIOUS
<1> DEFINE T == {k \in Nat : ~ \E f : FlatUpTo(f, k, seqs)}
<1>1. PICK m \in T : \A k \in T : m <= k
  <2> T \subseteq Nat /\ T # {}
    OBVIOUS
  <2> HIDE DEF T
  <2> QED
    BY NatMin
<1>2. m # 0
  <2> DEFINE e == [i \in 1 .. 0 |-> <<>>]
  <2>1. FlatUpTo(e, 0, seqs)
    BY DEF FlatUpTo
  <2> QED
    BY <2>1
<1>3. PICK f : FlatUpTo(f, m - 1, seqs)
  BY <1>1, <1>2
<1> DEFINE last == IF m = 1 THEN seqs[m] ELSE f[m - 1] \o seqs[m]
           h == [i \in 1 .. m |-> IF i = m THEN last ELSE f[i]]
<1>4. ASSUME NEW i \in 1 .. m
      PROVE  h[i] = IF i = 1 THEN seqs[i] ELSE h[i - 1] \o seqs[i]
  <2>1. CASE i = m
    BY <2>1, <1>2
  <2>2. CASE i # m
    <3>1. i \in 1 .. m - 1 /\ h[i] = f[i] /\ (i # 1 => h[i - 1] = f[i - 1])
      BY <2>2
    <3>2. f[i] = IF i = 1 THEN seqs[i] ELSE f[i - 1] \o seqs[i]
      BY <1>3, <3>1 DEF FlatUpTo
    <3> QED
      BY <3>1, <3>2
  <2> QED
    BY <2>1, <2>2
<1>5. FlatUpTo(h, m, seqs)
  BY <1>4 DEF FlatUpTo
<1> QED
  BY <1>5

LEMMA FlatIs ==
  ASSUME NEW seqs, Len(seqs) \in Nat
  PROVE  \A i \in 1 .. Len(seqs) :
           Flat(seqs)[i] = IF i = 1 THEN seqs[i] ELSE Flat(seqs)[i - 1] \o seqs[i]
<1>1. PICK f : FlatUpTo(f, Len(seqs), seqs)
  BY FlatExists
<1>2. FlatUpTo(Flat(seqs), Len(seqs), seqs)
  BY <1>1 DEF FlatUpTo, Flat
<1> QED
  BY <1>2 DEF FlatUpTo

LEMMA FlatStep ==
  ASSUME NEW S, NEW seqs \in Seq(Seq(S)), NEW n \in 1 .. Len(seqs)
  PROVE  Flat(seqs)[n] = IF n = 1 THEN seqs[n] ELSE Flat(seqs)[n - 1] \o seqs[n]
<1>1. Len(seqs) \in Nat
  OBVIOUS
<1> QED
  BY <1>1, FlatIs, Zenon

LEMMA FlattenIsFlat ==
  ASSUME NEW seqs, seqs # <<>>, NEW S, seqs \in Seq(S)
  PROVE  FlattenSeq(seqs) = Flat(seqs)[Len(seqs)]
BY DEF FlattenSeq, Flat

(* Flattening stays within what the sequences hold. *)
LEMMA FlatTyped ==
  ASSUME NEW S, NEW seqs \in Seq(Seq(S)), NEW n \in 1 .. Len(seqs)
  PROVE  Flat(seqs)[n] \in Seq(S)
<1> SUFFICES ASSUME Flat(seqs)[n] \notin Seq(S) PROVE FALSE
  OBVIOUS
<1> DEFINE T == {k \in 1 .. Len(seqs) : Flat(seqs)[k] \notin Seq(S)}
<1>1. PICK m \in T : \A k \in T : m <= k
  <2>1. T \subseteq 1 .. Len(seqs) /\ n \in T
    BY Zenon
  <2>2. 1 .. Len(seqs) \subseteq Nat
    OBVIOUS
  <2> HIDE DEF T
  <2> QED
    BY <2>1, <2>2, NatMin
<1>2. Flat(seqs)[m] = IF m = 1 THEN seqs[m] ELSE Flat(seqs)[m - 1] \o seqs[m]
  BY FlatStep
<1>3. seqs[m] \in Seq(S)
  OBVIOUS
<1>4. CASE m = 1
  BY <1>2, <1>3, <1>4
<1>5. CASE m # 1
  <2>1. Flat(seqs)[m - 1] \in Seq(S)
    BY <1>1, <1>5
  <2> QED
    BY <1>2, <1>3, <1>5, <2>1, ConcatProperties
<1> QED
  BY <1>4, <1>5

LEMMA FlattenTyped ==
  ASSUME NEW S, NEW seqs \in Seq(Seq(S))
  PROVE  FlattenSeq(seqs) \in Seq(S)
<1>1. CASE seqs = <<>>
  BY <1>1 DEF FlattenSeq
<1>2. CASE seqs # <<>>
  BY <1>2, FlattenIsFlat, FlatTyped
<1> QED
  BY <1>1, <1>2

(* A batch more: the flattened sequence is longer by it. *)
LEMMA FlattenAppend ==
  ASSUME NEW S, NEW seqs \in Seq(Seq(S)), NEW x \in Seq(S)
  PROVE  FlattenSeq(Append(seqs, x)) = FlattenSeq(seqs) \o x
<1> DEFINE more == Append(seqs, x)
           Batch == Seq(S)
<1>1. /\ more \in Seq(Seq(S)) /\ more # <<>> /\ Len(more) = Len(seqs) + 1
      /\ \A i \in 1 .. Len(seqs) : more[i] = seqs[i]
      /\ more[Len(seqs) + 1] = x
  <2>1. seqs \in Seq(Batch) /\ x \in Batch
    OBVIOUS
  <2> HIDE DEF Batch
  <2>2. /\ more \in Seq(Batch) /\ more # <<>> /\ Len(more) = Len(seqs) + 1
        /\ \A i \in 1 .. Len(seqs) : more[i] = seqs[i]
        /\ more[Len(seqs) + 1] = x
    BY <2>1
  <2> QED
    BY <2>2 DEF Batch
<1>2. FlattenSeq(more) = Flat(more)[Len(more)]
  BY <1>1, FlattenIsFlat
<1> HIDE DEF more
<1>3. ASSUME NEW n \in 1 .. Len(seqs) PROVE Flat(more)[n] = Flat(seqs)[n]
  <2> SUFFICES ASSUME Flat(more)[n] # Flat(seqs)[n] PROVE FALSE
    OBVIOUS
  <2> DEFINE T == {k \in 1 .. Len(seqs) : Flat(more)[k] # Flat(seqs)[k]}
  <2>1. PICK m \in T : \A k \in T : m <= k
    <3>1. T \subseteq 1 .. Len(seqs) /\ n \in T
      BY Zenon
    <3>2. 1 .. Len(seqs) \subseteq Nat
      OBVIOUS
    <3> HIDE DEF T
    <3> QED
      BY <3>1, <3>2, NatMin
  <2>2. Flat(seqs)[m] = IF m = 1 THEN seqs[m] ELSE Flat(seqs)[m - 1] \o seqs[m]
    BY FlatStep
  <2>3. Flat(more)[m] = IF m = 1 THEN more[m] ELSE Flat(more)[m - 1] \o more[m]
    <3>1. m \in 1 .. Len(more)
      BY <1>1
    <3> QED
      BY <3>1, <1>1, FlatStep
  <2>4. m # 1 => Flat(more)[m - 1] = Flat(seqs)[m - 1]
    BY <2>1
  <2> QED
    BY <2>2, <2>3, <2>4, <1>1
<1>4. CASE seqs = <<>>
  <2>1. Flat(more)[1] = x /\ Len(more) = 1
    BY <1>1, <1>4, FlatIs
  <2> QED
    BY <2>1, <1>2, <1>4 DEF FlattenSeq, more
<1>5. CASE seqs # <<>>
  <2>1. Len(seqs) \in 1 .. Len(seqs) /\ Len(more) # 1 /\ Len(more) - 1 = Len(seqs)
    BY <1>1, <1>5
  <2>2. Flat(more)[Len(more)] = Flat(more)[Len(seqs)] \o x
    <3>1. Len(more) \in 1 .. Len(more)
      BY <1>1
    <3> QED
      BY <1>1, <2>1, <3>1, FlatStep
  <2>3. FlattenSeq(seqs) = Flat(seqs)[Len(seqs)]
    BY <1>5, FlattenIsFlat
  <2> QED
    BY <1>2, <1>3, <2>1, <2>2, <2>3 DEF more
<1> QED
  BY <1>4, <1>5

(* The first batch comes first. *)
LEMMA FlattenHead ==
  ASSUME NEW S, NEW seqs \in Seq(Seq(S)), seqs # <<>>
  PROVE  FlattenSeq(seqs) = Head(seqs) \o FlattenSeq(Tail(seqs))
<1> DEFINE rest == Tail(seqs)
<1>1. /\ rest \in Seq(Seq(S)) /\ Len(rest) = Len(seqs) - 1 /\ Head(seqs) = seqs[1]
      /\ seqs[1] \in Seq(S)
      /\ \A i \in 1 .. Len(rest) : rest[i] = seqs[i + 1]
  OBVIOUS
<1>2. FlattenSeq(seqs) = Flat(seqs)[Len(seqs)]
  BY FlattenIsFlat
<1>3. Flat(seqs)[1] = Head(seqs)
  BY FlatIs, <1>1
<1> HIDE DEF rest
<1>4. ASSUME NEW n \in 1 .. Len(rest) PROVE Flat(seqs)[n + 1] = Head(seqs) \o Flat(rest)[n]
  <2> SUFFICES ASSUME Flat(seqs)[n + 1] # Head(seqs) \o Flat(rest)[n] PROVE FALSE
    OBVIOUS
  <2> DEFINE T == {k \in 1 .. Len(rest) : Flat(seqs)[k + 1] # Head(seqs) \o Flat(rest)[k]}
  <2>1. PICK m \in T : \A k \in T : m <= k
    <3>1. T \subseteq 1 .. Len(rest) /\ n \in T
      BY Zenon
    <3>2. 1 .. Len(rest) \subseteq Nat
      OBVIOUS
    <3> HIDE DEF T
    <3> QED
      BY <3>1, <3>2, NatMin
  <2>2. Flat(rest)[m] = IF m = 1 THEN rest[m] ELSE Flat(rest)[m - 1] \o rest[m]
    BY FlatStep, <1>1
  <2>3. Flat(seqs)[m + 1] = Flat(seqs)[m] \o seqs[m + 1]
    <3>1. m + 1 \in 1 .. Len(seqs) /\ m + 1 # 1 /\ (m + 1) - 1 = m
      BY <1>1
    <3> QED
      BY <3>1, FlatStep
  <2>4. rest[m] = seqs[m + 1]
    BY <1>1
  <2>5. CASE m = 1
    BY <2>2, <2>3, <2>4, <2>5, <1>3
  <2>6. CASE m # 1
    <3>1. m - 1 \in 1 .. Len(rest) /\ (m - 1) + 1 = m
      BY <2>6
    <3>2. Flat(seqs)[m] = Head(seqs) \o Flat(rest)[m - 1]
      <4>1. m - 1 \notin T
        <5>1. m \in Nat
          OBVIOUS
        <5> HIDE DEF T
        <5> QED
          BY <2>1, <5>1
      <4>2. Flat(seqs)[(m - 1) + 1] = Head(seqs) \o Flat(rest)[m - 1]
        BY <4>1, <3>1, Zenon
      <4> QED
        BY <4>2, <3>1
    <3>3. Flat(rest)[m - 1] \in Seq(S) /\ rest[m] \in Seq(S) /\ Head(seqs) \in Seq(S)
      BY <3>1, <1>1, FlatTyped
    <3>4. (Head(seqs) \o Flat(rest)[m - 1]) \o rest[m]
            = Head(seqs) \o (Flat(rest)[m - 1] \o rest[m])
      <4> DEFINE u == Flat(rest)[m - 1]
                 v == rest[m]
                 w == Head(seqs)
      <4>1. u \in Seq(S) /\ v \in Seq(S) /\ w \in Seq(S)
        BY <3>3
      <4> HIDE DEF u, v, w
      <4>2. (w \o u) \o v = w \o (u \o v)
        BY <4>1, ConcatAssociative
      <4> QED
        BY <4>2 DEF u, v, w
    <3> QED
      BY <2>2, <2>3, <2>4, <2>6, <3>2, <3>4
  <2> QED
    BY <2>5, <2>6
<1>5. CASE rest = <<>>
  <2>1. Len(seqs) = 1 /\ FlattenSeq(rest) = <<>>
    BY <1>1, <1>5 DEF FlattenSeq
  <2> QED
    BY <2>1, <1>1, <1>2, <1>3, ConcatEmptySeq DEF rest
<1>6. CASE rest # <<>>
  <2>1. Len(rest) \in 1 .. Len(rest) /\ Len(rest) + 1 = Len(seqs)
    BY <1>1, <1>6
  <2>2. FlattenSeq(rest) = Flat(rest)[Len(rest)]
    BY <1>1, <1>6, FlattenIsFlat
  <2> QED
    BY <1>2, <1>4, <2>1, <2>2 DEF rest
<1> QED
  BY <1>5, <1>6

----------------------------------------------------------------------------
(* The types of what the methods keep. *)

Assignment == [broker : Server, consumer : Consumer]
Request ==
  [op : {"who_leader", "topic_data_insert"}, broker : Server]
    \cup [op : {"consumer_assignment"}, broker : Server, consumer : Consumer]

CallTypes ==
  /\ requests \in Seq(Request)
  /\ leaderStream \in BOOLEAN
  /\ DOMAIN metadata \subseteq Topic
  /\ \A t \in DOMAIN metadata : metadata[t] \in Mappings
  /\ caller.state \in CallerStates
  /\ caller.state \in {"asking", "creating"} => caller.topic \in Topic
  /\ caller.state = "awaiting" =>
       /\ caller.n \in RequestNo /\ Expects(caller.n)
       /\ requests[caller.n].op = "who_leader" => caller.topic \in Topic
  /\ caller.state = "assigning" =>
       /\ caller = [state |-> "assigning", consumer |-> caller.consumer, left |-> caller.left]
       /\ caller.consumer \in Consumer
       /\ caller.left \in Seq(Assignment)

(* The types of what is on its way to a broker, and of what the broker has. *)
SendTypes ==
  /\ dispatch \in [Server -> Seq(RequestNo)]
  /\ batch \in [Server -> Seq(RequestNo)]
  /\ outbound \in [Server -> Seq(Seq(RequestNo))]
  /\ received \in [Server -> Seq(RequestNo)]
  /\ unanswered \in [Server -> SUBSET RequestNo]
  /\ \A b \in Server :
       /\ Len(dispatch[b]) <= DispatchCap /\ Len(batch[b]) <= MaxBatch
       /\ unanswered[b] \subseteq ToSet(received[b])

(* The types of what comes back. *)
Message == [kind : {"answer"}, id : RequestNo] \cup [kind : {"consumer"}, id : Consumer]

MatchTypes ==
  /\ inbound \in [Server -> Seq(Message)]
  /\ reader \in [Server -> {"reading", "dead"}]
  /\ registrations \in Seq(RequestNo) /\ Len(registrations) <= RegisterCap
  /\ responses \in Seq(RequestNo) /\ Len(responses) <= ResponseCap
  /\ waiting \subseteq RequestNo
  /\ DOMAIN results \subseteq RequestNo
  /\ lost \subseteq RequestNo

PoolTypes ==
  /\ consumers \in [Consumer -> [receiver : {"none", "open", "dropped"}, held : 0 .. ConsumerCap]]
  /\ pool \in Seq(Consumer) /\ Len(pool) <= PoolCap
  /\ poolTask \in {"running", "dead"}

(* Every request made earlier that expects an answer has it, but the one the
   caller waits for. *)
CallerWaits ==
  \A n \in RequestNo : Expects(n) /\ n \notin DOMAIN results =>
    caller.state = "awaiting" /\ caller.n = n

(* A caller is in one place; registrations are those of such requests. *)
Distinct(s) == \A i, j \in DOMAIN s : s[i] = s[j] => i = j
Registering(n) == n \in ToSet(registrations)
Answered(n) == n \in DOMAIN results

PlaceOf(n) ==
  /\ Registering(n) \/ n \in waiting \/ Answered(n) => Expects(n)
  /\ Expects(n) =>
       /\ Buffered(n) \/ Registering(n) \/ n \in waiting \/ Answered(n)
       /\ Buffered(n) => ~Registering(n) /\ n \notin waiting /\ ~Answered(n)
       /\ Registering(n) => n \notin waiting /\ ~Answered(n)
       /\ n \in waiting => ~Answered(n)

Placed == Distinct(registrations) /\ \A n \in RequestNo : PlaceOf(n)

(* An answer on its way back is to a request its broker has read and answered,
   and there is no other. *)
ReadAt(b, n) == n \in ToSet(received[b]) /\ n \notin unanswered[b] /\ requests[n].broker = b
ArrivesFrom(b, n) == AnswerMessage(n) \in ToSet(inbound[b])
AnswersOnce(s) == \A i, j \in DOMAIN s : s[i] = s[j] /\ s[i].kind = "answer" => i = j

AnswerFlow ==
  /\ \A b \in Server, n \in RequestNo : ArrivesFrom(b, n) =>
       ReadAt(b, n) /\ n \notin ToSet(responses) /\ ~Answered(n)
  /\ \A b \in Server : AnswersOnce(inbound[b])
  /\ \A n \in ToSet(responses) : ReadAt(requests[n].broker, n) /\ ~Answered(n)
  /\ Distinct(responses)
  /\ \A n \in DOMAIN results : ReadAt(requests[n].broker, n)

----------------------------------------------------------------------------
(* The caller's methods. *)

USE DEF callVars, sendVars, brokerVars, readVars, matchVars, poolVars, vars

(* What every proof says of a request. *)
LEMMA RequestFacts ==
  ASSUME requests \in Seq(Request)
  PROVE  /\ RequestNo = 1 .. Len(requests) /\ Len(requests) \in Nat
         /\ \A n \in RequestNo :
              /\ requests[n].broker \in Server
              /\ requests[n].op \in {"who_leader", "topic_data_insert", "consumer_assignment"}
              /\ ~Expects(n) => requests[n].consumer \in Consumer
<1>1. \A r \in Request :
        /\ r.broker \in Server
        /\ r.op \in {"who_leader", "topic_data_insert", "consumer_assignment"}
        /\ r.op = "consumer_assignment" => r.consumer \in Consumer
  BY DEF Request
<1>2. RequestNo = 1 .. Len(requests) /\ Len(requests) \in Nat
      /\ \A n \in RequestNo : requests[n] \in Request
  <2> HIDE DEF Request
  <2> QED
    BY DEF RequestNo
<1> QED
  BY <1>1, <1>2 DEF Expects

(* A step is one of a method, or leaves the methods' state alone. *)
LEMMA CallFrame ==
  ASSUME [Next]_vars, ~Call, ~MethodStep
  PROVE  UNCHANGED <<callVars, requests>>
<1>1. CASE UNCHANGED vars
  BY <1>1
<1>2. ASSUME NEW b \in Server, DispatcherStep(b) PROVE UNCHANGED <<callVars, requests>>
  BY <1>2 DEF DispatcherStep, BufferRequest, Flush
<1>3. ASSUME NEW b \in Server, ReaderStep(b) PROVE UNCHANGED <<callVars, requests>>
  BY <1>3 DEF ReaderStep, ReadAnswer, ReadConsumerMessage
<1>4. ASSUME NEW b \in Server, ServerStep(b) PROVE UNCHANGED <<callVars, requests>>
  BY <1>4 DEF ServerStep, ReadBatch, AnswerRequest
<1>5. CASE MatcherStep
  BY <1>5 DEF MatcherStep, TakeRegistration, TakeResponse, Match
<1>6. CASE HandOver
  BY <1>6 DEF HandOver
<1>7. ASSUME NEW b \in Server, NEW k \in Consumer, NotifyConsumer(b, k)
      PROVE  UNCHANGED <<callVars, requests>>
  BY <1>7 DEF NotifyConsumer
<1> QED
  BY <1>1, <1>2, <1>3, <1>4, <1>5, <1>6, <1>7 DEF Next, TaskStep

(* A request is never changed once it is made. *)
RequestsGrow ==
  /\ RequestNo \subseteq RequestNo'
  /\ \A n \in RequestNo : requests'[n] = requests[n]

LEMMA Dispatched ==
  ASSUME NEW b \in Server, NEW r \in Request, Dispatch(b, r), requests \in Seq(Request)
  PROVE  /\ requests' \in Seq(Request)
         /\ RequestsGrow
         /\ RequestNo' = RequestNo \cup {Len(requests) + 1}
         /\ Len(requests) + 1 \notin RequestNo
         /\ requests'[Len(requests) + 1] = r
<1>1. requests' = Append(requests, r)
  BY DEF Dispatch
<1> HIDE DEF Request
<1>2. requests' \in Seq(Request) /\ DOMAIN requests' = DOMAIN requests \cup {Len(requests) + 1}
      /\ requests'[Len(requests) + 1] = r
      /\ \A n \in DOMAIN requests : requests'[n] = requests[n]
  BY <1>1, AppendedSeq
<1>3. Len(requests) + 1 \notin DOMAIN requests
  OBVIOUS
<1> QED
  BY <1>2, <1>3 DEF RequestsGrow, RequestNo

LEMMA CallTypesInsertTopic ==
  ASSUME CallTypes, NEW t \in Topic, InsertTopic(t)
  PROVE  CallTypes' /\ RequestsGrow
<1>1. caller'.state \in {"asking", "creating"} /\ caller'.topic = t
  BY DEF InsertTopic
<1>2. UNCHANGED <<requests, leaderStream, metadata>>
  BY DEF InsertTopic
<1> QED
  BY <1>1, <1>2 DEF CallTypes, RequestsGrow, RequestNo, CallerStates, Expects

LEMMA CallTypesAskLeader ==
  ASSUME CallTypes, NEW b \in Server, AskLeader(b)
  PROVE  CallTypes' /\ RequestsGrow
<1> DEFINE r == [op |-> "who_leader", broker |-> b]
<1>1. r \in Request /\ Dispatch(b, r)
  BY DEF Request, AskLeader
<1>2. /\ requests' \in Seq(Request) /\ RequestsGrow
      /\ Len(requests) + 1 \in RequestNo' /\ requests'[Len(requests) + 1] = r
  BY <1>1, Dispatched DEF CallTypes
<1>3. caller' = [state |-> "awaiting", n |-> Len(requests) + 1, topic |-> caller.topic]
  BY DEF AskLeader
<1>4. UNCHANGED <<leaderStream, metadata>> /\ caller.topic \in Topic
  BY DEF AskLeader, CallTypes
<1>5. caller'.state = "awaiting" /\ caller'.n = Len(requests) + 1 /\ caller'.topic = caller.topic
  BY <1>3
<1>6. requests'[caller'.n].op = "who_leader"
  BY <1>2, <1>5
<1> QED
  BY <1>2, <1>4, <1>5, <1>6 DEF CallTypes, CallerStates, Expects

LEMMA CallTypesSendTopicData ==
  ASSUME CallTypes, NEW t \in Topic, NEW b \in Server, SendTopicData(t, b)
  PROVE  CallTypes' /\ RequestsGrow
<1> DEFINE r == [op |-> "topic_data_insert", broker |-> b]
<1>1. r \in Request /\ Dispatch(b, r)
  BY DEF Request, SendTopicData
<1>2. /\ requests' \in Seq(Request) /\ RequestsGrow
      /\ Len(requests) + 1 \in RequestNo' /\ requests'[Len(requests) + 1] = r
  BY <1>1, Dispatched DEF CallTypes
<1>3. caller' = [state |-> "awaiting", n |-> Len(requests) + 1]
  BY DEF SendTopicData
<1>4. UNCHANGED <<leaderStream, metadata>>
  BY DEF SendTopicData
<1>5. caller'.state = "awaiting" /\ caller'.n = Len(requests) + 1
  BY <1>3
<1>6. requests'[caller'.n].op = "topic_data_insert"
  BY <1>2, <1>5
<1> QED
  BY <1>2, <1>4, <1>5, <1>6 DEF CallTypes, CallerStates, Expects

LEMMA CallTypesSendToNowhere ==
  ASSUME CallTypes, NEW t \in Topic, SendToNowhere(t)
  PROVE  CallTypes' /\ RequestsGrow
<1>1. caller'.state = "panicked" /\ UNCHANGED <<requests, leaderStream, metadata>>
  BY DEF SendToNowhere
<1> QED
  BY <1>1 DEF CallTypes, RequestsGrow, RequestNo, CallerStates, Expects

LEMMA CallTypesCreateTopic ==
  ASSUME CallTypes, NEW mapping \in Mappings, CreateTopic(mapping)
  PROVE  CallTypes' /\ RequestsGrow
<1>1. caller'.state = "idle" /\ UNCHANGED <<requests, leaderStream>> /\ caller.topic \in Topic
  BY DEF CreateTopic, Idle, CallTypes
<1>2. metadata' = [t \in DOMAIN metadata \cup {caller.topic} |->
                    IF t = caller.topic THEN mapping ELSE metadata[t]]
  BY DEF CreateTopic
<1>3. /\ DOMAIN metadata' \subseteq Topic
      /\ \A t \in DOMAIN metadata' : metadata'[t] \in Mappings
  BY <1>1, <1>2 DEF CallTypes
<1> QED
  BY <1>1, <1>3 DEF CallTypes, RequestsGrow, RequestNo, CallerStates, Expects

LEMMA CallTypesReturn ==
  ASSUME CallTypes, Return
  PROVE  CallTypes' /\ RequestsGrow
<1>1. UNCHANGED <<requests, metadata>>
  BY DEF Return
<1>2. CASE requests[caller.n].op = "who_leader"
  <2>1. caller.topic \in Topic
    BY <1>2 DEF CallTypes, Return
  <2>2. caller'.state \in {"asking", "creating"} /\ caller'.topic = caller.topic
        /\ leaderStream' \in BOOLEAN
    <3>1. CASE leaderStream' = TRUE /\ caller' = [state |-> "creating", topic |-> caller.topic]
      BY <3>1
    <3>2. CASE caller' = [state |-> "asking", topic |-> caller.topic] /\ UNCHANGED leaderStream
      BY <3>2 DEF CallTypes
    <3> QED
      BY <3>1, <3>2, <1>2 DEF Return
  <2> QED
    BY <1>1, <2>1, <2>2 DEF CallTypes, RequestsGrow, RequestNo, CallerStates, Expects
<1>3. CASE requests[caller.n].op # "who_leader"
  <2>1. caller'.state = "idle" /\ leaderStream' = leaderStream
    BY <1>3 DEF Return, Idle
  <2> QED
    BY <1>1, <2>1 DEF CallTypes, RequestsGrow, RequestNo, CallerStates, Expects
<1> QED
  BY <1>2, <1>3

LEMMA CallTypesSubscribe ==
  ASSUME CallTypes, NEW k \in Consumer, NEW arrangement \in Arrangements, Subscribe(k, arrangement)
  PROVE  CallTypes' /\ RequestsGrow
<1>1. UNCHANGED <<requests, metadata, leaderStream>>
  BY DEF Subscribe
<1>2. arrangement \in Seq(Assignment)
  BY ClientAssumption DEF Assignment
<1>3. caller' = [state |-> "assigning", consumer |-> k, left |-> arrangement]
  BY DEF Subscribe
<1>4. caller'.state = "assigning" /\ caller'.consumer = k /\ caller'.left = arrangement
  BY <1>3
<1> QED
  BY <1>1, <1>2, <1>3, <1>4 DEF CallTypes, RequestsGrow, RequestNo, CallerStates, Expects

(* The request an assignment is sent in. *)
AssignmentRequest(a) ==
  [op |-> "consumer_assignment", broker |-> a.broker, consumer |-> a.consumer]

LEMMA AssignmentSent ==
  ASSUME CallTypes, SendAssignment
  PROVE  /\ Head(caller.left) \in Assignment
         /\ AssignmentRequest(Head(caller.left)) \in Request
         /\ Dispatch(Head(caller.left).broker, AssignmentRequest(Head(caller.left)))
<1>1. caller.left \in Seq(Assignment) /\ caller.left # <<>>
  BY DEF CallTypes, SendAssignment
<1>2. Head(caller.left) \in Assignment
  <2> HIDE DEF Assignment
  <2> QED
    BY <1>1
<1>3. \A a \in Assignment : AssignmentRequest(a) \in Request
  BY DEF Assignment, Request, AssignmentRequest
<1> QED
  BY <1>2, <1>3 DEF SendAssignment, AssignmentRequest

LEMMA CallTypesSendAssignment ==
  ASSUME CallTypes, SendAssignment
  PROVE  CallTypes' /\ RequestsGrow
<1> DEFINE r == AssignmentRequest(Head(caller.left))
           b == Head(caller.left).broker
<1>1. r \in Request /\ b \in Server /\ Dispatch(b, r)
  BY AssignmentSent DEF Assignment
<1>2. requests' \in Seq(Request) /\ RequestsGrow
  <2> HIDE DEF r, b
  <2> QED
    BY <1>1, Dispatched DEF CallTypes
<1>3. /\ caller = [state |-> "assigning", consumer |-> caller.consumer, left |-> caller.left]
      /\ caller.consumer \in Consumer /\ caller.left \in Seq(Assignment) /\ caller.left # <<>>
  BY DEF CallTypes, SendAssignment
<1>4. caller' = [state |-> "assigning", consumer |-> caller.consumer, left |-> Tail(caller.left)]
  BY <1>3 DEF SendAssignment
<1>5. Tail(caller.left) \in Seq(Assignment)
  <2> HIDE DEF Assignment
  <2> QED
    BY <1>3
<1>6. caller'.state = "assigning" /\ caller'.consumer = caller.consumer
      /\ caller'.left = Tail(caller.left)
  BY <1>4
<1>7. UNCHANGED <<leaderStream, metadata>>
  BY DEF SendAssignment
<1> QED
  BY <1>2, <1>3, <1>4, <1>5, <1>6, <1>7 DEF CallTypes, CallerStates

LEMMA CallTypesEndSubscribe ==
  ASSUME CallTypes, EndSubscribe
  PROVE  CallTypes' /\ RequestsGrow
<1>1. caller'.state = "idle" /\ UNCHANGED <<requests, leaderStream, metadata>>
  BY DEF EndSubscribe, Idle
<1> QED
  BY <1>1 DEF CallTypes, RequestsGrow, RequestNo, CallerStates, Expects

LEMMA CallTypesStep ==
  ASSUME CallTypes, [Next]_vars
  PROVE  CallTypes' /\ RequestsGrow
<1>1. CASE Call
  BY <1>1, CallTypesInsertTopic, CallTypesSendToNowhere, CallTypesSendTopicData,
     CallTypesSubscribe DEF Call
<1>2. CASE MethodStep
  BY <1>2, CallTypesAskLeader, CallTypesCreateTopic, CallTypesReturn, CallTypesSendAssignment,
     CallTypesEndSubscribe DEF MethodStep
<1>3. CASE ~Call /\ ~MethodStep
  <2>1. UNCHANGED <<callVars, requests>>
    BY <1>3, CallFrame
  <2> QED
    BY <2>1 DEF CallTypes, RequestsGrow, RequestNo, CallerStates, Expects
<1> QED
  BY <1>1, <1>2, <1>3

----------------------------------------------------------------------------
(* The tasks behind the methods. *)

(* What a step does to what is on its way, there and back. *)
Sends(b, r) == Dispatch(b, r) /\ r.broker = b /\ UNCHANGED <<brokerVars, readVars, matchVars>>

LEMMA StepKinds ==
  ASSUME CallTypes, [Next]_vars
  PROVE  \/ UNCHANGED <<sendVars, brokerVars, readVars, matchVars>>
         \/ \E b \in Server, r \in Request : Sends(b, r)
         \/ \E b \in Server : BufferRequest(b)
         \/ \E b \in Server : Flush(b)
         \/ \E b \in Server : ReadBatch(b)
         \/ \E b \in Server, n \in RequestNo : AnswerRequest(b, n)
         \/ \E b \in Server, k \in Consumer : NotifyConsumer(b, k)
         \/ \E b \in Server : ReadAnswer(b)
         \/ \E b \in Server : ReadConsumerMessage(b)
         \/ TakeRegistration
         \/ TakeResponse
<1> DEFINE Still == UNCHANGED <<sendVars, brokerVars, readVars, matchVars>>
           Sending == \E b \in Server, r \in Request : Sends(b, r)
<1>1. CASE Call
  <2>1. ASSUME NEW t \in Topic, InsertTopic(t) \/ SendToNowhere(t) PROVE Still
    BY <2>1 DEF InsertTopic, SendToNowhere
  <2>2. ASSUME NEW t \in Topic, NEW b \in Server, SendTopicData(t, b) PROVE Sending
    <3> DEFINE r == [op |-> "topic_data_insert", broker |-> b]
    <3>1. r \in Request /\ r.broker = b
      BY DEF Request
    <3>2. Sends(b, r)
      BY <2>2, <3>1 DEF SendTopicData, Sends
    <3> QED
      BY <3>1, <3>2
  <2>3. ASSUME NEW k \in Consumer, NEW arrangement \in Arrangements, Subscribe(k, arrangement)
        PROVE  Still
    BY <2>3 DEF Subscribe
  <2> QED
    BY <1>1, <2>1, <2>2, <2>3 DEF Call
<1>2. CASE MethodStep
  <2>1. ASSUME NEW b \in Server, AskLeader(b) PROVE Sending
    <3> DEFINE r == [op |-> "who_leader", broker |-> b]
    <3>1. r \in Request /\ r.broker = b
      BY DEF Request
    <3>2. Sends(b, r)
      BY <2>1, <3>1 DEF AskLeader, Sends
    <3> QED
      BY <3>1, <3>2
  <2>2. ASSUME NEW mapping \in Mappings, CreateTopic(mapping) PROVE Still
    BY <2>2 DEF CreateTopic
  <2>3. Return => Still
    BY DEF Return
  <2>4. SendAssignment => Sending
    <3> SUFFICES ASSUME SendAssignment PROVE Sending
      OBVIOUS
    <3> DEFINE a == Head(caller.left)
    <3>1. a.broker \in Server /\ AssignmentRequest(a) \in Request
          /\ Dispatch(a.broker, AssignmentRequest(a)) /\ AssignmentRequest(a).broker = a.broker
      BY AssignmentSent DEF Assignment, AssignmentRequest
    <3>2. UNCHANGED <<brokerVars, readVars, matchVars>>
      BY DEF SendAssignment
    <3> QED
      BY <3>1, <3>2 DEF Sends
  <2>5. EndSubscribe => Still
    BY DEF EndSubscribe
  <2> QED
    BY <1>2, <2>1, <2>2, <2>3, <2>4, <2>5 DEF MethodStep
<1>3. CASE HandOver
  BY <1>3 DEF HandOver
<1>4. CASE UNCHANGED vars
  BY <1>4
<1> QED
  BY <1>1, <1>2, <1>3, <1>4 DEF Next, TaskStep, DispatcherStep, ReaderStep, ServerStep, MatcherStep

(* TakeResponse, with the answer that comes out of the channel. *)
LEMMA ResponseTaken ==
  ASSUME TakeResponse, 0 \notin waiting
  PROVE  LET n == Head(responses)
         IN  /\ responses # <<>> /\ responses' = Tail(responses)
             /\ UNCHANGED <<callVars, sendVars, brokerVars, readVars, registrations, poolVars>>
             /\ \/ /\ n \in waiting
                   /\ results' = [m \in DOMAIN results \cup {n} |-> IF m = n THEN n ELSE results[m]]
                   /\ waiting' = waiting \ {n} /\ lost' = lost
                \/ /\ n \notin waiting
                   /\ lost' = IF Expects(n) THEN lost \cup {n} ELSE lost
                   /\ UNCHANGED <<results, waiting>>
<1>1. CASE Head(responses) \in waiting
  BY <1>1 DEF TakeResponse, Match
<1>2. CASE Head(responses) \notin waiting
  <2>1. waiting \ {0} = waiting
    OBVIOUS
  <2> QED
    BY <1>2, <2>1 DEF TakeResponse, Match
<1> QED
  BY <1>1, <1>2

LEMMA HeadAndTail ==
  ASSUME NEW S, NEW s \in Seq(S), s # <<>>
  PROVE  /\ Head(s) = s[1] /\ Head(s) \in S /\ Tail(s) \in Seq(S)
         /\ Len(Tail(s)) = Len(s) - 1 /\ Len(s) \in Nat \ {0}
         /\ \A i \in DOMAIN Tail(s) : i + 1 \in DOMAIN s /\ Tail(s)[i] = s[i + 1]
         /\ \A i \in DOMAIN s : i # 1 => i - 1 \in DOMAIN Tail(s) /\ s[i] = Tail(s)[i - 1]
         /\ ToSet(s) = {Head(s)} \cup ToSet(Tail(s))
<1>1. /\ Head(s) = s[1] /\ Head(s) \in S /\ Tail(s) \in Seq(S)
      /\ Len(Tail(s)) = Len(s) - 1 /\ Len(s) \in Nat \ {0}
  OBVIOUS
<1>2. \A i \in DOMAIN Tail(s) : i + 1 \in DOMAIN s /\ Tail(s)[i] = s[i + 1]
  OBVIOUS
<1>3. \A i \in DOMAIN s : i # 1 => i - 1 \in DOMAIN Tail(s) /\ s[i] = Tail(s)[i - 1]
  OBVIOUS
<1>4. 1 \in DOMAIN s
  BY <1>1
<1>5. ToSet(s) = {Head(s)} \cup ToSet(Tail(s))
  <2> DEFINE t == Tail(s)
             h == Head(s)
  <2>1. h = s[1] /\ 1 \in DOMAIN s /\ (\A i \in DOMAIN t : i + 1 \in DOMAIN s /\ t[i] = s[i + 1])
        /\ (\A i \in DOMAIN s : i # 1 => i - 1 \in DOMAIN t /\ s[i] = t[i - 1])
    BY <1>1, <1>2, <1>3, <1>4
  <2> HIDE DEF t, h
  <2>2. ToSet(s) = {h} \cup ToSet(t)
    BY <2>1 DEF ToSet
  <2> QED
    BY <2>2 DEF t, h
<1> QED
  BY <1>1, <1>2, <1>3, <1>5

LEMMA AppendedSet ==
  ASSUME NEW S, NEW s \in Seq(S), NEW e \in S
  PROVE  ToSet(Append(s, e)) = ToSet(s) \cup {e}
<1> DEFINE t == Append(s, e)
<1>1. DOMAIN t = DOMAIN s \cup {Len(s) + 1} /\ (\A i \in DOMAIN s : t[i] = s[i])
      /\ t[Len(s) + 1] = e
  BY AppendedSeq
<1> HIDE DEF t
<1>2. ToSet(t) = ToSet(s) \cup {e}
  BY <1>1 DEF ToSet
<1> QED
  BY <1>2 DEF t

LEMMA ConcatenatedSet ==
  ASSUME NEW S, NEW s \in Seq(S), NEW t \in Seq(S)
  PROVE  ToSet(s \o t) = ToSet(s) \cup ToSet(t)
<1> DEFINE u == s \o t
<1>1. /\ DOMAIN u = 1 .. Len(s) + Len(t) /\ DOMAIN s = 1 .. Len(s) /\ DOMAIN t = 1 .. Len(t)
      /\ Len(s) \in Nat /\ Len(t) \in Nat
      /\ \A i \in 1 .. Len(s) : u[i] = s[i]
      /\ \A i \in 1 .. Len(t) : u[Len(s) + i] = t[i]
  OBVIOUS
<1> HIDE DEF u
<1>2. \A i \in DOMAIN u : i \in DOMAIN s \/ (i - Len(s) \in DOMAIN t /\ u[i] = t[i - Len(s)])
  BY <1>1
<1>3. ToSet(u) \subseteq ToSet(s) \cup ToSet(t)
  BY <1>1, <1>2 DEF ToSet
<1>4. ToSet(s) \subseteq ToSet(u)
  BY <1>1 DEF ToSet
<1>5. ToSet(t) \subseteq ToSet(u)
  <2>1. \A i \in DOMAIN t : Len(s) + i \in DOMAIN u
    BY <1>1
  <2> QED
    BY <1>1, <2>1 DEF ToSet
<1> QED
  BY <1>3, <1>4, <1>5 DEF u

LEMMA SeqSet ==
  ASSUME NEW S, NEW s \in Seq(S)
  PROVE  ToSet(s) \subseteq S
BY DEF ToSet

----------------------------------------------------------------------------
(* The types are kept. *)

LEMMA ChannelsGrow ==
  ASSUME NEW S, NEW T, S \subseteq T
  PROVE  /\ \A f \in [Server -> Seq(S)] : f \in [Server -> Seq(T)]
         /\ \A f \in [Server -> Seq(Seq(S))] : f \in [Server -> Seq(Seq(T))]
         /\ \A f \in [Server -> SUBSET S] : f \in [Server -> SUBSET T]
<1>1. Seq(S) \subseteq Seq(T)
  BY SeqGrows
<1>2. Seq(Seq(S)) \subseteq Seq(Seq(T))
  <2> DEFINE A == Seq(S)
             B == Seq(T)
  <2>1. A \subseteq B
    BY <1>1
  <2> HIDE DEF A, B
  <2>2. Seq(A) \subseteq Seq(B)
    BY <2>1, SeqGrows
  <2> QED
    BY <2>2 DEF A, B
<1>3. \A f \in [Server -> Seq(S)] : f \in [Server -> Seq(T)]
  BY <1>1
<1>4. \A f \in [Server -> SUBSET S] : f \in [Server -> SUBSET T]
  OBVIOUS
<1>5. \A f \in [Server -> Seq(Seq(S))] : f \in [Server -> Seq(Seq(T))]
  BY <1>2
<1> QED
  BY <1>3, <1>4, <1>5

(* What is on its way, for one broker. *)
SentTypes(b) ==
  /\ dispatch[b] \in Seq(RequestNo) /\ batch[b] \in Seq(RequestNo)
  /\ outbound[b] \in Seq(Seq(RequestNo)) /\ received[b] \in Seq(RequestNo)
  /\ Len(dispatch[b]) <= DispatchCap /\ Len(batch[b]) <= MaxBatch
  /\ unanswered[b] \subseteq ToSet(received[b])

LEMMA SentTypesOf ==
  ASSUME SendTypes, NEW b \in Server
  PROVE  SentTypes(b)
BY DEF SendTypes, SentTypes

LEMMA BatchesAreSeqs ==
  ASSUME NEW S, NEW s \in Seq(Seq(S))
  PROVE  /\ \A x \in Seq(S) : Append(s, x) \in Seq(Seq(S))
         /\ s # <<>> => Head(s) \in Seq(S) /\ Tail(s) \in Seq(Seq(S))
<1> DEFINE B == Seq(S)
<1>1. s \in Seq(B)
  OBVIOUS
<1> HIDE DEF B
<1>2. (\A x \in B : Append(s, x) \in Seq(B)) /\ (s # <<>> => Head(s) \in B /\ Tail(s) \in Seq(B))
  BY <1>1
<1> QED
  BY <1>2 DEF B

LEMMA SendTypesSends ==
  ASSUME CallTypes, SendTypes, NEW c \in Server, NEW r \in Request, Sends(c, r)
  PROVE  SendTypes'
<1>1. RequestNo \subseteq RequestNo' /\ Len(requests) + 1 \in RequestNo'
  BY Dispatched DEF Sends, CallTypes, RequestsGrow
<1> DEFINE S == RequestNo
           T == RequestNo'
           n == Len(requests) + 1
<1>2. /\ dispatch \in [Server -> Seq(S)] /\ batch \in [Server -> Seq(S)]
      /\ outbound \in [Server -> Seq(Seq(S))] /\ received \in [Server -> Seq(S)]
      /\ unanswered \in [Server -> SUBSET S]
  BY DEF SendTypes
<1>3. /\ dispatch \in [Server -> Seq(T)] /\ batch \in [Server -> Seq(T)]
      /\ outbound \in [Server -> Seq(Seq(T))] /\ received \in [Server -> Seq(T)]
      /\ unanswered \in [Server -> SUBSET T]
  <2>1. S \subseteq T
    BY <1>1
  <2> HIDE DEF S, T
  <2> QED
    BY <1>2, <2>1, ChannelsGrow
<1>4. /\ dispatch' = [dispatch EXCEPT ![c] = Append(@, n)]
      /\ UNCHANGED <<batch, outbound, received, unanswered>> /\ Len(dispatch[c]) < DispatchCap
  BY DEF Sends, Dispatch
<1>5. n \in T
  BY <1>1
<1> HIDE DEF T, n
<1>6. dispatch[c] \in Seq(T)
  BY <1>3
<1>7. Append(dispatch[c], n) \in Seq(T) /\ Len(Append(dispatch[c], n)) = Len(dispatch[c]) + 1
      /\ Len(dispatch[c]) \in Nat
  BY <1>5, <1>6
<1>8. DispatchCap \in Nat
  BY ClientAssumption
<1>9. dispatch' \in [Server -> Seq(T)] /\ \A b \in Server : Len(dispatch'[b]) <= DispatchCap
  BY <1>3, <1>4, <1>7, <1>8 DEF SendTypes
<1> QED
  BY <1>3, <1>4, <1>9 DEF SendTypes, T

LEMMA SendTypesBuffer ==
  ASSUME SendTypes, NEW c \in Server, BufferRequest(c)
  PROVE  SendTypes'
<1> DEFINE n == Head(dispatch[c])
<1>1. RequestNo' = RequestNo /\ dispatch[c] # <<>> /\ ~Full(c)
      /\ dispatch' = [dispatch EXCEPT ![c] = Tail(@)]
      /\ batch' = [batch EXCEPT ![c] = Append(@, n)]
      /\ UNCHANGED <<outbound, received, unanswered>>
  BY DEF BufferRequest, RequestNo
<1>2. n \in RequestNo /\ Tail(dispatch[c]) \in Seq(RequestNo)
      /\ Len(Tail(dispatch[c])) = Len(dispatch[c]) - 1 /\ Len(dispatch[c]) \in Nat
  BY <1>1, SentTypesOf, HeadAndTail DEF SentTypes
<1> HIDE DEF n
<1>3. Append(batch[c], n) \in Seq(RequestNo) /\ Len(Append(batch[c], n)) = Len(batch[c]) + 1
      /\ Len(batch[c]) \in Nat
  BY <1>2, SentTypesOf DEF SentTypes
<1>4. Len(batch[c]) < MaxBatch /\ MaxBatch \in Nat /\ DispatchCap \in Nat
  BY <1>1, <1>3, ClientAssumption DEF Full
<1>5. dispatch' \in [Server -> Seq(RequestNo)] /\ batch' \in [Server -> Seq(RequestNo)]
  BY <1>1, <1>2, <1>3 DEF SendTypes
<1>6. ASSUME NEW b \in Server PROVE Len(dispatch'[b]) <= DispatchCap /\ Len(batch'[b]) <= MaxBatch
  <2>1. Len(dispatch[b]) <= DispatchCap /\ Len(batch[b]) <= MaxBatch
    BY DEF SendTypes
  <2>2. CASE b = c
    <3>1. dispatch'[b] = Tail(dispatch[c]) /\ batch'[b] = Append(batch[c], n)
      BY <1>1, <2>2 DEF SendTypes
    <3> QED
      BY <3>1, <2>1, <2>2, <1>2, <1>3, <1>4
  <2>3. CASE b # c
    <3>1. dispatch'[b] = dispatch[b] /\ batch'[b] = batch[b]
      BY <1>1, <2>3 DEF SendTypes
    <3> QED
      BY <3>1, <2>1
  <2> QED
    BY <2>2, <2>3
<1> QED
  BY <1>1, <1>5, <1>6 DEF SendTypes

LEMMA SendTypesFlush ==
  ASSUME SendTypes, NEW c \in Server, Flush(c)
  PROVE  SendTypes'
<1>1. RequestNo' = RequestNo /\ batch[c] # <<>>
      /\ outbound' = [outbound EXCEPT ![c] = Append(@, batch[c])]
      /\ batch' = [batch EXCEPT ![c] = <<>>]
      /\ UNCHANGED <<dispatch, received, unanswered>>
  BY DEF Flush, RequestNo
<1>2. Append(outbound[c], batch[c]) \in Seq(Seq(RequestNo))
  BY SentTypesOf, BatchesAreSeqs DEF SentTypes
<1>3. outbound' \in [Server -> Seq(Seq(RequestNo))] /\ batch' \in [Server -> Seq(RequestNo)]
  BY <1>1, <1>2 DEF SendTypes
<1>4. ASSUME NEW b \in Server PROVE Len(batch'[b]) <= MaxBatch
  <2>1. batch'[b] = batch[b] \/ batch'[b] = <<>>
    BY <1>1 DEF SendTypes
  <2> QED
    BY <2>1, ClientAssumption DEF SendTypes
<1> QED
  BY <1>1, <1>3, <1>4 DEF SendTypes

LEMMA SendTypesReadBatch ==
  ASSUME SendTypes, NEW c \in Server, ReadBatch(c)
  PROVE  SendTypes'
<1> DEFINE x == Head(outbound[c])
<1>1. RequestNo' = RequestNo /\ outbound[c] # <<>>
      /\ received' = [received EXCEPT ![c] = @ \o x]
      /\ unanswered' = [unanswered EXCEPT ![c] = @ \cup ToSet(x)]
      /\ outbound' = [outbound EXCEPT ![c] = Tail(@)]
      /\ UNCHANGED <<dispatch, batch>>
  BY DEF ReadBatch, RequestNo
<1>2. x \in Seq(RequestNo) /\ Tail(outbound[c]) \in Seq(Seq(RequestNo))
  BY <1>1, SentTypesOf, BatchesAreSeqs DEF SentTypes
<1> HIDE DEF x
<1>3. received[c] \o x \in Seq(RequestNo) /\ ToSet(x) \subseteq RequestNo
  BY <1>2, SentTypesOf, SeqSet DEF SentTypes
<1>4. ToSet(received[c] \o x) = ToSet(received[c]) \cup ToSet(x)
  <2>1. /\ received[c] \in Seq(RequestNo)
    BY SentTypesOf DEF SentTypes
  <2> QED
    BY <2>1, <1>2, ConcatenatedSet
<1>5. /\ received' \in [Server -> Seq(RequestNo)] /\ unanswered' \in [Server -> SUBSET RequestNo]
      /\ outbound' \in [Server -> Seq(Seq(RequestNo))]
  BY <1>1, <1>2, <1>3 DEF SendTypes
<1>6. ASSUME NEW b \in Server PROVE unanswered'[b] \subseteq ToSet(received'[b])
  <2>1. unanswered[b] \subseteq ToSet(received[b])
    BY DEF SendTypes
  <2>2. CASE b = c
    <3>1. received'[b] = received[c] \o x /\ unanswered'[b] = unanswered[c] \cup ToSet(x)
      BY <1>1, <2>2 DEF SendTypes
    <3> QED
      BY <3>1, <2>1, <2>2, <1>4
  <2>3. CASE b # c
    <3>1. received'[b] = received[b] /\ unanswered'[b] = unanswered[b]
      BY <1>1, <2>3 DEF SendTypes
    <3> QED
      BY <3>1, <2>1
  <2> QED
    BY <2>2, <2>3
<1> QED
  BY <1>1, <1>5, <1>6 DEF SendTypes

LEMMA SendTypesStep ==
  ASSUME CallTypes, SendTypes, [Next]_vars
  PROVE  SendTypes'
<1>1. CASE UNCHANGED <<sendVars, brokerVars>>
  BY <1>1 DEF SendTypes, RequestNo
<1>2. ASSUME NEW b \in Server, NEW n \in RequestNo, AnswerRequest(b, n) PROVE SendTypes'
  BY <1>2 DEF AnswerRequest, SendTypes, RequestNo
<1>3. (TakeRegistration \/ \E b \in Server : ReadAnswer(b) \/ ReadConsumerMessage(b))
        => UNCHANGED <<sendVars, brokerVars>>
  BY DEF TakeRegistration, ReadAnswer, ReadConsumerMessage
<1>4. TakeResponse => UNCHANGED <<sendVars, brokerVars>>
  BY DEF TakeResponse, Match
<1>5. ASSUME NEW b \in Server, NEW k \in Consumer, NotifyConsumer(b, k)
      PROVE  UNCHANGED <<sendVars, brokerVars>>
  BY <1>5 DEF NotifyConsumer
<1> QED
  BY <1>1, <1>2, <1>3, <1>4, <1>5, StepKinds, SendTypesSends, SendTypesBuffer, SendTypesFlush,
     SendTypesReadBatch

LEMMA MessageSent ==
  /\ \A n \in RequestNo : AnswerMessage(n) \in Message
  /\ \A k \in Consumer : ConsumerMessage(k) \in Message
  /\ \A m \in Message : /\ m.kind = "answer" => m.id \in RequestNo /\ m = AnswerMessage(m.id)
                        /\ m.kind = "consumer" => m.id \in Consumer
<1>1. \A n \in RequestNo : AnswerMessage(n) \in Message
  BY DEF Message, AnswerMessage
<1>2. \A k \in Consumer : ConsumerMessage(k) \in Message
  BY DEF Message, ConsumerMessage
<1>3. ASSUME NEW m \in Message
      PROVE  /\ m.kind = "answer" => m.id \in RequestNo /\ m = AnswerMessage(m.id)
             /\ m.kind = "consumer" => m.id \in Consumer
  <2>1. CASE m \in [kind : {"answer"}, id : RequestNo]
    <3>1. m.kind = "answer" /\ m.id \in RequestNo /\ m = [kind |-> m.kind, id |-> m.id]
      BY <2>1
    <3> QED
      BY <3>1 DEF AnswerMessage
  <2>2. CASE m \in [kind : {"consumer"}, id : Consumer]
    <3>1. m.kind = "consumer" /\ m.id \in Consumer
      BY <2>2
    <3> QED
      BY <3>1
  <2> QED
    BY <2>1, <2>2 DEF Message
<1> QED
  BY <1>1, <1>2, <1>3

(* The first message of a broker that has sent one. *)
LEMMA FirstMessage ==
  ASSUME MatchTypes, NEW b \in Server, inbound[b] # <<>>
  PROVE  /\ inbound[b] \in Seq(Message) /\ NextMessage(b) = Head(inbound[b])
         /\ NextMessage(b) \in Message
         /\ Tail(inbound[b]) \in Seq(Message)
         /\ NextMessage(b).kind = "answer" => NextMessage(b).id \in RequestNo
         /\ NextMessage(b).kind = "consumer" => NextMessage(b).id \in Consumer
<1>1. inbound[b] \in Seq(Message)
  BY DEF MatchTypes
<1>2. NextMessage(b) = Head(inbound[b]) /\ NextMessage(b) \in Message
      /\ Tail(inbound[b]) \in Seq(Message)
  <2> HIDE DEF Message
  <2> QED
    BY <1>1, HeadAndTail DEF NextMessage
<1> QED
  BY <1>1, <1>2, MessageSent

LEMMA MatchTypesSends ==
  ASSUME CallTypes, MatchTypes, NEW c \in Server, NEW r \in Request, Sends(c, r)
  PROVE  MatchTypes'
<1>1. RequestNo \subseteq RequestNo'
  BY Dispatched DEF Sends, CallTypes, RequestsGrow
<1>2. UNCHANGED <<inbound, reader, matchVars>>
  BY DEF Sends
<1> DEFINE S == RequestNo
           T == RequestNo'
           M == Message
           N == Message'
<1>3. S \subseteq T /\ M \subseteq N
  BY <1>1 DEF Message
<1>4. inbound \in [Server -> Seq(M)] /\ registrations \in Seq(S) /\ responses \in Seq(S)
      /\ waiting \subseteq S /\ DOMAIN results \subseteq S /\ lost \subseteq S
  BY DEF MatchTypes
<1> HIDE DEF S, T, M, N
<1>5. inbound \in [Server -> Seq(N)] /\ registrations \in Seq(T) /\ responses \in Seq(T)
      /\ waiting \subseteq T /\ DOMAIN results \subseteq T /\ lost \subseteq T
  BY <1>3, <1>4, SeqGrows
<1> QED
  BY <1>2, <1>5 DEF MatchTypes, T, N

LEMMA MatchTypesTaken ==
  ASSUME CallTypes, MatchTypes, TakeResponse
  PROVE  MatchTypes'
<1> DEFINE n == Head(responses)
<1>1. 0 \notin RequestNo
  BY RequestFacts DEF CallTypes
<1>2. 0 \notin waiting
  BY <1>1 DEF MatchTypes
<1>3. responses # <<>> /\ responses' = Tail(responses)
      /\ UNCHANGED <<requests, inbound, reader, registrations>>
  BY <1>2, ResponseTaken
<1>4. n \in RequestNo /\ Tail(responses) \in Seq(RequestNo)
      /\ Len(Tail(responses)) = Len(responses) - 1 /\ Len(responses) \in Nat
  BY <1>3, HeadAndTail DEF MatchTypes
<1>5. /\ waiting' \subseteq RequestNo /\ DOMAIN results' \subseteq RequestNo
      /\ lost' \subseteq RequestNo
  BY <1>2, <1>4, ResponseTaken DEF MatchTypes
<1>6. RequestNo' = RequestNo /\ Message' = Message
  BY <1>3 DEF RequestNo, Message
<1>7. Len(responses') <= ResponseCap
  BY <1>3, <1>4, ClientAssumption DEF MatchTypes
<1> QED
  BY <1>3, <1>4, <1>5, <1>6, <1>7 DEF MatchTypes

LEMMA MatchTypesRegister ==
  ASSUME MatchTypes, registrations' \in Seq(RequestNo), Len(registrations') <= RegisterCap,
         waiting' \subseteq RequestNo, 
         UNCHANGED <<requests, inbound, reader, responses, results, lost>>
  PROVE  MatchTypes'
BY DEF MatchTypes, RequestNo, Message

LEMMA MatchTypesRead ==
  ASSUME MatchTypes, inbound' \in [Server -> Seq(Message)], reader' \in [Server -> {"reading", "dead"}],
         responses' \in Seq(RequestNo), Len(responses') <= ResponseCap,
         UNCHANGED <<requests, registrations, waiting, results, lost>>
  PROVE  MatchTypes'
<1>1. RequestNo' = RequestNo /\ Message' = Message
  BY DEF RequestNo, Message
<1> HIDE DEF Message
<1> QED
  BY <1>1 DEF MatchTypes

LEMMA MatchTypesStep ==
  ASSUME CallTypes, SendTypes, MatchTypes, [Next]_vars
  PROVE  MatchTypes'
<1>0. \A s \in Seq(RequestNo) : Len(s) \in Nat
  OBVIOUS
<1>10. /\ registrations \in Seq(RequestNo) /\ Len(registrations) \in Nat
       /\ Len(registrations) <= RegisterCap /\ RegisterCap \in Nat /\ waiting \subseteq RequestNo
  BY <1>0, ClientAssumption DEF MatchTypes
<1>1. CASE UNCHANGED <<sendVars, readVars, matchVars>>
  BY <1>1 DEF MatchTypes, RequestNo, Message
<1>2. ASSUME NEW b \in Server, BufferRequest(b) PROVE MatchTypes'
  <2>1. UNCHANGED <<requests, inbound, reader, responses, waiting, results, lost>>
        /\ dispatch[b] # <<>>
    BY <1>2 DEF BufferRequest
  <2>2. \/ registrations' = registrations
        \/ /\ Len(registrations) < RegisterCap
           /\ registrations' = Append(registrations, Head(dispatch[b]))
    BY <1>2 DEF BufferRequest
  <2>3. Head(dispatch[b]) \in RequestNo
    BY <2>1, SentTypesOf, HeadAndTail DEF SentTypes
  <2>4. /\ Append(registrations, Head(dispatch[b])) \in Seq(RequestNo)
        /\ Len(Append(registrations, Head(dispatch[b]))) = Len(registrations) + 1
    BY <2>3, AppendedSeq DEF MatchTypes
  <2>5. registrations' \in Seq(RequestNo) /\ Len(registrations') <= RegisterCap
    BY <2>2, <2>4, <1>10
  <2>6. waiting' \subseteq RequestNo
    BY <2>1 DEF MatchTypes
  <2> QED
    BY <2>1, <2>5, <2>6, MatchTypesRegister
<1>3. CASE TakeRegistration
  <2>1. /\ registrations # <<>> /\ waiting' = waiting \cup {Head(registrations)}
        /\ registrations' = Tail(registrations)
        /\ UNCHANGED <<requests, inbound, reader, responses, results, lost>>
    BY <1>3 DEF TakeRegistration
  <2>2. /\ Head(registrations) \in RequestNo /\ Tail(registrations) \in Seq(RequestNo)
        /\ Len(Tail(registrations)) = Len(registrations) - 1
    BY <2>1, HeadAndTail DEF MatchTypes
  <2>3. Len(registrations') <= RegisterCap
    <3>1. Len(registrations') = Len(registrations) - 1
      BY <2>1, <2>2
    <3> QED
      BY <3>1, <1>10
  <2>4. waiting' \subseteq RequestNo
    BY <2>1, <2>2, <1>10
  <2> QED
    BY <2>1, <2>2, <2>3, <2>4, MatchTypesRegister
<1>4. ASSUME NEW b \in Server, NEW m \in Message, inbound' = [inbound EXCEPT ![b] = Append(@, m)],
             UNCHANGED <<requests, reader, matchVars>>
      PROVE  MatchTypes'
  <2>1. inbound[b] \in Seq(Message)
    BY DEF MatchTypes
  <2>2. Append(inbound[b], m) \in Seq(Message)
    BY <2>1, AppendedSeq
  <2>3. inbound' \in [Server -> Seq(Message)]
    BY <2>2, <1>4 DEF MatchTypes
  <2>4. reader' \in [Server -> {"reading", "dead"}] /\ responses' \in Seq(RequestNo)
        /\ Len(responses') <= ResponseCap
    BY <1>4 DEF MatchTypes
  <2> QED
    BY <2>3, <2>4, <1>4, MatchTypesRead
<1>5. ASSUME NEW b \in Server, NEW n \in RequestNo, AnswerRequest(b, n) PROVE MatchTypes'
  <2>1. AnswerMessage(n) \in Message
    BY MessageSent
  <2> QED
    BY <2>1, <1>4, <1>5 DEF AnswerRequest
<1>6. ASSUME NEW b \in Server, NEW k \in Consumer, NotifyConsumer(b, k) PROVE MatchTypes'
  <2>1. ConsumerMessage(k) \in Message
    BY MessageSent
  <2> QED
    BY <2>1, <1>4, <1>6 DEF NotifyConsumer
<1>7. ASSUME NEW b \in Server, ReadAnswer(b) PROVE MatchTypes'
  <2>1. /\ inbound[b] # <<>> /\ NextMessage(b).kind = "answer" /\ Len(responses) < ResponseCap
        /\ responses' = Append(responses, NextMessage(b).id)
        /\ inbound' = [inbound EXCEPT ![b] = Tail(@)]
        /\ UNCHANGED <<requests, reader, registrations, waiting, results, lost>>
    BY <1>7 DEF ReadAnswer
  <2>2. NextMessage(b).id \in RequestNo /\ Tail(inbound[b]) \in Seq(Message)
    BY <2>1, FirstMessage
  <2>3. responses' \in Seq(RequestNo) /\ Len(responses') = Len(responses) + 1
    BY <2>1, <2>2, AppendedSeq DEF MatchTypes
  <2>4. Len(responses') <= ResponseCap
    BY <2>1, <2>3, <1>0, ClientAssumption DEF MatchTypes
  <2>5. inbound' \in [Server -> Seq(Message)] /\ reader' \in [Server -> {"reading", "dead"}]
    BY <2>1, <2>2 DEF MatchTypes
  <2> QED
    BY <2>1, <2>3, <2>4, <2>5, MatchTypesRead
<1>8. ASSUME NEW b \in Server, ReadConsumerMessage(b) PROVE MatchTypes'
  <2>1. /\ inbound[b] # <<>> /\ inbound' = [inbound EXCEPT ![b] = Tail(@)]
        /\ UNCHANGED <<requests, matchVars>>
    BY <1>8 DEF ReadConsumerMessage
  <2>2. reader' \in [Server -> {"reading", "dead"}]
    BY <1>8 DEF ReadConsumerMessage, MatchTypes
  <2>3. Tail(inbound[b]) \in Seq(Message)
    BY <2>1, FirstMessage
  <2>4. inbound' \in [Server -> Seq(Message)]
    BY <2>1, <2>3 DEF MatchTypes
  <2>5. responses' \in Seq(RequestNo) /\ Len(responses') <= ResponseCap
    BY <2>1 DEF MatchTypes
  <2> QED
    BY <2>1, <2>2, <2>4, <2>5, MatchTypesRead
<1>9. ASSUME NEW b \in Server, Flush(b) \/ ReadBatch(b) PROVE MatchTypes'
  <2>1. UNCHANGED <<requests, readVars, matchVars>>
    BY <1>9 DEF Flush, ReadBatch
  <2> QED
    BY <2>1 DEF MatchTypes, RequestNo, Message
<1> QED
  BY <1>1, <1>2, <1>3, <1>5, <1>6, <1>7, <1>8, <1>9, StepKinds, MatchTypesSends, MatchTypesTaken

LEMMA PoolTypesStep ==
  ASSUME MatchTypes, PoolTypes, CallTypes, [Next]_vars
  PROVE  PoolTypes'
<1> DEFINE Held == [receiver : {"none", "open", "dropped"}, held : 0 .. ConsumerCap]
<1>0. ConsumerCap \in Nat /\ PoolCap \in Nat
  BY ClientAssumption
<1>1. CASE UNCHANGED poolVars
  BY <1>1 DEF PoolTypes
<1>2. ASSUME NEW k \in Consumer, NEW h \in Held, consumers' = [consumers EXCEPT ![k] = h],
             UNCHANGED <<pool, poolTask>>
      PROVE  PoolTypes'
  <2> HIDE DEF Held
  <2>1. consumers \in [Consumer -> Held]
    BY DEF PoolTypes, Held
  <2>2. consumers' \in [Consumer -> Held]
    BY <1>2, <2>1
  <2> QED
    BY <1>2, <2>2 DEF PoolTypes, Held
<1>3. ASSUME NEW k \in Consumer
      PROVE  consumers[k] \in Held /\ consumers[k].held \in 0 .. ConsumerCap
  BY DEF PoolTypes
<1>4. ASSUME NEW k \in Consumer, NEW arrangement \in Arrangements, Subscribe(k, arrangement)
      PROVE  PoolTypes'
  <2> DEFINE h == [consumers[k] EXCEPT !.receiver = "open"]
  <2>1. h \in Held
    BY <1>3
  <2>2. consumers' = [consumers EXCEPT ![k] = h] /\ UNCHANGED <<pool, poolTask>>
    BY <1>4 DEF Subscribe
  <2> QED
    BY <2>1, <2>2, <1>2
<1>5. CASE EndSubscribe
  <2> DEFINE k == caller.consumer
             h == [consumers[k] EXCEPT !.receiver = "dropped"]
  <2>1. k \in Consumer
    BY <1>5 DEF EndSubscribe, CallTypes
  <2>2. h \in Held
    BY <1>3, <2>1
  <2>3. consumers' = [consumers EXCEPT ![k] = h] /\ UNCHANGED <<pool, poolTask>>
    BY <1>5 DEF EndSubscribe
  <2> QED
    BY <2>1, <2>2, <2>3, <1>2
<1>6. ASSUME NEW b \in Server, ReadConsumerMessage(b) PROVE PoolTypes'
  <2>1. CASE pool' = pool
    BY <1>6, <2>1 DEF ReadConsumerMessage, PoolTypes
  <2>2. CASE pool' # pool
    <3>1. /\ Len(pool) < PoolCap /\ pool' = Append(pool, NextMessage(b).id)
          /\ inbound[b] # <<>> /\ NextMessage(b).kind = "consumer"
          /\ UNCHANGED <<consumers, poolTask>>
      BY <1>6, <2>2 DEF ReadConsumerMessage
    <3>2. NextMessage(b).id \in Consumer
      BY <3>1, FirstMessage
    <3>3. pool' \in Seq(Consumer) /\ Len(pool') = Len(pool) + 1 /\ Len(pool) \in Nat
      BY <3>1, <3>2, AppendedSeq DEF PoolTypes
    <3> QED
      BY <3>1, <3>3, <1>0 DEF PoolTypes
  <2> QED
    BY <2>1, <2>2
<1>7. CASE HandOver
  <2> DEFINE k == Head(pool)
  <2>1. pool # <<>> /\ pool' = Tail(pool)
    BY <1>7 DEF HandOver
  <2>2. k \in Consumer /\ pool' \in Seq(Consumer) /\ Len(pool') = Len(pool) - 1 /\ Len(pool) \in Nat
    BY <2>1, HeadAndTail DEF PoolTypes
  <2>3. pool' \in Seq(Consumer) /\ Len(pool') <= PoolCap
    BY <2>2, <1>0 DEF PoolTypes
  <2>4. poolTask' \in {"running", "dead"}
    BY <1>7, <1>3, <2>2 DEF HandOver, PoolTypes
  <2>5. consumers' \in [Consumer -> Held]
    <3>1. consumers[k] \in Held /\ consumers[k].held \in 0 .. ConsumerCap
      BY <1>3, <2>2
    <3>2. CASE consumers[k].receiver = "open"
      <4> DEFINE h == [consumers[k] EXCEPT !.held = @ + 1]
      <4>1. consumers[k].held < ConsumerCap /\ consumers' = [consumers EXCEPT ![k] = h]
        BY <1>7, <3>2 DEF HandOver
      <4>2. h \in Held
        BY <3>1, <4>1, <1>0
      <4> HIDE DEF Held, h
      <4>3. consumers \in [Consumer -> Held]
        BY DEF PoolTypes, Held
      <4> QED
        BY <4>1, <4>2, <4>3
    <3>3. CASE consumers[k].receiver # "open"
      <4>1. consumers' = consumers
        BY <1>7, <3>1, <3>3 DEF HandOver
      <4> QED
        BY <4>1 DEF PoolTypes
    <3> QED
      BY <3>2, <3>3
  <2> QED
    BY <2>3, <2>4, <2>5 DEF PoolTypes
<1>8. \A t \in Topic, b \in Server : InsertTopic(t) \/ SendToNowhere(t) \/ SendTopicData(t, b)
        => UNCHANGED poolVars
  BY DEF InsertTopic, SendToNowhere, SendTopicData
<1>9. \A b \in Server : AskLeader(b) => UNCHANGED poolVars
  BY DEF AskLeader
<1>10. Return \/ SendAssignment => UNCHANGED poolVars
  BY DEF Return, SendAssignment
<1>11. \A b \in Server : DispatcherStep(b) \/ ReadAnswer(b) \/ ServerStep(b) => UNCHANGED poolVars
  BY DEF DispatcherStep, BufferRequest, Flush, ReadAnswer, ServerStep, ReadBatch, AnswerRequest
<1>12. MatcherStep => UNCHANGED poolVars
  BY DEF MatcherStep, TakeRegistration, TakeResponse, Match
<1>13. \A b \in Server, k \in Consumer : NotifyConsumer(b, k) => UNCHANGED poolVars
  BY DEF NotifyConsumer
<1>14. \A t \in Topic : InsertTopic(t) \/ SendToNowhere(t) => UNCHANGED poolVars
  BY DEF InsertTopic, SendToNowhere
<1>15. \A mapping \in Mappings : CreateTopic(mapping) => UNCHANGED poolVars
  BY DEF CreateTopic
<1>16. CASE Call
  BY <1>16, <1>1, <1>4, <1>8, <1>14 DEF Call
<1>17. CASE MethodStep
  BY <1>17, <1>1, <1>5, <1>9, <1>10, <1>15 DEF MethodStep
<1>18. CASE UNCHANGED vars
  BY <1>18, <1>1
<1> QED
  BY <1>1, <1>6, <1>7, <1>11, <1>12, <1>13, <1>16, <1>17, <1>18 DEF Next, TaskStep, ReaderStep

ClientTypes == CallTypes /\ SendTypes /\ MatchTypes /\ PoolTypes

LEMMA ClientTypesInit ==
  ASSUME Init
  PROVE  ClientTypes
<1>1. CallTypes
  <2>1. requests \in Seq(Request)
    <3> HIDE DEF Request
    <3> QED
      BY DEF Init
  <2>2. DOMAIN metadata = {} /\ leaderStream = FALSE /\ caller.state = "idle"
    BY DEF Init, Idle
  <2> QED
    BY <2>1, <2>2 DEF CallTypes, CallerStates
<1>2. SendTypes
  <2>1. \A b \in Server : Len(dispatch[b]) = 0 /\ Len(batch[b]) = 0 /\ unanswered[b] = {}
    BY DEF Init
  <2>2. 0 <= DispatchCap /\ 0 <= MaxBatch
    BY ClientAssumption
  <2>3. /\ dispatch \in [Server -> Seq(RequestNo)] /\ batch \in [Server -> Seq(RequestNo)]
        /\ outbound \in [Server -> Seq(Seq(RequestNo))] /\ received \in [Server -> Seq(RequestNo)]
        /\ unanswered \in [Server -> SUBSET RequestNo]
    BY DEF Init
  <2> QED
    BY <2>1, <2>2, <2>3 DEF SendTypes
<1>3. MatchTypes
  BY ClientAssumption DEF Init, MatchTypes
<1>4. PoolTypes
  BY ClientAssumption DEF Init, PoolTypes
<1> QED
  BY <1>1, <1>2, <1>3, <1>4 DEF ClientTypes

LEMMA ClientTypesAlways == Spec => []ClientTypes
<1>1. ClientTypes /\ [Next]_vars => ClientTypes'
  BY CallTypesStep, SendTypesStep, MatchTypesStep, PoolTypesStep DEF ClientTypes
<1> QED
  BY <1>1, ClientTypesInit, PTL DEF Spec

LEMMA ClientTypesOK ==
  ASSUME ClientTypes
  PROVE  TypeOK
<1>1. \A n \in RequestNo :
        /\ requests[n].broker \in Server
        /\ requests[n].op \in {"who_leader", "topic_data_insert", "consumer_assignment"}
  BY RequestFacts DEF ClientTypes, CallTypes
<1>2. \A b \in Server :
       /\ dispatch[b] \in Seq(RequestNo) /\ Len(dispatch[b]) <= DispatchCap
       /\ batch[b] \in Seq(RequestNo) /\ Len(batch[b]) <= MaxBatch
       /\ outbound[b] \in Seq(Seq(RequestNo))
       /\ received[b] \in Seq(RequestNo)
       /\ unanswered[b] \subseteq ToSet(received[b])
  BY DEF ClientTypes, SendTypes
<1>3. caller.state \in CallerStates /\ leaderStream \in BOOLEAN
      /\ DOMAIN metadata \subseteq Topic /\ \A t \in DOMAIN metadata : metadata[t] \in Mappings
  BY DEF ClientTypes, CallTypes
<1>4. /\ reader \in [Server -> {"reading", "dead"}]
      /\ registrations \in Seq(RequestNo) /\ Len(registrations) <= RegisterCap
      /\ responses \in Seq(RequestNo) /\ Len(responses) <= ResponseCap
      /\ waiting \subseteq RequestNo /\ lost \subseteq RequestNo
  BY DEF ClientTypes, MatchTypes
<1> QED
  BY <1>1, <1>2, <1>3, <1>4 DEF ClientTypes, PoolTypes, TypeOK

(* Whatever is called, whatever the brokers answer and in whatever order the
   tasks run, every channel of the client holds what it is for and no more
   than its capacity, and a broker owes answers only to requests it has read. *)
THEOREM ClientTypeCorrect == Spec => []TypeOK
BY ClientTypesAlways, ClientTypesOK, PTL

----------------------------------------------------------------------------
(* The stream of requests to a broker. *)

StreamOf(read, written, buffered, sent) ==
  read \o FlattenSeq(written) \o buffered \o sent

LEMMA StreamParts ==
  ASSUME NEW S, NEW read \in Seq(S), NEW written \in Seq(Seq(S)), NEW buffered \in Seq(S),
         NEW sent \in Seq(S)
  PROVE  /\ StreamOf(read, written, buffered, sent) \in Seq(S)
         /\ sent # <<>> =>
              StreamOf(read, written, Append(buffered, Head(sent)), Tail(sent))
                = StreamOf(read, written, buffered, sent)
         /\ StreamOf(read, Append(written, buffered), <<>>, sent)
                = StreamOf(read, written, buffered, sent)
         /\ written # <<>> =>
              StreamOf(read \o Head(written), Tail(written), buffered, sent)
                = StreamOf(read, written, buffered, sent)
         /\ \A n \in S : StreamOf(read, written, buffered, Append(sent, n))
                           = Append(StreamOf(read, written, buffered, sent), n)
<1> DEFINE w == FlattenSeq(written)
           rw == read \o w
           rwb == rw \o buffered
<1>1. w \in Seq(S) /\ rw \in Seq(S) /\ rwb \in Seq(S)
  <2>1. w \in Seq(S)
    BY FlattenTyped
  <2> HIDE DEF w
  <2>2. rw \in Seq(S)
    BY <2>1
  <2> HIDE DEF rw
  <2>3. rwb \in Seq(S)
    BY <2>2
  <2> QED
    BY <2>1, <2>2, <2>3
<1>2. StreamOf(read, written, buffered, sent) = rwb \o sent
  BY DEF StreamOf
<1>3. rwb \o sent \in Seq(S)
  <2> HIDE DEF rwb
  <2> QED
    BY <1>1
<1>4. ASSUME sent # <<>>
      PROVE  StreamOf(read, written, Append(buffered, Head(sent)), Tail(sent)) = rwb \o sent
  <2> DEFINE h == <<Head(sent)>>
             t == Tail(sent)
  <2>1. h \in Seq(S) /\ t \in Seq(S) /\ sent = h \o t /\ Append(buffered, Head(sent)) = buffered \o h
    BY <1>4
  <2>2. StreamOf(read, written, Append(buffered, Head(sent)), Tail(sent)) = (rw \o (buffered \o h)) \o t
    BY <2>1 DEF StreamOf
  <2>3. rw \o (buffered \o h) = (rw \o buffered) \o h
    <3>1. rw \in Seq(S) /\ h \in Seq(S)
      BY <1>1, <2>1
    <3> HIDE DEF h, rw
    <3> QED
      BY <3>1, ConcatAssociative
  <2>4. (rwb \o h) \o t = rwb \o (h \o t)
    <3>1. rwb \in Seq(S) /\ h \in Seq(S) /\ t \in Seq(S)
      BY <1>1, <2>1
    <3> HIDE DEF h, t, rwb
    <3> QED
      BY <3>1, ConcatAssociative
  <2> QED
    BY <2>1, <2>2, <2>3, <2>4
<1>5. StreamOf(read, Append(written, buffered), <<>>, sent) = rwb \o sent
  <2>1. FlattenSeq(Append(written, buffered)) = w \o buffered
    BY FlattenAppend
  <2>2. StreamOf(read, Append(written, buffered), <<>>, sent)
          = ((read \o (w \o buffered)) \o <<>>) \o sent
    BY <2>1 DEF StreamOf
  <2> HIDE DEF w
  <2>3. read \o (w \o buffered) = rwb
    BY <1>1, ConcatAssociative
  <2>4. rwb \o <<>> = rwb
    <3> HIDE DEF rwb
    <3> QED
      BY <1>1
  <2> QED
    BY <2>2, <2>3, <2>4
<1>6. ASSUME written # <<>>
      PROVE  StreamOf(read \o Head(written), Tail(written), buffered, sent) = rwb \o sent
  <2> DEFINE h == Head(written)
             t == FlattenSeq(Tail(written))
  <2>1. w = h \o t
    BY <1>6, FlattenHead
  <2>2. h \in Seq(S) /\ t \in Seq(S)
    BY <1>6, BatchesAreSeqs, FlattenTyped
  <2>3. StreamOf(read \o h, Tail(written), buffered, sent) = (((read \o h) \o t) \o buffered) \o sent
    BY DEF StreamOf
  <2> HIDE DEF h, t, w
  <2>4. (read \o h) \o t = read \o (h \o t)
    BY <2>2, ConcatAssociative
  <2> QED
    BY <2>1, <2>3, <2>4 DEF h
<1>7. ASSUME NEW n \in S
      PROVE  StreamOf(read, written, buffered, Append(sent, n)) = Append(rwb \o sent, n)
  <2>1. StreamOf(read, written, buffered, Append(sent, n)) = rwb \o Append(sent, n)
    BY DEF StreamOf
  <2> HIDE DEF rwb
  <2>2. rwb \o Append(sent, n) = Append(rwb \o sent, n)
    BY <1>1
  <2> QED
    BY <2>1, <2>2
<1> HIDE DEF rwb
<1> QED
  BY <1>2, <1>3, <1>4, <1>5, <1>6, <1>7

LEMMA StreamIs ==
  ASSUME NEW b \in Server
  PROVE  /\ Stream(b) = StreamOf(received[b], outbound[b], batch[b], dispatch[b])
         /\ Stream(b)' = StreamOf(received'[b], outbound'[b], batch'[b], dispatch'[b])
BY DEF Stream, StreamOf

LEMMA StreamPartsOf ==
  ASSUME NEW b \in Server, NEW S, dispatch[b] \in Seq(S), batch[b] \in Seq(S),
         outbound[b] \in Seq(Seq(S)), received[b] \in Seq(S)
  PROVE  /\ Stream(b) \in Seq(S)
         /\ dispatch[b] # <<>> =>
              StreamOf(received[b], outbound[b], Append(batch[b], Head(dispatch[b])), Tail(dispatch[b]))
                = Stream(b)
         /\ StreamOf(received[b], Append(outbound[b], batch[b]), <<>>, dispatch[b]) = Stream(b)
         /\ outbound[b] # <<>> =>
              StreamOf(received[b] \o Head(outbound[b]), Tail(outbound[b]), batch[b], dispatch[b])
                = Stream(b)
         /\ \A n \in S : StreamOf(received[b], outbound[b], batch[b], Append(dispatch[b], n))
                           = Append(Stream(b), n)
<1> DEFINE d == dispatch[b]
           ba == batch[b]
           o == outbound[b]
           r == received[b]
<1>1. d \in Seq(S) /\ ba \in Seq(S) /\ o \in Seq(Seq(S)) /\ r \in Seq(S)
  OBVIOUS
<1>2. Stream(b) = StreamOf(r, o, ba, d)
  BY StreamIs
<1> HIDE DEF d, ba, o, r
<1>3. /\ StreamOf(r, o, ba, d) \in Seq(S)
      /\ d # <<>> => StreamOf(r, o, Append(ba, Head(d)), Tail(d)) = StreamOf(r, o, ba, d)
      /\ StreamOf(r, Append(o, ba), <<>>, d) = StreamOf(r, o, ba, d)
      /\ o # <<>> => StreamOf(r \o Head(o), Tail(o), ba, d) = StreamOf(r, o, ba, d)
      /\ \A n \in S : StreamOf(r, o, ba, Append(d, n)) = Append(StreamOf(r, o, ba, d), n)
  BY <1>1, StreamParts
<1> QED
  BY <1>2, <1>3 DEF d, ba, o, r

LEMMA StreamTyped ==
  ASSUME SendTypes, NEW b \in Server
  PROVE  Stream(b) \in Seq(RequestNo)
<1>1. /\ dispatch[b] \in Seq(RequestNo) /\ batch[b] \in Seq(RequestNo)
      /\ outbound[b] \in Seq(Seq(RequestNo)) /\ received[b] \in Seq(RequestNo)
  BY SentTypesOf DEF SentTypes
<1> QED
  BY <1>1, StreamPartsOf

(* A request is put at the end of its broker's stream; nothing else changes a
   stream, whatever moves along it. *)
LEMMA StreamStep ==
  ASSUME CallTypes, SendTypes, [Next]_vars, NEW b \in Server
  PROVE  \/ Stream(b)' = Stream(b) /\ requests' = requests
         \/ \E r \in Request : \E c \in Server :
              /\ Dispatch(c, r) /\ r.broker = c
              /\ Stream(b)' = IF c = b THEN Append(Stream(b), Len(requests) + 1) ELSE Stream(b)
<1> DEFINE Kept == Stream(b)' = Stream(b) /\ requests' = requests
<1>1. /\ dispatch[b] \in Seq(RequestNo) /\ batch[b] \in Seq(RequestNo)
      /\ outbound[b] \in Seq(Seq(RequestNo)) /\ received[b] \in Seq(RequestNo)
  BY SentTypesOf DEF SentTypes
<1>2. CASE UNCHANGED <<requests, received, outbound, batch, dispatch>>
  BY <1>2, StreamIs
<1>3. ASSUME NEW c \in Server, NEW r \in Request, Sends(c, r)
      PROVE  /\ Dispatch(c, r) /\ r.broker = c
             /\ Stream(b)' = IF c = b THEN Append(Stream(b), Len(requests) + 1) ELSE Stream(b)
  <2>1. dispatch' = [dispatch EXCEPT ![c] = Append(@, Len(requests) + 1)]
        /\ UNCHANGED <<batch, outbound, received>> /\ dispatch \in [Server -> Seq(RequestNo)]
    BY <1>3 DEF Sends, Dispatch, SendTypes
  <2>2. CASE c = b
    <3> DEFINE T == RequestNo \cup {Len(requests) + 1}
    <3>1. /\ dispatch[b] \in Seq(T) /\ batch[b] \in Seq(T)
          /\ outbound[b] \in Seq(Seq(T)) /\ received[b] \in Seq(T)
      <4>1. RequestNo \subseteq T
        OBVIOUS
      <4> HIDE DEF T
      <4>2. Seq(RequestNo) \subseteq Seq(T)
        BY <4>1, SeqGrows
      <4>3. Seq(Seq(RequestNo)) \subseteq Seq(Seq(T))
        BY <4>2, SeqGrows
      <4> QED
        BY <1>1, <4>2, <4>3
    <3>2. Len(requests) + 1 \in T
      OBVIOUS
    <3> HIDE DEF T
    <3>3. StreamOf(received[b], outbound[b], batch[b], Append(dispatch[b], Len(requests) + 1))
            = Append(Stream(b), Len(requests) + 1)
      BY <3>1, <3>2, StreamPartsOf
    <3> QED
      BY <1>3, <2>1, <2>2, <3>3, StreamIs DEF Sends
  <2>3. CASE c # b
    <3>1. dispatch'[b] = dispatch[b]
      BY <2>1, <2>3
    <3> QED
      BY <1>3, <2>1, <2>3, <3>1, StreamIs DEF Sends
  <2> QED
    BY <2>2, <2>3
<1>4. ASSUME NEW c \in Server, BufferRequest(c) PROVE Kept
  <2>1. /\ dispatch' = [dispatch EXCEPT ![c] = Tail(@)] /\ dispatch[c] # <<>>
        /\ batch' = [batch EXCEPT ![c] = Append(@, Head(dispatch[c]))]
        /\ UNCHANGED <<requests, outbound, received>>
    BY <1>4 DEF BufferRequest
  <2>2. dispatch'[b] = (IF b = c THEN Tail(dispatch[b]) ELSE dispatch[b])
        /\ batch'[b] = (IF b = c THEN Append(batch[b], Head(dispatch[b])) ELSE batch[b])
    BY <2>1 DEF SendTypes
  <2>3. dispatch[b] # <<>> =>
          StreamOf(received[b], outbound[b], Append(batch[b], Head(dispatch[b])), Tail(dispatch[b]))
            = Stream(b)
    BY <1>1, StreamPartsOf
  <2> QED
    BY <2>1, <2>2, <2>3, StreamIs
<1>5. ASSUME NEW c \in Server, Flush(c) PROVE Kept
  <2>1. /\ outbound' = [outbound EXCEPT ![c] = Append(@, batch[c])]
        /\ batch' = [batch EXCEPT ![c] = <<>>]
        /\ UNCHANGED <<requests, dispatch, received>>
    BY <1>5 DEF Flush
  <2>2. outbound'[b] = (IF b = c THEN Append(outbound[b], batch[b]) ELSE outbound[b])
        /\ batch'[b] = (IF b = c THEN <<>> ELSE batch[b])
    BY <2>1 DEF SendTypes
  <2>3. StreamOf(received[b], Append(outbound[b], batch[b]), <<>>, dispatch[b])
            = Stream(b)
    BY <1>1, StreamPartsOf
  <2> QED
    BY <2>1, <2>2, <2>3, StreamIs
<1>6. ASSUME NEW c \in Server, ReadBatch(c) PROVE Kept
  <2>1. /\ received' = [received EXCEPT ![c] = @ \o Head(outbound[c])] /\ outbound[c] # <<>>
        /\ outbound' = [outbound EXCEPT ![c] = Tail(@)]
        /\ UNCHANGED <<requests, dispatch, batch>>
    BY <1>6 DEF ReadBatch
  <2>2. outbound'[b] = (IF b = c THEN Tail(outbound[b]) ELSE outbound[b])
        /\ received'[b] = (IF b = c THEN received[b] \o Head(outbound[b]) ELSE received[b])
    BY <2>1 DEF SendTypes
  <2>3. outbound[b] # <<>> =>
          StreamOf(received[b] \o Head(outbound[b]), Tail(outbound[b]), batch[b], dispatch[b])
            = Stream(b)
    BY <1>1, StreamPartsOf
  <2> QED
    BY <2>1, <2>2, <2>3, StreamIs
<1>7. CASE \/ \E c \in Server, n \in RequestNo : AnswerRequest(c, n)
           \/ \E c \in Server, k \in Consumer : NotifyConsumer(c, k)
           \/ \E c \in Server : ReadAnswer(c) \/ ReadConsumerMessage(c)
           \/ TakeRegistration
  <2>1. UNCHANGED <<requests, received, outbound, batch, dispatch>>
    BY <1>7 DEF AnswerRequest, NotifyConsumer, ReadAnswer, ReadConsumerMessage, TakeRegistration
  <2> QED
    BY <2>1, <1>2
<1>8. CASE TakeResponse
  <2>1. UNCHANGED <<requests, received, outbound, batch, dispatch>>
    BY <1>8 DEF TakeResponse, Match
  <2> QED
    BY <2>1, <1>2
<1>9. CASE UNCHANGED <<sendVars, brokerVars, readVars, matchVars>>
  BY <1>9, <1>2
<1>10. CASE \E c \in Server, r \in Request : Sends(c, r)
  BY <1>10, <1>3
<1> QED
  BY <1>4, <1>5, <1>6, <1>7, <1>8, <1>9, <1>10, StepKinds

(* The stream of one broker: the numbers rise, and are those of its requests. *)
Rising(s) == \A i, j \in DOMAIN s : i < j => s[i] < s[j]
Own(b) == {n \in RequestNo : requests[n].broker = b}

LEMMA RisingAppend ==
  ASSUME NEW S, S \subseteq Nat, NEW s \in Seq(S), Rising(s), NEW n \in Nat, \A m \in S : m < n
  PROVE  Rising(Append(s, n))
<1> DEFINE t == Append(s, n)
<1>1. /\ DOMAIN t = 1 .. Len(s) + 1 /\ DOMAIN s = 1 .. Len(s) /\ Len(s) \in Nat
      /\ \A i \in 1 .. Len(s) : t[i] = s[i] /\ s[i] \in S
      /\ t[Len(s) + 1] = n
  OBVIOUS
<1> HIDE DEF t
<1>2. ASSUME NEW i \in DOMAIN t, NEW j \in DOMAIN t, i < j
      PROVE  t[i] < t[j]
  <2>1. i \in 1 .. Len(s) /\ t[i] = s[i] /\ s[i] \in S
    BY <1>1, <1>2
  <2>2. CASE j = Len(s) + 1
    BY <1>1, <2>1, <2>2
  <2>3. CASE j # Len(s) + 1
    <3>1. j \in 1 .. Len(s) /\ t[j] = s[j]
      BY <1>1, <2>3
    <3> QED
      BY <1>1, <1>2, <2>1, <3>1 DEF Rising
  <2> QED
    BY <2>2, <2>3
<1> QED
  BY <1>2 DEF t, Rising

LEMMA OrderStep ==
  ASSUME CallTypes, SendTypes, RequestsInOrder, [Next]_vars
  PROVE  RequestsInOrder'
<1> SUFFICES ASSUME NEW b \in Server
             PROVE  Rising(Stream(b)') /\ ToSet(Stream(b)') = Own(b)'
  BY DEF RequestsInOrder, Rising, Own
<1> DEFINE s == Stream(b)
           n == Len(requests) + 1
<1>1. Rising(s) /\ ToSet(s) = Own(b)
  BY DEF RequestsInOrder, Rising, Own
<1>2. s \in Seq(RequestNo)
  BY StreamTyped
<1>3. RequestNo = 1 .. Len(requests) /\ Len(requests) \in Nat
  BY RequestFacts DEF CallTypes
<1>4. CASE Stream(b)' = s /\ requests' = requests
  <2>1. Own(b)' = Own(b)
    BY <1>4 DEF Own, RequestNo
  <2> QED
    BY <1>1, <1>4, <2>1
<1>5. ASSUME NEW r \in Request, NEW c \in Server, Dispatch(c, r), r.broker = c,
             Stream(b)' = IF c = b THEN Append(s, n) ELSE s
      PROVE  Rising(Stream(b)') /\ ToSet(Stream(b)') = Own(b)'
  <2>1. /\ RequestNo' = RequestNo \cup {n} /\ n \notin RequestNo /\ requests'[n] = r
        /\ \A m \in RequestNo : requests'[m] = requests[m]
    BY <1>5, Dispatched DEF CallTypes, RequestsGrow
  <2>2. Own(b)' = {m \in RequestNo' : requests'[m].broker = b}
    BY DEF Own
  <2>3. Own(b)' = IF c = b THEN Own(b) \cup {n} ELSE Own(b)
    BY <2>1, <2>2, <1>5 DEF Own
  <2>4. CASE c = b
    <3>1. \A m \in RequestNo : m < n
      BY <1>3
    <3>2. Rising(Append(s, n))
      <4> HIDE DEF s
      <4>1. RequestNo \subseteq Nat /\ n \in Nat
        BY <1>3
      <4> QED
        BY <1>1, <1>2, <3>1, <4>1, RisingAppend
    <3>3. ToSet(Append(s, n)) = ToSet(s) \cup {n}
      <4> DEFINE T == RequestNo \cup {n}
      <4>1. s \in Seq(T) /\ n \in T
        BY <1>2, SeqGrows
      <4> HIDE DEF s, T
      <4> QED
        BY <4>1, AppendedSet
    <3> QED
      BY <1>1, <1>5, <2>3, <2>4, <3>2, <3>3
  <2>5. CASE c # b
    BY <1>1, <1>5, <2>3, <2>5
  <2> QED
    BY <2>4, <2>5
<1> QED
  BY <1>4, <1>5, StreamStep

LEMMA OrderInit ==
  ASSUME Init
  PROVE  RequestsInOrder
<1> SUFFICES ASSUME NEW b \in Server PROVE Stream(b) = <<>> /\ RequestNo = {}
  BY DEF RequestsInOrder, ToSet
<1>1. FlattenSeq(<<>>) = <<>>
  BY DEF FlattenSeq
<1>2. received[b] = <<>> /\ outbound[b] = <<>> /\ batch[b] = <<>> /\ dispatch[b] = <<>>
  BY DEF Init
<1>3. (((<<>> \o <<>>) \o <<>>) \o <<>>) = <<>>
  OBVIOUS
<1> QED
  BY <1>1, <1>2, <1>3 DEF Init, Stream, RequestNo

LEMMA OrderAlways == Spec => []RequestsInOrder
<1>1. ClientTypes /\ RequestsInOrder /\ [Next]_vars => RequestsInOrder'
  BY OrderStep DEF ClientTypes
<1> QED
  BY <1>1, OrderInit, ClientTypesAlways, PTL DEF Spec

(* Whatever number of requests goes into a batch, however the timeouts of the
   dispatchers fall and whatever the caller awaits, each broker gets the
   requests made to it in the order they were made, each exactly once. *)
THEOREM RequestsKeepOrder == Spec => []RequestsInOrder
BY OrderAlways

----------------------------------------------------------------------------
(* A request is in one place of its stream. *)

LEMMA RisingConcat ==
  ASSUME NEW S, S \subseteq Nat, NEW u \in Seq(S), NEW v \in Seq(S), Rising(u \o v)
  PROVE  /\ Rising(u) /\ Rising(v)
         /\ \A x \in ToSet(u), y \in ToSet(v) : x < y
<1> DEFINE w == u \o v
<1>1. /\ DOMAIN w = 1 .. Len(u) + Len(v) /\ DOMAIN u = 1 .. Len(u) /\ DOMAIN v = 1 .. Len(v)
      /\ Len(u) \in Nat /\ Len(v) \in Nat
      /\ \A i \in 1 .. Len(u) : w[i] = u[i]
      /\ \A i \in 1 .. Len(v) : w[Len(u) + i] = v[i]
  OBVIOUS
<1>2. Rising(w)
  OBVIOUS
<1> HIDE DEF w
<1>3. ASSUME NEW i \in DOMAIN u, NEW j \in DOMAIN u, i < j PROVE u[i] < u[j]
  <2>1. i \in DOMAIN w /\ j \in DOMAIN w /\ w[i] = u[i] /\ w[j] = u[j]
    BY <1>1
  <2> QED
    BY <1>2, <1>3, <2>1 DEF Rising
<1>4. ASSUME NEW i \in DOMAIN v, NEW j \in DOMAIN v, i < j PROVE v[i] < v[j]
  <2>1. Len(u) + i \in DOMAIN w /\ Len(u) + j \in DOMAIN w /\ Len(u) + i < Len(u) + j
        /\ w[Len(u) + i] = v[i] /\ w[Len(u) + j] = v[j]
    BY <1>1, <1>4
  <2> QED
    BY <1>2, <2>1 DEF Rising
<1>5. ASSUME NEW i \in DOMAIN u, NEW j \in DOMAIN v PROVE u[i] < v[j]
  <2>1. i \in DOMAIN w /\ Len(u) + j \in DOMAIN w /\ i < Len(u) + j
        /\ w[i] = u[i] /\ w[Len(u) + j] = v[j]
    BY <1>1
  <2> QED
    BY <1>2, <2>1 DEF Rising
<1> QED
  BY <1>3, <1>4, <1>5 DEF Rising, ToSet

LEMMA StreamPlaces ==
  ASSUME CallTypes, SendTypes, RequestsInOrder, NEW b \in Server
  PROVE  /\ \A n \in ToSet(dispatch[b]) :
              requests[n].broker = b /\ n \in RequestNo /\ n \notin ToSet(received[b])
         /\ \A n \in ToSet(received[b]) : requests[n].broker = b /\ n \in RequestNo
         /\ dispatch[b] # <<>> => Head(dispatch[b]) \notin ToSet(Tail(dispatch[b]))
         /\ outbound[b] # <<>> => \A n \in ToSet(Head(outbound[b])) :
              requests[n].broker = b /\ n \in RequestNo /\ n \notin ToSet(received[b])
<1> DEFINE d == dispatch[b]
           ba == batch[b]
           o == outbound[b]
           r == received[b]
           f == FlattenSeq(o)
           rf == r \o f
           rfb == rf \o ba
           S == RequestNo
<1>1. d \in Seq(S) /\ ba \in Seq(S) /\ o \in Seq(Seq(S)) /\ r \in Seq(S)
  BY SentTypesOf DEF SentTypes
<1>2. S \subseteq Nat
  BY RequestFacts DEF CallTypes
<1>3. Rising(rfb \o d) /\ ToSet(rfb \o d) = Own(b)
  BY DEF RequestsInOrder, Rising, Own, Stream
<1> HIDE DEF d, ba, o, r, S
<1>4. f \in Seq(S)
  BY <1>1, FlattenTyped
<1>5. o # <<>> => Head(o) \in Seq(S) /\ FlattenSeq(Tail(o)) \in Seq(S)
                  /\ f = Head(o) \o FlattenSeq(Tail(o))
  BY <1>1, BatchesAreSeqs, FlattenTyped, FlattenHead
<1> HIDE DEF f
<1>6. rf \in Seq(S)
  BY <1>1, <1>4
<1>7. ToSet(rf) = ToSet(r) \cup ToSet(f)
  BY <1>1, <1>4, ConcatenatedSet
<1> HIDE DEF rf
<1>8. rfb \in Seq(S)
  BY <1>1, <1>6
<1>9. ToSet(rfb) = ToSet(rf) \cup ToSet(ba)
  BY <1>1, <1>6, ConcatenatedSet
<1> HIDE DEF rfb
<1>10. Own(b) = ToSet(rfb) \cup ToSet(d)
  BY <1>1, <1>3, <1>8, ConcatenatedSet
<1>11. Rising(rfb) /\ Rising(d) /\ \A x \in ToSet(rfb), y \in ToSet(d) : x < y
  BY <1>1, <1>2, <1>3, <1>8, RisingConcat
<1>12. Rising(rf)
  BY <1>1, <1>2, <1>6, <1>11, RisingConcat DEF rfb
<1>13. \A x \in ToSet(r), y \in ToSet(f) : x < y
  BY <1>1, <1>2, <1>4, <1>12, RisingConcat DEF rf
<1>14. \A x \in Own(b) : x \in S /\ x \in Nat /\ requests[x].broker = b /\ ~(x < x)
  BY <1>2 DEF Own, S
<1>15. d # <<>> => Head(d) \notin ToSet(Tail(d))
  <2> SUFFICES ASSUME d # <<>>, Head(d) \in ToSet(Tail(d)) PROVE FALSE
    OBVIOUS
  <2>1. /\ Head(d) = d[1] /\ 1 \in DOMAIN d /\ DOMAIN d \subseteq Nat /\ d[1] \in S
        /\ \A i \in DOMAIN Tail(d) : i + 1 \in DOMAIN d /\ Tail(d)[i] = d[i + 1] /\ i \in Nat \ {0}
    BY <1>1
  <2>2. PICK i \in DOMAIN Tail(d) : Tail(d)[i] = Head(d)
    BY DEF ToSet
  <2>3. i + 1 \in DOMAIN d /\ d[i + 1] = d[1]
    BY <2>1, <2>2
  <2>5. 1 < i + 1 /\ d[1] \in Nat
    <3>1. i \in Nat \ {0}
      BY <2>1, Zenon
    <3>2. d[1] \in Nat
      BY <2>1, <1>2, Zenon
    <3> QED
      BY <3>1, <3>2
  <2>4. d[1] < d[i + 1]
    BY <2>1, <2>3, <2>5, <1>11 DEF Rising
  <2> QED
    BY <2>3, <2>4, <2>5
<1>16. o # <<>> => ToSet(Head(o)) \subseteq ToSet(f)
  <2> SUFFICES ASSUME o # <<>> PROVE ToSet(Head(o)) \subseteq ToSet(f)
    OBVIOUS
  <2> DEFINE h == Head(o)
             t == FlattenSeq(Tail(o))
  <2>1. h \in Seq(S) /\ t \in Seq(S) /\ f = h \o t
    BY <1>5
  <2> HIDE DEF h, t
  <2>2. ToSet(f) = ToSet(h) \cup ToSet(t)
    BY <2>1, ConcatenatedSet
  <2> QED
    BY <2>2 DEF h
<1>17. \A n \in ToSet(d) : n \in Own(b) /\ n \notin ToSet(r)
  BY <1>7, <1>9, <1>10, <1>11, <1>14
<1>18. \A n \in ToSet(f) : n \in Own(b) /\ n \notin ToSet(r)
  BY <1>7, <1>9, <1>10, <1>13, <1>14
<1>19. \A n \in ToSet(r) : n \in Own(b)
  BY <1>7, <1>9, <1>10
<1> QED
  BY <1>14, <1>15, <1>16, <1>17, <1>18, <1>19 DEF d, o, r, S

----------------------------------------------------------------------------
(* The caller waits for one request at a time. *)

LEMMA NoZero ==
  ASSUME CallTypes, MatchTypes
  PROVE  0 \notin RequestNo /\ 0 \notin waiting
<1>1. 0 \notin RequestNo
  BY RequestFacts DEF CallTypes
<1> QED
  BY <1>1 DEF MatchTypes

(* Answers are kept. *)
LEMMA ResultsGrow ==
  ASSUME CallTypes, MatchTypes, [Next]_vars
  PROVE  DOMAIN results \subseteq DOMAIN results' /\ (~TakeResponse => results' = results)
<1>1. CASE TakeResponse
  BY <1>1, NoZero, ResponseTaken
<1>2. CASE ~TakeResponse
  <2>1. results' = results
    BY <1>2, StepKinds DEF Sends, BufferRequest, Flush, ReadBatch, AnswerRequest, NotifyConsumer,
       ReadAnswer, ReadConsumerMessage, TakeRegistration
  <2> QED
    BY <1>2, <2>1
<1> QED
  BY <1>1, <1>2

LEMMA CallerWaitsStep ==
  ASSUME CallTypes, MatchTypes, CallerWaits, [Next]_vars
  PROVE  CallerWaits'
<1>1. DOMAIN results \subseteq DOMAIN results'
  BY ResultsGrow
<1>2. CASE UNCHANGED <<caller, requests>>
  BY <1>1, <1>2 DEF CallerWaits, RequestNo, Expects
<1>3. ASSUME UNCHANGED requests, caller.state = "awaiting" => caller.n \in DOMAIN results
      PROVE  CallerWaits'
  BY <1>1, <1>3 DEF CallerWaits, RequestNo, Expects
<1>4. ASSUME NEW b \in Server, NEW r \in Request, Dispatch(b, r), caller.state # "awaiting",
             r.op # "consumer_assignment" =>
               caller'.state = "awaiting" /\ caller'.n = Len(requests) + 1
      PROVE  CallerWaits'
  <2>0. PICK new : new = Len(requests) + 1
    OBVIOUS
  <2>1. /\ RequestNo' = RequestNo \cup {new}
        /\ requests'[new] = r
        /\ \A n \in RequestNo : requests'[n] = requests[n]
    BY <1>4, <2>0, Dispatched DEF CallTypes, RequestsGrow
  <2>2. \A n \in RequestNo' : Expects(n)' <=> requests'[n].op # "consumer_assignment"
    BY DEF Expects
  <2>3. \A n \in RequestNo : Expects(n) => n \in DOMAIN results'
    BY <1>1, <1>4 DEF CallerWaits
  <2>4. \A n \in RequestNo : Expects(n)' => n \in DOMAIN results'
    BY <2>1, <2>2, <2>3 DEF Expects
  <2>5. Expects(new)' <=> r.op # "consumer_assignment"
    BY <2>1, <2>2
  <2> QED
    BY <1>4, <2>0, <2>1, <2>4, <2>5 DEF CallerWaits
<1>5. CASE Call
  <2>1. ASSUME NEW t \in Topic, InsertTopic(t) \/ SendToNowhere(t) PROVE CallerWaits'
    BY <2>1, <1>3 DEF InsertTopic, SendToNowhere, Idle
  <2>2. ASSUME NEW t \in Topic, NEW b \in Server, SendTopicData(t, b) PROVE CallerWaits'
    <3> DEFINE r == [op |-> "topic_data_insert", broker |-> b]
    <3>1. r \in Request /\ Dispatch(b, r) /\ caller.state # "awaiting"
      BY <2>2 DEF SendTopicData, Idle, Request
    <3>2. caller'.state = "awaiting" /\ caller'.n = Len(requests) + 1
      BY <2>2 DEF SendTopicData
    <3> QED
      BY <3>1, <3>2, <1>4
  <2>3. ASSUME NEW k \in Consumer, NEW arrangement \in Arrangements, Subscribe(k, arrangement)
        PROVE  CallerWaits'
    BY <2>3, <1>3 DEF Subscribe, Idle
  <2> QED
    BY <1>5, <2>1, <2>2, <2>3 DEF Call
<1>6. CASE MethodStep
  <2>1. ASSUME NEW b \in Server, AskLeader(b) PROVE CallerWaits'
    <3> DEFINE r == [op |-> "who_leader", broker |-> b]
    <3>1. r \in Request /\ Dispatch(b, r) /\ caller.state # "awaiting"
      BY <2>1 DEF AskLeader, Request
    <3>2. caller'.state = "awaiting" /\ caller'.n = Len(requests) + 1
      BY <2>1 DEF AskLeader
    <3> QED
      BY <3>1, <3>2, <1>4
  <2>2. ASSUME NEW mapping \in Mappings, CreateTopic(mapping) PROVE CallerWaits'
    BY <2>2, <1>3 DEF CreateTopic
  <2>3. CASE Return
    BY <2>3, <1>3 DEF Return
  <2>4. CASE SendAssignment
    <3> DEFINE a == Head(caller.left)
    <3>1. a.broker \in Server /\ AssignmentRequest(a) \in Request
          /\ Dispatch(a.broker, AssignmentRequest(a))
          /\ AssignmentRequest(a).op = "consumer_assignment"
      BY <2>4, AssignmentSent DEF Assignment, AssignmentRequest
    <3>2. caller.state # "awaiting"
      BY <2>4 DEF SendAssignment
    <3> QED
      BY <3>1, <3>2, <1>4
  <2>5. CASE EndSubscribe
    BY <2>5, <1>3 DEF EndSubscribe
  <2> QED
    BY <1>6, <2>1, <2>2, <2>3, <2>4, <2>5 DEF MethodStep
<1>7. CASE ~Call /\ ~MethodStep
  BY <1>7, <1>2, CallFrame
<1> QED
  BY <1>5, <1>6, <1>7

----------------------------------------------------------------------------
(* A caller is in one place. *)

LEMMA DistinctAppend ==
  ASSUME NEW S, NEW s \in Seq(S), NEW e \in S, Distinct(s), e \notin ToSet(s)
  PROVE  Distinct(Append(s, e))
<1> DEFINE t == Append(s, e)
<1>1. DOMAIN t = DOMAIN s \cup {Len(s) + 1} /\ (\A i \in DOMAIN s : t[i] = s[i])
      /\ t[Len(s) + 1] = e
  BY AppendedSeq
<1> HIDE DEF t
<1>2. Distinct(t)
  BY <1>1 DEF Distinct, ToSet
<1> QED
  BY <1>2 DEF t

LEMMA DistinctTail ==
  ASSUME NEW S, NEW s \in Seq(S), s # <<>>, Distinct(s)
  PROVE  Distinct(Tail(s)) /\ ToSet(Tail(s)) = ToSet(s) \ {Head(s)}
<1> DEFINE t == Tail(s)
           h == Head(s)
<1>1. /\ h = s[1] /\ 1 \in DOMAIN s /\ ToSet(s) = {h} \cup ToSet(t)
      /\ \A i \in DOMAIN t : i + 1 \in DOMAIN s /\ t[i] = s[i + 1]
  BY HeadAndTail
<1>2. \A i \in DOMAIN t : i \in Nat \ {0}
  OBVIOUS
<1> HIDE DEF t, h
<1>3. ASSUME NEW i \in DOMAIN t, NEW j \in DOMAIN t, t[i] = t[j] PROVE i = j
  <2>1. i + 1 = j + 1
    BY <1>1, <1>3 DEF Distinct
  <2>2. i \in Nat /\ j \in Nat
    BY <1>2
  <2> QED
    BY <2>1, <2>2
<1>4. ASSUME NEW i \in DOMAIN t PROVE t[i] # h
  <2>1. i + 1 # 1
    BY <1>2
  <2> QED
    BY <1>1, <2>1 DEF Distinct
<1>5. h \notin ToSet(t)
  BY <1>4 DEF ToSet
<1>6. Distinct(t) /\ ToSet(t) = ToSet(s) \ {h}
  BY <1>1, <1>3, <1>5 DEF Distinct
<1> QED
  BY <1>6 DEF t, h

LEMMA PlacedFrame ==
  ASSUME Placed, UNCHANGED <<requests, dispatch, registrations, waiting, results>>
  PROVE  Placed'
BY DEF Placed, PlaceOf, RequestNo, Registering, Answered, Buffered, Expects, Distinct

(* A step that gives the places of every request as they are afterwards. *)
LEMMA PlacedSends ==
  ASSUME CallTypes, SendTypes, MatchTypes, Placed, NEW c \in Server, NEW r \in Request, Sends(c, r)
  PROVE  Placed'
<1>1. PICK new : new = Len(requests) + 1
  OBVIOUS
<1>2. /\ RequestNo' = RequestNo \cup {new} /\ new \notin RequestNo
      /\ \A n \in RequestNo : requests'[n] = requests[n]
  BY <1>1, Dispatched DEF Sends, CallTypes, RequestsGrow
<1>3. UNCHANGED <<registrations, waiting, results>>
  BY DEF Sends
<1>4. dispatch' = [dispatch EXCEPT ![c] = Append(@, new)] /\ dispatch \in [Server -> Seq(RequestNo)]
  BY <1>1 DEF Sends, Dispatch, SendTypes
<1>5. ToSet(Append(dispatch[c], new)) = ToSet(dispatch[c]) \cup {new}
  <2> DEFINE T == RequestNo \cup {new}
  <2>1. dispatch[c] \in Seq(T) /\ new \in T
    BY <1>4, SeqGrows
  <2> HIDE DEF T
  <2> QED
    BY <2>1, AppendedSet
<1>6. ASSUME NEW n PROVE Buffered(n)' <=> Buffered(n) \/ n = new
  <2>1. Buffered(n)' <=> \E b \in Server : n \in ToSet(dispatch'[b])
    BY DEF Buffered
  <2>2. \A b \in Server : dispatch'[b] = IF b = c THEN Append(dispatch[c], new) ELSE dispatch[b]
    BY <1>4
  <2> QED
    BY <1>5, <2>1, <2>2 DEF Buffered
<1>7. ~Registering(new)' /\ new \notin waiting' /\ ~Answered(new)'
  <2>1. ToSet(registrations) \subseteq RequestNo
    BY SeqSet DEF MatchTypes
  <2> QED
    BY <1>2, <1>3, <2>1 DEF MatchTypes, Registering, Answered
<1>8. ASSUME NEW n \in RequestNo'
      PROVE  PlaceOf(n)'
  <2>1. CASE n = new
    BY <1>6, <1>7, <2>1 DEF PlaceOf
  <2>2. CASE n # new
    <3>1. n \in RequestNo /\ (Buffered(n)' <=> Buffered(n)) /\ (Expects(n)' <=> Expects(n))
      BY <1>2, <1>6, <2>2 DEF Expects
    <3>2. PlaceOf(n)
      BY <3>1 DEF Placed
    <3> QED
      BY <1>3, <3>1, <3>2 DEF PlaceOf, Registering, Answered
  <2> QED
    BY <2>1, <2>2
<1>9. Distinct(registrations)'
  BY <1>3 DEF Placed, Distinct
<1> QED
  BY <1>8, <1>9 DEF Placed

LEMMA PlacedBuffer ==
  ASSUME CallTypes, SendTypes, MatchTypes, RequestsInOrder, Placed,
         NEW c \in Server, BufferRequest(c)
  PROVE  Placed'
<1>1. PICK h : h = Head(dispatch[c])
  OBVIOUS
<1>2. /\ dispatch[c] # <<>> /\ dispatch' = [dispatch EXCEPT ![c] = Tail(@)]
      /\ registrations' = IF Expects(h) THEN Append(registrations, h) ELSE registrations
      /\ UNCHANGED <<requests, waiting, results>>
  BY <1>1 DEF BufferRequest
<1>3. /\ dispatch \in [Server -> Seq(RequestNo)] /\ dispatch[c] \in Seq(RequestNo)
      /\ registrations \in Seq(RequestNo)
  BY DEF SendTypes, MatchTypes
<1>4. h \in RequestNo /\ ToSet(dispatch[c]) = {h} \cup ToSet(Tail(dispatch[c]))
  BY <1>1, <1>2, <1>3, HeadAndTail
<1>5. requests[h].broker = c /\ h \notin ToSet(Tail(dispatch[c]))
  BY <1>1, <1>2, <1>4, StreamPlaces
<1>6. \A b \in Server : dispatch'[b] = IF b = c THEN Tail(dispatch[c]) ELSE dispatch[b]
  BY <1>2, <1>3
<1>7. \A b \in Server : b # c => h \notin ToSet(dispatch[b])
  BY <1>5, StreamPlaces
<1>8. ASSUME NEW n PROVE Buffered(n)' <=> Buffered(n) /\ n # h
  <2>1. Buffered(n)' <=> \E b \in Server : n \in ToSet(dispatch'[b])
    BY DEF Buffered
  <2> QED
    BY <2>1, <1>4, <1>5, <1>6, <1>7 DEF Buffered
<1>9. Buffered(h)
  BY <1>4 DEF Buffered
<1>10. Expects(h) => ~Registering(h) /\ h \notin waiting /\ ~Answered(h)
  BY <1>4, <1>9 DEF Placed, PlaceOf
<1>11. ASSUME NEW n PROVE Registering(n)' <=> Registering(n) \/ (n = h /\ Expects(h))
  <2>1. ToSet(Append(registrations, h)) = ToSet(registrations) \cup {h}
    BY <1>3, <1>4, AppendedSet
  <2>2. Registering(n)' <=> n \in ToSet(registrations')
    BY DEF Registering
  <2> QED
    BY <1>2, <2>1, <2>2 DEF Registering
<1>12. Distinct(registrations')
  <2>1. CASE Expects(h)
    BY <1>2, <1>3, <1>4, <1>10, <2>1, DistinctAppend DEF Placed, Registering
  <2>2. CASE ~Expects(h)
    BY <1>2, <2>2 DEF Placed
  <2> QED
    BY <2>1, <2>2
<1>13. ASSUME NEW n \in RequestNo PROVE PlaceOf(n)'
  <2>1. PlaceOf(n)
    BY DEF Placed
  <2>2. (Expects(n)' <=> Expects(n)) /\ (Answered(n)' <=> Answered(n)) /\ waiting' = waiting
    BY <1>2 DEF Expects, Answered
  <2>3. CASE n = h
    BY <1>8, <1>10, <1>11, <2>1, <2>2, <2>3 DEF PlaceOf
  <2>4. CASE n # h
    BY <1>8, <1>11, <2>1, <2>2, <2>4 DEF PlaceOf
  <2> QED
    BY <2>3, <2>4
<1>14. RequestNo' = RequestNo
  BY <1>2 DEF RequestNo
<1> QED
  BY <1>12, <1>13, <1>14 DEF Placed, Distinct

LEMMA PlacedRegister ==
  ASSUME MatchTypes, Placed, TakeRegistration
  PROVE  Placed'
<1>1. PICK h : h = Head(registrations)
  OBVIOUS
<1>2. /\ registrations # <<>> /\ waiting' = waiting \cup {h} /\ registrations' = Tail(registrations)
      /\ UNCHANGED <<requests, dispatch, results>>
  BY <1>1 DEF TakeRegistration
<1>3. registrations \in Seq(RequestNo) /\ Distinct(registrations)
  BY DEF MatchTypes, Placed
<1>4. Distinct(registrations') /\ ToSet(registrations') = ToSet(registrations) \ {h}
  BY <1>1, <1>2, <1>3, DistinctTail
<1>5. h \in RequestNo /\ h \in ToSet(registrations)
  BY <1>1, <1>2, <1>3, HeadAndTail
<1>6. ASSUME NEW n \in RequestNo PROVE PlaceOf(n)'
  <2>1. PlaceOf(n)
    BY DEF Placed
  <2>2. /\ (Expects(n)' <=> Expects(n)) /\ (Answered(n)' <=> Answered(n))
        /\ (Buffered(n)' <=> Buffered(n))
        /\ (Registering(n)' <=> n \in ToSet(registrations'))
    BY <1>2 DEF Expects, Answered, Buffered, Registering
  <2> QED
    BY <1>2, <1>4, <1>5, <2>1, <2>2 DEF PlaceOf, Registering
<1>7. RequestNo' = RequestNo
  BY <1>2 DEF RequestNo
<1> QED
  BY <1>4, <1>6, <1>7 DEF Placed, Distinct

LEMMA PlacedTaken ==
  ASSUME CallTypes, MatchTypes, Placed, TakeResponse
  PROVE  Placed'
<1>1. PICK h : h = Head(responses)
  OBVIOUS
<1>2. UNCHANGED <<requests, dispatch, registrations>>
  BY NoZero, ResponseTaken
<1>3. CASE UNCHANGED <<waiting, results>>
  BY <1>2, <1>3, PlacedFrame
<1>4. CASE h \in waiting /\ waiting' = waiting \ {h} /\ DOMAIN results' = DOMAIN results \cup {h}
  <2>1. ASSUME NEW n \in RequestNo PROVE PlaceOf(n)'
    <3>1. PlaceOf(n)
      BY DEF Placed
    <3>2. /\ (Expects(n)' <=> Expects(n)) /\ (Answered(n)' <=> n \in DOMAIN results')
          /\ (Buffered(n)' <=> Buffered(n)) /\ (Registering(n)' <=> Registering(n))
      BY <1>2 DEF Expects, Answered, Buffered, Registering
    <3> QED
      BY <1>4, <3>1, <3>2 DEF PlaceOf, Answered
  <2>2. RequestNo' = RequestNo
    BY <1>2 DEF RequestNo
  <2> QED
    BY <1>2, <2>1, <2>2 DEF Placed, Distinct
<1> QED
  BY <1>1, <1>3, <1>4, NoZero, ResponseTaken

LEMMA PlacedStep ==
  ASSUME CallTypes, SendTypes, MatchTypes, RequestsInOrder, Placed, [Next]_vars
  PROVE  Placed'
<1> DEFINE Still == UNCHANGED <<requests, dispatch, registrations, waiting, results>>
<1>1. ASSUME NEW b \in Server, Flush(b) \/ ReadBatch(b) \/ ReadAnswer(b) \/ ReadConsumerMessage(b)
      PROVE  Still
  BY <1>1 DEF Flush, ReadBatch, ReadAnswer, ReadConsumerMessage
<1>2. ASSUME NEW b \in Server, NEW n \in RequestNo, AnswerRequest(b, n) PROVE Still
  BY <1>2 DEF AnswerRequest
<1>3. ASSUME NEW b \in Server, NEW k \in Consumer, NotifyConsumer(b, k) PROVE Still
  BY <1>3 DEF NotifyConsumer
<1>4. CASE UNCHANGED <<sendVars, brokerVars, readVars, matchVars>>
  BY <1>4, PlacedFrame
<1> HIDE DEF Still
<1>5. Still => Placed'
  BY PlacedFrame DEF Still
<1> QED
  BY <1>1, <1>2, <1>3, <1>4, <1>5, StepKinds, PlacedSends, PlacedBuffer, PlacedRegister, PlacedTaken

----------------------------------------------------------------------------
(* An answer is in one place. *)

LEMMA ResponsesAreRequests ==
  ASSUME MatchTypes
  PROVE  ToSet(responses) \subseteq RequestNo /\ DOMAIN results \subseteq RequestNo
BY SeqSet DEF MatchTypes

LEMMA ReceivedAreRequests ==
  ASSUME SendTypes, NEW b \in Server
  PROVE  ToSet(received[b]) \subseteq RequestNo
BY SentTypesOf, SeqSet DEF SentTypes

LEMMA AnswersOnceAppend ==
  ASSUME NEW S, NEW s \in Seq(S), NEW e \in S, AnswersOnce(s),
         e.kind = "answer" => e \notin ToSet(s)
  PROVE  AnswersOnce(Append(s, e))
<1> DEFINE t == Append(s, e)
<1>1. DOMAIN t = DOMAIN s \cup {Len(s) + 1} /\ (\A i \in DOMAIN s : t[i] = s[i])
      /\ t[Len(s) + 1] = e
  BY AppendedSeq
<1> HIDE DEF t
<1>2. AnswersOnce(t)
  BY <1>1 DEF AnswersOnce, ToSet
<1> QED
  BY <1>2 DEF t

LEMMA AnswersOnceTail ==
  ASSUME NEW S, NEW s \in Seq(S), s # <<>>, AnswersOnce(s)
  PROVE  /\ AnswersOnce(Tail(s)) /\ ToSet(Tail(s)) \subseteq ToSet(s)
         /\ Head(s) \in ToSet(s)
         /\ Head(s).kind = "answer" => Head(s) \notin ToSet(Tail(s))
<1> DEFINE t == Tail(s)
           h == Head(s)
<1>1. /\ h = s[1] /\ 1 \in DOMAIN s /\ ToSet(s) = {h} \cup ToSet(t)
      /\ \A i \in DOMAIN t : i + 1 \in DOMAIN s /\ t[i] = s[i + 1]
  BY HeadAndTail
<1>2. \A i \in DOMAIN t : i \in Nat \ {0}
  OBVIOUS
<1> HIDE DEF t, h
<1>3. ASSUME NEW i \in DOMAIN t, NEW j \in DOMAIN t, t[i] = t[j], t[i].kind = "answer"
      PROVE  i = j
  <2>1. i + 1 = j + 1
    BY <1>1, <1>3 DEF AnswersOnce
  <2>2. i \in Nat /\ j \in Nat
    BY <1>2
  <2> QED
    BY <2>1, <2>2
<1>4. ASSUME NEW i \in DOMAIN t, h.kind = "answer" PROVE t[i] # h
  <2>1. i + 1 # 1
    BY <1>2
  <2> QED
    BY <1>1, <1>4, <2>1 DEF AnswersOnce
<1>5. h.kind = "answer" => h \notin ToSet(t)
  BY <1>4 DEF ToSet
<1>6. AnswersOnce(t)
  BY <1>3 DEF AnswersOnce
<1> QED
  BY <1>1, <1>5, <1>6 DEF t, h

LEMMA AnswerFlowFrame ==
  ASSUME AnswerFlow, UNCHANGED <<requests, inbound, responses, results, received, unanswered>>
  PROVE  AnswerFlow'
BY DEF AnswerFlow, ArrivesFrom, ReadAt, RequestNo, Answered, Distinct, AnswersOnce

(* What is read and answered stays so. *)
LEMMA AnswerFlowKept ==
  ASSUME MatchTypes, SendTypes, AnswerFlow, RequestsGrow, UNCHANGED <<inbound, responses, results>>,
         \A b \in Server, n \in RequestNo : ReadAt(b, n) => ReadAt(b, n)',
         \A n \in RequestNo : requests[n].broker \in Server,
         \A b \in Server : \A n : ArrivesFrom(b, n) => n \in RequestNo
  PROVE  AnswerFlow'
<1>1. ASSUME NEW b \in Server, NEW n \in RequestNo', ArrivesFrom(b, n)'
      PROVE  ReadAt(b, n)' /\ n \notin ToSet(responses') /\ ~Answered(n)'
  <2>1. ArrivesFrom(b, n)
    BY <1>1 DEF ArrivesFrom
  <2>2. n \in RequestNo
    BY <2>1
  <2> QED
    BY <2>1, <2>2 DEF AnswerFlow, Answered
<1>2. \A b \in Server : AnswersOnce(inbound'[b])
  BY DEF AnswerFlow
<1>3. ASSUME NEW n \in ToSet(responses')
      PROVE  ReadAt(requests[n].broker, n)' /\ ~Answered(n)' /\ n \in RequestNo
  <2>1. n \in ToSet(responses) /\ n \in RequestNo
    BY <1>3, ResponsesAreRequests
  <2>2. ReadAt(requests[n].broker, n) /\ ~Answered(n)
    BY <2>1 DEF AnswerFlow
  <2>3. PICK b \in Server : b = requests[n].broker
    BY <2>1
  <2>4. ReadAt(b, n)' /\ requests'[n].broker = b
    BY <2>1, <2>2, <2>3 DEF RequestsGrow
  <2> QED
    BY <2>1, <2>2, <2>4 DEF Answered, ReadAt
<1>4. ASSUME NEW n \in DOMAIN results'
      PROVE  ReadAt(requests[n].broker, n)'
  <2>1. n \in DOMAIN results /\ n \in RequestNo
    BY <1>4, ResponsesAreRequests
  <2>2. ReadAt(requests[n].broker, n)
    BY <2>1 DEF AnswerFlow
  <2>3. PICK b \in Server : b = requests[n].broker
    BY <2>1
  <2>4. ReadAt(b, n)' /\ requests'[n].broker = b
    BY <2>1, <2>2, <2>3 DEF RequestsGrow
  <2> QED
    BY <2>4 DEF ReadAt
<1>5. Distinct(responses')
  BY DEF AnswerFlow
<1> QED
  BY <1>1, <1>2, <1>3, <1>4, <1>5 DEF AnswerFlow

(* Messages carry numbers of requests. *)
LEMMA ArrivalsAreRequests ==
  ASSUME MatchTypes, NEW b \in Server, NEW n, ArrivesFrom(b, n)
  PROVE  n \in RequestNo
<1>1. inbound[b] \in Seq(Message)
  BY DEF MatchTypes
<1>2. ToSet(inbound[b]) \subseteq Message
  <2> HIDE DEF Message
  <2> QED
    BY <1>1, SeqSet
<1>3. AnswerMessage(n) \in Message
  BY <1>2 DEF ArrivesFrom
<1>4. AnswerMessage(n).kind = "answer" /\ AnswerMessage(n).id = n
  BY DEF AnswerMessage
<1> QED
  BY <1>3, <1>4, MessageSent

LEMMA AnswerFlowSends ==
  ASSUME CallTypes, SendTypes, MatchTypes, AnswerFlow, NEW c \in Server, NEW r \in Request, Sends(c, r)
  PROVE  AnswerFlow'
<1>1. RequestsGrow
  BY Dispatched DEF Sends, CallTypes
<1>2. UNCHANGED <<inbound, responses, results, received, unanswered>>
  BY DEF Sends
<1>3. ASSUME NEW b \in Server, NEW n \in RequestNo, ReadAt(b, n) PROVE ReadAt(b, n)'
  BY <1>1, <1>2, <1>3 DEF ReadAt, RequestsGrow
<1>4. \A n \in RequestNo : requests[n].broker \in Server
  BY RequestFacts DEF CallTypes
<1> QED
  BY <1>1, <1>2, <1>3, <1>4, ArrivalsAreRequests, AnswerFlowKept

LEMMA AnswerFlowReadBatch ==
  ASSUME CallTypes, SendTypes, MatchTypes, RequestsInOrder, AnswerFlow, NEW c \in Server, ReadBatch(c)
  PROVE  AnswerFlow'
<1>1. PICK x : x = Head(outbound[c])
  OBVIOUS
<1>2. /\ outbound[c] # <<>> /\ received' = [received EXCEPT ![c] = @ \o x]
      /\ unanswered' = [unanswered EXCEPT ![c] = @ \cup ToSet(x)]
      /\ UNCHANGED <<requests, inbound, responses, results>>
  BY <1>1 DEF ReadBatch
<1>3. received[c] \in Seq(RequestNo) /\ x \in Seq(RequestNo)
  BY <1>1, <1>2, SentTypesOf, BatchesAreSeqs DEF SentTypes
<1>4. ToSet(received[c] \o x) = ToSet(received[c]) \cup ToSet(x)
  BY <1>3, ConcatenatedSet
<1>5. \A n \in ToSet(x) : n \notin ToSet(received[c])
  BY <1>1, <1>2, StreamPlaces
<1>6. RequestsGrow
  BY <1>2 DEF RequestsGrow, RequestNo
<1>7. ASSUME NEW b \in Server, NEW n \in RequestNo, ReadAt(b, n) PROVE ReadAt(b, n)'
  <2>1. CASE b = c
    <3>1. received'[b] = received[c] \o x /\ unanswered'[b] = unanswered[c] \cup ToSet(x)
      BY <1>2, <2>1 DEF SendTypes
    <3>2. n \in ToSet(received'[b])
      BY <1>4, <1>7, <2>1, <3>1 DEF ReadAt
    <3>3. n \notin unanswered'[b]
      BY <1>5, <1>7, <2>1, <3>1 DEF ReadAt
    <3> QED
      BY <1>2, <1>7, <3>2, <3>3 DEF ReadAt
  <2>2. CASE b # c
    <3>1. received'[b] = received[b] /\ unanswered'[b] = unanswered[b]
      BY <1>2, <2>2 DEF SendTypes
    <3> QED
      BY <1>2, <1>7, <3>1 DEF ReadAt
  <2> QED
    BY <2>1, <2>2
<1>8. \A n \in RequestNo : requests[n].broker \in Server
  BY RequestFacts DEF CallTypes
<1> QED
  BY <1>2, <1>6, <1>7, <1>8, ArrivalsAreRequests, AnswerFlowKept

(* A message more from a broker. *)
LEMMA InboundAppended ==
  ASSUME MatchTypes, NEW c \in Server, NEW m \in Message,
         inbound' = [inbound EXCEPT ![c] = Append(@, m)]
  PROVE  /\ inbound[c] \in Seq(Message) /\ inbound'[c] = Append(inbound[c], m)
         /\ ToSet(inbound'[c]) = ToSet(inbound[c]) \cup {m}
         /\ \A b \in Server : b # c => inbound'[b] = inbound[b]
<1>1. inbound \in [Server -> Seq(Message)]
  BY DEF MatchTypes
<1> HIDE DEF Message
<1>2. inbound[c] \in Seq(Message) /\ inbound'[c] = Append(inbound[c], m)
      /\ \A b \in Server : b # c => inbound'[b] = inbound[b]
  BY <1>1
<1>3. ToSet(Append(inbound[c], m)) = ToSet(inbound[c]) \cup {m}
  BY <1>2, AppendedSet
<1> QED
  BY <1>2, <1>3

LEMMA AnswerFlowAnswer ==
  ASSUME CallTypes, SendTypes, MatchTypes, RequestsInOrder, AnswerFlow,
         NEW c \in Server, NEW a \in RequestNo, AnswerRequest(c, a)
  PROVE  AnswerFlow'
<1>1. /\ a \in unanswered[c] /\ unanswered' = [unanswered EXCEPT ![c] = @ \ {a}]
      /\ inbound' = [inbound EXCEPT ![c] = Append(@, AnswerMessage(a))]
      /\ UNCHANGED <<requests, received, responses, results>>
  BY DEF AnswerRequest
<1>2. AnswerMessage(a) \in Message
  BY MessageSent
<1>3. /\ inbound[c] \in Seq(Message) /\ inbound'[c] = Append(inbound[c], AnswerMessage(a))
      /\ ToSet(inbound'[c]) = ToSet(inbound[c]) \cup {AnswerMessage(a)}
      /\ \A b \in Server : b # c => inbound'[b] = inbound[b]
  BY <1>1, <1>2, InboundAppended
<1>4. a \in ToSet(received[c]) /\ requests[a].broker = c
  BY <1>1, StreamPlaces DEF SendTypes
<1>5. ~ReadAt(c, a)
  BY <1>1 DEF ReadAt
<1>6. ~ArrivesFrom(c, a) /\ a \notin ToSet(responses) /\ ~Answered(a)
  BY <1>4, <1>5 DEF AnswerFlow, Answered
<1>7. unanswered'[c] = unanswered[c] \ {a} /\ \A b \in Server : unanswered'[b] \subseteq unanswered[b]
  BY <1>1 DEF SendTypes
<1>8. ASSUME NEW b \in Server, NEW n \in RequestNo, ReadAt(b, n) PROVE ReadAt(b, n)'
  BY <1>1, <1>7, <1>8 DEF ReadAt
<1>9. ReadAt(c, a)'
  BY <1>1, <1>4, <1>7 DEF ReadAt
<1>10. ASSUME NEW b \in Server, NEW n PROVE ArrivesFrom(b, n)' <=> ArrivesFrom(b, n) \/ (b = c /\ n = a)
  <2>1. ArrivesFrom(b, n)' <=> AnswerMessage(n) \in ToSet(inbound'[b])
    BY DEF ArrivesFrom
  <2>2. AnswerMessage(n) = AnswerMessage(a) <=> n = a
    <3>1. AnswerMessage(n).id = n /\ AnswerMessage(a).id = a
      BY DEF AnswerMessage
    <3> QED
      BY <3>1
  <2> QED
    BY <1>3, <2>1, <2>2 DEF ArrivesFrom
<1>11. ASSUME NEW b \in Server, NEW n \in RequestNo', ArrivesFrom(b, n)'
       PROVE  ReadAt(b, n)' /\ n \notin ToSet(responses') /\ ~Answered(n)'
  <2>1. RequestNo' = RequestNo /\ (Answered(n)' <=> Answered(n))
    BY <1>1 DEF RequestNo, Answered
  <2> QED
    BY <1>1, <1>6, <1>8, <1>9, <1>10, <1>11, <2>1 DEF AnswerFlow
<1>12. ASSUME NEW b \in Server PROVE AnswersOnce(inbound'[b])
  <2>1. CASE b = c
    <3>1. AnswersOnce(Append(inbound[c], AnswerMessage(a)))
      BY <1>2, <1>3, <1>6, AnswersOnceAppend DEF AnswerFlow, ArrivesFrom
    <3> QED
      BY <1>3, <2>1, <3>1
  <2>2. CASE b # c
    BY <1>3, <2>2 DEF AnswerFlow
  <2> QED
    BY <2>1, <2>2
<1>13. \A n \in RequestNo : requests[n].broker \in Server
  BY RequestFacts DEF CallTypes
<1>14. ASSUME NEW n \in ToSet(responses')
       PROVE  ReadAt(requests[n].broker, n)' /\ ~Answered(n)'
  <2>1. n \in ToSet(responses) /\ n \in RequestNo
    BY <1>1, <1>14, ResponsesAreRequests
  <2>2. PICK b \in Server : b = requests[n].broker
    BY <1>13, <2>1
  <2>3. ReadAt(b, n)' /\ ~Answered(n)
    BY <1>8, <2>1, <2>2 DEF AnswerFlow
  <2> QED
    BY <1>1, <2>2, <2>3 DEF Answered, ReadAt
<1>15. ASSUME NEW n \in DOMAIN results' PROVE ReadAt(requests[n].broker, n)'
  <2>1. n \in DOMAIN results /\ n \in RequestNo
    BY <1>1, <1>15, ResponsesAreRequests
  <2>2. PICK b \in Server : b = requests[n].broker
    BY <1>13, <2>1
  <2>3. ReadAt(b, n)'
    BY <1>8, <2>1, <2>2 DEF AnswerFlow
  <2> QED
    BY <1>1, <2>2, <2>3 DEF ReadAt
<1>16. Distinct(responses')
  BY <1>1 DEF AnswerFlow
<1> QED
  BY <1>11, <1>12, <1>14, <1>15, <1>16 DEF AnswerFlow

(* What follows when nothing but the messages and answers change hands. *)
LEMMA AnswerFlowMoves ==
  ASSUME MatchTypes, UNCHANGED <<requests, received, unanswered, results>>,
         \A b \in Server, n \in RequestNo : ArrivesFrom(b, n)' =>
           ReadAt(b, n) /\ n \notin ToSet(responses') /\ ~Answered(n),
         \A b \in Server : AnswersOnce(inbound'[b]),
         \A n \in ToSet(responses') : ReadAt(requests[n].broker, n) /\ ~Answered(n),
         Distinct(responses'), AnswerFlow
  PROVE  AnswerFlow'
<1>1. RequestNo' = RequestNo /\ (\A n : Answered(n)' <=> Answered(n))
  BY DEF RequestNo, Answered
<1>2. \A b, n : ReadAt(b, n)' <=> ReadAt(b, n)
  BY DEF ReadAt
<1>3. \A b \in Server, n \in RequestNo' : ArrivesFrom(b, n)' =>
        ReadAt(b, n)' /\ n \notin ToSet(responses') /\ ~Answered(n)'
  BY <1>1, <1>2
<1>4. ASSUME NEW n PROVE ReadAt(requests[n].broker, n)' <=> ReadAt(requests[n].broker, n)
  BY DEF ReadAt
<1>5. \A n \in ToSet(responses') : ReadAt(requests[n].broker, n)' /\ ~Answered(n)'
  BY <1>1, <1>4
<1>6. \A n \in DOMAIN results' : ReadAt(requests[n].broker, n)'
  BY <1>4 DEF AnswerFlow
<1> QED
  BY <1>3, <1>5, <1>6 DEF AnswerFlow

(* The first message of a broker is taken. *)
LEMMA InboundTaken ==
  ASSUME MatchTypes, AnswerFlow, NEW c \in Server, inbound[c] # <<>>,
         inbound' = [inbound EXCEPT ![c] = Tail(@)]
  PROVE  /\ \A b \in Server : AnswersOnce(inbound'[b])
         /\ \A b \in Server : \A n : ArrivesFrom(b, n)' => ArrivesFrom(b, n)
         /\ NextMessage(c) \in ToSet(inbound[c])
         /\ NextMessage(c).kind = "answer" => NextMessage(c) \notin ToSet(inbound'[c])
<1>1. inbound \in [Server -> Seq(Message)]
  BY DEF MatchTypes
<1> HIDE DEF Message
<1>2. inbound[c] \in Seq(Message) /\ inbound'[c] = Tail(inbound[c])
      /\ \A b \in Server : b # c => inbound'[b] = inbound[b]
  BY <1>1
<1>3. /\ AnswersOnce(Tail(inbound[c])) /\ ToSet(Tail(inbound[c])) \subseteq ToSet(inbound[c])
      /\ Head(inbound[c]) \in ToSet(inbound[c])
      /\ Head(inbound[c]).kind = "answer" => Head(inbound[c]) \notin ToSet(Tail(inbound[c]))
  BY <1>2, AnswersOnceTail DEF AnswerFlow
<1>4. ASSUME NEW b \in Server PROVE AnswersOnce(inbound'[b])
  <2>1. CASE b = c
    BY <1>2, <1>3, <2>1
  <2>2. CASE b # c
    BY <1>2, <2>2 DEF AnswerFlow
  <2> QED
    BY <2>1, <2>2
<1>5. ASSUME NEW b \in Server, NEW n, ArrivesFrom(b, n)' PROVE ArrivesFrom(b, n)
  <2>1. AnswerMessage(n) \in ToSet(inbound'[b])
    BY <1>5 DEF ArrivesFrom
  <2>2. CASE b = c
    BY <1>2, <1>3, <2>1, <2>2 DEF ArrivesFrom
  <2>3. CASE b # c
    BY <1>2, <2>1, <2>3 DEF ArrivesFrom
  <2> QED
    BY <2>2, <2>3
<1> QED
  BY <1>2, <1>3, <1>4, <1>5 DEF NextMessage

LEMMA AnswerFlowReadAnswer ==
  ASSUME CallTypes, MatchTypes, AnswerFlow, NEW c \in Server, ReadAnswer(c)
  PROVE  AnswerFlow'
<1>1. PICK a : a = NextMessage(c).id
  OBVIOUS
<1>2. /\ inbound[c] # <<>> /\ NextMessage(c).kind = "answer"
      /\ responses' = Append(responses, a) /\ inbound' = [inbound EXCEPT ![c] = Tail(@)]
      /\ UNCHANGED <<requests, received, unanswered, results>>
  BY <1>1 DEF ReadAnswer
<1>3. NextMessage(c) \in Message /\ a \in RequestNo
  BY <1>1, <1>2, FirstMessage
<1>4. NextMessage(c) = AnswerMessage(a)
  BY <1>1, <1>2, <1>3, MessageSent
<1>5. /\ \A b \in Server : AnswersOnce(inbound'[b])
      /\ \A b \in Server : \A n : ArrivesFrom(b, n)' => ArrivesFrom(b, n)
      /\ AnswerMessage(a) \in ToSet(inbound[c]) /\ AnswerMessage(a) \notin ToSet(inbound'[c])
  BY <1>2, <1>4, InboundTaken
<1>6. ReadAt(c, a) /\ a \notin ToSet(responses) /\ ~Answered(a)
  BY <1>3, <1>5 DEF AnswerFlow, ArrivesFrom
<1>7. responses \in Seq(RequestNo)
  BY DEF MatchTypes
<1>8. ToSet(responses') = ToSet(responses) \cup {a} /\ Distinct(responses')
  BY <1>2, <1>3, <1>6, <1>7, AppendedSet, DistinctAppend DEF AnswerFlow
<1>9. ASSUME NEW b \in Server, NEW n \in RequestNo, ArrivesFrom(b, n)'
      PROVE  ReadAt(b, n) /\ n \notin ToSet(responses') /\ ~Answered(n)
  <2>1. ReadAt(b, n) /\ n \notin ToSet(responses) /\ ~Answered(n)
    BY <1>5, <1>9 DEF AnswerFlow
  <2>2. n # a
    <3> SUFFICES ASSUME n = a PROVE FALSE
      OBVIOUS
    <3>1. b = c
      BY <1>6, <2>1 DEF ReadAt
    <3> QED
      BY <1>5, <1>9, <3>1 DEF ArrivesFrom
  <2> QED
    BY <1>8, <2>1, <2>2
<1>10. \A n \in ToSet(responses') : ReadAt(requests[n].broker, n) /\ ~Answered(n)
  BY <1>6, <1>8 DEF AnswerFlow, ReadAt
<1> QED
  BY <1>2, <1>5, <1>8, <1>9, <1>10, AnswerFlowMoves

LEMMA AnswerFlowTaken ==
  ASSUME CallTypes, MatchTypes, AnswerFlow, TakeResponse
  PROVE  AnswerFlow'
<1>1. PICK h : h = Head(responses)
  OBVIOUS
<1>2. /\ responses # <<>> /\ responses' = Tail(responses)
      /\ UNCHANGED <<requests, received, unanswered, inbound>>
  BY NoZero, ResponseTaken
<1>3. DOMAIN results' \subseteq DOMAIN results \cup {h}
  BY <1>1, NoZero, ResponseTaken
<1>4. responses \in Seq(RequestNo) /\ Distinct(responses)
  BY DEF MatchTypes, AnswerFlow
<1>5. Distinct(responses') /\ ToSet(responses') = ToSet(responses) \ {h}
  BY <1>1, <1>2, <1>4, DistinctTail
<1>6. h \in ToSet(responses)
  BY <1>1, <1>2, <1>4, HeadAndTail
<1>7. \A n : Answered(n)' => Answered(n) \/ n = h
  BY <1>3 DEF Answered
<1>8. RequestNo' = RequestNo /\ (\A b, n : ReadAt(b, n)' <=> ReadAt(b, n))
      /\ (\A b, n : ArrivesFrom(b, n)' <=> ArrivesFrom(b, n))
  BY <1>2 DEF RequestNo, ReadAt, ArrivesFrom
<1>9. ASSUME NEW n PROVE ReadAt(requests[n].broker, n)' <=> ReadAt(requests[n].broker, n)
  BY <1>2 DEF ReadAt
<1>10. \A b \in Server, n \in RequestNo' : ArrivesFrom(b, n)' =>
         ReadAt(b, n)' /\ n \notin ToSet(responses') /\ ~Answered(n)'
  BY <1>5, <1>6, <1>7, <1>8 DEF AnswerFlow
<1>11. \A n \in ToSet(responses') : ReadAt(requests[n].broker, n)' /\ ~Answered(n)'
  BY <1>5, <1>7, <1>9 DEF AnswerFlow
<1>12. \A n \in DOMAIN results' : ReadAt(requests[n].broker, n)'
  BY <1>3, <1>6, <1>9 DEF AnswerFlow
<1>13. \A b \in Server : AnswersOnce(inbound'[b])
  BY <1>2 DEF AnswerFlow
<1> QED
  BY <1>5, <1>10, <1>11, <1>12, <1>13 DEF AnswerFlow

LEMMA AnswerFlowStep ==
  ASSUME CallTypes, SendTypes, MatchTypes, RequestsInOrder, AnswerFlow, [Next]_vars
  PROVE  AnswerFlow'
<1>1. ASSUME NEW b \in Server, BufferRequest(b) \/ Flush(b) PROVE AnswerFlow'
  <2>1. UNCHANGED <<requests, inbound, responses, results, received, unanswered>>
    BY <1>1 DEF BufferRequest, Flush
  <2> QED
    BY <2>1, AnswerFlowFrame
<1>2. CASE TakeRegistration
  <2>1. UNCHANGED <<requests, inbound, responses, results, received, unanswered>>
    BY <1>2 DEF TakeRegistration
  <2> QED
    BY <2>1, AnswerFlowFrame
<1>3. CASE UNCHANGED <<sendVars, brokerVars, readVars, matchVars>>
  BY <1>3, AnswerFlowFrame
<1>4. ASSUME NEW c \in Server, NEW k \in Consumer, NotifyConsumer(c, k) PROVE AnswerFlow'
  <2>1. PICK m : m = ConsumerMessage(k)
    OBVIOUS
  <2>2. /\ inbound' = [inbound EXCEPT ![c] = Append(@, m)]
        /\ UNCHANGED <<requests, received, unanswered, results, responses>>
    BY <1>4, <2>1 DEF NotifyConsumer
  <2>3. m \in Message /\ m.kind = "consumer"
    BY <2>1, MessageSent DEF ConsumerMessage
  <2>4. /\ inbound[c] \in Seq(Message) /\ inbound'[c] = Append(inbound[c], m)
        /\ ToSet(inbound'[c]) = ToSet(inbound[c]) \cup {m}
        /\ \A b \in Server : b # c => inbound'[b] = inbound[b]
    BY <2>2, <2>3, InboundAppended
  <2>5. ASSUME NEW b \in Server PROVE AnswersOnce(inbound'[b])
    <3>1. AnswersOnce(inbound[b])
      BY DEF AnswerFlow
    <3>2. AnswersOnce(Append(inbound[c], m))
      BY <2>3, <2>4, AnswersOnceAppend DEF AnswerFlow
    <3> QED
      BY <2>4, <3>1, <3>2
  <2>6. ASSUME NEW b \in Server, NEW n, ArrivesFrom(b, n)' PROVE ArrivesFrom(b, n)
    <3>1. AnswerMessage(n) \in ToSet(inbound'[b])
      BY <2>6 DEF ArrivesFrom
    <3>2. AnswerMessage(n) # m
      BY <2>3 DEF AnswerMessage
    <3> QED
      BY <2>4, <3>1, <3>2 DEF ArrivesFrom
  <2>7. \A b \in Server, n \in RequestNo : ArrivesFrom(b, n)' =>
          ReadAt(b, n) /\ n \notin ToSet(responses') /\ ~Answered(n)
    BY <2>2, <2>6 DEF AnswerFlow
  <2>8. (\A n \in ToSet(responses') : ReadAt(requests[n].broker, n) /\ ~Answered(n))
        /\ Distinct(responses')
    BY <2>2 DEF AnswerFlow
  <2> QED
    BY <2>2, <2>5, <2>7, <2>8, AnswerFlowMoves
<1>5. ASSUME NEW c \in Server, ReadConsumerMessage(c) PROVE AnswerFlow'
  <2>1. /\ inbound[c] # <<>> /\ inbound' = [inbound EXCEPT ![c] = Tail(@)]
        /\ UNCHANGED <<requests, received, unanswered, results, responses>>
    BY <1>5 DEF ReadConsumerMessage
  <2>2. /\ \A b \in Server : AnswersOnce(inbound'[b])
        /\ \A b \in Server : \A n : ArrivesFrom(b, n)' => ArrivesFrom(b, n)
    BY <2>1, InboundTaken
  <2>3. \A b \in Server, n \in RequestNo : ArrivesFrom(b, n)' =>
          ReadAt(b, n) /\ n \notin ToSet(responses') /\ ~Answered(n)
    BY <2>1, <2>2 DEF AnswerFlow
  <2>4. (\A n \in ToSet(responses') : ReadAt(requests[n].broker, n) /\ ~Answered(n))
        /\ Distinct(responses')
    BY <2>1 DEF AnswerFlow
  <2> QED
    BY <2>1, <2>2, <2>3, <2>4, AnswerFlowMoves
<1> QED
  BY <1>1, <1>2, <1>3, <1>4, <1>5, StepKinds, AnswerFlowSends, AnswerFlowReadBatch,
     AnswerFlowAnswer, AnswerFlowReadAnswer, AnswerFlowTaken

----------------------------------------------------------------------------
(* The client's invariant. *)

ClientInvariant == CallerWaits /\ Placed /\ AnswerFlow

LEMMA ClientInvariantAlways == Spec => []ClientInvariant
<1>1. Init => ClientInvariant
  <2> SUFFICES ASSUME Init PROVE ClientInvariant
    OBVIOUS
  <2>1. RequestNo = {} /\ DOMAIN results = {} /\ responses = <<>> /\ registrations = <<>>
    BY DEF Init, RequestNo
  <2>2. \A b \in Server : inbound[b] = <<>>
    BY DEF Init
  <2>3. CallerWaits /\ Placed
    BY <2>1 DEF CallerWaits, Placed, Distinct
  <2>4. AnswerFlow
    BY <2>1, <2>2 DEF AnswerFlow, ToSet, Distinct, AnswersOnce
  <2> QED
    BY <2>3, <2>4 DEF ClientInvariant
<1>2. ClientTypes /\ RequestsInOrder /\ ClientInvariant /\ [Next]_vars => ClientInvariant'
  BY CallerWaitsStep, PlacedStep, AnswerFlowStep DEF ClientTypes, ClientInvariant
<1> QED
  BY <1>1, <1>2, ClientTypesAlways, OrderAlways, PTL DEF Spec

LEMMA PlacedIsOnePlace ==
  ASSUME Placed
  PROVE  OnePlaceEach
<1> SUFFICES ASSUME NEW n \in RequestNo, Expects(n)
             PROVE  Cardinality({place \in {"buffered", "registering", "waiting", "answered"} :
                       \/ place = "buffered" /\ Buffered(n)
                       \/ place = "registering" /\ n \in ToSet(registrations)
                       \/ place = "waiting" /\ n \in waiting
                       \/ place = "answered" /\ n \in DOMAIN results}) = 1
  BY DEF OnePlaceEach
<1> DEFINE P == {place \in {"buffered", "registering", "waiting", "answered"} :
                       \/ place = "buffered" /\ Buffered(n)
                       \/ place = "registering" /\ n \in ToSet(registrations)
                       \/ place = "waiting" /\ n \in waiting
                       \/ place = "answered" /\ n \in DOMAIN results}
<1>1. PlaceOf(n)
  BY DEF Placed
<1>2. \E p \in {"buffered", "registering", "waiting", "answered"} : P = {p}
  <2>1. CASE Buffered(n)
    <3>1. P = {"buffered"}
      BY <1>1, <2>1 DEF PlaceOf, Registering, Answered
    <3> QED
      BY <3>1
  <2>2. CASE n \in ToSet(registrations)
    <3>1. P = {"registering"}
      BY <1>1, <2>2 DEF PlaceOf, Registering, Answered
    <3> QED
      BY <3>1
  <2>3. CASE n \in waiting
    <3>1. P = {"waiting"}
      BY <1>1, <2>3 DEF PlaceOf, Registering, Answered
    <3> QED
      BY <3>1
  <2>4. CASE n \in DOMAIN results
    <3>1. P = {"answered"}
      BY <1>1, <2>4 DEF PlaceOf, Registering, Answered
    <3> QED
      BY <3>1
  <2> QED
    BY <1>1, <2>1, <2>2, <2>3, <2>4 DEF PlaceOf, Registering, Answered
<1> HIDE DEF P
<1>3. Cardinality(P) = 1
  BY <1>2, FS_Singleton
<1> QED
  BY <1>3 DEF P

(* Whichever of its channels the background reader takes from first, and
   whenever the dispatchers register their requests, the caller of a request is
   on its way to the map, in it, or answered: it is never dropped or doubled. *)
THEOREM CallersKeepAPlace == Spec => []OnePlaceEach
<1>1. ClientInvariant => OnePlaceEach
  BY PlacedIsOnePlace DEF ClientInvariant
<1> QED
  BY <1>1, ClientInvariantAlways, PTL

LEMMA LossIsARace ==
  ASSUME ClientTypes, RequestsInOrder, ClientInvariant, [Next]_vars
  PROVE  \A n \in lost' \ lost : n \in ToSet(registrations)
<1> USE DEF ClientTypes, ClientInvariant
<1>1. CASE ~TakeResponse
  <2>1. lost' = lost
    BY <1>1, StepKinds DEF Sends, BufferRequest, Flush, ReadBatch, AnswerRequest, NotifyConsumer,
       ReadAnswer, ReadConsumerMessage, TakeRegistration
  <2> QED
    BY <2>1
<1>2. CASE TakeResponse
  <2>1. PICK h : h = Head(responses)
    OBVIOUS
  <2>2. responses # <<>> /\ responses \in Seq(RequestNo)
    BY <1>2 DEF MatchTypes, TakeResponse
  <2>3. h \in RequestNo /\ h \in ToSet(responses)
    BY <2>1, <2>2, HeadAndTail
  <2>4. \/ lost' = lost
        \/ h \notin waiting /\ Expects(h) /\ lost' = lost \cup {h}
    BY <1>2, <2>1, NoZero, ResponseTaken
  <2>5. ReadAt(requests[h].broker, h) /\ ~Answered(h)
    BY <2>3 DEF AnswerFlow
  <2>6. requests[h].broker \in Server
    BY <2>3, RequestFacts DEF CallTypes
  <2>7. ~Buffered(h)
    <3> SUFFICES ASSUME NEW b \in Server, h \in ToSet(dispatch[b]) PROVE FALSE
      BY DEF Buffered
    <3>1. requests[h].broker = b /\ h \notin ToSet(received[b])
      BY StreamPlaces
    <3> QED
      BY <3>1, <2>5 DEF ReadAt
  <2>8. h \notin waiting /\ Expects(h) => h \in ToSet(registrations)
    BY <2>3, <2>5, <2>7 DEF Placed, PlaceOf, Registering
  <2> QED
    BY <2>4, <2>8
<1> QED
  BY <1>1, <1>2

(* For any timing of the dispatchers, the brokers and the background reader:
   the answer of a caller that waits is thrown away only if it gets to the
   background reader before the caller's registration, which is in its channel
   then.  There is no other way to lose one. *)
THEOREM OnlyTheRaceLoses == Spec => LostInARace
<1>1. ClientTypes /\ RequestsInOrder /\ ClientInvariant /\ [Next]_vars
        => [\A n \in lost' \ lost : n \in ToSet(registrations)]_vars
  BY LossIsARace
<1> QED
  BY <1>1, ClientTypesAlways, OrderAlways, ClientInvariantAlways, PTL DEF Spec, LostInARace

----------------------------------------------------------------------------
(* The client implements Rpc. *)

Asked ==
  IF caller.state = "awaiting" /\ caller.n \notin DOMAIN results THEN caller.n ELSE 0

LEMMA RpcInit ==
  ASSUME Init
  PROVE  Answers!Init
<1>1. caller.state # "awaiting" /\ results = [n \in {} |-> 0]
  BY DEF Init, Idle
<1> QED
  BY <1>1 DEF Answers!Init

(* A step in which nobody is answered. *)
LEMMA RpcAsks ==
  ASSUME CallTypes, MatchTypes, [Next]_vars, results' = results
  PROVE  Asked' = Asked \/ (Asked = 0 /\ Asked' # 0 /\ Asked' \notin DOMAIN results)
<1>1. CASE UNCHANGED caller
  BY <1>1 DEF Asked
<1>2. CASE Asked = 0 /\ Asked' = 0
  BY <1>2
<1>3. ASSUME caller.state # "awaiting", caller'.state = "awaiting", caller'.n = Len(requests) + 1
      PROVE  Asked = 0 /\ Asked' # 0 /\ Asked' \notin DOMAIN results
  <2>1. Len(requests) + 1 \notin RequestNo /\ Len(requests) + 1 # 0
    BY RequestFacts DEF CallTypes
  <2>2. caller'.n \notin DOMAIN results
    BY <1>3, <2>1 DEF MatchTypes
  <2> QED
    BY <1>3, <2>1, <2>2 DEF Asked
<1>4. ASSUME caller.state # "awaiting", caller'.state # "awaiting" PROVE Asked = 0 /\ Asked' = 0
  BY <1>4 DEF Asked
<1>5. CASE Call
  <2>1. ASSUME NEW t \in Topic, InsertTopic(t) \/ SendToNowhere(t)
        PROVE  caller.state # "awaiting" /\ caller'.state # "awaiting"
    BY <2>1 DEF InsertTopic, SendToNowhere, Idle
  <2>2. ASSUME NEW t \in Topic, NEW b \in Server, SendTopicData(t, b)
        PROVE  caller.state # "awaiting" /\ caller'.state = "awaiting"
               /\ caller'.n = Len(requests) + 1
    BY <2>2 DEF SendTopicData, Idle
  <2>3. ASSUME NEW k \in Consumer, NEW arrangement \in Arrangements, Subscribe(k, arrangement)
        PROVE  caller.state # "awaiting" /\ caller'.state # "awaiting"
    BY <2>3 DEF Subscribe, Idle
  <2> QED
    BY <1>3, <1>4, <1>5, <2>1, <2>2, <2>3 DEF Call
<1>6. CASE MethodStep
  <2>1. ASSUME NEW b \in Server, AskLeader(b)
        PROVE  caller.state # "awaiting" /\ caller'.state = "awaiting"
               /\ caller'.n = Len(requests) + 1
    BY <2>1 DEF AskLeader
  <2>2. ASSUME NEW mapping \in Mappings, CreateTopic(mapping)
        PROVE  caller.state # "awaiting" /\ caller'.state # "awaiting"
    BY <2>2 DEF CreateTopic, Idle
  <2>3. CASE Return
    <3>1. caller.n \in DOMAIN results /\ caller'.state # "awaiting"
      BY <2>3 DEF Return, Idle
    <3> QED
      BY <3>1 DEF Asked
  <2>4. CASE SendAssignment
    <3>1. /\ caller = [state |-> "assigning", consumer |-> caller.consumer, left |-> caller.left]
          /\ caller' = [caller EXCEPT !.left = Tail(@)] /\ caller.state # "awaiting"
      BY <2>4 DEF SendAssignment, CallTypes
    <3>2. caller'.state # "awaiting"
      BY <3>1
    <3> QED
      BY <1>4, <3>1, <3>2
  <2>5. CASE EndSubscribe
    <3>1. caller.state # "awaiting" /\ caller'.state # "awaiting"
      BY <2>5 DEF EndSubscribe, Idle
    <3> QED
      BY <1>4, <3>1
  <2> QED
    BY <1>3, <1>4, <1>6, <2>1, <2>2, <2>3, <2>4, <2>5 DEF MethodStep
<1>7. CASE ~Call /\ ~MethodStep
  BY <1>1, <1>7, CallFrame
<1> QED
  BY <1>5, <1>6, <1>7

(* The answer that is handed over is that of the call that waits. *)
LEMMA RpcReturns ==
  ASSUME ClientTypes, ClientInvariant, TakeResponse, results' # results
  PROVE  /\ Asked # 0 /\ Asked' = 0
         /\ results' = [n \in DOMAIN results \cup {Asked} |->
                          IF n = Asked THEN Asked ELSE results[n]]
<1> USE DEF ClientTypes, ClientInvariant
<1>1. PICK h : h = Head(responses)
  OBVIOUS
<1>2. /\ h \in waiting /\ caller' = caller
      /\ results' = [m \in DOMAIN results \cup {h} |-> IF m = h THEN h ELSE results[m]]
  BY <1>1, NoZero, ResponseTaken
<1>3. h \in RequestNo /\ h # 0
  BY <1>2, NoZero DEF MatchTypes
<1>4. Expects(h) /\ ~Answered(h)
  BY <1>2, <1>3 DEF Placed, PlaceOf
<1>5. caller.state = "awaiting" /\ caller.n = h
  BY <1>3, <1>4 DEF CallerWaits, Answered
<1>6. Asked = h
  BY <1>4, <1>5 DEF Asked, Answered
<1>7. h \in DOMAIN results'
  BY <1>2
<1>8. Asked' = 0
  BY <1>2, <1>5, <1>7 DEF Asked
<1> QED
  BY <1>2, <1>3, <1>6, <1>8

LEMMA RpcStep ==
  ASSUME ClientTypes, ClientInvariant, [Next]_vars
  PROVE  [Answers!Next]_(Answers!vars)
<1>1. CASE results' = results
  <2>1. CASE Asked' = Asked
    BY <1>1, <2>1 DEF Answers!vars, Asked
  <2>2. CASE Asked = 0 /\ Asked' # 0 /\ Asked' \notin DOMAIN results
    BY <1>1, <2>2 DEF Answers!Next, Answers!Ask, Asked
  <2> QED
    BY <1>1, <2>1, <2>2, RpcAsks DEF ClientTypes
<1>2. CASE results' # results
  <2>1. TakeResponse
    BY <1>2, ResultsGrow DEF ClientTypes
  <2>2. /\ Asked # 0 /\ Asked' = 0
        /\ results' = [n \in DOMAIN results \cup {Asked} |->
                          IF n = Asked THEN Asked ELSE results[n]]
    BY <1>2, <2>1, RpcReturns
  <2> QED
    BY <2>2 DEF Answers!Next, Answers!Return, Asked
<1> QED
  BY <1>1, <1>2

(* The client library implements Rpc: whatever its tasks do in
   between, a call returns at most once and with the answer to its own
   request, and no call is made while another waits. *)
THEOREM ClientIsRpc == Spec => ImplementsRpc
<1>1. Init => Answers!Init
  BY RpcInit
<1>2. ClientTypes /\ ClientInvariant /\ [Next]_vars => [Answers!Next]_(Answers!vars)
  BY RpcStep
<1> QED
  BY <1>1, <1>2, ClientTypesAlways, ClientInvariantAlways, PTL DEF Spec, ImplementsRpc, Answers!Spec
=============================================================================
