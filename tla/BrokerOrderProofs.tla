------------------------- MODULE BrokerOrderProofs --------------------------
(***************************************************************************)
(* The orders that Broker keeps, for any number of clients, topics,        *)
(* groups, workers and requests: files list values in the order of their   *)
(* answers, consumers hear of values in the order of the acks, writes get  *)
(* out of the order of their requests only around a request that was       *)
(* answered at once; and what the partitions' lists of consumers hold.     *)
(***************************************************************************)
EXTENDS BrokerProofs

USE DEF requestVars, workerVars, topicVars, partitionPool, consumerPool, regVars, responseVars

(* Files: what is not answered yet is the value being written. *)
FileInv ==
  /\ FileFollowsAnswers
  /\ \A t \in Topic, p \in PartitionId : \A i \in DOMAIN log[t][p] :
       \/ Answered(log[t][p][i])
       \/ log[t][p][i] = Writing.id /\ writing \in {"written", "failed"}

(* The consumer pool is handed values in the order of their acks. *)
AckedInOrder ==
  /\ \A i \in DOMAIN cAccepted : Acked(cAccepted[i].id)
  /\ \A i, j \in DOMAIN cAccepted :
       i < j => AnswerPosition(cAccepted[i].id) < AnswerPosition(cAccepted[j].id)
  /\ writing = "acked" =>
       /\ Acked(Writing.id)
       /\ \A i \in DOMAIN cAccepted :
            AnswerPosition(cAccepted[i].id) < AnswerPosition(Writing.id)

(* What consumers are told of is what the consumer pool started. *)
NotifiedFromPool ==
  \A i \in DOMAIN responses :
    responses[i].kind = "consumer" => \E k \in DOMAIN cStarted : cStarted[k].id = responses[i].id

NotifyInv == AckedInOrder /\ NotifiedFromPool /\ NotificationsFollowAcks

(* The chain of signals: a request that waits for its turn is signalled after
   the one before it, and between two writes that changed places a request was
   signalled that did not wait. *)
ChainInv ==
  /\ \A k \in signalled : WaitedItsTurn(k) => k = 1 \/ k - 1 \in signalled
  /\ \A a, b \in DOMAIN pAccepted :
       a < b /\ pAccepted[b].id < pAccepted[a].id =>
         \E k \in pAccepted[b].id + 1 .. pAccepted[a].id - 1 :
           k \in signalled /\ ~WaitedItsTurn(k)

----------------------------------------------------------------------------
(* Positions of answers. *)

LEMMA PositionIs ==
  ASSUME AnsweredLast, NEW id, NEW i \in AnswersTo(id)
  PROVE  AnswerPosition(id) = i
<1>1. AnswerPosition(id) \in AnswersTo(id)
  BY Zenon DEF AnswerPosition
<1> QED
  BY <1>1 DEF AnsweredLast, AnswersTo

(* An answer stays where it is; a new one comes after all others. *)
LEMMA Positions ==
  ASSUME TypeInv, PathInv, [Next]_vars, NEW id
  PROVE  /\ Answered(id) =>
              /\ Answered(id)' /\ AnswerPosition(id)' = AnswerPosition(id)
              /\ AnswerPosition(id) \in 1 .. Len(responses)
         /\ (\E ack : NewAnswer(id, ack)) =>
              Answered(id)' /\ AnswerPosition(id)' = Len(responses) + 1
<1>1. AnsweredLast /\ AnsweredLast'
  BY PathInvNext DEF PathInv
<1>2. ASSUME NEW i \in AnswersTo(id)
      PROVE  /\ Answered(id)' /\ AnswerPosition(id)' = AnswerPosition(id)
             /\ AnswerPosition(id) \in 1 .. Len(responses)
  <2>1. i \in AnswersTo(id)' /\ i \in 1 .. Len(responses)
    BY AnsweredAfter DEF AnswersTo, TypeInv, ResponseTypes
  <2>2. AnswerPosition(id) = i
    BY <1>1, PositionIs
  <2>3. AnswerPosition(id)' = i
    <3>1. AnswerPosition(id)' \in AnswersTo(id)'
      BY <2>1, Zenon DEF AnswerPosition
    <3> QED
      BY <2>1, <3>1, <1>1 DEF AnsweredLast, AnswersTo
  <2> QED
    BY <2>1, <2>2, <2>3 DEF Answered
<1>3. ASSUME NEW ack, NewAnswer(id, ack)
      PROVE  Answered(id)' /\ AnswerPosition(id)' = Len(responses) + 1
  <2> DEFINE r == Answer(id, ack)
  <2>1. r.kind = "answer" /\ r.id = id /\ responses' = Append(responses, r)
    BY <1>3 DEF NewAnswer, Respond, Answer
  <2> HIDE DEF r
  <2>2. AnswersTo(id)' = {Len(responses) + 1}
    BY <2>1, <1>3, AnswersAppended DEF NewAnswer, Answered, TypeInv
  <2>3. AnswerPosition(id)' \in AnswersTo(id)'
    BY <2>2, Zenon DEF AnswerPosition
  <2> QED
    BY <2>2, <2>3 DEF Answered
<1> QED
  BY <1>2, <1>3 DEF Answered

(* The answer that ends a write. *)
LEMMA WriteAnswered ==
  ASSUME TypeInv, PathInv, [Next]_vars, AckWrite \/ AnswerFailedWrite, NEW id, id = Writing.id
  PROVE  \E ack : NewAnswer(id, ack) /\ (AckWrite => ack)
<1>1. \E x, ack : NewAnswer(x, ack)
  <2>1. responses' # responses
    <3>1. PICK r : responses' = Append(responses, r)
      BY DEF AckWrite, AnswerFailedWrite, Respond
    <3>2. Len(responses') = Len(responses) + 1 /\ Len(responses) \in Nat
      BY <3>1, AnswersAppended DEF TypeInv
    <3> QED
      BY <3>2
  <2>2. ~SendToConsumer
    BY DEF AckWrite, AnswerFailedWrite, SendToConsumer
  <2> QED
    BY <2>1, <2>2, NewResponse
<1>2. PICK x, ack : NewAnswer(x, ack)
  BY <1>1
<1>3. UNCHANGED signalled /\ UNCHANGED reg
  BY DEF AckWrite, AnswerFailedWrite
<1> QED
  BY <1>2, <1>3 DEF NewAnswer, AckWrite, AnswerFailedWrite, AckSubscription

----------------------------------------------------------------------------
(* Files. *)

(* What a step does to a file. *)
LEMMA FileStep ==
  ASSUME TypeInv, [Next]_vars, NEW t \in Topic, NEW p \in PartitionId
  PROVE  \/ log'[t][p] = log[t][p]
         \/ log'[t][p] = <<>>
         \/ /\ log'[t][p] = Append(log[t][p], Writing.id)
            /\ Write /\ writing = "begun" /\ writing' \in {"written", "failed"}
<1>1. log \in [Topic -> [PartitionId -> Seq(DOMAIN requests)]]
  BY DEF TypeInv, TopicTypes
<1>2. ASSUME NEW s \in Topic, NEW n \in 0 .. MaxPartitions, Truncate(s, n)
      PROVE  log'[t][p] = log[t][p] \/ log'[t][p] = <<>>
  <2>1. log' = [log EXCEPT ![s] = [q \in PartitionId |-> IF q <= n THEN <<>> ELSE log[s][q]]]
    BY <1>2 DEF Truncate
  <2> QED
    BY <2>1, <1>1
<1>3. CASE Write
  <2>1. /\ AppendToFile \/ UNCHANGED log
        /\ writing = "begun" /\ writing' \in {"written", "failed"}
    BY <1>3 DEF Write
  <2>2. ASSUME AppendToFile
        PROVE  log'[t][p] = log[t][p] \/ log'[t][p] = Append(log[t][p], Writing.id)
    <3> DEFINE part == partitions[Writing.part]
    <3>1. log' = [log EXCEPT ![part.topic][part.id] = Append(@, Writing.id)]
      BY <2>2 DEF AppendToFile
    <3> HIDE DEF part
    <3> QED
      BY <3>1, <1>1
  <2> QED
    BY <2>1, <2>2, <1>3
<1> QED
  BY <1>2, <1>3, TopicFrame, InsertTruncates DEF ClearConsumers, PushConsumer, AssignPartition

LEMMA FileInvStep ==
  ASSUME TypeInv, PathInv, FileInv, [Next]_vars
  PROVE  FileInv'
<1>1. PartitionPoolTypes /\ TopicTypes /\ AnsweredLast /\ AnsweredLast' /\ ResponseTypes
      /\ Len(responses) \in Nat
  BY PathInvNext DEF PathInv, TypeInv, ResponseTypes
<1> DEFINE Ordered(v, w) == Answered(v) /\ (Answered(w) => AnswerPosition(v) < AnswerPosition(w))
           Ended(v) == Answered(v) \/ (v = Writing.id /\ writing \in {"written", "failed"})
(* What is in order stays in order. *)
<1>2. ASSUME NEW v, NEW w, Ordered(v, w) PROVE Ordered(v, w)'
  <2>1. Answered(v)' /\ AnswerPosition(v)' = AnswerPosition(v) /\ AnswerPosition(v) \in 1 .. Len(responses)
    BY <1>2, Positions
  <2>2. CASE Answered(w)
    BY <2>1, <2>2, <1>2, Positions
  <2>3. ASSUME NEW ack, NewAnswer(w, ack) PROVE Ordered(v, w)'
    <3>1. AnswerPosition(w)' = Len(responses) + 1
      BY <2>3, Positions
    <3> QED
      BY <2>1, <3>1, <1>1
  <2> QED
    BY <2>1, <2>2, <2>3, AnsweredAfter
(* What was written is answered before the next write. *)
<1>3. ASSUME NEW v, Ended(v) PROVE Ended(v)'
  <2>1. CASE Answered(v)
    BY <2>1, Positions
  <2>2. CASE v = Writing.id /\ writing \in {"written", "failed"}
    <3>1. CASE UNCHANGED <<pStarted, writing>>
      BY <2>2, <3>1 DEF Writing
    <3>2. CASE AckWrite \/ AnswerFailedWrite
      <4>1. \E ack : NewAnswer(v, ack)
        BY <2>2, <3>2, WriteAnswered
      <4> QED
        BY <4>1, Positions
    <3>3. ~BeginWrite
      BY <2>2, <1>1 DEF BeginWrite, PartitionPool!Start, PartitionPoolTypes, PartitionBusy
    <3>4. ~Write /\ ~NotifyConsumers
      BY <2>2 DEF Write, NotifyConsumers
    <3> QED
      BY <3>1, <3>2, <3>3, <3>4, PartitionPoolFrame DEF PartitionStep, ForwardToPartition,
         PartitionPool!Accept
  <2> QED
    BY <1>3, <2>1, <2>2
<1>4. ASSUME NEW t \in Topic, NEW p \in PartitionId
      PROVE  /\ \A i, j \in DOMAIN log'[t][p] : i < j => Ordered(log[t][p][i], log[t][p][j])'
             /\ \A i \in DOMAIN log'[t][p] : Ended(log[t][p][i])'
  <2> DEFINE file == log[t][p]
  <2>1. file \in Seq(DOMAIN requests)
    BY <1>1 DEF TopicTypes
  <2>2. /\ \A i, j \in DOMAIN file : i < j => Ordered(file[i], file[j])
        /\ \A i \in DOMAIN file : Ended(file[i])
    BY DEF FileInv, FileFollowsAnswers
  <2>3. CASE log'[t][p] = file
    <3>1. ASSUME NEW i \in DOMAIN file, NEW j \in DOMAIN file, i < j
          PROVE  Ordered(log[t][p][i], log[t][p][j])'
      <4>1. PICK v, w : v = file[i] /\ w = file[j]
        OBVIOUS
      <4>2. Ordered(v, w)'
        BY <4>1, <3>1, <2>2, <1>2
      <4>3. log'[t][p][i] = v /\ log'[t][p][j] = w
        BY <4>1, <2>3
      <4> QED
        BY <4>2, <4>3 DEF Answered, AnswersTo, AnswerPosition
    <3>2. ASSUME NEW i \in DOMAIN file PROVE Ended(log[t][p][i])'
      <4>1. PICK v : v = file[i]
        OBVIOUS
      <4>2. Ended(v)'
        BY <4>1, <3>2, <2>2, <1>3
      <4>3. log'[t][p][i] = v
        BY <4>1, <2>3
      <4> QED
        BY <4>2, <4>3 DEF Answered, AnswersTo
    <3> QED
      BY <3>1, <3>2, <2>3
  <2>4. CASE log'[t][p] = <<>>
    BY <2>4
  <2>5. CASE /\ log'[t][p] = Append(file, Writing.id)
             /\ Write /\ writing = "begun" /\ writing' \in {"written", "failed"}
    <3>1. PICK x : x = Writing.id
      OBVIOUS
    <3>2. UNCHANGED responses /\ Writing' = Writing
      BY <2>5 DEF Write, Writing
    <3>3. \A v : (Answered(v)' <=> Answered(v)) /\ AnswerPosition(v)' = AnswerPosition(v)
      BY <3>2 DEF Answered, AnswersTo, AnswerPosition
    <3>4. ~Answered(x)
      <4>1. Len(pStarted) \in DOMAIN pAccepted /\ Writing = pAccepted[Len(pStarted)]
        BY <2>5, <1>1, WritingIsWork
      <4> QED
        BY <4>1, <3>1, <2>5, <1>1 DEF AnsweredLast, ToBeAnswered
    <3>5. \A i \in DOMAIN file : Answered(file[i])
      BY <2>2, <2>5
    <3>6. /\ DOMAIN log'[t][p] = DOMAIN file \cup {Len(file) + 1}
          /\ \A i \in DOMAIN file : log'[t][p][i] = file[i] /\ i <= Len(file) /\ i \in Nat
          /\ log'[t][p][Len(file) + 1] = x
          /\ Len(file) \in Nat
      BY <2>1, <2>5, <3>1
    <3>7. ASSUME NEW i \in DOMAIN log'[t][p], NEW j \in DOMAIN log'[t][p], i < j
          PROVE  Ordered(log[t][p][i], log[t][p][j])'
      <4>1. i \in DOMAIN file
        BY <3>6, <3>7
      <4>2. PICK v, w : v = log'[t][p][i] /\ w = log'[t][p][j]
        OBVIOUS
      <4>3. Ordered(v, w)
        <5>1. v = file[i] /\ Answered(v)
          BY <4>1, <4>2, <3>5, <3>6
        <5>2. CASE j \in DOMAIN file
          BY <5>1, <5>2, <4>1, <4>2, <3>6, <3>7, <2>2
        <5>3. CASE j = Len(file) + 1
          BY <5>1, <5>3, <4>2, <3>4, <3>6
        <5> QED
          BY <5>2, <5>3, <3>6
      <4>4. Ordered(v, w)'
        BY <4>3, <1>2
      <4> QED
        BY <4>2, <4>4 DEF Answered, AnswersTo, AnswerPosition
    <3>8. ASSUME NEW i \in DOMAIN log'[t][p] PROVE Ended(log[t][p][i])'
      <4>1. CASE i \in DOMAIN file
        <5>1. PICK v : v = file[i]
          OBVIOUS
        <5>2. Answered(v)' /\ log'[t][p][i] = v
          BY <4>1, <5>1, <3>3, <3>5, <3>6
        <5> QED
          BY <5>2 DEF Answered, AnswersTo
      <4>2. CASE i = Len(file) + 1
        BY <4>2, <3>1, <3>2, <3>6, <2>5
      <4> QED
        BY <4>1, <4>2, <3>6
    <3> QED
      BY <3>7, <3>8
  <2> QED
    BY <2>3, <2>4, <2>5, FileStep
<1>5. FileFollowsAnswers'
  BY <1>4 DEF FileFollowsAnswers
<1> QED
  BY <1>4, <1>5 DEF FileInv

(* A partition file lists values in the order in which their producers were
   answered, whatever topics are inserted anew and whichever writes fail: a
   value is written after the answer to the one before it. *)
THEOREM FilesFollowAnswers == Spec => []FileFollowsAnswers
<1>1. Init => FileInv
  <2>1. Init => \A t \in Topic, p \in PartitionId : log[t][p] = <<>>
    BY DEF Init
  <2>2. (\A t \in Topic, p \in PartitionId : log[t][p] = <<>>) => FileInv
    BY DEF FileInv, FileFollowsAnswers
  <2> QED
    BY <2>1, <2>2
<1>2. TypeInv /\ PathInv /\ FileInv /\ [Next]_vars => FileInv'
  BY FileInvStep
<1>3. FileInv => FileFollowsAnswers
  BY DEF FileInv
<1> QED
  BY <1>1, <1>2, <1>3, PathInvAlways, PTL DEF Spec

----------------------------------------------------------------------------
(* Notifications. *)

LEMMA AckedIsAnswered ==
  ASSUME NEW id, Acked(id)
  PROVE  Answered(id)
BY DEF Acked, Answered

(* What the consumer pool is handed, and in which order. *)
LEMMA AckedInOrderStep ==
  ASSUME TypeInv, PathInv, AckedInOrder, [Next]_vars
  PROVE  AckedInOrder'
<1>1. /\ PartitionPoolTypes /\ ConsumerPoolTypes
      /\ Len(responses) \in Nat
  BY DEF TypeInv, ResponseTypes
<1> DEFINE Before(v, w) == Acked(v) /\ Acked(w) /\ AnswerPosition(v) < AnswerPosition(w)
(* Acks and their order stay. *)
<1>2. ASSUME NEW v, Acked(v)
      PROVE  /\ Acked(v)' /\ AnswerPosition(v)' = AnswerPosition(v)
             /\ AnswerPosition(v) \in 1 .. Len(responses)
  BY <1>2, AckedAfter, AckedIsAnswered, Positions
<1>3. ASSUME NEW v, NEW w, Before(v, w) PROVE Before(v, w)'
  BY <1>2, <1>3
<1>4. CASE UNCHANGED cAccepted
  <2>1. ASSUME NEW i \in DOMAIN cAccepted PROVE Acked(cAccepted[i].id)'
    <3>1. PICK v : v = cAccepted[i].id
      OBVIOUS
    <3>2. Acked(v)' /\ cAccepted'[i].id = v
      BY <3>1, <1>2, <1>4 DEF AckedInOrder
    <3> QED
      BY <3>2 DEF Acked, AnswersTo
  <2>2. ASSUME NEW i \in DOMAIN cAccepted, NEW j \in DOMAIN cAccepted, i < j
        PROVE  AnswerPosition(cAccepted[i].id)' < AnswerPosition(cAccepted[j].id)'
    <3>1. PICK v, w : v = cAccepted[i].id /\ w = cAccepted[j].id
      OBVIOUS
    <3>2. Before(v, w)'
      BY <3>1, <2>2, <1>3 DEF AckedInOrder
    <3>3. cAccepted'[i].id = v /\ cAccepted'[j].id = w
      BY <3>1, <1>4
    <3> QED
      BY <3>2, <3>3 DEF AnswerPosition, AnswersTo
  <2>3. ASSUME writing' = "acked"
        PROVE  /\ Acked(Writing.id)'
               /\ \A i \in DOMAIN cAccepted :
                    AnswerPosition(cAccepted[i].id)' < AnswerPosition(Writing.id)'
    <3>1. PICK x : x = Writing.id
      OBVIOUS
    <3>2. CASE UNCHANGED <<pStarted, writing>>
      <4>1. Writing'.id = x /\ writing = "acked"
        BY <3>1, <3>2, <2>3 DEF Writing
      <4>2. Acked(x)'
        BY <3>1, <4>1, <1>2 DEF AckedInOrder
      <4>3. ASSUME NEW i \in DOMAIN cAccepted
            PROVE  AnswerPosition(cAccepted[i].id)' < AnswerPosition(Writing.id)'
        <5>1. PICK v : v = cAccepted[i].id
          OBVIOUS
        <5>2. Before(v, x)'
          BY <5>1, <3>1, <4>1, <1>3 DEF AckedInOrder
        <5>3. cAccepted'[i].id = v
          BY <5>1, <1>4
        <5> QED
          BY <5>2, <5>3, <4>1 DEF AnswerPosition, AnswersTo
      <4> QED
        BY <4>1, <4>2, <4>3 DEF Acked, AnswersTo
    <3>3. CASE AckWrite
      <4>1. Writing'.id = x
        BY <3>1, <3>3 DEF AckWrite, Writing
      <4>2. PICK ack : NewAnswer(x, ack) /\ ack
        BY <3>1, <3>3, WriteAnswered
      <4>3. AnswerPosition(x)' = Len(responses) + 1
        BY <4>2, Positions
      <4>4. Acked(x)'
        <5> DEFINE r == Answer(x, ack)
        <5>1. r.kind = "answer" /\ r.id = x /\ r.ack = ack
          BY DEF Answer
        <5>2. responses' = Append(responses, r)
          BY <4>2 DEF NewAnswer, Respond
        <5> HIDE DEF r
        <5>3. /\ AnswersTo(x)' = AnswersTo(x) \cup {Len(responses) + 1}
              /\ responses'[Len(responses) + 1] = r
          BY <5>1, <5>2, AnswersAppended DEF TypeInv
        <5> QED
          BY <5>1, <5>3, <4>2 DEF Acked
      <4>5. ASSUME NEW i \in DOMAIN cAccepted
            PROVE  AnswerPosition(cAccepted[i].id)' < AnswerPosition(Writing.id)'
        <5>1. PICK v : v = cAccepted[i].id
          OBVIOUS
        <5>2. AnswerPosition(v)' < AnswerPosition(x)'
          BY <5>1, <4>3, <1>1, <1>2 DEF AckedInOrder
        <5>3. cAccepted'[i].id = v
          BY <5>1, <1>4
        <5> QED
          BY <5>2, <5>3, <4>1 DEF AnswerPosition, AnswersTo
      <4> QED
        BY <4>1, <4>4, <4>5 DEF Acked, AnswersTo
    <3>4. ~(BeginWrite \/ Write \/ NotifyConsumers \/ AnswerFailedWrite)
      BY <2>3 DEF BeginWrite, Write, NotifyConsumers, AnswerFailedWrite
    <3> QED
      BY <3>2, <3>3, <3>4, PartitionPoolFrame DEF PartitionStep, ForwardToPartition,
         PartitionPool!Accept
  <2> QED
    BY <2>1, <2>2, <2>3, <1>4 DEF AckedInOrder
<1>5. CASE NotifyConsumers
  <2>1. /\ writing = "acked" /\ writing' = "none" /\ UNCHANGED responses
        /\ cAccepted' = Append(cAccepted, Writing)
    BY <1>5 DEF NotifyConsumers, ConsumerPool!Accept
  <2>2. Acked(Writing.id)
        /\ \A i \in DOMAIN cAccepted :
             AnswerPosition(cAccepted[i].id) < AnswerPosition(Writing.id)
    BY <2>1 DEF AckedInOrder
  <2> DEFINE item == Writing
  <2> HIDE DEF item
  <2>3. /\ DOMAIN cAccepted' = DOMAIN cAccepted \cup {Len(cAccepted) + 1}
        /\ \A i \in DOMAIN cAccepted : cAccepted'[i] = cAccepted[i] /\ i <= Len(cAccepted) /\ i \in Nat
        /\ cAccepted'[Len(cAccepted) + 1] = item
        /\ Len(cAccepted) \in Nat
    <3> HIDE DEF WorkItem
    <3>1. cAccepted' = Append(cAccepted, item) /\ cAccepted \in Seq(WorkItem)
      BY <2>1, <1>1 DEF item, ConsumerPoolTypes
    <3> QED
      BY <3>1
  <2>4. \A i \in DOMAIN cAccepted' : Acked(cAccepted'[i].id)
    BY <2>2, <2>3 DEF AckedInOrder, item
  <2>5. ASSUME NEW i \in DOMAIN cAccepted', NEW j \in DOMAIN cAccepted', i < j
        PROVE  AnswerPosition(cAccepted'[i].id) < AnswerPosition(cAccepted'[j].id)
    <3>1. i \in DOMAIN cAccepted
      BY <2>3, <2>5
    <3>2. CASE j \in DOMAIN cAccepted
      BY <3>1, <3>2, <2>3, <2>5 DEF AckedInOrder
    <3>3. CASE j = Len(cAccepted) + 1
      BY <3>1, <3>3, <2>2, <2>3 DEF item
    <3> QED
      BY <3>2, <3>3, <2>3
  <2> QED
    BY <2>1, <2>4, <2>5 DEF AckedInOrder, Acked, AnswerPosition, AnswersTo
<1> QED
  BY <1>4, <1>5, ConsumerPoolFrame DEF ConsumerStep, BeginNotify, CopyConsumers, SendToConsumer,
     EndNotify, ConsumerPool!Start, ConsumerPool!Finish

LEMMA NotifiedFromPoolStep ==
  ASSUME TypeInv, PathInv, NotifiedFromPool, [Next]_vars
  PROVE  NotifiedFromPool'
<1>1. ConsumerPoolTypes /\ ResponseTypes
  BY DEF TypeInv
<1>2. DOMAIN cStarted \subseteq DOMAIN cStarted' /\ \A k \in DOMAIN cStarted : cStarted'[k] = cStarted[k]
  <2>1. CASE UNCHANGED cStarted
    BY <2>1
  <2>2. CASE BeginNotify
    <3> DEFINE item == cAccepted[Len(cStarted) + 1]
    <3>1. cStarted' = Append(cStarted, item)
      BY <2>2 DEF BeginNotify, ConsumerPool!Start
    <3> HIDE DEF item, WorkItem
    <3>2. cStarted \in Seq(WorkItem)
      BY <1>1 DEF ConsumerPoolTypes
    <3> QED
      BY <3>1, <3>2
  <2> QED
    BY <2>1, <2>2, ConsumerPoolFrame DEF ConsumerStep, NotifyConsumers, CopyConsumers,
       SendToConsumer, EndNotify, ConsumerPool!Accept, ConsumerPool!Finish
<1>3. CASE UNCHANGED responses
  BY <1>2, <1>3 DEF NotifiedFromPool
<1>4. ASSUME NEW r, responses' = Append(responses, r),
             r.kind = "consumer" => \E k \in DOMAIN cStarted : cStarted[k].id = r.id
      PROVE  NotifiedFromPool'
  <2>1. /\ DOMAIN responses' = DOMAIN responses \cup {Len(responses) + 1}
        /\ \A i \in DOMAIN responses : responses'[i] = responses[i]
        /\ responses'[Len(responses) + 1] = r
    BY <1>1, <1>4, AnswersAppended
  <2> QED
    BY <2>1, <1>2, <1>4 DEF NotifiedFromPool
<1>5. CASE /\ SendToConsumer
           /\ responses' = Append(responses, Notification(Notifying.id, Head(notifying.left)))
  <2>1. Len(cStarted) \in DOMAIN cStarted
    BY <1>1, <1>5, NotifyingIsWork DEF SendToConsumer, ConsumerPoolTypes
  <2>2. Notification(Notifying.id, Head(notifying.left)).id = cStarted[Len(cStarted)].id
    BY DEF Notification, Notifying
  <2> QED
    BY <2>1, <2>2, <1>4, <1>5
<1>6. ASSUME NEW id, NEW ack, NewAnswer(id, ack) PROVE NotifiedFromPool'
  <2>1. Answer(id, ack).kind = "answer" /\ responses' = Append(responses, Answer(id, ack))
    BY <1>6 DEF Answer, NewAnswer, Respond
  <2> QED
    BY <2>1, <1>4
<1> QED
  BY <1>3, <1>5, <1>6, NewResponse

LEMMA NotificationsStep ==
  ASSUME TypeInv, PathInv, NotifyInv, [Next]_vars
  PROVE  NotificationsFollowAcks'
<1>1. /\ ConsumerPoolTypes /\ ResponseTypes /\ AckedInOrder /\ NotifiedFromPool
      /\ NotificationsFollowAcks
      /\ Len(responses) \in Nat /\ DOMAIN responses = 1 .. Len(responses)
  BY DEF TypeInv, NotifyInv, ResponseTypes
(* What is said of a notification of v at i and one of w at j. *)
<1> DEFINE Told(v, i) == Acked(v) /\ AnswerPosition(v) < i
           InOrder(v, w) == AnswerPosition(v) <= AnswerPosition(w)
<1>2. ASSUME NEW v, Acked(v)
      PROVE  /\ Acked(v)' /\ AnswerPosition(v)' = AnswerPosition(v)
             /\ AnswerPosition(v) \in 1 .. Len(responses)
  BY <1>2, AckedAfter, AckedIsAnswered, Positions
<1>3. \A i \in DOMAIN responses : responses[i].kind = "consumer" => Told(responses[i].id, i)
  BY <1>1 DEF NotificationsFollowAcks
<1>4. ASSUME NEW i \in DOMAIN responses, responses[i].kind = "consumer", NEW v, v = responses[i].id
      PROVE  /\ Acked(v)' /\ AnswerPosition(v)' < i
             /\ AnswerPosition(v)' = AnswerPosition(v)
  <2>1. Acked(v) /\ AnswerPosition(v) < i
    BY <1>3, <1>4
  <2> QED
    BY <2>1, <1>2
<1>5. ASSUME NEW i \in DOMAIN responses, NEW j \in DOMAIN responses,
             responses[i].kind = "consumer", responses[j].kind = "consumer", i < j,
             NEW v, NEW w, v = responses[i].id, w = responses[j].id
      PROVE  AnswerPosition(v)' <= AnswerPosition(w)'
  <2>1. AnswerPosition(v) <= AnswerPosition(w)
    BY <1>5, <1>1 DEF NotificationsFollowAcks
  <2> QED
    BY <2>1, <1>4, <1>5
(* It is enough to look at the new response. *)
<1>6. ASSUME NEW r, responses' = Append(responses, r),
             r.kind = "consumer" =>
               /\ Acked(r.id)
               /\ \A k \in DOMAIN cStarted : AnswerPosition(cStarted[k].id) <= AnswerPosition(r.id)
      PROVE  NotificationsFollowAcks'
  <2>1. /\ DOMAIN responses' = DOMAIN responses \cup {Len(responses) + 1}
        /\ \A i \in DOMAIN responses : responses'[i] = responses[i]
        /\ responses'[Len(responses) + 1] = r
    BY <1>1, <1>6, AnswersAppended
  <2>2. ASSUME r.kind = "consumer", NEW w, w = r.id
        PROVE  Acked(w)' /\ AnswerPosition(w)' < Len(responses) + 1
    BY <2>2, <1>1, <1>2, <1>6
  <2>3. ASSUME r.kind = "consumer", NEW i \in DOMAIN responses, responses[i].kind = "consumer",
               NEW v, NEW w, v = responses[i].id, w = r.id
        PROVE  AnswerPosition(v)' <= AnswerPosition(w)'
    <3>1. PICK k \in DOMAIN cStarted : cStarted[k].id = v
      BY <2>3, <1>1 DEF NotifiedFromPool
    <3>2. AnswerPosition(v) <= AnswerPosition(w)
      BY <3>1, <2>3, <1>6
    <3>3. Acked(v) /\ Acked(w)
      BY <2>3, <1>3, <1>6
    <3> QED
      BY <3>2, <3>3, <1>2
  <2>4. ASSUME NEW i \in DOMAIN responses', NEW j \in DOMAIN responses',
               responses'[i].kind = "consumer", responses'[j].kind = "consumer",
               NEW v, NEW w, v = responses'[i].id, w = responses'[j].id
        PROVE  /\ Acked(v)' /\ AnswerPosition(v)' < i
               /\ i < j => AnswerPosition(v)' <= AnswerPosition(w)'
    <3>1. CASE i \in DOMAIN responses
      <4>1. Acked(v)' /\ AnswerPosition(v)' < i
        BY <3>1, <2>1, <2>4, <1>4
      <4>2. CASE j \in DOMAIN responses
        BY <3>1, <4>1, <4>2, <2>1, <2>4, <1>5
      <4>3. CASE j = Len(responses) + 1
        BY <3>1, <4>1, <4>3, <2>1, <2>4, <2>3
      <4> QED
        BY <4>2, <4>3, <2>1
    <3>2. CASE i = Len(responses) + 1
      <4>1. Acked(v)' /\ AnswerPosition(v)' < i
        BY <3>2, <2>1, <2>2, <2>4
      <4>2. ~(i < j)
        BY <3>2, <2>1, <1>1
      <4> QED
        BY <4>1, <4>2
    <3> QED
      BY <3>1, <3>2, <2>1
  <2> QED
    BY <2>4 DEF NotificationsFollowAcks, Acked, AnswerPosition, AnswersTo
<1>7. CASE UNCHANGED responses
  <2>1. ASSUME NEW i \in DOMAIN responses', NEW j \in DOMAIN responses',
               responses'[i].kind = "consumer", responses'[j].kind = "consumer",
               NEW v, NEW w, v = responses'[i].id, w = responses'[j].id
        PROVE  /\ Acked(v)' /\ AnswerPosition(v)' < i
               /\ i < j => AnswerPosition(v)' <= AnswerPosition(w)'
    BY <2>1, <1>4, <1>5, <1>7
  <2> QED
    BY <2>1 DEF NotificationsFollowAcks, Acked, AnswerPosition, AnswersTo
<1>8. CASE /\ SendToConsumer
           /\ responses' = Append(responses, Notification(Notifying.id, Head(notifying.left)))
  <2>1. /\ Len(cStarted) \in DOMAIN cStarted /\ DOMAIN cStarted \subseteq DOMAIN cAccepted
        /\ \A k \in DOMAIN cStarted : k <= Len(cStarted) /\ k \in Nat /\ cStarted[k] = cAccepted[k]
    BY <1>1, <1>8, NotifyingIsWork DEF SendToConsumer, ConsumerPoolTypes
  <2>2. /\ Acked(Notifying.id)
        /\ \A k \in DOMAIN cStarted :
             AnswerPosition(cStarted[k].id) <= AnswerPosition(Notifying.id)
    <3>1. Acked(Notifying.id) /\ AnswerPosition(Notifying.id) \in Nat
      BY <2>1, <1>1, <1>2 DEF AckedInOrder, Notifying
    <3>2. ASSUME NEW k \in DOMAIN cStarted
          PROVE  AnswerPosition(cStarted[k].id) <= AnswerPosition(Notifying.id)
      <4>1. CASE k = Len(cStarted)
        BY <4>1, <3>1 DEF Notifying
      <4>2. CASE k < Len(cStarted)
        <5>1. AnswerPosition(cAccepted[k].id) < AnswerPosition(cAccepted[Len(cStarted)].id)
          BY <4>2, <2>1, <1>1 DEF AckedInOrder
        <5>2. Acked(cAccepted[k].id) /\ AnswerPosition(cAccepted[k].id) \in Nat
          BY <2>1, <1>1, <1>2 DEF AckedInOrder
        <5> QED
          BY <5>1, <5>2, <3>1, <2>1 DEF Notifying
      <4> QED
        BY <4>1, <4>2, <2>1
    <3> QED
      BY <3>1, <3>2
  <2>3. Notification(Notifying.id, Head(notifying.left)).id = Notifying.id
    BY DEF Notification
  <2> QED
    BY <2>2, <2>3, <1>6, <1>8
<1>9. ASSUME NEW id, NEW ack, NewAnswer(id, ack) PROVE NotificationsFollowAcks'
  <2>1. Answer(id, ack).kind = "answer" /\ responses' = Append(responses, Answer(id, ack))
    BY <1>9 DEF Answer, NewAnswer, Respond
  <2> QED
    BY <2>1, <1>6
<1> QED
  BY <1>7, <1>8, <1>9, NewResponse

(* Consumers are told of a value after its producer got the ack, and of all
   values in the order of the acks: the partition worker sends the ack before
   it hands the value on, and the consumer pool is a serial executor. *)
THEOREM ConsumersFollowAcks == Spec => []NotificationsFollowAcks
<1>1. Init => NotifyInv
  <2>1. Init => responses = <<>> /\ cAccepted = <<>> /\ writing = "none"
    BY DEF Init, ConsumerPool!Init
  <2>2. responses = <<>> /\ cAccepted = <<>> /\ writing = "none" => NotifyInv
    BY DEF NotifyInv, AckedInOrder, NotifiedFromPool, NotificationsFollowAcks
  <2> QED
    BY <2>1, <2>2
<1>2. TypeInv /\ PathInv /\ NotifyInv /\ [Next]_vars => NotifyInv'
  BY AckedInOrderStep, NotifiedFromPoolStep, NotificationsStep DEF NotifyInv
<1>3. NotifyInv => NotificationsFollowAcks
  BY DEF NotifyInv
<1> QED
  BY <1>1, <1>2, <1>3, PathInvAlways, PTL DEF Spec

----------------------------------------------------------------------------
(* The chain of signals. *)

LEMMA WaitedAfter ==
  ASSUME TypeInv, PathInv, [Next]_vars, NEW k \in signalled
  PROVE  WaitedItsTurn(k)' <=> WaitedItsTurn(k)
<1>1. /\ RequestsGrow /\ WorkerTypes /\ PartitionPoolTypes /\ DealtInTurn
  BY RequestsStep DEF TypeInv, PathInv
<1>2. requests'[k] = requests[k]
  BY <1>1 DEF RequestsGrow, WorkerTypes
<1>3. CASE UNCHANGED pAccepted
  BY <1>2, <1>3 DEF WaitedItsTurn, Forwarded
<1>4. ASSUME NEW w \in Worker, ForwardToPartition(w) PROVE WaitedItsTurn(k)' <=> WaitedItsTurn(k)
  <2> DEFINE item == Work(worker[w].task, worker[w].part)
  <2>1. worker[w].task # k
    BY <1>1, TaskNotSignalled
  <2>2. pAccepted' = Append(pAccepted, item) /\ item.id # k
    BY <2>1, <1>4 DEF ForwardToPartition, PartitionPool!Accept, Work
  <2> HIDE DEF item
  <2>3. /\ DOMAIN pAccepted' = DOMAIN pAccepted \cup {Len(pAccepted) + 1}
        /\ \A i \in DOMAIN pAccepted : pAccepted'[i] = pAccepted[i]
        /\ pAccepted'[Len(pAccepted) + 1] = item
    <3> HIDE DEF WorkItem
    <3>1. pAccepted \in Seq(WorkItem)
      BY <1>1 DEF PartitionPoolTypes
    <3> QED
      BY <2>2, <3>1
  <2> QED
    BY <2>2, <2>3, <1>2 DEF WaitedItsTurn, Forwarded
<1> QED
  BY <1>3, <1>4, PartitionPoolFrame DEF PartitionStep, BeginWrite, Write, AckWrite,
     NotifyConsumers, AnswerFailedWrite, PartitionPool!Start, PartitionPool!Finish

(* The first request after n that is signalled, n itself being behind. *)
LEMMA GapAfter ==
  ASSUME ChainInv, NEW n \in Nat \ {0}, n \notin signalled, signalled \subseteq Nat,
         NEW m \in signalled, n < m, WaitedItsTurn(m)
  PROVE  \E k \in n + 1 .. m - 1 : k \in signalled /\ ~WaitedItsTurn(k)
<1> DEFINE T == {k \in Nat : n < k /\ k \in signalled}
<1>1. PICK k \in T : \A j \in T : k <= j
  <2>1. T \subseteq Nat /\ m \in T
    OBVIOUS
  <2> HIDE DEF T
  <2> QED
    BY <2>1, NatMin
<1>2. k # 1 /\ k - 1 \in Nat /\ k - 1 \notin T
  BY <1>1
<1>3. k - 1 \notin signalled
  BY <1>1, <1>2
<1>4. ~WaitedItsTurn(k)
  BY <1>1, <1>2, <1>3 DEF ChainInv
<1>5. k <= m /\ k # m
  BY <1>1, <1>4
<1> QED
  BY <1>1, <1>4, <1>5

LEMMA ChainInvStep ==
  ASSUME TypeInv, PathInv, ChainInv, [Next]_vars
  PROVE  ChainInv'
<1>1. /\ WorkerTypes /\ RequestTypes /\ PartitionPoolTypes /\ DealtInTurn /\ PartitionQueuedOnce
      /\ signalled \subseteq signalled' /\ signalled \subseteq Nat
      /\ PathInv'
  BY DealtInTurnStep, PathInvNext DEF TypeInv, PathInv, WorkerTypes, RequestTypes
<1>2. ASSUME NEW k \in signalled', WaitedItsTurn(k)' PROVE k = 1 \/ k - 1 \in signalled'
  <2>1. CASE k \in signalled
    BY <2>1, <1>1, <1>2, WaitedAfter DEF ChainInv
  <2>2. CASE k \notin signalled
    <3>1. PICK w \in Worker : SignalStep(w) /\ k = worker[w].task
      BY <2>2, <1>2, TasksStep DEF SignalNext
    <3>2. CASE AnswerRequest(w)
      <4>1. requests'[k].op.op \notin {"who_leader", "subscribe"}
        BY <3>1, <3>2, <1>1 DEF AnswerRequest, WorkerTypes, WorkerSound
      <4>2. ~Forwarded(k)'
        BY <2>2, <3>2, <1>1 DEF AnswerRequest, Forwarded, PartitionQueuedOnce
      <4> QED
        BY <4>1, <4>2, <1>2 DEF WaitedItsTurn
    <3>3. CASE AnswerLeader(w) \/ ForwardToRegistration(w) \/ ForwardToPartition(w)
      BY <3>1, <3>3, <1>1 DEF AnswerLeader, ForwardToRegistration, ForwardToPartition, ItsTurn
    <3> QED
      BY <3>1, <3>2, <3>3 DEF SignalStep
  <2> QED
    BY <2>1, <2>2
<1>3. ASSUME NEW a \in DOMAIN pAccepted', NEW b \in DOMAIN pAccepted', a < b,
             pAccepted'[b].id < pAccepted'[a].id
      PROVE  \E k \in pAccepted'[b].id + 1 .. pAccepted'[a].id - 1 :
               k \in signalled /\ ~WaitedItsTurn(k)
  <2>1. CASE UNCHANGED pAccepted
    BY <2>1, <1>3 DEF ChainInv
  <2>2. ASSUME NEW w \in Worker, ForwardToPartition(w)
        PROVE  \E k \in pAccepted'[b].id + 1 .. pAccepted'[a].id - 1 :
                 k \in signalled /\ ~WaitedItsTurn(k)
    <3> DEFINE n == worker[w].task
               item == Work(n, worker[w].part)
    <3>1. pAccepted' = Append(pAccepted, item) /\ item.id = n
      BY <2>2 DEF ForwardToPartition, PartitionPool!Accept, Work
    <3>2. n \in Nat \ {0} /\ n \notin signalled
      BY <1>1, TaskNotSignalled DEF WorkerTypes, WorkerRecord
    <3> HIDE DEF item, n
    <3>3. /\ DOMAIN pAccepted' = DOMAIN pAccepted \cup {Len(pAccepted) + 1}
          /\ \A i \in DOMAIN pAccepted : pAccepted'[i] = pAccepted[i] /\ i \in Nat /\ i <= Len(pAccepted)
          /\ pAccepted'[Len(pAccepted) + 1] = item
          /\ Len(pAccepted) \in Nat
      <4> HIDE DEF WorkItem
      <4>1. pAccepted \in Seq(WorkItem)
        BY <1>1 DEF PartitionPoolTypes
      <4> QED
        BY <3>1, <4>1
    <3>4. a \in DOMAIN pAccepted
      BY <3>3, <1>3
    <3>5. CASE b \in DOMAIN pAccepted
      BY <3>3, <3>4, <3>5, <1>3 DEF ChainInv
    <3>6. CASE b = Len(pAccepted) + 1
      <4> DEFINE m == pAccepted[a].id
      <4>1. m \in signalled /\ WaitedItsTurn(m)
        BY <3>4, <1>1 DEF PartitionQueuedOnce, WaitedItsTurn, Forwarded
      <4>2. pAccepted'[a].id = m /\ pAccepted'[b].id = n /\ n < m
        BY <3>1, <3>3, <3>4, <3>6, <1>3
      <4> HIDE DEF m
      <4> QED
        BY <4>1, <4>2, <3>2, <1>1, GapAfter
    <3> QED
      BY <3>3, <3>5, <3>6
  <2> QED
    BY <2>1, <2>2, PartitionPoolFrame DEF PartitionStep, BeginWrite, Write, AckWrite,
       NotifyConsumers, AnswerFailedWrite, PartitionPool!Start, PartitionPool!Finish
<1>4. ASSUME NEW a \in DOMAIN pAccepted', NEW b \in DOMAIN pAccepted', a < b,
             pAccepted'[b].id < pAccepted'[a].id
      PROVE  \E k \in pAccepted'[b].id + 1 .. pAccepted'[a].id - 1 :
               k \in signalled' /\ ~WaitedItsTurn(k)'
  BY <1>1, <1>3, <1>4, WaitedAfter
<1> QED
  BY <1>2, <1>4 DEF ChainInv

(* Two writes reach the partition pool in the other order than their requests
   only around a request that was answered at once, which signals the next one
   without having waited for the one before. *)
THEOREM OrderUnlessAnsweredAtOnce == Spec => []RunsKeepOrder
<1>1. Init => ChainInv
  BY DEF Init, PartitionPool!Init, ChainInv
<1>2. TypeInv /\ PathInv /\ ChainInv /\ [Next]_vars => ChainInv'
  BY ChainInvStep
<1>3. ChainInv => RunsKeepOrder
  BY DEF ChainInv, RunsKeepOrder
<1> QED
  BY <1>1, <1>2, <1>3, PathInvAlways, PTL DEF Spec

----------------------------------------------------------------------------
(* The partitions' lists of consumers. *)

ListOf(part) == partitions[part].consumers

LEMMA ListIs ==
  ASSUME TopicTypes, NEW part \in DOMAIN partitions, NEW other \in DOMAIN partitions, NEW list,
         partitions' = [partitions EXCEPT ![part].consumers = list]
  PROVE  ListOf(other)' = IF other = part THEN list ELSE ListOf(other)
<1> DEFINE P == [topic : Topic, id : PartitionId, consumers : Seq(ListedConsumer)]
<1>1. partitions[part] \in P
  <2>1. partitions \in Seq(P)
    BY DEF TopicTypes
  <2> HIDE DEF P
  <2> QED
    BY <2>1
<1> QED
  BY <1>1 DEF ListOf, TopicTypes

LEMMA ClearedList ==
  ASSUME TypeInv, NEW w \in Worker, ClearConsumers(w), NEW part \in DOMAIN partitions
  PROVE  ListOf(part)' = IF part = worker[w].part THEN <<>> ELSE ListOf(part)
<1>1. worker[w].part \in DOMAIN partitions /\ TopicTypes
  BY DEF TypeInv, ClearConsumers, WorkerTypes, WorkerSound
<1> QED
  BY <1>1, ListIs DEF ClearConsumers

LEMMA PushedList ==
  ASSUME TypeInv, NEW w \in Worker, PushConsumer(w), NEW part \in DOMAIN partitions
  PROVE  \E c \in ListedConsumer :
           ListOf(part)' = IF part = worker[w].part THEN Append(ListOf(part), c) ELSE ListOf(part)
<1>1. PICK c \in ListedConsumer :
        /\ worker[w].part \in DOMAIN partitions
        /\ partitions' = [partitions EXCEPT ![worker[w].part].consumers = Append(@, c)]
  BY PushedConsumer
<1>2. partitions' = [partitions EXCEPT ![worker[w].part].consumers =
                       Append(ListOf(worker[w].part), c)]
  BY <1>1 DEF ListOf
<1>3. ListOf(part)' = IF part = worker[w].part THEN Append(ListOf(worker[w].part), c)
                      ELSE ListOf(part)
  BY <1>1, <1>2, ListIs DEF TypeInv
<1> QED
  BY <1>3

(* What a step does to the list of a partition. *)
LEMMA ListStep ==
  ASSUME TypeInv, [Next]_vars, NEW part \in DOMAIN partitions
  PROVE  \/ ListOf(part)' = ListOf(part)
         \/ \E w \in Worker : ClearConsumers(w) /\ part = worker[w].part
         \/ \E w \in Worker : PushConsumer(w) /\ part = worker[w].part
         \/ \E c \in ListedConsumer : c.id \in Nat /\ ListOf(part)' = Rejoin(ListOf(part), c)
<1>1. ASSUME NEW w \in Worker, HandleTopicInsert(w) PROVE ListOf(part)' = ListOf(part)
  BY <1>1, InsertedPartitions DEF ListOf
<1>2. ASSUME AssignPartition
      PROVE  \/ ListOf(part)' = ListOf(part)
             \/ \E c \in ListedConsumer : c.id \in Nat /\ ListOf(part)' = Rejoin(ListOf(part), c)
  <2>1. PICK p \in DOMAIN partitions, c \in ListedConsumer :
          /\ c.id \in Nat
          /\ partitions' = [partitions EXCEPT ![p].consumers = Rejoin(@, c)]
    BY <1>2, AssignedConsumer
  <2>2. partitions' = [partitions EXCEPT ![p].consumers = Rejoin(ListOf(p), c)]
    BY <2>1 DEF ListOf
  <2>3. ListOf(part)' = IF part = p THEN Rejoin(ListOf(p), c) ELSE ListOf(part)
    BY <2>1, <2>2, ListIs DEF TypeInv
  <2> QED
    BY <2>1, <2>3
<1>3. Write \/ UNCHANGED topicVars => ListOf(part)' = ListOf(part)
  BY DEF Write, ListOf
<1> QED
  BY <1>1, <1>2, <1>3, ClearedList, PushedList, TopicFrame

(* Only the assignment that cleared the list leaves a mark there, and only its
   own push takes the mark away. *)
LEMMA ClearedStep ==
  ASSUME TypeInv, [Next]_vars, NEW part
  PROVE  \/ /\ ClearedBy(part)' = ClearedBy(part)
            /\ \A w \in Worker : PushConsumer(w) \/ ClearConsumers(w) => worker[w].part # part
         \/ \E w \in Worker : /\ ClearConsumers(w) /\ worker[w].part = part
                              /\ ClearedBy(part)' = ClearedBy(part) \cup {w}
         \/ \E w \in ClearedBy(part) : /\ PushConsumer(w)
                                       /\ ClearedBy(part)' = ClearedBy(part) \ {w}
<1>1. worker \in [Worker -> WorkerRecord]
  BY DEF TypeInv, WorkerTypes
<1>2. ASSUME NEW v \in Worker, NEW w \in Worker,
             PushConsumer(v) \/ ClearConsumers(v), PushConsumer(w) \/ ClearConsumers(w)
      PROVE  v = w
  BY <1>1, <1>2 DEF PushConsumer, ClearConsumers, AnswerAtOnce, WorkerRecord
<1>3. ASSUME NEW w \in Worker, ClearConsumers(w)
      PROVE  ClearedBy(part)' = IF worker[w].part = part THEN ClearedBy(part) \cup {w}
                                ELSE ClearedBy(part)
  BY <1>1, <1>3 DEF ClearConsumers, ClearedBy, WorkerRecord
<1>4. ASSUME NEW w \in Worker, PushConsumer(w)
      PROVE  /\ ClearedBy(part)' = ClearedBy(part) \ {w}
             /\ w \in ClearedBy(part) <=> worker[w].part = part
  BY <1>1, <1>4 DEF PushConsumer, AnswerAtOnce, ClearedBy, WorkerRecord
<1>5. CASE UNCHANGED workerVars
  <2>1. ASSUME NEW w \in Worker PROVE ~PushConsumer(w) /\ ~ClearConsumers(w)
    BY <1>1, <1>5 DEF PushConsumer, ClearConsumers, AnswerAtOnce, WorkerRecord
  <2>2. ClearedBy(part)' = ClearedBy(part)
    BY <1>5 DEF ClearedBy
  <2> QED
    BY <2>1, <2>2
<1>6. ASSUME NEW w \in Worker, RequestStep(w),
             \A v \in Worker : ~PushConsumer(v) /\ ~ClearConsumers(v)
      PROVE  ClearedBy(part)' = ClearedBy(part)
  <2> DEFINE Elsewhere == /\ worker[w].phase # "cleared" /\ worker'[w].phase # "cleared"
                          /\ \A v \in Worker : v # w => worker'[v] = worker[v]
  <2>1. SignalStep(w) => Elsewhere
    <3>1. SignalStep(w) => worker[w].phase # "cleared" /\ SignalNext(w)
      BY DEF SignalStep, AnswerRequest, AnswerLeader, ForwardToRegistration, ForwardToPartition
    <3>2. SignalNext(w) => /\ worker'[w].phase # "cleared"
                           /\ \A v \in Worker : v # w => worker'[v] = worker[v]
      BY <1>1 DEF SignalNext
    <3> QED
      BY <3>1, <3>2
  <2>2. HandleTopicInsert(w) \/ HandleDataInsert(w) \/ HandleWhoLeader(w) => Elsewhere
    BY <1>1 DEF HandleTopicInsert, HandleDataInsert, HandleWhoLeader, Taking, AnswerAtOnce,
       WaitForTurn, WorkerRecord
  <2>3. HandleUnknown(w) \/ HandleSubscribe(w) \/ LocatePartition(w) \/ CopyListArc(w) => Elsewhere
    BY <1>1 DEF HandleUnknown, HandleSubscribe, LocatePartition, CopyListArc, Taking, AnswerAtOnce,
       WaitForTurn, WorkerRecord
  <2>4. Elsewhere
    BY <1>6, <2>1, <2>2, <2>3 DEF RequestStep, SignalStep
  <2> QED
    BY <2>4 DEF ClearedBy
<1> QED
  BY <1>2, <1>3, <1>4, <1>5, <1>6, WorkerFrame

(* A partition that is new has no consumers. *)
LEMMA NewList ==
  ASSUME TypeInv, [Next]_vars, NEW part \in DOMAIN partitions', part \notin DOMAIN partitions
  PROVE  ListOf(part)' = <<>>
<1>1. ASSUME NEW w \in Worker, HandleTopicInsert(w) PROVE ListOf(part)' = <<>>
  BY <1>1, InsertedPartitions DEF ListOf
<1>2. ASSUME NEW w \in Worker, ClearConsumers(w) \/ PushConsumer(w) PROVE FALSE
  BY <1>2 DEF TypeInv, TopicTypes, ClearConsumers, PushConsumer
<1>3. AssignPartition \/ Write \/ UNCHANGED topicVars => FALSE
  BY DEF TypeInv, TopicTypes, AssignPartition, Write
<1> QED
  BY <1>1, <1>2, <1>3, TopicFrame

(* What ListBounded says of one list and the assignments that cleared it. *)
Bounded(list, C) ==
  Len(list) + Cardinality(C) <= RequestWorkers + Cardinality(SubscribedGroups(list))

LEMMA WorkersFinite ==
  ASSUME NEW C \in SUBSET Worker
  PROVE  IsFiniteSet(C) /\ Cardinality(C) \in Nat /\ Cardinality(C) <= RequestWorkers
<1>1. RequestWorkers \in Nat /\ 1 \in Int /\ RequestWorkers \in Int
  BY NatConstants
<1>2. IsFiniteSet(Worker) /\ Cardinality(Worker) = RequestWorkers
  BY <1>1, FS_Interval, NatConstants DEF Worker
<1> QED
  BY <1>2, FS_Subset, FS_CardinalityType

LEMMA SubscribedFinite ==
  ASSUME NEW list \in Seq(ListedConsumer)
  PROVE  IsFiniteSet(SubscribedGroups(list)) /\ Cardinality(SubscribedGroups(list)) \in Nat
<1> DEFINE D == 1 .. Len(list)
           f == [i \in D |-> list[i].group]
           T == {f[i] : i \in D}
<1>1. IsFiniteSet(D) /\ D = DOMAIN list
  <2>1. Len(list) \in Int /\ 1 \in Int /\ D = DOMAIN list
    OBVIOUS
  <2> QED
    BY <2>1, FS_Interval
<1>2. f \in Surjection(D, T)
  BY DEF Surjection
<1>3. IsFiniteSet(T)
  <2> HIDE DEF D, T, f
  <2> QED
    BY <1>1, <1>2, FS_Surjection
<1>4. SubscribedGroups(list) \in SUBSET T
  BY <1>1 DEF SubscribedGroups
<1> HIDE DEF T
<1> QED
  BY <1>3, <1>4, FS_Subset, FS_CardinalityType

LEMMA BoundedEmpty ==
  ASSUME NEW C \in SUBSET Worker
  PROVE  Bounded(<<>>, C)
<1>1. <<>> \in Seq(ListedConsumer) /\ Len(<<>>) = 0
  OBVIOUS
<1>2. Cardinality(SubscribedGroups(<<>>)) \in Nat
  BY <1>1, SubscribedFinite
<1> QED
  BY <1>1, <1>2, WorkersFinite, NatConstants DEF Bounded

LEMMA BoundedPushed ==
  ASSUME NEW list \in Seq(ListedConsumer), NEW c \in ListedConsumer,
         NEW C \in SUBSET Worker, NEW w \in C, Bounded(list, C)
  PROVE  Bounded(Append(list, c), C \ {w})
<1> DEFINE longer == Append(list, c)
<1>1. /\ longer \in Seq(ListedConsumer) /\ Len(longer) = Len(list) + 1 /\ Len(list) \in Nat
      /\ DOMAIN longer = DOMAIN list \cup {Len(list) + 1}
      /\ \A i \in DOMAIN list : longer[i] = list[i]
  BY AppendedSeq
<1>2. SubscribedGroups(list) \in SUBSET SubscribedGroups(longer)
  BY <1>1 DEF SubscribedGroups
<1> HIDE DEF longer
<1>3. /\ Cardinality(SubscribedGroups(list)) \in Nat
      /\ Cardinality(SubscribedGroups(longer)) \in Nat
      /\ Cardinality(SubscribedGroups(list)) <= Cardinality(SubscribedGroups(longer))
  BY <1>1, <1>2, SubscribedFinite, FS_Subset
<1>4. Cardinality(C \ {w}) = Cardinality(C) - 1 /\ Cardinality(C) \in Nat
  BY WorkersFinite, FS_RemoveElement
<1> QED
  BY <1>1, <1>3, <1>4, NatConstants DEF Bounded, longer

LEMMA BoundedRejoined ==
  ASSUME NEW list \in Seq(ListedConsumer), NEW c \in ListedConsumer, c.id \in Nat,
         NEW C \in SUBSET Worker, Bounded(list, C)
  PROVE  Bounded(Rejoin(list, c), C)
<1> DEFINE new == Rejoin(list, c)
           G == SubscribedGroups(list)
<1>1. /\ new \in Seq(ListedConsumer) /\ Len(new) <= Len(list) + 1
      /\ (\E j \in DOMAIN list : list[j].group = c.group) => Len(new) <= Len(list)
      /\ \E n \in DOMAIN new : new[n] = c
      /\ \A j \in DOMAIN list :
           list[j].group # c.group => \E n \in DOMAIN new : new[n] = list[j]
  <2> DEFINE S == ListedConsumer
  <2> HIDE DEF S
  <2>1. list \in Seq(S) /\ c \in S
    BY DEF S
  <2>2. /\ new \in Seq(S) /\ Len(new) <= Len(list) + 1
        /\ (\E j \in DOMAIN list : list[j].group = c.group) => Len(new) <= Len(list)
    BY <2>1, RejoinFacts
  <2>3. \E n \in DOMAIN new : new[n] = c
    BY <2>1, RejoinFacts
  <2>4. ASSUME NEW j \in DOMAIN list, list[j].group # c.group
        PROVE  \E n \in DOMAIN new : new[n] = list[j]
    BY <2>1, <2>4, RejoinFacts
  <2> QED
    BY <2>2, <2>3, <2>4 DEF S
<1> HIDE DEF new
<1>2. c.group \in Group
  BY DEF ListedConsumer
<1>3. G \cup {c.group} \in SUBSET SubscribedGroups(new)
  BY <1>1, <1>2 DEF SubscribedGroups
<1>4. c.group \in G => Len(new) <= Len(list)
  BY <1>1 DEF SubscribedGroups
<1> HIDE DEF G
<1>5. IsFiniteSet(G) /\ Cardinality(G) \in Nat
  BY SubscribedFinite DEF G
<1>6. /\ Cardinality(SubscribedGroups(new)) \in Nat
      /\ Cardinality(G \cup {c.group}) \in Nat
      /\ Cardinality(G \cup {c.group}) <= Cardinality(SubscribedGroups(new))
  BY <1>1, <1>3, <1>5, SubscribedFinite, FS_Subset, FS_AddElement, FS_CardinalityType
<1>7. Cardinality(G \cup {c.group}) = IF c.group \in G THEN Cardinality(G) ELSE Cardinality(G) + 1
  BY <1>5, FS_AddElement
<1>8. Cardinality(C) \in Nat /\ Len(list) \in Nat /\ Len(new) \in Nat
  BY <1>1, WorkersFinite
<1> QED
  BY <1>1, <1>4, <1>5, <1>6, <1>7, <1>8, NatConstants DEF Bounded, new, G

LEMMA ListBoundedStep ==
  ASSUME TypeInv, ListBounded, [Next]_vars
  PROVE  ListBounded'
<1> SUFFICES ASSUME NEW part \in DOMAIN partitions'
             PROVE  Bounded(ListOf(part)', ClearedBy(part)')
  BY DEF ListBounded, Bounded, ListOf
<1>1. ClearedBy(part) \in SUBSET Worker /\ ClearedBy(part)' \in SUBSET Worker
  BY DEF ClearedBy
<1>2. CASE ListOf(part)' = <<>>
  BY <1>1, <1>2, BoundedEmpty
<1>3. CASE part \in DOMAIN partitions
  <2>1. ListOf(part) \in Seq(ListedConsumer) /\ Bounded(ListOf(part), ClearedBy(part))
    BY <1>3, PartitionFields DEF TypeInv, ListBounded, Bounded, ListOf
  <2>2. ASSUME NEW w \in Worker, ClearConsumers(w), worker[w].part = part
        PROVE  ListOf(part)' = <<>>
    BY <2>2, <1>3, ClearedList
  <2>3. ASSUME NEW w \in ClearedBy(part), PushConsumer(w),
               ClearedBy(part)' = ClearedBy(part) \ {w}
        PROVE  Bounded(ListOf(part)', ClearedBy(part)')
    <3>1. w \in Worker /\ worker[w].part = part
      BY DEF ClearedBy
    <3>2. PICK c \in ListedConsumer : ListOf(part)' = Append(ListOf(part), c)
      BY <3>1, <2>3, <1>3, PushedList
    <3> QED
      BY <3>2, <2>1, <2>3, <1>1, BoundedPushed
  <2>4. CASE /\ ClearedBy(part)' = ClearedBy(part)
             /\ \A w \in Worker : PushConsumer(w) \/ ClearConsumers(w) => worker[w].part # part
    <3>1. \/ ListOf(part)' = ListOf(part)
          \/ \E c \in ListedConsumer : c.id \in Nat /\ ListOf(part)' = Rejoin(ListOf(part), c)
      BY <2>4, <1>3, ListStep
    <3> QED
      BY <3>1, <2>1, <2>4, <1>1, BoundedRejoined
  <2> QED
    BY <2>2, <2>3, <2>4, <1>2, ClearedStep
<1> QED
  BY <1>2, <1>3, NewList

(* A list of consumers is never longer than the request pool has workers and
   groups subscribed here, however assignments interleave. *)
THEOREM ListsAreBounded == Spec => []ListBounded
<1>1. Init => ListBounded
  BY DEF Init, ListBounded
<1> QED
  BY <1>1, ListBoundedStep, TypeInvAlways, PTL DEF Spec

(* A partition that has a consumer has one for good, or an assignment that
   cleared its list has still to push. *)
AssignedOrCleared(part) == HasConsumer(part) \/ ClearedBy(part) # {}

LEMMA AssignedStep ==
  ASSUME TypeInv, NEW part, AssignedOrCleared(part), [Next]_vars
  PROVE  AssignedOrCleared(part)'
<1>1. part \in DOMAIN partitions
  BY DEF AssignedOrCleared, HasConsumer, ClearedBy, TypeInv, WorkerTypes, WorkerSound
<1>2. part \in DOMAIN partitions' /\ ListOf(part) \in Seq(ListedConsumer)
  BY <1>1, TopicsStep, PartitionFields DEF TypeInv, PartitionsGrow, ListOf
<1>3. ListOf(part)' # <<>> => HasConsumer(part)'
  BY <1>2 DEF HasConsumer, ListOf
<1>4. ASSUME NEW w \in ClearedBy(part), PushConsumer(w) PROVE HasConsumer(part)'
  <2>1. w \in Worker /\ worker[w].part = part
    BY DEF ClearedBy
  <2>2. PICK c \in ListedConsumer : ListOf(part)' = Append(ListOf(part), c)
    BY <1>1, <1>4, <2>1, PushedList
  <2> QED
    BY <1>2, <1>3, <2>2, AppendedSeq
<1>5. CASE /\ ClearedBy(part)' = ClearedBy(part)
           /\ \A w \in Worker : PushConsumer(w) \/ ClearConsumers(w) => worker[w].part # part
  <2>1. \/ ListOf(part)' = ListOf(part)
        \/ \E c \in ListedConsumer : ListOf(part)' = Rejoin(ListOf(part), c)
    BY <1>1, <1>5, ListStep
  <2>2. \A c \in ListedConsumer : Rejoin(ListOf(part), c) # <<>>
    BY <1>2, RejoinFacts
  <2>3. HasConsumer(part) => ListOf(part)' # <<>>
    BY <2>1, <2>2 DEF HasConsumer, ListOf
  <2> QED
    BY <1>3, <1>5, <2>3 DEF AssignedOrCleared
<1> QED
  BY <1>4, <1>5, ClearedStep DEF AssignedOrCleared

(* A partition that has a consumer keeps one through every new assignment and
   every new subscription, except between the clear and the push of a
   consumer_assignment. *)
THEOREM PartitionsStayAssigned == Spec => StaysAssigned
<1> SUFFICES ASSUME NEW part \in 1 .. MaxPartitions
             PROVE  Spec => [](HasConsumer(part) => [](ClearedBy(part) = {} => HasConsumer(part)))
  BY DEF StaysAssigned
<1>1. TypeInv /\ AssignedOrCleared(part) /\ [Next]_vars => AssignedOrCleared(part)'
  BY AssignedStep
<1>2. HasConsumer(part) => AssignedOrCleared(part)
  BY DEF AssignedOrCleared
<1>3. AssignedOrCleared(part) => (ClearedBy(part) = {} => HasConsumer(part))
  BY DEF AssignedOrCleared
<1> QED
  BY <1>1, <1>2, <1>3, TypeInvAlways, PTL DEF Spec

----------------------------------------------------------------------------
(* The shares of a group. *)

(* The one consumer that a group has in a list. *)
OnlyOf(list, g, k) ==
  \E i \in DOMAIN list : Places(list, g) = {i} /\ list[i].id = k

(* A consumer is registered once, in one group. *)
MembersDiffer == \A g \in Group : \A i, j \in DOMAIN members[g] : members[g][i] = members[g][j] => i = j

(* The first n partition objects of an order belong to the first m consumers of
   the group in turn. *)
DealtRound(order, n, g, m) ==
  \A x \in 1 .. n : OnlyOf(ListOf(order[x]), g, members[g][((x - 1) % m) + 1])

(* What ConsumerReg has dealt out, and what it has left. *)
PartlyDealt(t, g) ==
  \E order \in Orders(topicMap[t]) :
    /\ members[g] # <<>> /\ dealt[t][g] = Len(members[g])
    /\ reg.next \in 0 .. Len(topicMap[t])
    /\ Len(reg.left) = Len(topicMap[t]) - reg.next
    /\ \A x \in 1 .. Len(reg.left) : reg.left[x] = order[reg.next + x]
    /\ DealtRound(order, reg.next, g, Len(members[g]))

(* When it has dealt a topic out it went round all consumers the group had then. *)
AllDealt(t, g) ==
  /\ dealt[t][g] \in 1 .. Len(members[g])
  /\ \E order \in Orders(topicMap[t]) : DealtRound(order, Len(topicMap[t]), g, dealt[t][g])

NothingOf(t, g) == \A p \in DOMAIN topicMap[t] : Places(ListAt(t, p), g) = {}

Shared(t, g) == IF DealingOut(t, g) THEN PartlyDealt(t, g) ELSE NothingOf(t, g) \/ AllDealt(t, g)

SharesInv == NoneAssigns => \A t \in Topic, g \in Group : Shared(t, g)

(* The consumers kept are those of other groups, each from a place of its own. *)
KeptFrom(e, k, n, list, g) ==
  /\ e \in [DOMAIN k -> 1 .. n]
  /\ \A x, y \in DOMAIN k : e[x] = e[y] => x = y
  /\ \A x \in DOMAIN k : k[x] = list[e[x]] /\ list[e[x]].group # g
  /\ \A j \in 1 .. n : list[j].group # g => \E x \in DOMAIN k : e[x] = j

LEMMA KeptPlaces ==
  ASSUME NEW S, NEW list \in Seq(S), NEW g, NEW n \in 0 .. Len(list)
  PROVE  \E e : KeptFrom(e, Kept(list, g)[n], n, list, g)
<1> SUFFICES ASSUME ~ \E e : KeptFrom(e, Kept(list, g)[n], n, list, g) PROVE FALSE
  OBVIOUS
<1> DEFINE f == Kept(list, g)
           T == {k \in 0 .. Len(list) : ~ \E e : KeptFrom(e, f[k], k, list, g)}
<1> HIDE DEF f
<1>1. PICK m \in T : \A k \in T : m <= k
  <2> T \subseteq Nat /\ T # {}
    BY DEF f
  <2> HIDE DEF T
  <2> QED
    BY NatMin
<1>2. ASSUME NEW i \in 0 .. Len(list)
      PROVE  f[i] = IF i = 0 THEN <<>>
                    ELSE IF list[i].group = g THEN f[i - 1] ELSE Append(f[i - 1], list[i])
  <2>1. KeptUpTo(f, Len(list), list, g)
    BY KeptIs DEF f
  <2> QED
    BY <2>1 DEF KeptUpTo
<1>3. m # 0
  <2>1. f[0] = <<>>
    BY <1>2
  <2>2. KeptFrom([x \in {} |-> 0], <<>>, 0, list, g)
    BY DEF KeptFrom
  <2> QED
    BY <2>1, <2>2
<1>4. m - 1 \in 0 .. Len(list) /\ m \in 1 .. Len(list)
  BY <1>3
<1>5. PICK k : k = f[m - 1]
  OBVIOUS
<1>6. k \in Seq(S)
  BY <1>4, <1>5, KeptOthers DEF KeptInv, f
<1>7. PICK e : KeptFrom(e, k, m - 1, list, g)
  BY <1>1, <1>4, <1>5
<1>8. CASE list[m].group = g
  <2>1. KeptFrom(e, k, m, list, g)
    BY <1>4, <1>7, <1>8 DEF KeptFrom
  <2>2. f[m] = k
    BY <1>2, <1>3, <1>4, <1>5, <1>8
  <2> QED
    BY <2>1, <2>2
<1>9. CASE list[m].group # g
  <2> DEFINE new == Append(k, list[m])
             last == Len(k) + 1
             d == [x \in DOMAIN new |-> IF x = last THEN m ELSE e[x]]
  <2>1. f[m] = new
    BY <1>2, <1>3, <1>4, <1>5, <1>9
  <2>2. /\ DOMAIN new = DOMAIN k \cup {last} /\ last \notin DOMAIN k
        /\ \A x \in DOMAIN k : new[x] = k[x]
        /\ new[last] = list[m]
    BY <1>4, <1>6
  <2> HIDE DEF new, last
  <2>3. d[last] = m /\ \A x \in DOMAIN k : d[x] = e[x] /\ e[x] \in 1 .. m - 1
    BY <1>7, <2>2 DEF KeptFrom
  <2>4. d \in [DOMAIN new -> 1 .. m]
    BY <1>4, <2>2, <2>3
  <2> HIDE DEF d
  <2>5. \A x, y \in DOMAIN new : d[x] = d[y] => x = y
    BY <1>4, <1>7, <2>2, <2>3 DEF KeptFrom
  <2>6. \A x \in DOMAIN new : new[x] = list[d[x]] /\ list[d[x]].group # g
    BY <1>7, <1>9, <2>2, <2>3 DEF KeptFrom
  <2>7. \A j \in 1 .. m : list[j].group # g => \E x \in DOMAIN new : d[x] = j
    BY <1>4, <1>7, <2>2, <2>3 DEF KeptFrom
  <2> QED
    BY <2>1, <2>4, <2>5, <2>6, <2>7 DEF KeptFrom
<1> QED
  BY <1>8, <1>9

(* Who rejoins is its group's only consumer then, and the others' consumers are
   as they were. *)
LEMMA RejoinPlaces ==
  ASSUME NEW S, NEW list \in Seq(S), NEW c \in S
  PROVE  /\ OnlyOf(Rejoin(list, c), c.group, c.id)
         /\ \A h : h # c.group =>
              /\ Places(list, h) = {} => Places(Rejoin(list, c), h) = {}
              /\ \A k : OnlyOf(list, h, k) => OnlyOf(Rejoin(list, c), h, k)
<1>1. PICK k : k = Kept(list, c.group)[Len(list)]
  OBVIOUS
<1>2. Rejoin(list, c) = Append(k, c)
  BY <1>1, Zenon DEF Rejoin, Kept
<1>3. k \in Seq(S)
  BY <1>1, KeptOthers DEF KeptInv
<1>4. PICK e : KeptFrom(e, k, Len(list), list, c.group)
  BY <1>1, KeptPlaces
<1>5. PICK new : new = Append(k, c)
  OBVIOUS
<1>6. PICK last : last = Len(k) + 1
  OBVIOUS
<1>7. /\ DOMAIN new = DOMAIN k \cup {last} /\ last \notin DOMAIN k
      /\ \A x \in DOMAIN k : new[x] = k[x]
      /\ new[last] = c
  BY <1>3, <1>5, <1>6
<1>8. DOMAIN list = 1 .. Len(list)
  OBVIOUS
<1>9. OnlyOf(new, c.group, c.id)
  <2>1. Places(new, c.group) = {last}
    BY <1>4, <1>7 DEF Places, KeptFrom
  <2> QED
    BY <1>7, <2>1 DEF OnlyOf
<1>10. ASSUME NEW h, h # c.group
       PROVE  /\ Places(new, h) \subseteq DOMAIN k
              /\ \A x \in DOMAIN k : x \in Places(new, h) <=> e[x] \in Places(list, h)
  BY <1>4, <1>7, <1>8, <1>10 DEF Places, KeptFrom
<1>11. ASSUME NEW h, h # c.group, Places(list, h) = {}
       PROVE  Places(new, h) = {}
  BY <1>10, <1>11
<1>12. ASSUME NEW h, h # c.group, NEW d, OnlyOf(list, h, d)
       PROVE  OnlyOf(new, h, d)
  <2>1. PICK i \in DOMAIN list : Places(list, h) = {i} /\ list[i].id = d
    BY <1>12 DEF OnlyOf
  <2>2. list[i].group # c.group
    BY <1>12, <2>1 DEF Places
  <2>3. PICK x \in DOMAIN k : e[x] = i
    BY <1>4, <1>8, <2>2 DEF KeptFrom
  <2>4. Places(new, h) = {x}
    BY <1>4, <1>10, <1>12, <2>1, <2>3 DEF KeptFrom
  <2>5. x \in DOMAIN new /\ new[x].id = d
    BY <1>4, <1>7, <2>1, <2>3 DEF KeptFrom
  <2> QED
    BY <2>4, <2>5 DEF OnlyOf
<1> QED
  BY <1>2, <1>5, <1>9, <1>11, <1>12

(* A topic's partition objects are different, and different from another's. *)
LEMMA ObjectsDiffer ==
  ASSUME ObjectsOf, NEW t \in Topic, NEW u \in Topic,
         NEW p \in DOMAIN topicMap[t], NEW q \in DOMAIN topicMap[u], topicMap[t][p] = topicMap[u][q]
  PROVE  t = u /\ p = q
BY DEF ObjectsOf

(* So each of them comes once in an order. *)
LEMMA OrderFacts ==
  ASSUME TypeInv, ObjectsOf, NEW t \in Topic, NEW order \in Orders(topicMap[t])
  PROVE  /\ Len(topicMap[t]) \in Nat
         /\ order \in [1 .. Len(topicMap[t]) -> ToSet(topicMap[t])]
         /\ ToSet(topicMap[t]) \subseteq DOMAIN partitions
         /\ DOMAIN topicMap[t] = 1 .. Len(topicMap[t])
         /\ \A x, y \in 1 .. Len(topicMap[t]) : order[x] = order[y] => x = y
         /\ \A p \in DOMAIN topicMap[t] : \E x \in 1 .. Len(topicMap[t]) : order[x] = topicMap[t][p]
<1> DEFINE parts == topicMap[t]
           D == 1 .. Len(parts)
<1>1. parts \in Seq(DOMAIN partitions)
  BY DEF TypeInv, TopicTypes
<1>2. Len(parts) \in Nat /\ DOMAIN parts = D /\ ToSet(parts) \subseteq DOMAIN partitions
  BY <1>1 DEF ToSet
<1>3. order \in [D -> ToSet(parts)] /\ ToSet(order) = ToSet(parts)
  BY DEF Orders
<1>4. order \in Surjection(D, ToSet(parts))
  BY <1>3 DEF Surjection, ToSet
<1>5. parts \in Bijection(D, ToSet(parts))
  <2>1. parts \in [D -> ToSet(parts)]
    <3>1. parts = [x \in D |-> parts[x]]
      BY <1>1, <1>2
    <3>2. \A x \in D : parts[x] \in ToSet(parts)
      BY <1>2 DEF ToSet
    <3> HIDE DEF parts, D
    <3> QED
      BY <3>1, <3>2
  <2>2. \A x, y \in D : parts[x] = parts[y] => x = y
    BY <1>2, ObjectsDiffer
  <2>3. \A s \in ToSet(parts) : \E x \in D : parts[x] = s
    BY <1>2 DEF ToSet
  <2> HIDE DEF parts, D
  <2> QED
    BY <2>1, <2>2, <2>3 DEF Bijection, Injection, Surjection, IsInjective
<1>6. IsFiniteSet(D) /\ Cardinality(D) = Cardinality(ToSet(parts))
  <2>1. IsFiniteSet(D)
    BY <1>2, FS_Interval
  <2>2. ExistsBijection(D, ToSet(parts))
    BY <1>5 DEF ExistsBijection
  <2> QED
    BY <2>1, <2>2, FS_Bijection
<1>7. order \in Injection(D, ToSet(parts))
  <2> HIDE DEF parts, D
  <2> QED
    BY <1>4, <1>6, FS_SurjSameCardinalityImpliesInj
<1>8. \A x, y \in D : order[x] = order[y] => x = y
  BY <1>7 DEF Injection, IsInjective
<1>9. ASSUME NEW p \in DOMAIN parts PROVE \E x \in D : order[x] = parts[p]
  <2>1. parts[p] \in ToSet(order)
    BY <1>3 DEF ToSet
  <2> QED
    BY <1>3, <2>1 DEF ToSet
<1> QED
  BY <1>2, <1>3, <1>8, <1>9

LEMMA MembersDifferStep ==
  ASSUME TypeInv, MembersDiffer, [Next]_vars
  PROVE  MembersDiffer'
<1>1. RegTypes
  BY DEF TypeInv
<1>2. CASE UNCHANGED members
  BY <1>2 DEF MembersDiffer
<1>3. ASSUME NEW g \in Group, members' = [members EXCEPT ![g] = Append(@, Len(registered) + 1)]
      PROVE  MembersDiffer'
  <2>1. /\ members \in [Group -> Seq(DOMAIN registered)]
        /\ Len(registered) \in Nat /\ DOMAIN registered = 1 .. Len(registered)
    BY <1>1 DEF RegTypes
  <2>2. PICK new : new = Len(registered) + 1
    OBVIOUS
  <2>3. members'[g] = Append(members[g], new) /\ \A h \in Group : h # g => members'[h] = members[h]
    BY <1>3, <2>1, <2>2
  <2>4. new \notin DOMAIN registered /\ members[g] \in Seq(DOMAIN registered)
    BY <2>1, <2>2
  <2>5. PICK longer : longer = Append(members[g], new)
    OBVIOUS
  <2>6. /\ DOMAIN longer = DOMAIN members[g] \cup {Len(members[g]) + 1}
        /\ \A i \in DOMAIN members[g] : longer[i] = members[g][i] /\ members[g][i] # new
        /\ longer[Len(members[g]) + 1] = new
    BY <2>4, <2>5
  <2>7. \A i, j \in DOMAIN longer : longer[i] = longer[j] => i = j
    BY <2>6 DEF MembersDiffer
  <2> QED
    BY <2>3, <2>5, <2>7 DEF MembersDiffer
<1>4. CASE Register
  <2>1. requests[Head(regQueue)].op.group \in Group
    <3>1. Head(regQueue) \in DOMAIN requests /\ requests[Head(regQueue)].op.op = "subscribe"
      <4>1. regQueue \in Seq(DOMAIN requests) /\ regQueue # <<>>
        BY <1>1, <1>4 DEF RegTypes, Register
      <4>2. 1 \in DOMAIN regQueue /\ Head(regQueue) = regQueue[1]
        BY <4>1
      <4> QED
        BY <1>1, <4>1, <4>2 DEF RegTypes
    <3> QED
      BY <3>1, RequestFields, OperationTypes DEF TypeInv
  <2>2. \/ UNCHANGED members
        \/ members' = [members EXCEPT ![requests[Head(regQueue)].op.group] =
                         Append(@, Len(registered) + 1)]
    BY <1>4 DEF Register
  <2> QED
    BY <1>2, <1>3, <2>1, <2>2
<1>5. AssignPartition \/ AckSubscription \/ (\E w \in Worker : ForwardToRegistration(w))
        => UNCHANGED members
  BY DEF AssignPartition, AckSubscription, ForwardToRegistration
<1> QED
  BY <1>2, <1>4, <1>5, RegFrame DEF RegistrationStep, regVars

(* What touches lists, members and ConsumerReg while nobody assigns. *)
LEMMA SharesKinds ==
  ASSUME TypeInv, NoneAssigns', [Next]_vars
  PROVE  /\ NoneAssigns
         /\ \/ \E w \in Worker : HandleTopicInsert(w) /\ UNCHANGED <<members, dealt, reg>>
            \/ UNCHANGED <<topicMap, partitions>> /\ (Register \/ AckSubscription)
            \/ AssignPartition
            \/ UNCHANGED <<topicMap, partitions, members, dealt, reg>>
<1>1. NoneAssigns
  <2>1. RequestsGrow
    BY RequestsStep DEF TypeInv
  <2> QED
    BY <2>1 DEF NoneAssigns, RequestsGrow
<1>2. ASSUME NEW w \in Worker, ClearConsumers(w) \/ PushConsumer(w) PROVE FALSE
  BY <1>1, <1>2 DEF TypeInv, WorkerTypes, WorkerSound, ClearConsumers, PushConsumer, NoneAssigns
<1>3. ASSUME NEW w \in Worker, HandleTopicInsert(w) PROVE UNCHANGED <<members, dealt, reg>>
  BY <1>3 DEF HandleTopicInsert, regVars
<1>4. Write \/ UNCHANGED topicVars => UNCHANGED <<topicMap, partitions>>
  BY DEF Write, topicVars
<1>5. ASSUME NEW w \in Worker, ForwardToRegistration(w) PROVE UNCHANGED <<members, dealt, reg>>
  BY <1>5 DEF ForwardToRegistration
<1>6. UNCHANGED regVars => UNCHANGED <<members, dealt, reg>>
  BY DEF regVars
<1>7. Write => UNCHANGED regVars
  BY DEF Write
<1>8. \/ \E w \in Worker : HandleTopicInsert(w)
      \/ AssignPartition
      \/ UNCHANGED <<topicMap, partitions>>
  BY <1>2, <1>4, TopicFrame
<1>9. \/ UNCHANGED <<members, dealt, reg>>
      \/ RegistrationStep
  BY <1>5, <1>6, RegFrame
<1> QED
  BY <1>1, <1>3, <1>8, <1>9 DEF RegistrationStep

(* The consumers that g has in a list stay. *)
StaysFor(part, g) ==
  /\ Places(ListOf(part), g) = {} => Places(ListOf(part), g)' = {}
  /\ \A k : OnlyOf(ListOf(part), g, k) => OnlyOf(ListOf(part)', g, k)

LEMMA SharesFrame ==
  ASSUME TypeInv, ObjectsOf, NEW t \in Topic, NEW g \in Group,
         topicMap'[t] = topicMap[t], dealt'[t][g] = dealt[t][g],
         \A part \in ToSet(topicMap[t]) : StaysFor(part, g),
         Len(members[g]) <= Len(members'[g]), Len(members'[g]) \in Nat,
         \A i \in DOMAIN members[g] : members'[g][i] = members[g][i]
  PROVE  /\ NothingOf(t, g) => NothingOf(t, g)'
         /\ AllDealt(t, g) => AllDealt(t, g)'
         /\ PartlyDealt(t, g) /\ reg' = reg /\ members'[g] = members[g] => PartlyDealt(t, g)'
<1>1. topicMap[t] \in Seq(DOMAIN partitions) /\ members[g] \in Seq(DOMAIN registered)
  BY DEF TypeInv, TopicTypes, RegTypes
<1>2. Orders(topicMap[t])' = Orders(topicMap[t])
  BY DEF Orders
<1>3. ASSUME NothingOf(t, g) PROVE NothingOf(t, g)'
  <2>1. \A p \in DOMAIN topicMap[t] : topicMap[t][p] \in ToSet(topicMap[t])
    BY DEF ToSet
  <2> QED
    BY <1>3, <2>1 DEF NothingOf, ListAt, ListOf, StaysFor
<1>4. ASSUME NEW order \in Orders(topicMap[t]), NEW n \in 0 .. Len(topicMap[t]),
             NEW m \in 1 .. Len(members[g]), DealtRound(order, n, g, m)
      PROVE  DealtRound(order, n, g, m)'
  <2> SUFFICES ASSUME NEW x \in 1 .. n
               PROVE  OnlyOf(ListOf(order[x])', g, members'[g][((x - 1) % m) + 1])
    BY DEF DealtRound, OnlyOf, ListOf, Places
  <2>1. Len(members[g]) \in Nat /\ DOMAIN members[g] = 1 .. Len(members[g])
    BY <1>1
  <2>2. ((x - 1) % m) + 1 \in DOMAIN members[g]
    BY <2>1
  <2>3. order[x] \in ToSet(topicMap[t])
    <3>1. order \in [1 .. Len(topicMap[t]) -> ToSet(topicMap[t])] /\ Len(topicMap[t]) \in Nat
      BY OrderFacts
    <3>2. x \in 1 .. Len(topicMap[t])
      BY <3>1
    <3> QED
      BY <3>1, <3>2
  <2>4. OnlyOf(ListOf(order[x]), g, members[g][((x - 1) % m) + 1])
    BY <1>4 DEF DealtRound
  <2> QED
    BY <2>2, <2>3, <2>4 DEF StaysFor
<1>5. ASSUME AllDealt(t, g) PROVE AllDealt(t, g)'
  <2>1. PICK order \in Orders(topicMap[t]), m \in 1 .. Len(members[g]) :
          m = dealt[t][g] /\ DealtRound(order, Len(topicMap[t]), g, m)
    BY <1>5 DEF AllDealt
  <2>2. Len(topicMap[t]) \in 0 .. Len(topicMap[t]) /\ Len(members[g]) \in Nat
    BY <1>1
  <2>3. DealtRound(order, Len(topicMap[t]), g, m)'
    BY <1>4, <2>1, <2>2
  <2>4. m \in 1 .. Len(members'[g]) /\ m = dealt'[t][g]
    BY <2>1, <2>2
  <2>5. order \in Orders(topicMap'[t])
    BY <1>2
  <2>6. DealtRound(order, Len(topicMap[t]), g, dealt[t][g])'
    BY <2>3, <2>4 DEF DealtRound, OnlyOf, ListOf, Places
  <2> QED
    BY <2>4, <2>5, <2>6 DEF AllDealt
<1>6. ASSUME PartlyDealt(t, g), reg' = reg, members'[g] = members[g] PROVE PartlyDealt(t, g)'
  <2>1. PICK order \in Orders(topicMap[t]) :
          /\ members[g] # <<>> /\ dealt[t][g] = Len(members[g])
          /\ reg.next \in 0 .. Len(topicMap[t])
          /\ Len(reg.left) = Len(topicMap[t]) - reg.next
          /\ \A x \in 1 .. Len(reg.left) : reg.left[x] = order[reg.next + x]
          /\ DealtRound(order, reg.next, g, Len(members[g]))
    BY <1>6 DEF PartlyDealt
  <2>2. PICK n, m : n = reg.next /\ m = Len(members[g])
    OBVIOUS
  <2>3. m \in 1 .. Len(members[g])
    BY <1>1, <2>1, <2>2
  <2>4. DealtRound(order, n, g, m)'
    BY <1>4, <2>1, <2>2, <2>3
  <2>5. order \in Orders(topicMap'[t])
    BY <1>2
  <2>6. n = reg'.next /\ m = Len(members'[g])
    BY <1>6, <2>2
  <2>7. DealtRound(order, reg.next, g, Len(members[g]))'
    BY <2>4, <2>6
  <2> QED
    BY <1>6, <2>1, <2>5, <2>7 DEF PartlyDealt
<1> QED
  BY <1>3, <1>5, <1>6

LEMMA MembersAre ==
  ASSUME TypeInv, NEW g \in Group
  PROVE  /\ Len(members[g]) \in Nat /\ DOMAIN members[g] = 1 .. Len(members[g])
         /\ members[g] \in Seq(DOMAIN registered)
BY DEF TypeInv, RegTypes

(* A list that is left alone. *)
LEMMA StaysWhenKept ==
  ASSUME NEW part, NEW g, ListOf(part)' = ListOf(part)
  PROVE  StaysFor(part, g)
BY DEF StaysFor, Places, OnlyOf

LEMMA SharedWhileInserting ==
  ASSUME TypeInv, ObjectsOf, NEW t \in Topic, NEW g \in Group, Shared(t, g),
         NEW w \in Worker, HandleTopicInsert(w), UNCHANGED <<members, dealt, reg>>
  PROVE  Shared(t, g)'
<1>1. DealingOut(t, g)' <=> DealingOut(t, g)
  BY DEF DealingOut
<1>2. CASE topicMap'[t] = topicMap[t]
  <2>1. topicMap[t] \in Seq(DOMAIN partitions)
    BY DEF TypeInv, TopicTypes
  <2>2. ToSet(topicMap[t]) \subseteq DOMAIN partitions
    BY <2>1 DEF ToSet
  <2>3. \A part \in ToSet(topicMap[t]) : ListOf(part)' = ListOf(part)
    BY <2>2, InsertedPartitions DEF ListOf
  <2>4. \A part \in ToSet(topicMap[t]) : StaysFor(part, g)
    BY <2>3, StaysWhenKept
  <2>5. /\ NothingOf(t, g) => NothingOf(t, g)'
        /\ AllDealt(t, g) => AllDealt(t, g)'
        /\ PartlyDealt(t, g) => PartlyDealt(t, g)'
    BY <1>2, <2>4, MembersAre, SharesFrame
  <2> QED
    BY <1>1, <2>5 DEF Shared
<1>3. CASE topicMap'[t] # topicMap[t]
  <2>1. PICK u \in Topic :
          /\ ~(reg.phase = "rebalancing" /\ reg.topic = u)
          /\ \A v \in Topic : v # u => topicMap'[v] = topicMap[v]
          /\ \A p \in DOMAIN topicMap'[u] : partitions'[topicMap'[u][p]].consumers = <<>>
    BY <1>3, InsertedObjects
  <2>2. u = t
    BY <1>3, <2>1
  <2>3. ~DealingOut(t, g)
    BY <2>1, <2>2 DEF DealingOut
  <2>4. Places(<<>>, g) = {}
    BY DEF Places
  <2>5. NothingOf(t, g)'
    BY <2>1, <2>2, <2>4 DEF NothingOf, ListAt, Places
  <2> QED
    BY <1>1, <2>3, <2>5 DEF Shared
<1> QED
  BY <1>2, <1>3

(* One more consumer: its topic is going to be dealt out again; for others its
   group only grows. *)
LEMMA SharedWhenRegistering ==
  ASSUME TypeInv, ObjectsOf, NEW t \in Topic, NEW g \in Group, Shared(t, g),
         Register, UNCHANGED <<topicMap, partitions>>
  PROVE  Shared(t, g)'
<1>1. ~DealingOut(t, g)
  BY DEF DealingOut, Register
<1>2. \A part : StaysFor(part, g)
  BY StaysWhenKept DEF ListOf
<1>3. /\ Len(members[g]) <= Len(members'[g]) /\ Len(members'[g]) \in Nat
      /\ \A i \in DOMAIN members[g] : members'[g][i] = members[g][i]
      /\ DealingOut(t, g)' => members'[g] # <<>>
      /\ dealt'[t][g] = IF DealingOut(t, g)' THEN Len(members'[g]) ELSE dealt[t][g]
  <2> DEFINE h == requests[Head(regQueue)].op.group
             u == requests[Head(regQueue)].op.topic
             new == Len(registered) + 1
  <2>1. CASE UNCHANGED <<members, dealt>> /\ reg' = [phase |-> "dead"]
    BY <2>1, MembersAre DEF DealingOut
  <2>2. CASE /\ members' = [members EXCEPT ![h] = Append(@, new)]
             /\ dealt' = [dealt EXCEPT ![u][h] = Len(members'[h])]
             /\ reg'.phase = "rebalancing" /\ reg'.group = h /\ reg'.topic = u
    <3>1. members \in [Group -> Seq(DOMAIN registered)]
      BY DEF TypeInv, RegTypes
    <3> HIDE DEF h, u, new
    <3>5. DealingOut(t, g)' <=> t = u /\ g = h
      BY <2>2 DEF DealingOut
    <3>6. dealt'[t][g] = IF DealingOut(t, g)' THEN Len(members'[g]) ELSE dealt[t][g]
      <4>1. dealt \in [Topic -> [Group -> Nat]]
        BY DEF TypeInv, RegTypes
      <4>2. PICK n : n = Len(members'[h])
        OBVIOUS
      <4>3. dealt'[t][g] = IF t = u /\ g = h THEN n ELSE dealt[t][g]
        BY <2>2, <4>1, <4>2
      <4> QED
        BY <3>5, <4>2, <4>3
    <3>2. members'[g] = IF g = h THEN Append(members[g], new) ELSE members[g]
      BY <2>2, <3>1
    <3>3. CASE g = h
      <4>1. PICK s, longer : s = members[g] /\ longer = Append(s, new)
        OBVIOUS
      <4>2. s \in Seq(DOMAIN registered)
        BY <3>1, <4>1
      <4>3. /\ Len(s) \in Nat /\ DOMAIN s = 1 .. Len(s)
            /\ Len(longer) = Len(s) + 1 /\ longer # <<>>
            /\ \A i \in DOMAIN s : longer[i] = s[i]
        BY <4>1, <4>2
      <4> QED
        BY <3>2, <3>3, <3>6, <4>1, <4>3
    <3>4. CASE g # h
      BY <3>2, <3>4, <3>5, <3>6, MembersAre
    <3> QED
      BY <3>3, <3>4
  <2> QED
    BY <2>1, <2>2 DEF Register
<1>4. CASE DealingOut(t, g)'
  <2>1. PICK order \in Orders(topicMap[t]) : reg'.left = order /\ reg'.next = 0
    BY <1>4 DEF Register, DealingOut
  <2>2. Len(topicMap[t]) \in Nat /\ order \in [1 .. Len(topicMap[t]) -> ToSet(topicMap[t])]
    BY OrderFacts
  <2>3. Len(order) = Len(topicMap[t])
    <3>1. order \in Seq(ToSet(topicMap[t])) /\ DOMAIN order = 1 .. Len(topicMap[t])
      BY <2>2
    <3> QED
      BY <2>2, <3>1
  <2>4. order \in Orders(topicMap'[t])
    BY DEF Orders
  <2>5. DealtRound(order, reg.next, g, Len(members[g]))'
    BY <2>1 DEF DealtRound
  <2>6. PartlyDealt(t, g)'
    BY <1>3, <1>4, <2>1, <2>2, <2>3, <2>4, <2>5 DEF PartlyDealt
  <2> QED
    BY <1>4, <2>6 DEF Shared
<1>5. CASE ~DealingOut(t, g)'
  <2>1. /\ NothingOf(t, g) => NothingOf(t, g)'
        /\ AllDealt(t, g) => AllDealt(t, g)'
    BY <1>2, <1>3, <1>5, SharesFrame
  <2> QED
    BY <1>1, <1>5, <2>1 DEF Shared
<1> QED
  BY <1>4, <1>5

(* All partitions are dealt out when the subscription is acknowledged. *)
LEMMA SharedWhenAcked ==
  ASSUME TypeInv, ObjectsOf, NEW t \in Topic, NEW g \in Group, Shared(t, g),
         AckSubscription, UNCHANGED <<topicMap, partitions>>
  PROVE  Shared(t, g)'
<1>1. UNCHANGED <<members, dealt>> /\ ~DealingOut(t, g)'
  BY DEF AckSubscription, DealingOut, NotRegistering
<1>2. \A part : StaysFor(part, g)
  BY StaysWhenKept DEF ListOf
<1>3. /\ NothingOf(t, g) => NothingOf(t, g)'
      /\ AllDealt(t, g) => AllDealt(t, g)'
  BY <1>1, <1>2, MembersAre, SharesFrame
<1>4. ASSUME DealingOut(t, g) PROVE AllDealt(t, g)
  <2>1. PICK order \in Orders(topicMap[t]) :
          /\ members[g] # <<>> /\ dealt[t][g] = Len(members[g])
          /\ reg.next \in 0 .. Len(topicMap[t])
          /\ Len(reg.left) = Len(topicMap[t]) - reg.next
          /\ DealtRound(order, reg.next, g, Len(members[g]))
    BY <1>4 DEF Shared, PartlyDealt
  <2>2. Len(reg.left) = 0 /\ Len(topicMap[t]) \in Nat
    BY <2>1, OrderFacts DEF AckSubscription
  <2>3. reg.next = Len(topicMap[t])
    BY <2>1, <2>2
  <2>4. Len(members[g]) \in 1 .. Len(members[g])
    BY <2>1, MembersAre
  <2> QED
    BY <2>1, <2>3, <2>4 DEF AllDealt
<1> QED
  BY <1>1, <1>3, <1>4 DEF Shared

(* ConsumerReg gives a partition of t to the next consumer of g. *)
DealsOut(t, g, order, part, c) ==
  /\ members[g] # <<>>
  /\ reg.next \in Nat /\ reg.next < Len(topicMap[t])
  /\ DealtRound(order, reg.next, g, Len(members[g]))
  /\ part = order[reg.next + 1] /\ part \in ToSet(topicMap[t])
  /\ c.group = g
  /\ c.id = members[g][(reg.next % Len(members[g])) + 1]
  /\ \A other \in DOMAIN partitions :
       ListOf(other)' = IF other = part THEN Rejoin(ListOf(part), c) ELSE ListOf(other)
  /\ reg'.phase = "rebalancing" /\ reg'.topic = t /\ reg'.group = g
  /\ reg'.next = reg.next + 1
  /\ Len(reg'.left) = Len(topicMap[t]) - reg'.next
  /\ \A x \in 1 .. Len(reg'.left) : reg'.left[x] = order[reg'.next + x]

LEMMA NextPartition ==
  ASSUME TypeInv, ObjectsOf, AssignPartition,
         \A t \in Topic, g \in Group : Shared(t, g)
  PROVE  \E t \in Topic, g \in Group : \E order \in Orders(topicMap[t]) :
           \E part \in DOMAIN partitions, c \in ListedConsumer :
             DealingOut(t, g) /\ DealsOut(t, g, order, part, c)
<1>1. reg \in Rebalancing /\ reg.left # <<>> /\ reg.phase = "rebalancing"
  BY DEF TypeInv, AssignPartition, RegTypes, NotRegistering
<1>2. PICK t, g : t = reg.topic /\ g = reg.group
  OBVIOUS
<1>3. t \in Topic /\ g \in Group /\ reg.left \in Seq(DOMAIN partitions)
  BY <1>1, <1>2 DEF Rebalancing
<1>4. PICK order \in Orders(topicMap[t]) :
        /\ members[g] # <<>>
        /\ reg.next \in 0 .. Len(topicMap[t])
        /\ Len(reg.left) = Len(topicMap[t]) - reg.next
        /\ \A x \in 1 .. Len(reg.left) : reg.left[x] = order[reg.next + x]
        /\ DealtRound(order, reg.next, g, Len(members[g]))
  BY <1>1, <1>2, <1>3 DEF Shared, PartlyDealt, DealingOut
<1>5. PICK left, part, n, k : /\ left = reg.left /\ part = Head(left) /\ n = reg.next
                              /\ k = members[g][(n % Len(members[g])) + 1]
  OBVIOUS
<1>6. /\ order \in [1 .. Len(topicMap[t]) -> ToSet(topicMap[t])]
      /\ Len(topicMap[t]) \in Nat
      /\ ToSet(topicMap[t]) \subseteq DOMAIN partitions
  BY <1>3, OrderFacts
<1>7. /\ Len(left) \in Nat \ {0} /\ part = left[1]
      /\ n \in Nat /\ n < Len(topicMap[t])
      /\ Len(Tail(left)) = Len(left) - 1
      /\ \A x \in 1 .. Len(left) - 1 : Tail(left)[x] = left[x + 1]
  BY <1>1, <1>3, <1>4, <1>5, <1>6
<1>8. part = order[n + 1] /\ part \in ToSet(topicMap[t]) /\ part \in DOMAIN partitions
  <2>1. part = order[n + 1]
    BY <1>4, <1>5, <1>7
  <2>2. n + 1 \in 1 .. Len(topicMap[t])
    BY <1>6, <1>7
  <2> QED
    BY <1>6, <2>1, <2>2
<1>9. PICK c : c = [id |-> k, addr |-> registered[k].addr, group |-> g]
  OBVIOUS
<1>10. c \in ListedConsumer
  <2>1. Len(members[g]) \in Nat \ {0} /\ DOMAIN members[g] = 1 .. Len(members[g])
        /\ members[g] \in Seq(DOMAIN registered)
    BY <1>3, <1>4, MembersAre
  <2>2. (n % Len(members[g])) + 1 \in DOMAIN members[g]
    <3>1. PICK m \in Nat \ {0} : m = Len(members[g])
      BY <2>1
    <3>2. n \in Nat
      BY <1>7
    <3>3. (n % m) + 1 \in 1 .. m
      <4>1. n % m \in 0 .. m - 1
        BY <3>2
      <4> QED
        BY <4>1
    <3> QED
      BY <2>1, <3>1, <3>3
  <2>3. k \in DOMAIN registered
    BY <1>5, <2>1, <2>2
  <2> DEFINE C == [addr : Client, group : Group]
  <2>4. registered[k] \in C /\ k \in Nat
    <3> HIDE DEF C
    <3>1. registered \in Seq(C)
      BY DEF TypeInv, RegTypes, C
    <3> QED
      BY <3>1, <2>3
  <2>5. registered[k].addr \in Client
    BY <2>4
  <2> QED
    BY <1>3, <1>9, <2>4, <2>5 DEF ListedConsumer
<1>11. /\ partitions' = [partitions EXCEPT ![part].consumers = Rejoin(ListOf(part), c)]
       /\ reg' = [reg EXCEPT !.left = Tail(left), !.next = n + 1]
  BY <1>2, <1>5, <1>9 DEF AssignPartition, ListOf
<1>12. ASSUME NEW other \in DOMAIN partitions
       PROVE  ListOf(other)' = IF other = part THEN Rejoin(ListOf(part), c) ELSE ListOf(other)
  BY <1>8, <1>11, ListIs DEF TypeInv
<1>13. /\ reg'.phase = "rebalancing" /\ reg'.topic = t /\ reg'.group = g
       /\ reg'.next = n + 1 /\ reg'.left = Tail(left)
  BY <1>1, <1>2, <1>11 DEF Rebalancing
<1>14. /\ Len(reg'.left) = Len(left) - 1
       /\ Len(reg'.left) = Len(topicMap[t]) - reg'.next
       /\ \A x \in 1 .. Len(reg'.left) : reg'.left[x] = order[reg'.next + x]
  <2>1. Len(left) = Len(topicMap[t]) - n
    BY <1>4, <1>5
  <2>2. ASSUME NEW x \in 1 .. Len(left) - 1
        PROVE  Tail(left)[x] = order[(n + 1) + x]
    <3>1. x + 1 \in 1 .. Len(left) /\ n + (x + 1) = (n + 1) + x
      BY <1>7
    <3>2. left[x + 1] = order[n + (x + 1)]
      BY <1>4, <1>5, <3>1
    <3> QED
      BY <1>7, <3>1, <3>2
  <2> QED
    BY <1>6, <1>7, <1>13, <2>1, <2>2
<1>15. DealsOut(t, g, order, part, c)
  <2>1. c.group = g /\ c.id = k
    BY <1>9
  <2> QED
    BY <2>1, <1>4, <1>5, <1>7, <1>8, <1>12, <1>13, <1>14 DEF DealsOut
<1>16. DealingOut(t, g)
  BY <1>1, <1>2 DEF DealingOut
<1> QED
  BY <1>3, <1>8, <1>10, <1>15, <1>16

LEMMA SharedWhileDealing ==
  ASSUME TypeInv, ObjectsOf, \A t \in Topic, g \in Group : Shared(t, g), AssignPartition,
         NEW u \in Topic, NEW h \in Group
  PROVE  Shared(u, h)'
<1>1. PICK t \in Topic, g \in Group : \E order \in Orders(topicMap[t]) :
        \E part \in DOMAIN partitions, c \in ListedConsumer :
          DealingOut(t, g) /\ DealsOut(t, g, order, part, c)
  BY NextPartition
<1>2. PICK order \in Orders(topicMap[t]), part \in DOMAIN partitions, c \in ListedConsumer :
        DealingOut(t, g) /\ DealsOut(t, g, order, part, c)
  BY <1>1
<1>3. UNCHANGED <<topicMap, members, dealt>>
  BY DEF AssignPartition
<1>4. PICK S : S = ListedConsumer
  OBVIOUS
<1>5. ListOf(part) \in Seq(S) /\ c \in S
  BY <1>4, PartitionFields DEF TypeInv, ListOf
<1>6. \A other \in DOMAIN partitions :
        ListOf(other)' = IF other = part THEN Rejoin(ListOf(part), c) ELSE ListOf(other)
  BY <1>2 DEF DealsOut
<1>7. CASE ~(u = t /\ h = g)
  <2>1. ~DealingOut(u, h) /\ ~DealingOut(u, h)'
    BY <1>2, <1>7 DEF DealingOut, DealsOut
  <2>2. ASSUME NEW other \in ToSet(topicMap[u])
        PROVE  StaysFor(other, h)
    <3>1. topicMap[u] \in Seq(DOMAIN partitions)
      BY DEF TypeInv, TopicTypes
    <3>2. other \in DOMAIN partitions
      BY <2>2, <3>1 DEF ToSet
    <3>3. CASE other # part
      BY <1>6, <3>2, <3>3, StaysWhenKept
    <3>4. CASE other = part
      <4>1. part \in ToSet(topicMap[t])
        BY <1>2 DEF DealsOut
      <4>2. u = t
        BY <3>4, <4>1, ObjectsDiffer DEF ToSet
      <4>3. h # c.group
        BY <1>2, <1>7, <4>2 DEF DealsOut
      <4>4. ListOf(other)' = Rejoin(ListOf(part), c)
        BY <1>6, <3>4
      <4>5. /\ Places(ListOf(part), h) = {} => Places(Rejoin(ListOf(part), c), h) = {}
            /\ \A k : OnlyOf(ListOf(part), h, k) => OnlyOf(Rejoin(ListOf(part), c), h, k)
        BY <1>5, <4>3, RejoinPlaces
      <4>6. Places(ListOf(part), h)' = Places(ListOf(part)', h)
        BY DEF Places, ListOf
      <4> QED
        BY <3>4, <4>4, <4>5, <4>6 DEF StaysFor
    <3> QED
      BY <3>3, <3>4
  <2>3. /\ NothingOf(u, h) => NothingOf(u, h)'
        /\ AllDealt(u, h) => AllDealt(u, h)'
    BY <1>3, <2>2, MembersAre, SharesFrame
  <2> QED
    BY <2>1, <2>3 DEF Shared
<1>8. CASE u = t /\ h = g
  <2>1. PICK n, m : n = reg.next /\ m = Len(members[g])
    OBVIOUS
  <2>2. /\ n \in Nat /\ n < Len(topicMap[t]) /\ members[g] # <<>>
        /\ DealtRound(order, n, g, m)
        /\ part = order[n + 1] /\ c.group = g /\ c.id = members[g][(n % m) + 1]
        /\ reg'.next = n + 1
        /\ Len(reg'.left) = Len(topicMap[t]) - reg'.next
        /\ \A x \in 1 .. Len(reg'.left) : reg'.left[x] = order[reg'.next + x]
    BY <1>2, <2>1 DEF DealsOut
  <2>3. /\ Len(topicMap[t]) \in Nat
        /\ order \in [1 .. Len(topicMap[t]) -> ToSet(topicMap[t])]
        /\ ToSet(topicMap[t]) \subseteq DOMAIN partitions
        /\ \A x, y \in 1 .. Len(topicMap[t]) : order[x] = order[y] => x = y
    BY OrderFacts
  <2>4. ASSUME NEW x \in 1 .. n + 1
        PROVE  OnlyOf(ListOf(order[x])', g, members[g][((x - 1) % m) + 1])
    <3>1. x \in 1 .. Len(topicMap[t]) /\ n + 1 \in 1 .. Len(topicMap[t])
      BY <2>2, <2>3
    <3>2. PICK other \in DOMAIN partitions : other = order[x]
      BY <2>3, <3>1
    <3>3. CASE x = n + 1
      <4>1. ListOf(other)' = Rejoin(ListOf(part), c)
        BY <1>6, <2>2, <3>2, <3>3
      <4>2. OnlyOf(Rejoin(ListOf(part), c), g, c.id)
        BY <1>5, <2>2, RejoinPlaces
      <4>3. x - 1 = n
        BY <2>2, <3>3
      <4> QED
        BY <2>2, <3>2, <4>1, <4>2, <4>3
    <3>4. CASE x # n + 1
      <4>1. x \in 1 .. n
        BY <2>2, <3>4
      <4>2. other # part
        BY <2>2, <2>3, <3>1, <3>2, <3>4
      <4>3. ListOf(other)' = ListOf(other)
        BY <1>6, <4>2
      <4> QED
        BY <2>2, <3>2, <4>1, <4>3 DEF DealtRound
    <3> QED
      BY <3>3, <3>4
  <2>5. DealtRound(order, reg.next, g, Len(members[g]))'
    BY <1>3, <2>1, <2>2, <2>4 DEF DealtRound
  <2>6. order \in Orders(topicMap'[t])
    BY <1>3
  <2>7. PartlyDealt(t, g)'
    <3>1. topicMap' = topicMap /\ members' = members
      BY <1>3
    <3>2. reg'.next \in 0 .. Len(topicMap[t])
      BY <2>2, <2>3
    <3>4. dealt'[t][g] = Len(members'[g])
      BY <1>2, <1>3 DEF Shared, PartlyDealt
    <3>3. /\ members'[g] # <<>>
          /\ reg'.next \in 0 .. Len(topicMap'[t])
          /\ Len(reg'.left) = Len(topicMap'[t]) - reg'.next
          /\ \A x \in 1 .. Len(reg'.left) : reg'.left[x] = order[reg'.next + x]
      BY <2>2, <3>1, <3>2
    <3> QED
      BY <2>5, <2>6, <3>3, <3>4, Zenon DEF PartlyDealt
  <2>8. DealingOut(t, g)'
    BY <1>2 DEF DealsOut, DealingOut
  <2> QED
    BY <1>8, <2>7, <2>8 DEF Shared
<1> QED
  BY <1>7, <1>8

LEMMA SharesInvStep ==
  ASSUME TypeInv, ObjectsOf, SharesInv, [Next]_vars
  PROVE  SharesInv'
<1> SUFFICES ASSUME NoneAssigns', NEW t \in Topic, NEW g \in Group
             PROVE  Shared(t, g)'
  BY DEF SharesInv
<1>1. \A u \in Topic, h \in Group : Shared(u, h)
  BY SharesKinds DEF SharesInv
<1>2. CASE UNCHANGED <<topicMap, partitions, members, dealt, reg>>
  <2>1. DealingOut(t, g)' <=> DealingOut(t, g)
    BY <1>2 DEF DealingOut
  <2>2. \A part : StaysFor(part, g)
    BY <1>2, StaysWhenKept DEF ListOf
  <2>3. /\ NothingOf(t, g) => NothingOf(t, g)'
        /\ AllDealt(t, g) => AllDealt(t, g)'
        /\ PartlyDealt(t, g) => PartlyDealt(t, g)'
    BY <1>2, <2>2, MembersAre, SharesFrame
  <2> QED
    BY <1>1, <2>1, <2>3 DEF Shared
<1> QED
  BY <1>1, <1>2, SharesKinds, SharedWhileInserting, SharedWhenRegistering, SharedWhenAcked,
     SharedWhileDealing

(* The partitions of a consumer are the positions that were its turn. *)
LEMMA SharesAreRounds ==
  ASSUME TypeInv, ObjectsOf, MembersDiffer, NEW t \in Topic, NEW g \in Group,
         NEW order \in Orders(topicMap[t]), NEW m \in 1 .. Len(members[g]),
         DealtRound(order, Len(topicMap[t]), g, m), NEW y \in DOMAIN members[g]
  PROVE  ShareOf(t, g, members[g][y]) = IF y <= m THEN Cardinality(Round(Len(topicMap[t]), m, y)) ELSE 0
<1> DEFINE n == Len(topicMap[t])
           D == DOMAIN topicMap[t]
           k == members[g][y]
           parts == {p \in D : \E i \in Places(ListAt(t, p), g) : ListAt(t, p)[i].id = k}
           f == [x \in Round(n, m, y) |-> CHOOSE p \in D : topicMap[t][p] = order[x]]
<1>1. /\ n \in Nat /\ D = 1 .. n
      /\ order \in [1 .. n -> ToSet(topicMap[t])]
      /\ \A x, z \in 1 .. n : order[x] = order[z] => x = z
      /\ \A p \in D : \E x \in 1 .. n : order[x] = topicMap[t][p]
  BY OrderFacts
<1>2. Len(members[g]) \in Nat /\ DOMAIN members[g] = 1 .. Len(members[g])
  BY MembersAre
<1>3. \A x \in 1 .. n : \E p \in D : topicMap[t][p] = order[x]
  <2> SUFFICES ASSUME NEW x \in 1 .. n PROVE \E p \in D : topicMap[t][p] = order[x]
    OBVIOUS
  <2>1. order[x] \in ToSet(topicMap[t])
    <3>1. PICK S : S = ToSet(topicMap[t])
      OBVIOUS
    <3>2. PICK d : d = 1 .. n
      OBVIOUS
    <3>3. order \in [d -> S] /\ x \in d
      BY <1>1, <3>1, <3>2
    <3> HIDE DEF n
    <3>4. order[x] \in S
      BY <3>3
    <3> QED
      BY <3>1, <3>4
  <2> QED
    BY <2>1 DEF ToSet
<1>4. \A p, q \in D : topicMap[t][p] = topicMap[t][q] => p = q
  BY ObjectsDiffer
<1>5. ASSUME NEW p \in D, NEW x \in 1 .. n, topicMap[t][p] = order[x]
      PROVE  p \in parts <=> (x - 1) % m = y - 1
  <2>1. PICK turn : turn = ((x - 1) % m) + 1
    OBVIOUS
  <2>2. turn \in 1 .. m
    <3>1. (x - 1) % m \in 0 .. m - 1
      BY <1>1, <1>2
    <3> QED
      BY <1>2, <2>1, <3>1
  <2>3. turn \in DOMAIN members[g]
    BY <1>2, <2>2
  <2>4. OnlyOf(ListAt(t, p), g, members[g][turn])
    BY <1>5, <2>1 DEF DealtRound, ListAt, ListOf
  <2>5. p \in parts <=> members[g][turn] = k
    BY <2>4 DEF OnlyOf
  <2>6. members[g][turn] = k <=> turn = y
    BY <2>3 DEF MembersDiffer
  <2>7. turn = y <=> (x - 1) % m = y - 1
    BY <1>1, <1>2, <2>1, <2>2
  <2> QED
    BY <2>5, <2>6, <2>7
<1>6. ShareOf(t, g, k) = Cardinality(parts)
  BY DEF ShareOf
<1> HIDE DEF n, D, k, parts
<1>7. CASE y <= m
  <2>1. y \in 1 .. m /\ m \in Nat
    BY <1>2, <1>7
  <2>2. IsFiniteSet(Round(n, m, y))
    BY <1>1, <2>1, RoundsAreEven
  <2>3. \A x \in Round(n, m, y) : x \in 1 .. n /\ (x - 1) % m = y - 1
    BY DEF Round
  <2>4. ASSUME NEW x \in Round(n, m, y)
        PROVE  f[x] \in parts /\ topicMap[t][f[x]] = order[x]
    <3>1. f[x] \in D /\ topicMap[t][f[x]] = order[x]
      BY <1>3, <2>3
    <3> QED
      BY <1>5, <2>3, <3>1
  <2>5. \A x, z \in Round(n, m, y) : f[x] = f[z] => x = z
    <3> HIDE DEF f
    <3> SUFFICES ASSUME NEW x \in Round(n, m, y), NEW z \in Round(n, m, y), f[x] = f[z]
                 PROVE  x = z
      OBVIOUS
    <3>1. topicMap[t][f[x]] = order[x] /\ topicMap[t][f[z]] = order[z]
      BY <2>4
    <3>2. x \in 1 .. n /\ z \in 1 .. n
      BY <2>3
    <3>3. order[x] = order[z]
      BY <3>1
    <3>4. \A u, w \in 1 .. n : order[u] = order[w] => u = w
      BY <1>1
    <3> QED
      BY <3>2, <3>3, <3>4, Zenon
  <2>6. \A p \in parts : \E x \in Round(n, m, y) : f[x] = p
    <3> SUFFICES ASSUME NEW p \in parts PROVE \E x \in Round(n, m, y) : f[x] = p
      OBVIOUS
    <3>1. p \in D
      BY DEF parts
    <3>2. PICK x \in 1 .. n : order[x] = topicMap[t][p]
      BY <1>1, <3>1
    <3>3. x \in Round(n, m, y)
      BY <1>5, <3>1, <3>2 DEF Round
    <3>4. f[x] \in D
      BY <2>4, <3>3 DEF parts
    <3> QED
      BY <1>4, <2>4, <3>1, <3>2, <3>3, <3>4
  <2>7. f \in [Round(n, m, y) -> parts]
    BY <2>4
  <2> HIDE DEF f
  <2>8. ExistsBijection(Round(n, m, y), parts)
    BY <2>5, <2>6, <2>7 DEF ExistsBijection, Bijection, Injection, Surjection, IsInjective
  <2>9. Cardinality(parts) = Cardinality(Round(n, m, y))
    BY <2>2, <2>8, FS_Bijection
  <2> QED
    BY <1>6, <1>7, <2>9 DEF k, n
<1>8. CASE ~(y <= m)
  <2>1. ASSUME NEW p \in parts PROVE FALSE
    <3>1. p \in D
      BY DEF parts
    <3>2. PICK x \in 1 .. n : order[x] = topicMap[t][p]
      BY <1>1, <3>1
    <3>3. (x - 1) % m = y - 1
      BY <1>5, <3>1, <3>2
    <3>4. (x - 1) % m \in 0 .. m - 1
      BY <1>1, <1>2
    <3> QED
      BY <1>2, <1>8, <3>3, <3>4
  <2>2. parts = {}
    BY <2>1
  <2> QED
    BY <1>6, <1>8, <2>2, FS_EmptySet DEF k
<1> QED
  BY <1>7, <1>8

LEMMA DealtIsShared ==
  ASSUME TypeInv, ObjectsOf, MembersDiffer, NEW t \in Topic, NEW g \in Group, AllDealt(t, g)
  PROVE  /\ \A p \in DOMAIN topicMap[t] : Cardinality(Places(ListAt(t, p), g)) = 1
         /\ EvenlyDealt(t, g)
<1>1. PICK order \in Orders(topicMap[t]), m \in 1 .. Len(members[g]) :
        m = dealt[t][g] /\ DealtRound(order, Len(topicMap[t]), g, m)
  BY DEF AllDealt
<1>2. PICK n : n = Len(topicMap[t])
  OBVIOUS
<1>3. /\ n \in Nat
      /\ \A p \in DOMAIN topicMap[t] : \E x \in 1 .. n : order[x] = topicMap[t][p]
  BY <1>2, OrderFacts
<1>4. Len(members[g]) \in Nat /\ DOMAIN members[g] = 1 .. Len(members[g]) /\ m \in Nat
  BY MembersAre
<1>5. ASSUME NEW p \in DOMAIN topicMap[t]
      PROVE  Cardinality(Places(ListAt(t, p), g)) = 1
  <2>1. PICK x \in 1 .. n : order[x] = topicMap[t][p]
    BY <1>3
  <2>2. PICK i : Places(ListAt(t, p), g) = {i}
    BY <1>1, <1>2, <2>1 DEF DealtRound, OnlyOf, ListAt, ListOf
  <2> QED
    BY <2>2, FS_Singleton
<1>6. ASSUME NEW y \in DOMAIN members[g]
      PROVE  ShareAt(t, g, y) = IF y <= m THEN Cardinality(Round(n, m, y)) ELSE 0
  BY <1>1, <1>2, SharesAreRounds DEF ShareAt
<1>7. ASSUME NEW i \in 1 .. m, NEW j \in 1 .. m
      PROVE  ShareAt(t, g, i) <= ShareAt(t, g, j) + 1
  <2>1. /\ i \in DOMAIN members[g] /\ j \in DOMAIN members[g] /\ i <= m /\ j <= m
    BY <1>4
  <2>2. ShareAt(t, g, i) = Cardinality(Round(n, m, i)) /\ ShareAt(t, g, j) = Cardinality(Round(n, m, j))
    BY <1>6, <2>1
  <2> QED
    BY <1>3, <1>4, <2>2, RoundsAreEven
<1>8. ASSUME NEW i \in m + 1 .. Len(members[g])
      PROVE  ShareAt(t, g, i) = 0
  <2>1. i \in DOMAIN members[g] /\ ~(i <= m)
    BY <1>4
  <2> QED
    BY <1>6, <2>1
<1>9. dealt[t][g] \in 1 .. Len(members[g])
  BY <1>1
<1> QED
  BY <1>1, <1>5, <1>7, <1>8, <1>9 DEF EvenlyDealt

(* While nobody assigns consumers one by one, a group has one consumer in each
   partition's list or none in any, whatever subscriptions, insertions of topics and
   writes come between ConsumerReg's steps (consumer_worker.rs, lines 356-414).  Of
   those who were in the group when the topic was last dealt out, no one has two
   partitions more than another, also not than one who has none; those who joined
   the group since through another topic have none of this one. *)
THEOREM GroupSharesHold == Spec => []GroupShares
<1>1. Init => ObjectsOf /\ MembersDiffer /\ SharesInv
  <2>1. Init => /\ \A t \in Topic : topicMap[t] = <<>>
                /\ \A g \in Group : members[g] = <<>>
                /\ reg.phase # "rebalancing"
    BY DEF Init, NotRegistering
  <2>2. (/\ \A t \in Topic : topicMap[t] = <<>>
         /\ \A g \in Group : members[g] = <<>>
         /\ reg.phase # "rebalancing") => ObjectsOf /\ MembersDiffer /\ SharesInv
    BY DEF ObjectsOf, MembersDiffer, SharesInv, Shared, DealingOut, NothingOf
  <2> QED
    BY <2>1, <2>2
<1>2. Spec => [](TypeInv /\ ObjectsOf /\ MembersDiffer /\ SharesInv)
  BY <1>1, TypeInvAlways, ObjectsStep, MembersDifferStep, SharesInvStep, PTL DEF Spec
<1>3. TypeInv /\ ObjectsOf /\ MembersDiffer /\ SharesInv => GroupShares
  <2> SUFFICES ASSUME TypeInv, ObjectsOf, MembersDiffer, SharesInv, NoneAssigns,
                      NEW t \in Topic, NEW g \in Group, ~DealingOut(t, g)
               PROVE  \/ \A p \in DOMAIN topicMap[t] : Places(ListAt(t, p), g) = {}
                      \/ /\ \A p \in DOMAIN topicMap[t] : Cardinality(Places(ListAt(t, p), g)) = 1
                         /\ EvenlyDealt(t, g)
    BY DEF GroupShares
  <2>1. NothingOf(t, g) \/ AllDealt(t, g)
    BY DEF SharesInv, Shared
  <2> QED
    BY <2>1, DealtIsShared DEF NothingOf
<1> QED
  BY <1>2, <1>3, PTL
=============================================================================
