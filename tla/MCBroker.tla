------------------------------ MODULE MCBroker ------------------------------
(* Broker on small instances.  A run explores several scenarios, one after    *)
(* the other: which operations the clients send, how many, which of them      *)
(* send, and which may disconnect.                                            *)
EXTENDS Broker

CONSTANTS Scenarios, c1, c2, t1, g1, g2, k1, k2

VARIABLE scenario

mcVars == <<vars, scenario>>

MaxRequests == scenario.requests

MCOperation == UNION {s.operations : s \in Scenarios}

MCSubmit ==
  /\ Len(requests) < MaxRequests
  /\ \E c \in scenario.clients, op \in scenario.operations : Submit(c, op)

MCDisconnect == \E c \in scenario.leaving : Disconnect(c)

(* The partition worker waits, with its partition locked, for room in the
   consumer pool, and the consumer worker at work for the partition. *)
Blocked ==
  /\ writing = "acked" /\ Len(cAccepted) - cFinished = ConsumerBacklog
  /\ ConsumerBusy /\ ~notifying.copied /\ Notifying.part = Writing.part

(* Nothing is left to do, or the pools are blocked. *)
Quiescent ==
  /\ \/ /\ Len(requests) = MaxRequests \/ clients \cap scenario.clients = {}
        /\ signalled = DOMAIN requests
        /\ pFinished = Len(pAccepted) /\ cFinished = Len(cAccepted)
        /\ delivered = Len(responses)
        /\ reg.phase = "dead" \/ (reg.phase = "idle" /\ regQueue = <<>>)
     \/ Blocked
  /\ UNCHANGED vars

MCInit == Init /\ scenario \in Scenarios

MCNext == (MCSubmit \/ MCDisconnect \/ BrokerStep \/ Quiescent) /\ UNCHANGED scenario

MCSpec == MCInit /\ [][MCNext]_mcVars
MCFairSpec == MCSpec /\ Fairness

MCShardOf == [t \in Topic |-> 0]

(* A request's answer is written to the socket of the client that sent it,
   unless that client has left. *)
AnswerWritten(id) ==
  \E i \in 1 .. delivered :
    i \in AnswersTo(id) /\ (i \notin dropped \/ requests[id].client \notin clients)

RequestNo == 1 .. 4

(* Every request that the request pool received is answered. *)
EveryRequestAnswered == \A id \in RequestNo : id \in DOMAIN requests ~> AnswerWritten(id)

(* As bounded as the requests are: nothing that was submitted stays without its
   answer, written to the socket of the client that sent it, unless that client
   has left, with two exceptions.  A subscription may go without one after
   ConsumerReg died of one to an unknown topic; and when the partition pool is
   blocked by the consumer pool, which EveryRequestAnswered is about, what is
   behind it waits for ever.  Nothing else does it: a failing file, clients that
   leave, a full queue that is emptied, a partition that is unlocked.  (The
   server's lock is left to BrokerLocks.) *)
AnsweredUnlessBlocked ==
  \/ []<>(\A id \in DOMAIN requests :
            AnswerWritten(id) \/ (requests[id].op.op = "subscribe" /\ reg.phase = "dead"))
  \/ <>[]Blocked

(* The scenarios. *)
Scenario(operations, n, senders, leavers) ==
  [operations |-> operations, requests |-> n, clients |-> senders, leaving |-> leavers]

Ordering ==
  Scenario({TopicInsert(t1, 1), DataInsert(t1, 1), Assignment(t1, 1, g1, k1), WhoLeader, Unknown},
           4, {c1}, {})

Assigning ==
  Scenario({TopicInsert(t1, 1), DataInsert(t1, 1), Assignment(t1, 1, g1, k1),
            Assignment(t1, 1, g1, k2)}, 4, {c1}, {})

Subscribing ==
  Scenario({TopicInsert(t1, 2), DataInsert(t1, 1), Subscribe(t1, g1), Subscribe(t1, g2)},
           4, {c1}, {})

Failing ==
  Scenario({TopicInsert(t1, 0), TopicInsert(t1, 2), DataInsert(t1, 1), DataInsert(t1, 2)},
           3, {c2}, {c2})

Queueing ==
  Scenario({TopicInsert(t1, 1), DataInsert(t1, 1), Assignment(t1, 1, g1, k1)}, 4, {c1}, {})

Registering ==
  Scenario({TopicInsert(t1, 1), DataInsert(t1, 1), WhoLeader, Subscribe(t1, g1)},
           3, {c1, c2}, {c2})

BrokerScenarios == {Ordering, Assigning, Subscribing, Failing, Registering}
BackpressureScenarios == {Queueing}
=============================================================================
