---------------------------- MODULE MCController ----------------------------
(* Topics at the controller, on small instances.  A run explores several       *)
(* scenarios, one after the other: which clients create topics, how often,     *)
(* which topics and with how many partitions, and which brokers ever register. *)
EXTENDS Controller

CONSTANTS Scenarios, c1, c2

VARIABLE scenario

mcVars == <<vars, scenario>>

(* The first call is c1's and for t1: clients and topics are only compared. *)
MCCreateTopic ==
  /\ Len(calls) < scenario.calls
  /\ \E c \in scenario.clients, t \in scenario.topics, n \in scenario.counts :
       /\ calls = <<>> => c = c1 /\ t = "t1"
       /\ CreateTopic(c, t, n)

MCRegister == \E b \in scenario.brokers : Register(b) \/ LoseBroker(b)

MCTaskStep ==
  \/ \E c \in Client : Create(c) \/ ReadAnswer(c)
  \/ \E m \in inserts : InsertTopic(m)

(* Nothing is left to do, or nobody left to do it. *)
Done ==
  /\ \A c \in Client : handler[c].phase # "creating" /\ answers[c] = NoAnswer
  /\ inserts = {}
  /\ UNCHANGED vars

MCInit == Init /\ scenario \in Scenarios
MCNext == (MCCreateTopic \/ MCRegister \/ MCTaskStep \/ Done) /\ UNCHANGED scenario
MCFairSpec == MCInit /\ [][MCNext]_mcVars /\ Fairness

(* Two clients create topics, the same or different ones, on two brokers of
   three; one client creates a topic on three brokers. *)
TwoCreate ==
  [clients |-> {c1, c2}, topics |-> Topic, counts |-> {1, 4}, brokers |-> {0, 1}, calls |-> 2]
OneCreates ==
  [clients |-> {c1}, topics |-> {"t1"}, counts |-> {0, 1, 4, 5}, brokers |-> Broker, calls |-> 1]

MCScenarios == {TwoCreate, OneCreates}
=============================================================================
