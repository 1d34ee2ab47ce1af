----------------------------- MODULE MCElection -----------------------------
(* Election, and the brokers that look for its leader, on small instances.  A  *)
(* run explores several scenarios, one after the other: whose timers expire,   *)
(* up to which term, whether every order of the peers is tried, whether an     *)
(* elected controller goes on to announce itself, and which brokers start.     *)
EXTENDS LeaderDiscovery

CONSTANTS Scenarios, c1, c2, c3

VARIABLE scenario

mcVars == <<vars, discoveryVars, scenario>>

MCTimerStep(i) ==
  /\ TimerStep(i)
  /\ timer[i] = "waiting" => i \in scenario.candidates /\ term[i] < scenario.maxTerm
  /\ timer[i] = "announcing" => scenario.announce
  /\ UNCHANGED <<discoveryVars, scenario>>

MCHandlerStep(i, j) == HandlerStep(i, j) /\ UNCHANGED <<discoveryVars, scenario>>

MCDiscover(b) == b \in scenario.brokers /\ Discover(b) /\ UNCHANGED scenario

(* The instance may stop here: every campaign is over, every message handled and
   every broker a member, or there is a winner, which holds its leader flag, and
   it is not to announce. *)
Quiescent ==
  /\ \/ /\ \A i \in Controller :
             \/ timer[i] = "exited"
             \/ timer[i] = "waiting" /\ (i \notin scenario.candidates \/ term[i] = scenario.maxTerm)
        /\ \A i, j \in Controller : ~ENABLED HandlerStep(i, j)
        /\ \A b \in scenario.brokers : home[b] # None /\ b \in members[home[b]]
     \/ ~scenario.announce /\ \E i \in Controller : timer[i] = "announcing"
  /\ UNCHANGED mcVars

MCNext ==
  \/ \E i \in Controller : MCTimerStep(i) \/ \E j \in Controller : MCHandlerStep(i, j)
  \/ \E b \in Broker : MCDiscover(b)
  \/ Quiescent

(* Without allOrders every controller lists its peers in one order, as does one
   that is no candidate, and a broker that does not start the controllers. *)
MCInit ==
  /\ scenario \in Scenarios
  /\ IF scenario.allOrders
       THEN Init
       ELSE peers = [i \in Controller |-> CHOOSE s \in PeerOrders(i) : TRUE]
  /\ \A i \in Controller \ scenario.candidates :
       peers[i] = CHOOSE s \in PeerOrders(i) : TRUE
  /\ InitState
  /\ DiscoveryInit
  /\ \A b \in Broker \ scenario.brokers : order[b] = CHOOSE s \in Orders : TRUE

MCSpec == MCInit /\ [][MCNext]_mcVars

(* Fairness of the steps these instances can take. *)
MCFairSpec ==
  /\ MCSpec
  /\ \A i \in Controller :
       /\ WF_mcVars(MCTimerStep(i) /\ DueTimerStep(i))
       /\ \A j \in Controller : WF_mcVars(MCHandlerStep(i, j))
  /\ \A b \in Broker : WF_mcVars(MCDiscover(b))

(* The wait of StartBroker ends: every broker that starts becomes a member of a
   controller, although the leader itself answers that it knows none. *)
EveryBrokerJoins ==
  \A b \in Broker : b \in scenario.brokers ~> \E i \in Controller : b \in members[i]

(* The scenarios. *)
Scenario(candidates, maxTerm) ==
  [candidates |-> candidates, maxTerm |-> maxTerm, allOrders |-> TRUE, announce |-> TRUE,
   brokers |-> {}]

TwoCampaign == Scenario({c1, c2}, 2)
ThreeCampaign == [Scenario({c1, c2, c3}, 1) EXCEPT !.allOrders = FALSE]
BrokerStarts == [Scenario({c1, c2}, 1) EXCEPT !.allOrders = FALSE, !.brokers = Broker]
OneOrder == [Scenario({c1, c2}, 2) EXCEPT !.allOrders = FALSE]

ThreeControllers == {TwoCampaign, ThreeCampaign, BrokerStarts}
FiveControllers == {[OneOrder EXCEPT !.announce = FALSE]}
Rejections == {OneOrder}
=============================================================================
