--------------------------- MODULE LeaderDiscovery ---------------------------
(***************************************************************************)
(* StartBroker: a broker that starts asks the controllers for the leader   *)
(* while they elect one (Election), registers with the controller it is    *)
(* told of, once and for all, and only then serves its clients.            *)
(*                                                                         *)
(* A question and its answer are one step, the handler's: the broker waits *)
(* for the answer.  The handler reads the leader flag before it looks at   *)
(* the message, so a controller that announces itself answers afterwards.  *)
(***************************************************************************)
EXTENDS Election

CONSTANT Broker

VARIABLES
  order,     \* the order in which a broker's map lists the controllers
  asked,     \* how many controllers it asked in this round
  home,      \* leader_socket_addr
  members    \* the brokers a controller keeps in broker_ids

discoveryVars == <<order, asked, home, members>>

Orders ==
  {s \in [1 .. Cardinality(Controller) -> Controller] :
     \A m, n \in DOMAIN s : s[m] = s[n] => m = n}

DiscoveryTypeOK ==
  /\ order \in [Broker -> Orders]
  /\ asked \in [Broker -> 0 .. Cardinality(Controller) - 1]
  /\ home \in [Broker -> Controller \cup {None}]
  /\ members \in [Controller -> SUBSET Broker]

DiscoveryInit ==
  /\ order \in [Broker -> Orders]
  /\ asked = [b \in Broker |-> 0]
  /\ home = [b \in Broker |-> None]
  /\ members = [i \in Controller |-> {}]

Asks(b) == order[b][asked[b] + 1]

(* Two bugs to tell apart: the controller that knows a leader is taken for the
   leader, or only the first controller is asked. *)
AskTakesAnswerer(b) ==
  LET i == Asks(b) IN
  /\ home[b] = None /\ LeaderFlagFree(i)
  /\ home' = [home EXCEPT ![b] = IF leaderAddr[i] = None THEN None ELSE i]
  /\ asked' = [asked EXCEPT ![b] = (@ + 1) % Cardinality(Controller)]
  /\ UNCHANGED <<order, members, vars>>

AskFirstOnly(b) ==
  LET i == Asks(b) IN
  /\ home[b] = None /\ LeaderFlagFree(i)
  /\ home' = [home EXCEPT ![b] = leaderAddr[i]]
  /\ UNCHANGED <<asked, order, members, vars>>

(* The next controller is asked, after the last one the first again.  No leader
   in its answer, and the round goes on. *)
Ask(b) ==
  LET i == Asks(b) IN
  /\ home[b] = None /\ LeaderFlagFree(i)
  /\ home' = [home EXCEPT ![b] = leaderAddr[i]]
  /\ asked' = [asked EXCEPT ![b] = (@ + 1) % Cardinality(Controller)]
  /\ UNCHANGED <<order, members, vars>>

(* i_am_broker, at whoever was reported, whether it leads or not. *)
JoinHome(b) ==
  /\ home[b] # None /\ b \notin members[home[b]] /\ LeaderFlagFree(home[b])
  /\ members' = [members EXCEPT ![home[b]] = @ \cup {b}]
  /\ UNCHANGED <<order, asked, home, vars>>

Discover(b) == Ask(b) \/ JoinHome(b)

DiscoveryNext ==
  \/ Next /\ UNCHANGED discoveryVars
  \/ \E b \in Broker : Discover(b)

DiscoverySpec == Init /\ DiscoveryInit /\ [][DiscoveryNext]_<<vars, discoveryVars>>

----------------------------------------------------------------------------
Elected(i) == timer[i] \in {"announcing", "exited"}

(* Whatever the order of the questions and the announcements, a broker is a
   member only of a controller that won an election; so brokers end up with
   different controllers only if two controllers did. *)
MembersOfTheElected == \A i \in Controller : members[i] # {} => Elected(i)
=============================================================================
