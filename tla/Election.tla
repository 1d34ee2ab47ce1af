------------------------------ MODULE Election ------------------------------
(***************************************************************************)
(* Leader election among the controllers: each controller's timer task,    *)
(* the handler task of each connection between two controllers, and the    *)
(* TCP connections themselves.                                             *)
(*                                                                         *)
(* Time is left out: a waiting timer may expire at any moment.  Heartbeats *)
(* and the other messages that restart a timer change nothing but that, so *)
(* they are not sent here.                                                 *)
(***************************************************************************)
EXTENDS Naturals, Sequences, FiniteSets

CONSTANTS
  Controller,
  None,        \* no leader address
  MaxTerm      \* bound: no timer expires once its controller's term is MaxTerm

ASSUME ElectionAssumption ==
  /\ IsFiniteSet(Controller)
  /\ Controller # {}
  /\ None \notin Controller
  /\ MaxTerm \in Nat

VARIABLES
  peers,       \* the order in which a controller's peer map lists its peers
  term,
  leader,      \* whether a controller takes itself for the leader
  leaderAddr,  \* the leader a controller reports to who_leader
  timer,       \* what the timer task is doing
  campaign,    \* the timer task's locals: the term, the next peer, accept_count
  channel,     \* channel[i][j]: what i sent to j and j's handler has not taken
  reply,       \* reply[j][i]: the answer of j that i has not read
  handler,     \* handler[i][j]: j's task for the connection from i
  votes        \* history: who accepted whom in which term

vars == <<peers, term, leader, leaderAddr, timer, campaign, channel, reply, handler, votes>>

Vote == [voter : Controller, candidate : Controller, term : Nat]
Campaign == [term : Nat, next : Nat \ {0}, accepts : Nat]
Message == [kind : {"election", "leader_elected"}, term : Nat]

TypeOK ==
  /\ peers \in [Controller -> Seq(Controller)]
  /\ term \in [Controller -> Nat]
  /\ leader \in [Controller -> BOOLEAN]
  /\ leaderAddr \in [Controller -> Controller \cup {None}]
  /\ timer \in [Controller -> {"waiting", "asking", "awaiting", "announcing", "exited"}]
  /\ campaign \in [Controller -> Campaign]
  /\ channel \in [Controller -> [Controller -> Seq(Message)]]
  /\ reply \in [Controller -> [Controller -> {"none", "accept", "reject"}]]
  /\ handler \in [Controller -> [Controller -> {"idle", "admitted", "learning", "deposing"}]]
  /\ votes \subseteq Vote

(* The peers of i in some order. *)
PeerOrders(i) ==
  {s \in [1 .. Cardinality(Controller) - 1 -> Controller \ {i}] :
     \A a, b \in DOMAIN s : s[a] = s[b] => a = b}

InitState ==
  /\ term = [i \in Controller |-> 0]
  /\ leader = [i \in Controller |-> FALSE]
  /\ leaderAddr = [i \in Controller |-> None]
  /\ timer = [i \in Controller |-> "waiting"]
  /\ campaign = [i \in Controller |-> [term |-> 0, next |-> 1, accepts |-> 0]]
  /\ channel = [i \in Controller |-> [j \in Controller |-> <<>>]]
  /\ reply = [i \in Controller |-> [j \in Controller |-> "none"]]
  /\ handler = [i \in Controller |-> [j \in Controller |-> "idle"]]
  /\ votes = {}

Init ==
  /\ peers \in [Controller -> UNION {PeerOrders(i) : i \in Controller}]
  /\ \A i \in Controller : peers[i] \in PeerOrders(i)
  /\ InitState

----------------------------------------------------------------------------
(* The timer task. *)

Send(i, j, message) == channel' = [channel EXCEPT ![i][j] = Append(@, message)]

NextPeer(i) == peers[i][campaign[i].next]
PeersLeft(i) == campaign[i].next <= Len(peers[i])

(* The timer expires: a new term, in which the candidate counts its own vote. *)
Timeout(i) ==
  /\ timer[i] = "waiting"
  /\ term[i] < MaxTerm
  /\ timer' = [timer EXCEPT ![i] = "asking"]
  /\ term' = [term EXCEPT ![i] = @ + 1]
  /\ campaign' = [campaign EXCEPT ![i] = [term |-> term[i] + 1, next |-> 1, accepts |-> 1]]
  /\ votes' = votes \cup {[voter |-> i, candidate |-> i, term |-> term[i] + 1]}
  /\ UNCHANGED <<peers, leader, leaderAddr, channel, reply, handler>>

(* One peer at a time is asked and its answer awaited. *)
AskNext(i) ==
  /\ timer[i] = "asking" /\ PeersLeft(i)
  /\ Send(i, NextPeer(i), [kind |-> "election", term |-> campaign[i].term])
  /\ timer' = [timer EXCEPT ![i] = "awaiting"]
  /\ UNCHANGED <<peers, term, leader, leaderAddr, campaign, reply, handler, votes>>

(* A bug to tell apart: every answer is counted as an acceptance. *)
CollectReplyUnread(i) ==
  /\ timer[i] = "awaiting"
  /\ reply[NextPeer(i)][i] # "none"
  /\ campaign' = [campaign EXCEPT ![i].next = @ + 1, ![i].accepts = @ + 1]
  /\ reply' = [reply EXCEPT ![NextPeer(i)][i] = "none"]
  /\ timer' = [timer EXCEPT ![i] = "asking"]
  /\ UNCHANGED <<peers, term, leader, leaderAddr, channel, handler, votes>>

CollectReply(i) ==
  /\ timer[i] = "awaiting"
  /\ reply[NextPeer(i)][i] # "none"
  /\ campaign' = [campaign EXCEPT ![i] =
       [term |-> @.term,
        next |-> @.next + 1,
        accepts |-> @.accepts + (IF reply[NextPeer(i)][i] = "accept" THEN 1 ELSE 0)]]
  /\ reply' = [reply EXCEPT ![NextPeer(i)][i] = "none"]
  /\ timer' = [timer EXCEPT ![i] = "asking"]
  /\ UNCHANGED <<peers, term, leader, leaderAddr, channel, handler, votes>>

(* accept_count >= peers_len / 2, where accept_count has the own vote in it
   and peers_len has not the controller itself. *)
Enough(i) == campaign[i].accepts >= Len(peers[i]) \div 2

(* Elected: the leader flag is locked until every peer has been told. *)
Win(i) ==
  /\ timer[i] = "asking" /\ ~PeersLeft(i)
  /\ Enough(i)
  /\ leader' = [leader EXCEPT ![i] = TRUE]
  /\ timer' = [timer EXCEPT ![i] = "announcing"]
  /\ campaign' = [campaign EXCEPT ![i].next = 1]
  /\ UNCHANGED <<peers, term, leaderAddr, channel, reply, handler, votes>>

Lose(i) ==
  /\ timer[i] = "asking" /\ ~PeersLeft(i)
  /\ ~Enough(i)
  /\ timer' = [timer EXCEPT ![i] = "waiting"]
  /\ UNCHANGED <<peers, term, leader, leaderAddr, campaign, channel, reply, handler, votes>>

(* The term announced is read anew for each peer. *)
AnnounceNext(i) ==
  /\ timer[i] = "announcing" /\ PeersLeft(i)
  /\ Send(i, NextPeer(i), [kind |-> "leader_elected", term |-> term[i]])
  /\ campaign' = [campaign EXCEPT ![i].next = @ + 1]
  /\ UNCHANGED <<peers, term, leader, leaderAddr, timer, reply, handler, votes>>

(* A bug to tell apart: nobody is told. *)
EndAnnouncementFirst(i) ==
  /\ timer[i] = "announcing"
  /\ timer' = [timer EXCEPT ![i] = "exited"]
  /\ UNCHANGED <<peers, term, leader, leaderAddr, campaign, channel, reply, handler, votes>>

(* The timer task ends for good. *)
EndAnnouncement(i) ==
  /\ timer[i] = "announcing" /\ ~PeersLeft(i)
  /\ timer' = [timer EXCEPT ![i] = "exited"]
  /\ UNCHANGED <<peers, term, leader, leaderAddr, campaign, channel, reply, handler, votes>>

----------------------------------------------------------------------------
(* The task of j that serves the connection from i. *)

LeaderFlagFree(j) == timer[j] # "announcing"

Take(i, j) ==
  channel' = [channel EXCEPT ![i][j] = Tail(@)]

(* Something arrived; the task reads the leader flag before anything else. *)
Admit(i, j) ==
  /\ handler[i][j] = "idle"
  /\ channel[i][j] # <<>>
  /\ LeaderFlagFree(j)
  /\ handler' = [handler EXCEPT ![i][j] = "admitted"]
  /\ UNCHANGED <<peers, term, leader, leaderAddr, timer, campaign, channel, reply, votes>>

Arrived(i, j, kind) == handler[i][j] = "admitted" /\ Head(channel[i][j]).kind = kind

Reject(i, j) ==
  /\ Arrived(i, j, "election")
  /\ Head(channel[i][j]).term <= term[j]
  /\ reply' = [reply EXCEPT ![j][i] = "reject"]
  /\ Take(i, j)
  /\ handler' = [handler EXCEPT ![i][j] = "idle"]
  /\ UNCHANGED <<peers, term, leader, leaderAddr, timer, campaign, votes>>

(* Two bugs to tell apart: a candidate is accepted in the voter's current term
   as well, or the voter does not take over the term it votes in. *)
AcceptCurrentTerm(i, j) ==
  LET t == Head(channel[i][j]).term
  IN  /\ Arrived(i, j, "election")
      /\ t >= term[j]
      /\ term' = [term EXCEPT ![j] = t]
      /\ reply' = [reply EXCEPT ![j][i] = "accept"]
      /\ votes' = votes \cup {[voter |-> j, candidate |-> i, term |-> t]}
      /\ Take(i, j)
      /\ handler' = [handler EXCEPT ![i][j] = "idle"]
      /\ UNCHANGED <<peers, leader, leaderAddr, timer, campaign>>

AcceptForgetTerm(i, j) ==
  LET t == Head(channel[i][j]).term
  IN  /\ Arrived(i, j, "election")
      /\ t > term[j]
      /\ reply' = [reply EXCEPT ![j][i] = "accept"]
      /\ votes' = votes \cup {[voter |-> j, candidate |-> i, term |-> t]}
      /\ Take(i, j)
      /\ handler' = [handler EXCEPT ![i][j] = "idle"]
      /\ UNCHANGED <<peers, term, leader, leaderAddr, timer, campaign>>

Accept(i, j) ==
  LET t == Head(channel[i][j]).term
  IN  /\ Arrived(i, j, "election")
      /\ t > term[j]
      /\ term' = [term EXCEPT ![j] = t]
      /\ reply' = [reply EXCEPT ![j][i] = "accept"]
      /\ votes' = votes \cup {[voter |-> j, candidate |-> i, term |-> t]}
      /\ Take(i, j)
      /\ handler' = [handler EXCEPT ![i][j] = "idle"]
      /\ UNCHANGED <<peers, leader, leaderAddr, timer, campaign>>

(* Two bugs to tell apart: the term of an announcement is taken whether it is
   newer or not, or the address only from an announcement of a newer term. *)
LearnLeaderAnyTerm(i, j) ==
  /\ Arrived(i, j, "leader_elected")
  /\ term' = [term EXCEPT ![j] = Head(channel[i][j]).term]
  /\ Take(i, j)
  /\ handler' = [handler EXCEPT ![i][j] = "learning"]
  /\ UNCHANGED <<peers, leader, leaderAddr, timer, campaign, reply, votes>>

LearnLeaderNewTerm(i, j) ==
  LET t == Head(channel[i][j]).term
  IN  /\ Arrived(i, j, "leader_elected")
      /\ term' = [term EXCEPT ![j] = IF t > @ THEN t ELSE @]
      /\ Take(i, j)
      /\ handler' = [handler EXCEPT ![i][j] = IF t > term[j] THEN "learning" ELSE "deposing"]
      /\ UNCHANGED <<peers, leader, leaderAddr, timer, campaign, reply, votes>>

(* leader_elected: the term, the address and the leader flag are written one
   after the other, each under a lock of its own. *)
LearnLeader(i, j) ==
  LET t == Head(channel[i][j]).term
  IN  /\ Arrived(i, j, "leader_elected")
      /\ term' = [term EXCEPT ![j] = IF t > @ THEN t ELSE @]
      /\ Take(i, j)
      /\ handler' = [handler EXCEPT ![i][j] = "learning"]
      /\ UNCHANGED <<peers, leader, leaderAddr, timer, campaign, reply, votes>>

(* A bug to tell apart: the fields of an announcement are mixed up. *)
SaveLeaderSwapped(i, j) ==
  /\ handler[i][j] = "learning"
  /\ leaderAddr' = [leaderAddr EXCEPT ![j] = term[j]]
  /\ handler' = [handler EXCEPT ![i][j] = "deposing"]
  /\ UNCHANGED <<peers, term, leader, timer, campaign, channel, reply, votes>>

(* The address is taken whatever the term. *)
SaveLeader(i, j) ==
  /\ handler[i][j] = "learning"
  /\ leaderAddr' = [leaderAddr EXCEPT ![j] = i]
  /\ handler' = [handler EXCEPT ![i][j] = "deposing"]
  /\ UNCHANGED <<peers, term, leader, timer, campaign, channel, reply, votes>>

StepDown(i, j) ==
  /\ handler[i][j] = "deposing"
  /\ LeaderFlagFree(j)
  /\ leader' = [leader EXCEPT ![j] = FALSE]
  /\ handler' = [handler EXCEPT ![i][j] = "idle"]
  /\ UNCHANGED <<peers, term, leaderAddr, timer, campaign, channel, reply, votes>>

----------------------------------------------------------------------------
TimerStep(i) ==
  \/ Timeout(i) \/ AskNext(i) \/ CollectReply(i)
  \/ Win(i) \/ Lose(i) \/ AnnounceNext(i) \/ EndAnnouncement(i)

HandlerStep(i, j) ==
  \/ Admit(i, j) \/ Reject(i, j) \/ Accept(i, j)
  \/ LearnLeader(i, j) \/ SaveLeader(i, j) \/ StepDown(i, j)

Next == \E i \in Controller : TimerStep(i) \/ \E j \in Controller : HandlerStep(i, j)

(* A timer must expire only while nothing restarts it.  A leader's heartbeats
   would; without a leader only the brokers' questions come, once a second, and
   the timers are 150 to 300 ms. *)
DueTimerStep(i) ==
  TimerStep(i) /\ (timer[i] = "waiting" => \A j \in Controller : ~leader[j])

(* Every other task runs again whenever it can. *)
Fairness ==
  \A i \in Controller :
    /\ WF_vars(DueTimerStep(i))
    /\ \A j \in Controller : WF_vars(HandlerStep(i, j))

Spec == Init /\ [][Next]_vars
FairSpec == Spec /\ Fairness

----------------------------------------------------------------------------
(* A controller accepts at most one candidate in a term, itself included,
   whatever the order in which its timer and its handlers run. *)
VoteOnce ==
  \A v, w \in votes : v.voter = w.voter /\ v.term = w.term => v = w

(* What keeps VoteOnce: no vote is newer than its voter's term, and a task that
   was admitted has the message it was admitted for. *)
VotesBehind == \A v \in votes : v.term <= term[v.voter]
AdmittedHasMessage ==
  \A i, j \in Controller : handler[i][j] = "admitted" => channel[i][j] # <<>>

(* The inductive invariant of the election. *)
IInv == TypeOK /\ AdmittedHasMessage /\ VotesBehind /\ VoteOnce

(* Votes of i in term t. *)
Supporters(i, t) == {v \in Controller : [voter |-> v, candidate |-> i, term |-> t] \in votes}
Majority(S) == 2 * Cardinality(S) > Cardinality(Controller)

(* In each term at most one candidate is accepted by a majority. *)
MajorityUnique ==
  \A v, w \in votes :
    v.term = w.term /\ Majority(Supporters(v.candidate, v.term))
                    /\ Majority(Supporters(w.candidate, w.term)) => v.candidate = w.candidate

(* accept_count is the number of votes given to the candidate in its term. *)
CountsItsVotes ==
  \A i \in Controller :
    timer[i] = "announcing" =>
      campaign[i].accepts = Cardinality(Supporters(i, campaign[i].term))

(* Terms never go back, although three tasks write them. *)
TermMonotonic == [][\A i \in Controller : term'[i] >= term[i]]_vars

(* A controller that led and leads no more reports a leader to who_leader. *)
DeposedKnowsALeader ==
  \A i \in Controller : timer[i] = "exited" /\ ~leader[i] => leaderAddr[i] # None

(* Some controller comes to report a leader: the wait of StartBroker ends. *)
LeaderIsFound == <>[](\E i \in Controller : leaderAddr[i] # None)

(* What "Reject the election" says: a candidate that every peer rejected does
   not become the leader. *)
RejectedNeverLeads ==
  \A i \in Controller : timer[i] = "announcing" => campaign[i].accepts > 1
=============================================================================
