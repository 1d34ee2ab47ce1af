--------------------------- MODULE ElectionProofs ---------------------------
(* What of the election holds for any number of controllers, any order of   *)
(* peers and any number of terms, and that brokers which start meanwhile    *)
(* join only a controller that won, in whichever orders they ask.           *)
EXTENDS LeaderDiscovery, FiniteSetTheorems, SequenceTheorems, TLAPS

(* The controllers have started: nothing was sent, nobody voted. *)
LEMMA InitIInv == Init => IInv
<1> SUFFICES ASSUME Init PROVE IInv
  OBVIOUS
<1> USE ElectionAssumption DEF Init, InitState
<1>1. peers \in [Controller -> Seq(Controller)]
  <2>1. ASSUME NEW i \in Controller
        PROVE  peers[i] \in Seq(Controller)
    <3>1. IsFiniteSet(Controller) /\ Cardinality(Controller) \in Nat
      BY FS_CardinalityType
    <3>2. Cardinality(Controller) # 0
      BY FS_EmptySet
    <3>3. Cardinality(Controller) - 1 \in Nat
      BY <3>1, <3>2
    <3>4. peers[i] \in [1 .. Cardinality(Controller) - 1 -> Controller]
      BY DEF PeerOrders
    <3> QED
      <4>1. peers[i] \in UNION {[1 .. n -> Controller] : n \in Nat}
        BY <3>3, <3>4
      <4> QED
        BY <4>1, SeqDef, Zenon
  <2> QED
    BY <2>1
<1>2. TypeOK
  BY <1>1 DEF TypeOK, Campaign
<1>3. AdmittedHasMessage
  BY DEF AdmittedHasMessage
<1>4. VotesBehind /\ VoteOnce
  BY DEF VotesBehind, VoteOnce
<1> QED
  BY <1>2, <1>3, <1>4 DEF IInv

(* Appending to one channel keeps the channels what they are, and empties none. *)
LEMMA SendKeeps ==
  ASSUME IInv, NEW i \in Controller, NEW j, NEW m \in Message, Send(i, j, m)
  PROVE  /\ channel' \in [Controller -> [Controller -> Seq(Message)]]
         /\ \A a, b \in Controller : channel[a][b] # <<>> => channel'[a][b] # <<>>
<1>1. channel \in [Controller -> [Controller -> Seq(Message)]]
  BY DEF IInv, TypeOK
<1>2. channel' = [channel EXCEPT ![i][j] = Append(channel[i][j], m)]
  BY DEF Send
<1>3. \A a \in Controller : channel[a] \in [Controller -> Seq(Message)]
  BY <1>1
<1>4. CASE j \in Controller
  <2>1. channel[i][j] \in Seq(Message)
    BY <1>3, <1>4
  <2>2. Append(channel[i][j], m) \in Seq(Message) /\ Append(channel[i][j], m) # <<>>
    BY <2>1, AppendProperties
  <2>3. [channel[i] EXCEPT ![j] = Append(channel[i][j], m)] \in [Controller -> Seq(Message)]
    BY <1>3, <2>2
  <2>4. channel' = [channel EXCEPT ![i] = [channel[i] EXCEPT ![j] = Append(channel[i][j], m)]]
    BY <1>2
  <2>5. \A a, b \in Controller :
           channel'[a][b] = IF a = i /\ b = j THEN Append(channel[i][j], m) ELSE channel[a][b]
    BY <1>1, <1>3, <1>4, <2>4
  <2> QED
    BY <1>1, <2>2, <2>3, <2>4, <2>5
<1>5. CASE j \notin Controller
  <2>1. [channel[i] EXCEPT ![j] = Append(channel[i][j], m)] = channel[i]
    BY <1>3, <1>5
  <2>2. channel' = channel
    BY <1>1, <1>2, <2>1
  <2> QED
    BY <1>1, <2>2
<1> QED
  BY <1>4, <1>5

(* Taking the first message of a channel keeps the channels what they are and
   touches no other channel; the message was one. *)
LEMMA TakeKeeps ==
  ASSUME IInv, NEW i \in Controller, NEW j \in Controller,
         handler[i][j] = "admitted", Take(i, j)
  PROVE  /\ channel' \in [Controller -> [Controller -> Seq(Message)]]
         /\ Head(channel[i][j]) \in Message
         /\ \A a, b \in Controller :
              a # i \/ b # j => channel'[a][b] = channel[a][b]
<1>1. channel \in [Controller -> [Controller -> Seq(Message)]]
  BY DEF IInv, TypeOK
<1>2. channel[i][j] \in Seq(Message) /\ channel[i][j] # <<>>
  BY <1>1 DEF IInv, AdmittedHasMessage
<1>3. Head(channel[i][j]) \in Message /\ Tail(channel[i][j]) \in Seq(Message)
  BY <1>2
<1>4. channel' = [channel EXCEPT ![i][j] = Tail(channel[i][j])]
  BY DEF Take
<1> QED
  BY <1>1, <1>3, <1>4

(* The parts of a campaign are numbers. *)
LEMMA CampaignParts ==
  ASSUME NEW c \in Campaign
  PROVE  c.term \in Nat /\ c.next \in Nat /\ c.next # 0 /\ c.accepts \in Nat
  BY DEF Campaign

(* Moving on to the next peer leaves a campaign a campaign. *)
LEMMA CampaignGoesOn ==
  ASSUME NEW c \in Campaign, NEW n \in Nat \ {0}
  PROVE  [c EXCEPT !.next = n] \in Campaign
  BY DEF Campaign

(* The timer task of a controller keeps the invariant. *)
LEMMA TimerStepIInv ==
  ASSUME IInv, NEW i \in Controller, TimerStep(i)
  PROVE  IInv'
<1> USE DEF IInv
<1>1. CASE Timeout(i)
  <2> USE <1>1 DEF Timeout
  <2>0. /\ term \in [Controller -> Nat] /\ votes \subseteq Vote
        /\ \A k \in Controller : term[k] \in Nat
        /\ campaign \in [Controller -> Campaign]
    BY DEF TypeOK
  <2>1. TypeOK'
    <3>1. votes' \subseteq Vote
      BY <2>0 DEF Vote
    <3>2. term' \in [Controller -> Nat]
      BY <2>0
    <3>3. campaign' \in [Controller -> Campaign]
      BY <2>0 DEF Campaign
    <3>4. timer' \in [Controller -> {"waiting", "asking", "awaiting", "announcing", "exited"}]
      BY DEF TypeOK
    <3> QED
      BY <3>1, <3>2, <3>3, <3>4 DEF TypeOK
  <2>2. AdmittedHasMessage'
    BY DEF AdmittedHasMessage
  <2>3. VotesBehind'
    <3>1. \A v \in votes : v.term \in Nat /\ v.voter \in Controller
      BY <2>0 DEF Vote
    <3>2. \A v \in votes : v.term <= term'[v.voter]
      BY <2>0, <3>1 DEF VotesBehind
    <3> QED
      BY <2>0, <3>2 DEF VotesBehind
  <2>4. VoteOnce'
    <3>1. \A v \in votes : v.voter = i => v.term <= term[i]
      BY DEF VotesBehind
    <3>2. \A v \in votes : v.term \in Nat
      BY DEF TypeOK, Vote
    <3> QED
      BY <3>1, <3>2 DEF VoteOnce, TypeOK
  <2> QED
    BY <2>1, <2>2, <2>3, <2>4
<1>2. CASE AskNext(i)
  <2> DEFINE m == [kind |-> "election", term |-> campaign[i].term]
  <2>1. m \in Message
    BY CampaignParts DEF TypeOK, Message
  <2>2. Send(i, NextPeer(i), m)
    BY <1>2 DEF AskNext
  <2> HIDE DEF m
  <2>3. /\ channel' \in [Controller -> [Controller -> Seq(Message)]]
        /\ \A a, b \in Controller : channel[a][b] # <<>> => channel'[a][b] # <<>>
    BY <2>1, <2>2, SendKeeps
  <2>4. TypeOK'
    BY <1>2, <2>3 DEF AskNext, TypeOK
  <2>5. AdmittedHasMessage' /\ VotesBehind' /\ VoteOnce'
    BY <1>2, <2>3 DEF AskNext, AdmittedHasMessage, VotesBehind, VoteOnce
  <2> QED
    BY <2>4, <2>5
<1>3. CASE CollectReply(i)
  <2> DEFINE r == [term |-> campaign[i].term,
                   next |-> campaign[i].next + 1,
                   accepts |-> campaign[i].accepts
                                 + (IF reply[NextPeer(i)][i] = "accept" THEN 1 ELSE 0)]
  <2>1. TypeOK'
    <3>1. r \in Campaign
      <4>1. campaign[i] \in Campaign
        BY DEF TypeOK
      <4> QED
        BY <4>1, CampaignParts DEF Campaign
    <3>2. campaign' = [campaign EXCEPT ![i] = r]
      BY <1>3 DEF CollectReply
    <3>3. campaign' \in [Controller -> Campaign]
      BY <3>1, <3>2 DEF TypeOK
    <3>4. reply' \in [Controller -> [Controller -> {"none", "accept", "reject"}]]
      <4>1. \A k \in Controller :
               [reply[k] EXCEPT ![i] = "none"] \in [Controller -> {"none", "accept", "reject"}]
        BY DEF TypeOK
      <4>2. reply' = [reply EXCEPT ![NextPeer(i)] = [reply[NextPeer(i)] EXCEPT ![i] = "none"]]
        BY <1>3 DEF CollectReply
      <4> QED
        BY <4>1, <4>2 DEF TypeOK
    <3>5. timer' \in [Controller -> {"waiting", "asking", "awaiting", "announcing", "exited"}]
      BY <1>3 DEF CollectReply, TypeOK
    <3> QED
      BY <1>3, <3>3, <3>4, <3>5 DEF CollectReply, TypeOK
  <2>2. AdmittedHasMessage' /\ VotesBehind' /\ VoteOnce'
    BY <1>3 DEF CollectReply, AdmittedHasMessage, VotesBehind, VoteOnce
  <2> QED
    BY <2>1, <2>2
<1>4. CASE Win(i) \/ Lose(i) \/ EndAnnouncement(i)
  <2>1. TypeOK'
    <3>1. campaign' = campaign \/ campaign' = [campaign EXCEPT ![i].next = 1]
      BY <1>4 DEF Win, Lose, EndAnnouncement
    <3>2. campaign' \in [Controller -> Campaign]
      <4>1. campaign[i] \in Campaign /\ campaign \in [Controller -> Campaign]
        BY DEF TypeOK
      <4>2. [campaign[i] EXCEPT !.next = 1] \in Campaign
        BY <4>1, CampaignGoesOn
      <4> QED
        BY <3>1, <4>1, <4>2
    <3>3. timer' \in [Controller -> {"waiting", "asking", "awaiting", "announcing", "exited"}]
      BY <1>4 DEF Win, Lose, EndAnnouncement, TypeOK
    <3>4. leader' \in [Controller -> BOOLEAN]
      BY <1>4 DEF Win, Lose, EndAnnouncement, TypeOK
    <3> QED
      BY <1>4, <3>2, <3>3, <3>4 DEF Win, Lose, EndAnnouncement, TypeOK
  <2>2. AdmittedHasMessage' /\ VotesBehind' /\ VoteOnce'
    BY <1>4 DEF Win, Lose, EndAnnouncement, AdmittedHasMessage, VotesBehind, VoteOnce
  <2> QED
    BY <2>1, <2>2
<1>5. CASE AnnounceNext(i)
  <2> DEFINE m == [kind |-> "leader_elected", term |-> term[i]]
  <2>1. m \in Message
    BY DEF TypeOK, Message
  <2>2. Send(i, NextPeer(i), m)
    BY <1>5 DEF AnnounceNext
  <2> HIDE DEF m
  <2>3. /\ channel' \in [Controller -> [Controller -> Seq(Message)]]
        /\ \A a, b \in Controller : channel[a][b] # <<>> => channel'[a][b] # <<>>
    BY <2>1, <2>2, SendKeeps
  <2>4. TypeOK'
    <3>1. campaign' = [campaign EXCEPT ![i].next = @ + 1]
      BY <1>5 DEF AnnounceNext
    <3>2. campaign' \in [Controller -> Campaign]
      <4>1. campaign[i] \in Campaign /\ campaign \in [Controller -> Campaign]
        BY DEF TypeOK
      <4>2. campaign[i].next + 1 \in Nat \ {0}
        BY <4>1, CampaignParts
      <4>3. [campaign[i] EXCEPT !.next = campaign[i].next + 1] \in Campaign
        BY <4>1, <4>2, CampaignGoesOn
      <4> QED
        BY <3>1, <4>1, <4>3
    <3> QED
      BY <1>5, <2>3, <3>2 DEF AnnounceNext, TypeOK
  <2>5. AdmittedHasMessage' /\ VotesBehind' /\ VoteOnce'
    BY <1>5, <2>3 DEF AnnounceNext, AdmittedHasMessage, VotesBehind, VoteOnce
  <2> QED
    BY <2>4, <2>5
<1> QED
  BY <1>1, <1>2, <1>3, <1>4, <1>5 DEF TimerStep

(* The task of j for the connection from i keeps the invariant. *)
LEMMA HandlerStepIInv ==
  ASSUME IInv, NEW i \in Controller, NEW j \in Controller, HandlerStep(i, j)
  PROVE  IInv'
<1> USE DEF IInv
<1>1. CASE Admit(i, j) \/ SaveLeader(i, j) \/ StepDown(i, j)
  <2>0. handler \in [Controller -> [Controller -> {"idle", "admitted", "learning", "deposing"}]]
    BY DEF TypeOK
  <2>1. TypeOK'
    <3>1. \E h \in {"idle", "admitted", "deposing"} : handler' = [handler EXCEPT ![i][j] = h]
      BY <1>1 DEF Admit, SaveLeader, StepDown
    <3>2. handler' \in [Controller -> [Controller -> {"idle", "admitted", "learning", "deposing"}]]
      BY <2>0, <3>1
    <3>3. leader' \in [Controller -> BOOLEAN]
      BY <1>1 DEF Admit, SaveLeader, StepDown, TypeOK
    <3>4. leaderAddr' \in [Controller -> Controller \cup {None}]
      BY <1>1 DEF Admit, SaveLeader, StepDown, TypeOK
    <3> QED
      BY <1>1, <3>2, <3>3, <3>4 DEF Admit, SaveLeader, StepDown, TypeOK
  <2>2. AdmittedHasMessage'
    <3>1. CASE Admit(i, j)
      BY <2>0, <3>1 DEF Admit, AdmittedHasMessage
    <3>2. CASE SaveLeader(i, j) \/ StepDown(i, j)
      BY <2>0, <3>2 DEF SaveLeader, StepDown, AdmittedHasMessage
    <3> QED
      BY <1>1, <3>1, <3>2
  <2>3. VotesBehind' /\ VoteOnce'
    BY <1>1 DEF Admit, SaveLeader, StepDown, VotesBehind, VoteOnce
  <2> QED
    BY <2>1, <2>2, <2>3
<1>2. CASE Reject(i, j)
  <2>1. handler[i][j] = "admitted" /\ Take(i, j)
    BY <1>2 DEF Reject, Arrived
  <2>2. /\ channel' \in [Controller -> [Controller -> Seq(Message)]]
        /\ \A a, b \in Controller : a # i \/ b # j => channel'[a][b] = channel[a][b]
    BY <2>1, TakeKeeps
  <2>3. TypeOK'
    BY <1>2, <2>2 DEF Reject, TypeOK
  <2>4. AdmittedHasMessage'
    BY <1>2, <2>2 DEF Reject, AdmittedHasMessage, TypeOK
  <2>5. VotesBehind' /\ VoteOnce'
    BY <1>2 DEF Reject, VotesBehind, VoteOnce
  <2> QED
    BY <2>3, <2>4, <2>5
<1>3. CASE Accept(i, j)
  <2> DEFINE t == Head(channel[i][j]).term
  <2>1. handler[i][j] = "admitted" /\ Take(i, j)
    BY <1>3 DEF Accept, Arrived
  <2>2. /\ channel' \in [Controller -> [Controller -> Seq(Message)]]
        /\ \A a, b \in Controller : a # i \/ b # j => channel'[a][b] = channel[a][b]
    BY <2>1, TakeKeeps
  <2>3. t \in Nat
    BY <2>1, TakeKeeps DEF Message
  <2>4. /\ t > term[j]
        /\ term' = [term EXCEPT ![j] = t]
        /\ reply' = [reply EXCEPT ![j][i] = "accept"]
        /\ votes' = votes \cup {[voter |-> j, candidate |-> i, term |-> t]}
        /\ handler' = [handler EXCEPT ![i][j] = "idle"]
        /\ UNCHANGED <<peers, leader, leaderAddr, timer, campaign>>
    BY <1>3 DEF Accept
  <2> HIDE DEF t
  <2>0. /\ term \in [Controller -> Nat] /\ votes \subseteq Vote
        /\ \A k \in Controller : term[k] \in Nat
    BY DEF TypeOK
  <2>5. TypeOK'
    <3>1. votes' \subseteq Vote
      BY <2>0, <2>3, <2>4 DEF Vote
    <3>2. term' \in [Controller -> Nat]
      BY <2>0, <2>3, <2>4
    <3>3. reply' \in [Controller -> [Controller -> {"none", "accept", "reject"}]]
      BY <2>4 DEF TypeOK
    <3>4. handler' \in [Controller -> [Controller -> {"idle", "admitted", "learning", "deposing"}]]
      BY <2>4 DEF TypeOK
    <3> QED
      BY <2>2, <2>4, <3>1, <3>2, <3>3, <3>4 DEF TypeOK
  <2>6. AdmittedHasMessage'
    BY <2>2, <2>4 DEF AdmittedHasMessage, TypeOK
  <2>7. VotesBehind'
    <3>1. \A v \in votes : v.term \in Nat /\ v.voter \in Controller
      BY <2>0 DEF Vote
    <3>2. \A v \in votes : v.term <= term'[v.voter]
      BY <2>0, <2>3, <2>4, <3>1 DEF VotesBehind
    <3> QED
      BY <2>0, <2>3, <2>4, <3>2 DEF VotesBehind
  <2>8. VoteOnce'
    <3>1. \A v \in votes : v.voter = j => v.term <= term[j]
      BY DEF VotesBehind
    <3>2. \A v \in votes : v.term \in Nat
      BY DEF TypeOK, Vote
    <3> QED
      BY <2>3, <2>4, <3>1, <3>2 DEF VoteOnce, TypeOK
  <2> QED
    BY <2>5, <2>6, <2>7, <2>8
<1>4. CASE LearnLeader(i, j)
  <2> DEFINE t == Head(channel[i][j]).term
  <2>1. handler[i][j] = "admitted" /\ Take(i, j)
    BY <1>4 DEF LearnLeader, Arrived
  <2>2. /\ channel' \in [Controller -> [Controller -> Seq(Message)]]
        /\ \A a, b \in Controller : a # i \/ b # j => channel'[a][b] = channel[a][b]
    BY <2>1, TakeKeeps
  <2>3. t \in Nat
    BY <2>1, TakeKeeps DEF Message
  <2>4. /\ term' = [term EXCEPT ![j] = IF t > term[j] THEN t ELSE term[j]]
        /\ handler' = [handler EXCEPT ![i][j] = "learning"]
        /\ UNCHANGED <<peers, leader, leaderAddr, timer, campaign, reply, votes>>
    BY <1>4 DEF LearnLeader
  <2> HIDE DEF t
  <2>0. /\ term \in [Controller -> Nat] /\ votes \subseteq Vote
        /\ \A k \in Controller : term[k] \in Nat
    BY DEF TypeOK
  <2>5. TypeOK'
    BY <2>2, <2>3, <2>4 DEF TypeOK
  <2>6. AdmittedHasMessage'
    BY <2>2, <2>4 DEF AdmittedHasMessage, TypeOK
  <2>7. VotesBehind'
    <3>1. \A v \in votes : v.term \in Nat /\ v.voter \in Controller
      BY <2>0 DEF Vote
    <3>2. \A v \in votes : v.term <= term'[v.voter]
      BY <2>0, <2>3, <2>4, <3>1 DEF VotesBehind
    <3> QED
      BY <2>0, <2>3, <2>4, <3>2 DEF VotesBehind
  <2>8. VoteOnce'
    BY <2>4 DEF VoteOnce
  <2> QED
    BY <2>5, <2>6, <2>7, <2>8
<1> QED
  BY <1>1, <1>2, <1>3, <1>4 DEF HandlerStep

(* No step breaks the invariant. *)
LEMMA NextIInv == IInv /\ [Next]_vars => IInv'
<1> SUFFICES ASSUME IInv, [Next]_vars PROVE IInv'
  OBVIOUS
<1>1. CASE Next
  BY <1>1, TimerStepIInv, HandlerStepIInv DEF Next
<1>2. CASE UNCHANGED vars
  BY <1>2 DEF vars, IInv, TypeOK, AdmittedHasMessage, VotesBehind, VoteOnce
<1> QED
  BY <1>1, <1>2

(* The inductive invariant holds in every reachable state. *)
THEOREM ElectionInvariant == Spec => []IInv
  BY InitIInv, NextIInv, PTL DEF Spec

(* The state keeps its types. *)
THEOREM TypeCorrect == Spec => []TypeOK
<1>1. IInv => TypeOK
  BY DEF IInv
<1> QED
  BY <1>1, ElectionInvariant, PTL

(* A controller accepts at most one candidate in a term, itself included: the
   term only it can raise is never behind a vote it gave. *)
THEOREM OneVotePerTerm == Spec => []VoteOnce
<1>1. IInv => VoteOnce
  BY DEF IInv
<1> QED
  BY <1>1, ElectionInvariant, PTL

(* Two majorities of one term share a controller, which voted once. *)
LEMMA VoteOnceMajority == TypeOK /\ VoteOnce => MajorityUnique
<1> SUFFICES ASSUME TypeOK, VoteOnce,
                    NEW v \in votes, NEW w \in votes, v.term = w.term,
                    Majority(Supporters(v.candidate, v.term)),
                    Majority(Supporters(w.candidate, w.term))
             PROVE  v.candidate = w.candidate
  BY DEF MajorityUnique
<1> DEFINE S == Supporters(v.candidate, v.term)
           T == Supporters(w.candidate, w.term)
<1>1. S \subseteq Controller /\ T \subseteq Controller
  BY DEF Supporters
<1>2. /\ Cardinality(Controller) \in Nat
      /\ Cardinality(S) \in Nat /\ Cardinality(T) \in Nat
  BY <1>1, ElectionAssumption, FS_CardinalityType, FS_Subset
<1>3. Cardinality(S) + Cardinality(T) > Cardinality(Controller)
  BY <1>2 DEF Majority
<1>4. PICK c \in Controller : c \in S /\ c \in T
  BY <1>1, <1>3, ElectionAssumption, FS_MajoritiesIntersect
<1>5. /\ [voter |-> c, candidate |-> v.candidate, term |-> v.term] \in votes
      /\ [voter |-> c, candidate |-> w.candidate, term |-> w.term] \in votes
  BY <1>4 DEF Supporters
<1> QED
  BY <1>5 DEF VoteOnce

(* In every term at most one candidate is accepted by a majority of the
   controllers; it is the threshold of the code, not the voting, that lets two
   controllers lead in one term. *)
THEOREM OneMajorityPerTerm == Spec => []MajorityUnique
<1>1. IInv => MajorityUnique
  BY VoteOnceMajority DEF IInv
<1> QED
  BY <1>1, ElectionInvariant, PTL

(* No task takes a controller's term back. *)
THEOREM TermsGrow == Spec => TermMonotonic
<1>1. ASSUME IInv, [Next]_vars
      PROVE  [\A i \in Controller : term'[i] >= term[i]]_vars
  <2> SUFFICES ASSUME Next PROVE \A k \in Controller : term'[k] >= term[k]
    BY <1>1
  <2>0. term \in [Controller -> Nat]
    BY <1>1 DEF IInv, TypeOK
  <2>1. ASSUME NEW i \in Controller, TimerStep(i)
        PROVE  \A k \in Controller : term'[k] >= term[k]
    BY <2>0, <2>1 DEF TimerStep, Timeout, AskNext, CollectReply, Win, Lose,
                      AnnounceNext, EndAnnouncement
  <2>2. ASSUME NEW i \in Controller, NEW j \in Controller, HandlerStep(i, j)
        PROVE  \A k \in Controller : term'[k] >= term[k]
    <3>1. CASE Admit(i, j) \/ Reject(i, j) \/ SaveLeader(i, j) \/ StepDown(i, j)
      BY <2>0, <3>1 DEF Admit, Reject, SaveLeader, StepDown
    <3>2. CASE Accept(i, j) \/ LearnLeader(i, j)
      <4> DEFINE t == Head(channel[i][j]).term
      <4>1. handler[i][j] = "admitted" /\ Take(i, j)
        BY <3>2 DEF Accept, LearnLeader, Arrived
      <4>2. t \in Nat
        BY <1>1, <4>1, TakeKeeps DEF Message
      <4>3. \/ t > term[j] /\ term' = [term EXCEPT ![j] = t]
            \/ term' = [term EXCEPT ![j] = IF t > term[j] THEN t ELSE term[j]]
        BY <3>2 DEF Accept, LearnLeader
      <4> HIDE DEF t
      <4> QED
        BY <2>0, <4>2, <4>3
    <3> QED
      BY <2>2, <3>1, <3>2 DEF HandlerStep
  <2> QED
    BY <2>1, <2>2 DEF Next
<1> QED
  BY <1>1, ElectionInvariant, PTL DEF Spec, TermMonotonic

----------------------------------------------------------------------------
(* What a controller that lost its flag knows. *)

(* A handler that is about to clear the flag has taken an address first. *)
DepositionKnown ==
  /\ \A i, j \in Controller : handler[i][j] = "deposing" => leaderAddr[j] # None
  /\ \A i \in Controller :
       timer[i] \in {"announcing", "exited"} /\ ~leader[i] => leaderAddr[i] # None

LEMMA DepositionKnownStep ==
  ASSUME IInv, DepositionKnown, [Next]_vars
  PROVE  DepositionKnown'
<1>1. /\ leader \in [Controller -> BOOLEAN]
      /\ leaderAddr \in [Controller -> Controller \cup {None}]
      /\ timer \in [Controller -> {"waiting", "asking", "awaiting", "announcing", "exited"}]
      /\ handler \in [Controller -> [Controller -> {"idle", "admitted", "learning", "deposing"}]]
  BY DEF IInv, TypeOK
<1>2. CASE UNCHANGED vars
  BY <1>2 DEF DepositionKnown, vars
<1>3. ASSUME NEW i \in Controller, TimerStep(i) PROVE DepositionKnown'
  <2>1. /\ UNCHANGED <<handler, leaderAddr>>
        /\ \A k \in Controller : k # i => timer'[k] = timer[k] /\ leader'[k] = leader[k]
    BY <1>1, <1>3 DEF TimerStep, Timeout, AskNext, CollectReply, Win, Lose, AnnounceNext,
       EndAnnouncement
  <2>2. timer'[i] \in {"announcing", "exited"} =>
          leader'[i] \/ (timer[i] \in {"announcing", "exited"} /\ leader'[i] = leader[i])
    <3>1. CASE Timeout(i) \/ AskNext(i) \/ CollectReply(i) \/ Lose(i)
      BY <1>1, <3>1 DEF Timeout, AskNext, CollectReply, Lose
    <3>2. CASE Win(i)
      <4>1. leader'[i] = TRUE
        BY <1>1, <3>2 DEF Win
      <4> QED
        BY <4>1
    <3>3. CASE AnnounceNext(i) \/ EndAnnouncement(i)
      <4>1. timer[i] = "announcing" /\ leader' = leader
        BY <3>3 DEF AnnounceNext, EndAnnouncement
      <4> QED
        BY <4>1
    <3> QED
      BY <1>3, <3>1, <3>2, <3>3 DEF TimerStep
  <2> QED
    BY <2>1, <2>2 DEF DepositionKnown
<1>4. ASSUME NEW i \in Controller, NEW j \in Controller, HandlerStep(i, j) PROVE DepositionKnown'
  <2>1. CASE Admit(i, j) \/ Reject(i, j) \/ Accept(i, j) \/ LearnLeader(i, j)
    <3>1. /\ UNCHANGED <<leader, leaderAddr, timer>>
          /\ \E h \in {"idle", "admitted", "learning"} : handler' = [handler EXCEPT ![i][j] = h]
      BY <2>1 DEF Admit, Reject, Accept, LearnLeader
    <3>2. \A a, b \in Controller : handler'[a][b] = "deposing" => handler[a][b] = "deposing"
      BY <1>1, <3>1
    <3> QED
      BY <3>1, <3>2 DEF DepositionKnown
  <2>2. CASE SaveLeader(i, j)
    <3>1. /\ leaderAddr' = [leaderAddr EXCEPT ![j] = i] /\ UNCHANGED <<leader, timer>>
          /\ handler' = [handler EXCEPT ![i][j] = "deposing"]
      BY <2>2 DEF SaveLeader
    <3> QED
      BY <1>1, <3>1, ElectionAssumption DEF DepositionKnown
  <2>3. CASE StepDown(i, j)
    BY <1>1, <2>3 DEF StepDown, DepositionKnown
  <2> QED
    BY <1>4, <2>1, <2>2, <2>3 DEF HandlerStep
<1> QED
  BY <1>2, <1>3, <1>4 DEF Next

(* A controller that led and was deposed reports a leader to who_leader. *)
THEOREM DeposedReports == Spec => []DeposedKnowsALeader
<1>1. Init => DepositionKnown
  BY DEF Init, InitState, DepositionKnown
<1>2. IInv /\ DepositionKnown /\ [Next]_vars => DepositionKnown'
  BY DepositionKnownStep
<1>3. DepositionKnown => DeposedKnowsALeader
  BY DEF DepositionKnown, DeposedKnowsALeader
<1> QED
  BY <1>1, <1>2, <1>3, ElectionInvariant, PTL DEF Spec

----------------------------------------------------------------------------
(* What a candidate counts.  Everything that concerns a candidate is stated of
   one controller, since most steps leave all the others' campaigns alone. *)

PeersKept == \A i \in Controller : peers[i] \in PeerOrders(i)

(* A candidate has at most one question out: to the peer it is waiting for,
   who has it or has answered it. *)
Question(i) == [kind |-> "election", term |-> campaign[i].term]
Quiet(i, j) == channel[i][j] = <<>> /\ reply[j][i] = "none"
QuestionOut(i, j) ==
  \/ channel[i][j] = <<Question(i)>> /\ reply[j][i] = "none"
  \/ channel[i][j] = <<>> /\ reply[j][i] # "none"

QuestionsOf(i) ==
  /\ timer[i] \in {"waiting", "asking"} => \A j \in Controller : Quiet(i, j)
  /\ timer[i] = "awaiting" =>
       /\ PeersLeft(i) /\ QuestionOut(i, NextPeer(i))
       /\ \A j \in Controller : j # NextPeer(i) => Quiet(i, j)
  /\ timer[i] \in {"announcing", "exited"} =>
       \A j \in Controller :
         /\ reply[j][i] = "none"
         /\ \A k \in DOMAIN channel[i][j] : channel[i][j][k].kind = "leader_elected"

(* No vote for i is newer than its campaign, nor the campaign than i's term. *)
VotesOf(i) == {v \in votes : v.candidate = i}
BehindOf(i) ==
  /\ campaign[i].term <= term[i]
  /\ \A v \in VotesOf(i) : v.term <= campaign[i].term

(* The supporters are among those asked, and all of them are counted but the
   one whose acceptance is still to be read. *)
Asked(i) == {peers[i][k] : k \in 1 .. campaign[i].next - 1}
Uncounted(i) ==
  IF timer[i] = "awaiting" /\ reply[NextPeer(i)][i] = "accept" THEN {NextPeer(i)} ELSE {}
CountedOf(i) ==
  /\ timer[i] \in {"asking", "awaiting"} =>
       Supporters(i, campaign[i].term) \subseteq {i} \cup Asked(i) \cup Uncounted(i)
  /\ timer[i] \in {"asking", "awaiting", "announcing"} =>
       campaign[i].accepts + Cardinality(Uncounted(i))
         = Cardinality(Supporters(i, campaign[i].term))

CampaignOf(i) == QuestionsOf(i) /\ BehindOf(i) /\ CountedOf(i)
CampaignInv == PeersKept /\ \A i \in Controller : CampaignOf(i)

LEMMA PeerFacts ==
  ASSUME TypeOK, PeersKept, NEW i \in Controller, NEW n \in DOMAIN peers[i]
  PROVE  /\ peers[i][n] \in Controller /\ peers[i][n] # i
         /\ \A m \in DOMAIN peers[i] : peers[i][m] = peers[i][n] => m = n
         /\ DOMAIN peers[i] = 1 .. Len(peers[i])
<1>1. peers[i] \in Seq(Controller) /\ peers[i] \in PeerOrders(i)
  BY DEF TypeOK, PeersKept
<1>2. DOMAIN peers[i] = 1 .. Len(peers[i])
  BY <1>1
<1>3. /\ peers[i] \in [1 .. Cardinality(Controller) - 1 -> Controller \ {i}]
      /\ \A a, b \in DOMAIN peers[i] : peers[i][a] = peers[i][b] => a = b
  BY <1>1, Zenon DEF PeerOrders
<1>4. peers[i][n] \in Controller \ {i}
  BY <1>3
<1> QED
  BY <1>2, <1>3, <1>4

LEMMA NextPeerFacts ==
  ASSUME TypeOK, PeersKept, NEW i \in Controller, PeersLeft(i)
  PROVE  /\ NextPeer(i) \in Controller /\ NextPeer(i) # i /\ NextPeer(i) \notin Asked(i)
         /\ campaign[i].next \in Nat \ {0} /\ Len(peers[i]) \in Nat
<1>1. campaign[i].next \in Nat \ {0} /\ peers[i] \in Seq(Controller)
  BY CampaignParts DEF TypeOK
<1>2. /\ DOMAIN peers[i] = 1 .. Len(peers[i]) /\ Len(peers[i]) \in Nat
      /\ campaign[i].next \in DOMAIN peers[i]
  BY <1>1 DEF PeersLeft
<1>3. 1 .. campaign[i].next - 1 \subseteq DOMAIN peers[i]
  BY <1>1, <1>2
<1> QED
  BY <1>1, <1>2, <1>3, PeerFacts DEF NextPeer, Asked

LEMMA SupportersFinite ==
  ASSUME NEW i, NEW t
  PROVE  IsFiniteSet(Supporters(i, t)) /\ Cardinality(Supporters(i, t)) \in Nat
<1>1. Supporters(i, t) \in SUBSET Controller
  BY DEF Supporters
<1> QED
  BY <1>1, ElectionAssumption, FS_Subset, FS_CardinalityType

LEMMA UncountedSize ==
  ASSUME NEW i
  PROVE  Cardinality(Uncounted(i)) = IF Uncounted(i) = {} THEN 0 ELSE 1
BY FS_EmptySet, FS_Singleton DEF Uncounted

(* Steps that leave the campaign of i alone. *)
Untouched(i) ==
  /\ timer'[i] = timer[i] /\ campaign'[i] = campaign[i]
  /\ channel'[i] = channel[i] /\ \A j \in Controller : reply'[j][i] = reply[j][i]
  /\ term'[i] >= term[i] /\ VotesOf(i)' = VotesOf(i)

LEMMA SupportersSame ==
  ASSUME NEW i, NEW t, VotesOf(i)' = VotesOf(i)
  PROVE  Supporters(i, t)' = Supporters(i, t)
<1>1. \A v \in Controller :
        LET x == [voter |-> v, candidate |-> i, term |-> t]
        IN  /\ x \in votes' <=> x \in VotesOf(i)'
            /\ x \in votes <=> x \in VotesOf(i)
  BY DEF VotesOf
<1> QED
  BY <1>1 DEF Supporters

LEMMA CampaignUntouched ==
  ASSUME TypeOK, PeersKept, UNCHANGED peers, NEW i \in Controller, CampaignOf(i), Untouched(i),
         term'[i] \in Nat
  PROVE  CampaignOf(i)'
<1> USE DEF CampaignOf, Untouched
<1>1. /\ PeersLeft(i)' = PeersLeft(i) /\ NextPeer(i)' = NextPeer(i)
      /\ Question(i)' = Question(i) /\ Asked(i)' = Asked(i)
  BY DEF PeersLeft, NextPeer, Question, Asked
<1>2. QuestionsOf(i)'
  <2>1. \A j \in Controller : Quiet(i, j)' = Quiet(i, j) /\ QuestionOut(i, j)' = QuestionOut(i, j)
    BY <1>1 DEF Quiet, QuestionOut
  <2>2. timer[i] = "awaiting" => NextPeer(i) \in Controller
    BY NextPeerFacts DEF QuestionsOf
  <2> QED
    BY <1>1, <2>1, <2>2 DEF QuestionsOf
<1>3. BehindOf(i)'
  <2>1. campaign[i].term \in Nat /\ term[i] \in Nat
    BY CampaignParts DEF TypeOK
  <2> QED
    BY <2>1 DEF BehindOf
<1>4. CountedOf(i)'
  <2>1. Uncounted(i)' = Uncounted(i)
    <3>1. timer[i] = "awaiting" => NextPeer(i) \in Controller
      BY NextPeerFacts DEF QuestionsOf
    <3> QED
      BY <1>1, <3>1 DEF Uncounted
  <2>2. Supporters(i, campaign[i].term)' = Supporters(i, campaign[i].term)
    BY SupportersSame DEF Supporters
  <2> QED
    BY <1>1, <2>1, <2>2 DEF CountedOf
<1> QED
  BY <1>2, <1>3, <1>4

(* Sending and taking, message by message. *)
LEMMA Sent ==
  ASSUME TypeOK, NEW i \in Controller, NEW j \in Controller, NEW m, Send(i, j, m)
  PROVE  /\ channel'[i][j] = Append(channel[i][j], m)
         /\ \A b \in Controller : b # j => channel'[i][b] = channel[i][b]
         /\ \A a \in Controller : a # i => channel'[a] = channel[a]
BY DEF Send, TypeOK

LEMMA Taken ==
  ASSUME TypeOK, NEW i \in Controller, NEW j \in Controller, Take(i, j)
  PROVE  /\ channel'[i][j] = Tail(channel[i][j])
         /\ \A b \in Controller : b # j => channel'[i][b] = channel[i][b]
         /\ \A a \in Controller : a # i => channel'[a] = channel[a]
BY DEF Take, TypeOK

(* A timer task and the peers' tasks for its connections concern one campaign. *)
LEMMA TimerUntouched ==
  ASSUME TypeOK, PeersKept, NEW i \in Controller, CampaignOf(i), TimerStep(i),
         NEW k \in Controller, k # i
  PROVE  Untouched(k)
<1>1. /\ term[k] \in Nat
      /\ timer \in [Controller -> {"waiting", "asking", "awaiting", "announcing", "exited"}]
      /\ campaign \in [Controller -> Campaign]
      /\ term \in [Controller -> Nat]
  BY DEF TypeOK
<1>2. timer'[k] = timer[k] /\ campaign'[k] = campaign[k] /\ term'[k] = term[k]
  BY <1>1 DEF TimerStep, Timeout, AskNext, CollectReply, Win, Lose, AnnounceNext, EndAnnouncement
<1>3. VotesOf(k)' = VotesOf(k)
  BY DEF TimerStep, Timeout, AskNext, CollectReply, Win, Lose, AnnounceNext, EndAnnouncement, VotesOf
<1>4. channel'[k] = channel[k]
  <2>1. CASE AskNext(i) \/ AnnounceNext(i)
    <3>1. NextPeer(i) \in Controller /\ \E m : Send(i, NextPeer(i), m)
      BY <2>1, NextPeerFacts DEF AskNext, AnnounceNext
    <3> QED
      BY <3>1, Sent
  <2> QED
    BY <2>1 DEF TimerStep, Timeout, CollectReply, Win, Lose, EndAnnouncement
<1>5. \A j \in Controller : reply'[j][k] = reply[j][k]
  <2>1. CASE CollectReply(i)
    <3>1. reply' = [reply EXCEPT ![NextPeer(i)][i] = "none"]
      BY <2>1 DEF CollectReply
    <3> QED
      BY <3>1 DEF TypeOK
  <2> QED
    BY <2>1 DEF TimerStep, Timeout, AskNext, Win, Lose, AnnounceNext, EndAnnouncement
<1> QED
  BY <1>1, <1>2, <1>3, <1>4, <1>5 DEF Untouched

LEMMA HandlerUntouched ==
  ASSUME IInv, NEW i \in Controller, NEW j \in Controller, HandlerStep(i, j),
         NEW k \in Controller, k # i
  PROVE  Untouched(k)
<1>1. TypeOK
  BY DEF IInv
<1>2. UNCHANGED <<timer, campaign>>
  BY DEF HandlerStep, Admit, Reject, Accept, LearnLeader, SaveLeader, StepDown
<1>3. term'[k] >= term[k]
  <2>1. term \in [Controller -> Nat]
    BY <1>1 DEF TypeOK
  <2>2. CASE Accept(i, j) \/ LearnLeader(i, j)
    <3> DEFINE t == Head(channel[i][j]).term
    <3>1. t \in Nat
      BY <2>2, TakeKeeps DEF Accept, LearnLeader, Arrived, Message
    <3>2. \/ t > term[j] /\ term' = [term EXCEPT ![j] = t]
          \/ term' = [term EXCEPT ![j] = IF t > term[j] THEN t ELSE term[j]]
      BY <2>2 DEF Accept, LearnLeader
    <3> HIDE DEF t
    <3> QED
      BY <2>1, <3>1, <3>2
  <2>3. CASE Admit(i, j) \/ Reject(i, j) \/ SaveLeader(i, j) \/ StepDown(i, j)
    BY <2>1, <2>3 DEF Admit, Reject, SaveLeader, StepDown
  <2> QED
    BY <2>2, <2>3 DEF HandlerStep
<1>4. VotesOf(k)' = VotesOf(k)
  BY DEF HandlerStep, Admit, Reject, Accept, LearnLeader, SaveLeader, StepDown, VotesOf
<1>5. channel'[k] = channel[k]
  BY <1>1, Taken DEF HandlerStep, Admit, Reject, Accept, LearnLeader, SaveLeader, StepDown
<1>6. \A a \in Controller : reply'[a][k] = reply[a][k]
  <2>1. \/ UNCHANGED reply
        \/ reply' = [reply EXCEPT ![j][i] = "reject"]
        \/ reply' = [reply EXCEPT ![j][i] = "accept"]
    BY DEF HandlerStep, Admit, Reject, Accept, LearnLeader, SaveLeader, StepDown
  <2>2. reply \in [Controller -> [Controller -> {"none", "accept", "reject"}]]
    BY <1>1 DEF TypeOK
  <2>3. ASSUME NEW e, reply' = [reply EXCEPT ![j][i] = e], NEW a \in Controller
        PROVE  reply'[a][k] = reply[a][k]
    BY <2>2, <2>3
  <2> QED
    BY <2>1, <2>3
<1> QED
  BY <1>2, <1>3, <1>4, <1>5, <1>6 DEF Untouched

(* The candidate's own steps. *)
LEMMA TimeoutCampaign ==
  ASSUME TypeOK, NEW i \in Controller, CampaignOf(i), Timeout(i)
  PROVE  CampaignOf(i)'
<1> DEFINE own == [voter |-> i, candidate |-> i, term |-> term[i] + 1]
<1>1. /\ timer[i] = "waiting" /\ timer'[i] = "asking" /\ term'[i] = term[i] + 1
      /\ campaign'[i].term = term[i] + 1 /\ campaign'[i].next = 1 /\ campaign'[i].accepts = 1
      /\ votes' = votes \cup {own}
      /\ UNCHANGED <<channel, reply>>
      /\ term[i] \in Nat /\ campaign[i].term \in Nat
  BY CampaignParts DEF Timeout, TypeOK
<1>2. QuestionsOf(i)'
  BY <1>1 DEF CampaignOf, QuestionsOf, Quiet
<1>3. \A v \in VotesOf(i) : v.term <= term[i] /\ v.term \in Nat
  BY <1>1 DEF CampaignOf, BehindOf, VotesOf, TypeOK, Vote
<1>4. VotesOf(i)' = VotesOf(i) \cup {own}
  BY <1>1 DEF VotesOf
<1>5. BehindOf(i)'
  BY <1>1, <1>3, <1>4 DEF BehindOf
<1>6. Supporters(i, campaign[i].term)' = {i}
  <2>1. \A v \in Controller : [voter |-> v, candidate |-> i, term |-> term[i] + 1] \notin votes
    BY <1>1, <1>3 DEF VotesOf
  <2>2. \A v \in Controller :
          [voter |-> v, candidate |-> i, term |-> term[i] + 1] \in votes' <=> v = i
    BY <1>1, <2>1
  <2> QED
    BY <1>1, <2>2 DEF Supporters
<1>7. CountedOf(i)'
  <2>1. Uncounted(i)' = {}
    BY <1>1 DEF Uncounted
  <2>2. Cardinality({i}) = 1 /\ Cardinality({}) = 0
    BY FS_Singleton, FS_EmptySet
  <2>3. /\ Cardinality(Uncounted(i)') = 0
        /\ Cardinality(Supporters(i, campaign[i].term)') = 1
    BY <1>6, <2>1, <2>2
  <2> QED
    BY <1>1, <1>6, <2>3 DEF CountedOf
<1> QED
  BY <1>2, <1>5, <1>7 DEF CampaignOf

LEMMA AskNextCampaign ==
  ASSUME TypeOK, PeersKept, NEW i \in Controller, CampaignOf(i), AskNext(i)
  PROVE  CampaignOf(i)'
<1>1. /\ timer[i] = "asking" /\ timer'[i] = "awaiting" /\ PeersLeft(i)
      /\ Send(i, NextPeer(i), Question(i))
      /\ UNCHANGED <<peers, term, campaign, reply, votes>>
  BY DEF AskNext, TypeOK, Question
<1>2. NextPeer(i) \in Controller /\ NextPeer(i)' = NextPeer(i) /\ PeersLeft(i)'
      /\ Question(i)' = Question(i) /\ Asked(i)' = Asked(i)
  BY <1>1, NextPeerFacts DEF NextPeer, PeersLeft, Question, Asked
<1>3. \A j \in Controller : Quiet(i, j)
  BY <1>1 DEF CampaignOf, QuestionsOf
<1>4. /\ channel'[i][NextPeer(i)] = <<Question(i)>>
      /\ \A b \in Controller : b # NextPeer(i) => channel'[i][b] = <<>>
  BY <1>1, <1>2, <1>3, Sent DEF Quiet
<1>5. QuestionsOf(i)'
  <2>1. QuestionOut(i, NextPeer(i))'
    BY <1>1, <1>2, <1>3, <1>4 DEF QuestionOut, Quiet
  <2>2. \A j \in Controller : j # NextPeer(i) => Quiet(i, j)'
    BY <1>1, <1>3, <1>4 DEF Quiet
  <2> QED
    BY <1>1, <1>2, <2>1, <2>2 DEF QuestionsOf
<1>6. BehindOf(i)'
  BY <1>1 DEF CampaignOf, BehindOf, VotesOf
<1>7. CountedOf(i)'
  <2>1. Uncounted(i) = {} /\ Uncounted(i)' = {}
    BY <1>1, <1>2, <1>3 DEF Uncounted, Quiet
  <2>2. Supporters(i, campaign[i].term)' = Supporters(i, campaign[i].term)
    BY <1>1 DEF Supporters
  <2> QED
    BY <1>1, <1>2, <2>1, <2>2 DEF CampaignOf, CountedOf
<1> QED
  BY <1>5, <1>6, <1>7 DEF CampaignOf

LEMMA CollectReplyCampaign ==
  ASSUME TypeOK, PeersKept, NEW i \in Controller, CampaignOf(i), CollectReply(i)
  PROVE  CampaignOf(i)'
<1> DEFINE p == NextPeer(i)
           n == IF reply[p][i] = "accept" THEN 1 ELSE 0
<1>1. /\ timer[i] = "awaiting" /\ timer'[i] = "asking" /\ PeersLeft(i)
      /\ reply[p][i] # "none"
      /\ campaign'[i].term = campaign[i].term
      /\ campaign'[i].next = campaign[i].next + 1
      /\ campaign'[i].accepts = campaign[i].accepts + n
      /\ reply' = [reply EXCEPT ![p][i] = "none"]
      /\ UNCHANGED <<peers, term, channel, votes>>
      /\ campaign[i].accepts \in Nat
  BY CampaignParts DEF CollectReply, TypeOK, CampaignOf, QuestionsOf
<1>2. p \in Controller /\ campaign[i].next \in Nat \ {0}
  BY <1>1, NextPeerFacts
<1>3. /\ QuestionOut(i, p)
      /\ \A j \in Controller : j # p => Quiet(i, j)
  BY <1>1 DEF CampaignOf, QuestionsOf
<1>4. QuestionsOf(i)'
  <2>1. reply'[p][i] = "none" /\ \A j \in Controller : j # p => reply'[j][i] = reply[j][i]
    BY <1>1, <1>2 DEF TypeOK
  <2>2. \A j \in Controller : Quiet(i, j)'
    BY <1>1, <1>3, <2>1 DEF QuestionOut, Quiet
  <2> QED
    BY <1>1, <2>2 DEF QuestionsOf
<1>5. BehindOf(i)'
  BY <1>1 DEF CampaignOf, BehindOf, VotesOf
<1>6. CountedOf(i)'
  <2>1. Uncounted(i)' = {} /\ Uncounted(i) = (IF n = 1 THEN {p} ELSE {})
    BY <1>1 DEF Uncounted
  <2>2. Cardinality(Uncounted(i)) = n /\ Cardinality(Uncounted(i)') = 0
    BY <2>1, FS_EmptySet, FS_Singleton
  <2>3. Supporters(i, campaign[i].term)' = Supporters(i, campaign[i].term)
    BY <1>1 DEF Supporters
  <2>4. Asked(i) \cup {p} \subseteq Asked(i)'
    <3>1. 1 .. campaign[i].next - 1 \subseteq 1 .. campaign'[i].next - 1
          /\ campaign[i].next \in 1 .. campaign'[i].next - 1
      BY <1>1, <1>2
    <3> QED
      BY <1>1, <3>1 DEF Asked, NextPeer
  <2> QED
    BY <1>1, <2>1, <2>2, <2>3, <2>4, SupportersFinite DEF CampaignOf, CountedOf
<1> QED
  BY <1>4, <1>5, <1>6 DEF CampaignOf

LEMMA OutcomeCampaign ==
  ASSUME TypeOK, NEW i \in Controller, CampaignOf(i), Win(i) \/ Lose(i) \/ EndAnnouncement(i)
  PROVE  CampaignOf(i)'
<1>1. /\ campaign'[i].term = campaign[i].term /\ campaign'[i].accepts = campaign[i].accepts
      /\ UNCHANGED <<term, channel, reply, votes>>
      /\ \/ timer[i] = "asking" /\ timer'[i] \in {"announcing", "waiting"}
         \/ timer[i] = "announcing" /\ timer'[i] = "exited"
  <2>1. campaign \in [Controller -> Campaign]
        /\ timer \in [Controller -> {"waiting", "asking", "awaiting", "announcing", "exited"}]
    BY DEF TypeOK
  <2>2. CASE Win(i)
    BY <2>1, <2>2 DEF Win, Campaign
  <2>3. CASE Lose(i) \/ EndAnnouncement(i)
    BY <2>1, <2>3 DEF Lose, EndAnnouncement
  <2> QED
    BY <2>2, <2>3
<1>2. QuestionsOf(i)'
  <2>1. \A j \in Controller : Quiet(i, j) => Quiet(i, j)' /\ DOMAIN channel[i][j] = {}
    BY <1>1 DEF Quiet
  <2> QED
    BY <1>1, <2>1 DEF CampaignOf, QuestionsOf, Quiet
<1>3. BehindOf(i)'
  BY <1>1 DEF CampaignOf, BehindOf, VotesOf
<1>4. CountedOf(i)'
  <2>1. Uncounted(i) = {} /\ Uncounted(i)' = {}
    BY <1>1 DEF Uncounted
  <2>2. Supporters(i, campaign[i].term)' = Supporters(i, campaign[i].term)
    BY <1>1 DEF Supporters
  <2> QED
    BY <1>1, <2>1, <2>2 DEF CampaignOf, CountedOf
<1> QED
  BY <1>2, <1>3, <1>4 DEF CampaignOf

LEMMA AnnounceNextCampaign ==
  ASSUME TypeOK, PeersKept, NEW i \in Controller, CampaignOf(i), AnnounceNext(i)
  PROVE  CampaignOf(i)'
<1> DEFINE m == [kind |-> "leader_elected", term |-> term[i]]
           p == NextPeer(i)
<1>1. /\ timer[i] = "announcing" /\ timer'[i] = "announcing" /\ PeersLeft(i)
      /\ Send(i, p, m)
      /\ campaign'[i].term = campaign[i].term /\ campaign'[i].accepts = campaign[i].accepts
      /\ UNCHANGED <<term, reply, votes>>
  BY CampaignParts DEF AnnounceNext, TypeOK
<1>2. QuestionsOf(i)'
  <2>1. p \in Controller /\ m.kind = "leader_elected"
    BY <1>1, NextPeerFacts
  <2> HIDE DEF m, p
  <2>2. /\ channel'[i][p] = Append(channel[i][p], m)
        /\ \A b \in Controller : b # p => channel'[i][b] = channel[i][b]
    BY <1>1, <2>1, Sent
  <2>3. channel[i][p] \in Seq(Message) /\ m \in Message
    BY <2>1 DEF TypeOK, Message, m
  <2>4. \A k \in DOMAIN channel'[i][p] : channel'[i][p][k].kind = "leader_elected"
    <3>1. \A k \in DOMAIN channel[i][p] : channel[i][p][k].kind = "leader_elected"
      BY <1>1, <2>1 DEF CampaignOf, QuestionsOf
    <3> HIDE DEF Message
    <3> QED
      BY <2>1, <2>2, <2>3, <3>1, AppendProperties
  <2> QED
    BY <1>1, <2>2, <2>4 DEF CampaignOf, QuestionsOf
<1>3. BehindOf(i)'
  BY <1>1 DEF CampaignOf, BehindOf, VotesOf
<1>4. CountedOf(i)'
  <2>1. Uncounted(i) = {} /\ Uncounted(i)' = {}
    BY <1>1 DEF Uncounted
  <2>2. Supporters(i, campaign[i].term)' = Supporters(i, campaign[i].term)
    BY <1>1 DEF Supporters
  <2> QED
    BY <1>1, <2>1, <2>2 DEF CampaignOf, CountedOf
<1> QED
  BY <1>2, <1>3, <1>4 DEF CampaignOf

(* The peers' steps for the candidate. *)

(* A question that has arrived is the one the candidate waits for. *)
LEMMA QuestionArrived ==
  ASSUME IInv, NEW i \in Controller, NEW j \in Controller, CampaignOf(i), Arrived(i, j, "election")
  PROVE  /\ timer[i] = "awaiting" /\ j = NextPeer(i) /\ PeersLeft(i)
         /\ channel[i][j] = <<Question(i)>> /\ reply[j][i] = "none"
<1>1. channel[i][j] # <<>> /\ channel[i][j] \in Seq(Message) /\ Head(channel[i][j]).kind = "election"
  BY DEF IInv, AdmittedHasMessage, Arrived, TypeOK
<1>2. 1 \in DOMAIN channel[i][j] /\ channel[i][j][1].kind = "election"
  BY <1>1
<1>3. timer[i] \in {"waiting", "asking", "awaiting", "announcing", "exited"}
  BY DEF IInv, TypeOK
<1> QED
  BY <1>1, <1>2, <1>3 DEF CampaignOf, QuestionsOf, QuestionOut, Quiet

LEMMA RejectCampaign ==
  ASSUME IInv, PeersKept, NEW i \in Controller, NEW j \in Controller, CampaignOf(i), Reject(i, j)
  PROVE  CampaignOf(i)'
<1>1. /\ timer[i] = "awaiting" /\ j = NextPeer(i) /\ PeersLeft(i)
      /\ channel[i][j] = <<Question(i)>> /\ reply[j][i] = "none"
  BY QuestionArrived DEF Reject
<1>2. /\ UNCHANGED <<peers, term, timer, campaign, votes>> /\ Take(i, j)
      /\ reply' = [reply EXCEPT ![j][i] = "reject"]
  BY DEF Reject
<1>3. /\ channel'[i][j] = <<>> /\ reply'[j][i] = "reject"
      /\ \A b \in Controller : b # j => channel'[i][b] = channel[i][b] /\ reply'[b][i] = reply[b][i]
  <2>1. TypeOK /\ reply \in [Controller -> [Controller -> {"none", "accept", "reject"}]]
    BY DEF IInv, TypeOK
  <2>2. reply'[j][i] = "reject" /\ \A b \in Controller : b # j => reply'[b][i] = reply[b][i]
    BY <1>2, <2>1
  <2>3. /\ channel'[i][j] = Tail(channel[i][j])
        /\ \A b \in Controller : b # j => channel'[i][b] = channel[i][b]
    BY <1>2, <2>1, Taken
  <2>4. channel'[i][j] = <<>>
    BY <1>1, <2>3
  <2> QED
    BY <2>2, <2>3, <2>4
<1>4. NextPeer(i)' = NextPeer(i) /\ PeersLeft(i)' /\ Asked(i)' = Asked(i)
  BY <1>1, <1>2 DEF NextPeer, PeersLeft, Asked
<1>5. QuestionsOf(i)'
  BY <1>1, <1>2, <1>3, <1>4 DEF CampaignOf, QuestionsOf, QuestionOut, Quiet
<1>6. BehindOf(i)'
  BY <1>2 DEF CampaignOf, BehindOf, VotesOf
<1>7. CountedOf(i)'
  <2>1. Uncounted(i) = {} /\ Uncounted(i)' = {}
    BY <1>1, <1>2, <1>3, <1>4 DEF Uncounted
  <2>2. Supporters(i, campaign[i].term)' = Supporters(i, campaign[i].term)
    BY <1>2 DEF Supporters
  <2> QED
    BY <1>1, <1>2, <1>4, <2>1, <2>2 DEF CampaignOf, CountedOf
<1> QED
  BY <1>5, <1>6, <1>7 DEF CampaignOf

LEMMA AcceptCampaign ==
  ASSUME IInv, PeersKept, NEW i \in Controller, NEW j \in Controller, CampaignOf(i), Accept(i, j)
  PROVE  CampaignOf(i)'
<1> DEFINE t == campaign[i].term
           vote == [voter |-> j, candidate |-> i, term |-> t]
<1>1. /\ timer[i] = "awaiting" /\ j = NextPeer(i) /\ PeersLeft(i)
      /\ channel[i][j] = <<Question(i)>> /\ reply[j][i] = "none"
  BY QuestionArrived DEF Accept
<1>2. Head(channel[i][j]).term = t
  BY <1>1 DEF Question
<1>3. /\ UNCHANGED <<peers, timer, campaign>> /\ Take(i, j)
      /\ reply' = [reply EXCEPT ![j][i] = "accept"]
      /\ t > term[j] /\ term' = [term EXCEPT ![j] = t]
      /\ votes' = votes \cup {vote}
  BY <1>2 DEF Accept
<1>4. /\ channel'[i][j] = <<>> /\ reply'[j][i] = "accept"
      /\ \A b \in Controller : b # j => channel'[i][b] = channel[i][b] /\ reply'[b][i] = reply[b][i]
  <2>1. TypeOK /\ reply \in [Controller -> [Controller -> {"none", "accept", "reject"}]]
    BY DEF IInv, TypeOK
  <2>2. reply'[j][i] = "accept" /\ \A b \in Controller : b # j => reply'[b][i] = reply[b][i]
    BY <1>3, <2>1
  <2>3. /\ channel'[i][j] = Tail(channel[i][j])
        /\ \A b \in Controller : b # j => channel'[i][b] = channel[i][b]
    BY <1>3, <2>1, Taken
  <2>4. channel'[i][j] = <<>>
    BY <1>1, <2>3
  <2> QED
    BY <2>2, <2>3, <2>4
<1>5. NextPeer(i)' = NextPeer(i) /\ PeersLeft(i)' /\ Asked(i)' = Asked(i)
  BY <1>1, <1>3 DEF NextPeer, PeersLeft, Asked
<1>6. j # i /\ j \notin Asked(i)
  BY <1>1, NextPeerFacts DEF IInv
<1>7. QuestionsOf(i)'
  BY <1>1, <1>3, <1>4, <1>5 DEF CampaignOf, QuestionsOf, QuestionOut, Quiet
<1>8. BehindOf(i)'
  <2>1. term'[i] = term[i] /\ campaign'[i].term = t /\ t \in Nat
    BY <1>3, <1>6, CampaignParts DEF IInv, TypeOK
  <2>2. VotesOf(i)' = VotesOf(i) \cup {vote} /\ vote.term = t
    BY <1>3 DEF VotesOf
  <2> QED
    BY <2>1, <2>2 DEF CampaignOf, BehindOf
<1>9. CountedOf(i)'
  <2>1. Uncounted(i) = {} /\ Uncounted(i)' = {j}
    BY <1>1, <1>3, <1>4, <1>5 DEF Uncounted
  <2>2. Supporters(i, campaign[i].term)' = Supporters(i, t) \cup {j}
    BY <1>3 DEF Supporters
  <2>3. /\ Supporters(i, t) \subseteq {i} \cup Asked(i)
        /\ campaign[i].accepts + 0 = Cardinality(Supporters(i, t))
    <3>1. Cardinality(Uncounted(i)) = 0
      BY <2>1, FS_EmptySet
    <3> QED
      BY <1>1, <2>1, <3>1 DEF CampaignOf, CountedOf
  <2>4. /\ Cardinality(Supporters(i, t) \cup {j}) = Cardinality(Supporters(i, t)) + 1
        /\ Cardinality({j}) = 1
    <3>1. j \notin Supporters(i, t)
      BY <1>6, <2>3
    <3> HIDE DEF t
    <3> QED
      BY <3>1, SupportersFinite, FS_AddElement, FS_Singleton
  <2>5. campaign[i].accepts \in Nat
    BY CampaignParts DEF IInv, TypeOK
  <2>6. campaign'[i].accepts + Cardinality(Uncounted(i)')
          = Cardinality(Supporters(i, campaign[i].term)')
    BY <1>3, <2>1, <2>2, <2>3, <2>4, <2>5
  <2>7. Supporters(i, campaign[i].term)' \subseteq {i} \cup Asked(i)' \cup Uncounted(i)'
    BY <1>5, <2>1, <2>2, <2>3
  <2> QED
    BY <2>6, <2>7 DEF CountedOf
<1> QED
  BY <1>7, <1>8, <1>9 DEF CampaignOf

LEMMA LearnLeaderCampaign ==
  ASSUME IInv, PeersKept, NEW i \in Controller, NEW j \in Controller, CampaignOf(i),
         LearnLeader(i, j)
  PROVE  CampaignOf(i)'
<1>1. channel[i][j] # <<>> /\ channel[i][j] \in Seq(Message)
      /\ Head(channel[i][j]).kind = "leader_elected"
  BY DEF IInv, AdmittedHasMessage, LearnLeader, Arrived, TypeOK
<1>2. timer[i] \in {"announcing", "exited"}
  <2>1. timer[i] \in {"waiting", "asking", "awaiting", "announcing", "exited"}
    BY DEF IInv, TypeOK
  <2>2. channel[i][j] # <<Question(i)>>
    BY <1>1 DEF Question
  <2> QED
    BY <1>1, <2>1, <2>2 DEF CampaignOf, QuestionsOf, QuestionOut, Quiet
<1>3. /\ UNCHANGED <<peers, timer, campaign, reply, votes>> /\ Take(i, j)
      /\ term'[i] >= term[i] /\ term'[i] \in Nat /\ term[i] \in Nat /\ campaign[i].term \in Nat
  <2>1. Head(channel[i][j]).term \in Nat
    BY TakeKeeps DEF LearnLeader, Arrived, Message
  <2>2. term \in [Controller -> Nat] /\ campaign[i].term \in Nat
    BY CampaignParts DEF IInv, TypeOK
  <2> QED
    BY <2>1, <2>2 DEF LearnLeader
<1>4. QuestionsOf(i)'
  <2>1. /\ channel'[i][j] = Tail(channel[i][j])
        /\ \A b \in Controller : b # j => channel'[i][b] = channel[i][b]
    BY <1>3, Taken DEF IInv
  <2>2. \A k \in DOMAIN channel'[i][j] : channel'[i][j][k].kind = "leader_elected"
    <3>1. \A k \in DOMAIN channel[i][j] : channel[i][j][k].kind = "leader_elected"
      BY <1>2 DEF CampaignOf, QuestionsOf
    <3> HIDE DEF Message
    <3>2. \A k \in DOMAIN Tail(channel[i][j]) :
            k + 1 \in DOMAIN channel[i][j] /\ Tail(channel[i][j])[k] = channel[i][j][k + 1]
      BY <1>1
    <3> QED
      BY <2>1, <3>1, <3>2
  <2> QED
    BY <1>2, <1>3, <2>1, <2>2 DEF CampaignOf, QuestionsOf
<1>5. BehindOf(i)'
  BY <1>3 DEF CampaignOf, BehindOf, VotesOf
<1>6. CountedOf(i)'
  <2>1. Uncounted(i) = {} /\ Uncounted(i)' = {}
    BY <1>2, <1>3 DEF Uncounted
  <2>2. Supporters(i, campaign[i].term)' = Supporters(i, campaign[i].term)
    BY <1>3 DEF Supporters
  <2> QED
    BY <1>2, <1>3, <2>1, <2>2 DEF CampaignOf, CountedOf
<1> QED
  BY <1>4, <1>5, <1>6 DEF CampaignOf

LEMMA CampaignInvStep ==
  ASSUME IInv, CampaignInv, [Next]_vars
  PROVE  CampaignInv'
<1>1. TypeOK /\ PeersKept /\ IInv' /\ UNCHANGED peers
  <2>1. UNCHANGED peers
    BY DEF Next, vars, TimerStep, Timeout, AskNext, CollectReply, Win, Lose, AnnounceNext,
       EndAnnouncement, HandlerStep, Admit, Reject, Accept, LearnLeader, SaveLeader, StepDown
  <2> QED
    BY <2>1, NextIInv DEF IInv, CampaignInv
<1>2. PeersKept'
  BY <1>1 DEF PeersKept, PeerOrders
<1>3. ASSUME NEW k \in Controller PROVE CampaignOf(k)'
  <2>1. CampaignOf(k) /\ term'[k] \in Nat /\ term[k] \in Nat
    BY <1>1 DEF CampaignInv, IInv, TypeOK
  <2>2. CASE Untouched(k)
    BY <1>1, <2>1, <2>2, CampaignUntouched
  <2>3. CASE UNCHANGED vars
    <3>1. Untouched(k)
      BY <2>1, <2>3 DEF vars, Untouched, VotesOf
    <3> QED
      BY <2>2, <3>1
  <2>4. ASSUME NEW i \in Controller, TimerStep(i) PROVE CampaignOf(k)'
    <3>1. CASE k = i
      BY <1>1, <2>1, <2>4, <3>1, TimeoutCampaign, AskNextCampaign, CollectReplyCampaign,
         OutcomeCampaign, AnnounceNextCampaign DEF TimerStep
    <3>2. CASE k # i
      BY <1>1, <2>2, <2>4, <3>2, TimerUntouched DEF CampaignInv
    <3> QED
      BY <3>1, <3>2
  <2>5. ASSUME NEW i \in Controller, NEW j \in Controller, HandlerStep(i, j) PROVE CampaignOf(k)'
    <3>1. CASE k # i
      BY <2>2, <2>5, <3>1, HandlerUntouched
    <3>2. CASE k = i /\ (Admit(i, j) \/ SaveLeader(i, j) \/ StepDown(i, j))
      <4>1. Untouched(k)
        BY <2>1, <3>2 DEF Admit, SaveLeader, StepDown, Untouched, VotesOf
      <4> QED
        BY <2>2, <4>1
    <3> QED
      BY <1>1, <2>1, <2>5, <3>1, <3>2, RejectCampaign, AcceptCampaign, LearnLeaderCampaign
         DEF HandlerStep
  <2> QED
    BY <2>3, <2>4, <2>5 DEF Next
<1> QED
  BY <1>2, <1>3 DEF CampaignInv

(* A candidate that announces itself counted every vote it was given in the
   term of its campaign, and no other: neither an answer to a question of an
   earlier campaign nor one that came twice. *)
THEOREM CountIsHonest == Spec => []CountsItsVotes
<1>1. Init => CampaignInv
  BY DEF Init, InitState, CampaignInv, PeersKept, CampaignOf, QuestionsOf, Quiet, BehindOf, VotesOf,
     CountedOf
<1>2. IInv /\ CampaignInv /\ [Next]_vars => CampaignInv'
  BY CampaignInvStep
<1>3. IInv /\ CampaignInv => CountsItsVotes
  <2> SUFFICES ASSUME IInv, CampaignInv, NEW i \in Controller, timer[i] = "announcing"
               PROVE  campaign[i].accepts = Cardinality(Supporters(i, campaign[i].term))
    BY DEF CountsItsVotes
  <2>1. Cardinality(Uncounted(i)) = 0
    BY FS_EmptySet DEF Uncounted
  <2> QED
    BY <2>1, CampaignParts DEF IInv, TypeOK, CampaignInv, CampaignOf, CountedOf
<1> QED
  BY <1>1, <1>2, <1>3, ElectionInvariant, PTL DEF Spec

----------------------------------------------------------------------------
(* The brokers that look for the leader. *)

(* What keeps it: a leader is announced, reported and joined only after it won. *)
Announced ==
  \A i, j \in Controller : \A n \in DOMAIN channel[i][j] :
    channel[i][j][n].kind = "leader_elected" => Elected(i)

LearnedFromElected ==
  \A i, j \in Controller : handler[i][j] = "learning" => Elected(i)

ReportedIsElected ==
  \A j \in Controller : leaderAddr[j] # None => Elected(leaderAddr[j])

HomeIsElected == \A b \in Broker : home[b] # None => Elected(home[b])

(* The inductive invariant of leader discovery. *)
DiscoveryInv ==
  IInv /\ DiscoveryTypeOK /\ Announced /\ LearnedFromElected /\ ReportedIsElected
       /\ HomeIsElected /\ MembersOfTheElected

(* A broker starts having asked nobody. *)
LEMMA InitDiscoveryInv == Init /\ DiscoveryInit => DiscoveryInv
<1> SUFFICES ASSUME Init, DiscoveryInit PROVE DiscoveryInv
  OBVIOUS
<1>1. IInv
  BY InitIInv
<1>2. DiscoveryTypeOK
  <2>1. IsFiniteSet(Controller) /\ Cardinality(Controller) \in Nat /\ Cardinality(Controller) # 0
    BY ElectionAssumption, FS_CardinalityType, FS_EmptySet
  <2> QED
    BY <2>1 DEF DiscoveryInit, DiscoveryTypeOK
<1>3. Announced /\ LearnedFromElected
  BY DEF Announced, LearnedFromElected, Init, InitState
<1>4. ReportedIsElected
  BY DEF ReportedIsElected, Init, InitState
<1>5. HomeIsElected /\ MembersOfTheElected
  BY DEF HomeIsElected, MembersOfTheElected, DiscoveryInit
<1> QED
  BY <1>1, <1>2, <1>3, <1>4, <1>5 DEF DiscoveryInv

(* A campaign that was won stays won. *)
LEMMA ElectedStays ==
  ASSUME TypeOK, [Next]_vars, NEW i \in Controller, Elected(i)
  PROVE  Elected(i)'
<1>1. timer \in [Controller -> {"waiting", "asking", "awaiting", "announcing", "exited"}]
  BY DEF TypeOK
<1>2. CASE UNCHANGED vars
  BY <1>2 DEF vars, Elected
<1>3. ASSUME NEW k \in Controller, TimerStep(k)
      PROVE  Elected(i)'
  BY <1>1, <1>3 DEF TimerStep, Timeout, AskNext, CollectReply, Win, Lose, AnnounceNext,
                    EndAnnouncement, Elected
<1>4. ASSUME NEW k \in Controller, NEW j \in Controller, HandlerStep(k, j)
      PROVE  Elected(i)'
  BY <1>4 DEF HandlerStep, Admit, Reject, Accept, LearnLeader, SaveLeader, StepDown, Elected
<1> QED
  BY <1>2, <1>3, <1>4 DEF Next

(* What is in the channels after a message was sent: it, and what was there. *)
LEMMA SendAdds ==
  ASSUME IInv, NEW i \in Controller, NEW j, NEW m \in Message, Send(i, j, m),
         NEW a \in Controller, NEW b \in Controller, NEW n \in DOMAIN channel'[a][b]
  PROVE  \/ n \in DOMAIN channel[a][b] /\ channel'[a][b][n] = channel[a][b][n]
         \/ a = i /\ channel'[a][b][n] = m
<1>1. channel \in [Controller -> [Controller -> Seq(Message)]]
  BY DEF IInv, TypeOK
<1>2. channel' = [channel EXCEPT ![i][j] = Append(channel[i][j], m)]
  BY DEF Send
<1>3. CASE a = i /\ b = j
  <2>1. channel'[a][b] = Append(channel[a][b], m) /\ channel[a][b] \in Seq(Message)
    BY <1>1, <1>2, <1>3
  <2> QED
    BY <2>1, <1>3
<1>4. CASE ~(a = i /\ b = j)
  <2>1. channel'[a][b] = channel[a][b]
    BY <1>1, <1>2, <1>4
  <2> QED
    BY <2>1
<1> QED
  BY <1>3, <1>4

(* What is in the channels after a message was taken was there before. *)
LEMMA TakeLeaves ==
  ASSUME IInv, NEW i \in Controller, NEW j \in Controller, handler[i][j] = "admitted",
         Take(i, j),
         NEW a \in Controller, NEW b \in Controller, NEW n \in DOMAIN channel'[a][b]
  PROVE  \E k \in DOMAIN channel[a][b] : channel'[a][b][n] = channel[a][b][k]
<1>1. channel \in [Controller -> [Controller -> Seq(Message)]]
  BY DEF IInv, TypeOK
<1>2. channel[i][j] \in Seq(Message) /\ channel[i][j] # <<>>
  BY <1>1 DEF IInv, AdmittedHasMessage
<1>3. channel' = [channel EXCEPT ![i][j] = Tail(channel[i][j])]
  BY DEF Take
<1>4. CASE a = i /\ b = j
  <2>1. channel'[a][b] = Tail(channel[a][b])
    BY <1>1, <1>3, <1>4
  <2>2. n + 1 \in DOMAIN channel[a][b] /\ channel'[a][b][n] = channel[a][b][n + 1]
    BY <1>2, <1>4, <2>1
  <2> QED
    BY <2>2
<1>5. CASE ~(a = i /\ b = j)
  BY <1>1, <1>3, <1>5
<1> QED
  BY <1>4, <1>5

(* Announcements are those of winners, and so are the leaders that are reported. *)
LEMMA ElectionStepAnnounced ==
  ASSUME IInv, Announced, LearnedFromElected, ReportedIsElected, [Next]_vars
  PROVE  Announced' /\ LearnedFromElected' /\ ReportedIsElected'
<1> USE DEF IInv
<1>1. channel \in [Controller -> [Controller -> Seq(Message)]]
      /\ leaderAddr \in [Controller -> Controller \cup {None}]
      /\ term \in [Controller -> Nat] /\ campaign \in [Controller -> Campaign]
      /\ handler \in [Controller -> [Controller -> {"idle", "admitted", "learning", "deposing"}]]
  BY DEF TypeOK
<1>2. \A i \in Controller : Elected(i) => Elected(i)'
  BY ElectedStays
<1>3. ASSUME UNCHANGED channel
      PROVE  Announced'
  BY <1>2, <1>3 DEF Announced
<1>4. ASSUME UNCHANGED leaderAddr
      PROVE  ReportedIsElected'
  <2> SUFFICES ASSUME NEW j \in Controller, leaderAddr[j] # None
               PROVE  Elected(leaderAddr[j])'
    BY <1>4 DEF ReportedIsElected
  <2> QED
    BY <1>1, <1>2, <1>4 DEF ReportedIsElected, Elected
<1>5. ASSUME NEW i \in Controller, NEW j \in Controller, handler[i][j] = "admitted", Take(i, j)
      PROVE  Announced'
  <2> SUFFICES ASSUME NEW a \in Controller, NEW b \in Controller, NEW n \in DOMAIN channel'[a][b],
                      channel'[a][b][n].kind = "leader_elected"
               PROVE  Elected(a)'
    BY DEF Announced
  <2>1. PICK k \in DOMAIN channel[a][b] : channel'[a][b][n] = channel[a][b][k]
    BY <1>5, TakeLeaves
  <2> QED
    BY <2>1, <1>2 DEF Announced
<1>6. ASSUME NEW i \in Controller, NEW m \in Message, Send(i, NextPeer(i), m),
             m.kind = "leader_elected" => Elected(i)
      PROVE  Announced'
  <2> SUFFICES ASSUME NEW a \in Controller, NEW b \in Controller, NEW n \in DOMAIN channel'[a][b],
                      channel'[a][b][n].kind = "leader_elected"
               PROVE  Elected(a)'
    BY DEF Announced
  <2>1. \/ n \in DOMAIN channel[a][b] /\ channel'[a][b][n] = channel[a][b][n]
        \/ a = i /\ channel'[a][b][n] = m
    BY <1>6, SendAdds
  <2> QED
    BY <2>1, <1>2, <1>6 DEF Announced
<1>7. ASSUME \/ UNCHANGED handler
             \/ \E i, j \in Controller, h \in {"idle", "admitted", "deposing"} :
                  handler' = [handler EXCEPT ![i][j] = h]
      PROVE  LearnedFromElected'
  <2>1. CASE UNCHANGED handler
    BY <2>1, <1>2 DEF LearnedFromElected
  <2>2. ASSUME NEW i \in Controller, NEW j \in Controller, NEW h \in {"idle", "admitted", "deposing"},
               handler' = [handler EXCEPT ![i][j] = h]
        PROVE  LearnedFromElected'
    <3>1. \A a, b \in Controller : handler'[a][b] = h \/ handler'[a][b] = handler[a][b]
      BY <1>1, <2>2
    <3> QED
      BY <1>2, <3>1 DEF LearnedFromElected
  <2> QED
    BY <1>7, <2>1, <2>2
<1>8. CASE UNCHANGED vars
  BY <1>3, <1>4, <1>7, <1>8 DEF vars
<1>9. ASSUME NEW i \in Controller, TimerStep(i)
      PROVE  Announced' /\ LearnedFromElected' /\ ReportedIsElected'
  <2>1. LearnedFromElected'
    BY <1>9, <1>7 DEF TimerStep, Timeout, AskNext, CollectReply, Win, Lose, AnnounceNext,
       EndAnnouncement
  <2>2. CASE Timeout(i) \/ CollectReply(i) \/ Win(i) \/ Lose(i) \/ EndAnnouncement(i)
    BY <1>3, <1>4, <2>1, <2>2 DEF Timeout, CollectReply, Win, Lose, EndAnnouncement
  <2>3. CASE AskNext(i)
    <3>1. [kind |-> "election", term |-> campaign[i].term] \in Message
      BY <1>1, CampaignParts DEF Message
    <3> QED
      BY <1>4, <1>6, <2>1, <2>3, <3>1 DEF AskNext
  <2>4. CASE AnnounceNext(i)
    <3>1. [kind |-> "leader_elected", term |-> term[i]] \in Message
      BY <1>1 DEF Message
    <3> QED
      BY <1>4, <1>6, <2>1, <2>4, <3>1 DEF AnnounceNext, Elected
  <2> QED
    BY <1>9, <2>1, <2>2, <2>3, <2>4 DEF TimerStep
<1>10. ASSUME NEW i \in Controller, NEW j \in Controller, HandlerStep(i, j)
      PROVE  Announced' /\ LearnedFromElected' /\ ReportedIsElected'
  <2>1. CASE Admit(i, j) \/ StepDown(i, j)
    BY <1>3, <1>4, <1>7, <2>1 DEF Admit, StepDown
  <2>2. CASE Reject(i, j) \/ Accept(i, j)
    BY <1>4, <1>5, <1>7, <2>2 DEF Reject, Accept, Arrived
  <2>3. CASE LearnLeader(i, j)
    <3>1. channel[i][j] \in Seq(Message) /\ channel[i][j] # <<>>
      BY <1>1, <2>3 DEF LearnLeader, Arrived, AdmittedHasMessage
    <3>2. Elected(i)
      BY <2>3, <3>1 DEF LearnLeader, Arrived, Announced
    <3>3. handler' = [handler EXCEPT ![i][j] = "learning"]
      BY <2>3 DEF LearnLeader
    <3>4. \A a, b \in Controller :
            handler'[a][b] = "learning" => handler[a][b] = "learning" \/ a = i
      BY <1>1, <3>3
    <3>5. LearnedFromElected'
      BY <1>2, <3>2, <3>4 DEF LearnedFromElected
    <3> QED
      BY <1>4, <1>5, <2>3, <3>5 DEF LearnLeader, Arrived
  <2>4. CASE SaveLeader(i, j)
    <3>1. Elected(i)
      BY <2>4 DEF SaveLeader, LearnedFromElected
    <3>2. leaderAddr' = [leaderAddr EXCEPT ![j] = i] /\ UNCHANGED <<timer, channel>>
      BY <2>4 DEF SaveLeader
    <3>3. \A l \in Controller : leaderAddr'[l] = leaderAddr[l] \/ leaderAddr'[l] = i
      BY <1>1, <3>2
    <3>4. ReportedIsElected'
      BY <3>1, <3>2, <3>3 DEF ReportedIsElected, Elected
    <3>5. LearnedFromElected'
      BY <1>7, <2>4 DEF SaveLeader
    <3> QED
      BY <1>3, <3>2, <3>4, <3>5
  <2> QED
    BY <1>10, <2>1, <2>2, <2>3, <2>4 DEF HandlerStep
<1> QED
  BY <1>8, <1>9, <1>10 DEF Next

(* Every step keeps the invariant. *)
LEMMA NextDiscoveryInv ==
  DiscoveryInv /\ [DiscoveryNext]_<<vars, discoveryVars>> => DiscoveryInv'
<1> SUFFICES ASSUME DiscoveryInv, [DiscoveryNext]_<<vars, discoveryVars>>
             PROVE  DiscoveryInv'
  OBVIOUS
<1> USE DEF DiscoveryInv
<1>1. [Next]_vars
  BY DEF DiscoveryNext, Discover, Ask, JoinHome
<1>2. IInv'
  BY <1>1, NextIInv
<1>3. Announced' /\ LearnedFromElected' /\ ReportedIsElected'
  BY <1>1, ElectionStepAnnounced
<1>4. \A i \in Controller : Elected(i) => Elected(i)'
  BY <1>1, ElectedStays DEF IInv
<1>5. CASE UNCHANGED discoveryVars
  <2>1. DiscoveryTypeOK'
    BY <1>5 DEF discoveryVars, DiscoveryTypeOK
  <2>2. HomeIsElected'
    BY <1>4, <1>5 DEF discoveryVars, HomeIsElected, DiscoveryTypeOK, Elected
  <2>3. MembersOfTheElected'
    BY <1>4, <1>5 DEF discoveryVars, MembersOfTheElected
  <2> QED
    BY <1>2, <1>3, <2>1, <2>2, <2>3
<1>6. ASSUME NEW b \in Broker, Ask(b)
      PROVE  DiscoveryInv'
  <2>1. Cardinality(Controller) \in Nat \ {0}
    BY ElectionAssumption, FS_CardinalityType, FS_EmptySet
  <2>2. (asked[b] + 1) % Cardinality(Controller) \in 0 .. Cardinality(Controller) - 1
    BY <2>1 DEF DiscoveryTypeOK
  <2>3. Asks(b) \in Controller
    BY <2>1 DEF Asks, DiscoveryTypeOK, Orders
  <2>4. leaderAddr[Asks(b)] \in Controller \cup {None}
    BY <2>3 DEF IInv, TypeOK
  <2>5. home' = [home EXCEPT ![b] = leaderAddr[Asks(b)]]
        /\ asked' = [asked EXCEPT ![b] = (@ + 1) % Cardinality(Controller)]
        /\ UNCHANGED <<order, members, vars>>
    BY <1>6 DEF Ask
  <2>6. DiscoveryTypeOK'
    BY <2>2, <2>4, <2>5 DEF DiscoveryTypeOK
  <2>7. HomeIsElected'
    BY <2>3, <2>5 DEF HomeIsElected, ReportedIsElected, DiscoveryTypeOK, Elected, vars
  <2>8. MembersOfTheElected'
    BY <1>4, <2>5 DEF MembersOfTheElected
  <2> QED
    BY <1>2, <1>3, <2>6, <2>7, <2>8
<1>7. ASSUME NEW b \in Broker, JoinHome(b)
      PROVE  DiscoveryInv'
  <2>1. home[b] \in Controller /\ Elected(home[b])
    BY <1>7 DEF JoinHome, DiscoveryTypeOK, HomeIsElected
  <2>2. members' = [members EXCEPT ![home[b]] = @ \cup {b}] /\ UNCHANGED <<order, asked, home, vars>>
    BY <1>7 DEF JoinHome
  <2>3. DiscoveryTypeOK'
    BY <2>1, <2>2 DEF DiscoveryTypeOK
  <2>4. HomeIsElected'
    BY <2>2 DEF HomeIsElected, Elected, vars
  <2>5. MembersOfTheElected'
    BY <1>4, <2>1, <2>2 DEF MembersOfTheElected, DiscoveryTypeOK
  <2> QED
    BY <1>2, <1>3, <2>3, <2>4, <2>5
<1> QED
  BY <1>5, <1>6, <1>7 DEF DiscoveryNext, Discover

(* Brokers are members only of controllers that won an election, whatever the
   order of questions and announcements (brokers.rs, lines 58-176). *)
THEOREM JoinsTheElected == DiscoverySpec => []MembersOfTheElected
<1>1. DiscoverySpec => []DiscoveryInv
  BY InitDiscoveryInv, NextDiscoveryInv, PTL DEF DiscoverySpec
<1>2. DiscoveryInv => MembersOfTheElected
  BY DEF DiscoveryInv
<1> QED
  BY <1>1, <1>2, PTL

(* The state of the brokers that start keeps its types. *)
THEOREM DiscoveryTypeCorrect == DiscoverySpec => []DiscoveryTypeOK
<1>1. DiscoverySpec => []DiscoveryInv
  BY InitDiscoveryInv, NextDiscoveryInv, PTL DEF DiscoverySpec
<1>2. DiscoveryInv => DiscoveryTypeOK
  BY DEF DiscoveryInv
<1> QED
  BY <1>1, <1>2, PTL
=============================================================================
