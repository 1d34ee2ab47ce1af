------------------------------ MODULE MCClient ------------------------------
(* Client on small instances: at most MaxRequests requests and MaxNotices     *)
(* messages of a broker to consumers, and MaxEvents of both together.         *)
EXTENDS Client

CONSTANTS MaxRequests, MaxNotices, MaxEvents, k1, k2, b1, b2

VARIABLE notices   \* messages to consumers so far

mcVars == <<vars, notices>>

MayRequest == Len(requests) < MaxRequests /\ Len(requests) + notices < MaxEvents

MCCall == MayRequest /\ Call /\ UNCHANGED notices

MCMethodStep ==
  /\ MethodStep
  /\ caller.state \in {"asking", "assigning"} => MayRequest \/ EndSubscribe
  /\ UNCHANGED notices

MCNotify ==
  /\ notices < MaxNotices /\ Len(requests) + notices < MaxEvents
  /\ \E b \in Server, k \in Consumer : NotifyConsumer(b, k)
  /\ notices' = notices + 1

MCDispatcherStep(b) == DispatcherStep(b) /\ UNCHANGED notices
MCReaderStep(b) == ReaderStep(b) /\ UNCHANGED notices
MCServerStep(b) == ServerStep(b) /\ UNCHANGED notices
MCMatcherStep == MatcherStep /\ UNCHANGED notices
MCHandOver == HandOver /\ UNCHANGED notices

MCTaskStep ==
  \/ MCMethodStep \/ MCMatcherStep \/ MCHandOver
  \/ \E b \in Server : MCDispatcherStep(b) \/ MCReaderStep(b) \/ MCServerStep(b)

(* The instance may stop: the caller panicked, has used up its requests, or
   waits for an answer it will not get. *)
Quiescent ==
  /\ \/ caller.state \in {"panicked", "idle"}
     \/ caller.state \in {"asking", "assigning"} /\ ~MayRequest
     \/ caller.state = "awaiting" /\ Stranded(caller.n)
  /\ ~ENABLED MCTaskStep
  /\ UNCHANGED mcVars

MCInit == Init /\ notices = 0
MCNext == MCCall \/ MCNotify \/ MCTaskStep \/ Quiescent
MCSpec == MCInit /\ [][MCNext]_mcVars

MCFairSpec ==
  /\ MCSpec
  /\ WF_mcVars(MCMethodStep) /\ WF_mcVars(MCMatcherStep) /\ WF_mcVars(MCHandOver)
  /\ \A b \in Server :
       /\ WF_mcVars(MCDispatcherStep(b)) /\ WF_mcVars(MCReaderStep(b))
       /\ WF_mcVars(MCServerStep(b))

(* A call comes back, or is stranded. *)
CallReturnsOrIsStranded ==
  \A n \in 1 .. MaxRequests :
    (n \in RequestNo /\ Expects(n)) ~> (Returned(n) \/ (n \in RequestNo /\ Stranded(n)))

(* What the controller answers in the instances: partitions on either broker,
   the new consumer alone, or a consumer of another client beside it. *)
MCMappings == {{}, {b1, b2}}
MCArrangements ==
  {<<Assigned(b1, k1)>>, <<Assigned(b1, k1), Assigned(b2, k2)>>,
   <<Assigned(b1, k2), Assigned(b1, k1)>>}
=============================================================================
