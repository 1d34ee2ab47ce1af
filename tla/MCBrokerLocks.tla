--------------------------- MODULE MCBrokerLocks ---------------------------
(* BrokerLocks on small instances. *)
EXTENDS BrokerLocks

(* A topic is created, a value is located in its partition, one is written to
   it, a consumer is assigned to it, one registers, and a client connects or the
   producer, who is still to get an answer, leaves. *)
MCProgramOf ==
  [j \in Job |->
     CASE j = "topic_insert" -> TopicInsert("t", "controller")
       [] j = "topic_data_insert" -> InsertData("t")
       [] j = "consumer_assignment" -> AssignConsumer("t", "partition", "client")
       [] j = "write" -> WriteValue("partition", "producer")
       [] j = "subscribe" -> RegisterConsumer("t", "client")
       [] j \in {"connect", "disconnect"} -> Connect]

MCJob == {"topic_insert", "consumer_assignment", "write", "subscribe", "disconnect"}

(* The same with another lookup, and a client that comes. *)
DataJob == {"topic_insert", "topic_data_insert", "write", "subscribe", "connect"}

MCTopic == {"t"}
MCShard == {"shard"}
MCPartition == {"partition"}
MCConnection == {"controller", "client", "producer"}
MCEnds == [c \in Connection |-> IF c = "producer" THEN Job \cap {"disconnect"} ELSE {}]
MCShardOf == [t \in Topic |-> "shard"]
MCPartitionsOf == [t \in Topic |-> <<"partition">>]
MCConsumersOf == [p \in Partition |-> <<"client", "client">>]

(* Nothing is left to do, or nothing can be done. *)
Stopped ==
  /\ \/ /\ \A j \in Job : Ended(j)
        /\ responses = <<>> /\ pool = Idle
        /\ \A c \in Connection \ Deaf : socket[c] = 0
     \/ WaitCycle
  /\ UNCHANGED vars

MCNext == Next \/ Stopped
MCFairSpec == Init /\ [][MCNext]_vars /\ Fairness
=============================================================================
