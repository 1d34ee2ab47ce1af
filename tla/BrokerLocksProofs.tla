------------------------- MODULE BrokerLocksProofs -------------------------
(***************************************************************************)
(* Who waits for whom among the tasks of a broker, for any number of them, *)
(* of shards, topics and partitions, of consumers and connections: a lock  *)
(* written under is held alone, and tasks stop each other in one way only. *)
(***************************************************************************)
EXTENDS BrokerLocks, FiniteSetTheorems, SequenceTheorems, TLAPS

Mode == {"read", "write"}

StepRecord ==
  [step : {"acquire"}, lock : Lock, mode : Mode]
    \cup [step : {"release"}, lock : Lock] \cup [step : {"send"}, to : Connection]

(* Before step n of a program it holds a lock. *)
HoldsAs(p, n, l, mode) ==
  \E m \in 1 .. n - 1 :
    p[m] = Acquire(l, mode) /\ \A k \in m + 1 .. n - 1 : p[k] # Release(l)

(* What a program may ask for while it holds a lock: with the server's a map,
   with a map a partition, and with a partition the server's. *)
MayAskWith(l, mode, s) ==
  \/ l = "server" /\ mode = "read" /\ \E m \in Shard : s = Acquire(m, "read")
  \/ l \in Shard /\ mode = "read" /\ \E q \in Partition : s = Acquire(q, "read")
  \/ l \in Partition /\ mode = "write" /\ s = Acquire("server", "read")

(* At its end a program holds nothing. *)
Orderly(p) ==
  /\ p \in Seq(StepRecord)
  /\ \A n \in 1 .. Len(p) + 1, l \in Lock, mode \in Mode :
       HoldsAs(p, n, l, mode) =>
         n <= Len(p) /\ (p[n].step = "acquire" => MayAskWith(l, mode, p[n]))

Bookkeeping(l, e) ==
  IF e.task = ResponsePool
    THEN l = "server" /\ e.mode = "read" /\ pool.state = "found"
    ELSE HoldsAs(ProgramOf[e.task], pc[e.task], l, e.mode)

(* Who has a lock is between its steps acquire and release. *)
HeldByProgram == \A l \in Lock : \A e \in holders[l] : Bookkeeping(l, e)

Waiting(l, e) ==
  IF e.task = ResponsePool
    THEN l = "server" /\ e.mode = "read" /\ pool.state = "waiting"
    ELSE pc[e.task] <= Len(ProgramOf[e.task]) /\ Step(e.task) = Acquire(l, e.mode)

(* Who is in a queue is at the step that acquires the lock, and there once. *)
QueuedAtStep ==
  \A l \in Lock : \A i \in DOMAIN queue[l] :
    /\ Waiting(l, queue[l][i])
    /\ \A k \in DOMAIN queue[l] : queue[l][i].task = queue[l][k].task => i = k

PoolWaitsInQueue == pool.state = "waiting" => Queued("server", ResponsePool)

InProgram == \A j \in Job : pc[j] \in 1 .. Len(ProgramOf[j]) + 1

LockInv == TypeOK /\ InProgram /\ HeldByProgram /\ QueuedAtStep /\ PoolWaitsInQueue

----------------------------------------------------------------------------
(* Programs: every one of them is orderly, from the pieces it is made of. *)

LEMMA ModesAndLocks ==
  /\ "server" \in Lock /\ Shard \subseteq Lock /\ Partition \subseteq Lock
  /\ "server" \notin Shard /\ "server" \notin Partition
  /\ \A l \in Shard : l \notin Partition
BY LocksAssumption DEF Lock

(* The three kinds of steps are told apart by their first field. *)
LEMMA StepKinds ==
  /\ \A l \in Lock, mode \in Mode :
       Acquire(l, mode) \in StepRecord /\ Acquire(l, mode).step = "acquire"
         /\ Acquire(l, mode).lock = l /\ Acquire(l, mode).mode = mode
  /\ \A l \in Lock : Release(l) \in StepRecord /\ Release(l).step = "release"
       /\ Release(l).lock = l
  /\ \A c \in Connection : SendResponse(c) \in StepRecord /\ SendResponse(c).step = "send"
       /\ SendResponse(c).to = c
  /\ \A s \in StepRecord : s.step = "acquire" =>
       s.lock \in Lock /\ s.mode \in Mode /\ s = Acquire(s.lock, s.mode)
  /\ \A s \in StepRecord : s.step = "release" => s.lock \in Lock /\ s = Release(s.lock)
  /\ \A s \in StepRecord : s.step = "send" => s.to \in Connection
  /\ \A s \in StepRecord : s.step \in {"acquire", "release", "send"}
BY DEF StepRecord, Acquire, Release, SendResponse

(* One program after another: what either holds is given back at its end. *)
LEMMA OrderlyConcat ==
  ASSUME NEW p, NEW q, Orderly(p), Orderly(q)
  PROVE  Orderly(p \o q)
<1> DEFINE r == p \o q
<1>1. p \in Seq(StepRecord) /\ q \in Seq(StepRecord)
  BY DEF Orderly
<1>2. /\ r \in Seq(StepRecord) /\ Len(r) = Len(p) + Len(q)
      /\ \A i \in 1 .. Len(p) + Len(q) : r[i] = IF i <= Len(p) THEN p[i] ELSE q[i - Len(p)]
  <2> HIDE DEF StepRecord
  <2> QED
    BY <1>1, ConcatProperties
<1>3. Len(p) \in Nat /\ Len(q) \in Nat
  BY <1>1, LenProperties
<1> HIDE DEF r
<1>4. ASSUME NEW n \in 1 .. Len(r) + 1, NEW l \in Lock, NEW mode \in Mode, HoldsAs(r, n, l, mode)
      PROVE  n <= Len(r) /\ (r[n].step = "acquire" => MayAskWith(l, mode, r[n]))
  <2>1. PICK m \in 1 .. n - 1 : r[m] = Acquire(l, mode) /\ \A k \in m + 1 .. n - 1 : r[k] # Release(l)
    BY <1>4 DEF HoldsAs
  <2>2. CASE m <= Len(p)
    <3>1. p[m] = Acquire(l, mode)
      BY <2>1, <2>2, <1>2, <1>3
    <3>2. n <= Len(p)
      <4>1. SUFFICES ASSUME n > Len(p) PROVE FALSE
        BY <1>3
      <4>2. \A k \in m + 1 .. Len(p) : p[k] # Release(l)
        BY <2>1, <2>2, <1>2, <1>3, <4>1
      <4>3. HoldsAs(p, Len(p) + 1, l, mode)
        BY <3>1, <4>2, <2>2, <1>3 DEF HoldsAs
      <4> QED
        BY <4>3, <1>3 DEF Orderly
    <3>3. \A k \in m + 1 .. n - 1 : p[k] # Release(l)
      BY <2>1, <2>2, <3>2, <1>2, <1>3
    <3>4. HoldsAs(p, n, l, mode) /\ n \in 1 .. Len(p) + 1
      BY <3>1, <3>2, <3>3, <1>3 DEF HoldsAs
    <3>5. r[n] = p[n]
      BY <3>2, <1>2, <1>3
    <3> QED
      BY <3>2, <3>4, <3>5, <1>2, <1>3 DEF Orderly
  <2>3. CASE m > Len(p)
    <3> DEFINE n0 == n - Len(p)
               m0 == m - Len(p)
    <3>1. n0 \in 1 .. Len(q) + 1 /\ m0 \in 1 .. n0 - 1
      BY <2>3, <1>2, <1>3
    <3>2. q[m0] = Acquire(l, mode)
      BY <2>1, <2>3, <1>2, <1>3
    <3>3. \A k \in m0 + 1 .. n0 - 1 : q[k] # Release(l)
      <4> TAKE k \in m0 + 1 .. n0 - 1
      <4>1. k + Len(p) \in m + 1 .. n - 1 /\ k + Len(p) <= Len(p) + Len(q)
            /\ k + Len(p) > Len(p) /\ (k + Len(p)) - Len(p) = k
        BY <2>3, <1>2, <1>3
      <4>2. r[k + Len(p)] = q[k]
        BY <4>1, <1>2, <1>3
      <4> QED
        BY <2>1, <4>1, <4>2
    <3>4. HoldsAs(q, n0, l, mode)
      <4> HIDE DEF n0, m0
      <4> QED
        BY <3>1, <3>2, <3>3 DEF HoldsAs
    <3>5. n0 <= Len(q) /\ (q[n0].step = "acquire" => MayAskWith(l, mode, q[n0]))
      <4> HIDE DEF n0, m0
      <4> QED
        BY <3>1, <3>4 DEF Orderly
    <3>6. r[n] = q[n0]
      BY <3>5, <2>3, <1>2, <1>3
    <3> QED
      BY <3>5, <3>6, <1>2, <1>3
  <2> QED
    BY <2>2, <2>3, <1>3
<1> QED
  BY <1>2, <1>4 DEF Orderly, r

(* A lock that is given back at once. *)
LEMMA OrderlyAlone ==
  ASSUME NEW l \in Lock, NEW mode \in Mode
  PROVE  Orderly(<<Acquire(l, mode), Release(l)>>)
<1> DEFINE p == <<Acquire(l, mode), Release(l)>>
<1>1. p \in Seq(StepRecord) /\ Len(p) = 2 /\ p[1] = Acquire(l, mode) /\ p[2] = Release(l)
  BY StepKinds
<1>2. ASSUME NEW n \in 1 .. 3, NEW l2 \in Lock, NEW mode2 \in Mode, HoldsAs(p, n, l2, mode2)
      PROVE  n <= 2 /\ p[n].step # "acquire"
  <2> HIDE DEF p
  <2>1. PICK m \in 1 .. n - 1 : p[m] = Acquire(l2, mode2) /\ \A k \in m + 1 .. n - 1 : p[k] # Release(l2)
    BY <1>2 DEF HoldsAs
  <2>2. m = 1
    BY <2>1, <1>1, StepKinds
  <2>3. l2 = l
    BY <2>1, <2>2, <1>1, StepKinds
  <2>4. n = 2
    BY <2>1, <2>2, <2>3, <1>1
  <2> QED
    BY <2>4, <1>1, StepKinds
<1> QED
  BY <1>1, <1>2 DEF Orderly

LEMMA OrderlyLook ==
  ASSUME NEW l \in Lock
  PROVE  Orderly(LookAt(l))
BY OrderlyAlone DEF LookAt, Mode

(* Sends hold nothing. *)
LEMMA OrderlySends ==
  ASSUME NEW p \in Seq(StepRecord), \A i \in 1 .. Len(p) : p[i].step = "send"
  PROVE  Orderly(p)
<1>1. ASSUME NEW n \in 1 .. Len(p) + 1, NEW l \in Lock, NEW mode \in Mode, HoldsAs(p, n, l, mode)
      PROVE  FALSE
  <2>1. PICK m \in 1 .. n - 1 : p[m] = Acquire(l, mode)
    BY <1>1 DEF HoldsAs
  <2>2. m \in 1 .. Len(p)
    BY LenProperties
  <2> QED
    BY <2>1, <2>2, StepKinds
<1> QED
  BY <1>1 DEF Orderly

LEMMA OrderlySend ==
  ASSUME NEW c \in Connection
  PROVE  Orderly(<<SendResponse(c)>>)
<1>1. <<SendResponse(c)>> \in Seq(StepRecord)
  BY StepKinds
<1>2. \A i \in 1 .. Len(<<SendResponse(c)>>) : <<SendResponse(c)>>[i].step = "send"
  BY StepKinds
<1> QED
  BY <1>1, <1>2, OrderlySends

LEMMA OrderlyRespond ==
  ASSUME NEW c \in Connection
  PROVE  Orderly(Respond(c))
BY OrderlyLook, OrderlySend, OrderlyConcat, ModesAndLocks DEF Respond

(* A lookup has the server while it asks for a map. *)
LEMMA OrderlyLocate ==
  ASSUME NEW t \in Topic
  PROVE  Orderly(LocatePartition(t))
<1> DEFINE p == LocatePartition(t)
           s == ShardOf[t]
<1>1. s \in Shard /\ s \in Lock /\ s # "server"
  BY LocksAssumption, ModesAndLocks
<1>2. /\ p \in Seq(StepRecord) /\ Len(p) = 4
      /\ p[1] = Acquire("server", "read") /\ p[2] = Acquire(s, "read")
      /\ p[3] = Release(s) /\ p[4] = Release("server")
  <2>1. /\ Acquire("server", "read") \in StepRecord /\ Acquire(s, "read") \in StepRecord
        /\ Release(s) \in StepRecord /\ Release("server") \in StepRecord
    BY <1>1, StepKinds, ModesAndLocks DEF Mode
  <2> HIDE DEF s
  <2> QED
    BY <2>1 DEF LocatePartition, s
<1> HIDE DEF p, s
<1>3. ASSUME NEW n \in 1 .. 5, NEW l \in Lock, NEW mode \in Mode, HoldsAs(p, n, l, mode)
      PROVE  n <= 4 /\ (p[n].step = "acquire" => MayAskWith(l, mode, p[n]))
  <2>1. PICK m \in 1 .. n - 1 : p[m] = Acquire(l, mode) /\ \A k \in m + 1 .. n - 1 : p[k] # Release(l)
    BY <1>3 DEF HoldsAs
  <2>2. /\ p[1].step = "acquire" /\ p[2].step = "acquire" /\ p[3].step = "release"
        /\ p[4].step = "release" /\ p[1].lock = "server" /\ p[2].lock = s
        /\ p[1].mode = "read" /\ p[2].mode = "read"
    BY <1>1, <1>2, StepKinds, ModesAndLocks DEF Mode
  <2>3. p[m].step = "acquire" /\ p[m].lock = l /\ p[m].mode = mode
    BY <2>1, StepKinds
  <2>4. CASE m = 1
    <3>1. l = "server" /\ mode = "read" /\ n <= 4
      BY <2>1, <2>2, <2>3, <2>4, <1>2
    <3>2. n = 2 => MayAskWith(l, mode, p[n])
      BY <3>1, <1>1, <1>2 DEF MayAskWith
    <3> QED
      BY <3>1, <3>2, <2>2, <2>4
  <2>5. CASE m = 2
    <3>1. l = s /\ n = 3
      BY <2>1, <2>2, <2>3, <2>5, <1>2
    <3> QED
      BY <3>1, <2>2
  <2> QED
    BY <2>2, <2>3, <2>4, <2>5
<1> QED
  BY <1>2, <1>3 DEF Orderly, p

(* A partition worker has its partition while it asks for the server. *)
LEMMA OrderlyWrite ==
  ASSUME NEW q \in Partition, NEW c \in Connection
  PROVE  Orderly(WriteValue(q, c))
<1> DEFINE p == WriteValue(q, c)
<1>1. q \in Lock /\ q # "server"
  BY ModesAndLocks
<1>2. /\ p \in Seq(StepRecord) /\ Len(p) = 5
      /\ p[1] = Acquire(q, "write") /\ p[2] = Acquire("server", "read")
      /\ p[3] = Release("server") /\ p[4] = SendResponse(c) /\ p[5] = Release(q)
  <2>1. /\ Acquire("server", "read") \in StepRecord /\ Acquire(q, "write") \in StepRecord
        /\ Release(q) \in StepRecord /\ Release("server") \in StepRecord
        /\ SendResponse(c) \in StepRecord
    BY <1>1, StepKinds, ModesAndLocks DEF Mode
  <2> HIDE DEF StepRecord
  <2>2. /\ Respond(c) \in Seq(StepRecord) /\ Len(Respond(c)) = 3
        /\ Respond(c)[1] = Acquire("server", "read") /\ Respond(c)[2] = Release("server")
        /\ Respond(c)[3] = SendResponse(c)
    <3>1. LookAt("server") \in Seq(StepRecord) /\ <<SendResponse(c)>> \in Seq(StepRecord)
      BY <2>1 DEF LookAt
    <3>2. Len(LookAt("server")) = 2 /\ Len(<<SendResponse(c)>>) = 1
      BY DEF LookAt
    <3>3. LookAt("server")[1] = Acquire("server", "read") /\ LookAt("server")[2] = Release("server")
      BY DEF LookAt
    <3> QED
      BY <3>1, <3>2, <3>3, ConcatProperties DEF Respond
  <2>3. /\ <<Acquire(q, "write")>> \o Respond(c) \in Seq(StepRecord)
        /\ Len(<<Acquire(q, "write")>> \o Respond(c)) = 4
        /\ (<<Acquire(q, "write")>> \o Respond(c))[1] = Acquire(q, "write")
        /\ \A i \in 1 .. 3 : (<<Acquire(q, "write")>> \o Respond(c))[i + 1] = Respond(c)[i]
    <3>1. <<Acquire(q, "write")>> \in Seq(StepRecord) /\ Len(<<Acquire(q, "write")>>) = 1
      BY <2>1
    <3>2. <<Acquire(q, "write")>>[1] = Acquire(q, "write")
      OBVIOUS
    <3>3. /\ <<Acquire(q, "write")>> \o Respond(c) \in Seq(StepRecord)
          /\ Len(<<Acquire(q, "write")>> \o Respond(c)) = 1 + 3
          /\ \A i \in 1 .. 1 + 3 : (<<Acquire(q, "write")>> \o Respond(c))[i] =
               IF i <= 1 THEN <<Acquire(q, "write")>>[i] ELSE Respond(c)[i - 1]
      <4> DEFINE a == <<Acquire(q, "write")>>
                 b == Respond(c)
      <4>1. a \in Seq(StepRecord) /\ Len(a) = 1 /\ b \in Seq(StepRecord) /\ Len(b) = 3
        BY <3>1, <2>2
      <4> HIDE DEF a, b
      <4>2. /\ a \o b \in Seq(StepRecord) /\ Len(a \o b) = 1 + 3
            /\ \A i \in 1 .. 1 + 3 : (a \o b)[i] = IF i <= 1 THEN a[i] ELSE b[i - 1]
        BY <4>1, ConcatProperties
      <4> QED
        BY <4>2 DEF a, b
    <3> QED
      BY <3>2, <3>3
  <2>4. <<Release(q)>> \in Seq(StepRecord) /\ Len(<<Release(q)>>) = 1
    BY <2>1
  <2>5. /\ p \in Seq(StepRecord) /\ Len(p) = 5 /\ p[5] = Release(q)
        /\ \A i \in 1 .. 4 : p[i] = (<<Acquire(q, "write")>> \o Respond(c))[i]
    BY <2>3, <2>4, ConcatProperties DEF WriteValue
  <2> HIDE DEF p
  <2> QED
    BY <2>2, <2>3, <2>5
<1> HIDE DEF p
<1>3. ASSUME NEW n \in 1 .. 6, NEW l \in Lock, NEW mode \in Mode, HoldsAs(p, n, l, mode)
      PROVE  n <= 5 /\ (p[n].step = "acquire" => MayAskWith(l, mode, p[n]))
  <2>1. PICK m \in 1 .. n - 1 : p[m] = Acquire(l, mode) /\ \A k \in m + 1 .. n - 1 : p[k] # Release(l)
    BY <1>3 DEF HoldsAs
  <2>2. /\ p[1].step = "acquire" /\ p[2].step = "acquire" /\ p[3].step = "release"
        /\ p[4].step = "send" /\ p[5].step = "release" /\ p[1].lock = q
        /\ p[2].lock = "server" /\ p[1].mode = "write" /\ p[2].mode = "read"
    BY <1>1, <1>2, StepKinds, ModesAndLocks DEF Mode
  <2>3. p[m].step = "acquire" /\ p[m].lock = l /\ p[m].mode = mode
    BY <2>1, StepKinds
  <2>4. CASE m = 1
    <3>1. l = q /\ mode = "write" /\ n <= 5
      BY <2>1, <2>2, <2>3, <2>4, <1>2
    <3>2. n = 2 => MayAskWith(l, mode, p[n])
      BY <3>1, <1>1, <1>2 DEF MayAskWith
    <3> QED
      BY <3>1, <3>2, <2>2, <2>4
  <2>5. CASE m = 2
    <3>1. l = "server" /\ n = 3
      BY <2>1, <2>2, <2>3, <2>5, <1>2
    <3> QED
      BY <3>1, <2>2
  <2> QED
    BY <2>2, <2>3, <2>4, <2>5
<1> QED
  BY <1>2, <1>3 DEF Orderly, p

(* What a registration does with the partitions of its topic: odd steps acquire
   a partition, the next one releases it. *)
LEMMA LookAtEachSteps ==
  ASSUME NEW ls \in Seq(Lock)
  PROVE  /\ LookAtEach(ls) \in Seq(StepRecord)
         /\ Len(LookAtEach(ls)) = 2 * Len(ls)
         /\ \A i \in 1 .. Len(ls) :
              /\ LookAtEach(ls)[2 * i - 1] = Acquire(ls[i], "read")
              /\ LookAtEach(ls)[2 * i] = Release(ls[i])
         /\ \A n \in 1 .. 2 * Len(ls) : \E i \in 1 .. Len(ls) : n = 2 * i - 1 \/ n = 2 * i
<1> DEFINE f == LookAtEach(ls)
           N == Len(ls)
<1>1. N \in Nat /\ \A i \in 1 .. N : ls[i] \in Lock
  BY LenProperties, ElementOfSeq
<1>2. ASSUME NEW i \in 1 .. N
      PROVE  /\ 2 * i - 1 \in 1 .. 2 * N /\ 2 * i \in 1 .. 2 * N
             /\ (2 * i - 1) % 2 = 1 /\ (2 * i) % 2 = 0
             /\ ((2 * i - 1) + 1) \div 2 = i /\ (2 * i) \div 2 = i
  BY <1>1
<1>3. ASSUME NEW n \in 1 .. 2 * N
      PROVE  \E i \in 1 .. N : n = 2 * i - 1 \/ n = 2 * i
  <2>1. (n + 1) \div 2 \in 1 .. N /\ (n = 2 * ((n + 1) \div 2) - 1 \/ n = 2 * ((n + 1) \div 2))
    BY <1>1
  <2> QED
    BY <2>1
<1> HIDE DEF N
<1>4. ASSUME NEW i \in 1 .. N
      PROVE  f[2 * i - 1] = Acquire(ls[i], "read") /\ f[2 * i] = Release(ls[i])
  BY <1>2 DEF LookAtEach, N
<1>5. \A n \in 1 .. 2 * N : f[n] \in StepRecord
  <2> TAKE n \in 1 .. 2 * N
  <2>1. PICK i \in 1 .. N : n = 2 * i - 1 \/ n = 2 * i
    BY <1>3
  <2>2. f[n] = Acquire(ls[i], "read") \/ f[n] = Release(ls[i])
    BY <2>1, <1>4
  <2> QED
    BY <2>2, <1>1, StepKinds DEF Mode
<1>6. f = [n \in 1 .. 2 * N |-> f[n]]
  BY DEF LookAtEach, N
<1> HIDE DEF f
<1>7. f \in Seq(StepRecord) /\ Len(f) = 2 * N
  <2>1. 2 * N \in Nat
    BY <1>1
  <2> HIDE DEF StepRecord
  <2> QED
    BY <2>1, <1>5, <1>6
<1> QED
  BY <1>3, <1>4, <1>7 DEF f, N

(* A registration has the map while it asks for one partition after another. *)
LEMMA OrderlyRegistration ==
  ASSUME NEW s \in Shard, NEW ls \in Seq(Partition), NEW c \in Connection
  PROVE  Orderly((<<Acquire(s, "read")>> \o LookAtEach(ls)) \o <<SendResponse(c), Release(s)>>)
<1> DEFINE N == Len(ls)
           a == <<Acquire(s, "read")>>
           e == LookAtEach(ls)
           z == <<SendResponse(c), Release(s)>>
           p == (a \o e) \o z
<1>1. N \in Nat /\ s \in Lock /\ ls \in Seq(Lock) /\ \A i \in 1 .. N : ls[i] \in Partition /\ ls[i] \in Lock
  <2>1. N \in Nat /\ \A i \in 1 .. N : ls[i] \in Partition
    BY LenProperties, ElementOfSeq
  <2>2. ls \in Seq(Lock)
    BY ModesAndLocks, SeqMonotonic
  <2> QED
    BY <2>1, <2>2, ModesAndLocks
<1>2. /\ e \in Seq(StepRecord) /\ Len(e) = 2 * N
      /\ \A i \in 1 .. N : e[2 * i - 1] = Acquire(ls[i], "read") /\ e[2 * i] = Release(ls[i])
      /\ \A n \in 1 .. 2 * N : \E i \in 1 .. N : n = 2 * i - 1 \/ n = 2 * i
  BY <1>1, LookAtEachSteps
<1>3. /\ a \in Seq(StepRecord) /\ Len(a) = 1 /\ a[1] = Acquire(s, "read")
      /\ z \in Seq(StepRecord) /\ Len(z) = 2 /\ z[1] = SendResponse(c) /\ z[2] = Release(s)
  <2>1. Acquire(s, "read") \in StepRecord /\ Release(s) \in StepRecord /\ SendResponse(c) \in StepRecord
    BY <1>1, StepKinds DEF Mode
  <2> HIDE DEF StepRecord
  <2> QED
    BY <2>1
<1> HIDE DEF a, e, z, p, N
<1>4. /\ a \o e \in Seq(StepRecord) /\ Len(a \o e) = 1 + 2 * N
      /\ \A i \in 1 .. 1 + 2 * N : (a \o e)[i] = IF i <= 1 THEN a[i] ELSE e[i - 1]
  <2>1. /\ a \o e \in Seq(StepRecord) /\ Len(a \o e) = Len(a) + Len(e)
        /\ \A i \in 1 .. Len(a) + Len(e) : (a \o e)[i] = IF i <= Len(a) THEN a[i] ELSE e[i - Len(a)]
    <3> HIDE DEF StepRecord
    <3> QED
      BY <1>2, <1>3, ConcatProperties
  <2> QED
    BY <1>1, <1>2, <1>3, <2>1
<1>5. /\ p \in Seq(StepRecord) /\ Len(p) = 2 * N + 3
      /\ \A i \in 1 .. 2 * N + 3 : p[i] = IF i <= 1 + 2 * N THEN (a \o e)[i] ELSE z[i - (1 + 2 * N)]
  <2> DEFINE b == a \o e
  <2>1. p = b \o z
    BY DEF p
  <2>2. b \in Seq(StepRecord) /\ Len(b) = 1 + 2 * N
    BY <1>4
  <2> HIDE DEF b
  <2>3. /\ p \in Seq(StepRecord) /\ Len(p) = Len(b) + Len(z)
        /\ \A i \in 1 .. Len(b) + Len(z) : p[i] = IF i <= Len(b) THEN b[i] ELSE z[i - Len(b)]
    <3> HIDE DEF StepRecord
    <3> QED
      BY <2>1, <2>2, <1>3, ConcatProperties
  <2>4. Len(b) + Len(z) = 2 * N + 3
    BY <2>2, <1>1, <1>3
  <2> QED
    BY <2>2, <2>3, <2>4 DEF b
<1>6. /\ p[1] = Acquire(s, "read") /\ p[2 * N + 2] = SendResponse(c) /\ p[2 * N + 3] = Release(s)
      /\ \A i \in 1 .. N : p[2 * i] = Acquire(ls[i], "read") /\ p[2 * i + 1] = Release(ls[i])
  <2>1. p[1] = Acquire(s, "read")
    <3>1. 1 \in 1 .. 2 * N + 3 /\ 1 <= 1 + 2 * N /\ 1 \in 1 .. 1 + 2 * N
      BY <1>1
    <3>2. p[1] = (a \o e)[1]
      BY <3>1, <1>5
    <3> QED
      BY <3>1, <3>2, <1>3, <1>4
  <2>2. p[2 * N + 2] = z[1] /\ p[2 * N + 3] = z[2]
    BY <1>1, <1>5
  <2>3. ASSUME NEW i \in 1 .. N
        PROVE  p[2 * i] = Acquire(ls[i], "read") /\ p[2 * i + 1] = Release(ls[i])
    <3>1. /\ 2 * i \in 2 .. 2 * N /\ 2 * i + 1 \in 2 .. 2 * N + 1 /\ (2 * i + 1) - 1 = 2 * i
      BY <1>1
    <3>2. p[2 * i] = (a \o e)[2 * i] /\ p[2 * i + 1] = (a \o e)[2 * i + 1]
      <4>1. /\ 2 * i \in 1 .. 2 * N + 3 /\ 2 * i <= 1 + 2 * N
            /\ 2 * i + 1 \in 1 .. 2 * N + 3 /\ 2 * i + 1 <= 1 + 2 * N
        BY <3>1, <1>1
      <4> QED
        BY <4>1, <1>5
    <3>3. (a \o e)[2 * i] = e[2 * i - 1] /\ (a \o e)[2 * i + 1] = e[2 * i]
      BY <3>1, <1>1, <1>4
    <3> QED
      BY <3>2, <3>3, <1>2
  <2> QED
    BY <2>1, <2>2, <2>3, <1>3
<1>7. ASSUME NEW n \in 2 .. 2 * N + 1
      PROVE  \E i \in 1 .. N : n = 2 * i \/ n = 2 * i + 1
  <2>1. n - 1 \in 1 .. 2 * N
    BY <1>1
  <2>2. PICK i \in 1 .. N : n - 1 = 2 * i - 1 \/ n - 1 = 2 * i
    BY <2>1, <1>2
  <2> QED
    BY <2>2
<1>8. ASSUME NEW n \in 1 .. 2 * N + 3, p[n].step = "acquire"
      PROVE  n = 1 \/ \E i \in 1 .. N : n = 2 * i
  <2>1. n # 2 * N + 2 /\ n # 2 * N + 3
    <3>1. p[2 * N + 2].step # "acquire" /\ p[2 * N + 3].step # "acquire"
      BY <1>6, <1>1, StepKinds
    <3> QED
      BY <3>1, <1>8
  <2>2. CASE n \in 2 .. 2 * N + 1
    <3>1. PICK i \in 1 .. N : n = 2 * i \/ n = 2 * i + 1
      BY <2>2, <1>7
    <3>2. n # 2 * i + 1
      BY <1>6, <1>8, <1>1, StepKinds
    <3> QED
      BY <3>1, <3>2
  <2> QED
    BY <2>1, <2>2, <1>1
<1>9. ASSUME NEW n \in 1 .. 2 * N + 4, NEW l \in Lock, NEW mode \in Mode, HoldsAs(p, n, l, mode)
      PROVE  n <= 2 * N + 3 /\ (p[n].step = "acquire" => MayAskWith(l, mode, p[n]))
  <2>1. PICK m \in 1 .. n - 1 : p[m] = Acquire(l, mode) /\ \A k \in m + 1 .. n - 1 : p[k] # Release(l)
    BY <1>9 DEF HoldsAs
  <2>2. p[m].step = "acquire" /\ p[m].lock = l /\ p[m].mode = mode
    BY <2>1, StepKinds
  <2>3. m \in 1 .. 2 * N + 3
    BY <1>1
  <2>4. CASE m = 1
    <3>1. l = s /\ mode = "read"
      BY <2>2, <2>4, <1>1, <1>6, StepKinds DEF Mode
    <3>2. n <= 2 * N + 3
      BY <2>1, <2>4, <3>1, <1>1, <1>6
    <3>3. ASSUME p[n].step = "acquire" PROVE MayAskWith(l, mode, p[n])
      <4>1. PICK i \in 1 .. N : n = 2 * i
        BY <3>2, <3>3, <1>8, <1>1
      <4> QED
        BY <4>1, <3>1, <1>1, <1>6 DEF MayAskWith
    <3> QED
      BY <3>2, <3>3
  <2>5. CASE \E i \in 1 .. N : m = 2 * i
    <3>1. PICK i \in 1 .. N : m = 2 * i
      BY <2>5
    <3>2. l = ls[i]
      BY <2>2, <3>1, <1>1, <1>6, StepKinds DEF Mode
    <3>3. p[m + 1] = Release(l)
      BY <3>1, <3>2, <1>6
    <3>4. n = m + 1
      BY <2>1, <3>3, <1>1
    <3>5. n <= 2 * N + 3
      BY <3>1, <3>4, <1>1
    <3> QED
      BY <3>3, <3>4, <3>5, StepKinds
  <2> QED
    BY <2>2, <2>3, <2>4, <2>5, <1>8
<1>10. Len(p) + 1 = 2 * N + 4 /\ Len(p) = 2 * N + 3
  BY <1>1, <1>5
<1> QED
  BY <1>5, <1>9, <1>10 DEF Orderly, p, a, e, z

(* Every program of the code is orderly. *)
LEMMA ProgramsAreOrderly ==
  ASSUME NEW p \in Program
  PROVE  Orderly(p)
<1>0. "server" \in Lock /\ \A t \in Topic : ShardOf[t] \in Shard /\ ShardOf[t] \in Lock
  BY LocksAssumption, ModesAndLocks
<1>1. Orderly(LookAt("server"))
  BY <1>0, OrderlyLook
<1>2. ASSUME NEW c \in Connection PROVE Orderly(Respond(c)) /\ Orderly(WhoLeader(c))
  BY <1>1, OrderlyRespond, OrderlyConcat DEF WhoLeader
<1>3. ASSUME NEW t \in Topic, NEW c \in Connection
      PROVE  Orderly(TopicInsert(t, c)) /\ Orderly(RefuseData(t, c))
  <2>1. Orderly(<<Acquire(ShardOf[t], "write"), Release(ShardOf[t])>>)
    BY <1>0, OrderlyAlone DEF Mode
  <2>2. Orderly(LocatePartition(t))
    BY OrderlyLocate
  <2>3. Orderly(LookAt("server") \o <<Acquire(ShardOf[t], "write"), Release(ShardOf[t])>>)
    BY <1>1, <2>1, OrderlyConcat
  <2> QED
    BY <1>1, <1>2, <2>2, <2>3, OrderlyConcat DEF TopicInsert, RefuseData
<1>4. ASSUME NEW t \in Topic, NEW q \in Partition, NEW c \in Connection
      PROVE  Orderly(AssignConsumer(t, q, c))
  <2>1. Orderly(<<Acquire(q, "write"), Release(q)>>)
    BY ModesAndLocks, OrderlyAlone DEF Mode
  <2>2. Orderly(LocatePartition(t) \o <<Acquire(q, "write"), Release(q)>>)
    BY <2>1, OrderlyLocate, OrderlyConcat
  <2> QED
    BY <1>2, <2>2, OrderlyConcat DEF AssignConsumer
<1>5. ASSUME NEW q \in Partition PROVE Orderly(NotifyConsumers(q))
  <2> DEFINE cs == ConsumersOf[q]
             sends == [i \in 1 .. Len(cs) |-> SendResponse(cs[i])]
  <2>1. Len(cs) \in Nat /\ \A i \in 1 .. Len(cs) : cs[i] \in Connection
    BY LocksAssumption, LenProperties, ElementOfSeq
  <2>2. /\ \A i \in 1 .. Len(cs) : SendResponse(cs[i]) \in StepRecord
        /\ \A i \in 1 .. Len(cs) : SendResponse(cs[i]).step = "send"
    BY <2>1, StepKinds
  <2>3. sends \in Seq(StepRecord) /\ Len(sends) = Len(cs)
    <3> HIDE DEF StepRecord, cs
    <3> QED
      BY <2>1, <2>2
  <2>4. Orderly(sends)
    <3>1. \A i \in 1 .. Len(sends) : sends[i].step = "send"
      BY <2>2, <2>3
    <3> HIDE DEF sends
    <3> QED
      BY <2>3, <3>1, OrderlySends
  <2>5. Orderly(LookAt("server") \o LookAt(q))
    BY <1>1, ModesAndLocks, OrderlyLook, OrderlyConcat
  <2> QED
    BY <2>4, <2>5, OrderlyConcat DEF NotifyConsumers
<1>6. ASSUME NEW t \in Topic, NEW c \in Connection PROVE Orderly(RegisterConsumer(t, c))
  <2> DEFINE s == ShardOf[t]
             ls == PartitionsOf[t]
             look == LookAt("server") \o LookAt("server")
             a == <<Acquire(s, "read")>>
             e == LookAtEach(ls)
             z == <<SendResponse(c), Release(s)>>
  <2>1. s \in Shard /\ ls \in Seq(Partition) /\ ls \in Seq(Lock)
    <3>1. s \in Shard /\ ls \in Seq(Partition)
      BY LocksAssumption
    <3> QED
      BY <3>1, ModesAndLocks, SeqMonotonic
  <2>2. Orderly(look)
    BY <1>1, OrderlyConcat
  <2>3. Orderly((a \o e) \o z)
    BY <2>1, OrderlyRegistration
  <2>4. /\ look \in Seq(StepRecord) /\ a \in Seq(StepRecord) /\ e \in Seq(StepRecord)
        /\ z \in Seq(StepRecord)
    <3>1. Acquire(s, "read") \in StepRecord /\ Release(s) \in StepRecord /\ SendResponse(c) \in StepRecord
      BY <1>0, StepKinds DEF Mode
    <3>2. look \in Seq(StepRecord)
      BY <2>2 DEF Orderly
    <3>3. e \in Seq(StepRecord)
      BY <2>1, LookAtEachSteps
    <3> HIDE DEF StepRecord
    <3>4. a \in Seq(StepRecord) /\ z \in Seq(StepRecord)
      BY <3>1
    <3> QED
      BY <3>2, <3>3, <3>4
  <2>5. RegisterConsumer(t, c) = look \o ((a \o e) \o z)
    <3>1. RegisterConsumer(t, c) = ((look \o a) \o e) \o z
      BY DEF RegisterConsumer
    <3> HIDE DEF look, a, e, z, StepRecord
    <3>2. a \o e \in Seq(StepRecord)
      BY <2>4, ConcatProperties
    <3>3. (look \o a) \o e = look \o (a \o e)
      BY <2>4, ConcatAssociative
    <3>4. (look \o (a \o e)) \o z = look \o ((a \o e) \o z)
      BY <2>4, <3>2, ConcatAssociative
    <3> QED
      BY <3>1, <3>3, <3>4, Zenon
  <2> HIDE DEF look, a, e, z
  <2> QED
    BY <2>2, <2>3, <2>5, OrderlyConcat
<1>7. Orderly(Connect) /\ Orderly(ReadRequests)
  BY <1>0, <1>1, OrderlyAlone DEF Connect, ReadRequests, Mode
<1>8. ASSUME NEW q \in Partition, NEW c \in Connection PROVE Orderly(WriteValue(q, c))
  BY OrderlyWrite
<1>9. \/ p = Connect \/ p = ReadRequests
      \/ \E c \in Connection : p = Respond(c) \/ p = WhoLeader(c)
      \/ \E t \in Topic, c \in Connection : p = TopicInsert(t, c) \/ p = RefuseData(t, c)
      \/ \E t \in Topic : p = InsertData(t)
      \/ \E t \in Topic, q \in Partition, c \in Connection : p = AssignConsumer(t, q, c)
      \/ \E q \in Partition, c \in Connection : p = WriteValue(q, c)
      \/ \E q \in Partition : p = NotifyConsumers(q)
      \/ \E t \in Topic, c \in Connection : p = RegisterConsumer(t, c)
      \/ \E t \in Topic : p = RegisterUnknown(t)
  BY DEF Program
<1>10. \A t \in Topic : Orderly(InsertData(t))
  BY <1>1, OrderlyLocate, OrderlyConcat DEF InsertData
<1>11. \A t \in Topic : Orderly(RegisterUnknown(t))
  <2> SUFFICES ASSUME NEW t \in Topic PROVE Orderly(RegisterUnknown(t))
    OBVIOUS
  <2>1. Orderly(LookAt("server") \o LookAt("server")) /\ Orderly(LookAt(ShardOf[t]))
    BY <1>0, <1>1, OrderlyLook, OrderlyConcat
  <2> QED
    BY <2>1, OrderlyConcat DEF RegisterUnknown
<1> QED
  BY <1>2, <1>3, <1>4, <1>5, <1>6, <1>7, <1>8, <1>9, <1>10, <1>11, Zenon

----------------------------------------------------------------------------
(* The steps of tasks, locks and the response pool keep LockInv. *)

LEMMA JobProgram ==
  ASSUME NEW j \in Job
  PROVE  Orderly(ProgramOf[j]) /\ ProgramOf[j] \in Seq(StepRecord) /\ Len(ProgramOf[j]) \in Nat
         /\ j # ResponsePool
<1>1. Orderly(ProgramOf[j])
  BY ProgramsAssumption, ProgramsAreOrderly
<1> QED
  BY <1>1, ProgramsAssumption, LenProperties DEF Orderly

(* The step a job is at. *)
LEMMA StepTyped ==
  ASSUME LockInv, NEW j \in Job, ~Ended(j)
  PROVE  /\ pc[j] \in 1 .. Len(ProgramOf[j]) /\ Step(j) \in StepRecord
         /\ Step(j) = ProgramOf[j][pc[j]]
         /\ \A kind : At(j, kind) <=> Step(j).step = kind
<1>1. pc[j] \in 1 .. Len(ProgramOf[j])
  BY JobProgram DEF LockInv, InProgram, Ended
<1> QED
  BY <1>1, JobProgram, ElementOfSeq DEF Step, At

(* A lock is held until it is released. *)
LEMMA HoldsOn ==
  ASSUME NEW p, NEW n \in Nat, NEW l, NEW mode, HoldsAs(p, n, l, mode), p[n] # Release(l)
  PROVE  HoldsAs(p, n + 1, l, mode)
BY DEF HoldsAs

LEMMA HoldsFrom ==
  ASSUME NEW p, NEW n \in Nat \ {0}, NEW l, NEW mode, p[n] = Acquire(l, mode)
  PROVE  HoldsAs(p, n + 1, l, mode)
BY DEF HoldsAs

LEMMA QueuedIs ==
  \A l, t : Queued(l, t) <=> \E i \in DOMAIN queue[l] : queue[l][i].task = t
BY DEF Queued, ToSet

(* What Append and Tail do to a queue. *)
LEMMA QueueShapes ==
  ASSUME NEW q \in Seq(Entry)
  PROVE  /\ Len(q) \in Nat /\ DOMAIN q = 1 .. Len(q)
         /\ \A i \in 1 .. Len(q) : q[i] \in Entry
         /\ \A e \in Entry :
              /\ Append(q, e) \in Seq(Entry) /\ DOMAIN Append(q, e) = 1 .. Len(q) + 1
              /\ Append(q, e)[Len(q) + 1] = e
              /\ \A i \in 1 .. Len(q) : Append(q, e)[i] = q[i]
         /\ q # <<>> =>
              /\ Head(q) = q[1] /\ Head(q) \in Entry /\ 1 \in 1 .. Len(q)
              /\ Tail(q) \in Seq(Entry) /\ DOMAIN Tail(q) = 1 .. Len(q) - 1
              /\ \A i \in 1 .. Len(q) - 1 : Tail(q)[i] = q[i + 1]
<1> HIDE DEF Entry
<1>1. Len(q) \in Nat /\ DOMAIN q = 1 .. Len(q) /\ \A i \in 1 .. Len(q) : q[i] \in Entry
  BY LenProperties, ElementOfSeq
<1>2. ASSUME NEW e \in Entry
      PROVE  /\ Append(q, e) \in Seq(Entry) /\ DOMAIN Append(q, e) = 1 .. Len(q) + 1
             /\ Append(q, e)[Len(q) + 1] = e
             /\ \A i \in 1 .. Len(q) : Append(q, e)[i] = q[i]
  BY <1>1
<1>3. ASSUME q # <<>>
      PROVE  /\ Head(q) = q[1] /\ Head(q) \in Entry /\ 1 \in 1 .. Len(q)
             /\ Tail(q) \in Seq(Entry) /\ DOMAIN Tail(q) = 1 .. Len(q) - 1
             /\ \A i \in 1 .. Len(q) - 1 : Tail(q)[i] = q[i + 1]
  BY <1>1, <1>3
<1> QED
  BY <1>1, <1>2, <1>3

LEMMA InitLockInv == Init => LockInv
<1> SUFFICES ASSUME Init PROVE LockInv
  OBVIOUS
<1> USE DEF Init
<1>1. TypeOK
  <2>1. <<>> \in Seq(Entry) /\ responses \in Seq(Connection) /\ Len(responses) = 0
    BY EmptySeq
  <2>2. SocketCap \in Nat /\ ResponseCap \in Nat
    BY LocksAssumption
  <2> QED
    BY <2>1, <2>2 DEF TypeOK
<1>2. InProgram
  BY JobProgram DEF InProgram
<1>3. HeldByProgram /\ QueuedAtStep /\ PoolWaitsInQueue
  BY DEF HeldByProgram, QueuedAtStep, PoolWaitsInQueue, Idle
<1> QED
  BY <1>1, <1>2, <1>3 DEF LockInv

(* What entering a queue changes. *)
LEMMA Enqueue ==
  ASSUME queue \in [Lock -> Seq(Entry)], NEW l0 \in Lock, NEW e0 \in Entry,
         queue' = [queue EXCEPT ![l0] = Append(@, e0)]
  PROVE  /\ queue' \in [Lock -> Seq(Entry)]
         /\ \A l \in Lock : \A i \in DOMAIN queue[l] :
              i \in DOMAIN queue'[l] /\ queue'[l][i] = queue[l][i]
         /\ \A l \in Lock : \A i \in DOMAIN queue'[l] :
              \/ i \in DOMAIN queue[l] /\ queue'[l][i] = queue[l][i]
              \/ l = l0 /\ i = Len(queue[l0]) + 1 /\ queue'[l][i] = e0
<1>1. queue[l0] \in Seq(Entry)
  OBVIOUS
<1>2. queue'[l0] = Append(queue[l0], e0) /\ \A l \in Lock : l # l0 => queue'[l] = queue[l]
  OBVIOUS
<1> HIDE DEF Entry
<1>3. /\ Len(queue[l0]) \in Nat /\ DOMAIN queue[l0] = 1 .. Len(queue[l0])
      /\ queue'[l0] \in Seq(Entry) /\ DOMAIN queue'[l0] = 1 .. Len(queue[l0]) + 1
      /\ queue'[l0][Len(queue[l0]) + 1] = e0
      /\ \A i \in 1 .. Len(queue[l0]) : queue'[l0][i] = queue[l0][i]
  BY <1>1, <1>2, QueueShapes
<1>4. queue' \in [Lock -> Seq(Entry)]
  <2> DEFINE S == Seq(Entry)
  <2>1. queue \in [Lock -> S] /\ Append(queue[l0], e0) \in S
    BY <1>2, <1>3
  <2> HIDE DEF S
  <2>2. queue' \in [Lock -> S]
    BY <2>1
  <2> QED
    BY <2>2 DEF S
<1>5. ASSUME NEW l \in Lock, NEW i \in DOMAIN queue[l]
      PROVE  i \in DOMAIN queue'[l] /\ queue'[l][i] = queue[l][i]
  <2>1. CASE l = l0
    BY <2>1, <1>3
  <2>2. CASE l # l0
    BY <2>2, <1>2
  <2> QED
    BY <2>1, <2>2
<1>6. ASSUME NEW l \in Lock, NEW i \in DOMAIN queue'[l]
      PROVE  \/ i \in DOMAIN queue[l] /\ queue'[l][i] = queue[l][i]
             \/ l = l0 /\ i = Len(queue[l0]) + 1 /\ queue'[l][i] = e0
  <2>1. CASE l = l0
    BY <2>1, <1>3
  <2>2. CASE l # l0
    BY <2>2, <1>2
  <2> QED
    BY <2>1, <2>2
<1> QED
  BY <1>4, <1>5, <1>6

(* Who enters at the step that asks, and is not there yet, is there once. *)
LEMMA EnqueueKeeps ==
  ASSUME queue \in [Lock -> Seq(Entry)], QueuedAtStep, NEW l0 \in Lock, NEW e0 \in Entry,
         queue' = [queue EXCEPT ![l0] = Append(@, e0)],
         \A l \in Lock, e \in Entry : Waiting(l, e) => Waiting(l, e)',
         Waiting(l0, e0)', \A i \in DOMAIN queue[l0] : queue[l0][i].task # e0.task
  PROVE  QueuedAtStep'
<1>1. /\ \A l \in Lock : \A i \in DOMAIN queue[l] :
            i \in DOMAIN queue'[l] /\ queue'[l][i] = queue[l][i]
      /\ \A l \in Lock : \A i \in DOMAIN queue'[l] :
            \/ i \in DOMAIN queue[l] /\ queue'[l][i] = queue[l][i]
            \/ l = l0 /\ i = Len(queue[l0]) + 1 /\ queue'[l][i] = e0
  BY Enqueue
<1>2. \A l \in Lock : \A i \in DOMAIN queue[l] : queue[l][i] \in Entry
  <2> HIDE DEF Entry
  <2> QED
    BY QueueShapes
<1>3. ASSUME NEW l \in Lock, NEW i \in DOMAIN queue'[l]
      PROVE  Waiting(l, queue[l][i])'
  <2>1. PICK e \in Entry : e = queue'[l][i] /\ (Waiting(l, e) \/ (l = l0 /\ e = e0))
    BY <1>1, <1>2 DEF QueuedAtStep
  <2>2. Waiting(l, e)'
    BY <2>1
  <2> QED
    BY <2>1, <2>2 DEF Waiting, Step
<1>4. ASSUME NEW l \in Lock, NEW i \in DOMAIN queue'[l], NEW k \in DOMAIN queue'[l],
             queue'[l][i].task = queue'[l][k].task
      PROVE  i = k
  BY <1>1, <1>4 DEF QueuedAtStep
<1> QED
  BY <1>3, <1>4 DEF QueuedAtStep

(* A task that asks for a lock enters its queue once, at the step that asks. *)
LEMMA AskLockKeeps ==
  ASSUME LockInv, NEW j \in Job, AskLock(j)
  PROVE  LockInv'
<1>1. /\ At(j, "acquire") /\ ~Ended(j)
      /\ UNCHANGED <<pc, holders, responses, pool, socket, heard, lost>>
  BY DEF AskLock, MayAsk, At
<1>2. /\ pc[j] \in 1 .. Len(ProgramOf[j]) /\ Step(j) = ProgramOf[j][pc[j]]
      /\ Step(j) \in StepRecord /\ Step(j).step = "acquire"
  BY <1>1, StepTyped
<1>3. PICK l0 \in Lock, mode \in Mode :
        Step(j).lock = l0 /\ Step(j).mode = mode /\ Step(j) = Acquire(l0, mode)
  BY <1>2, StepKinds
<1>4. PICK e0 \in Entry : e0 = [task |-> j, mode |-> mode]
  BY DEF Entry, Mode
<1>5. queue \in [Lock -> Seq(Entry)]
  BY DEF LockInv, TypeOK
<1>6. queue' = [queue EXCEPT ![l0] = Append(@, e0)] /\ ~Queued(l0, j)
  BY <1>3, <1>4 DEF AskLock, MayAsk, Ask
<1>7. e0.task = j /\ e0.mode = mode /\ j # ResponsePool
  BY <1>4, JobProgram
<1>8. TypeOK' /\ InProgram' /\ HeldByProgram'
  <2>1. queue' \in [Lock -> Seq(Entry)]
    BY <1>5, <1>6, Enqueue
  <2> QED
    BY <1>1, <2>1 DEF LockInv, TypeOK, InProgram, HeldByProgram, Bookkeeping
<1>9. QueuedAtStep'
  <2>1. \A l \in Lock, e \in Entry : Waiting(l, e) => Waiting(l, e)'
    BY <1>1 DEF Waiting, Step
  <2>2. Waiting(l0, e0)'
    BY <1>1, <1>2, <1>3, <1>7 DEF Waiting, Step
  <2>3. \A i \in DOMAIN queue[l0] : queue[l0][i].task # e0.task
    BY <1>6, <1>7, QueuedIs
  <2> QED
    BY <1>5, <1>6, <2>1, <2>2, <2>3, EnqueueKeeps DEF LockInv
<1>10. PoolWaitsInQueue'
  <2>1. SUFFICES ASSUME pool.state = "waiting" PROVE Queued("server", ResponsePool)'
    BY <1>1 DEF PoolWaitsInQueue
  <2>2. PICK i \in DOMAIN queue["server"] : queue["server"][i].task = ResponsePool
    BY <2>1, QueuedIs DEF LockInv, PoolWaitsInQueue
  <2>3. i \in DOMAIN queue'["server"] /\ queue'["server"][i] = queue["server"][i]
    BY <1>5, <1>6, <2>2, Enqueue, ModesAndLocks
  <2> QED
    BY <2>2, <2>3 DEF Queued, ToSet
<1> QED
  BY <1>8, <1>9, <1>10 DEF LockInv

(* What a grant takes from a queue: its first entry, and that one only. *)
LEMMA Dequeue ==
  ASSUME queue \in [Lock -> Seq(Entry)], NEW l0 \in Lock, queue[l0] # <<>>,
         queue' = [queue EXCEPT ![l0] = Tail(@)]
  PROVE  /\ queue' \in [Lock -> Seq(Entry)]
         /\ 1 \in DOMAIN queue[l0] /\ Head(queue[l0]) = queue[l0][1] /\ Head(queue[l0]) \in Entry
         /\ \A l \in Lock : \A i \in DOMAIN queue'[l] :
              \E k \in DOMAIN queue[l] :
                /\ queue'[l][i] = queue[l][k] /\ (l = l0 => k = i + 1) /\ (l # l0 => k = i)
         /\ \A l \in Lock : \A k \in DOMAIN queue[l] :
              (l = l0 /\ k = 1)
                \/ \E i \in DOMAIN queue'[l] : queue'[l][i] = queue[l][k]
<1>1. queue[l0] \in Seq(Entry)
  OBVIOUS
<1>2. queue'[l0] = Tail(queue[l0]) /\ \A l \in Lock : l # l0 => queue'[l] = queue[l]
  OBVIOUS
<1> HIDE DEF Entry
<1>3. /\ Len(queue[l0]) \in Nat /\ DOMAIN queue[l0] = 1 .. Len(queue[l0])
      /\ queue'[l0] \in Seq(Entry) /\ DOMAIN queue'[l0] = 1 .. Len(queue[l0]) - 1
      /\ 1 \in 1 .. Len(queue[l0])
      /\ Head(queue[l0]) = queue[l0][1] /\ Head(queue[l0]) \in Entry
      /\ \A i \in 1 .. Len(queue[l0]) - 1 : queue'[l0][i] = queue[l0][i + 1]
  BY <1>1, <1>2, QueueShapes
<1>4. queue' \in [Lock -> Seq(Entry)]
  <2> DEFINE S == Seq(Entry)
  <2>1. queue \in [Lock -> S] /\ Tail(queue[l0]) \in S
    BY <1>2, <1>3
  <2> HIDE DEF S
  <2>2. queue' \in [Lock -> S]
    BY <2>1
  <2> QED
    BY <2>2 DEF S
<1>5. ASSUME NEW l \in Lock, NEW i \in DOMAIN queue'[l]
      PROVE  \E k \in DOMAIN queue[l] :
                /\ queue'[l][i] = queue[l][k] /\ (l = l0 => k = i + 1) /\ (l # l0 => k = i)
  <2>1. CASE l = l0
    <3>1. i + 1 \in DOMAIN queue[l] /\ queue'[l][i] = queue[l][i + 1]
      BY <2>1, <1>3
    <3> QED
      BY <2>1, <3>1
  <2>2. CASE l # l0
    BY <2>2, <1>2
  <2> QED
    BY <2>1, <2>2
<1>6. ASSUME NEW l \in Lock, NEW k \in DOMAIN queue[l], ~(l = l0 /\ k = 1)
      PROVE  \E i \in DOMAIN queue'[l] : queue'[l][i] = queue[l][k]
  <2>1. CASE l = l0
    <3>1. k - 1 \in DOMAIN queue'[l] /\ queue'[l][k - 1] = queue[l][(k - 1) + 1] /\ (k - 1) + 1 = k
      BY <2>1, <1>3, <1>6
    <3> QED
      BY <3>1
  <2>2. CASE l # l0
    BY <2>2, <1>2
  <2> QED
    BY <2>1, <2>2
<1> QED
  BY <1>3, <1>4, <1>5, <1>6

(* A lock goes to the first in its queue, if that goes with those that have it. *)
LEMMA GrantKeeps ==
  ASSUME LockInv, NEW l0 \in Lock, Grant(l0)
  PROVE  LockInv'
<1>1. queue \in [Lock -> Seq(Entry)] /\ holders \in [Lock -> SUBSET Entry] /\ pc \in [Job -> Nat]
  BY DEF LockInv, TypeOK
<1>2. /\ queue[l0] # <<>> /\ queue' = [queue EXCEPT ![l0] = Tail(@)]
      /\ UNCHANGED <<responses, socket, heard, lost>>
  BY DEF Grant, MayGrant
<1>3. PICK e \in Entry : e = Head(queue[l0]) /\ e = queue[l0][1] /\ 1 \in DOMAIN queue[l0]
  BY <1>1, <1>2, Dequeue
<1>4. /\ Compatible(l0, e.mode) /\ holders' = [holders EXCEPT ![l0] = @ \cup {e}]
      /\ IF e.task = ResponsePool
           THEN pool' = [pool EXCEPT !.state = "found"] /\ UNCHANGED pc
           ELSE Advance(e.task) /\ UNCHANGED pool
  BY <1>3 DEF Grant, MayGrant
<1>5. /\ Waiting(l0, e)
      /\ \A k \in DOMAIN queue[l0] : queue[l0][k].task = e.task => k = 1
  BY <1>3 DEF LockInv, QueuedAtStep
<1>6. /\ queue' \in [Lock -> Seq(Entry)]
      /\ \A l \in Lock : \A i \in DOMAIN queue'[l] :
            \E k \in DOMAIN queue[l] :
              /\ queue'[l][i] = queue[l][k] /\ (l = l0 => k = i + 1) /\ (l # l0 => k = i)
      /\ \A l \in Lock : \A k \in DOMAIN queue[l] :
            (l = l0 /\ k = 1) \/ \E i \in DOMAIN queue'[l] : queue'[l][i] = queue[l][k]
  BY <1>1, <1>2, Dequeue
<1>7. /\ holders' \in [Lock -> SUBSET Entry] /\ holders'[l0] = holders[l0] \cup {e}
      /\ \A l \in Lock : l # l0 => holders'[l] = holders[l]
  <2> HIDE DEF Entry
  <2> QED
    BY <1>1, <1>4
<1>8. e.task \in Job \cup {ResponsePool} /\ e.mode \in Mode
  BY DEF Entry, Mode
<1>9. \A l \in Lock : \A f \in holders'[l] : f.mode = "write" => holders'[l] = {f}
  <2>1. \A f \in holders[l0] : f.mode = "write" => holders[l0] = {f}
    BY DEF LockInv, TypeOK
  <2>2. \A f \in holders'[l0] : f.mode = "write" => holders'[l0] = {f}
    BY <1>4, <1>7, <2>1 DEF Compatible
  <2> QED
    BY <1>7, <2>2 DEF LockInv, TypeOK
<1>10. \A l \in Lock : \A i \in DOMAIN queue[l] : queue[l][i] \in Entry
  <2> HIDE DEF Entry
  <2> QED
    BY <1>1, QueueShapes
<1>11. \A l \in Lock : \A i, k \in DOMAIN queue'[l] :
         queue'[l][i].task = queue'[l][k].task => i = k
  <2> TAKE l \in Lock
  <2> TAKE i, k \in DOMAIN queue'[l]
  <2> HAVE queue'[l][i].task = queue'[l][k].task
  <2>1. PICK i0 \in DOMAIN queue[l] :
          /\ queue'[l][i] = queue[l][i0] /\ (l = l0 => i0 = i + 1) /\ (l # l0 => i0 = i)
    BY <1>6
  <2>2. PICK k0 \in DOMAIN queue[l] :
          /\ queue'[l][k] = queue[l][k0] /\ (l = l0 => k0 = k + 1) /\ (l # l0 => k0 = k)
    BY <1>6
  <2>3. i0 = k0
    BY <2>1, <2>2 DEF LockInv, QueuedAtStep
  <2>4. i \in Nat /\ k \in Nat
    <3>1. queue'[l] \in Seq(Entry)
      BY <1>6
    <3> HIDE DEF Entry
    <3> QED
      BY <3>1, LenProperties
  <2> QED
    BY <2>1, <2>2, <2>3, <2>4
<1>12. CASE e.task = ResponsePool
  <2>1. l0 = "server" /\ e.mode = "read" /\ pool.state = "waiting"
    BY <1>5, <1>12 DEF Waiting
  <2>2. /\ pool \in [state : {"waiting", "found", "writing"}, to : Connection]
        /\ pool' \in [state : {"waiting", "found", "writing"}, to : Connection]
        /\ pool'.state = "found" /\ pc' = pc
    <3>1. pool = Idle \/ pool \in [state : {"waiting", "found", "writing"}, to : Connection]
      BY DEF LockInv, TypeOK
    <3>2. pool \in [state : {"waiting", "found", "writing"}, to : Connection]
      BY <3>1, <2>1 DEF Idle
    <3>3. pool' = [pool EXCEPT !.state = "found"] /\ pc' = pc
      BY <1>4, <1>12
    <3> QED
      BY <3>2, <3>3
  <2>3. TypeOK' /\ InProgram'
    BY <1>2, <1>6, <1>7, <1>9, <2>2 DEF LockInv, TypeOK, InProgram
  <2>4. HeldByProgram'
    <3>1. ASSUME NEW l \in Lock, NEW f \in holders'[l] PROVE Bookkeeping(l, f)'
      <4>1. CASE f \in holders[l]
        <5>1. Bookkeeping(l, f)
          BY <4>1 DEF LockInv, HeldByProgram
        <5> QED
          BY <5>1, <2>1, <2>2 DEF Bookkeeping
      <4>2. CASE f = e /\ l = l0
        BY <4>2, <2>1, <2>2, <1>12 DEF Bookkeeping
      <4> QED
        BY <4>1, <4>2, <1>7
    <3> QED
      BY <3>1 DEF HeldByProgram
  <2>5. QueuedAtStep'
    <3>1. ASSUME NEW l \in Lock, NEW i \in DOMAIN queue'[l] PROVE Waiting(l, queue[l][i])'
      <4>1. PICK k \in DOMAIN queue[l] :
              /\ queue'[l][i] = queue[l][k] /\ (l = l0 => k = i + 1) /\ (l # l0 => k = i)
        BY <1>6
      <4>2. PICK f \in Entry : f = queue[l][k] /\ Waiting(l, f)
        BY <4>1, <1>10 DEF LockInv, QueuedAtStep
      <4>3. i \in Nat \ {0}
        <5>1. queue'[l] \in Seq(Entry)
          BY <1>6
        <5> HIDE DEF Entry
        <5> QED
          BY <5>1, LenProperties
      <4>4. f.task # ResponsePool
        <5> SUFFICES ASSUME f.task = ResponsePool PROVE FALSE
          OBVIOUS
        <5>1. l = l0
          BY <4>2, <2>1 DEF Waiting
        <5>2. k = 1 /\ k = i + 1
          BY <5>1, <4>1, <4>2, <1>5, <1>12
        <5> QED
          BY <5>2, <4>3
      <4>5. Waiting(l, f)'
        BY <4>2, <4>4, <2>2 DEF Waiting, Step
      <4> QED
        BY <4>1, <4>2, <4>5 DEF Waiting, Step
    <3> QED
      BY <3>1, <1>11 DEF QueuedAtStep
  <2>6. PoolWaitsInQueue'
    BY <2>2 DEF PoolWaitsInQueue
  <2> QED
    BY <2>3, <2>4, <2>5, <2>6 DEF LockInv
<1>13. CASE e.task # ResponsePool
  <2>1. PICK j \in Job : j = e.task
    BY <1>8, <1>13
  <2>2. /\ pc' = [pc EXCEPT ![j] = @ + 1] /\ pool' = pool
        /\ pc[j] \in 1 .. Len(ProgramOf[j]) /\ ProgramOf[j][pc[j]] = Acquire(l0, e.mode)
    BY <1>4, <1>5, <1>13, <2>1 DEF Waiting, Step, Advance, LockInv, InProgram
  <2>3. /\ pc' \in [Job -> Nat] /\ pc'[j] = pc[j] + 1
        /\ \A k \in Job : k # j => pc'[k] = pc[k]
    BY <1>1, <2>2
  <2>4. TypeOK' /\ InProgram'
    <3>1. InProgram'
      BY <2>2, <2>3, JobProgram DEF LockInv, InProgram
    <3> QED
      BY <3>1, <1>2, <1>6, <1>7, <1>9, <2>2, <2>3 DEF LockInv, TypeOK
  <2>5. HeldByProgram'
    <3>1. ASSUME NEW l \in Lock, NEW f \in holders'[l] PROVE Bookkeeping(l, f)'
      <4>1. f.task \in Job \cup {ResponsePool}
        BY <1>7 DEF Entry
      <4>2. CASE f \in holders[l] /\ f.task # j
        <5>1. Bookkeeping(l, f)
          BY <4>2 DEF LockInv, HeldByProgram
        <5> QED
          BY <5>1, <4>1, <4>2, <2>2, <2>3 DEF Bookkeeping
      <4>3. CASE f \in holders[l] /\ f.task = j
        <5>1. HoldsAs(ProgramOf[j], pc[j], l, f.mode)
          BY <4>3, JobProgram DEF LockInv, HeldByProgram, Bookkeeping
        <5>2. ProgramOf[j][pc[j]] # Release(l)
          BY <2>2, <1>8, StepKinds
        <5>3. HoldsAs(ProgramOf[j], pc[j] + 1, l, f.mode)
          BY <5>1, <5>2, <2>2, HoldsOn
        <5> QED
          BY <5>3, <4>3, <2>3, JobProgram DEF Bookkeeping
      <4>4. CASE f = e /\ l = l0
        <5>1. HoldsAs(ProgramOf[j], pc[j] + 1, l, f.mode)
          BY <4>4, <2>2, HoldsFrom
        <5> QED
          BY <5>1, <4>4, <2>1, <2>3, JobProgram DEF Bookkeeping
      <4> QED
        BY <4>2, <4>3, <4>4, <1>7
    <3> QED
      BY <3>1 DEF HeldByProgram
  <2>6. QueuedAtStep'
    <3>1. ASSUME NEW l \in Lock, NEW i \in DOMAIN queue'[l] PROVE Waiting(l, queue[l][i])'
      <4>1. PICK k \in DOMAIN queue[l] :
              /\ queue'[l][i] = queue[l][k] /\ (l = l0 => k = i + 1) /\ (l # l0 => k = i)
        BY <1>6
      <4>2. PICK f \in Entry : f = queue[l][k] /\ Waiting(l, f)
        BY <4>1, <1>10 DEF LockInv, QueuedAtStep
      <4>3. i \in Nat \ {0}
        <5>1. queue'[l] \in Seq(Entry)
          BY <1>6
        <5> HIDE DEF Entry
        <5> QED
          BY <5>1, LenProperties
      <4>4. f.task # j
        <5> SUFFICES ASSUME f.task = j PROVE FALSE
          OBVIOUS
        <5>1. Acquire(l, f.mode) = Acquire(l0, e.mode) /\ f.mode \in Mode
          BY <4>2, <2>2, JobProgram DEF Waiting, Step, Entry, Mode
        <5>2. l = l0
          BY <5>1, <1>8, StepKinds
        <5>3. k = 1 /\ k = i + 1
          BY <5>2, <4>1, <4>2, <1>5, <2>1
        <5> QED
          BY <5>3, <4>3
      <4>5. f.task \in Job \cup {ResponsePool}
        BY DEF Entry
      <4>6. Waiting(l, f)'
        BY <4>2, <4>4, <4>5, <2>2, <2>3 DEF Waiting, Step
      <4> QED
        BY <4>1, <4>2, <4>6 DEF Waiting, Step
    <3> QED
      BY <3>1, <1>11 DEF QueuedAtStep
  <2>7. PoolWaitsInQueue'
    <3>1. SUFFICES ASSUME pool.state = "waiting" PROVE Queued("server", ResponsePool)'
      BY <2>2 DEF PoolWaitsInQueue
    <3>2. PICK k \in DOMAIN queue["server"] : queue["server"][k].task = ResponsePool
      BY <3>1, QueuedIs DEF LockInv, PoolWaitsInQueue
    <3>3. \E i \in DOMAIN queue'["server"] : queue'["server"][i] = queue["server"][k]
      BY <3>2, <1>3, <1>6, <1>13, ModesAndLocks
    <3> QED
      BY <3>2, <3>3 DEF Queued, ToSet
  <2> QED
    BY <2>4, <2>5, <2>6, <2>7 DEF LockInv
<1> QED
  BY <1>12, <1>13

(* A task gives back a lock, or sends: what else it has it still has. *)
LEMMA AdvanceKeeps ==
  ASSUME LockInv, NEW j \in Job, NEW l0 \in Lock,
         ~Ended(j), Step(j).step # "acquire",
         pc' = [pc EXCEPT ![j] = @ + 1], queue' = queue, pool' = pool,
         \A l \in Lock : holders'[l] \subseteq holders[l],
         \A l \in Lock : \A f \in holders'[l] : f.task = j => Step(j) # Release(l)
  PROVE  InProgram' /\ HeldByProgram' /\ QueuedAtStep' /\ PoolWaitsInQueue'
<1>1. /\ pc[j] \in 1 .. Len(ProgramOf[j]) /\ Step(j) = ProgramOf[j][pc[j]]
      /\ Step(j) \in StepRecord /\ j # ResponsePool
  BY StepTyped, JobProgram
<1>2. pc \in [Job -> Nat] /\ queue \in [Lock -> Seq(Entry)] /\ holders \in [Lock -> SUBSET Entry]
  BY DEF LockInv, TypeOK
<1>3. pc' \in [Job -> Nat] /\ pc'[j] = pc[j] + 1 /\ \A k \in Job : k # j => pc'[k] = pc[k]
  BY <1>2
<1>4. InProgram'
  BY <1>1, <1>3, JobProgram DEF LockInv, InProgram
<1>5. HeldByProgram'
  <2>1. ASSUME NEW l \in Lock, NEW f \in holders'[l] PROVE Bookkeeping(l, f)'
    <3>1. f \in holders[l] /\ f \in Entry
      BY <1>2
    <3>2. Bookkeeping(l, f)
      BY <3>1 DEF LockInv, HeldByProgram
    <3>3. f.task \in Job \cup {ResponsePool}
      BY <3>1 DEF Entry
    <3>4. CASE f.task # j
      BY <3>2, <3>3, <3>4, <1>3 DEF Bookkeeping
    <3>5. CASE f.task = j
      <4>1. HoldsAs(ProgramOf[j], pc[j], l, f.mode)
        BY <3>2, <3>5, <1>1 DEF Bookkeeping
      <4>2. ProgramOf[j][pc[j]] # Release(l)
        BY <3>5, <1>1
      <4>3. HoldsAs(ProgramOf[j], pc[j] + 1, l, f.mode)
        BY <4>1, <4>2, <1>1, HoldsOn
      <4> QED
        BY <4>3, <3>5, <1>1, <1>3 DEF Bookkeeping
    <3> QED
      BY <3>4, <3>5
  <2> QED
    BY <2>1 DEF HeldByProgram
<1>6. QueuedAtStep'
  <2>1. ASSUME NEW l \in Lock, NEW i \in DOMAIN queue[l] PROVE Waiting(l, queue[l][i])'
    <3>1. PICK f \in Entry : f = queue[l][i] /\ Waiting(l, f)
      <4>1. queue[l] \in Seq(Entry)
        BY <1>2
      <4>2. queue[l][i] \in Entry
        <5> HIDE DEF Entry
        <5> QED
          BY <4>1, QueueShapes
      <4> QED
        BY <4>2 DEF LockInv, QueuedAtStep
    <3>2. f.task # j
      <4> SUFFICES ASSUME f.task = j PROVE FALSE
        OBVIOUS
      <4>1. Step(j) = Acquire(l, f.mode) /\ f.mode \in Mode
        BY <3>1, <1>1 DEF Waiting, Entry, Mode
      <4> QED
        BY <4>1, StepKinds
    <3>3. f.task \in Job \cup {ResponsePool}
      BY DEF Entry
    <3>4. Waiting(l, f)'
      BY <3>1, <3>2, <3>3, <1>3 DEF Waiting, Step
    <3> QED
      BY <3>1, <3>4 DEF Waiting, Step
  <2> QED
    BY <2>1 DEF LockInv, QueuedAtStep
<1>7. PoolWaitsInQueue'
  BY DEF LockInv, PoolWaitsInQueue, Queued
<1> QED
  BY <1>4, <1>5, <1>6, <1>7

(* Giving back keeps a writer alone. *)
LEMMA FewerHolders ==
  ASSUME LockInv, \A l \in Lock : holders'[l] \subseteq holders[l]
  PROVE  \A l \in Lock : \A e \in holders'[l] : e.mode = "write" => holders'[l] = {e}
<1> TAKE l \in Lock
<1> TAKE e \in holders'[l]
<1> HAVE e.mode = "write"
<1>1. e \in holders[l] /\ holders[l] = {e}
  BY DEF LockInv, TypeOK
<1> QED
  BY <1>1

LEMMA ReleaseLockKeeps ==
  ASSUME LockInv, NEW j \in Job, ReleaseLock(j)
  PROVE  LockInv'
<1>1. ~Ended(j) /\ Step(j).step = "release" /\ Step(j) \in StepRecord
  BY StepTyped DEF ReleaseLock, At
<1>2. PICK l0 \in Lock : l0 = Step(j).lock /\ Step(j) = Release(l0)
  BY <1>1, StepKinds
<1>3. /\ holders' = [holders EXCEPT ![l0] = {e \in @ : e.task # j}]
      /\ pc' = [pc EXCEPT ![j] = @ + 1]
      /\ UNCHANGED <<queue, responses, pool, socket, heard, lost>>
  BY <1>2 DEF ReleaseLock, Drop, Advance
<1>4. pc \in [Job -> Nat] /\ holders \in [Lock -> SUBSET Entry]
  BY DEF LockInv, TypeOK
<1>5. /\ holders' \in [Lock -> SUBSET Entry]
      /\ holders'[l0] = {e \in holders[l0] : e.task # j}
      /\ \A l \in Lock : l # l0 => holders'[l] = holders[l]
  <2> HIDE DEF Entry
  <2> QED
    BY <1>3, <1>4
<1>6. TypeOK'
  <2>1. \A l \in Lock : \A e \in holders'[l] : e.mode = "write" => holders'[l] = {e}
    BY <1>5, FewerHolders
  <2>2. pc' \in [Job -> Nat]
    BY <1>3, <1>4
  <2> QED
    BY <2>1, <2>2, <1>3, <1>5 DEF LockInv, TypeOK
<1>7. \A l \in Lock : \A f \in holders'[l] : f.task = j => Step(j) # Release(l)
  <2> SUFFICES ASSUME NEW l \in Lock, NEW f \in holders'[l], f.task = j, Step(j) = Release(l)
               PROVE  FALSE
    OBVIOUS
  <2>1. l = l0
    BY <1>2, StepKinds
  <2> QED
    BY <2>1, <1>5
<1>8. \A l \in Lock : holders'[l] \subseteq holders[l]
  BY <1>5
<1>9. InProgram' /\ HeldByProgram' /\ QueuedAtStep' /\ PoolWaitsInQueue'
  BY <1>1, <1>3, <1>7, <1>8, AdvanceKeeps
<1> QED
  BY <1>6, <1>9 DEF LockInv

LEMMA SendKeeps ==
  ASSUME LockInv, NEW j \in Job, Send(j)
  PROVE  LockInv'
<1>1. ~Ended(j) /\ Step(j).step = "send" /\ Step(j) \in StepRecord
  BY StepTyped DEF Send, MaySend, At
<1>2. Step(j).to \in Connection /\ \A l \in Lock : Step(j) # Release(l)
  BY <1>1, StepKinds
<1>3. /\ Len(responses) < ResponseCap /\ responses' = Append(responses, Step(j).to)
      /\ pc' = [pc EXCEPT ![j] = @ + 1]
      /\ UNCHANGED <<holders, queue, pool, socket, heard, lost>>
  BY DEF Send, MaySend, Advance
<1>4. pc \in [Job -> Nat] /\ responses \in Seq(Connection) /\ ResponseCap \in Nat
  BY LocksAssumption DEF LockInv, TypeOK
<1>5. responses' \in Seq(Connection) /\ Len(responses') = Len(responses) + 1 /\ Len(responses) \in Nat
  BY <1>2, <1>3, <1>4
<1>6. TypeOK'
  BY <1>3, <1>4, <1>5 DEF LockInv, TypeOK
<1>7. InProgram' /\ HeldByProgram' /\ QueuedAtStep' /\ PoolWaitsInQueue'
  BY <1>1, <1>2, <1>3, ModesAndLocks, AdvanceKeeps
<1> QED
  BY <1>6, <1>7 DEF LockInv

(* The response pool asks for the server as the tasks do. *)
LEMMA TakeResponseKeeps ==
  ASSUME LockInv, TakeResponse
  PROVE  LockInv'
<1>1. /\ pool = Idle /\ responses # <<>> /\ responses' = Tail(responses)
      /\ pool' = [state |-> "waiting", to |-> Head(responses)]
      /\ UNCHANGED <<pc, holders, socket, heard, lost>>
  BY DEF TakeResponse
<1>2. PICK e0 \in Entry : e0 = [task |-> ResponsePool, mode |-> "read"]
  BY DEF Entry
<1>3. queue' = [queue EXCEPT !["server"] = Append(@, e0)]
  BY <1>2 DEF TakeResponse, Ask
<1>4. queue \in [Lock -> Seq(Entry)] /\ responses \in Seq(Connection) /\ "server" \in Lock
  BY ModesAndLocks DEF LockInv, TypeOK
<1>5. /\ Head(responses) \in Connection /\ responses' \in Seq(Connection)
      /\ Len(responses') = Len(responses) - 1 /\ Len(responses) \in Nat
  BY <1>1, <1>4
<1>6. pool.state = "idle" /\ pool'.state = "waiting" /\ e0.task = ResponsePool /\ e0.mode = "read"
  BY <1>1, <1>2 DEF Idle
<1>7. TypeOK' /\ InProgram'
  <2>1. queue' \in [Lock -> Seq(Entry)]
    BY <1>3, <1>4, Enqueue
  <2>2. Len(responses') <= ResponseCap
    BY <1>5, LocksAssumption DEF LockInv, TypeOK
  <2>3. pool' \in [state : {"waiting", "found", "writing"}, to : Connection]
    BY <1>1, <1>5
  <2> QED
    BY <1>1, <1>5, <2>1, <2>2, <2>3 DEF LockInv, TypeOK, InProgram
<1>8. HeldByProgram'
  BY <1>1, <1>6 DEF LockInv, HeldByProgram, Bookkeeping
<1>9. QueuedAtStep'
  <2>1. \A l \in Lock, e \in Entry : Waiting(l, e) => Waiting(l, e)'
    BY <1>1, <1>6 DEF Waiting, Step
  <2>2. Waiting("server", e0)'
    BY <1>6 DEF Waiting
  <2>3. \A i \in DOMAIN queue["server"] : queue["server"][i].task # e0.task
    BY <1>4, <1>6 DEF LockInv, QueuedAtStep, Waiting
  <2> QED
    BY <1>3, <1>4, <2>1, <2>2, <2>3, EnqueueKeeps DEF LockInv
<1>10. PoolWaitsInQueue'
  <2>1. Append(queue["server"], e0)[Len(queue["server"]) + 1] = e0
        /\ Len(queue["server"]) + 1 \in DOMAIN Append(queue["server"], e0)
    <3>1. queue["server"] \in Seq(Entry)
      BY <1>4
    <3> HIDE DEF Entry
    <3> QED
      BY <3>1, QueueShapes
  <2>2. queue'["server"] = Append(queue["server"], e0)
    BY <1>3, <1>4
  <2> QED
    BY <2>1, <2>2, <1>6 DEF PoolWaitsInQueue, Queued, ToSet
<1> QED
  BY <1>7, <1>8, <1>9, <1>10 DEF LockInv

(* The response pool drops the server's lock, writes, and the other side reads. *)
LEMMA PoolStepsKeep ==
  ASSUME LockInv, FindWriter \/ WriteResponse \/ \E c \in Connection : ReadSocket(c)
  PROVE  LockInv'
<1>1. /\ holders \in [Lock -> SUBSET Entry] /\ socket \in [Connection -> 0 .. SocketCap]
      /\ heard \in [Connection -> Nat] /\ lost \in [Connection -> Nat]
      /\ SocketCap \in Nat /\ "server" \in Lock
      /\ (pool = Idle \/ pool \in [state : {"waiting", "found", "writing"}, to : Connection])
  BY LocksAssumption, ModesAndLocks DEF LockInv, TypeOK
<1>2. CASE FindWriter
  <2>1. /\ pool.state = "found"
        /\ \/ pool' = [pool EXCEPT !.state = "writing"] /\ lost' = lost
           \/ pool' = Idle /\ lost' = [lost EXCEPT ![pool.to] = @ + 1]
        /\ holders' = [holders EXCEPT !["server"] = {e \in @ : e.task # ResponsePool}]
        /\ UNCHANGED <<pc, queue, responses, socket, heard>>
    BY <1>2 DEF FindWriter, Drop, Lose
  <2>2. /\ pool' = Idle \/ pool' \in [state : {"waiting", "found", "writing"}, to : Connection]
        /\ pool'.state \in {"idle", "writing"}
        /\ lost' \in [Connection -> Nat]
    <3>1. pool \in [state : {"waiting", "found", "writing"}, to : Connection]
      BY <1>1, <2>1 DEF Idle
    <3>2. CASE pool' = [pool EXCEPT !.state = "writing"] /\ lost' = lost
      BY <1>1, <3>1, <3>2
    <3>3. CASE pool' = Idle /\ lost' = [lost EXCEPT ![pool.to] = @ + 1]
      BY <1>1, <3>1, <3>3 DEF Idle
    <3> QED
      BY <2>1, <3>2, <3>3
  <2>3. /\ holders' \in [Lock -> SUBSET Entry]
        /\ holders'["server"] = {e \in holders["server"] : e.task # ResponsePool}
        /\ \A l \in Lock : l # "server" => holders'[l] = holders[l]
    <3> HIDE DEF Entry
    <3> QED
      BY <1>1, <2>1
  <2>4. \A l \in Lock : \A e \in holders'[l] : e.mode = "write" => holders'[l] = {e}
    <3>1. \A l \in Lock : holders'[l] \subseteq holders[l]
      BY <2>3
    <3> QED
      BY <3>1, FewerHolders
  <2>5. TypeOK' /\ InProgram'
    BY <2>1, <2>2, <2>3, <2>4 DEF LockInv, TypeOK, InProgram
  <2>6. HeldByProgram'
    BY <2>1, <2>3 DEF LockInv, HeldByProgram, Bookkeeping
  <2>7. QueuedAtStep' /\ PoolWaitsInQueue'
    BY <2>1, <2>2 DEF LockInv, QueuedAtStep, Waiting, Step, PoolWaitsInQueue
  <2> QED
    BY <2>5, <2>6, <2>7 DEF LockInv
<1>3. CASE WriteResponse
  <2>1. /\ pool.state = "writing" /\ pool' = Idle
        /\ \/ /\ socket[pool.to] < SocketCap /\ lost' = lost
              /\ socket' = [socket EXCEPT ![pool.to] = @ + 1]
           \/ socket' = socket /\ lost' = [lost EXCEPT ![pool.to] = @ + 1]
        /\ UNCHANGED <<pc, holders, queue, responses, heard>>
    BY <1>3 DEF WriteResponse, Lose
  <2>2. pool.to \in Connection /\ pool'.state = "idle"
    BY <1>1, <2>1 DEF Idle
  <2>3. socket' \in [Connection -> 0 .. SocketCap] /\ lost' \in [Connection -> Nat]
    BY <1>1, <2>1, <2>2
  <2>4. TypeOK' /\ InProgram'
    BY <2>1, <2>3 DEF LockInv, TypeOK, InProgram
  <2>5. HeldByProgram' /\ QueuedAtStep' /\ PoolWaitsInQueue'
    BY <2>1, <2>2
       DEF LockInv, HeldByProgram, Bookkeeping, QueuedAtStep, Waiting, Step, PoolWaitsInQueue
  <2> QED
    BY <2>4, <2>5 DEF LockInv
<1>4. CASE \E c \in Connection : ReadSocket(c)
  <2>1. PICK c \in Connection : ReadSocket(c)
    BY <1>4
  <2>2. socket' \in [Connection -> 0 .. SocketCap] /\ heard' \in [Connection -> Nat]
    BY <1>1, <2>1 DEF ReadSocket
  <2>3. UNCHANGED <<pc, holders, queue, responses, pool, lost>>
    BY <2>1 DEF ReadSocket
  <2>4. TypeOK' /\ InProgram'
    BY <2>2, <2>3 DEF LockInv, TypeOK, InProgram
  <2>5. HeldByProgram' /\ QueuedAtStep' /\ PoolWaitsInQueue'
    BY <2>3 DEF LockInv, HeldByProgram, Bookkeeping, QueuedAtStep, Waiting, Step,
                PoolWaitsInQueue, Queued
  <2> QED
    BY <2>4, <2>5 DEF LockInv
<1> QED
  BY <1>2, <1>3, <1>4

(* LockInv is inductive: who has a lock is between the steps that acquire and
   release it, and who is in a queue is at the step that asks. *)
THEOREM LocksInvariant == Spec => []LockInv
<1>1. LockInv /\ [Next]_vars => LockInv'
  <2> SUFFICES ASSUME LockInv, [Next]_vars PROVE LockInv'
    OBVIOUS
  <2>1. CASE \E j \in Job : JobStep(j)
    BY <2>1, AskLockKeeps, ReleaseLockKeeps, SendKeeps DEF JobStep
  <2>2. CASE \E l \in Lock : Grant(l)
    BY <2>2, GrantKeeps
  <2>3. CASE TakeResponse
    BY <2>3, TakeResponseKeeps
  <2>4. CASE FindWriter \/ WriteResponse \/ \E c \in Connection : ReadSocket(c)
    BY <2>4, PoolStepsKeep
  <2>5. CASE UNCHANGED vars
    BY <2>5 DEF vars, LockInv, TypeOK, InProgram, HeldByProgram, Bookkeeping, QueuedAtStep,
                Waiting, Step, PoolWaitsInQueue, Queued
  <2> QED
    BY <2>1, <2>2, <2>3, <2>4, <2>5 DEF Next
<1> QED
  BY <1>1, InitLockInv, PTL DEF Spec

(* A lock that somebody has to write under is nobody else's, the channel and
   the sockets hold what they can, and every variable keeps its type. *)
THEOREM LocksTypeCorrect == Spec => []TypeOK
<1>1. LockInv => TypeOK
  BY DEF LockInv
<1> QED
  BY <1>1, LocksInvariant, PTL

----------------------------------------------------------------------------
(* Who stops whom. *)

(* A job that is in a queue is at the step that asks for that lock. *)
LEMMA QueuedWaits ==
  ASSUME LockInv, NEW l \in Lock, NEW j \in Job, Queued(l, j)
  PROVE  ~Ended(j) /\ \E mode \in Mode : Step(j) = Acquire(l, mode)
<1>1. PICK i \in DOMAIN queue[l] : queue[l][i].task = j
  BY QueuedIs
<1>2. queue[l][i] \in Entry
  <2>1. queue[l] \in Seq(Entry)
    BY DEF LockInv, TypeOK
  <2> HIDE DEF Entry
  <2> QED
    BY <2>1, QueueShapes
<1>3. pc[j] <= Len(ProgramOf[j]) /\ Step(j) = Acquire(l, queue[l][i].mode)
  BY <1>1, JobProgram DEF LockInv, QueuedAtStep, Waiting
<1>4. ~Ended(j)
  <2>1. pc[j] \in Nat /\ Len(ProgramOf[j]) \in Nat
    BY JobProgram DEF LockInv, TypeOK
  <2> QED
    BY <2>1, <1>3 DEF Ended
<1> QED
  BY <1>2, <1>3, <1>4 DEF Entry, Mode

(* What a job that has a lock and asks for another one may be about. *)
LEMMA HolderAsks ==
  ASSUME LockInv, NEW l \in Lock, NEW h \in holders[l], h.task # ResponsePool
  PROVE  /\ h.task \in Job /\ ~Ended(h.task)
         /\ At(h.task, "acquire") => MayAskWith(l, h.mode, Step(h.task))
<1>1. h \in Entry
  BY DEF LockInv, TypeOK
<1>2. h.task \in Job /\ h.mode \in Mode
  BY <1>1 DEF Entry, Mode
<1>3. PICK k \in Job : k = h.task
  BY <1>2
<1>4. HoldsAs(ProgramOf[k], pc[k], l, h.mode) /\ pc[k] \in 1 .. Len(ProgramOf[k]) + 1
  BY <1>3 DEF LockInv, HeldByProgram, Bookkeeping, InProgram
<1>5. pc[k] <= Len(ProgramOf[k])
      /\ (ProgramOf[k][pc[k]].step = "acquire" => MayAskWith(l, h.mode, ProgramOf[k][pc[k]]))
  BY <1>2, <1>4, JobProgram DEF Orderly
<1>6. ~Ended(k)
  <2>1. pc[k] \in Nat /\ Len(ProgramOf[k]) \in Nat
    BY JobProgram DEF LockInv, TypeOK
  <2> QED
    BY <2>1, <1>5 DEF Ended
<1> QED
  BY <1>2, <1>3, <1>5, <1>6 DEF At, Step

(* When nobody moves, every job that has not ended is in a queue. *)
LEMMA StuckIsQueued ==
  ASSUME LockInv, ~SomeoneMoves, Len(responses) < ResponseCap, NEW j \in Job, ~Ended(j)
  PROVE  /\ At(j, "acquire")
         /\ \E l \in Lock, mode \in Mode : Step(j) = Acquire(l, mode) /\ Queued(l, j)
<1>1. Step(j) \in StepRecord /\ \A kind : At(j, kind) <=> Step(j).step = kind
  BY StepTyped
<1>2. ~MayAsk(j) /\ ~At(j, "release") /\ ~MaySend(j)
  BY DEF SomeoneMoves
<1>3. ~At(j, "send")
  BY <1>2 DEF MaySend
<1>4. At(j, "acquire") /\ Step(j).step = "acquire"
  BY <1>1, <1>2, <1>3, StepKinds
<1>5. Step(j).lock \in Lock /\ Step(j).mode \in Mode /\ Step(j) = Acquire(Step(j).lock, Step(j).mode)
  BY <1>1, <1>4, StepKinds
<1>6. Queued(Step(j).lock, j)
  BY <1>2, <1>4 DEF MayAsk
<1> QED
  BY <1>4, <1>5, <1>6

(* When nobody moves, somebody has the lock that others wait for, and waits for
   the next one: a map after the server, a partition after a map, the server
   after a partition.  What is waited for in the last case is held to write; in
   the others the first in the queue is to write. *)
LEMMA StuckBehind ==
  ASSUME LockInv, ~SomeoneMoves, Len(responses) < ResponseCap,
         NEW l \in Lock, queue[l] # <<>>
  PROVE  \E k \in Job, m \in Lock :
           /\ HasLock(l, k) /\ Queued(m, k)
           /\ l = "server" => m \in Shard /\ Head(queue[l]).mode = "write"
           /\ l \in Shard => m \in Partition /\ Head(queue[l]).mode = "write"
           /\ l \in Partition => m = "server"
<1>1. ~Compatible(l, Head(queue[l]).mode)
  BY DEF SomeoneMoves, MayGrant
<1>2. holders[l] # {} /\ (Head(queue[l]).mode = "read" => \E h \in holders[l] : h.mode # "read")
  BY <1>1 DEF Compatible
<1>3. Head(queue[l]).mode \in Mode
  <2>1. queue[l] \in Seq(Entry)
    BY DEF LockInv, TypeOK
  <2>2. Head(queue[l]) \in Entry
    <3> HIDE DEF Entry
    <3> QED
      BY <2>1, QueueShapes
  <2> QED
    BY <2>2 DEF Entry, Mode
<1>4. ASSUME NEW h \in holders[l]
      PROVE  /\ h.task \in Job /\ ~Ended(h.task) /\ At(h.task, "acquire")
             /\ MayAskWith(l, h.mode, Step(h.task))
  <2>1. h.task # ResponsePool
    BY DEF LockInv, HeldByProgram, Bookkeeping, SomeoneMoves
  <2>2. h.task \in Job /\ ~Ended(h.task)
    BY <2>1, HolderAsks
  <2>3. At(h.task, "acquire")
    BY <2>2, StuckIsQueued
  <2> QED
    BY <2>1, <2>2, <2>3, HolderAsks
<1>5. PICK h \in holders[l] : TRUE
  BY <1>2
<1>6. PICK k \in Job : k = h.task
  BY <1>4
<1>7. HasLock(l, k)
  BY <1>5, <1>6 DEF HasLock
<1>8. PICK m \in Lock, mode \in Mode : Step(k) = Acquire(m, mode) /\ Queued(m, k)
  BY <1>4, <1>6, StuckIsQueued
<1>9. MayAskWith(l, h.mode, Acquire(m, mode))
  BY <1>4, <1>6, <1>8
<1>10. /\ l = "server" => m \in Shard
       /\ l \in Shard => m \in Partition
       /\ l \in Partition => m = "server"
  BY <1>9, StepKinds, ModesAndLocks DEF MayAskWith, Mode
<1>11. l = "server" \/ l \in Shard => Head(queue[l]).mode = "write"
  <2> SUFFICES ASSUME l = "server" \/ l \in Shard, Head(queue[l]).mode = "read" PROVE FALSE
    BY <1>3 DEF Mode
  <2>1. PICK f \in holders[l] : f.mode # "read"
    BY <1>2
  <2>2. MayAskWith(l, f.mode, Step(f.task))
    BY <1>4
  <2> QED
    BY <2>1, <2>2, ModesAndLocks DEF MayAskWith
<1> QED
  BY <1>7, <1>8, <1>10, <1>11

LEMMA QueuedQueue ==
  ASSUME LockInv, NEW l \in Lock, NEW t, Queued(l, t)
  PROVE  queue[l] # <<>>
BY QueuedIs

(* Behind a queue for the server's lock there is the whole circle. *)
LEMMA ServerInCycle ==
  ASSUME LockInv, ~SomeoneMoves, Len(responses) < ResponseCap, queue["server"] # <<>>
  PROVE  WaitCycle
<1>1. PICK look \in Job, s \in Lock :
        /\ HasLock("server", look) /\ Queued(s, look) /\ s \in Shard
        /\ Head(queue["server"]).mode = "write"
  BY StuckBehind, ModesAndLocks
<1>2. PICK reg \in Job, q \in Lock :
        /\ HasLock(s, reg) /\ Queued(q, reg) /\ q \in Partition
        /\ Head(queue[s]).mode = "write"
  BY <1>1, StuckBehind, QueuedQueue
<1>3. PICK write \in Job : HasLock(q, write) /\ Queued("server", write)
  BY <1>2, StuckBehind, QueuedQueue
<1> QED
  BY <1>1, <1>2, <1>3 DEF WaitCycle, Circle

(* From whatever lock a job waits for, the locks in between lead to the server's. *)
LEMMA StuckInCycle == LockInv => StuckOnlyInCycle
<1> SUFFICES ASSUME LockInv, ~SomeoneMoves, Len(responses) < ResponseCap,
                    NEW j \in Job, ~Ended(j)
             PROVE  WaitCycle
  BY DEF StuckOnlyInCycle
<1>1. PICK l \in Lock : queue[l] # <<>>
  BY StuckIsQueued, QueuedQueue
<1>2. ASSUME NEW m \in Partition, queue[m] # <<>> PROVE queue["server"] # <<>>
  BY <1>2, StuckBehind, QueuedQueue, ModesAndLocks
<1>3. ASSUME NEW m \in Shard, queue[m] # <<>> PROVE queue["server"] # <<>>
  <2>1. \E k \in Job, q \in Lock : Queued(q, k) /\ q \in Partition
    BY <1>3, StuckBehind, ModesAndLocks
  <2> QED
    BY <2>1, <1>2, QueuedQueue
<1>4. queue["server"] # <<>>
  BY <1>1, <1>2, <1>3 DEF Lock
<1> QED
  BY <1>4, ServerInCycle

(* However many requests, connections, shards and partitions a broker has: with
   room in the response channel its tasks stop each other in one way only, a
   partition worker, a lookup and a registration each with the lock the next one
   waits for, behind a connection and a topic_insert that wait to write
   (partition_worker.rs 81-86, server_workers.rs 374-384, consumer_worker.rs
   280-391). *)
THEOREM TasksStopOnlyInCycle == Spec => []StuckOnlyInCycle
BY LocksInvariant, StuckInCycle, PTL

----------------------------------------------------------------------------
(* The circle does not open. *)

(* A job gives a lock back at a step of its own only. *)
LEMMA HolderStays ==
  ASSUME LockInv, Next, NEW l \in Lock, NEW k \in Job, HasLock(l, k), ~At(k, "release")
  PROVE  HasLock(l, k)'
<1>1. PICK e \in holders[l] : e.task = k
  BY DEF HasLock
<1>2. k # ResponsePool /\ holders \in [Lock -> SUBSET Entry]
  BY JobProgram DEF LockInv, TypeOK
<1>3. e \in holders'[l]
  <2>1. CASE \E j \in Job : ReleaseLock(j)
    <3>1. PICK j \in Job : At(j, "release") /\ Drop(Step(j).lock, j)
      BY <2>1 DEF ReleaseLock
    <3>2. j # k /\ holders' = [holders EXCEPT ![Step(j).lock] = {f \in @ : f.task # j}]
      BY <3>1 DEF Drop
    <3> QED
      BY <1>1, <1>2, <3>2
  <2>2. CASE \E m \in Lock : Grant(m)
    <3>1. PICK m \in Lock : holders' = [holders EXCEPT ![m] = @ \cup {Head(queue[m])}]
      BY <2>2 DEF Grant
    <3> QED
      BY <1>1, <1>2, <3>1
  <2>3. CASE FindWriter
    <3>1. holders' = [holders EXCEPT !["server"] = {f \in @ : f.task # ResponsePool}]
      BY <2>3 DEF FindWriter, Drop
    <3> QED
      BY <1>1, <1>2, <3>1
  <2>4. CASE (\E j \in Job : AskLock(j) \/ Send(j)) \/ TakeResponse \/ WriteResponse
              \/ \E c \in Connection : ReadSocket(c)
    <3>1. holders' = holders
      BY <2>4 DEF AskLock, Send, TakeResponse, WriteResponse, ReadSocket
    <3> QED
      BY <1>1, <3>1
  <2> QED
    BY <2>1, <2>2, <2>3, <2>4 DEF Next, JobStep
<1> QED
  BY <1>1, <1>3 DEF HasLock

(* A queue whose first cannot have the lock yet loses nobody. *)
LEMMA QueueStays ==
  ASSUME LockInv, Next, NEW l \in Lock, queue[l] # <<>>, ~Compatible(l, Head(queue[l]).mode)
  PROVE  /\ \A t : Queued(l, t) => Queued(l, t)'
         /\ Head(queue'[l]) = Head(queue[l])
<1>1. queue \in [Lock -> Seq(Entry)] /\ queue[l] \in Seq(Entry) /\ "server" \in Lock
  BY ModesAndLocks DEF LockInv, TypeOK
<1>2. queue'[l] = queue[l] \/ \E e \in Entry : queue'[l] = Append(queue[l], e)
  <2>1. CASE \E j \in Job : AskLock(j)
    <3>1. PICK j \in Job : AskLock(j)
      BY <2>1
    <3>2. At(j, "acquire") /\ ~Ended(j)
          /\ queue' = [queue EXCEPT ![Step(j).lock] = Append(@, [task |-> j, mode |-> Step(j).mode])]
      BY <3>1 DEF AskLock, MayAsk, Ask, At
    <3>3. Step(j).mode \in Mode
      BY <3>2, StepTyped, StepKinds
    <3>4. [task |-> j, mode |-> Step(j).mode] \in Entry
      BY <3>3 DEF Entry, Mode
    <3> HIDE DEF Entry
    <3> QED
      BY <1>1, <3>2, <3>4
  <2>2. CASE \E m \in Lock : Grant(m)
    <3>1. PICK m \in Lock : MayGrant(m) /\ queue' = [queue EXCEPT ![m] = Tail(@)]
      BY <2>2 DEF Grant
    <3>2. m # l
      BY <3>1 DEF MayGrant
    <3> QED
      BY <1>1, <3>1, <3>2
  <2>3. CASE TakeResponse
    <3>1. queue' = [queue EXCEPT !["server"] = Append(@, [task |-> ResponsePool, mode |-> "read"])]
      BY <2>3 DEF TakeResponse, Ask
    <3>2. [task |-> ResponsePool, mode |-> "read"] \in Entry
      BY DEF Entry
    <3> HIDE DEF Entry
    <3> QED
      BY <1>1, <3>1, <3>2
  <2>4. CASE (\E j \in Job : ReleaseLock(j) \/ Send(j)) \/ FindWriter \/ WriteResponse
              \/ \E c \in Connection : ReadSocket(c)
    BY <2>4 DEF ReleaseLock, Send, FindWriter, WriteResponse, ReadSocket
  <2> QED
    BY <2>1, <2>2, <2>3, <2>4 DEF Next, JobStep
<1>3. ASSUME NEW e \in Entry, queue'[l] = Append(queue[l], e)
      PROVE  /\ \A i \in DOMAIN queue[l] : i \in DOMAIN queue'[l] /\ queue'[l][i] = queue[l][i]
             /\ Head(queue'[l]) = Head(queue[l])
  <2> HIDE DEF Entry
  <2>1. /\ Len(queue[l]) \in Nat /\ DOMAIN queue[l] = 1 .. Len(queue[l])
        /\ Append(queue[l], e) \in Seq(Entry) /\ DOMAIN Append(queue[l], e) = 1 .. Len(queue[l]) + 1
        /\ \A i \in 1 .. Len(queue[l]) : Append(queue[l], e)[i] = queue[l][i]
        /\ Head(queue[l]) = queue[l][1] /\ 1 \in 1 .. Len(queue[l])
    BY <1>1, QueueShapes
  <2>2. Append(queue[l], e) # <<>>
    BY <2>1
  <2>3. Head(Append(queue[l], e)) = Append(queue[l], e)[1]
    BY <2>1, <2>2, QueueShapes
  <2> QED
    BY <1>3, <2>1, <2>3
<1>4. /\ \A i \in DOMAIN queue[l] : i \in DOMAIN queue'[l] /\ queue'[l][i] = queue[l][i]
      /\ Head(queue'[l]) = Head(queue[l])
  BY <1>2, <1>3
<1> QED
  BY <1>4 DEF Queued, ToSet

(* The locks of the circle are held so that the first in the queue must wait. *)
LEMMA CircleHolds ==
  ASSUME LockInv, NEW write \in Job, NEW look \in Job, NEW reg \in Job,
         NEW s \in Shard, NEW p \in Partition, Circle(write, look, reg, s, p)
  PROVE  /\ ~At(write, "release") /\ ~At(look, "release") /\ ~At(reg, "release")
         /\ \A l \in {"server", s, p} :
              l \in Lock /\ queue[l] # <<>> /\ ~Compatible(l, Head(queue[l]).mode)
<1>1. s \in Lock /\ p \in Lock /\ "server" \in Lock /\ "server" # s /\ "server" # p /\ s # p
  BY ModesAndLocks DEF Lock
<1>2. /\ ~At(write, "release") /\ ~At(look, "release") /\ ~At(reg, "release")
      /\ At(write, "acquire")
      /\ \E mode \in Mode : Step(write) = Acquire("server", mode)
  <2>1. ASSUME NEW l \in Lock, NEW j \in Job, Queued(l, j)
        PROVE  /\ ~At(j, "release") /\ At(j, "acquire")
               /\ \E mode \in Mode : Step(j) = Acquire(l, mode)
    <3>1. ~Ended(j) /\ \E mode \in Mode : Step(j) = Acquire(l, mode)
      BY <2>1, QueuedWaits
    <3>2. \A kind : At(j, kind) <=> Step(j).step = kind
      BY <3>1, StepTyped
    <3>3. Step(j).step = "acquire"
      BY <3>1 DEF Acquire
    <3> QED
      BY <3>1, <3>2, <3>3
  <2> QED
    BY <1>1, <2>1 DEF Circle
<1>3. queue["server"] # <<>> /\ queue[s] # <<>> /\ queue[p] # <<>>
  BY <1>1, QueuedQueue DEF Circle
<1>4. ~Compatible("server", Head(queue["server"]).mode) /\ ~Compatible(s, Head(queue[s]).mode)
  BY DEF Circle, HasLock, Compatible
<1>5. ~Compatible(p, Head(queue[p]).mode)
  <2>1. PICK h \in holders[p] : h.task = write
    BY DEF Circle, HasLock
  <2>2. MayAskWith(p, h.mode, Step(write))
    BY <1>1, <1>2, <2>1, JobProgram, HolderAsks
  <2>3. h.mode = "write"
    BY <1>1, <2>2, ModesAndLocks DEF MayAskWith
  <2> QED
    BY <2>1, <2>3 DEF Compatible
<1> QED
  BY <1>1, <1>2, <1>3, <1>4, <1>5

(* Once closed, the circle stays closed: its tasks wait for each other for ever,
   with their locks, and so does whoever comes to these locks later. *)
THEOREM CycleIsForEver == Spec => [][WaitCycle => WaitCycle']_vars
<1>1. LockInv /\ [Next]_vars => (WaitCycle => WaitCycle')
  <2> SUFFICES ASSUME LockInv, [Next]_vars, WaitCycle PROVE WaitCycle'
    OBVIOUS
  <2>1. PICK write \in Job, look \in Job, reg \in Job, s \in Shard, p \in Partition :
          Circle(write, look, reg, s, p)
    BY DEF WaitCycle
  <2>2. CASE UNCHANGED vars
    BY <2>2, <2>1 DEF vars, WaitCycle, Circle, HasLock, Queued
  <2>3. CASE Next
    <3>1. /\ ~At(write, "release") /\ ~At(look, "release") /\ ~At(reg, "release")
          /\ \A l \in {"server", s, p} :
               l \in Lock /\ queue[l] # <<>> /\ ~Compatible(l, Head(queue[l]).mode)
      BY <2>1, CircleHolds
    <3>2. HasLock(p, write)' /\ HasLock("server", look)' /\ HasLock(s, reg)'
      BY <2>1, <2>3, <3>1, HolderStays DEF Circle
    <3>3. Queued("server", write)' /\ Queued(s, look)' /\ Queued(p, reg)'
      BY <2>1, <2>3, <3>1, QueueStays DEF Circle
    <3>4. Head(queue'["server"]).mode = "write" /\ Head(queue'[s]).mode = "write"
      BY <2>1, <2>3, <3>1, QueueStays DEF Circle
    <3> QED
      BY <3>2, <3>3, <3>4 DEF WaitCycle, Circle
  <2> QED
    BY <2>2, <2>3
<1> QED
  BY <1>1, LocksInvariant, PTL DEF Spec

(* Some job locks l to write. *)
Writes(l) ==
  \E j \in Job : \E n \in 1 .. Len(ProgramOf[j]) : ProgramOf[j][n] = Acquire(l, "write")

(* It takes both a connection that comes or goes and a topic that is created: while
   a broker has the one without the other, its tasks do not stop each other. *)
THEOREM CycleNeedsBothWriters ==
  Spec => [](WaitCycle => Writes("server") /\ \E s \in Shard : Writes(s))
<1>1. LockInv /\ WaitCycle => Writes("server") /\ \E s \in Shard : Writes(s)
  <2> SUFFICES ASSUME LockInv, WaitCycle PROVE Writes("server") /\ \E s \in Shard : Writes(s)
    OBVIOUS
  <2>1. PICK s \in Shard : /\ queue["server"] # <<>> /\ Head(queue["server"]).mode = "write"
                           /\ queue[s] # <<>> /\ Head(queue[s]).mode = "write"
    BY QueuedQueue, ModesAndLocks DEF WaitCycle, Circle, Lock
  <2>2. ASSUME NEW l \in Lock, queue[l] # <<>>, Head(queue[l]).mode = "write" PROVE Writes(l)
    <3>1. queue[l] \in Seq(Entry)
      BY DEF LockInv, TypeOK
    <3>2. Head(queue[l]) = queue[l][1] /\ Head(queue[l]) \in Entry /\ 1 \in DOMAIN queue[l]
      <4> HIDE DEF Entry
      <4> QED
        BY <2>2, <3>1, QueueShapes
    <3>3. Waiting(l, queue[l][1])
      BY <3>2 DEF LockInv, QueuedAtStep
    <3>4. PICK j \in Job : j = queue[l][1].task
      BY <2>2, <3>2, <3>3 DEF Waiting, Entry
    <3>5. pc[j] <= Len(ProgramOf[j]) /\ ProgramOf[j][pc[j]] = Acquire(l, "write")
      BY <2>2, <3>2, <3>3, <3>4, JobProgram DEF Waiting, Step
    <3>6. pc[j] \in 1 .. Len(ProgramOf[j])
      BY <3>5, JobProgram DEF LockInv, InProgram
    <3> QED
      BY <3>5, <3>6 DEF Writes
  <2> QED
    BY <2>1, <2>2, ModesAndLocks DEF Lock
<1> QED
  BY <1>1, LocksInvariant, PTL

----------------------------------------------------------------------------
(* Where the answers are. *)

(* The steps that have sent something to c. *)
SentSoFar(c) == {x \in SentTo(c) : x[2] < pc[x[1]]}

InChannel(c) == {i \in DOMAIN responses : responses[i] = c}

AtPool(c) == IF pool.state # "idle" /\ pool.to = c THEN 1 ELSE 0

(* What was sent to c was read, or is in its socket, in the response pool's
   channel or at the response pool, or was thrown away, once; and an answer is
   thrown away only if its connection ends. *)
Accounted ==
  \A c \in Connection :
    /\ IsFiniteSet(SentSoFar(c)) /\ IsFiniteSet(InChannel(c))
    /\ Cardinality(SentSoFar(c))
         = heard[c] + socket[c] + Cardinality(InChannel(c)) + AtPool(c) + lost[c]
    /\ c \notin Leaving => lost[c] = 0

LEMMA SentIs ==
  \A c, x : x \in SentTo(c) <=>
    \E j \in Job : \E n \in DOMAIN ProgramOf[j] :
      ProgramOf[j][n] = SendResponse(c) /\ x = <<j, n>>
BY DEF SentTo

(* A step of a job adds to what was sent if it sends, and nothing otherwise. *)
LEMMA StepSends ==
  ASSUME LockInv, NEW j \in Job, ~Ended(j), pc' = [pc EXCEPT ![j] = @ + 1], NEW c \in Connection
  PROVE  /\ Step(j) = SendResponse(c) =>
              SentSoFar(c)' = SentSoFar(c) \cup {<<j, pc[j]>>} /\ <<j, pc[j]>> \notin SentSoFar(c)
         /\ Step(j) # SendResponse(c) => SentSoFar(c)' = SentSoFar(c)
<1>1. pc[j] \in 1 .. Len(ProgramOf[j]) /\ Step(j) = ProgramOf[j][pc[j]]
  BY StepTyped
<1>2. DOMAIN ProgramOf[j] = 1 .. Len(ProgramOf[j])
  BY JobProgram, LenProperties
<1>3. pc \in [Job -> Nat] /\ pc'[j] = pc[j] + 1 /\ \A k \in Job : k # j => pc'[k] = pc[k]
  BY DEF LockInv, TypeOK
<1>4. \A k \in Job : \A n \in DOMAIN ProgramOf[k] :
        n \in Nat /\ (n < pc'[k] <=> n < pc[k] \/ (k = j /\ n = pc[j]))
  <2> TAKE k \in Job
  <2>1. DOMAIN ProgramOf[k] = 1 .. Len(ProgramOf[k]) /\ Len(ProgramOf[k]) \in Nat
    BY JobProgram, LenProperties
  <2> TAKE n \in DOMAIN ProgramOf[k]
  <2>2. n \in Nat /\ pc[k] \in Nat
    BY <2>1, <1>3
  <2> QED
    BY <2>2, <1>3
<1>5. \A x : x \in SentSoFar(c) <=>
        \E k \in Job : \E n \in DOMAIN ProgramOf[k] :
          ProgramOf[k][n] = SendResponse(c) /\ x = <<k, n>> /\ n < pc[k]
  BY SentIs DEF SentSoFar
<1>6. \A x : x \in SentSoFar(c)' <=>
        \E k \in Job : \E n \in DOMAIN ProgramOf[k] :
          ProgramOf[k][n] = SendResponse(c) /\ x = <<k, n>> /\ n < pc'[k]
  BY SentIs DEF SentSoFar
<1>7. \A x : x \in SentSoFar(c)' <=>
        x \in SentSoFar(c) \/ (x = <<j, pc[j]>> /\ Step(j) = SendResponse(c))
  BY <1>1, <1>2, <1>4, <1>5, <1>6
<1>8. <<j, pc[j]>> \notin SentSoFar(c)
  <2> SUFFICES ASSUME NEW k \in Job, NEW n \in DOMAIN ProgramOf[k], <<j, pc[j]>> = <<k, n>>, n < pc[k]
               PROVE  FALSE
    BY <1>5
  <2>1. k = j /\ n = pc[j] /\ pc[j] \in Nat
    BY <1>3
  <2> QED
    BY <2>1
<1> QED
  BY <1>7, <1>8

(* Counting what is in the channel for c, when something is put in or taken. *)
LEMMA ChannelPut ==
  ASSUME NEW q \in Seq(Connection), NEW d \in Connection, NEW c,
         IsFiniteSet({i \in DOMAIN q : q[i] = c})
  PROVE  /\ IsFiniteSet({i \in DOMAIN Append(q, d) : Append(q, d)[i] = c})
         /\ Cardinality({i \in DOMAIN Append(q, d) : Append(q, d)[i] = c})
              = Cardinality({i \in DOMAIN q : q[i] = c}) + (IF d = c THEN 1 ELSE 0)
<1> DEFINE old == {i \in DOMAIN q : q[i] = c}
           new == {i \in DOMAIN Append(q, d) : Append(q, d)[i] = c}
<1>1. /\ DOMAIN q = 1 .. Len(q) /\ Len(q) \in Nat
      /\ DOMAIN Append(q, d) = 1 .. Len(q) + 1 /\ Append(q, d)[Len(q) + 1] = d
      /\ \A i \in 1 .. Len(q) : Append(q, d)[i] = q[i]
  BY LenProperties
<1>2. Len(q) + 1 \notin old
  BY <1>1
<1>3. CASE d = c
  <2>1. new = old \cup {Len(q) + 1}
    BY <1>1, <1>3
  <2> HIDE DEF old, new
  <2>2. IsFiniteSet(new) /\ Cardinality(new) = Cardinality(old) + 1
    BY <1>2, <2>1, FS_AddElement DEF old
  <2> QED
    BY <2>2, <1>3 DEF old, new
<1>4. CASE d # c
  <2>1. new = old
    BY <1>1, <1>4
  <2>2. Cardinality(old) \in Nat
    BY FS_CardinalityType
  <2> HIDE DEF old, new
  <2>3. IsFiniteSet(new) /\ Cardinality(new) = Cardinality(old) + 0
    BY <2>1, <2>2 DEF old
  <2> QED
    BY <2>3, <1>4 DEF old, new
<1> QED
  BY <1>3, <1>4

LEMMA ChannelTaken ==
  ASSUME NEW q \in Seq(Connection), q # <<>>, NEW c, IsFiniteSet({i \in DOMAIN q : q[i] = c})
  PROVE  /\ IsFiniteSet({i \in DOMAIN Tail(q) : Tail(q)[i] = c})
         /\ Cardinality({i \in DOMAIN q : q[i] = c})
              = Cardinality({i \in DOMAIN Tail(q) : Tail(q)[i] = c})
                  + (IF Head(q) = c THEN 1 ELSE 0)
<1> DEFINE old == {i \in DOMAIN q : q[i] = c}
           new == {i \in DOMAIN Tail(q) : Tail(q)[i] = c}
           shift == [i \in old \ {1} |-> i - 1]
<1>1. /\ DOMAIN q = 1 .. Len(q) /\ Len(q) \in Nat \ {0} /\ Head(q) = q[1]
      /\ DOMAIN Tail(q) = 1 .. Len(q) - 1 /\ \A i \in 1 .. Len(q) - 1 : Tail(q)[i] = q[i + 1]
  <2>1. DOMAIN q = 1 .. Len(q) /\ Len(q) \in Nat /\ Len(q) # 0
    BY LenProperties, EmptySeq
  <2> QED
    BY <2>1
<1>2. shift \in [old \ {1} -> new]
  BY <1>1
<1>3. \A a, b \in old \ {1} : shift[a] = shift[b] => a = b
  BY <1>1
<1>4. \A t \in new : \E a \in old \ {1} : shift[a] = t
  <2> TAKE t \in new
  <2>1. t + 1 \in old \ {1} /\ shift[t + 1] = t
    BY <1>1
  <2> QED
    BY <2>1
<1> HIDE DEF shift
<1>5. shift \in Bijection(old \ {1}, new)
  BY <1>2, <1>3, <1>4 DEF Bijection, Injection, Surjection, IsInjective
<1>6. 1 \in old <=> Head(q) = c
  BY <1>1
<1> HIDE DEF old, new
<1>7. IsFiniteSet(old \ {1})
      /\ Cardinality(old \ {1}) = IF 1 \in old THEN Cardinality(old) - 1 ELSE Cardinality(old)
  BY FS_RemoveElement DEF old
<1>8. IsFiniteSet(new) /\ Cardinality(new) = Cardinality(old \ {1})
  BY <1>5, <1>7, FS_Bijection DEF ExistsBijection
<1>9. Cardinality(old) \in Nat /\ Cardinality(new) \in Nat
  BY <1>8, FS_CardinalityType DEF old
<1>10. Cardinality(old) = Cardinality(new) + (IF Head(q) = c THEN 1 ELSE 0)
  BY <1>6, <1>7, <1>8, <1>9
<1> QED
  BY <1>8, <1>10 DEF old, new

LEMMA InitAccounts == Init => Accounted
<1> SUFFICES ASSUME Init, NEW c \in Connection
             PROVE  /\ IsFiniteSet(SentSoFar(c)) /\ IsFiniteSet(InChannel(c))
                    /\ Cardinality(SentSoFar(c))
                         = heard[c] + socket[c] + Cardinality(InChannel(c)) + AtPool(c) + lost[c]
                    /\ c \notin Leaving => lost[c] = 0
  BY DEF Accounted
<1>1. SentSoFar(c) = {}
  <2> SUFFICES ASSUME NEW j \in Job, NEW n \in DOMAIN ProgramOf[j], n < pc[j] PROVE FALSE
    BY SentIs DEF SentSoFar
  <2>1. pc[j] = 1 /\ DOMAIN ProgramOf[j] = 1 .. Len(ProgramOf[j])
    BY JobProgram, LenProperties DEF Init
  <2> QED
    BY <2>1, JobProgram
<1>2. InChannel(c) = {}
  BY DEF Init, InChannel
<1>3. AtPool(c) = 0 /\ heard[c] = 0 /\ socket[c] = 0 /\ lost[c] = 0
  BY DEF Init, AtPool, Idle
<1> QED
  BY <1>1, <1>2, <1>3, FS_EmptySet

(* The counts are numbers. *)
LEMMA CountsAreNumbers ==
  ASSUME LockInv, Accounted, NEW c \in Connection
  PROVE  /\ heard[c] \in Nat /\ socket[c] \in Nat /\ Cardinality(InChannel(c)) \in Nat
         /\ AtPool(c) \in {0, 1} /\ Cardinality(SentSoFar(c)) \in Nat /\ lost[c] \in Nat
<1>1. heard[c] \in Nat /\ socket[c] \in Nat /\ lost[c] \in Nat
  BY LocksAssumption DEF LockInv, TypeOK
<1>2. Cardinality(InChannel(c)) \in Nat /\ Cardinality(SentSoFar(c)) \in Nat
  BY FS_CardinalityType DEF Accounted
<1> QED
  BY <1>1, <1>2 DEF AtPool

(* A job's step moves nothing but what it sends. *)
LEMMA JobStepAccounts ==
  ASSUME LockInv, Accounted, NEW j \in Job, JobStep(j)
  PROVE  Accounted'
<1> SUFFICES ASSUME NEW c \in Connection
             PROVE  (/\ IsFiniteSet(SentSoFar(c)) /\ IsFiniteSet(InChannel(c))
                     /\ Cardinality(SentSoFar(c))
                          = heard[c] + socket[c] + Cardinality(InChannel(c)) + AtPool(c) + lost[c]
                     /\ c \notin Leaving => lost[c] = 0)'
  BY DEF Accounted
<1>1. /\ IsFiniteSet(SentSoFar(c)) /\ IsFiniteSet(InChannel(c))
      /\ Cardinality(SentSoFar(c))
           = heard[c] + socket[c] + Cardinality(InChannel(c)) + AtPool(c) + lost[c]
      /\ c \notin Leaving => lost[c] = 0
  BY DEF Accounted
<1>2. heard' = heard /\ socket' = socket /\ lost' = lost /\ AtPool(c)' = AtPool(c)
  BY DEF JobStep, AskLock, ReleaseLock, Send, AtPool
<1>3. CASE AskLock(j)
  <2>1. SentSoFar(c)' = SentSoFar(c) /\ InChannel(c)' = InChannel(c)
    BY <1>3 DEF AskLock, SentSoFar, InChannel
  <2> QED
    BY <1>1, <1>2, <2>1
<1>4. CASE ReleaseLock(j)
  <2>1. At(j, "release") /\ ~Ended(j) /\ pc' = [pc EXCEPT ![j] = @ + 1]
    BY <1>4 DEF ReleaseLock, At, Advance
  <2>2. Step(j) # SendResponse(c)
    BY <2>1, StepTyped DEF SendResponse
  <2>3. SentSoFar(c)' = SentSoFar(c)
    BY <2>1, <2>2, StepSends
  <2>4. InChannel(c)' = InChannel(c)
    BY <1>4 DEF ReleaseLock, InChannel
  <2> QED
    BY <1>1, <1>2, <2>3, <2>4
<1>5. CASE Send(j)
  <2>1. At(j, "send") /\ ~Ended(j) /\ pc' = [pc EXCEPT ![j] = @ + 1]
        /\ responses' = Append(responses, Step(j).to)
    BY <1>5 DEF Send, MaySend, At, Advance
  <2>2. PICK d \in Connection : Step(j).to = d /\ Step(j) = SendResponse(d)
    <3>1. Step(j) \in StepRecord /\ Step(j).step = "send"
      BY <2>1, StepTyped
    <3> QED
      BY <3>1 DEF StepRecord, SendResponse
  <2>3. Step(j) = SendResponse(c) <=> d = c
    BY <2>2 DEF SendResponse
  <2>4. responses \in Seq(Connection)
    BY DEF LockInv, TypeOK
  <2>5. /\ IsFiniteSet(InChannel(c)')
        /\ Cardinality(InChannel(c)') = Cardinality(InChannel(c)) + (IF d = c THEN 1 ELSE 0)
    <3>1. responses' = Append(responses, d)
      BY <2>1, <2>2
    <3>2. IsFiniteSet({i \in DOMAIN responses : responses[i] = c})
      BY <1>1 DEF InChannel
    <3>3. /\ IsFiniteSet({i \in DOMAIN responses' : responses'[i] = c})
          /\ Cardinality({i \in DOMAIN responses' : responses'[i] = c})
               = Cardinality({i \in DOMAIN responses : responses[i] = c}) + (IF d = c THEN 1 ELSE 0)
      <4>1. /\ IsFiniteSet({i \in DOMAIN Append(responses, d) : Append(responses, d)[i] = c})
            /\ Cardinality({i \in DOMAIN Append(responses, d) : Append(responses, d)[i] = c})
                 = Cardinality({i \in DOMAIN responses : responses[i] = c}) + (IF d = c THEN 1 ELSE 0)
        BY <2>2, <2>4, <3>2, ChannelPut
      <4> QED
        BY <3>1, <4>1, Zenon
    <3> QED
      BY <3>3 DEF InChannel
  <2>6. /\ IsFiniteSet(SentSoFar(c)')
        /\ Cardinality(SentSoFar(c)') = Cardinality(SentSoFar(c)) + (IF d = c THEN 1 ELSE 0)
    <3>1. CASE d = c
      <4>1. SentSoFar(c)' = SentSoFar(c) \cup {<<j, pc[j]>>} /\ <<j, pc[j]>> \notin SentSoFar(c)
        BY <2>1, <2>3, <3>1, StepSends
      <4> HIDE DEF SentSoFar
      <4>2. IsFiniteSet(SentSoFar(c)') /\ Cardinality(SentSoFar(c)') = Cardinality(SentSoFar(c)) + 1
        BY <1>1, <4>1, FS_AddElement
      <4> QED
        BY <4>2, <3>1
    <3>2. CASE d # c
      <4>1. SentSoFar(c)' = SentSoFar(c)
        BY <2>1, <2>3, <3>2, StepSends
      <4> QED
        BY <1>1, <4>1, <3>2, CountsAreNumbers
    <3> QED
      BY <3>1, <3>2
  <2> HIDE DEF SentSoFar, InChannel, AtPool
  <2> QED
    BY <1>1, <1>2, <2>5, <2>6, CountsAreNumbers
<1> QED
  BY <1>3, <1>4, <1>5 DEF JobStep

(* Nor does granting a lock. *)
LEMMA GrantAccounts ==
  ASSUME LockInv, Accounted, NEW l \in Lock, Grant(l)
  PROVE  Accounted'
<1>1. responses' = responses /\ socket' = socket /\ heard' = heard /\ lost' = lost
      /\ queue[l] # <<>> /\ queue[l] \in Seq(Entry)
  BY DEF Grant, MayGrant, LockInv, TypeOK
<1>2. PICK e \in Entry : e = Head(queue[l]) /\ e = queue[l][1] /\ 1 \in DOMAIN queue[l]
  <2> HIDE DEF Entry
  <2> QED
    BY <1>1, QueueShapes
<1>3. Waiting(l, e)
  BY <1>2 DEF LockInv, QueuedAtStep
<1>4. \A c \in Connection : AtPool(c)' = AtPool(c)
  <2>1. CASE e.task = ResponsePool
    <3>1. pool' = [pool EXCEPT !.state = "found"] /\ pool.state = "waiting"
      BY <1>2, <1>3, <2>1 DEF Grant, Waiting
    <3>2. pool \in [state : {"waiting", "found", "writing"}, to : Connection]
      BY <3>1 DEF LockInv, TypeOK, Idle
    <3>3. pool'.state = "found" /\ pool'.to = pool.to
      BY <3>1, <3>2
    <3> QED
      BY <3>1, <3>3 DEF AtPool
  <2>2. CASE e.task # ResponsePool
    BY <1>2, <2>2 DEF Grant, AtPool
  <2> QED
    BY <2>1, <2>2
<1>5. \A c \in Connection : SentSoFar(c)' = SentSoFar(c)
  <2>1. CASE e.task = ResponsePool
    BY <1>2, <2>1 DEF Grant, SentSoFar
  <2>2. CASE e.task # ResponsePool
    <3>1. PICK j \in Job : j = e.task
      BY <2>2 DEF Entry
    <3>2. pc' = [pc EXCEPT ![j] = @ + 1]
      BY <1>2, <2>2, <3>1 DEF Grant, Advance
    <3>3. Queued(l, j)
      BY <1>2, <3>1, QueuedIs
    <3>4. ~Ended(j) /\ \E mode \in Mode : Step(j) = Acquire(l, mode)
      BY <3>3, QueuedWaits
    <3>5. \A c \in Connection : Step(j) # SendResponse(c)
      BY <3>4 DEF Acquire, SendResponse
    <3> QED
      BY <3>2, <3>4, <3>5, StepSends
  <2> QED
    BY <2>1, <2>2
<1>6. \A c \in Connection : InChannel(c)' = InChannel(c)
  BY <1>1 DEF InChannel
<1> QED
  BY <1>1, <1>4, <1>5, <1>6 DEF Accounted

(* The response pool passes on what it took, and a peer reads what is there. *)
LEMMA PoolAccounts ==
  ASSUME LockInv, Accounted,
         TakeResponse \/ FindWriter \/ WriteResponse \/ \E c \in Connection : ReadSocket(c)
  PROVE  Accounted'
<1> SUFFICES ASSUME NEW c \in Connection
             PROVE  (/\ IsFiniteSet(SentSoFar(c)) /\ IsFiniteSet(InChannel(c))
                     /\ Cardinality(SentSoFar(c))
                          = heard[c] + socket[c] + Cardinality(InChannel(c)) + AtPool(c) + lost[c]
                     /\ c \notin Leaving => lost[c] = 0)'
  BY DEF Accounted
<1>1. /\ IsFiniteSet(SentSoFar(c)) /\ IsFiniteSet(InChannel(c))
      /\ Cardinality(SentSoFar(c))
           = heard[c] + socket[c] + Cardinality(InChannel(c)) + AtPool(c) + lost[c]
      /\ c \notin Leaving => lost[c] = 0
  BY DEF Accounted
<1>2. SentSoFar(c)' = SentSoFar(c)
  <2>1. pc' = pc
    BY DEF TakeResponse, FindWriter, WriteResponse, ReadSocket
  <2> QED
    BY <2>1 DEF SentSoFar
<1>3. /\ heard[c] \in Nat /\ socket[c] \in Nat /\ Cardinality(InChannel(c)) \in Nat
      /\ AtPool(c) \in {0, 1} /\ Cardinality(SentSoFar(c)) \in Nat /\ lost[c] \in Nat
  BY CountsAreNumbers
<1>4. socket \in [Connection -> Nat] /\ lost \in [Connection -> Nat] /\ heard \in [Connection -> Nat] /\ responses \in Seq(Connection)
      /\ (pool = Idle \/ pool \in [state : {"waiting", "found", "writing"}, to : Connection])
  BY LocksAssumption DEF LockInv, TypeOK
<1>5. CASE TakeResponse
  <2>1. /\ pool = Idle /\ responses # <<>> /\ responses' = Tail(responses)
        /\ pool' = [state |-> "waiting", to |-> Head(responses)]
        /\ UNCHANGED <<pc, holders, socket, heard, lost>>
    BY <1>5 DEF TakeResponse
  <2>2. /\ IsFiniteSet(InChannel(c)')
        /\ Cardinality(InChannel(c)) = Cardinality(InChannel(c)') + (IF Head(responses) = c THEN 1 ELSE 0)
    <3>1. IsFiniteSet({i \in DOMAIN responses : responses[i] = c})
      BY <1>1 DEF InChannel
    <3>2. /\ IsFiniteSet({i \in DOMAIN responses' : responses'[i] = c})
          /\ Cardinality({i \in DOMAIN responses : responses[i] = c})
               = Cardinality({i \in DOMAIN responses' : responses'[i] = c})
                   + (IF Head(responses) = c THEN 1 ELSE 0)
      <4>1. responses \in Seq(Connection) /\ responses # <<>> /\ responses' = Tail(responses)
        BY <1>4, <2>1
      <4>2. /\ IsFiniteSet({i \in DOMAIN Tail(responses) : Tail(responses)[i] = c})
            /\ Cardinality({i \in DOMAIN responses : responses[i] = c})
                 = Cardinality({i \in DOMAIN Tail(responses) : Tail(responses)[i] = c})
                     + (IF Head(responses) = c THEN 1 ELSE 0)
        BY <3>1, <4>1, ChannelTaken, Zenon
      <4> QED
        BY <4>1, <4>2, Zenon
    <3> QED
      BY <3>2 DEF InChannel
  <2>3. AtPool(c) = 0 /\ AtPool(c)' = IF Head(responses) = c THEN 1 ELSE 0
    BY <2>1 DEF AtPool, Idle
  <2>4. Cardinality(InChannel(c)') \in Nat
    BY <2>2, FS_CardinalityType
  <2>5. heard'[c] = heard[c] /\ socket'[c] = socket[c] /\ lost'[c] = lost[c]
    BY <2>1
  <2>6. Cardinality(InChannel(c)) + AtPool(c) = Cardinality(InChannel(c)') + AtPool(c)'
    BY <2>2, <2>3, <2>4
  <2>7. Cardinality(InChannel(c)') \in Nat /\ AtPool(c)' \in Nat
    BY <2>3, <2>4
  <2> HIDE DEF SentSoFar, InChannel, AtPool
  <2> QED
    BY <1>1, <1>2, <1>3, <2>2, <2>5, <2>6, <2>7
<1>6. CASE FindWriter
  <2>1. UNCHANGED <<responses, socket, heard>> /\ pool.state = "found"
    BY <1>6 DEF FindWriter
  <2>2. pool \in [state : {"waiting", "found", "writing"}, to : Connection]
    BY <1>4, <2>1 DEF Idle
  <2>3. InChannel(c)' = InChannel(c) /\ AtPool(c) = (IF pool.to = c THEN 1 ELSE 0)
    BY <2>1 DEF InChannel, AtPool
  <2>4. CASE pool.to \in clients
    <3>1. pool' = [pool EXCEPT !.state = "writing"] /\ lost' = lost
      BY <1>6, <2>4 DEF FindWriter
    <3>2. pool'.state = "writing" /\ pool'.to = pool.to
      BY <2>2, <3>1
    <3>3. AtPool(c)' = AtPool(c)
      BY <2>1, <3>2 DEF AtPool
    <3> QED
      BY <1>1, <1>2, <2>1, <2>3, <3>1, <3>3
  <2>5. CASE pool.to \notin clients
    <3>1. pool' = Idle /\ lost' = [lost EXCEPT ![pool.to] = @ + 1]
      BY <1>6, <2>5 DEF FindWriter, Lose
    <3>2. AtPool(c)' = 0 /\ lost'[c] = lost[c] + (IF pool.to = c THEN 1 ELSE 0)
      BY <1>3, <1>4, <3>1 DEF AtPool, Idle
    <3>3. pool.to \in Leaving
      BY <2>2, <2>5 DEF clients, Leaving
    <3> HIDE DEF SentSoFar, InChannel, AtPool
    <3> QED
      BY <1>1, <1>2, <1>3, <2>1, <2>3, <3>2, <3>3
  <2> QED
    BY <2>4, <2>5
<1>7. CASE WriteResponse
  <2>1. /\ pool.state = "writing" /\ pool' = Idle
        /\ \/ socket' = [socket EXCEPT ![pool.to] = @ + 1] /\ lost' = lost
           \/ /\ socket' = socket /\ lost' = [lost EXCEPT ![pool.to] = @ + 1]
              /\ pool.to \in Leaving
        /\ UNCHANGED <<responses, heard>>
    BY <1>7 DEF WriteResponse, Lose
  <2>2. AtPool(c)' = 0 /\ AtPool(c) = (IF pool.to = c THEN 1 ELSE 0) /\ InChannel(c)' = InChannel(c)
    BY <2>1 DEF AtPool, Idle, InChannel
  <2>3. /\ socket'[c] + lost'[c] = socket[c] + lost[c] + (IF pool.to = c THEN 1 ELSE 0)
        /\ socket'[c] \in Nat /\ lost'[c] \in Nat
        /\ c \notin Leaving => lost'[c] = lost[c]
    <3>1. CASE socket' = [socket EXCEPT ![pool.to] = @ + 1] /\ lost' = lost
      <4>1. lost'[c] = lost[c] /\ socket'[c] = socket[c] + (IF pool.to = c THEN 1 ELSE 0)
        BY <1>3, <1>4, <3>1
      <4> QED
        BY <1>3, <4>1
    <3>2. CASE /\ socket' = socket /\ lost' = [lost EXCEPT ![pool.to] = @ + 1]
               /\ pool.to \in Leaving
      <4>1. socket'[c] = socket[c] /\ lost'[c] = lost[c] + (IF pool.to = c THEN 1 ELSE 0)
        BY <1>3, <1>4, <3>2
      <4> QED
        BY <1>3, <3>2, <4>1
    <3> QED
      BY <2>1, <3>1, <3>2
  <2> HIDE DEF SentSoFar, InChannel, AtPool
  <2> QED
    BY <1>1, <1>2, <1>3, <2>1, <2>2, <2>3
<1>8. CASE \E d \in Connection : ReadSocket(d)
  <2>1. PICK d \in Connection :
          /\ socket[d] > 0 /\ socket' = [socket EXCEPT ![d] = @ - 1]
          /\ heard' = [heard EXCEPT ![d] = @ + 1]
          /\ UNCHANGED <<responses, pool, lost>>
    BY <1>8 DEF ReadSocket
  <2>2. InChannel(c)' = InChannel(c) /\ AtPool(c)' = AtPool(c)
    BY <2>1 DEF InChannel, AtPool
  <2>3. heard'[c] + socket'[c] = heard[c] + socket[c] /\ heard'[c] \in Nat /\ socket'[c] \in Nat
    BY <1>3, <1>4, <2>1
  <2> HIDE DEF SentSoFar, InChannel, AtPool
  <2> QED
    BY <1>1, <1>2, <1>3, <2>1, <2>2, <2>3
<1> QED
  BY <1>5, <1>6, <1>7, <1>8

(* Whatever a task sends to the response pool is on its way to its connection, was
   read there, or was thrown away, once, though it passes a channel, the response
   pool's task and a socket, and each of them may be full.  It is thrown away, where
   the client is not found or the write fails (init.rs, lines 99-103 and 129-131),
   only if that very connection ends: no other loses an answer. *)
THEOREM AnswersAccountedFor == Spec => []Accounted
<1>1. LockInv /\ Accounted /\ [Next]_vars => Accounted'
  <2> SUFFICES ASSUME LockInv, Accounted, [Next]_vars PROVE Accounted'
    OBVIOUS
  <2>1. CASE UNCHANGED vars
    BY <2>1 DEF vars, Accounted, SentSoFar, InChannel, AtPool
  <2>2. CASE Next
    BY <2>2, JobStepAccounts, GrantAccounts, PoolAccounts DEF Next
  <2> QED
    BY <2>1, <2>2
<1> QED
  BY <1>1, InitAccounts, LocksInvariant, PTL DEF Spec

----------------------------------------------------------------------------
(* No task has a step to take, and nobody who reads and stays has anything to read. *)
AtRest ==
  /\ ~SomeoneMoves
  /\ ~(pool = Idle /\ responses # <<>>)
  /\ ~(pool.state = "writing" /\ (socket[pool.to] < SocketCap \/ pool.to \in Leaving))
  /\ \A c \in Connection \ (Deaf \cup Leaving) : socket[c] = 0

(* What is still to be written is for somebody who does not read. *)
WritesToDeaf == pool.state = "writing" /\ pool.to \in Deaf

(* When a broker comes to rest with room in the response channel, every task has
   ended and everybody who reads and stays has read all that was sent to it, each
   answer once;
   but for the circle, and for a full socket that nobody reads.  This is what
   EverybodyEndsUnlessInCycle says, short of coming to rest. *)
THEOREM RestMeansServed ==
  Spec => [](AtRest /\ Len(responses) < ResponseCap => Served \/ WaitCycle \/ WritesToDeaf)
<1>1. LockInv /\ StuckOnlyInCycle /\ Accounted /\ AtRest /\ Len(responses) < ResponseCap
        => Served \/ WaitCycle \/ WritesToDeaf
  <2> SUFFICES ASSUME LockInv, StuckOnlyInCycle, Accounted, AtRest,
                      Len(responses) < ResponseCap, ~WaitCycle, ~WritesToDeaf
               PROVE  Served
    OBVIOUS
  <2>1. \A j \in Job : Ended(j)
    BY DEF StuckOnlyInCycle, AtRest
  <2>2. pool = Idle \/ pool \in [state : {"waiting", "found", "writing"}, to : Connection]
    BY DEF LockInv, TypeOK
  <2>3. pool.state # "waiting"
    <3> SUFFICES ASSUME pool.state = "waiting" PROVE FALSE
      OBVIOUS
    <3>1. Queued("server", ResponsePool)
      BY DEF LockInv, PoolWaitsInQueue
    <3>2. queue["server"] # <<>>
      BY <3>1, QueuedQueue, ModesAndLocks
    <3> QED
      BY <3>2, ServerInCycle DEF AtRest
  <2>4. pool.state # "found"
    BY DEF AtRest, SomeoneMoves
  <2>5. pool.state # "writing"
    <3> SUFFICES ASSUME pool.state = "writing" PROVE FALSE
      OBVIOUS
    <3>1. pool.to \in Connection
      BY <2>2 DEF Idle
    <3>2. socket[pool.to] = 0 /\ 0 < SocketCap
      BY <3>1, LocksAssumption DEF AtRest, WritesToDeaf
    <3> QED
      BY <3>2 DEF AtRest
  <2>6. pool = Idle /\ responses = <<>>
    BY <2>2, <2>3, <2>4, <2>5 DEF AtRest
  <2>7. ASSUME NEW c \in Connection \ (Deaf \cup Leaving) PROVE heard[c] = Cardinality(SentTo(c))
    <3>1. SentSoFar(c) = SentTo(c)
      <4> SUFFICES ASSUME NEW j \in Job, NEW n \in DOMAIN ProgramOf[j] PROVE n < pc[j]
        BY SentIs DEF SentSoFar
      <4>1. n \in 1 .. Len(ProgramOf[j]) /\ pc[j] \in Nat /\ Len(ProgramOf[j]) \in Nat
        BY JobProgram, LenProperties DEF LockInv, TypeOK
      <4> QED
        BY <2>1, <4>1 DEF Ended
    <3>2. InChannel(c) = {} /\ AtPool(c) = 0 /\ socket[c] = 0
      BY <2>6, <2>7 DEF InChannel, AtPool, Idle, AtRest
    <3>3. Cardinality(InChannel(c)) = 0
      BY <3>2, FS_EmptySet
    <3>4. /\ heard[c] \in Nat /\ lost[c] = 0
          /\ Cardinality(SentSoFar(c)) = heard[c] + socket[c] + 0 + AtPool(c) + lost[c]
      BY <2>7, <3>3, CountsAreNumbers DEF Accounted
    <3> QED
      BY <3>1, <3>2, <3>4
  <2> QED
    BY <2>1, <2>7 DEF Served
<1> QED
  BY <1>1, LocksInvariant, TasksStopOnlyInCycle, AnswersAccountedFor, PTL
=============================================================================
