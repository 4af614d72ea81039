-------------------------- MODULE TransportsProofs --------------------------
(***************************************************************************)
(* Proofs about the broker transports: at-least-once delivery, delays, the *)
(* types and what is counted, for any number of endpoints, messages,       *)
(* processes and faults.                                                   *)
(***************************************************************************)
EXTENDS Transports, TLAPS

InTime(m) == m \in Delayed => m \in elapsed

(* What the proof needs to know of the types. *)
Shapes ==
    /\ sent \subseteq Messages
    /\ delayedSet \subseteq Messages
    /\ fresh \subseteq Entries
    /\ pending \subseteq Entries
    /\ batch \in [Processes -> SUBSET Entries]
    /\ runs \in [Processes -> SUBSET Runs]
    /\ poll \in [Processes -> [todo : SUBSET Messages, moving : SUBSET Messages]]
    /\ added \in [Messages -> 0 .. MaxCopies]
    /\ stage \in [Messages -> {"unsent", "scheduled", "ready", "leased", "gone"}]
    /\ tries \in [Messages -> Nat]
    /\ \A r \in calls : r = [msg |-> r.msg, by |-> r.by, lease |-> r.lease]

(* A delayed message half moved is in its stream already, and a handler that is
   acknowledged has handled its message. *)
StreamKeeps ==
    /\ \A p \in Processes : \A m \in poll[p].moving :
          m \in handled \/ \E x \in fresh \cup pending : Msg(x) = m
    /\ \A p \in Processes : \A r \in runs[p] :
          r.stage = "acking" => Msg(r.entry) \in handled

(* Only messages whose delay is over get into a stream. *)
StreamInTime ==
    /\ \A x \in fresh \cup pending : InTime(Msg(x))
    /\ \A p \in Processes : \A x \in batch[p] : InTime(Msg(x))
    /\ \A p \in Processes : poll[p].todo \subseteq elapsed

(* Only messages whose delay is over get out of an Azure schedule, and the others
   that keep a delay have none to keep. *)
LeasedInTime ==
    transport \notin {"kafka", "sqs"} =>
        /\ \A m \in Messages : stage[m] \in {"ready", "leased"} => InTime(m)
        /\ \A r \in calls : InTime(r.msg)

(* Only SQS hands a message to a handler of another endpoint. *)
OwnHandlers == transport # "sqs" => \A r \in calls : r.by = Address[r.msg]

(* What a Kafka group has settled without passing over it, it has committed. *)
GroupKnows ==
    transport = "kafka" =>
        \A m \in Messages : stage[m] = "gone" => m \in dropped \/ Partition[m] \in committed

TransportsInv ==
    /\ Shapes
    /\ NothingLost
    /\ NeverEarly
    /\ StreamKeeps
    /\ StreamInTime
    /\ LeasedInTime
    /\ OwnHandlers
    /\ GroupKnows

-----------------------------------------------------------------------------

(* It holds before anything is published. *)
LEMMA InitCarried == Init => TransportsInv
BY RedisTransportAssumption
   DEF Init, TrafficInit, StreamInit, RabbitInit, LeasedInit, TransportsInv, Shapes,
       NothingLost, NeverEarly, StreamKeeps, StreamInTime, LeasedInTime, OwnHandlers,
       GroupKnows, NoPoll

(* --- Redis --- *)

RedisInv == transport = "redis" /\ TransportsInv

(* XADD puts one entry of the message into its stream. *)
LEMMA AddFacts ==
    ASSUME Shapes, NEW m \in Messages, AddToStream(m)
    PROVE  /\ added' \in [Messages -> 0 .. MaxCopies]
           /\ fresh' \subseteq Entries
           /\ \E x \in Entries : Msg(x) = m /\ fresh' = fresh \cup {x}
<1> DEFINE k == added[m] + 1
<1>1. added[m] \in 0 .. MaxCopies /\ added[m] < MaxCopies
  BY DEF Shapes, AddToStream
<1>2. k \in 1 .. MaxCopies
  BY <1>1, RedisTransportAssumption
<1>3. <<m, k>> \in Entries /\ Msg(<<m, k>>) = m
  BY <1>2 DEF Entries, Msg
<1>4. added' = [added EXCEPT ![m] = k] /\ fresh' = fresh \cup {<<m, k>>}
  BY DEF AddToStream
<1> HIDE DEF k
<1>5. k \in 0 .. MaxCopies
  BY <1>2
<1> QED
  BY <1>3, <1>4, <1>5 DEF Shapes

(* Whatever a Redis transport does next, the invariant is kept. *)
LEMMA RedisStep ==
    ASSUME RedisInv, RedisNext, UNCHANGED <<transport, rabbitVars, leasedVars>>
    PROVE  TransportsInv'
<1> USE DEF RedisInv, TransportsInv, Shapes, NothingLost, NeverEarly, StreamKeeps, StreamInTime,
            LeasedInTime, OwnHandlers, GroupKnows, Holds, RedisHolds, MayGiveUp, InTime,
            leasedVars
<1>1. ASSUME NEW p \in Processes,
             RedisStart(p) \/ RedisStopped(p) \/ \E e \in Endpoints : RedisSubscribe(p, e)
      PROVE  TransportsInv'
  BY <1>1 DEF RedisStart, RedisStopped, RedisSubscribe, keyVars, workVars, trafficVars
<1>2. ASSUME NEW p \in Processes, RedisStop(p)
      PROVE  TransportsInv'
  BY <1>2 DEF RedisStop, Fault, keyVars, workVars
<1>3. ASSUME NEW p \in Processes, RedisCrash(p)
      PROVE  TransportsInv'
  BY <1>3 DEF RedisCrash, Fault, keyVars, NoPoll
<1>4. ASSUME NEW m \in Messages, RedisPublish(m)
      PROVE  TransportsInv'
  <2>1. CASE m \in Delayed
    BY <1>4, <2>1 DEF RedisPublish, Accept, workVars
  <2>2. CASE m \notin Delayed
    <3>1. AddToStream(m)
      BY <1>4, <2>2 DEF RedisPublish
    <3> QED
      BY <1>4, <2>2, <3>1, AddFacts DEF RedisPublish, Accept, workVars
  <2> QED
    BY <2>1, <2>2
<1>5. ASSUME NEW p \in Processes, RedisPoll(p) \/ RedisPollEnds(p)
      PROVE  TransportsInv'
  <2>1. poll' \in [Processes -> [todo : SUBSET Messages, moving : SUBSET Messages]]
    <3>1. CASE RedisPoll(p)
      <4>1. delayedSet \cap elapsed \in SUBSET Messages
        OBVIOUS
      <4> QED
        BY <3>1, <4>1 DEF RedisPoll
    <3>2. CASE RedisPollEnds(p)
      BY <3>2 DEF RedisPollEnds, NoPoll
    <3> QED
      BY <1>5, <3>1, <3>2
  <2>2. \A q \in Processes :
           /\ poll'[q].moving \subseteq poll[q].moving
           /\ poll'[q].todo \subseteq poll[q].todo \cup elapsed
    BY <1>5 DEF RedisPoll, RedisPollEnds, NoPoll
  <2> QED
    BY <1>5, <2>1, <2>2 DEF RedisPoll, RedisPollEnds, keyVars, trafficVars
<1>6. ASSUME NEW p \in Processes, NEW m \in Messages, RedisPollAdd(p, m)
      PROVE  TransportsInv'
  <2>1. AddToStream(m)
    BY <1>6 DEF RedisPollAdd
  <2>2. PICK x \in Entries : Msg(x) = m /\ fresh' = fresh \cup {x}
    BY <2>1, AddFacts
  <2>3. poll' \in [Processes -> [todo : SUBSET Messages, moving : SUBSET Messages]]
    BY <1>6 DEF RedisPollAdd
  <2>4. Shapes'
    BY <1>6, <2>1, <2>3, AddFacts DEF RedisPollAdd, trafficVars
  <2>5. StreamKeeps' /\ StreamInTime'
    BY <1>6, <2>2, <2>3 DEF RedisPollAdd, trafficVars
  <2>6. NothingLost' /\ NeverEarly' /\ LeasedInTime' /\ OwnHandlers' /\ GroupKnows'
    BY <1>6, <2>2 DEF RedisPollAdd, trafficVars
  <2> HIDE DEF Shapes, NothingLost, NeverEarly, StreamKeeps, StreamInTime, LeasedInTime,
               OwnHandlers, GroupKnows
  <2> QED
    BY <2>4, <2>5, <2>6
<1>7. ASSUME NEW p \in Processes, NEW m \in Messages, RedisPollRemove(p, m)
      PROVE  TransportsInv'
  BY <1>7 DEF RedisPollRemove, trafficVars
<1>8. ASSUME NEW p \in Processes, RedisRead(p)
      PROVE  TransportsInv'
  BY <1>8 DEF RedisRead, trafficVars
<1>9. ASSUME NEW p \in Processes, NEW x \in Entries, RedisReadLoop(p, x)
      PROVE  TransportsInv'
  BY <1>9 DEF RedisReadLoop, Begin, Receive, keyVars, Runs
<1>10. ASSUME NEW p \in Processes, NEW x \in Entries,
              RedisClaim(p, x) \/ RedisClaimEarly(p, x)
       PROVE  TransportsInv'
  BY <1>10 DEF RedisClaim, RedisClaimEarly, Claims, Begin, Receive, keyVars, Runs
<1>11. ASSUME NEW p \in Processes, NEW r \in runs[p], RedisHandlerOk(p, r)
       PROVE  TransportsInv'
  <2>1. Shapes' /\ NothingLost' /\ NeverEarly'
    BY <1>11 DEF RedisHandlerOk, Handle, keyVars, Runs
  <2>2. StreamKeeps' /\ StreamInTime' /\ LeasedInTime' /\ OwnHandlers' /\ GroupKnows'
    BY <1>11 DEF RedisHandlerOk, Handle, keyVars, Runs
  <2> HIDE DEF Shapes, NothingLost, NeverEarly, StreamKeeps, StreamInTime, LeasedInTime,
               OwnHandlers, GroupKnows
  <2> QED
    BY <2>1, <2>2
<1>12. ASSUME NEW p \in Processes, NEW r \in runs[p], RedisHandlerThrows(p, r)
       PROVE  TransportsInv'
  BY <1>12 DEF RedisHandlerThrows, Fault, keyVars
<1>13. ASSUME NEW p \in Processes, NEW r \in runs[p], RedisAcknowledge(p, r)
       PROVE  TransportsInv'
  BY <1>13 DEF RedisAcknowledge, trafficVars
<1> QED
  BY <1>1, <1>2, <1>3, <1>4, <1>5, <1>6, <1>7, <1>8, <1>9, <1>10, <1>11, <1>12, <1>13
     DEF RedisNext, RedisWork

(* --- RabbitMQ --- *)

(* Whatever a RabbitMQ transport, its connection manager and its broker do next. *)
LEMMA RabbitStep ==
    ASSUME transport = "rabbitmq", TransportsInv, RabbitNext,
           UNCHANGED <<transport, streamVars, leasedVars>>
    PROVE  TransportsInv'
<1> USE DEF TransportsInv, Shapes, NothingLost, NeverEarly, StreamKeeps, StreamInTime,
            LeasedInTime, OwnHandlers, GroupKnows, Holds, RabbitHolds, MayGiveUp, InTime,
            leasedVars, streamVars, keyVars, workVars
<1>1. ASSUME RabbitStart \/ RabbitManages
      PROVE  TransportsInv'
  BY <1>1 DEF RabbitStart, RabbitManages, RabbitReconnect, RabbitConnects,
              RabbitCreatesChannel, RabbitConnected, RabbitConnectBreaks, queueVars, trafficVars
<1>2. ASSUME RabbitConnectFails
      PROVE  TransportsInv'
  BY <1>2 DEF RabbitConnectFails, RefusesExchange, FailsBeforeExchange, ChannelEnds, Fault
<1>3. ASSUME RabbitLosesConnection \/ RabbitLosesChannel
      PROVE  TransportsInv'
  BY <1>3 DEF RabbitLosesConnection, RabbitLosesChannel, ChannelEnds, Fault
<1>4. ASSUME RabbitStop
      PROVE  TransportsInv'
  BY <1>4 DEF RabbitStop, Drop
<1>5. ASSUME NEW e \in Endpoints, RabbitSubscribe(e)
      PROVE  TransportsInv'
  BY <1>5 DEF RabbitSubscribe, trafficVars
<1>6. ASSUME NEW m \in Messages, RabbitPublish(m)
      PROVE  TransportsInv'
  BY <1>6 DEF RabbitPublish, Accept
<1>7. ASSUME NEW m \in Messages, RabbitRoutes(m)
      PROVE  TransportsInv'
  BY <1>7 DEF RabbitRoutes, Drop, trafficVars
<1>8. ASSUME NEW m \in Messages, RabbitDelivers(m)
      PROVE  TransportsInv'
  <2>1. [msg |-> m, current |-> TRUE] \in deliveries' /\ deliveries \subseteq deliveries'
    BY <1>8 DEF RabbitDelivers
  <2>2. \E d \in deliveries' : d.msg = m /\ d.current
    BY <2>1
  <2> QED
    BY <1>8, <2>1, <2>2 DEF RabbitDelivers, Receive
<1>9. ASSUME NEW d \in deliveries, RabbitHandlerOk(d) \/ RabbitHandlerThrows(d)
      PROVE  TransportsInv'
  BY <1>9 DEF RabbitHandlerOk, RabbitHandlerThrows, Handle, Fault, queueVars
<1> QED
  BY <1>1, <1>2, <1>3, <1>4, <1>5, <1>6, <1>7, <1>8, <1>9 DEF RabbitNext, RabbitCarries

(* --- Kafka, NATS, SQS, Azure Service Bus and Pub/Sub --- *)

(* What moving messages to another stage does. *)
LEMMA MovedFacts ==
    ASSUME Shapes, NEW ms, NEW to \in {"unsent", "scheduled", "ready", "leased", "gone"},
           Moved(ms, to)
    PROVE  /\ stage' \in [Messages -> {"unsent", "scheduled", "ready", "leased", "gone"}]
           /\ \A m \in Messages : stage'[m] = IF m \in ms THEN to ELSE stage[m]
BY DEF Shapes, Moved

(* Whatever one of the transports with leases, or its broker, does next. *)
LEMMA LeasedStep ==
    ASSUME transport \in LeasedTransportNames, TransportsInv, LeasedNext,
           UNCHANGED <<transport, streamVars, rabbitVars>>
    PROVE  TransportsInv'
<1> USE DEF TransportsInv, NothingLost, NeverEarly, StreamKeeps, StreamInTime,
            LeasedInTime, OwnHandlers, GroupKnows, Holds, LeasedHolds, MayGiveUp, InTime,
            streamVars, keyVars, workVars, LeasedTransportNames
<1>1. ASSUME LeasedStart
      PROVE  TransportsInv'
  BY <1>1 DEF LeasedStart, trafficVars, Shapes
<1>2. ASSUME LeasedStop \/ SqsLoopsEnd
      PROVE  TransportsInv'
  BY <1>2 DEF LeasedStop, SqsLoopsEnd, KafkaStop, NatsStop, SqsStop, AzureStop, PubSubStop,
              Closes, Orphaned, trafficVars, Shapes
<1>3. ASSUME LeasedCrash
      PROVE  TransportsInv'
  BY <1>3 DEF LeasedCrash, Fault, Shapes
<1>4. ASSUME NEW e \in Endpoints, LeasedSubscribe(e)
      PROVE  TransportsInv'
  BY <1>4 DEF LeasedSubscribe, trafficVars, Shapes
<1>5. ASSUME NEW m \in Messages, LeasedPublish(m)
      PROVE  TransportsInv'
  BY <1>5, MovedFacts
     DEF LeasedPublish, KafkaPublish, NatsPublish, SqsPublish, AzurePublish, PubSubPublish,
         Sends, Accept, Shapes
<1>6. ASSUME NEW m \in Messages, ComesDue(m)
      PROVE  TransportsInv'
  BY <1>6, MovedFacts DEF ComesDue, trafficVars, Shapes
<1>7. ASSUME NEW m \in Messages, LeasedDelivers(m)
      PROVE  TransportsInv'
  <2>1. /\ \A n \in Messages : stage'[n] = IF n = m THEN "leased" ELSE stage[n]
        /\ stage' \in [Messages -> {"unsent", "scheduled", "ready", "leased", "gone"}]
        /\ stage[m] = "ready" /\ UNCHANGED committed
    BY <1>7, MovedFacts DEF LeasedDelivers
  <2>2. PICK e \in Endpoints \cup {HandlerFor(m)} :
           /\ Begins(m, e)
           /\ transport # "sqs" => e = Address[m]
    BY <1>7, TrafficAssumption
       DEF LeasedDelivers, KafkaDelivers, NatsDelivers, SqsDelivers, AzureDelivers, PubSubDelivers
  <2>3. tries' \in [Messages -> Nat] /\ \A n \in Messages : n # m => tries'[n] = tries[n]
    BY <1>7
       DEF LeasedDelivers, KafkaDelivers, NatsDelivers, SqsDelivers, AzureDelivers,
           PubSubDelivers, Shapes
  <2> QED
    BY <2>1, <2>2, <2>3 DEF Begins, Receive, Shapes
<1>8. ASSUME NEW m \in Messages, SqsDeletes(m)
      PROVE  TransportsInv'
  BY <1>8, MovedFacts DEF SqsDeletes, Drop, Shapes
<1>9. ASSUME NEW r \in calls, LeasedHandlerOk(r)
      PROVE  TransportsInv'
  <2>1. CASE /\ Settled(r)
             /\ IF r.by = Address[r.msg] THEN Handle(r.msg) ELSE Drop({r.msg})
    <3>1. /\ \A n \in Messages : stage'[n] = IF n = r.msg THEN "gone" ELSE stage[n]
          /\ stage' \in [Messages -> {"unsent", "scheduled", "ready", "leased", "gone"}]
      BY <2>1, MovedFacts DEF Settled, Shapes
    <3>2. committed' = committed \/ committed' = committed \cup {Partition[r.msg]}
      BY <2>1 DEF Settled, KafkaCommits
    <3>3. \A x \in calls' : /\ x = [msg |-> x.msg, by |-> x.by, lease |-> x.lease]
                          /\ \E y \in calls : y.msg = x.msg /\ y.by = x.by
      BY <2>1 DEF Settled, Shapes
    <3>4. OwnHandlers'
      BY <1>9, <3>3 DEF LeasedHandlerOk
    <3>5. /\ UNCHANGED <<sent, elapsed, received, tries>>
          /\ dropped \subseteq dropped' /\ handled \subseteq handled'
          /\ r.by = Address[r.msg] => r.msg \in handled'
          /\ r.by # Address[r.msg] => r.msg \in dropped'
      BY <1>9, <2>1 DEF LeasedHandlerOk, Settled, Handle, Drop, trafficVars
    <3>6. Shapes'
      BY <3>1, <3>3, <3>5 DEF Shapes
    <3>7. NothingLost'
      <4> SUFFICES ASSUME NEW m \in sent
                   PROVE  m \in handled' \/ LeasedHolds(m)' \/ MayGiveUp(m)'
        BY <3>5
      <4>1. m \in Messages /\ (m \in handled \/ LeasedHolds(m) \/ MayGiveUp(m))
        BY DEF Shapes
      <4>2. CASE m = r.msg
        BY <3>5, <4>1, <4>2
      <4>3. CASE m # r.msg
        BY <3>1, <3>5, <4>1, <4>3
      <4> QED
        BY <4>2, <4>3
    <3>8. LeasedInTime' /\ NeverEarly' /\ StreamKeeps' /\ StreamInTime'
      BY <3>1, <3>3, <3>5, Zenon DEF Shapes
    <3>9. GroupKnows'
      <4> SUFFICES ASSUME transport = "kafka", NEW m \in Messages, stage'[m] = "gone"
                   PROVE  m \in dropped' \/ Partition[m] \in committed'
        OBVIOUS
      <4>1. CASE m = r.msg
        BY <2>1, <4>1 DEF Settled, KafkaCommits
      <4>2. CASE m # r.msg
        BY <3>1, <3>2, <3>5, <4>2
      <4> QED
        BY <4>1, <4>2
    <3> QED
      BY <3>4, <3>6, <3>7, <3>8, <3>9
  <2>2. CASE UNCHANGED <<stage, committed>> /\ calls' = calls \ {r}
    BY <1>9, <2>2 DEF LeasedHandlerOk, Handle, Drop, trafficVars, Shapes
  <2> QED
    BY <1>9, <2>1, <2>2 DEF LeasedHandlerOk
<1>10. ASSUME NEW r \in calls, LeasedHandlerThrows(r) \/ KafkaHandlerThrows(r)
       PROVE  TransportsInv'
  <2>1. CASE LeasedHandlerThrows(r)
    BY <2>1, MovedFacts DEF LeasedHandlerThrows, Returned, Released, Fault, Shapes
  <2>2. CASE KafkaHandlerThrows(r)
    BY <2>2, MovedFacts DEF KafkaHandlerThrows, Fault, Shapes
  <2> QED
    BY <1>10, <2>1, <2>2
<1>11. ASSUME NEW m \in Messages, LeaseRunsOut(m)
       PROVE  TransportsInv'
  BY <1>11, MovedFacts DEF LeaseRunsOut, Returned, Released, Drop, Shapes
<1>12. ASSUME NEW r \in calls, LeaseRunsOutEarly(r)
       PROVE  TransportsInv'
  BY <1>12, MovedFacts DEF LeaseRunsOutEarly, Returned, Released, Fault, Shapes
<1>13. ASSUME KafkaJoins
       PROVE  TransportsInv'
  BY <1>13, MovedFacts DEF KafkaJoins, Drop, Shapes
<1>14. ASSUME KafkaLosesSession
       PROVE  TransportsInv'
  BY <1>14 DEF KafkaLosesSession, Expired, Fault, Shapes
<1> QED
  BY <1>1, <1>2, <1>3, <1>4, <1>5, <1>6, <1>7, <1>8, <1>9, <1>10, <1>11, <1>12, <1>13, <1>14
     DEF LeasedNext, LeasedCarries

-----------------------------------------------------------------------------

(* Every step of every transport keeps the invariant; so does time. *)
LEMMA NextCarried == TransportsInv /\ [Next]_vars => TransportsInv'
<1> SUFFICES ASSUME TransportsInv, [Next]_vars PROVE TransportsInv'
  OBVIOUS
<1>1. CASE UNCHANGED vars \/ (ElapseAny /\ UNCHANGED transport)
  BY <1>1 DEF vars, ElapseAny, Elapse, TransportsInv, Shapes, NothingLost, NeverEarly,
              StreamKeeps, StreamInTime, LeasedInTime, OwnHandlers, GroupKnows, Holds,
              RedisHolds, RabbitHolds, LeasedHolds, MayGiveUp, InTime, trafficVars, streamVars, keyVars, workVars, rabbitVars,
              queueVars, leasedVars
<1> QED
  BY <1>1, RedisStep, RabbitStep, LeasedStep DEF Next, RedisInv

(* The invariant holds in every state the transports can reach. *)
THEOREM TransportsInvariant == Spec => []TransportsInv
BY InitCarried, NextCarried, PTL DEF Spec

(* At least once: a message whose publish has returned is with the broker until it
   is handled, unless the transport has given it up. *)
THEOREM DeliveredAtLeastOnce == Spec => []NothingLost
<1>1. TransportsInv => NothingLost
  BY DEF TransportsInv
<1> QED
  BY <1>1, TransportsInvariant, PTL

(* No transport that takes the delay of a message at its word delivers it before
   the delay is over. *)
THEOREM DelaysAreKept == Spec => []NeverEarly
<1>1. TransportsInv => NeverEarly
  BY DEF TransportsInv
<1> QED
  BY <1>1, TransportsInvariant, PTL

(* A Kafka consumer passes over a message only in partitions its group has committed
   nothing of, whatever was lost, thrown, stopped or crashed before. *)
THEOREM CommittedStaysKept == Spec => CommittedIsKept
<1>1. ASSUME TransportsInv, [Next]_vars, transport = "kafka",
             NEW m \in dropped' \ dropped, NEW n \in Messages, Partition[n] = Partition[m]
      PROVE  stage[n] # "gone" \/ n \in dropped
  <2>1. LeasedNext
    BY <1>1 DEF Next, ElapseAny, Elapse, LeasedTransportNames, vars, trafficVars
  <2>2. KafkaJoins
    BY <1>1, <2>1
       DEF LeasedNext, LeasedCarries, LeasedStart, LeasedStop, SqsLoopsEnd, LeasedCrash,
           KafkaLosesSession, LeasedSubscribe, LeasedPublish, KafkaPublish, NatsPublish,
           SqsPublish, AzurePublish, PubSubPublish, Sends, ComesDue, LeasedDelivers,
           KafkaDelivers, NatsDelivers, SqsDelivers, AzureDelivers, PubSubDelivers, Begins,
           Receive, SqsDeletes, LeasedHandlerOk, LeasedHandlerThrows, KafkaHandlerThrows,
           LeaseRunsOut, LeaseRunsOutEarly, Released, Fault, Drop, Handle, trafficVars,
           TransportsInv, OwnHandlers
  <2>3. Partition[m] \notin committed
    BY <1>1, <2>2 DEF KafkaJoins, KafkaSkips, Drop
  <2> QED
    BY <1>1, <2>3 DEF TransportsInv, GroupKnows
<1>2. TransportsInv /\ [Next]_vars =>
         [transport = "kafka" =>
             \A m \in dropped' \ dropped, n \in Messages :
                 Partition[n] = Partition[m] => stage[n] # "gone" \/ n \in dropped]_vars
  BY <1>1
<1> QED
  BY <1>2, TransportsInvariant, PTL DEF Spec, CommittedIsKept

-----------------------------------------------------------------------------
(* Types, and what is counted. *)

(* A message is published once, and NATS hands it out no more than MaxDeliver times:
   one that is to be delivered has a delivery left. *)
TriesLeft ==
    /\ \A m \in Messages : stage[m] # "unsent" \/ tries[m] # 0 => m \in sent
    /\ \A r \in calls : r.msg \in sent
    /\ transport = "nats" =>
          \A m \in Messages : stage[m] \in {"scheduled", "ready"} => tries[m] < MaxDeliver

(* TransportsTypeOK alone is not inductive: that a counter stays in its range takes to
   know what it counts. *)
TypesInv ==
    /\ transport \in TransportNames
    /\ TransportsTypeOK
    /\ handlersOf \in Seq(Endpoints)
    /\ TriesLeft
    /\ ReconnectsDoNotMultiply

(* It holds before anything is published. *)
LEMMA InitTypes == Init => TypesInv
<1> SUFFICES ASSUME Init PROVE TypesInv
  OBVIOUS
<1> USE DEF Init
<1>1. transport \in TransportNames
  BY DEF LeasedTransportNames, TransportNames
<1>2. TrafficTypeOK
  BY <1>1, TrafficAssumption DEF TrafficInit, TrafficTypeOK
<1>3. StreamTypeOK
  BY RedisTransportAssumption DEF StreamInit, StreamTypeOK, NoPoll
<1>4. RabbitTypeOK
  <2>1. reconnectAttempt \in 0 .. MaxAttempts /\ chains \in Nat /\ waiters \in Nat
    BY ReconnectAssumption DEF RabbitInit
  <2> QED
    BY <2>1 DEF RabbitInit, RabbitTypeOK
<1>5. LeasedTypeOK /\ handlersOf \in Seq(Endpoints)
  BY LeasesAssumption DEF LeasedInit, LeasedTypeOK, Range
<1>6. TriesLeft
  BY LeasesAssumption DEF LeasedInit, TriesLeft
<1>7. ReconnectsDoNotMultiply
  BY DEF RabbitInit, TrafficInit, ReconnectsDoNotMultiply
<1> QED
  BY <1>1, <1>2, <1>3, <1>4, <1>5, <1>6, <1>7 DEF TypesInv, TransportsTypeOK

(* What one step of a transport may do to the traffic. *)
Passes ==
    \/ UNCHANGED trafficVars
    \/ \E m \in Messages : Accept(m) /\ dropped' \in {dropped, dropped \cup {m}}
    \/ \E m \in Messages : Elapse(m) \/ Handle(m) \/ \E e \in Endpoints : Receive(m, e)
    \/ \E lost \in SUBSET Messages : Fault(lost) \/ Drop(lost)

(* All of it is of its type. *)
LEMMA TrafficKept ==
    ASSUME TrafficTypeOK, transport \in TransportNames, UNCHANGED transport, Passes
    PROVE  TrafficTypeOK'
<1> USE DEF TrafficTypeOK
<1>1. CASE UNCHANGED trafficVars
  BY <1>1 DEF trafficVars
<1>2. CASE \E m \in Messages : Accept(m) /\ dropped' \in {dropped, dropped \cup {m}}
  BY <1>2 DEF Accept
<1>3. CASE \E m \in Messages : Elapse(m) \/ Handle(m) \/ \E e \in Endpoints : Receive(m, e)
  BY <1>3 DEF Elapse, Handle, Receive
<1>4. CASE \E lost \in SUBSET Messages : Fault(lost) \/ Drop(lost)
  <2>1. MaxFaults(transport) \in Nat
    BY TrafficAssumption
  <2> QED
    BY <1>4, <2>1 DEF Fault, Drop
<1> QED
  BY <1>1, <1>2, <1>3, <1>4 DEF Passes

(* An entry is one of a message, in the stream of an endpoint. *)
LEMMA EntryOf ==
    ASSUME NEW x \in Entries
    PROVE  Msg(x) \in Messages /\ Stream(x) \in Endpoints
<1>1. Msg(x) \in Messages
  BY DEF Entries, Msg
<1> QED
  BY <1>1, TrafficAssumption DEF Stream

(* A Redis transport. *)
LEMMA RedisTypes ==
    ASSUME TypesInv, Shapes, Shapes', transport = "redis", RedisNext,
           UNCHANGED <<transport, rabbitVars, leasedVars>>
    PROVE  TypesInv'
<1>1. /\ up \in [Processes -> {"down", "up", "stopping"}]
      /\ subscribed \in [Processes -> SUBSET Endpoints]
      /\ streams \in [Processes -> (SUBSET Endpoints) \cup {NoStreams}]
      /\ TrafficTypeOK /\ transport \in TransportNames
  BY DEF TypesInv, TransportsTypeOK, StreamTypeOK
<1> DEFINE ProcessTypes ==
              /\ up \in [Processes -> {"down", "up", "stopping"}]
              /\ subscribed \in [Processes -> SUBSET Endpoints]
              /\ streams \in [Processes -> (SUBSET Endpoints) \cup {NoStreams}]
<1>2. ASSUME NEW p \in Processes, NEW endpoints \in SUBSET Endpoints, BeginReadLoop(p, endpoints)
      PROVE  streams' \in [Processes -> (SUBSET Endpoints) \cup {NoStreams}]
  BY <1>1, <1>2 DEF BeginReadLoop
<1>3. ASSUME NEW p \in Processes,
             RedisPoll(p) \/ RedisPollEnds(p) \/ RedisRead(p)
               \/ (\E m \in Messages : RedisPollAdd(p, m) \/ RedisPollRemove(p, m))
               \/ (\E r \in runs[p] : RedisAcknowledge(p, r))
      PROVE  Passes /\ ProcessTypes'
  BY <1>1, <1>3 DEF RedisPoll, RedisPollEnds, RedisPollAdd, RedisPollRemove, RedisRead,
                    RedisAcknowledge, processVars, Passes
<1>4. ASSUME NEW p \in Processes, RedisStart(p)
      PROVE  Passes /\ ProcessTypes'
  <2>1. subscribed[p] \in SUBSET Endpoints
    BY <1>1
  <2> QED
    BY <1>1, <1>2, <1>4, <2>1 DEF RedisStart, Passes
<1>5. ASSUME NEW p \in Processes, NEW e \in Endpoints, RedisSubscribe(p, e)
      PROVE  Passes /\ ProcessTypes'
  <2>1. subscribed' \in [Processes -> SUBSET Endpoints] /\ subscribed'[p] \in SUBSET Endpoints
    BY <1>1, <1>5 DEF RedisSubscribe
  <2> QED
    BY <1>1, <1>2, <1>5, <2>1 DEF RedisSubscribe, Passes
<1>6. ASSUME NEW p \in Processes, RedisStop(p) \/ RedisCrash(p)
      PROVE  Passes /\ ProcessTypes'
  <2>1. Fault({}) /\ ProcessTypes'
    BY <1>1, <1>6 DEF RedisStop, RedisCrash
  <2> QED
    BY <2>1 DEF Passes
<1>7. ASSUME NEW p \in Processes, RedisStopped(p)
      PROVE  Passes /\ ProcessTypes'
  BY <1>1, <1>7 DEF RedisStopped, Passes
<1>8. ASSUME NEW p \in Processes, NEW x \in Entries, RedisReadLoop(p, x) \/ RedisClaim(p, x)
      PROVE  Passes /\ ProcessTypes'
  BY <1>1, <1>8, EntryOf DEF RedisReadLoop, RedisClaim, processVars, Passes
<1>9. ASSUME NEW p \in Processes, NEW r \in runs[p], RedisHandlerOk(p, r) \/ RedisHandlerThrows(p, r)
      PROVE  Passes /\ ProcessTypes'
  <2>1. r.entry \in Entries
    BY DEF Shapes, Runs
  <2>2. Msg(r.entry) \in Messages
    BY <2>1, EntryOf
  <2>3. Handle(Msg(r.entry)) \/ Fault({})
    BY <1>9 DEF RedisHandlerOk, RedisHandlerThrows
  <2> QED
    BY <1>1, <1>9, <2>2, <2>3 DEF RedisHandlerOk, RedisHandlerThrows, processVars, Passes
<1>10. ASSUME NEW m \in Messages, RedisPublish(m)
       PROVE  Passes /\ ProcessTypes'
  BY <1>1, <1>10 DEF RedisPublish, processVars, Passes
<1>11. ASSUME NEW p \in Processes, NEW x \in Entries, RedisClaimEarly(p, x)
       PROVE  TrafficTypeOK' /\ ProcessTypes'
  <2>1. MaxFaults(transport) \in Nat
    BY <1>1, TrafficAssumption
  <2> QED
    BY <1>1, <1>11, <2>1, EntryOf DEF RedisClaimEarly, processVars, TrafficTypeOK
<1> HIDE DEF ProcessTypes
<1>12. TrafficTypeOK' /\ ProcessTypes'
  BY <1>1, <1>3, <1>4, <1>5, <1>6, <1>7, <1>8, <1>9, <1>10, <1>11, TrafficKept
     DEF RedisNext, RedisWork
<1>13. sent \subseteq sent'
  BY <1>12, <1>3, <1>4, <1>5, <1>6, <1>7, <1>8, <1>9, <1>10
     DEF RedisNext, RedisWork, Passes, Accept, Elapse, Handle, Receive, Fault, Drop,
         trafficVars, RedisClaimEarly
<1>14. StreamTypeOK'
  BY <1>12 DEF StreamTypeOK, ProcessTypes, Shapes
<1>15. RabbitTypeOK' /\ LeasedTypeOK' /\ handlersOf' \in Seq(Endpoints)
  BY DEF TypesInv, TransportsTypeOK, RabbitTypeOK, LeasedTypeOK, rabbitVars, managerVars,
         queueVars, leasedVars, Range
<1>16. TriesLeft'
  BY <1>13 DEF TypesInv, TriesLeft, leasedVars
<1>17. ReconnectsDoNotMultiply'
  BY DEF ReconnectsDoNotMultiply
<1> QED
  BY <1>12, <1>14, <1>15, <1>16, <1>17 DEF TypesInv, TransportsTypeOK

(* RabbitMQ's counters, and the reconnect calls that are outstanding. *)
Counters ==
    /\ reconnectAttempt \in 0 .. MaxAttempts
    /\ chains \in Nat
    /\ waiters \in Nat
    /\ faults \in Nat
    /\ attempting \in {"nobody", "start", "reconnect"}

(* No more calls are outstanding than the faults pay for, the one at work included. *)
Owed ==
    /\ chains + waiters <= faults + faults
    /\ attempting = "reconnect" => chains + waiters + 1 <= faults + faults

(* A call of reconnect begins a chain, or none when the attempts are used up. *)
LEMMA Begun ==
    ASSUME NEW max \in Nat, NEW a \in Nat, a <= max, NEW c \in Nat, NEW n \in Nat, NEW b, NEW d,
           b = (IF a + n > max THEN max ELSE a + n), d = c + (b - a)
    PROVE  b \in Nat /\ b <= max /\ d \in Nat /\ d <= c + n
<1>1. CASE a + n > max
  <2>1. b = max
    BY <1>1
  <2> QED
    BY <1>1, <2>1
<1>2. CASE ~ (a + n > max)
  <2>1. b = a + n
    BY <1>2
  <2> QED
    BY <1>2, <2>1
<1> QED
  BY <1>1, <1>2

(* The same of the manager's counters. *)
LEMMA ChainsBegun ==
    ASSUME Counters, NEW n \in Nat, Reconnects(n)
    PROVE  /\ reconnectAttempt' \in 0 .. MaxAttempts
           /\ chains' \in Nat /\ chains' <= chains + n
<1>1. MaxAttempts \in Nat /\ reconnectAttempt \in Nat /\ reconnectAttempt <= MaxAttempts
      /\ chains \in Nat
  BY ReconnectAssumption DEF Counters
<1>2. /\ reconnectAttempt' =
            (IF reconnectAttempt + n > MaxAttempts THEN MaxAttempts ELSE reconnectAttempt + n)
      /\ chains' = chains + (reconnectAttempt' - reconnectAttempt)
  BY DEF Reconnects
<1>3. /\ reconnectAttempt' \in Nat /\ reconnectAttempt' <= MaxAttempts
      /\ chains' \in Nat /\ chains' <= chains + n
  BY <1>1, <1>2, Begun
<1>4. reconnectAttempt' \in 0 .. MaxAttempts
  BY <1>1, <1>3
<1> QED
  BY <1>3, <1>4

(* Sums of numbers: one call traded for another, more to pay with, and a fault's two. *)
LEMMA Traded ==
    ASSUME NEW c \in Nat, NEW w \in Nat, NEW f \in Nat, NEW d \in Nat,
           d <= c + 1, c + w + 1 <= f + f
    PROVE  d + w <= f + f
OBVIOUS

(* More faults pay for more. *)
LEMMA PaidStill ==
    ASSUME NEW c \in Nat, NEW w \in Nat, NEW f \in Nat, NEW g \in Nat, f <= g
    PROVE  /\ c + w <= f + f => c + w <= g + g
           /\ c + w + 1 <= f + f => c + w + 1 <= g + g
OBVIOUS

(* One fault pays for two. *)
LEMMA PaidTwo ==
    ASSUME NEW c \in Nat, NEW w \in Nat, NEW f \in Nat, NEW d \in Nat, NEW g \in Nat,
           d <= c + 2, g = f + 1, c + w <= f + f
    PROVE  d + w <= g + g
OBVIOUS

(* And for one at work. *)
LEMMA PaidThree ==
    ASSUME NEW c \in Nat, NEW w \in Nat, NEW f \in Nat, NEW d \in Nat, NEW g \in Nat,
           d <= c + 2, g = f + 1, c + w + 1 <= f + f
    PROVE  d + w + 1 <= g + g
OBVIOUS

(* What is owed, counted in the two ways. *)
LEMMA TwoWays ==
    ASSUME NEW c \in Nat, NEW w \in Nat, NEW f \in Nat
    PROVE  /\ c + w + 0 <= 2 * f <=> c + w <= f + f
           /\ c + w + 1 <= 2 * f <=> c + w + 1 <= f + f
           /\ c + w + 1 <= 2 * f => c + w <= f + f
OBVIOUS

(* An attempt that was part of a chain ends, and the chain goes on with its next. *)
LEMMA ChainGoesOn ==
    ASSUME Counters, Owed,
           IF attempting = "reconnect" THEN Reconnects(1) ELSE UNCHANGED <<reconnectAttempt, chains>>
    PROVE  /\ reconnectAttempt' \in 0 .. MaxAttempts /\ chains' \in Nat
           /\ chains' + waiters <= faults + faults
<1>0. chains \in Nat /\ waiters \in Nat /\ faults \in Nat
  BY DEF Counters
<1>1. CASE attempting = "reconnect"
  <2>1. reconnectAttempt' \in 0 .. MaxAttempts /\ chains' \in Nat /\ chains' <= chains + 1
    BY <1>1, ChainsBegun
  <2>2. chains + waiters + 1 <= faults + faults
    BY <1>1 DEF Owed
  <2>3. chains' + waiters <= faults + faults
    BY <1>0, <2>1, <2>2, Traded
  <2> QED
    BY <2>1, <2>3
<1>2. CASE attempting # "reconnect"
  <2>1. UNCHANGED <<reconnectAttempt, chains>>
    BY <1>2
  <2> QED
    BY <2>1 DEF Counters, Owed
<1> QED
  BY <1>1, <1>2

(* Chains end, go on or wait; only a disconnect begins new ones, two at most. *)
LEMMA ChainsCounted ==
    ASSUME Counters, Owed, RabbitNext
    PROVE  Counters' /\ Owed'
<1>0. /\ chains \in Nat /\ waiters \in Nat /\ faults \in Nat
      /\ chains + waiters <= faults + faults
      /\ 0 \in 0 .. MaxAttempts
  BY ReconnectAssumption DEF Counters, Owed
<1>1. ASSUME UNCHANGED <<attempting, reconnectAttempt, chains, waiters>>,
             faults' \in {faults, faults + 1}
      PROVE  Counters' /\ Owed'
  <2>1. faults' \in Nat /\ faults' >= faults
    BY <1>0, <1>1
  <2>2. chains' + waiters' <= faults' + faults'
    BY <1>0, <1>1, <2>1, PaidStill
  <2>3. ASSUME attempting' = "reconnect"
        PROVE  chains' + waiters' + 1 <= faults' + faults'
    <3>1. chains + waiters + 1 <= faults + faults
      BY <1>1, <2>3 DEF Owed
    <3> QED
      BY <1>0, <1>1, <2>1, <3>1, PaidStill
  <2> QED
    BY <1>1, <2>1, <2>2, <2>3 DEF Counters, Owed
<1>2. ASSUME attempting' \in {"nobody", "start"}, UNCHANGED waiters,
             reconnectAttempt' \in 0 .. MaxAttempts, chains' \in Nat, chains' + waiters <= faults + faults,
             faults' \in {faults, faults + 1}
      PROVE  Counters' /\ Owed'
  <2>1. faults' \in Nat /\ faults' >= faults
    BY <1>0, <1>2
  <2>2. chains' + waiters' <= faults' + faults'
    BY <1>0, <1>2, <2>1, PaidStill
  <2> QED
    BY <1>0, <1>2, <2>1, <2>2 DEF Counters, Owed
<1>3. CASE RabbitStart
  <2>1. /\ UNCHANGED <<reconnectAttempt, chains, waiters, faults>>
        /\ UNCHANGED attempting \/ attempting' = "start"
    BY <1>3 DEF RabbitStart, BeginConnect, trafficVars
  <2>2. CASE UNCHANGED attempting
    BY <1>1, <2>1, <2>2
  <2>3. CASE attempting' = "start"
    BY <1>0, <1>2, <2>1, <2>3 DEF Counters
  <2> QED
    BY <2>1, <2>2, <2>3
<1>4. CASE RabbitReconnect
  <2>1. /\ chains > 0 /\ chains' = chains - 1
        /\ UNCHANGED <<reconnectAttempt, faults>>
    BY <1>4 DEF RabbitReconnect, trafficVars
  <2>2. chains' \in Nat /\ chains = chains' + 1
    BY <1>0, <2>1
  <2>3. CASE UNCHANGED <<attempting, waiters>>
    <3>1. chains' + waiters' <= faults' + faults'
      BY <1>0, <2>1, <2>2, <2>3
    <3>2. chains' + waiters' + 1 <= faults' + faults'
      BY <1>0, <2>1, <2>2, <2>3
    <3> QED
      BY <2>1, <2>2, <2>3, <3>1, <3>2 DEF Counters, Owed
  <2>4. CASE waiters' = waiters + 1 /\ UNCHANGED attempting
    <3>1. waiters' \in Nat /\ chains' + waiters' <= faults' + faults'
      BY <1>0, <2>1, <2>2, <2>4
    <3>2. ASSUME attempting' = "reconnect"
          PROVE  chains' + waiters' + 1 <= faults' + faults'
      <4>1. chains + waiters + 1 <= faults + faults
        BY <2>4, <3>2 DEF Owed
      <4> QED
        BY <1>0, <2>1, <2>2, <2>4, <4>1
    <3> QED
      BY <2>1, <2>2, <2>4, <3>1, <3>2 DEF Counters, Owed
  <2>5. CASE attempting' = "reconnect" /\ UNCHANGED waiters
    <3>1. chains' + waiters' <= faults' + faults'
      BY <1>0, <2>1, <2>2, <2>5
    <3>2. chains' + waiters' + 1 <= faults' + faults'
      BY <1>0, <2>1, <2>2, <2>5
    <3> QED
      BY <2>1, <2>2, <2>5, <3>1, <3>2 DEF Counters, Owed
  <2> QED
    BY <1>4, <2>3, <2>4, <2>5 DEF RabbitReconnect, BeginConnect
<1>5. CASE RabbitConnected
  <2>1. /\ attempting' = "nobody" /\ reconnectAttempt' = 0 /\ waiters' = 0
        /\ UNCHANGED <<chains, faults>>
    BY <1>5 DEF RabbitConnected, trafficVars
  <2>2. chains' + waiters' <= faults' + faults'
    BY <1>0, <2>1
  <2> QED
    BY <1>0, <2>1, <2>2 DEF Counters, Owed
<1>6. CASE RabbitConnectFails
  <2>1. faults' = faults + 1 /\ attempting' = "nobody" /\ UNCHANGED waiters
    BY <1>6 DEF RabbitConnectFails, RefusesExchange, FailsBeforeExchange, Fault
  <2>2. /\ reconnectAttempt' \in 0 .. MaxAttempts /\ chains' \in Nat
        /\ chains' + waiters <= faults + faults
    BY <1>6, ChainGoesOn DEF RabbitConnectFails
  <2> QED
    BY <1>2, <2>1, <2>2
<1>7. CASE RabbitConnectBreaks
  <2>1. faults' = faults /\ attempting' = "nobody" /\ UNCHANGED waiters
    BY <1>7 DEF RabbitConnectBreaks, trafficVars
  <2>2. /\ reconnectAttempt' \in 0 .. MaxAttempts /\ chains' \in Nat
        /\ chains' + waiters <= faults + faults
    BY <1>7, ChainGoesOn DEF RabbitConnectBreaks
  <2> QED
    BY <1>2, <2>1, <2>2
<1>8. CASE RabbitLosesConnection
  <2>1. faults' = faults + 1 /\ UNCHANGED <<attempting, waiters>>
    BY <1>8 DEF RabbitLosesConnection, Fault
  <2>2. CASE UNCHANGED <<reconnectAttempt, chains>>
    BY <1>1, <2>1, <2>2
  <2>3. ASSUME NEW events \in {1, 2}, Reconnects(events)
        PROVE  Counters' /\ Owed'
    <3>1. events \in Nat /\ events <= 2
      OBVIOUS
    <3>2. /\ reconnectAttempt' \in 0 .. MaxAttempts
          /\ chains' \in Nat /\ chains' <= chains + events
      BY <2>3, <3>1, ChainsBegun
    <3>3. chains' <= chains + 2 /\ faults' \in Nat
      BY <1>0, <2>1, <3>1, <3>2
    <3>4. chains' + waiters' <= faults' + faults'
      BY <1>0, <2>1, <3>2, <3>3, PaidTwo
    <3>5. ASSUME attempting' = "reconnect"
          PROVE  chains' + waiters' + 1 <= faults' + faults'
      <4>1. chains + waiters + 1 <= faults + faults
        BY <2>1, <3>5 DEF Owed
      <4>2. chains' + waiters + 1 <= faults' + faults'
        BY <1>0, <2>1, <3>2, <3>3, <4>1, PaidThree
      <4> QED
        BY <2>1, <4>2
    <3> QED
      BY <2>1, <3>2, <3>3, <3>4, <3>5 DEF Counters, Owed
  <2> QED
    BY <1>8, <2>2, <2>3 DEF RabbitLosesConnection
<1>9. \/ UNCHANGED <<attempting, reconnectAttempt, chains, waiters>> /\ faults' \in {faults, faults + 1}
      \/ RabbitStart \/ RabbitReconnect \/ RabbitConnected \/ RabbitConnectFails
      \/ RabbitConnectBreaks \/ RabbitLosesConnection
  BY DEF RabbitNext, RabbitManages, RabbitCarries, RabbitConnects, RabbitCreatesChannel,
         RabbitLosesChannel, RabbitStop, RabbitSubscribe, RabbitPublish, RabbitRoutes,
         RabbitDelivers, RabbitHandlerOk, RabbitHandlerThrows, Accept, Receive, Handle, Fault, Drop,
         managerVars, trafficVars
<1> QED
  BY <1>1, <1>3, <1>4, <1>5, <1>6, <1>7, <1>8, <1>9

(* What RabbitMQ's other variables are. *)
Flags ==
    /\ transportUp \in BOOLEAN
    /\ connection \in BOOLEAN
    /\ isClosed \in BOOLEAN
    /\ hook \in BOOLEAN
    /\ channel \in {"null", "open", "closed"}
    /\ phase \in {"none", "connect", "channel", "exchange"}

Places ==
    /\ queues \subseteq Endpoints
    /\ consumers \subseteq Endpoints
    /\ handlers \subseteq Endpoints
    /\ unsent \subseteq Messages
    /\ ready \subseteq Messages
    /\ deliveries \subseteq Deliveries

(* The flags of the transport and its connection manager. *)
LEMMA FlagsKept ==
    ASSUME Flags, RabbitNext
    PROVE  Flags'
<1> USE DEF Flags
<1>1. CASE RabbitStart
  BY <1>1 DEF RabbitStart, BeginConnect
<1>2. CASE RabbitReconnect
  BY <1>2 DEF RabbitReconnect, BeginConnect
<1>3. CASE RabbitConnects
  BY <1>3 DEF RabbitConnects
<1>4. CASE RabbitCreatesChannel
  BY <1>4 DEF RabbitCreatesChannel
<1>5. CASE RabbitConnected
  BY <1>5 DEF RabbitConnected
<1>6. CASE RabbitConnectFails
  BY <1>6 DEF RabbitConnectFails, RefusesExchange, FailsBeforeExchange
<1>7. CASE RabbitConnectBreaks
  BY <1>7 DEF RabbitConnectBreaks
<1>8. CASE RabbitLosesConnection \/ RabbitLosesChannel
  BY <1>8 DEF RabbitLosesConnection, RabbitLosesChannel
<1>9. CASE RabbitStop
  BY <1>9 DEF RabbitStop
<1>10. ASSUME UNCHANGED <<transportUp, managerVars>>
       PROVE  Flags'
  BY <1>10 DEF managerVars
<1>11. \/ UNCHANGED <<transportUp, managerVars>>
       \/ RabbitStart \/ RabbitReconnect \/ RabbitConnects \/ RabbitCreatesChannel
       \/ RabbitConnected \/ RabbitConnectFails \/ RabbitConnectBreaks
       \/ RabbitLosesConnection \/ RabbitLosesChannel \/ RabbitStop
  BY DEF RabbitNext, RabbitManages, RabbitCarries, RabbitSubscribe, RabbitPublish,
         RabbitRoutes, RabbitDelivers, RabbitHandlerOk, RabbitHandlerThrows
<1> QED
  BY <1>1, <1>2, <1>3, <1>4, <1>5, <1>6, <1>7, <1>8, <1>9, <1>10, <1>11

(* Where messages and endpoints can be, and what becomes of the traffic. *)
LEMMA PlacesKept ==
    ASSUME Places, TrafficTypeOK, RabbitNext
    PROVE  Places' /\ Passes
<1> USE DEF Places
<1>0. \A d \in deliveries : d.msg \in Messages /\ [d EXCEPT !.current = FALSE] \in Deliveries
  BY DEF Deliveries
<1>1. CASE RabbitStart \/ RabbitReconnect \/ RabbitConnects \/ RabbitCreatesChannel
             \/ RabbitConnected \/ RabbitConnectBreaks
  BY <1>1 DEF RabbitStart, RabbitReconnect, RabbitConnects, RabbitCreatesChannel,
              RabbitConnected, RabbitConnectBreaks, queueVars, Passes
<1>2. CASE RabbitConnectFails
  BY <1>0, <1>2
     DEF RabbitConnectFails, RefusesExchange, FailsBeforeExchange, ChannelEnds, Passes
<1>3. CASE RabbitLosesConnection \/ RabbitLosesChannel
  BY <1>0, <1>3 DEF RabbitLosesConnection, RabbitLosesChannel, ChannelEnds, Passes
<1>4. CASE RabbitStop
  BY <1>0, <1>4 DEF RabbitStop, Routable, Passes
<1>5. ASSUME NEW e \in Endpoints, RabbitSubscribe(e)
      PROVE  Places' /\ Passes
  BY <1>5 DEF RabbitSubscribe, Passes
<1>6. ASSUME NEW m \in Messages, RabbitPublish(m)
      PROVE  Places' /\ Passes
  BY <1>6 DEF RabbitPublish, Passes
<1>7. ASSUME NEW m \in Messages, RabbitRoutes(m)
      PROVE  Places' /\ Passes
  BY <1>7 DEF RabbitRoutes, Passes
<1>8. ASSUME NEW m \in Messages, RabbitDelivers(m)
      PROVE  Places' /\ Passes
  <2>1. [msg |-> m, current |-> TRUE] \in Deliveries /\ Address[m] \in Endpoints
    BY TrafficAssumption DEF Deliveries
  <2> QED
    BY <1>8, <2>1 DEF RabbitDelivers, Passes
<1>9. ASSUME NEW d \in deliveries, RabbitHandlerOk(d)
      PROVE  Places' /\ Passes
  BY <1>0, <1>9 DEF RabbitHandlerOk, queueVars, Passes
<1>10. ASSUME NEW d \in deliveries, RabbitHandlerThrows(d)
       PROVE  Places' /\ Passes
  <2>1. (IF d.current THEN {d.msg} ELSE {}) \in SUBSET Messages
    BY <1>0
  <2> QED
    BY <1>10, <2>1 DEF RabbitHandlerThrows, queueVars, Passes
<1> QED
  BY <1>1, <1>2, <1>3, <1>4, <1>5, <1>6, <1>7, <1>8, <1>9, <1>10
     DEF RabbitNext, RabbitManages, RabbitCarries

(* Most of the traffic is about messages that were sent. *)
LEMMA SentStays ==
    ASSUME Passes
    PROVE  sent \subseteq sent'
BY DEF Passes, Accept, Elapse, Handle, Receive, Fault, Drop, trafficVars

(* A RabbitMQ transport. *)
LEMMA RabbitTypes ==
    ASSUME TypesInv, transport = "rabbitmq", RabbitNext,
           UNCHANGED <<transport, streamVars, leasedVars>>
    PROVE  TypesInv'
<1>1. TrafficTypeOK /\ transport \in TransportNames /\ Flags /\ Places
  BY DEF TypesInv, TransportsTypeOK, RabbitTypeOK, Flags, Places
<1>2. faults \in Nat
  <2>1. MaxFaults(transport) \in Nat
    BY <1>1, TrafficAssumption
  <2> QED
    BY <1>1, <2>1 DEF TrafficTypeOK
<1>3. Counters /\ Owed
  <2>1. chains \in Nat /\ waiters \in Nat
        /\ chains + waiters + (IF attempting = "reconnect" THEN 1 ELSE 0) <= 2 * faults
    BY DEF TypesInv, TransportsTypeOK, RabbitTypeOK, ReconnectsDoNotMultiply
  <2>2. Counters
    BY <1>2 DEF TypesInv, TransportsTypeOK, RabbitTypeOK, Counters
  <2>3. CASE attempting = "reconnect"
    <3>1. chains + waiters + 1 <= 2 * faults
      BY <2>1, <2>3
    <3>2. chains + waiters + 1 <= faults + faults /\ chains + waiters <= faults + faults
      BY <1>2, <2>1, <3>1, TwoWays
    <3> QED
      BY <2>2, <3>2 DEF Owed
  <2>4. CASE attempting # "reconnect"
    <3>1. chains + waiters + 0 <= 2 * faults
      BY <2>1, <2>4
    <3>2. chains + waiters <= faults + faults
      BY <1>2, <2>1, <3>1, TwoWays
    <3> QED
      BY <2>2, <2>4, <3>2 DEF Owed
  <2> QED
    BY <2>3, <2>4
<1>4. Counters' /\ Owed'
  BY <1>3, ChainsCounted
<1>5. Flags' /\ Places' /\ Passes
  BY <1>1, FlagsKept, PlacesKept
<1>6. TrafficTypeOK'
  BY <1>1, <1>5, TrafficKept
<1>7. RabbitTypeOK'
  BY <1>4, <1>5 DEF RabbitTypeOK, Counters, Flags, Places
<1>8. StreamTypeOK' /\ LeasedTypeOK' /\ handlersOf' \in Seq(Endpoints)
  BY DEF TypesInv, TransportsTypeOK, StreamTypeOK, LeasedTypeOK, streamVars, processVars,
         keyVars, workVars, leasedVars, Range
<1>9. TriesLeft'
  BY <1>5, SentStays DEF TypesInv, TriesLeft, leasedVars
<1>10. ReconnectsDoNotMultiply'
  <2>1. /\ chains' \in Nat /\ waiters' \in Nat /\ faults' \in Nat
        /\ chains' + waiters' <= faults' + faults'
        /\ attempting' = "reconnect" => chains' + waiters' + 1 <= faults' + faults'
    BY <1>4 DEF Owed, Counters
  <2>2. CASE attempting' = "reconnect"
    <3>1. chains' + waiters' + 1 <= 2 * faults'
      BY <2>1, <2>2, TwoWays
    <3> QED
      BY <2>2, <3>1 DEF ReconnectsDoNotMultiply
  <2>3. CASE attempting' # "reconnect"
    <3>1. chains' + waiters' + 0 <= 2 * faults'
      BY <2>1, TwoWays
    <3> QED
      BY <2>3, <3>1 DEF ReconnectsDoNotMultiply
  <2> QED
    BY <2>2, <2>3
<1> QED
  BY <1>1, <1>6, <1>7, <1>8, <1>9, <1>10 DEF TypesInv, TransportsTypeOK

(* What the variables of the transports with leases are, their stages apart. *)
LeasedShape ==
    /\ life \in {"down", "joining", "up", "stopping"}
    /\ handlersOf \in Seq(Endpoints)
    /\ consuming \subseteq Endpoints
    /\ remembered \subseteq Endpoints
    /\ committed \subseteq Partitions
    /\ tries \in [Messages -> 0 .. MaxDeliver]
    /\ calls \subseteq Calls

(* The endpoints with a handler are endpoints. *)
LEMMA RegisteredAre ==
    ASSUME handlersOf \in Seq(Endpoints)
    PROVE  Registered \subseteq Endpoints
BY DEF Registered, Range

(* A handler works on a message for an endpoint, and still does with another lease. *)
LEMMA CallsAre ==
    ASSUME calls \subseteq Calls, NEW r \in calls
    PROVE  /\ r.msg \in Messages /\ r.by \in Endpoints /\ r.lease \in {"held", "expired", "orphaned"}
           /\ \A lease \in {"held", "expired", "orphaned"} :
                 /\ [r EXCEPT !.lease = lease] \in Calls
                 /\ [r EXCEPT !.lease = lease].msg = r.msg
BY DEF Calls

(* When a message is settled the other handlers under way go on. *)
LEMMA SettledCalls ==
    ASSUME calls \subseteq Calls, NEW r \in calls, Settled(r)
    PROVE  calls' \subseteq Calls /\ \A x \in calls' : \E y \in calls : x.msg = y.msg
<1> DEFINE Left(x) == IF x.msg = r.msg /\ x.lease = "held" THEN [x EXCEPT !.lease = "expired"] ELSE x
<1>1. \A x \in calls : Left(x) \in Calls /\ Left(x).msg = x.msg
  BY CallsAre
<1>2. \A z \in calls' : \E x \in calls : z = Left(x)
  BY DEF Settled
<1> HIDE DEF Left
<1>3. \A z \in calls' : \E x \in calls : z \in Calls /\ z.msg = x.msg
  BY <1>1, <1>2
<1> QED
  BY <1>3

(* So do they all when the consumers are closed. *)
LEMMA OrphanedCalls ==
    ASSUME calls \subseteq Calls, Orphaned
    PROVE  calls' \subseteq Calls /\ \A x \in calls' : \E y \in calls : x.msg = y.msg
<1> DEFINE Left(x) == [x EXCEPT !.lease = "orphaned"]
<1>1. \A x \in calls : Left(x) \in Calls /\ Left(x).msg = x.msg
  BY CallsAre
<1>2. \A z \in calls' : \E x \in calls : z = Left(x)
  BY DEF Orphaned
<1> HIDE DEF Left
<1>3. \A z \in calls' : \E x \in calls : z \in Calls /\ z.msg = x.msg
  BY <1>1, <1>2
<1> QED
  BY <1>3

(* A message is delivered to the handler of an endpoint. *)
LEMMA BeginsACall ==
    ASSUME calls \subseteq Calls, NEW m \in Messages, NEW e \in Endpoints, Begins(m, e)
    PROVE  calls' \subseteq Calls /\ Passes
<1>1. [msg |-> m, by |-> e, lease |-> "held"] \in Calls
  BY DEF Calls
<1> QED
  BY <1>1 DEF Begins, Passes

(* And so do they when the session of a Kafka consumer is lost. *)
LEMMA ExpiredCalls ==
    ASSUME calls \subseteq Calls, Expired
    PROVE  calls' \subseteq Calls /\ \A x \in calls' : \E y \in calls : x.msg = y.msg
<1> DEFINE Left(x) == IF x.lease = "held" THEN [x EXCEPT !.lease = "expired"] ELSE x
<1>1. \A x \in calls : Left(x) \in Calls /\ Left(x).msg = x.msg
  BY CallsAre
<1>2. \A z \in calls' : \E x \in calls : z = Left(x)
  BY DEF Expired
<1> HIDE DEF Left
<1>3. \A z \in calls' : \E x \in calls : z \in Calls /\ z.msg = x.msg
  BY <1>1, <1>2
<1> QED
  BY <1>3

(* Whatever one of these transports, or its broker, does next. *)
LEMMA LeasedPlaces ==
    ASSUME LeasedShape, TriesLeft, TrafficTypeOK, transport \in LeasedTransportNames, LeasedNext
    PROVE  LeasedShape' /\ Passes
<1> USE DEF LeasedShape
<1>0. /\ Registered \subseteq Endpoints
      /\ \A m \in Messages : Address[m] \in Endpoints /\ Released(m) \in SUBSET Messages
  BY RegisteredAre, TrafficAssumption DEF Released
<1>1. CASE LeasedStart
  BY <1>0, <1>1 DEF LeasedStart, KafkaStart, NatsStart, SqsStart, AzureStart, PubSubStart,
                    Passes
<1>2. CASE LeasedStop \/ SqsLoopsEnd
  <2>1. {[r EXCEPT !.lease = "orphaned"] : r \in calls} \subseteq Calls
    BY CallsAre
  <2> QED
    BY <1>2, <2>1 DEF LeasedStop, SqsLoopsEnd, KafkaStop, NatsStop, SqsStop, AzureStop, PubSubStop,
                      Closes, Orphaned, Passes
<1>3. CASE LeasedCrash
  BY <1>3 DEF LeasedCrash, Passes
<1>4. ASSUME NEW e \in Endpoints, LeasedSubscribe(e)
      PROVE  LeasedShape' /\ Passes
  <2>1. handlersOf' = handlersOf \/ handlersOf' = Append(handlersOf, e)
    BY <1>4 DEF LeasedSubscribe, KafkaSubscribe, NatsSubscribe, SqsSubscribe, AzureSubscribe,
                PubSubSubscribe, KeptByBroker, Register
  <2>2. handlersOf' \in Seq(Endpoints)
    BY <2>1
  <2>3. consuming' \in {consuming, consuming \cup {e}} /\ remembered' \in {remembered, remembered \cup {e}}
    BY <1>4 DEF LeasedSubscribe, KafkaSubscribe, NatsSubscribe, SqsSubscribe, AzureSubscribe,
                PubSubSubscribe, KeptByBroker
  <2>4. UNCHANGED <<life, committed, tries, calls, trafficVars>>
    BY <1>4 DEF LeasedSubscribe
  <2> QED
    BY <2>2, <2>3, <2>4 DEF Passes
<1>5. ASSUME NEW m \in Messages, LeasedPublish(m)
      PROVE  LeasedShape' /\ Passes
  <2>1. Accept(m) /\ dropped' \in {dropped, dropped \cup {m}}
    BY <1>5 DEF LeasedPublish, KafkaPublish, NatsPublish, SqsPublish, AzurePublish, PubSubPublish,
                Sends
  <2> QED
    BY <1>5, <2>1 DEF LeasedPublish, Passes
<1>6. ASSUME NEW m \in Messages, ComesDue(m)
      PROVE  LeasedShape' /\ Passes
  BY <1>6 DEF ComesDue, Passes
<1>7. ASSUME NEW m \in Messages, LeasedDelivers(m)
      PROVE  LeasedShape' /\ Passes
  <2>1. PICK e \in Endpoints : Begins(m, e)
    <3>1. CASE SqsDelivers(m)
      <4>1. handlersOf # <<>> 
        BY <3>1 DEF SqsDelivers, Registered, Range
      <4>2. handlersOf[1] \in Endpoints
        BY <4>1
      <4> QED
        BY <1>0, <3>1, <4>2 DEF SqsDelivers, HandlerFor
    <3> QED
      BY <1>0, <1>7, <3>1 DEF LeasedDelivers, KafkaDelivers, NatsDelivers, AzureDelivers, PubSubDelivers
  <2>2. tries' \in [Messages -> 0 .. MaxDeliver]
    <3>1. CASE NatsDelivers(m)
      <4>1. tries[m] \in 0 .. MaxDeliver /\ tries[m] < MaxDeliver
        BY <1>7, <3>1 DEF LeasedDelivers, NatsDelivers, TriesLeft
      <4>2. tries[m] + 1 \in 0 .. MaxDeliver
        BY <4>1, LeasesAssumption
      <4> QED
        BY <3>1, <4>2 DEF NatsDelivers
    <3> QED
      BY <1>7, <3>1 DEF LeasedDelivers, KafkaDelivers, SqsDelivers, AzureDelivers, PubSubDelivers
  <2>3. UNCHANGED <<life, handlersOf, consuming, remembered, committed>>
    BY <1>7 DEF LeasedDelivers
  <2> QED
    BY <2>1, <2>2, <2>3, BeginsACall
<1>8. ASSUME NEW m \in Messages, SqsDeletes(m)
      PROVE  LeasedShape' /\ Passes
  BY <1>8 DEF SqsDeletes, Passes
<1>9. ASSUME NEW r \in calls, LeasedHandlerOk(r)
      PROVE  LeasedShape' /\ Passes
  <2>1. r.msg \in Messages /\ r.by \in Endpoints
    BY CallsAre
  <2>2. calls' \subseteq Calls
    <3>1. CASE Settled(r)
      BY <3>1, SettledCalls
    <3>2. CASE calls' = calls \ {r}
      BY <3>2
    <3> QED
      BY <1>9, <3>1, <3>2 DEF LeasedHandlerOk
  <2>3. committed' \subseteq Partitions
    BY <1>9, <2>1, LeasesAssumption DEF LeasedHandlerOk, Settled, KafkaCommits
  <2>4. Passes
    BY <1>9, <2>1 DEF LeasedHandlerOk, Passes
  <2> QED
    BY <1>9, <2>2, <2>3, <2>4 DEF LeasedHandlerOk
<1>10. ASSUME NEW r \in calls, LeasedHandlerThrows(r) \/ KafkaHandlerThrows(r)
       PROVE  LeasedShape' /\ Passes
  <2>1. Released(r.msg) \in SUBSET Messages
    BY <1>0, CallsAre
  <2>2. CASE LeasedHandlerThrows(r)
    BY <2>1, <2>2 DEF LeasedHandlerThrows, Passes
  <2>3. CASE KafkaHandlerThrows(r)
    BY <2>3 DEF KafkaHandlerThrows, Passes
  <2> QED
    BY <1>10, <2>2, <2>3
<1>11. ASSUME NEW m \in Messages, LeaseRunsOut(m)
       PROVE  LeasedShape' /\ Passes
  BY <1>0, <1>11 DEF LeaseRunsOut, Passes
<1>12. ASSUME NEW r \in calls, LeaseRunsOutEarly(r)
       PROVE  LeasedShape' /\ Passes
  <2>1. Released(r.msg) \in SUBSET Messages /\ [r EXCEPT !.lease = "expired"] \in Calls
    BY <1>0, CallsAre
  <2> QED
    BY <1>12, <2>1 DEF LeaseRunsOutEarly, Passes
<1>13. CASE KafkaJoins
  <2>1. KafkaSkips \in SUBSET Messages
    BY DEF KafkaSkips, At
  <2> QED
    BY <1>13, <2>1 DEF KafkaJoins, Passes
<1>14. CASE KafkaLosesSession
  BY <1>14, ExpiredCalls DEF KafkaLosesSession, Passes
<1> QED
  BY <1>1, <1>2, <1>3, <1>4, <1>5, <1>6, <1>7, <1>8, <1>9, <1>10, <1>11, <1>12, <1>13, <1>14
     DEF LeasedNext, LeasedCarries

(* A message that is handed back has a delivery left. *)
LEMMA ReturnedHasTriesLeft ==
    ASSUME Shapes, tries \in [Messages -> 0 .. MaxDeliver], NEW m \in Messages, Returned(m)
    PROVE  /\ \A n \in Messages : n # m => stage'[n] = stage[n]
           /\ transport = "nats" /\ stage'[m] \in {"scheduled", "ready"} => tries[m] < MaxDeliver
<1>1. \A n \in Messages : n # m => stage'[n] = stage[n]
  BY DEF Returned, Moved, Shapes
<1>2. ASSUME transport = "nats", stage'[m] \in {"scheduled", "ready"}
      PROVE  tries[m] < MaxDeliver
  <2>1. tries[m] # MaxDeliver
    BY <1>2 DEF Returned, Released, Moved, Shapes
  <2> QED
    BY <2>1, LeasesAssumption
<1> QED
  BY <1>1, <1>2

(* So a message is never handed out more often than is allowed. *)
LEMMA TriesKept ==
    ASSUME TriesLeft, Shapes, LeasedShape, Passes, LeasedNext, UNCHANGED transport
    PROVE  TriesLeft'
<1>0. /\ sent \subseteq sent'
      /\ \A r \in calls : r.msg \in Messages /\ r.msg \in sent
      /\ \A m \in Messages : stage[m] # "unsent" \/ tries[m] # 0 => m \in sent
      /\ transport = "nats" =>
            \A m \in Messages : stage[m] \in {"scheduled", "ready"} => tries[m] < MaxDeliver
  BY SentStays, CallsAre DEF LeasedShape, TriesLeft
<1>1. ASSUME UNCHANGED tries,
             \A r \in calls' : \E x \in calls : r.msg = x.msg,
             \A m \in Messages : \/ stage'[m] = stage[m]
                                 \/ m \in sent /\ stage'[m] \in {"leased", "gone"}
                                 \/ m \in sent /\ (transport = "nats" => tries[m] < MaxDeliver)
      PROVE  TriesLeft'
  BY <1>0, <1>1 DEF TriesLeft
<1>2. CASE LeasedStart
  BY <1>1, <1>2 DEF LeasedStart
<1>3. CASE LeasedStop \/ SqsLoopsEnd
  <2>1. UNCHANGED <<stage, tries>>
    BY <1>3 DEF LeasedStop, SqsLoopsEnd
  <2>2. \A r \in calls' : \E x \in calls : r.msg = x.msg
    <3>1. calls' = calls \/ Orphaned
      BY <1>3 DEF LeasedStop, SqsLoopsEnd, KafkaStop, NatsStop, SqsStop, AzureStop, PubSubStop,
                  Closes
    <3> QED
      BY <3>1, OrphanedCalls DEF LeasedShape
  <2> QED
    BY <1>1, <2>1, <2>2
<1>4. CASE LeasedCrash
  BY <1>1, <1>4 DEF LeasedCrash
<1>5. ASSUME NEW e \in Endpoints, LeasedSubscribe(e)
      PROVE  TriesLeft'
  BY <1>1, <1>5 DEF LeasedSubscribe
<1>6. ASSUME NEW m \in Messages, LeasedPublish(m)
      PROVE  TriesLeft'
  <2>1. m \notin sent /\ sent' = sent \cup {m} /\ UNCHANGED <<tries, calls>>
    BY <1>6 DEF LeasedPublish, Accept
  <2>2. \A n \in Messages : n # m => stage'[n] = stage[n]
    BY <1>6, MovedFacts DEF LeasedPublish, KafkaPublish, NatsPublish, SqsPublish, AzurePublish,
                            PubSubPublish, Sends
  <2>3. tries[m] = 0
    BY <1>0, <2>1
  <2>4. tries[m] < MaxDeliver
    BY <2>3, LeasesAssumption
  <2> QED
    BY <1>0, <2>1, <2>2, <2>4 DEF TriesLeft
<1>7. ASSUME NEW m \in Messages, ComesDue(m)
      PROVE  TriesLeft'
  <2>1. stage[m] = "scheduled" /\ UNCHANGED <<tries, calls>>
    BY <1>7 DEF ComesDue
  <2>2. \A n \in Messages : n # m => stage'[n] = stage[n]
    BY <1>7, MovedFacts DEF ComesDue
  <2> QED
    BY <1>0, <1>1, <2>1, <2>2
<1>8. ASSUME NEW m \in Messages, LeasedDelivers(m)
      PROVE  TriesLeft'
  <2>1. m \in sent /\ sent' = sent
    BY <1>0, <1>8 DEF LeasedDelivers, KafkaDelivers, NatsDelivers, SqsDelivers, AzureDelivers,
                      PubSubDelivers, Begins, Receive
  <2>2. \A n \in Messages : stage'[n] = IF n = m THEN "leased" ELSE stage[n]
    BY <1>8, MovedFacts DEF LeasedDelivers
  <2>3. \A n \in Messages : n # m => tries'[n] = tries[n]
    BY <1>8 DEF LeasedDelivers, KafkaDelivers, NatsDelivers, SqsDelivers, AzureDelivers,
                PubSubDelivers, LeasedShape
  <2>4. \A r \in calls' : r.msg = m \/ r \in calls
    BY <1>8 DEF LeasedDelivers, KafkaDelivers, NatsDelivers, SqsDelivers, AzureDelivers,
                PubSubDelivers, Begins
  <2> QED
    BY <1>0, <2>1, <2>2, <2>3, <2>4 DEF TriesLeft
<1>9. ASSUME NEW m \in Messages, SqsDeletes(m)
      PROVE  TriesLeft'
  <2>1. stage[m] = "ready" /\ UNCHANGED <<tries, calls>>
    BY <1>9 DEF SqsDeletes
  <2>2. \A n \in Messages : stage'[n] = IF n = m THEN "gone" ELSE stage[n]
    BY <1>9, MovedFacts DEF SqsDeletes
  <2> QED
    BY <1>0, <1>1, <2>1, <2>2
<1>10. ASSUME NEW r \in calls, LeasedHandlerOk(r)
       PROVE  TriesLeft'
  <2>1. \A n \in Messages : \/ stage'[n] = stage[n]
                            \/ n = r.msg /\ stage'[n] = "gone"
    BY <1>10 DEF LeasedHandlerOk, Settled, Moved
  <2>2. \A x \in calls' : \E y \in calls : x.msg = y.msg
    <3>1. CASE Settled(r)
      BY <3>1, SettledCalls DEF LeasedShape
    <3>2. CASE calls' = calls \ {r}
      BY <3>2
    <3> QED
      BY <1>10, <3>1, <3>2 DEF LeasedHandlerOk
  <2>3. UNCHANGED tries
    BY <1>10 DEF LeasedHandlerOk
  <2> QED
    BY <1>0, <1>1, <2>1, <2>2, <2>3
<1>11. ASSUME NEW r \in calls,
              LeasedHandlerThrows(r) \/ KafkaHandlerThrows(r) \/ LeaseRunsOutEarly(r)
       PROVE  TriesLeft'
  <2>1. r.msg \in Messages /\ r.msg \in sent
    BY <1>0
  <2>2. \/ UNCHANGED stage
        \/ Returned(r.msg)
    BY <1>11 DEF LeasedHandlerThrows, KafkaHandlerThrows, LeaseRunsOutEarly, Returned, Released
  <2>3. UNCHANGED tries
    BY <1>11 DEF LeasedHandlerThrows, KafkaHandlerThrows, LeaseRunsOutEarly
  <2>4. \A x \in calls' : \E y \in calls : x.msg = y.msg
    BY <1>11, CallsAre DEF LeasedHandlerThrows, KafkaHandlerThrows, LeaseRunsOutEarly, LeasedShape
  <2>5. \A m \in Messages : \/ stage'[m] = stage[m]
                            \/ m \in sent /\ stage'[m] \in {"leased", "gone"}
                            \/ m \in sent /\ (transport = "nats" => tries[m] < MaxDeliver)
    <3>1. CASE UNCHANGED stage
      BY <3>1
    <3>2. CASE Returned(r.msg)
      <4>1. stage'[r.msg] \in {"ready", "gone"}
        BY <2>1, <3>2 DEF Returned, Moved
      <4> QED
        BY <2>1, <3>2, <4>1, ReturnedHasTriesLeft DEF LeasedShape
    <3> QED
      BY <2>2, <3>1, <3>2
  <2> QED
    BY <1>1, <2>3, <2>4, <2>5
<1>12. ASSUME NEW m \in Messages, LeaseRunsOut(m)
       PROVE  TriesLeft'
  <2>1. m \in sent /\ UNCHANGED <<tries, calls>> /\ Returned(m)
    BY <1>0, <1>12 DEF LeaseRunsOut
  <2>2. stage'[m] \in {"ready", "gone"}
    BY <2>1 DEF Returned, Moved
  <2> QED
    BY <1>1, <2>1, <2>2, ReturnedHasTriesLeft DEF LeasedShape
<1>13. CASE KafkaJoins
  <2>1. \A m \in KafkaSkips : m \in sent
    BY <1>0 DEF KafkaSkips, At
  <2>2. Moved(KafkaSkips, "gone") /\ UNCHANGED <<tries, calls>>
    BY <1>13 DEF KafkaJoins
  <2>3. \A m \in Messages : \/ stage'[m] = stage[m]
                            \/ m \in sent /\ stage'[m] = "gone"
    BY <2>1, <2>2 DEF Moved
  <2> QED
    BY <1>1, <2>2, <2>3
<1>14. CASE KafkaLosesSession
  <2>1. UNCHANGED <<stage, tries>> /\ Expired
    BY <1>14 DEF KafkaLosesSession
  <2> QED
    BY <1>1, <2>1, ExpiredCalls DEF LeasedShape
<1> QED
  BY <1>2, <1>3, <1>4, <1>5, <1>6, <1>7, <1>8, <1>9, <1>10, <1>11, <1>12, <1>13, <1>14
     DEF LeasedNext, LeasedCarries

(* A transport with leases. *)
LEMMA LeasedTypes ==
    ASSUME TypesInv, Shapes, Shapes', transport \in LeasedTransportNames, LeasedNext,
           UNCHANGED <<transport, streamVars, rabbitVars>>
    PROVE  TypesInv'
<1>1. TrafficTypeOK /\ transport \in TransportNames /\ LeasedShape /\ TriesLeft
  BY DEF TypesInv, TransportsTypeOK, LeasedTypeOK, LeasedShape
<1>2. LeasedShape' /\ Passes
  BY <1>1, LeasedPlaces
<1>3. TrafficTypeOK'
  BY <1>1, <1>2, TrafficKept
<1>4. TriesLeft'
  BY <1>1, <1>2, TriesKept
<1>5. LeasedTypeOK' /\ handlersOf' \in Seq(Endpoints)
  <2>1. handlersOf' \in Seq(Endpoints)
    BY <1>2 DEF LeasedShape
  <2>2. Range(handlersOf') \subseteq Endpoints
    BY <2>1 DEF Range
  <2>3. stage' \in [Messages -> {"unsent", "scheduled", "ready", "leased", "gone"}]
    BY DEF Shapes
  <2> QED
    BY <1>2, <2>1, <2>2, <2>3 DEF LeasedShape, LeasedTypeOK
<1>6. StreamTypeOK'
  BY DEF TypesInv, TransportsTypeOK, StreamTypeOK, streamVars, processVars, keyVars, workVars
<1>7. RabbitTypeOK'
  BY DEF TypesInv, TransportsTypeOK, RabbitTypeOK, rabbitVars, managerVars, queueVars
<1>8. ReconnectsDoNotMultiply'
  BY DEF ReconnectsDoNotMultiply, LeasedTransportNames
<1> QED
  BY <1>1, <1>3, <1>4, <1>5, <1>6, <1>7, <1>8 DEF TypesInv, TransportsTypeOK

(* Every step of every transport keeps the types; so does time. *)
LEMMA TypesCarried == TransportsInv /\ TransportsInv' /\ TypesInv /\ [Next]_vars => TypesInv'
<1> SUFFICES ASSUME TransportsInv, TransportsInv', TypesInv, [Next]_vars
             PROVE  TypesInv'
  OBVIOUS
<1>1. Shapes /\ Shapes'
  BY DEF TransportsInv
<1>2. ASSUME UNCHANGED <<transport, streamVars, rabbitVars, leasedVars>>,
             TrafficTypeOK', sent \subseteq sent', faults' = faults
      PROVE  TypesInv'
  <2>1. StreamTypeOK' /\ RabbitTypeOK' /\ LeasedTypeOK' /\ handlersOf' \in Seq(Endpoints)
    BY <1>2 DEF TypesInv, TransportsTypeOK, StreamTypeOK, streamVars, processVars, keyVars,
                workVars, RabbitTypeOK, rabbitVars, managerVars, queueVars, LeasedTypeOK,
                leasedVars, Range
  <2>2. TriesLeft'
    BY <1>2 DEF TypesInv, TriesLeft, leasedVars
  <2>3. ReconnectsDoNotMultiply'
    BY <1>2 DEF TypesInv, ReconnectsDoNotMultiply, rabbitVars, managerVars
  <2> QED
    BY <1>2, <2>1, <2>2, <2>3 DEF TypesInv, TransportsTypeOK
<1>3. CASE UNCHANGED vars
  BY <1>2, <1>3 DEF vars, TypesInv, TransportsTypeOK, TrafficTypeOK, trafficVars
<1>4. CASE ElapseAny /\ UNCHANGED transport
  <2>1. Passes
    BY <1>4 DEF ElapseAny, Passes
  <2>2. TrafficTypeOK'
    BY <1>4, <2>1, TrafficKept DEF TypesInv, TransportsTypeOK
  <2>3. sent' = sent /\ faults' = faults
    BY <1>4 DEF ElapseAny, Elapse
  <2> QED
    BY <1>2, <1>4, <2>2, <2>3 DEF ElapseAny
<1> QED
  BY <1>1, <1>3, <1>4, RedisTypes, RabbitTypes, LeasedTypes DEF Next

(* The variables keep their types, whatever the bounds are; what was counted above
   keeps counting. *)
THEOREM TypesInvariant == Spec => []TypesInv
BY InitCarried, NextCarried, InitTypes, TypesCarried, PTL DEF Spec

(* The variables of the transports keep their types. *)
THEOREM TransportsTypes == Spec => []TransportsTypeOK
<1>1. TypesInv => TransportsTypeOK
  BY DEF TypesInv
<1> QED
  BY <1>1, TypesInvariant, PTL

(* Reconnecting does not multiply: a connection of RabbitMQ that is lost f times leaves
   no more than 2 * f calls of reconnect at work, for any number of attempts. *)
THEOREM ReconnectsCounted == Spec => []ReconnectsDoNotMultiply
<1>1. TypesInv => ReconnectsDoNotMultiply
  BY DEF TypesInv
<1> QED
  BY <1>1, TypesInvariant, PTL


=============================================================================
