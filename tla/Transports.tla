----------------------------- MODULE Transports -----------------------------
(***************************************************************************)
(* The broker transports under the same traffic: the transport is chosen   *)
(* in the initial state.  What the bus relies on is stated once, with the  *)
(* transports that give it.                                                *)
(***************************************************************************)
EXTENDS RedisTransport, RabbitMqTransport, LeasedTransports

vars == <<transport, trafficVars, streamVars, rabbitVars, leasedVars>>

Init ==
    /\ transport \in LeasedTransportNames \cup {"redis", "rabbitmq"}
    /\ TrafficInit
    /\ StreamInit
    /\ RabbitInit
    /\ LeasedInit

ElapseAny ==
    /\ \E m \in Messages : Elapse(m)
    /\ UNCHANGED <<streamVars, rabbitVars, leasedVars>>

Next ==
    /\ UNCHANGED transport
    /\ \/ transport = "redis" /\ RedisNext /\ UNCHANGED <<rabbitVars, leasedVars>>
       \/ transport = "rabbitmq" /\ RabbitNext /\ UNCHANGED <<streamVars, leasedVars>>
       \/ transport \in LeasedTransportNames /\ LeasedNext /\ UNCHANGED <<streamVars, rabbitVars>>
       \/ ElapseAny

(* Time passes, timers tick, brokers deliver and handlers come to an end; nobody
   has to start, subscribe, publish or stop, and nothing has to go wrong. *)
Fairness ==
    /\ WF_trafficVars(ElapseAny)
    /\ \A p \in Processes : WF_<<trafficVars, streamVars>>(transport = "redis" /\ RedisWork(p))
    /\ WF_<<trafficVars, rabbitVars>>(transport = "rabbitmq" /\ RabbitManages)
    /\ WF_<<trafficVars, rabbitVars>>(transport = "rabbitmq" /\ RabbitCarries)
    /\ WF_<<trafficVars, leasedVars>>(
          transport \in LeasedTransportNames /\ \E m \in Messages : LeasedCarries(m))
    /\ WF_<<trafficVars, leasedVars>>(KafkaJoins)

Spec == Init /\ [][Next]_vars /\ Fairness

-----------------------------------------------------------------------------

(* The variables keep their types. *)
TransportsTypeOK ==
    /\ TrafficTypeOK
    /\ StreamTypeOK
    /\ RabbitTypeOK
    /\ LeasedTypeOK

(* Where the broker, or the adapter on its way to it, has a message. *)
Holds(m) ==
    CASE transport = "redis" -> RedisHolds(m)
      [] transport = "rabbitmq" -> RabbitHolds(m)
      [] OTHER -> LeasedHolds(m)

(* What a transport may give up: Redis and Azure nothing, NATS a message delivered too
   often, Kafka what a consumer joins behind, Pub/Sub one sent before there is a
   subscription, SQS one without a handler of its own, RabbitMQ one that is unroutable,
   rejected, or in the write buffer of a connection or channel that ends. *)
MayGiveUp(m) ==
    CASE transport \in {"redis", "azure"} -> FALSE
      [] transport = "nats" -> tries[m] = MaxDeliver
      [] OTHER -> m \in dropped

(* At least once: whatever throws, crashes, stops, disconnects or expires in
   whatever order, a message whose publish has returned is still with the
   broker until a handler of its endpoint has dealt with it, or until the transport
   gives it up for one of its reasons. *)
NothingLost ==
    \A m \in sent : m \in handled \/ Holds(m) \/ MayGiveUp(m)

(* Kafka: where one message of a partition is settled, no start, crash, lost session or
   throwing handler makes a consumer pass over another: it joins behind what is there
   only in partitions nothing was ever settled in. *)
CommittedIsKept ==
    [][transport = "kafka" =>
          \A m \in dropped' \ dropped, n \in Messages :
              Partition[n] = Partition[m] => stage[n] # "gone" \/ n \in dropped]_vars

(* A message published with a delay is not received before the delay is over,
   by the transports that do not ignore it (Kafka, RabbitMQ) or cut it short
   (SQS). *)
NeverEarly ==
    transport \notin {"kafka", "rabbitmq", "sqs"} =>
        \A m \in Delayed, e \in Endpoints : <<m, e>> \in received => m \in elapsed

(* RabbitMQ: reconnecting does not multiply.  A lost connection begins two chains of
   reconnect calls at most, one for each of its events, and whatever interleaves after
   that, attempts that fail or break, calls of connect that wait for another, stops and
   starts, there are never more of them at work than were begun. *)
ReconnectsDoNotMultiply ==
    transport = "rabbitmq" =>
        chains + waiters + (IF attempting = "reconnect" THEN 1 ELSE 0) <= 2 * faults

(* Someone consumes the endpoint. *)
Covered(e) ==
    CASE transport = "redis" -> RedisReads(e)
      [] transport = "rabbitmq" -> e \in consumers
      [] OTHER -> e \in consuming

(* What is published is handled or given up, unless its endpoint is left uncovered:
   entries a crashed process left pending are claimed, leases run out, delayed messages
   come due, and a Kafka consumer joins its group again.  Uncovered are the endpoints
   of a transport that is down, those of a RabbitMQ transport that has reconnected or
   lost its channel, and those a Redis read loop has begun without. *)
CoveredIsHandled ==
    \A m \in Messages :
        m \in sent ~> m \in handled \cup dropped \/ ~ Covered(Address[m])

OutOfAttempts ==
    reconnectAttempt = MaxAttempts /\ chains = 0 /\ attempting # "reconnect"

=============================================================================
