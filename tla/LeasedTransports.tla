-------------------------- MODULE LeasedTransports --------------------------
(***************************************************************************)
(* The transports whose broker hands a message out under a lease and takes *)
(* it back when it is not settled in time: NatsTransport, SqsTransport,    *)
(* AzureServiceBusTransport and GcpPubSubTransport; and KafkaTransport,    *)
(* whose lease is the session of its one consumer.  A consumer that has    *)
(* lost its session joins its group again and goes on from the committed   *)
(* offset of each partition.                                               *)
(*                                                                         *)
(* One process; a crash loses its subscriptions and handlers, and the      *)
(* broker notices only when the leases run out.                            *)
(***************************************************************************)
EXTENDS TransportTraffic, Sequences, Functions

CONSTANTS
    MaxDeliver,    \* NATS: deliveries of a message before it is given up
    Partitions,    \* Kafka: the partitions of all topics
    Partition      \* Kafka: message -> the partition it is sent to

ASSUME LeasesAssumption ==
    /\ MaxDeliver \in Nat \ {0}
    /\ Partition \in [Messages -> Partitions]
    /\ \A m, n \in Messages : Partition[m] = Partition[n] => Address[m] = Address[n]

VARIABLES
    life,          \* the transport: "down", "up", "stopping" (SQS only), or "joining":
                   \* a Kafka consumer that has not joined its group yet, or not again
    handlersOf,    \* endpoints with a registered handler, the first one first
    consuming,     \* endpoints whose consumer or receiver is running
    remembered,    \* NATS, Pub/Sub: endpoints the broker keeps a subscription for
    committed,     \* Kafka: partitions the group has committed an offset of
    stage,         \* message -> where the broker has it
    tries,         \* NATS: message -> times it was delivered
    calls          \* handlers under way

leasedVars == <<life, handlersOf, consuming, remembered, committed, stage, tries, calls>>

LeasedTransportNames == {"kafka", "nats", "sqs", "azure", "pubsub"}

(* A handler under way, with its lease: held, expired, or left behind by a
   consumer that has been stopped. *)
Calls == [msg : Messages, by : Endpoints, lease : {"held", "expired", "orphaned"}]

LeasedTypeOK ==
    /\ life \in {"down", "joining", "up", "stopping"}
    /\ Range(handlersOf) \subseteq Endpoints
    /\ consuming \subseteq Endpoints
    /\ remembered \subseteq Endpoints
    /\ committed \subseteq Partitions
    /\ stage \in [Messages -> {"unsent", "scheduled", "ready", "leased", "gone"}]
    /\ tries \in [Messages -> 0 .. MaxDeliver]
    /\ calls \subseteq Calls

LeasedInit ==
    /\ life = "down"
    /\ handlersOf = <<>>
    /\ consuming = {}
    /\ remembered = {}
    /\ committed = {}
    /\ stage = [m \in Messages |-> "unsent"]
    /\ tries = [m \in Messages |-> 0]
    /\ calls = {}

Registered == Range(handlersOf)

At(places) == {m \in Messages : stage[m] \in places}

Moved(ms, to) == stage' = [m \in Messages |-> IF m \in ms THEN to ELSE stage[m]]

Orphaned == calls' = {[r EXCEPT !.lease = "orphaned"] : r \in calls}

-----------------------------------------------------------------------------
(* start.  Kafka and Azure begin to consume what is subscribed by then, SQS polls
   its one queue whether or not there is a handler, NATS and Pub/Sub only
   connect. *)

(* start does not wait for the group: the consumer joins it in the background. *)
KafkaStart ==
    /\ transport = "kafka"
    /\ consuming' = Registered
    /\ life' = IF Registered = {} THEN "up" ELSE "joining"

NatsStart   == transport = "nats" /\ life' = "up" /\ UNCHANGED consuming
PubSubStart == transport = "pubsub" /\ life' = "up" /\ UNCHANGED consuming
SqsStart    == transport = "sqs" /\ life' = "up" /\ consuming' = Endpoints
AzureStart  == transport = "azure" /\ life' = "up" /\ consuming' = Registered

LeasedStart ==
    /\ life = "down"
    /\ KafkaStart \/ NatsStart \/ SqsStart \/ AzureStart \/ PubSubStart
    /\ UNCHANGED <<handlersOf, remembered, committed, stage, tries, calls, trafficVars>>

-----------------------------------------------------------------------------
(* A Kafka consumer and its group. *)

(* In a partition the group has committed nothing of, it begins behind what is
   there: fromBeginning is off unless asked for. *)
KafkaSkips ==
    {m \in At({"ready", "leased"}) :
        Address[m] \in consuming /\ Partition[m] \notin committed}

(* The consumer has one handler under way at a time, and joins between two. *)
Idle == \A r \in calls : r.lease = "orphaned"

KafkaJoins ==
    /\ transport = "kafka"
    /\ life = "joining"
    /\ Idle
    /\ life' = "up"
    /\ Moved(KafkaSkips, "gone")
    /\ Drop(KafkaSkips)
    /\ UNCHANGED <<handlersOf, consuming, remembered, committed, tries, calls>>

Expired == calls' = {IF r.lease = "held" THEN [r EXCEPT !.lease = "expired"] ELSE r : r \in calls}

(* The session is lost, under a handler or between two. *)
KafkaLosesSession ==
    /\ transport = "kafka"
    /\ life = "up"
    /\ consuming # {}
    /\ Fault({})
    /\ life' = "joining"
    /\ Expired
    /\ UNCHANGED <<handlersOf, consuming, remembered, committed, stage, tries>>

-----------------------------------------------------------------------------
(* stop closes the consumers and lets the handlers run on. *)

Closes == life' = "down" /\ consuming' = {} /\ Orphaned

KafkaStop  == transport = "kafka" /\ Closes
NatsStop   == transport = "nats" /\ Closes
AzureStop  == transport = "azure" /\ Closes
PubSubStop == transport = "pubsub" /\ Closes

(* The loops of SQS return from the receive they are in before they end. *)
SqsStop == transport = "sqs" /\ life' = "stopping" /\ UNCHANGED <<consuming, calls>>

LeasedStop ==
    /\ life \in {"joining", "up"}
    /\ KafkaStop \/ NatsStop \/ SqsStop \/ AzureStop \/ PubSubStop
    /\ UNCHANGED <<handlersOf, remembered, committed, stage, tries, trafficVars>>

(* A message that throws releases its loop from the other messages of its batch,
   so a loop may end while handlers it began still run. *)
SqsLoopsEnd ==
    /\ life = "stopping"
    /\ Closes
    /\ UNCHANGED <<handlersOf, remembered, committed, stage, tries, trafficVars>>

(* A crash: the broker notices it only when the leases run out. *)
LeasedCrash ==
    /\ life # "down"
    /\ Fault({})
    /\ life' = "down"
    /\ handlersOf' = <<>>
    /\ consuming' = {}
    /\ calls' = {}
    /\ UNCHANGED <<remembered, committed, stage, tries>>

-----------------------------------------------------------------------------
(* subscribe. *)

Register(e) == handlersOf' = IF e \in Registered THEN handlersOf ELSE Append(handlersOf, e)

(* Kafka and SQS register the handler and no more: a Kafka transport that runs
   already does not consume the topic. *)
KafkaSubscribe(e) ==
    /\ transport = "kafka"
    /\ Register(e)
    /\ UNCHANGED <<consuming, remembered>>

SqsSubscribe(e) ==
    /\ transport = "sqs"
    /\ Register(e)
    /\ UNCHANGED <<consuming, remembered>>

AzureSubscribe(e) ==
    /\ transport = "azure"
    /\ Register(e)
    /\ consuming' = IF life = "up" THEN consuming \cup {e} ELSE consuming
    /\ UNCHANGED remembered

(* NATS and Pub/Sub must be started, create the subscription at the broker, and
   register nothing that would outlive stop. *)
KeptByBroker(e) ==
    /\ life = "up"
    /\ consuming' = consuming \cup {e}
    /\ remembered' = remembered \cup {e}
    /\ UNCHANGED handlersOf

NatsSubscribe(e)   == transport = "nats" /\ KeptByBroker(e)
PubSubSubscribe(e) == transport = "pubsub" /\ KeptByBroker(e)

(* Bound: an endpoint is subscribed once while it is consumed. *)
LeasedSubscribe(e) ==
    /\ e \notin consuming \/ (transport = "sqs" /\ e \notin Registered)
    /\ \/ KafkaSubscribe(e) \/ NatsSubscribe(e) \/ SqsSubscribe(e)
       \/ AzureSubscribe(e) \/ PubSubSubscribe(e)
    /\ UNCHANGED <<life, committed, stage, tries, calls, trafficVars>>

-----------------------------------------------------------------------------
(* publish. *)

Sends(m, to) == Moved({m}, to) /\ UNCHANGED dropped

(* Kafka and SQS need no start; Kafka takes no notice of the delay. *)
KafkaPublish(m) == transport = "kafka" /\ Sends(m, "ready")

SqsPublish(m) ==
    /\ transport = "sqs"
    /\ Sends(m, IF m \in Delayed THEN "scheduled" ELSE "ready")

AzurePublish(m) ==
    /\ transport = "azure"
    /\ life = "up"
    /\ Sends(m, IF m \in Delayed THEN "scheduled" ELSE "ready")

(* Mutant: NATS takes a message with a delay as if it had none. *)
NatsPublishAnyDelay(m) ==
    /\ transport = "nats"
    /\ life = "up"
    /\ Sends(m, "ready")

(* NATS and Pub/Sub throw on a delay. *)
NatsPublish(m) ==
    /\ transport = "nats"
    /\ life = "up"
    /\ m \notin Delayed
    /\ Sends(m, "ready")

(* A Pub/Sub topic has no one to keep a message for until there is a
   subscription. *)
PubSubPublish(m) ==
    /\ transport = "pubsub"
    /\ life = "up"
    /\ m \notin Delayed
    /\ IF Address[m] \in remembered
       THEN Sends(m, "ready")
       ELSE Moved({m}, "gone") /\ dropped' = dropped \cup {m}

LeasedPublish(m) ==
    /\ Accept(m)
    /\ \/ KafkaPublish(m) \/ NatsPublish(m) \/ SqsPublish(m)
       \/ AzurePublish(m) \/ PubSubPublish(m)
    /\ UNCHANGED <<life, handlersOf, consuming, remembered, committed, tries, calls>>

(* SQS waits for whole seconds, and fifteen minutes at the most. *)
ComesDue(m) ==
    /\ stage[m] = "scheduled"
    /\ m \in elapsed \/ transport = "sqs"
    /\ Moved({m}, "ready")
    /\ UNCHANGED <<life, handlersOf, consuming, remembered, committed, tries, calls, trafficVars>>

-----------------------------------------------------------------------------
(* Delivery. *)

Begins(m, e) ==
    /\ calls' = calls \cup {[msg |-> m, by |-> e, lease |-> "held"]}
    /\ Receive(m, e)

KafkaDelivers(m) ==
    /\ transport = "kafka"
    /\ life = "up"
    /\ Idle
    /\ Begins(m, Address[m])
    /\ UNCHANGED tries

(* NATS begins a message of an endpoint when the one before it is done. *)
Free(e) == \A r \in calls : r.by = e => r.lease = "orphaned"

NatsDelivers(m) ==
    /\ transport = "nats"
    /\ Free(Address[m])
    /\ Begins(m, Address[m])
    /\ tries' = [tries EXCEPT ![m] = @ + 1]

(* An endpoint SQS has no handler for is served by the first one there is. *)
HandlerFor(m) == IF Address[m] \in Registered THEN Address[m] ELSE handlersOf[1]

SqsDelivers(m) ==
    /\ transport = "sqs"
    /\ Registered # {}
    /\ Begins(m, HandlerFor(m))
    /\ UNCHANGED tries

AzureDelivers(m)  == transport = "azure" /\ Begins(m, Address[m]) /\ UNCHANGED tries
PubSubDelivers(m) == transport = "pubsub" /\ Begins(m, Address[m]) /\ UNCHANGED tries

LeasedDelivers(m) ==
    /\ stage[m] = "ready"
    /\ Address[m] \in consuming
    /\ Moved({m}, "leased")
    /\ \/ KafkaDelivers(m) \/ NatsDelivers(m) \/ SqsDelivers(m)
       \/ AzureDelivers(m) \/ PubSubDelivers(m)
    /\ UNCHANGED <<life, handlersOf, consuming, remembered, committed>>

(* With no handler at all SQS deletes the message it received. *)
SqsDeletes(m) ==
    /\ transport = "sqs"
    /\ stage[m] = "ready"
    /\ Address[m] \in consuming
    /\ Registered = {}
    /\ Moved({m}, "gone")
    /\ Drop({m})
    /\ UNCHANGED <<life, handlersOf, consuming, remembered, committed, tries, calls>>

-----------------------------------------------------------------------------
(* The end of a delivery. *)

(* Mutant: the consumer is left to commit by itself, with autoCommit off. *)
KafkaCommitsNothing(m) ==
    committed' = committed

KafkaCommits(m) ==
    committed' = IF transport = "kafka" THEN committed \cup {Partition[m]} ELSE committed

(* The message is settled, whoever else works on it; a Kafka consumer without its
   session commits nothing. *)
Settled(r) ==
    /\ transport = "kafka" => r.lease # "expired"
    /\ Moved({r.msg}, "gone")
    /\ calls' = {IF x.msg = r.msg /\ x.lease = "held" THEN [x EXCEPT !.lease = "expired"] ELSE x :
                    x \in calls \ {r}}
    /\ KafkaCommits(r.msg)

(* The handler returns and the message is settled.  Over a link that is closed
   or with a lease that has run out, that may come to nothing. *)
LeasedHandlerOk(r) ==
    /\ r \in calls
    /\ \/ /\ Settled(r)
          /\ IF r.by = Address[r.msg] THEN Handle(r.msg) ELSE Drop({r.msg})
       \/ /\ r.lease # "held"
          /\ calls' = calls \ {r}
          /\ IF r.by = Address[r.msg] THEN Handle(r.msg) ELSE UNCHANGED trafficVars
          /\ UNCHANGED <<stage, committed>>
    /\ UNCHANGED <<life, handlersOf, consuming, remembered, tries>>

(* A lease comes to its end, and the message with it when NATS has delivered it
   often enough. *)
Released(m) ==
    IF transport = "nats" /\ tries[m] = MaxDeliver THEN {m} ELSE {}

Returned(m) == Moved({m}, IF Released(m) = {} THEN "ready" ELSE "gone")

(* The handler throws: the message is handed back (Azure by abandon, NATS and
   Pub/Sub by nak), except by SQS, which waits for the lease to run out. *)
LeasedHandlerThrows(r) ==
    /\ transport # "kafka"
    /\ r \in calls
    /\ IF r.lease = "held" /\ transport # "sqs"
       THEN Fault(Released(r.msg)) /\ Returned(r.msg)
       ELSE Fault({}) /\ UNCHANGED stage
    /\ calls' = calls \ {r}
    /\ UNCHANGED <<life, handlersOf, consuming, remembered, committed, tries>>

(* Kafka: nothing is committed.  The consumer calls the handler again while it has
   retries, and then gives up its session and joins again. *)
KafkaHandlerThrows(r) ==
    /\ transport = "kafka"
    /\ r \in calls
    /\ Fault({})
    /\ IF r.lease = "held" THEN Moved({r.msg}, "ready") ELSE UNCHANGED stage
    /\ life' \in IF r.lease = "held" THEN {"up", "joining"} ELSE {life}
    /\ calls' = calls \ {r}
    /\ UNCHANGED <<handlersOf, consuming, remembered, committed, tries>>

(* The lease of a message no handler is at any more runs out. *)
LeaseRunsOut(m) ==
    /\ stage[m] = "leased"
    /\ \A r \in calls : r.msg = m => r.lease # "held"
    /\ Returned(m)
    /\ Drop(Released(m))
    /\ UNCHANGED <<life, handlersOf, consuming, remembered, committed, tries, calls>>

(* The lease runs out under a handler that takes its time. *)
LeaseRunsOutEarly(r) ==
    /\ transport # "kafka"
    /\ r \in calls
    /\ r.lease = "held"
    /\ Fault(Released(r.msg))
    /\ Returned(r.msg)
    /\ calls' = (calls \ {r}) \cup {[r EXCEPT !.lease = "expired"]}
    /\ UNCHANGED <<life, handlersOf, consuming, remembered, committed, tries>>

-----------------------------------------------------------------------------

LeasedCarries(m) ==
    \/ ComesDue(m) \/ LeasedDelivers(m) \/ SqsDeletes(m) \/ LeaseRunsOut(m)
    \/ \E r \in calls : r.msg = m /\ LeasedHandlerOk(r)

LeasedNext ==
    \/ LeasedStart \/ LeasedStop \/ SqsLoopsEnd \/ LeasedCrash
    \/ KafkaJoins \/ KafkaLosesSession
    \/ \E e \in Endpoints : LeasedSubscribe(e)
    \/ \E m \in Messages :
          \/ LeasedPublish(m)
          \/ LeasedCarries(m)
    \/ \E r \in calls :
          LeasedHandlerThrows(r) \/ KafkaHandlerThrows(r) \/ LeaseRunsOutEarly(r)

LeasedHolds(m) == stage[m] \in {"scheduled", "ready", "leased"}
=============================================================================
