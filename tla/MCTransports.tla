---------------------------- MODULE MCTransports ----------------------------
(* A small instance of Transports: a message sent at once and one with a delay, each to an
   endpoint of its own, and for Kafka another one to the partition of the second. *)
EXTENDS Transports, TLC

CONSTANTS orders, loans, now, later, again, p1, p2

MCEndpoints == {orders, loans}
MCMessages == {now, later, again}
MCAddress == [m \in MCMessages |-> IF m = now THEN orders ELSE loans]
MCPartition == [m \in MCMessages |-> IF m = now THEN 0 ELSE 1]
MCDelayed == {later}
MCProcesses == {p1, p2}
MCMaxFaults(t) == CASE t = "rabbitmq" -> 3 [] t \in {"nats", "kafka"} -> 2 [] OTHER -> 1

(* Bound: one message for RabbitMQ, which makes no difference between the two, and for
   SQS, where what happens to one does not depend on the other; two for all others. *)
FewMessages ==
    CASE transport = "rabbitmq" -> sent \subseteq {now}
      [] transport = "sqs" -> Cardinality(sent) <= 1 /\ again \notin sent
      [] transport = "kafka" -> Cardinality(sent) <= 2
      [] OTHER -> again \notin sent

(* Bound: Redis and RabbitMQ subscribe to orders first, and the second Redis process
   before it starts; the first does it in either order. *)
SubscribesFirst ==
    /\ transport = "redis" =>
          /\ up[p2] # "down" => subscribed[p2] # {}
          /\ loans \in subscribed[p1] => orders \in subscribed[p1]
    /\ loans \in handlers => orders \in handlers

MCServes == (p1 :> {orders, loans}) @@ (p2 :> {loans})
=============================================================================
