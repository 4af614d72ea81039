-------------------------- MODULE TransportTraffic --------------------------
(***************************************************************************)
(* What the transports have in common: publish, subscribe, start and stop  *)
(* of the Transport interface seen from outside.  The modules              *)
(* RedisTransport, RabbitMqTransport and LeasedTransports say how each     *)
(* adapter and its broker carry a message from publish to a handler.       *)
(*                                                                         *)
(* A message stands for one envelope: its endpoint and whether it is       *)
(* published with delayMs are given by the constants.                      *)
(***************************************************************************)
EXTENDS Naturals, FiniteSets

CONSTANTS
    Endpoints,
    Messages,
    Address,       \* message -> the endpoint it is published to
    Delayed,       \* the messages published with a delayMs
    MaxFaults(_)   \* bound, for each transport: handlers that throw, crashes, leases
                   \* and connections lost, and stops of a Redis transport

TransportNames == {"redis", "rabbitmq", "kafka", "nats", "sqs", "azure", "pubsub"}

ASSUME TrafficAssumption ==
    /\ Address \in [Messages -> Endpoints]
    /\ Delayed \subseteq Messages
    /\ \A t \in TransportNames : MaxFaults(t) \in Nat

VARIABLES
    transport,     \* the adapter, chosen once and for all
    sent,          \* messages whose publish has returned
    elapsed,       \* delayed messages whose delay is over
    received,      \* <<message, endpoint whose handler was called with it>>
    handled,       \* messages a handler has dealt with
    dropped,       \* messages the adapter or the broker has given up
    faults

trafficVars == <<sent, elapsed, received, handled, dropped, faults>>

TrafficTypeOK ==
    /\ sent \subseteq Messages
    /\ elapsed \subseteq Delayed
    /\ received \subseteq Messages \X Endpoints
    /\ handled \subseteq Messages
    /\ dropped \subseteq Messages
    /\ faults \in 0 .. MaxFaults(transport)

TrafficInit ==
    /\ sent = {}
    /\ elapsed = {}
    /\ received = {}
    /\ handled = {}
    /\ dropped = {}
    /\ faults = 0

(* publish returns; a message that throws instead is left out of sent. *)
Accept(m) ==
    /\ m \notin sent
    /\ sent' = sent \cup {m}
    /\ UNCHANGED <<elapsed, received, handled, faults>>

(* The time a delayed message was to wait is over. *)
Elapse(m) ==
    /\ m \in (Delayed \cap sent) \ elapsed
    /\ elapsed' = elapsed \cup {m}
    /\ UNCHANGED <<sent, received, handled, dropped, faults>>

Receive(m, e) ==
    /\ received' = received \cup {<<m, e>>}
    /\ UNCHANGED <<sent, elapsed, handled, dropped, faults>>

Handle(m) ==
    /\ handled' = handled \cup {m}
    /\ UNCHANGED <<sent, elapsed, received, dropped, faults>>

(* Something goes wrong that the adapter has to cope with, and these messages
   are lost with it. *)
Fault(lost) ==
    /\ faults < MaxFaults(transport)
    /\ faults' = faults + 1
    /\ dropped' = dropped \cup lost
    /\ UNCHANGED <<sent, elapsed, received, handled>>

Drop(lost) ==
    /\ dropped' = dropped \cup lost
    /\ UNCHANGED <<sent, elapsed, received, handled, faults>>

=============================================================================
