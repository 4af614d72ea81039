------------------------- MODULE RabbitMqTransport -------------------------
(***************************************************************************)
(* RabbitMqTransport over its ConnectionManager: one connection with one   *)
(* channel, re-established in the background when it is lost.              *)
(*                                                                         *)
(* A lost connection comes as an error event followed by a close event, or *)
(* as a close event alone; each of them begins a chain of reconnect        *)
(* attempts.  The broker puts what was delivered and not acknowledged back *)
(* into the queue and forgets the consumers.  A channel the broker closes  *)
(* stays with the manager, which only logs the event.  A connection        *)
(* abandoned by an attempt that failed half way is not followed.           *)
(***************************************************************************)
EXTENDS TransportTraffic

CONSTANTS
    MaxAttempts    \* the option reconnect.maxAttempts

ASSUME ReconnectAssumption == MaxAttempts \in Nat

VARIABLES
    transportUp,   \* RabbitMqTransport.started
    connection,    \* ConnectionManager.connection is set
    channel,       \* ConnectionManager.channel: "null", "open" or "closed"
    attempting,    \* who runs connect: "nobody", "start" or "reconnect"
    phase,         \* what it awaits: "none", "connect", "channel", "exchange"
    isClosed,
    reconnectAttempt,
    chains,        \* reconnect calls in their delay
    waiters,       \* connect calls that wait for the one under way
    hook,          \* the transport's callback is among onConnectedCallbacks
    queues,        \* endpoints with a queue bound to the exchange
    consumers,     \* endpoints consumed over the present channel
    handlers,      \* endpoints in subscriptions and handlers
    unsent,        \* messages in the channel's write buffer
    ready,         \* messages in their queue
    deliveries     \* messages at a handler, and whether their channel still stands

managerVars ==
    <<connection, channel, attempting, phase, isClosed, reconnectAttempt,
      chains, waiters, hook>>
queueVars == <<queues, unsent, ready>>
rabbitVars == <<transportUp, managerVars, queueVars, consumers, handlers, deliveries>>

Deliveries == [msg : Messages, current : BOOLEAN]

RabbitTypeOK ==
    /\ transportUp \in BOOLEAN
    /\ connection \in BOOLEAN
    /\ channel \in {"null", "open", "closed"}
    /\ attempting \in {"nobody", "start", "reconnect"}
    /\ phase \in {"none", "connect", "channel", "exchange"}
    /\ isClosed \in BOOLEAN
    /\ reconnectAttempt \in 0 .. MaxAttempts
    /\ chains \in Nat
    /\ waiters \in Nat
    /\ hook \in BOOLEAN
    /\ queues \subseteq Endpoints
    /\ consumers \subseteq Endpoints
    /\ handlers \subseteq Endpoints
    /\ unsent \subseteq Messages
    /\ ready \subseteq Messages
    /\ deliveries \subseteq Deliveries

RabbitInit ==
    /\ transportUp = FALSE
    /\ connection = FALSE
    /\ channel = "null"
    /\ attempting = "nobody"
    /\ phase = "none"
    /\ isClosed = FALSE
    /\ reconnectAttempt = 0
    /\ chains = 0
    /\ waiters = 0
    /\ hook = TRUE
    /\ queues = {}
    /\ consumers = {}
    /\ handlers = {}
    /\ unsent = {}
    /\ ready = {}
    /\ deliveries = {}

IsConnected == connection /\ channel # "null"

-----------------------------------------------------------------------------
(* ConnectionManager. *)

(* connect, called by who, when neither connected nor connecting. *)
BeginConnect(who) ==
    /\ attempting' = who
    /\ phase' = "connect"
    /\ isClosed' = FALSE

(* Mutant: reconnect counts its attempts and never gives up. *)
ReconnectsForever(n) ==
    /\ reconnectAttempt' = reconnectAttempt + n
    /\ chains' = chains + n

(* reconnect gives up for good, or begins a delay. *)
Reconnects(n) ==
    /\ reconnectAttempt' =
          IF reconnectAttempt + n > MaxAttempts THEN MaxAttempts ELSE reconnectAttempt + n
    /\ chains' = chains + (reconnectAttempt' - reconnectAttempt)

RabbitStart ==
    /\ ~ transportUp
    /\ attempting # "start"
    /\ IF IsConnected
       THEN /\ transportUp' = TRUE
            /\ UNCHANGED <<attempting, phase, isClosed>>
       ELSE /\ attempting = "nobody"
            /\ BeginConnect("start")
            /\ UNCHANGED transportUp
    /\ UNCHANGED <<connection, channel, reconnectAttempt, chains, waiters, hook,
                   queueVars, consumers, handlers, deliveries, trafficVars>>

(* Mutant: the timer of a chain goes on after it has fired. *)
RabbitReconnectRepeats ==
    /\ chains > 0
    /\ IF isClosed \/ IsConnected
       THEN UNCHANGED <<attempting, phase, isClosed, waiters>>
       ELSE IF attempting # "nobody"
       THEN waiters' = waiters + 1 /\ UNCHANGED <<attempting, phase, isClosed>>
       ELSE BeginConnect("reconnect") /\ UNCHANGED waiters
    /\ UNCHANGED <<transportUp, connection, channel, reconnectAttempt, chains, hook,
                   queueVars, consumers, handlers, deliveries, trafficVars>>

(* The delay of a chain is over: connect again, unless closed meanwhile. *)
RabbitReconnect ==
    /\ chains > 0
    /\ chains' = chains - 1
    /\ IF isClosed \/ IsConnected
       THEN UNCHANGED <<attempting, phase, isClosed, waiters>>
       ELSE IF attempting # "nobody"
       THEN waiters' = waiters + 1 /\ UNCHANGED <<attempting, phase, isClosed>>
       ELSE BeginConnect("reconnect") /\ UNCHANGED waiters
    /\ UNCHANGED <<transportUp, connection, channel, reconnectAttempt, hook,
                   queueVars, consumers, handlers, deliveries, trafficVars>>

RabbitConnects ==
    /\ phase = "connect"
    /\ connection' = TRUE
    /\ phase' = "channel"
    /\ UNCHANGED <<transportUp, channel, attempting, isClosed, reconnectAttempt,
                   chains, waiters, hook, queueVars, consumers, handlers,
                   deliveries, trafficVars>>

RabbitCreatesChannel ==
    /\ phase = "channel"
    /\ connection
    /\ channel' = "open"
    /\ phase' = "exchange"
    /\ UNCHANGED <<transportUp, connection, attempting, isClosed, reconnectAttempt,
                   chains, waiters, hook, queueVars, consumers, handlers,
                   deliveries, trafficVars>>

(* The exchange stands.  Every callback runs once and is forgotten: that of the
   transport too, which finds the transport not started yet. *)
RabbitConnected ==
    /\ phase = "exchange"
    /\ channel = "open"
    /\ attempting' = "nobody"
    /\ phase' = "none"
    /\ reconnectAttempt' = 0
    /\ hook' = FALSE
    /\ waiters' = 0
    /\ consumers' = IF hook /\ transportUp THEN handlers ELSE consumers
    /\ transportUp' = (transportUp \/ attempting = "start")
    /\ UNCHANGED <<connection, channel, isClosed, chains, queueVars, handlers,
                   deliveries, trafficVars>>

(* What a channel takes with it when the broker, or a lost connection, ends it: its
   consumers and its write buffer.  What was not acknowledged is requeued. *)
ChannelEnds ==
    /\ consumers' = {}
    /\ unsent' = {}
    /\ ready' = ready \cup {d.msg : d \in {x \in deliveries : x.current}}
    /\ deliveries' = {[d EXCEPT !.current = FALSE] : d \in deliveries}

(* The exchange is refused: the broker closes the channel, and discards what was
   published on it meanwhile. *)
RefusesExchange ==
    /\ phase = "exchange"
    /\ channel = "open"
    /\ Fault(unsent)
    /\ channel' = "closed"
    /\ ChannelEnds

FailsBeforeExchange ==
    /\ phase \in {"connect", "channel"}
    /\ Fault({})
    /\ UNCHANGED <<channel, consumers, unsent, ready, deliveries>>


(* connect throws at whichever await it is in: out of start, or into reconnect,
   which goes on to the next attempt. *)
RabbitConnectFails ==
    /\ RefusesExchange \/ FailsBeforeExchange
    /\ attempting' = "nobody"
    /\ phase' = "none"
    /\ IF attempting = "reconnect" THEN Reconnects(1) ELSE UNCHANGED <<reconnectAttempt, chains>>
    /\ UNCHANGED <<transportUp, connection, isClosed, waiters, hook, queues, handlers>>

(* An attempt whose connection was lost or closed under it. *)
RabbitConnectBreaks ==
    /\ phase \in {"channel", "exchange"}
    /\ phase = "channel" => ~ connection
    /\ phase = "exchange" => channel # "open"
    /\ attempting' = "nobody"
    /\ phase' = "none"
    /\ IF attempting = "reconnect" THEN Reconnects(1) ELSE UNCHANGED <<reconnectAttempt, chains>>
    /\ UNCHANGED <<transportUp, connection, channel, isClosed, waiters, hook,
                   queueVars, consumers, handlers, deliveries, trafficVars>>

(* handleDisconnect, once or twice.  What was still in the write buffer is lost. *)
RabbitLosesConnection ==
    /\ connection
    /\ Fault(unsent)
    /\ connection' = FALSE
    /\ channel' = "null"
    /\ \E events \in {1, 2} :
          IF isClosed THEN UNCHANGED <<reconnectAttempt, chains>> ELSE Reconnects(events)
    /\ ChannelEnds
    /\ UNCHANGED <<transportUp, attempting, phase, isClosed, waiters, hook, queues, handlers>>

(* The broker closes the channel and leaves the connection: an acknowledgement that is
   overdue, or a declaration it does not agree with.  The manager keeps the channel. *)
RabbitLosesChannel ==
    /\ channel = "open"
    /\ Fault(unsent)
    /\ channel' = "closed"
    /\ ChannelEnds
    /\ UNCHANGED <<transportUp, connection, attempting, phase, isClosed, reconnectAttempt,
                   chains, waiters, hook, queues, handlers>>

-----------------------------------------------------------------------------
(* RabbitMqTransport. *)

Routable(ms) == {m \in ms : Address[m] \in queues}

(* stop needs a channel to cancel the consumers: without one it throws and the
   transport stays as it was, reconnecting.  Closing the channel sends what is in its
   write buffer, for the exchange to route. *)
RabbitStop ==
    /\ transportUp
    /\ channel # "null"
    /\ transportUp' = FALSE
    /\ isClosed' = TRUE
    /\ connection' = FALSE
    /\ channel' = "null"
    /\ consumers' = {}
    /\ handlers' = {}
    /\ ready' = ready \cup Routable(unsent) \cup {d.msg : d \in {x \in deliveries : x.current}}
    /\ Drop(unsent \ Routable(unsent))
    /\ unsent' = {}
    /\ deliveries' = {[d EXCEPT !.current = FALSE] : d \in deliveries}
    /\ UNCHANGED <<attempting, phase, reconnectAttempt, chains, waiters, hook, queues>>

RabbitSubscribe(e) ==
    /\ channel = "open"
    /\ e \notin handlers
    /\ queues' = queues \cup {e}
    /\ handlers' = handlers \cup {e}
    /\ consumers' = consumers \cup {e}
    /\ UNCHANGED <<transportUp, managerVars, unsent, ready, deliveries, trafficVars>>

(* channel.publish puts the message into the write buffer and is not confirmed. *)
RabbitPublish(m) ==
    /\ channel = "open"
    /\ Accept(m)
    /\ unsent' = unsent \cup {m}
    /\ UNCHANGED <<dropped, transportUp, managerVars, queues, ready, consumers,
                   handlers, deliveries>>

(* The exchange routes the message, or drops it when no queue is bound.  It is an
   exchange of type topic, direct or fanout, which takes no notice of x-delay. *)
RabbitRoutes(m) ==
    /\ m \in unsent
    /\ unsent' = unsent \ {m}
    /\ IF Address[m] \in queues
       THEN ready' = ready \cup {m} /\ UNCHANGED trafficVars
       ELSE Drop({m}) /\ UNCHANGED ready
    /\ UNCHANGED <<transportUp, managerVars, queues, consumers, handlers, deliveries>>

RabbitDelivers(m) ==
    /\ m \in ready
    /\ Address[m] \in consumers
    /\ ready' = ready \ {m}
    /\ deliveries' = deliveries \cup {[msg |-> m, current |-> TRUE]}
    /\ Receive(m, Address[m])
    /\ UNCHANGED <<transportUp, managerVars, queues, unsent, consumers, handlers>>

(* The handler returns: ack.  On a channel that is gone ack throws, nack throws in
   the catch, and the broker has requeued the message by itself. *)
RabbitHandlerOk(d) ==
    /\ d \in deliveries
    /\ Handle(d.msg)
    /\ deliveries' = deliveries \ {d}
    /\ UNCHANGED <<transportUp, managerVars, queueVars, consumers, handlers>>

(* The handler throws: nack, without requeueing. *)
RabbitHandlerThrows(d) ==
    /\ d \in deliveries
    /\ Fault(IF d.current THEN {d.msg} ELSE {})
    /\ deliveries' = deliveries \ {d}
    /\ UNCHANGED <<transportUp, managerVars, queueVars, consumers, handlers>>

-----------------------------------------------------------------------------

RabbitManages ==
    RabbitReconnect \/ RabbitConnects \/ RabbitCreatesChannel \/ RabbitConnected
        \/ RabbitConnectBreaks

RabbitCarries ==
    \/ \E m \in Messages : RabbitRoutes(m) \/ RabbitDelivers(m)
    \/ \E d \in deliveries : RabbitHandlerOk(d)

RabbitNext ==
    \/ RabbitStart \/ RabbitStop
    \/ RabbitManages \/ RabbitConnectFails \/ RabbitLosesConnection \/ RabbitLosesChannel
    \/ \E e \in Endpoints : RabbitSubscribe(e)
    \/ \E m \in Messages : RabbitPublish(m)
    \/ RabbitCarries
    \/ \E d \in deliveries : RabbitHandlerThrows(d)

RabbitHolds(m) ==
    \/ m \in unsent \cup ready
    \/ \E d \in deliveries : d.msg = m /\ d.current
=============================================================================
