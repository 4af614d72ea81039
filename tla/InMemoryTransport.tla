-------------------------- MODULE InMemoryTransport --------------------------
(***************************************************************************)
(* The in-memory transport (packages/transport-inmemory), publish and      *)
(* subscribe within one process, every subscription of an endpoint limited *)
(* to so many handlers at a time by a semaphore of its own.                *)
(*                                                                         *)
(* publish hands the envelope to the event loop, as an immediate or as a   *)
(* timer; its callback delivers to the subscriptions there are by then, if *)
(* the transport is started.  A callback and the microtasks it resolves    *)
(* run to the next await with nothing in between: one step here.           *)
(*                                                                         *)
(* A message stands for its envelope: each is published at most once.      *)
(***************************************************************************)
EXTENDS Naturals, Sequences, FiniteSets

CONSTANTS
    Endpoints,
    Messages,
    Concurrency,         \* endpoint -> the concurrency its subscriptions ask for
    MaxSubscriptions     \* bound: subscriptions of one endpoint

VARIABLES
    started,             \* the transport's started flag
    subscriptions,       \* endpoint -> its subscriptions, in order
    immediates,          \* setImmediate callbacks, first in first out
    timers,              \* pendingTimeouts: setTimeout callbacks
    unpublished          \* messages nobody has published yet

transportVars == <<started, subscriptions, immediates, timers, unpublished>>

(* A subscription is its semaphore and the handlers that run in it. *)
Subscription ==
    [ permits : Nat,
      waiting : Seq(Messages),
      running : SUBSET Messages ]

Parcels == [endpoint : Endpoints, message : Messages]

ASSUME TransportAssumption ==
    /\ Concurrency \in [Endpoints -> Nat \ {0}]
    /\ MaxSubscriptions \in Nat

TransportTypeOK ==
    /\ started \in BOOLEAN
    /\ subscriptions \in [Endpoints -> Seq(Subscription)]
    /\ immediates \in Seq(Parcels)
    /\ timers \subseteq Parcels
    /\ unpublished \subseteq Messages

TransportInit ==
    /\ started = FALSE
    /\ subscriptions = [e \in Endpoints |-> << >>]
    /\ immediates = << >>
    /\ timers = {}
    /\ unpublished = Messages

-----------------------------------------------------------------------------

Start ==
    /\ started' = TRUE
    /\ UNCHANGED <<subscriptions, immediates, timers, unpublished>>

(* stop clears the timers; immediates, waiters and handlers stay. *)
Stop ==
    /\ started' = FALSE
    /\ timers' = {}
    /\ UNCHANGED <<subscriptions, immediates, unpublished>>

Subscribe(e) ==
    /\ Len(subscriptions[e]) < MaxSubscriptions
    /\ subscriptions' = [subscriptions EXCEPT ![e] =
          Append(@, [permits |-> Concurrency[e], waiting |-> << >>, running |-> {}])]
    /\ UNCHANGED <<started, immediates, timers, unpublished>>

Publish(m, e, delayed) ==
    /\ m \in unpublished
    /\ unpublished' = unpublished \ {m}
    /\ LET parcel == [endpoint |-> e, message |-> m] IN
       IF delayed
       THEN timers' = timers \cup {parcel} /\ UNCHANGED immediates
       ELSE immediates' = Append(immediates, parcel) /\ UNCHANGED timers
    /\ UNCHANGED <<started, subscriptions>>

(* Mutant: the test for a free permit is off by one. *)
AcquireOffByOne(sub, m) ==
    IF sub.permits >= 0
    THEN [permits |-> sub.permits - 1, waiting |-> sub.waiting, running |-> sub.running \cup {m}]
    ELSE [sub EXCEPT !.waiting = Append(@, m)]

(* Semaphore.acquire, and the handler when there is a permit. *)
Acquire(sub, m) ==
    IF sub.permits > 0
    THEN [sub EXCEPT !.permits = @ - 1, !.running = @ \cup {m}]
    ELSE [sub EXCEPT !.waiting = Append(@, m)]

(* Mutant: the permit goes back although a waiter takes its place. *)
ReleaseAnyway(sub, m) ==
    IF sub.waiting # << >>
    THEN [ permits |-> sub.permits + 1,
           waiting |-> Tail(sub.waiting),
           running |-> (sub.running \ {m}) \cup {Head(sub.waiting)} ]
    ELSE [sub EXCEPT !.permits = @ + 1, !.running = @ \ {m}]

(* Mutant: release frees the permit and wakes nobody. *)
ReleaseAsleep(sub, m) == [sub EXCEPT !.permits = @ + 1, !.running = @ \ {m}]

(* The handler returns or throws, and Semaphore.release wakes the first waiter
   with the permit, or gives it back. *)
Release(sub, m) ==
    IF sub.waiting # << >>
    THEN [ permits |-> sub.permits,
           waiting |-> Tail(sub.waiting),
           running |-> (sub.running \ {m}) \cup {Head(sub.waiting)} ]
    ELSE [sub EXCEPT !.permits = @ + 1, !.running = @ \ {m}]

(* deliverToSubscribers: dropped when stopped, else one copy per subscription. *)
DeliverToSubscribers(parcel) ==
    LET e == parcel.endpoint IN
    subscriptions' =
        IF started
        THEN [subscriptions EXCEPT ![e] =
                 [i \in DOMAIN @ |-> Acquire(@[i], parcel.message)]]
        ELSE subscriptions

ImmediateRuns ==
    /\ immediates # << >>
    /\ immediates' = Tail(immediates)
    /\ DeliverToSubscribers(Head(immediates))
    /\ UNCHANGED <<started, timers, unpublished>>

TimerFires(parcel) ==
    /\ parcel \in timers
    /\ timers' = timers \ {parcel}
    /\ DeliverToSubscribers(parcel)
    /\ UNCHANGED <<started, immediates, unpublished>>

HandlerEnds(e, i, m) ==
    /\ m \in subscriptions[e][i].running
    /\ subscriptions' = [subscriptions EXCEPT ![e][i] = Release(@, m)]
    /\ UNCHANGED <<started, immediates, timers, unpublished>>

EventLoop ==
    \/ ImmediateRuns
    \/ \E parcel \in timers : TimerFires(parcel)
    \/ \E e \in Endpoints : \E i \in DOMAIN subscriptions[e] :
          \E m \in subscriptions[e][i].running : HandlerEnds(e, i, m)

Publishes == \E m \in unpublished, e \in Endpoints, delayed \in BOOLEAN : Publish(m, e, delayed)

(* Any caller may start, stop, subscribe and publish at any time. *)
TransportNext ==
    \/ Start
    \/ Stop
    \/ \E e \in Endpoints : Subscribe(e)
    \/ Publishes
    \/ EventLoop

TransportSpec == TransportInit /\ [][TransportNext]_transportVars

(* The event loop runs what is ready, and handlers end. *)
FairTransportSpec ==
    /\ TransportSpec
    /\ WF_transportVars(ImmediateRuns)
    /\ \A e \in Endpoints, i \in 1 .. MaxSubscriptions, m \in Messages :
          WF_transportVars(i \in DOMAIN subscriptions[e] /\ HandlerEnds(e, i, m))

-----------------------------------------------------------------------------

Sub(e, i) == subscriptions[e][i]

(* The semaphore of a subscription accounts for every handler: permits and running
   handlers make up the concurrency, and nobody waits beside a free permit. *)
SemaphoreSound ==
    \A e \in Endpoints : \A i \in DOMAIN subscriptions[e] :
        /\ Sub(e, i).permits + Cardinality(Sub(e, i).running) = Concurrency[e]
        /\ Sub(e, i).waiting # << >> => Sub(e, i).permits = 0

Waits(e, i, m) ==
    i \in DOMAIN subscriptions[e] /\ \E k \in DOMAIN Sub(e, i).waiting : Sub(e, i).waiting[k] = m

(* No waiter starves: a delivered message gets its turn, whatever else arrives and
   whether or not the transport is stopped meanwhile. *)
WaitersRun ==
    \A e \in Endpoints, i \in 1 .. MaxSubscriptions, m \in Messages :
        Waits(e, i, m) ~> (i \in DOMAIN subscriptions[e] /\ m \in Sub(e, i).running)

=============================================================================
