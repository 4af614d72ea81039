---------------------------- MODULE BusLifecycle ----------------------------
(***************************************************************************)
(* BusImpl.start and stop over the in-memory transport: what callers that  *)
(* start and stop the bus, possibly at the same time, make of its          *)
(* subscriptions.  start is a loop of awaits; the started flag that makes  *)
(* a second call return early is set only at its end.                      *)
(***************************************************************************)
EXTENDS InMemoryTransport, FiniteSetsExt

CONSTANTS
    Callers,
    HandledEndpoints,    \* the message types of the sagas in turn, repeats included
    MaxStarts            \* bound: calls of start that do not return early

VARIABLES
    busStarted,          \* BusImpl's started flag
    at,                  \* caller -> "out", or the await it is in
    position,            \* caller -> how far its start has come in the loop
    starts,              \* calls of start so far
    accepted,            \* messages published while isRunning() is TRUE
    handled              \* messages a handler has dealt with

lifecycleVars == <<busStarted, at, position, starts, accepted, handled>>
allVars == <<transportVars, lifecycleVars>>

Handled == {HandledEndpoints[k] : k \in DOMAIN HandledEndpoints}

ASSUME LifecycleAssumption ==
    /\ HandledEndpoints \in Seq(Endpoints)
    /\ MaxStarts \in Nat

LifecycleTypeOK ==
    /\ TransportTypeOK
    /\ busStarted \in BOOLEAN
    /\ at \in [Callers -> {"out", "starting", "stopping"}]
    /\ position \in [Callers -> 0 .. Len(HandledEndpoints)]
    /\ starts \in 0 .. MaxStarts
    /\ accepted \subseteq Messages
    /\ handled \subseteq Messages

LifecycleInit ==
    /\ TransportInit
    /\ busStarted = FALSE
    /\ at = [c \in Callers |-> "out"]
    /\ position = [c \in Callers |-> 0]
    /\ starts = 0
    /\ accepted = {}
    /\ handled = {}

-----------------------------------------------------------------------------

(* Mutant: the started flag is set first, before anything is subscribed. *)
BusStartEager(c) ==
    /\ at[c] = "out"
    /\ ~ busStarted
    /\ starts < MaxStarts
    /\ starts' = starts + 1
    /\ Start
    /\ at' = [at EXCEPT ![c] = "starting"]
    /\ position' = [position EXCEPT ![c] = 0]
    /\ busStarted' = TRUE
    /\ UNCHANGED <<accepted, handled>>

(* start, unless already started, first starts the transport. *)
BusStart(c) ==
    /\ at[c] = "out"
    /\ ~ busStarted
    /\ starts < MaxStarts
    /\ starts' = starts + 1
    /\ Start
    /\ at' = [at EXCEPT ![c] = "starting"]
    /\ position' = [position EXCEPT ![c] = 0]
    /\ UNCHANGED <<busStarted, accepted, handled>>

(* Mutant: the check for an endpoint another saga has subscribed is dropped. *)
RemainingRepeated(c) == {k \in DOMAIN HandledEndpoints : k > position[c]}

(* Where the loop, which visits the sagas' types in order, has yet to subscribe: a
   type that two sagas share is subscribed once. *)
Remaining(c) ==
    {k \in DOMAIN HandledEndpoints :
        /\ k > position[c]
        /\ \A j \in 1 .. position[c] : HandledEndpoints[j] # HandledEndpoints[k]}

BusSubscribe(c) ==
    /\ at[c] = "starting"
    /\ Remaining(c) # {}
    /\ LET k == Min(Remaining(c)) IN
          /\ Subscribe(HandledEndpoints[k])
          /\ position' = [position EXCEPT ![c] = k]
    /\ UNCHANGED <<busStarted, at, starts, accepted, handled>>

BusIsStarted(c) ==
    /\ at[c] = "starting"
    /\ Remaining(c) = {}
    /\ busStarted' = TRUE
    /\ at' = [at EXCEPT ![c] = "out"]
    /\ UNCHANGED <<transportVars, position, starts, accepted, handled>>

(* stop, unless not started, stops the transport and then clears the flag. *)
BusStop(c) ==
    /\ at[c] = "out"
    /\ busStarted
    /\ Stop
    /\ at' = [at EXCEPT ![c] = "stopping"]
    /\ UNCHANGED <<busStarted, position, starts, accepted, handled>>

BusIsStopped(c) ==
    /\ at[c] = "stopping"
    /\ busStarted' = FALSE
    /\ at' = [at EXCEPT ![c] = "out"]
    /\ UNCHANGED <<transportVars, position, starts, accepted, handled>>

(* An application publishes to an endpoint the bus handles. *)
BusPublish ==
    /\ \E m \in unpublished, e \in Handled, delayed \in BOOLEAN :
          /\ Publish(m, e, delayed)
          /\ accepted' = IF busStarted THEN accepted \cup {m} ELSE accepted
    /\ UNCHANGED <<busStarted, at, position, starts, handled>>

Callback ==
    /\ ImmediateRuns \/ \E parcel \in timers : TimerFires(parcel)
    /\ UNCHANGED lifecycleVars

BusHandlerEnds(e, i, m) ==
    /\ i \in DOMAIN subscriptions[e]
    /\ HandlerEnds(e, i, m)
    /\ handled' = handled \cup {m}
    /\ UNCHANGED <<busStarted, at, position, starts, accepted>>

CallerStep(c) == BusSubscribe(c) \/ BusIsStarted(c) \/ BusIsStopped(c)

LifecycleNext ==
    \/ \E c \in Callers : BusStart(c) \/ CallerStep(c) \/ BusStop(c)
    \/ BusPublish
    \/ Callback
    \/ \E e \in Endpoints, i \in 1 .. MaxSubscriptions, m \in Messages :
          BusHandlerEnds(e, i, m)

LifecycleSpec == LifecycleInit /\ [][LifecycleNext]_allVars

(* The event loop runs callbacks and resumes awaits, and handlers end. *)
FairLifecycleSpec ==
    /\ LifecycleSpec
    /\ WF_allVars(Callback)
    /\ \A c \in Callers : WF_allVars(CallerStep(c))
    /\ \A e \in Endpoints, i \in 1 .. MaxSubscriptions, m \in Messages :
          WF_allVars(BusHandlerEnds(e, i, m))

-----------------------------------------------------------------------------

(* Once start has set the flag, every endpoint a saga handles is subscribed, in
   whatever way concurrent starts and stops went. *)
StartedMeansSubscribed ==
    busStarted => \A e \in Handled : subscriptions[e] # << >>

(* A message published while the bus says it is running is handled, unless the
   transport is stopped then or later: stop drops what is on its way, and a stop that
   another caller's start overtakes leaves the bus running over a stopped transport. *)
AcceptedIsHandled ==
    \A m \in Messages :
        \/ <>(m \in accepted /\ ~ started)
        \/ m \in accepted ~> m \in handled

(* "Maximum concurrent message handlers" (types/transport.ts): what the bus runs at
   a time for an endpoint stays within the concurrency it asked for. *)
InProgress(e) ==
    {h \in (1 .. MaxSubscriptions) \X Messages :
        h[1] \in DOMAIN subscriptions[e] /\ h[2] \in Sub(e, h[1]).running}

ConcurrencyLimited == \A e \in Endpoints : Cardinality(InProgress(e)) <= Concurrency[e]

(* The bus started once, by one caller, stays within the limit. *)
StartedOnceIsLimited == starts <= 1 => ConcurrencyLimited
=============================================================================
