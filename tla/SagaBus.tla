------------------------------ MODULE SagaBus ------------------------------
(***************************************************************************)
(* BusImpl: the bus subscribes each message type's endpoint once, hands    *)
(* every envelope to all sagas that handle its type, one after the other,  *)
(* and turns a failure into a retry (a new envelope with a higher attempt  *)
(* header) or a dead letter.  RetryHandler, DefaultErrorHandler and the    *)
(* transport as the bus sees it are part of this module; the saga work is  *)
(* SagaOrchestrator's, step by step.                                       *)
(*                                                                         *)
(* The transport is a bag of envelopes in no order (delays and retries     *)
(* make order meaningless): each is delivered once, and once more if the   *)
(* process handling it dies, when the transport Redelivers.                *)
(***************************************************************************)
EXTENDS SagaOrchestrator, Bags, BagsExt, FiniteSetsExt, Functions

CONSTANTS
    Handlers,           \* type -> the sagas that handle it, in registration order
    Endpoint,           \* worker -> the message type whose subscription it serves
    TimeoutType,        \* SAGA_TIMEOUT_MESSAGE_TYPE
    MaxAttempts,        \* saga -> its retryPolicy.maxAttempts
    CorrelationAction,  \* what onCorrelationFailure answers
    Redelivers,         \* the transport redelivers what a dead process held
    RequeuesRejected,   \* and an envelope whose subscription handler threw
    Inputs,             \* the messages applications publish, each once
    MaxFaults,          \* bound: errors and crashes in a behaviour
    NoEnvelope, NoTimer

VARIABLES
    queue,       \* bag of envelopes the transport will deliver
    dlq,         \* bag of dead letters
    slot,        \* worker -> the envelope its subscription handler runs on
    todo,        \* worker -> the sagas that have not finished with it
    pending,     \* inputs the applications have not published yet
    published,   \* every payload ever handed to the transport
    settled,     \* <<payload, saga>>: processMessage ended without an error
    faults,      \* errors and crashes so far
    redelivered  \* envelopes given back unfinished, and so delivered again, so far

busVars == <<queue, dlq, slot, todo, pending, published, settled, faults, redelivered>>
allVars == <<vars, busVars>>

(* The setTimeout call a SagaTimeoutExpired message stems from. *)
Timers == [sagaId : SagaIds, version : Nat]

Payloads ==
    [ type  : MessageTypes,
      corr  : CorrelationIds \cup {NoCorrelation},
      timer : Timers \cup {NoTimer} ]

(* The attempt header; absent counts as 1 (getAttemptCount). *)
Envelopes == [payload : Payloads, attempt : Nat \ {0}]

ASSUME BusAssumption ==
    /\ Handlers \in [MessageTypes -> Seq(SagaNames)]
    /\ \A t \in MessageTypes : Range(Handlers[t]) = {s \in SagaNames : t \in HandledTypes[s]}
    /\ Endpoint \in [Workers -> MessageTypes]
    /\ TimeoutType \in MessageTypes
    /\ MaxAttempts \in [SagaNames -> Nat \ {0}]
    /\ CorrelationAction \in {"drop", "dlq"}
    /\ Redelivers \in BOOLEAN
    /\ RequeuesRejected \in BOOLEAN
    /\ Inputs \subseteq Payloads
    /\ MaxFaults \in Nat
    /\ NoEnvelope \notin Envelopes
    /\ NoTimer \notin Timers

BusTypeOK ==
    /\ \A bag \in {queue, dlq} :
          /\ IsABag(bag)
          /\ DOMAIN bag \subseteq Envelopes
    /\ slot \in [Workers -> Envelopes \cup {NoEnvelope}]
    /\ todo \in [Workers -> Seq(SagaNames)]
    /\ pending \subseteq Inputs
    /\ published \subseteq Payloads
    /\ settled \subseteq Payloads \X SagaNames
    /\ faults \in 0 .. MaxFaults
    /\ redelivered \in 0 .. faults

BusInit ==
    /\ Init
    /\ queue = EmptyBag
    /\ dlq = EmptyBag
    /\ slot = [w \in Workers |-> NoEnvelope]
    /\ todo = [w \in Workers |-> << >>]
    /\ pending = Inputs
    /\ published = {}
    /\ settled = {}
    /\ faults = 0
    /\ redelivered = 0

-----------------------------------------------------------------------------

(* Only endpoints the bus subscribed to deliver anything back to it. *)
Enqueue(payload, attempt) ==
    /\ queue' = IF Handlers[payload.type] = << >>
                THEN queue
                ELSE BagAdd(queue, [payload |-> payload, attempt |-> attempt])
    /\ published' = published \cup {payload}

(* Mutant: a dead letter loses its headers. *)
DeadLetterBare(envelope) == dlq' = BagAdd(dlq, envelope.payload)

DeadLetter(envelope) == dlq' = BagAdd(dlq, envelope)

(* bus.publish. *)
PublishInput(payload) ==
    /\ payload \in pending
    /\ pending' = pending \ {payload}
    /\ Enqueue(payload, 1)
    /\ UNCHANGED <<vars, dlq, slot, todo, settled, faults, redelivered>>

(* The transport gives an envelope to a free slot of its endpoint. *)
Deliver(w) ==
    /\ slot[w] = NoEnvelope
    /\ \E e \in BagToSet(queue) :
          /\ e.payload.type = Endpoint[w]
          /\ queue' = BagRemove(queue, e)
          /\ slot' = [slot EXCEPT ![w] = e]
          /\ todo' = [todo EXCEPT ![w] = Handlers[e.payload.type]]
    /\ UNCHANGED <<vars, dlq, pending, published, settled, faults, redelivered>>

(* The loop calls processMessage of the next saga. *)
Call(w) ==
    /\ slot[w] # NoEnvelope
    /\ todo[w] # << >>
    /\ Receive(w, Head(todo[w]), slot[w].payload.type, slot[w].payload.corr)
    /\ UNCHANGED busVars

(* The steps of processMessage that touch no message. *)
Work(w) ==
    /\ \/ Load(w)
       \/ Ignore(w)
       \/ Skip(w)
       \/ \E id \in SagaIds : Create(w, id) \/ CreateRejected(w, id)
       \/ Handle(w)
       \/ Save(w)
       \/ SaveRejected(w)
    /\ UNCHANGED busVars

(* ctx.publish: the saga's own message, with no retry headers. *)
SendFromHandler(w) ==
    /\ Publish(w)
    /\ Enqueue([type |-> Head(reply[w].sends), corr |-> job[w].corr, timer |-> NoTimer], 1)
    /\ UNCHANGED <<dlq, slot, todo, pending, settled, faults, redelivered>>

(* scheduleTimeoutMessage: to the one timeout endpoint all sagas share. *)
TimeoutSet(w) ==
    [ type  |-> TimeoutType,
      corr  |-> job[w].corr,
      timer |-> [sagaId |-> held[w].sagaId, version |-> held[w].version + 1] ]

ScheduleTimeout(w) ==
    /\ Arm(w)
    /\ Enqueue(TimeoutSet(w), 1)
    /\ UNCHANGED <<dlq, slot, todo, pending, settled, faults, redelivered>>

(* DefaultErrorHandler on the original error. *)
Classify(failure) == IF failure = "permanent" THEN "dlq" ELSE "retry"

(* What the loop catches: the error of processMessage, or the one of publishing the
   dead letter of an uncorrelated message, which happens inside the same try. *)
Thrown(w) ==
    {f \in Failures :
        \/ f = result[w]
        \/ /\ result[w] = "uncorrelated"
           /\ CorrelationAction = "dlq"
           /\ f # "conflict"
           /\ faults < MaxFaults}

CountFault(w) == faults' = IF result[w] \in Failures THEN faults ELSE faults + 1

(* processMessage returns to the loop: next saga, or handleFailure first. *)
Succeeded(w) ==
    /\ result[w] \notin Failures
    /\ settled' = settled \cup {<<slot[w].payload, Head(todo[w])>>}
    /\ IF result[w] = "uncorrelated" /\ CorrelationAction = "dlq"
       THEN DeadLetter(slot[w])
       ELSE UNCHANGED dlq
    /\ UNCHANGED <<queue, published, faults>>

(* Mutant: the attempt header is republished as it was. *)
RetrySameAttempt(w) ==
    /\ \E f \in Thrown(w) : Classify(f) = "retry"
    /\ slot[w].attempt < MaxAttempts[Head(todo[w])]
    /\ Enqueue(slot[w].payload, slot[w].attempt)
    /\ CountFault(w)
    /\ UNCHANGED <<dlq, settled>>

Retry(w) ==
    /\ \E f \in Thrown(w) : Classify(f) = "retry"
    /\ slot[w].attempt < MaxAttempts[Head(todo[w])]
    /\ Enqueue(slot[w].payload, slot[w].attempt + 1)
    /\ CountFault(w)
    /\ UNCHANGED <<dlq, settled>>

OutOfAttempts(w) == slot[w].attempt >= MaxAttempts[Head(todo[w])]

(* Mutant: the last attempt fails and the message is dropped. *)
GiveUpSilently(w) ==
    /\ \E f \in Thrown(w) : Classify(f) = "retry" => OutOfAttempts(w)
    /\ CountFault(w)
    /\ UNCHANGED <<queue, dlq, published, settled>>

GiveUp(w) ==
    /\ \E f \in Thrown(w) : Classify(f) = "retry" => OutOfAttempts(w)
    /\ DeadLetter(slot[w])
    /\ CountFault(w)
    /\ UNCHANGED <<queue, published, settled>>

Settle(w) ==
    /\ Return(w)
    /\ Succeeded(w) \/ Retry(w) \/ GiveUp(w)
    /\ todo' = [todo EXCEPT ![w] = Tail(@)]
    /\ UNCHANGED <<slot, pending, redelivered>>

(* The subscription handler resolves: the transport is done with the envelope. *)
Ack(w) ==
    /\ slot[w] # NoEnvelope
    /\ todo[w] = << >>
    /\ slot' = [slot EXCEPT ![w] = NoEnvelope]
    /\ UNCHANGED <<vars, queue, dlq, todo, pending, published, settled, faults, redelivered>>

(* A store, middleware, handler or transport call throws. *)
Fail(w) ==
    /\ faults < MaxFaults
    /\ faults' = faults + 1
    /\ \/ \E id \in SagaIds : CreateUnacked(w, id)
       \/ SaveUnacked(w)
       \/ \E how \in Failures : Throw(w, how)
    /\ UNCHANGED <<queue, dlq, slot, todo, pending, published, settled, redelivered>>

(* The transport has the envelope again, to be delivered from the first saga on. *)
GiveBack(w) ==
    /\ queue' = BagAdd(queue, slot[w])
    /\ redelivered' = redelivered + 1

(* Publishing the retry or the dead letter throws: the subscription handler
   rejects, the sagas left in the loop with it. *)
Abandon(w) ==
    /\ faults < MaxFaults
    /\ faults' = faults + 1
    /\ Thrown(w) # {}
    /\ Return(w)
    /\ IF RequeuesRejected THEN GiveBack(w) ELSE UNCHANGED <<queue, redelivered>>
    /\ slot' = [slot EXCEPT ![w] = NoEnvelope]
    /\ todo' = [todo EXCEPT ![w] = << >>]
    /\ UNCHANGED <<dlq, pending, published, settled>>

(* Mutant: the envelope is acknowledged before it is processed. *)
DieAcked(w) ==
    /\ Redelivers
    /\ faults < MaxFaults
    /\ faults' = faults + 1
    /\ slot[w] # NoEnvelope
    /\ IF pc[w] = "idle" THEN UNCHANGED vars ELSE Reset(w)
    /\ slot' = [slot EXCEPT ![w] = NoEnvelope]
    /\ todo' = [todo EXCEPT ![w] = << >>]
    /\ UNCHANGED <<queue, dlq, pending, published, settled, redelivered>>

(* The process dies: the envelope was never acknowledged and comes again. *)
Die(w) ==
    /\ Redelivers
    /\ faults < MaxFaults
    /\ faults' = faults + 1
    /\ slot[w] # NoEnvelope
    /\ IF pc[w] = "idle" THEN UNCHANGED vars ELSE Reset(w)
    /\ GiveBack(w)
    /\ slot' = [slot EXCEPT ![w] = NoEnvelope]
    /\ todo' = [todo EXCEPT ![w] = << >>]
    /\ UNCHANGED <<dlq, pending, published, settled>>

-----------------------------------------------------------------------------

WorkerStep(w) ==
    \/ Call(w)
    \/ Work(w)
    \/ SendFromHandler(w)
    \/ ScheduleTimeout(w)
    \/ Settle(w)
    \/ Ack(w)

BusNext ==
    \/ \E p \in Inputs : PublishInput(p)
    \/ \E w \in Workers :
          \/ Deliver(w)
          \/ WorkerStep(w)
          \/ Fail(w)
          \/ Abandon(w)
          \/ Die(w)

BusSpec == BusInit /\ [][BusNext]_allVars

(* The event loop runs every await that can resume, a transport keeps
   delivering while a slot of the endpoint is free, delays elapse, and the
   applications publish what they mean to publish. *)
Fairness ==
    /\ \A p \in Inputs : WF_allVars(PublishInput(p))
    /\ \A w \in Workers : WF_allVars(Deliver(w)) /\ WF_allVars(WorkerStep(w))

FairBusSpec == BusSpec /\ Fairness

-----------------------------------------------------------------------------

Quiet ==
    /\ pending = {}
    /\ BagToSet(queue) = {}
    /\ \A w \in Workers : slot[w] = NoEnvelope

AccountedFor(p, s) ==
    \/ <<p, s>> \in settled
    \/ \E e \in BagToSet(queue) \cup BagToSet(dlq) : e.payload = p
    \/ \E w \in Workers :
          slot[w] # NoEnvelope /\ slot[w].payload = p /\ s \in Range(todo[w])

NothingLost == \A p \in published : \A s \in Range(Handlers[p.type]) : AccountedFor(p, s)

(* A published message and a saga that handles it are never parted: either
   processMessage has ended without an error, or the message is still queued,
   in a slot whose loop has yet to reach the saga, or a dead letter.  When the
   retry cannot be published, that is up to the transport. *)
Accounted == RequeuesRejected => NothingLost

(* A retry goes to every saga of the type, not just the one that failed, and a
   redelivery starts again at the first of them, so a message with k handlers may be
   multiplied; but never past k to the power of maxAttempts for the message itself and
   for each redelivery.  Copies counts the runs of processMessage an envelope or a slot can
   still end in, and the dead letters it has ended in. *)
MaxAttempt == Max({MaxAttempts[s] : s \in SagaNames})

Copies(p) ==
    LET k == Len(Handlers[p.type])
        Of(bag) == {e \in BagToSet(bag) : e.payload = p}
        In == {w \in Workers : slot[w] # NoEnvelope /\ slot[w].payload = p}
    IN MapThenSumSet(LAMBDA e : queue[e] * k^(MaxAttempt - e.attempt + 1), Of(queue))
       + MapThenSumSet(LAMBDA w : Len(todo[w]) * k^(MaxAttempt - slot[w].attempt), In)
       + MapThenSumSet(LAMBDA e : dlq[e], Of(dlq))

AmplificationBound ==
    \A p \in Inputs \cap published :
        LET k == Len(Handlers[p.type])
        IN k > 0 => Copies(p) <= (1 + redelivered) * k^MaxAttempt

(* Optimistic concurrency never burns an attempt for nothing: with no faults, a
   message of one saga on its n-th attempt means n - 1 updates of its instance
   by other messages.  So two messages never keep each other from committing. *)
ConflictMeansProgress ==
    faults = 0 =>
        \A e \in (BagToSet(queue) \cup Range(slot)) \ {NoEnvelope} :
            e.attempt = 1
            \/ \E id \in SagaIds :
                  /\ Live(id)
                  /\ rows[id].key[2] = e.payload.corr
                  /\ e.attempt - 1 <= rows[id].version

(* With no faults, an instance that shows a pending timeout has its timeout
   message published, or a call on its way to publish it. *)
TimeoutPublished(id) ==
    \E p \in published : p.timer = [sagaId |-> id, version |-> rows[id].timeout]

PendingTimeout(id) == Live(id) /\ ~ rows[id].isCompleted /\ rows[id].timeout # NoTimeout

TimeoutArmed ==
    faults = 0 =>
        \A id \in SagaIds : PendingTimeout(id) =>
            \/ TimeoutPublished(id)
            \/ \E w \in Workers : pc[w] = "arming" /\ held[w].sagaId = id

(* A message that only a saga's own handlers send finds the saga when it comes
   back, although it is sent before the handler's state is saved. *)
SentOnlyBy(saga) ==
    {t \in MessageTypes :
        /\ \A p \in Inputs : p.type # t
        /\ t # TimeoutType
        /\ \A s \in SagaNames \ {saga}, u \in MessageTypes, d \in Data :
              \A o \in Handler[s, u, d] : t \notin Range(o.sends)}

OwnSendsFindSaga ==
    \A w \in Workers :
        pc[w] = "loaded" /\ job[w].type \in SentOnlyBy(job[w].saga) => held[w] # NoRow

(* Whatever fails, everything published is in the end processed by each saga that
   handles it, or dead-lettered. *)
AllSettled ==
    /\ pending = {}
    /\ \A p \in published : \A s \in Range(Handlers[p.type]) :
          <<p, s>> \in settled \/ \E e \in BagToSet(dlq) : e.payload = p

EventuallySettled == <>[]AllSettled

-----------------------------------------------------------------------------
(* What the documentation and comments say. *)

FiresTimeout(w) == pc[w] = "running" /\ job[w].type = TimeoutType

(* "Set a timeout for this saga. ... Calling this again resets the timeout" and "Clear
   any pending timeout for this saga" (types/saga.ts): a saga's timeout handler runs
   for the timeout that saga shows, not for one of another saga or one it has cleared
   or set anew. *)
TimeoutFiresAsSet ==
    \A w \in Workers : FiresTimeout(w) =>
        slot[w].payload.timer = [sagaId |-> held[w].sagaId, version |-> held[w].timeout]

(* "When a timeout expires, SagaTimeoutExpired is published" (timeouts.md): once the
   bus is quiet and no message has ended as a dead letter, every timeout an instance
   still shows has been published. *)
ShownTimeoutsArePublished ==
    Quiet /\ BagToSet(dlq) = {} =>
        \A id \in SagaIds : PendingTimeout(id) => TimeoutPublished(id)

=============================================================================
