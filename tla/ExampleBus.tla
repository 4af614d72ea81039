----------------------------- MODULE ExampleBus -----------------------------
(***************************************************************************)
(* One example saga under load: the services around it answer at any time, *)
(* in any order and more than once; two workers process the messages; the  *)
(* broker redelivers what a worker held when it died, or held too long.    *)
(* Between broker and saga stands the middleware of the middleware example *)
(* - metrics, then idempotency, then validation - and inside it the        *)
(* orchestrator's awaits: load, insert, handle and publish, save, timeout. *)
(*                                                                         *)
(* A saved row's version only tells whether someone else has saved since   *)
(* it was loaded; the model keeps that (`stale`) and not the number.       *)
(***************************************************************************)
EXTENDS ExampleSagas, Naturals

CONSTANTS
    Workers,
    Ids,           \* envelope ids
    Setups,        \* which saga and application, which store and middleware options
    Replies(_),    \* saga -> the messages applications and services publish
    MaxAttempts,   \* retryPolicy.maxAttempts
    MaxOpen(_),    \* bound, by setup: the services wait while so many messages are in flight
    MaxFaults(_),  \* bound, by setup: faults in a behaviour
    NoSaga, NoEnvelope

(* `origin` is the id of the first attempt: the retry of a message is a new
   envelope with an id of its own. *)
Envelopes ==
    [message : Message, valid : BOOLEAN, id : Ids, origin : Ids, attempt : 1 .. MaxAttempts]

Sagas == OrderSagaState \cup LoanApplicationSagaState

ASSUME ExampleBusAssumption ==
    /\ MaxAttempts \in Nat \ {0}
    /\ Setups \subseteq [ saga        : {"order", "loan"},
                          application : Applications,
                          unique      : BOOLEAN,   \* the store's correlation index
                          idempotency : {"none", "before", "after"},
                          onDuplicate : {"skip", "throw"},
                          onInvalid   : {"none", "throw", "skip", "dlq"} ]

(* example-loan-nextjs keeps its saga in PostgreSQL and has no middleware but logging. *)
ASSUME LoanSetupAssumption ==
    \A s \in Setups : s.saga = "loan" => s.unique /\ s.idempotency = "none"

(* The applications and services publish what the saga's bus is subscribed to. *)
ASSUME RepliesAssumption ==
    \A saga \in {"order", "loan"} :
        \A m \in Replies(saga) : m \in Message /\ m.type \in HandledTypes(saga)

ASSUME NoEnvelopeAssumption ==
    /\ NoSaga \notin Sagas
    /\ NoEnvelope \notin Envelopes

VARIABLES
    setup,
    row,        \* the row the saga's correlation id leads to, or NoSaga
    instances,  \* how many have been inserted; the row is the last of them
    queue,      \* envelopes the broker will deliver
    slot,       \* worker -> the delivery it is busy with
    marks,      \* ids the idempotency store has, while they can still be delivered
    counters,   \* the metrics sagas_created_total and sagas_completed_total
    processed,  \* origins that have been handled and saved, behind the middleware
    processedTwice, \* origins that have been more than once
    settled,    \* origins whose pipeline has returned, or that are dead-lettered
    dlq,        \* types of dead letters, of those a saga waits for
    forgotten,  \* a message has left without being settled
    faults

vars == <<setup, row, instances, queue, slot, marks, counters, processed, processedTwice,
          settled, dlq, forgotten, faults>>

Idle ==
    [pc |-> "idle", env |-> NoEnvelope, held |-> NoSaga, stale |-> FALSE, isNew |-> FALSE,
     of |-> 0, leased |-> FALSE, counts |-> {}]

(* A delivery past its save keeps only what the way back needs. *)
Past(w, pc, counts) ==
    [Idle EXCEPT !.pc = pc, !.env = slot[w].env, !.leased = slot[w].leased,
                 !.counts = counts]

(* The order saga runs behind the middleware, the loan saga without. *)
Stack == setup.idempotency # "none"

InFlight == queue \cup {slot[w].env : w \in {v \in Workers : slot[v].env # NoEnvelope}}

FreeIds ==
    Ids \ (marks \cup UNION {{e.id, e.origin} : e \in InFlight})

(* What sort of fault it was matters to the marks alone. *)
Fault(kind) ==
    /\ Cardinality(faults) < MaxFaults(setup)
    /\ faults' = faults \cup {IF Stack THEN kind ELSE "fault"}

Init ==
    /\ setup \in Setups
    /\ row = NoSaga
    /\ instances = 0
    /\ queue = {}
    /\ slot = [w \in Workers |-> Idle]
    /\ marks = {}
    /\ counters = [created |-> 0, completed |-> 0]
    /\ processed = {}
    /\ processedTwice = {}
    /\ settled = {}
    /\ dlq = {}
    /\ forgotten = FALSE
    /\ faults = {}

(* The statuses in which a saga waits for a message it has published itself. *)
Waits ==
    {<<"approved", "LoanApproved">>,
     <<"documents_verification_failed", "DocumentVerificationFailed">>}

DeadLetter(type) == dlq' = dlq \cup ({type} \cap {wait[2] : wait \in Waits})

ghosts == <<processed, processedTwice, settled, dlq, forgotten>>

-----------------------------------------------------------------------------

(* bus.publish: a new envelope, with an id nothing else has. *)
Envelope(m, valid, i) ==
    [message |-> m, valid |-> valid, id |-> i, origin |-> i, attempt |-> 1]

(* A service, or a user at the application's pages, sends a message.  Bound: a
   message the saga, as it is saved, has no handler for comes alone (what is
   accepted when it is sent may still come too late), and only first messages
   are invalid. *)
Accepted(m) ==
    IF row = NoSaga THEN m.type = StartsWith(setup.saga) ELSE Results(m, row) # {}

Reply ==
    /\ Cardinality(InFlight) < MaxOpen(setup)
    /\ \E m \in Replies(setup.saga), valid \in BOOLEAN, i \in FreeIds :
          /\ ~ valid => setup.onInvalid # "none" /\ m.type = StartsWith(setup.saga)
          /\ InFlight = {} \/ Accepted(m)
          /\ queue' = queue \cup {Envelope(m, valid, i)}
    /\ UNCHANGED <<setup, row, instances, slot, marks, counters, ghosts, faults>>

(* The envelope reaches a worker, which loads the saga before the pipeline. *)
Holding(e) ==
    [Idle EXCEPT !.pc = IF setup.idempotency = "none" THEN "inside" ELSE "loaded",
                 !.env = e, !.held = row, !.of = instances, !.isNew = row = NoSaga,
                 !.leased = TRUE]

Deliver(w, e) ==
    /\ slot[w].pc = "idle"
    /\ e \in queue
    /\ queue' = queue \ {e}
    /\ slot' = [slot EXCEPT ![w] = Holding(e)]
    /\ UNCHANGED <<setup, row, instances, marks, counters, ghosts, faults>>

(* The pipeline has come back, or has thrown. *)
Back == IF Stack THEN "returned" ELSE "done"

Returns(w) ==
    /\ slot' = [slot EXCEPT ![w] = Past(w, Back, slot[w].counts)]
    /\ settled' = settled \cup {slot[w].env.origin}

(* "failed" by an error DefaultErrorHandler takes for transient, "refused" by one it
   takes for permanent: a duplicate, an invalid message, a unique index's violation. *)
Throws(w, how) == slot' = [slot EXCEPT ![w] = Past(w, how, {})]

(* Mutant: a message is marked as soon as it is found to be new. *)
CheckAndMark(w) ==
    /\ slot[w].pc = "loaded"
    /\ slot' = [slot EXCEPT ![w] = IF slot[w].env.id \in marks THEN Past(w, "skipped", {})
                                   ELSE [slot[w] EXCEPT !.pc = "inside"]]
    /\ marks' = marks \cup {slot[w].env.id}
    /\ UNCHANGED <<setup, row, instances, queue, counters, ghosts, faults>>

(* Idempotency: has(messageId). *)
CheckMark(w) ==
    /\ slot[w].pc = "loaded"
    /\ IF slot[w].env.id \in marks
       THEN IF setup.onDuplicate = "throw" THEN Throws(w, "refused")
            ELSE slot' = [slot EXCEPT ![w] = Past(w, "skipped", {})]
       ELSE slot' = [slot EXCEPT ![w].pc =
                        IF setup.idempotency = "before" THEN "marking" ELSE "inside"]
    /\ UNCHANGED <<setup, row, instances, queue, marks, counters, ghosts, faults>>

(* Mutant: the mark is left to the way back. *)
MarkNothing(w) ==
    /\ slot[w].pc = "marking"
    /\ slot' = [slot EXCEPT ![w].pc = "inside"]
    /\ UNCHANGED <<setup, row, instances, queue, marks, counters, ghosts, faults>>

(* markTiming "before": set(messageId), and only then the handler. *)
MarkBefore(w) ==
    /\ slot[w].pc = "marking"
    /\ marks' = marks \cup {slot[w].env.id}
    /\ slot' = [slot EXCEPT ![w].pc = "inside"]
    /\ UNCHANGED <<setup, row, instances, queue, counters, ghosts, faults>>

(* Validation: an invalid message is refused, and the handler not called. *)
Invalid(w) ==
    /\ slot[w].pc = "inside" /\ ~ slot[w].env.valid
    /\ IF setup.onInvalid = "throw" THEN Throws(w, "refused") /\ UNCHANGED settled
       ELSE Returns(w)
    /\ IF setup.onInvalid = "dlq" THEN DeadLetter(slot[w].env.message.type) ELSE UNCHANGED dlq
    /\ UNCHANGED <<setup, row, instances, queue, marks, counters, processed, processedTwice,
                   forgotten, faults>>

(* No saga and no right to start one, or a saga that is over. *)
Ignore(w) ==
    /\ slot[w].pc = "inside" /\ slot[w].env.valid
    /\ IF slot[w].held = NoSaga
       THEN slot[w].env.message.type # StartsWith(setup.saga)
       ELSE slot[w].held.isCompleted
    /\ Returns(w)
    /\ UNCHANGED <<setup, row, instances, queue, marks, counters, processed, processedTwice,
                   dlq, forgotten, faults>>

(* store.insert of the initial state.  When another delivery was faster, a unique index
   refuses it; other stores take it, and lead the correlation id to it from then on. *)
Create(w) ==
    /\ slot[w].pc = "inside" /\ slot[w].env.valid
    /\ slot[w].held = NoSaga
    /\ slot[w].env.message.type = StartsWith(setup.saga)
    /\ LET first == Initial(setup.saga, setup.application)
       IN IF row = NoSaga \/ ~ setup.unique
          THEN /\ row' = first
               /\ instances' = instances + 1
               /\ slot' = [slot EXCEPT ![w].held = first, ![w].of = instances']
          ELSE Throws(w, "refused") /\ UNCHANGED <<row, instances>>
    /\ UNCHANGED <<setup, queue, marks, counters, ghosts, faults>>

(* The handler runs and publishes; what it publishes to its own saga is on its
   way before the state is saved.  Where no guard accepts the state it comes
   back unchanged, to be saved all the same. *)
Result(m, s) ==
    IF Results(m, s) = {} THEN [state |-> s, sends |-> {}]
    ELSE CHOOSE r \in Results(m, s) : TRUE

Own(sends) == {m \in sends : m.type \in HandledTypes(setup.saga)}

(* Mutant: a message no guard accepts is ignored without a save. *)
HandleMatched(w) ==
    /\ slot[w].pc = "inside" /\ slot[w].env.valid
    /\ slot[w].held # NoSaga /\ ~ slot[w].held.isCompleted
    /\ IF Results(slot[w].env.message, slot[w].held) = {}
       THEN Returns(w) /\ UNCHANGED queue
       ELSE /\ slot' = [slot EXCEPT ![w].pc = "saving"]
            /\ UNCHANGED settled
            /\ \E i \in FreeIds :
                  queue' = queue \cup {Envelope(m, TRUE, i) :
                      m \in Own(Result(slot[w].env.message, slot[w].held).sends)}
    /\ UNCHANGED <<setup, row, instances, marks, counters, processed, processedTwice, dlq,
                   forgotten, faults>>

HandleMessage(w) ==
    /\ slot[w].pc = "inside" /\ slot[w].env.valid
    /\ slot[w].held # NoSaga /\ ~ slot[w].held.isCompleted
    /\ slot' = [slot EXCEPT ![w].pc = "saving"]
    /\ \E i \in FreeIds :
          queue' = queue \cup {Envelope(m, TRUE, i) :
                                  m \in Own(Result(slot[w].env.message, slot[w].held).sends)}
    /\ UNCHANGED <<setup, row, instances, marks, counters, ghosts, faults>>

(* Mutant: every saved state counts as a new saga. *)
CountsAll(w, saved) ==
    {x \in IF Stack THEN {"created", "completed"} ELSE {} : x = "created" \/ saved.isCompleted}

(* What the metrics will count, once the save has succeeded: postState is set. *)
Counts(w, saved) ==
    {x \in IF Stack THEN {"created", "completed"} ELSE {} :
        IF x = "created" THEN slot[w].isNew ELSE saved.isCompleted}

(* store.update with the version that was loaded. *)
Loses(w) ==
    /\ slot[w].pc = "saving" /\ slot[w].stale
    /\ Throws(w, "failed")
    /\ UNCHANGED <<setup, row, instances, queue, marks, counters, ghosts, faults>>

Save(w) ==
    /\ slot[w].pc = "saving" /\ ~ slot[w].stale
    /\ LET m == slot[w].env.message
           saved == Result(m, slot[w].held).state
           arms == SetsTimeout(m, slot[w].held)
           origin == {slot[w].env.origin}
       IN /\ row' = IF slot[w].of = instances THEN saved ELSE row
          /\ slot' = [v \in Workers |->
                         IF v = w
                         THEN Past(w, IF arms THEN "arming" ELSE Back, Counts(w, saved))
                         ELSE [slot[v] EXCEPT !.stale = @ \/ slot[v].of = slot[w].of]]
          /\ settled' = IF arms THEN settled ELSE settled \cup origin
          /\ processed' = IF Stack THEN processed \cup origin ELSE {}
          /\ processedTwice' = processedTwice \cup (origin \cap processed)
    /\ UNCHANGED <<setup, instances, queue, marks, counters, dlq, forgotten, faults>>

(* scheduleTimeoutMessage publishes to an endpoint nobody has subscribed to. *)
Arm(w) ==
    /\ slot[w].pc = "arming"
    /\ Returns(w)
    /\ UNCHANGED <<setup, row, instances, queue, marks, counters, processed, processedTwice,
                   dlq, forgotten, faults>>

(* The way back through the pipeline: markTiming "after", then the metrics. *)
Counted(x, counts) == counters[x] + (IF x \in counts THEN 1 ELSE 0)

Leave(w) ==
    /\ slot[w].pc = "returned"
    /\ marks' = IF setup.idempotency = "after" THEN marks \cup {slot[w].env.id} ELSE marks
    /\ counters' = [x \in DOMAIN counters |-> Counted(x, slot[w].counts)]
    /\ slot' = [slot EXCEPT ![w] = Past(w, "done", {})]
    /\ UNCHANGED <<setup, row, instances, queue, ghosts, faults>>

(* Mutant: the attempts are never used up. *)
RetryForever(w) ==
    /\ slot[w].pc = "failed"
    /\ \E i \in FreeIds :
          queue' = queue \cup {[slot[w].env EXCEPT !.id = i, !.attempt = @ + 1]}
    /\ slot' = [slot EXCEPT ![w] = Past(w, "done", {})]
    /\ UNCHANGED <<setup, row, instances, marks, counters, ghosts, faults>>

(* The bus: a transient failure becomes a new envelope while there are attempts left,
   any other a dead letter. *)
Retry(w) ==
    /\ slot[w].pc \in {"failed", "refused"}
    /\ LET e == slot[w].env
       IN IF slot[w].pc = "failed" /\ e.attempt < MaxAttempts
          THEN /\ \E i \in FreeIds :
                    queue' = queue \cup {[e EXCEPT !.id = i, !.attempt = @ + 1]}
               /\ UNCHANGED <<settled, dlq>>
          ELSE /\ settled' = settled \cup {e.origin}
               /\ DeadLetter(e.message.type)
               /\ UNCHANGED queue
    /\ slot' = [slot EXCEPT ![w] = Past(w, "done", {})]
    /\ UNCHANGED <<setup, row, instances, marks, counters, processed, processedTwice,
                   forgotten, faults>>

(* The worker acknowledges, and the broker forgets the envelope: a copy another
   worker holds will not come back.  What nothing can deliver any more leaves
   the model. *)
Ack(w) ==
    /\ slot[w].pc \in {"done", "skipped"}
    /\ LET e == slot[w].env
       IN /\ queue' = queue \ {e}
          /\ slot' = [v \in Workers |->
                         IF v = w THEN Idle
                         ELSE [slot[v] EXCEPT !.leased = @ /\ slot[v].env # e]]
          /\ LET left == {f.origin : f \in InFlight'}
             IN /\ processed' = processed \cap left
                /\ processedTwice' = processedTwice \cap left
                /\ settled' = settled \cap left
                /\ forgotten' = (forgotten \/ e.origin \notin left \cup settled)
          /\ marks' = marks \cap {f.id : f \in InFlight'}
    /\ UNCHANGED <<setup, row, instances, counters, dlq, faults>>

-----------------------------------------------------------------------------

(* An envelope is given out once more: before its id was marked, after, or when
   the mark's windowMs is over. *)
Redelivery(e, early) ==
    \/ e.id \notin marks /\ Fault(early) /\ UNCHANGED marks
    \/ e.id \in marks /\ Fault("late") /\ UNCHANGED marks
    \/ e.id \in marks /\ Fault("expired") /\ marks' = marks \ {e.id}

(* The worker's process dies. *)
Crash(w) ==
    /\ slot[w].pc # "idle" /\ slot[w].leased
    /\ Redelivery(slot[w].env, "crash")
    /\ queue' = queue \cup {slot[w].env}
    /\ slot' = [slot EXCEPT ![w] = Idle]
    /\ UNCHANGED <<setup, row, instances, counters, ghosts>>

(* A delivery has taken so long that the broker gives it to another worker. *)
Overlap(w, v) ==
    /\ slot[w].pc = "idle" /\ slot[v].pc # "idle" /\ slot[v].leased
    /\ Redelivery(slot[v].env, "overlap")
    /\ slot' = [slot EXCEPT ![w] = Holding(slot[v].env)]
    /\ UNCHANGED <<setup, row, instances, queue, counters, ghosts>>

(* A call throws, transiently or for good: the stores', or the handler's publish;
   after the save it is the publish of the timeout, or the mark. *)
Error(w) ==
    /\ \/ slot[w].pc \in {"loaded", "marking", "inside", "saving", "arming"}
       \/ slot[w].pc = "returned" /\ setup.idempotency = "after"
    /\ Fault("error")
    /\ \E how \in {"failed", "refused"} : Throws(w, how)
    /\ UNCHANGED <<setup, row, instances, queue, marks, counters, ghosts>>

Step(w) ==
    \/ \E e \in queue : Deliver(w, e)
    \/ CheckMark(w) \/ MarkBefore(w) \/ Invalid(w) \/ Ignore(w) \/ Create(w)
    \/ HandleMessage(w) \/ Save(w) \/ Loses(w) \/ Arm(w) \/ Leave(w) \/ Retry(w) \/ Ack(w)

Next ==
    \/ Reply
    \/ \E w \in Workers : Step(w) \/ Crash(w) \/ Error(w)
    \/ \E w, v \in Workers : Overlap(w, v)

Spec == Init /\ [][Next]_vars

-----------------------------------------------------------------------------

(* The variables keep their types. *)
ExamplesTypeOK ==
    /\ setup \in Setups
    /\ row \in Sagas \cup {NoSaga}
    /\ instances \in Nat
    /\ queue \subseteq Envelopes
    /\ \A w \in Workers :
          /\ slot[w].pc \in {"idle", "loaded", "marking", "inside", "saving", "arming",
                             "returned", "failed", "refused", "skipped", "done"}
          /\ slot[w].env \in Envelopes \cup {NoEnvelope}
          /\ slot[w].held \in Sagas \cup {NoSaga}
          /\ slot[w].of \in 0 .. instances
          /\ {slot[w].stale, slot[w].isNew, slot[w].leased} \subseteq BOOLEAN
          /\ slot[w].counts \subseteq {"created", "completed"}
    /\ marks \subseteq Ids
    /\ {counters.created, counters.completed} \subseteq Nat
    /\ processedTwice \subseteq processed /\ processed \subseteq Ids /\ settled \subseteq Ids
    /\ dlq \subseteq LoanMessage \cup OrderMessage
    /\ forgotten \in BOOLEAN
    /\ faults \subseteq {"fault", "error", "crash", "overlap", "late", "expired"}

(* However the answers are reordered, repeated and raced, no step of the
   business is skipped: a loan that was paid out, and an order that was shipped,
   has everything on record that the flow at the head of its saga asks for. *)
StepsNotSkipped ==
    row # NoSaga =>
        /\ row.status = "completed" =>
              {"identityVerification", "creditCheck", "documents", "underwriting", "loan",
               "offerExpiresAt", "eSignatureId", "disbursement"}
                \cup (IF Appraised(row.application) THEN {"appraisal"} ELSE {})
              \subseteq row.has
        /\ row.status = "shipped" =>
              {"transactionId", "reservationId", "trackingNumber"} \subseteq row.has
        /\ row.isCompleted <=>
              row.status \in {"completed", "denied", "cancelled", "offer_declined",
                              "offer_expired", "shipped"}

(* A saga that waits for a message it published itself gets it: the message
   may be delivered before the state that waits for it is saved, but then the
   save runs into a conflict, because ignoring a message saves the saga too,
   and the retry publishes the message again.  Only dead-lettering ends the
   wait. *)
OwnMessagesArrive ==
    row # NoSaga =>
        \A wait \in Waits :
            row.status = wait[1] =>
                \/ \E e \in InFlight : e.message.type = wait[2]
                \/ wait[2] \in dlq

(* A message is handled and saved at most once, however often it is delivered
   and retried, except when the marks cannot know: it was delivered again before
   it was marked or after its mark had expired, or a failed call had it published
   anew while it was delivered again all the same. *)
ProcessedOnce ==
    processedTwice # {} =>
        \/ faults \cap {"overlap", "expired"} # {}
        \/ setup.idempotency = "after" /\ faults \cap {"error", "crash"} # {}
        \/ "error" \in faults /\ faults # {"error"}

(* At least once: a message leaves the broker only when its pipeline has come
   back or it is dead-lettered.  Marking before the handler gives this up for
   the worker that dies in between, and where a mark expires while a copy is
   being skipped because of it. *)
NothingForgotten ==
    forgotten =>
        /\ setup.idempotency = "before"
        /\ \/ "late" \in faults
           \/ "expired" \in faults /\ faults # {"expired"}

(* The metrics count a saga's creation and its completion at most once, and
   never a completion that did not happen; unless a store without a unique index
   has taken two instances. *)
CountedOnce ==
    /\ setup.unique => instances <= 1
    /\ instances <= 1 =>
          /\ counters.created <= 1 /\ counters.completed <= 1
          /\ counters.created = 1 => row # NoSaga
          /\ counters.completed = 1 => row.isCompleted

=============================================================================
