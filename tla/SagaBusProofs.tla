---------------------------- MODULE SagaBusProofs ----------------------------
(***************************************************************************)
(* Proofs about SagaBus.  The bus drives SagaOrchestrator step by step, so *)
(* every theorem of SagaOrchestratorProofs holds of the calls it makes;    *)
(* and it loses no message, for any number of sagas, messages, attempts,   *)
(* errors and crashes.                                                     *)
(***************************************************************************)
EXTENDS SagaBus, SagaOrchestratorProofs

(* A call runs only on behalf of an envelope, for the saga its loop is at. *)
CallHasEnvelope ==
    \A w \in Workers : pc[w] # "idle" => slot[w] # NoEnvelope /\ todo[w] # << >>

BusInv == IInv /\ BusTypeOK /\ CallHasEnvelope

-----------------------------------------------------------------------------
(* The transport's bags. *)

(* Adding an envelope to a bag keeps the others. *)
LEMMA BagAddFacts ==
    ASSUME NEW B, IsABag(B), NEW x
    PROVE  IsABag(BagAdd(B, x)) /\ DOMAIN BagAdd(B, x) = DOMAIN B \cup {x}
BY DEF IsABag, BagAdd

(* Removing an envelope from a bag keeps the others. *)
LEMMA BagRemoveFacts ==
    ASSUME NEW B, IsABag(B), NEW x
    PROVE  /\ IsABag(BagRemove(B, x))
           /\ DOMAIN BagRemove(B, x) \subseteq DOMAIN B
           /\ DOMAIN B \ {x} \subseteq DOMAIN BagRemove(B, x)
BY DEF IsABag, BagRemove

(* transport.publish adds one envelope, unless nobody subscribed its endpoint. *)
LEMMA EnqueueFacts ==
    ASSUME BusTypeOK, NEW p \in Payloads, NEW a \in Nat \ {0}, Enqueue(p, a)
    PROVE  /\ IsABag(queue')
           /\ DOMAIN queue \subseteq DOMAIN queue'
           /\ DOMAIN queue' \subseteq Envelopes
           /\ published' = published \cup {p}
           /\ published' \subseteq Payloads
           /\ Handlers[p.type] # << >> => [payload |-> p, attempt |-> a] \in DOMAIN queue'
<1> DEFINE e == [payload |-> p, attempt |-> a]
<1>1. e \in Envelopes
  BY DEF Envelopes
<1>2. IsABag(queue) /\ DOMAIN queue \subseteq Envelopes /\ published \subseteq Payloads
  BY DEF BusTypeOK
<1>3. IsABag(BagAdd(queue, e)) /\ DOMAIN BagAdd(queue, e) = DOMAIN queue \cup {e}
  BY <1>2, BagAddFacts
<1> HIDE DEF e
<1>4. queue' = IF Handlers[p.type] = << >> THEN queue ELSE BagAdd(queue, e)
  BY DEF Enqueue, e
<1>5. published' = published \cup {p}
  BY DEF Enqueue
<1> QED
  BY <1>1, <1>2, <1>3, <1>4, <1>5 DEF e

(* A dead letter is one more envelope in the dead-letter queue. *)
LEMMA DeadLetterFacts ==
    ASSUME BusTypeOK, NEW e \in Envelopes, DeadLetter(e)
    PROVE  /\ IsABag(dlq')
           /\ DOMAIN dlq' = DOMAIN dlq \cup {e}
           /\ DOMAIN dlq' \subseteq Envelopes
<1>1. IsABag(dlq) /\ DOMAIN dlq \subseteq Envelopes
  BY DEF BusTypeOK
<1> QED
  BY <1>1, BagAddFacts DEF DeadLetter

(* A slot in use holds an envelope, and its loop the sagas still to run. *)
LEMMA SlotTyped ==
    ASSUME BusTypeOK, NEW w \in Workers, slot[w] # NoEnvelope
    PROVE  /\ slot[w] \in Envelopes
           /\ slot[w].payload \in Payloads
           /\ slot[w].attempt \in Nat \ {0}
           /\ todo[w] \in Seq(SagaNames)
BY DEF BusTypeOK, Envelopes

-----------------------------------------------------------------------------
(* The bus drives the orchestrator. *)

(* A step of the bus is a step of the orchestrator or leaves it alone. *)
LEMMA BusStepRefines ==
    ASSUME BusTypeOK, [BusNext]_allVars
    PROVE  [Next]_vars
<1>1. CASE UNCHANGED allVars
  BY <1>1 DEF allVars
<1>2. CASE \E p \in Inputs : PublishInput(p)
  BY <1>2 DEF PublishInput
<1>3. ASSUME NEW w \in Workers, Deliver(w) \/ Ack(w)
      PROVE  UNCHANGED vars
  BY <1>3 DEF Deliver, Ack
<1>4. ASSUME NEW w \in Workers, Call(w)
      PROVE  Next
  <2>1. slot[w] # NoEnvelope /\ todo[w] # << >>
    BY <1>4 DEF Call
  <2>2. /\ Head(todo[w]) \in SagaNames
        /\ slot[w].payload.type \in MessageTypes
        /\ slot[w].payload.corr \in CorrelationIds \cup {NoCorrelation}
    BY <2>1, SlotTyped DEF Payloads
  <2>3. Receive(w, Head(todo[w]), slot[w].payload.type, slot[w].payload.corr)
    BY <1>4 DEF Call
  <2> QED  BY <2>2, <2>3 DEF Next
<1>5. ASSUME NEW w \in Workers, Work(w) \/ SendFromHandler(w) \/ ScheduleTimeout(w)
      PROVE  Next
  BY <1>5 DEF Work, SendFromHandler, ScheduleTimeout, Next, Step
<1>6. ASSUME NEW w \in Workers, Settle(w)
      PROVE  Next
  BY <1>6 DEF Settle, Next
<1>7. ASSUME NEW w \in Workers, Fail(w)
      PROVE  Next
  BY <1>7 DEF Fail, Next, Fault
<1>8. ASSUME NEW w \in Workers, Die(w) \/ Abandon(w)
      PROVE  Next \/ UNCHANGED vars
  BY <1>8 DEF Die, Abandon, Next, Fault, Crash, Return
<1> QED
  BY <1>1, <1>2, <1>3, <1>4, <1>5, <1>6, <1>7, <1>8 DEF BusNext, WorkerStep

(* The step of a call that has started moves that call alone. *)
LEMMA CallSteps ==
    ASSUME TypeOK, NEW w \in Workers,
           Work(w) \/ SendFromHandler(w) \/ ScheduleTimeout(w) \/ Fail(w)
    PROVE  /\ pc[w] # "idle"
           /\ \A v \in Workers \ {w} : pc'[v] = pc[v]
           /\ slot' = slot /\ todo' = todo
<1> USE DEF TypeOK, Goto, End
<1>1. CASE Work(w)
  BY <1>1 DEF Work, Load, Ignore, Skip, Create, CreateRejected, Creating, Handle, Save,
              SaveRejected, Saving, busVars
<1>2. CASE SendFromHandler(w) \/ ScheduleTimeout(w)
  BY <1>2 DEF SendFromHandler, Publish, ScheduleTimeout, Arm
<1>3. CASE Fail(w)
  BY <1>3 DEF Fail, CreateUnacked, Creating, SaveUnacked, Saving, Throw
<1> QED
  BY <1>1, <1>2, <1>3

(* Between an envelope's delivery and its acknowledgement, each call has it. *)
LEMMA CallHasEnvelopeStep ==
    ASSUME BusInv, [BusNext]_allVars
    PROVE  CallHasEnvelope'
<1>1. TypeOK /\ BusTypeOK /\ CallHasEnvelope
  BY DEF BusInv, IInv, CallInv
<1> USE DEF CallHasEnvelope
<1>2. CASE UNCHANGED allVars
  BY <1>1, <1>2 DEF allVars, vars, callVars, busVars
<1>3. CASE \E p \in Inputs : PublishInput(p)
  BY <1>1, <1>3 DEF PublishInput, vars, callVars
<1>4. ASSUME NEW w \in Workers, Deliver(w) \/ Ack(w)
      PROVE  CallHasEnvelope'
  BY <1>1, <1>4 DEF Deliver, Ack, vars, callVars, BusTypeOK
<1>5. ASSUME NEW w \in Workers, Call(w)
      PROVE  CallHasEnvelope'
  BY <1>1, <1>5 DEF Call, Receive, Goto, End, TypeOK, busVars
<1>6. ASSUME NEW w \in Workers,
             Work(w) \/ SendFromHandler(w) \/ ScheduleTimeout(w) \/ Fail(w)
      PROVE  CallHasEnvelope'
  BY <1>1, <1>6, CallSteps
<1>7. ASSUME NEW w \in Workers, Settle(w) \/ Abandon(w)
      PROVE  CallHasEnvelope'
  BY <1>1, <1>7 DEF Settle, Abandon, Return, Reset, Goto, TypeOK, BusTypeOK
<1>8. ASSUME NEW w \in Workers, Die(w)
      PROVE  CallHasEnvelope'
  BY <1>1, <1>8 DEF Die, Reset, Goto, TypeOK, BusTypeOK, vars, callVars
<1> QED
  BY <1>2, <1>3, <1>4, <1>5, <1>6, <1>7, <1>8 DEF BusNext, WorkerStep

(* The message a handler sends, and the timeout message, are well formed. *)
LEMMA SentTyped ==
    ASSUME IInv, NEW w \in Workers
    PROVE  /\ Publish(w) =>
                [type |-> Head(reply[w].sends), corr |-> job[w].corr, timer |-> NoTimer]
                    \in Payloads
           /\ Arm(w) => TimeoutSet(w) \in Payloads
<1>1. TypeOK /\ CallConsistent
  BY DEF IInv, CallInv
<1>2. ASSUME Publish(w) \/ Arm(w)
      PROVE  job[w].corr \in CorrelationIds /\ held[w] \in Row
  BY <1>1, <1>2 DEF Publish, Arm, TypeOK, CallConsistent, Jobs
<1>3. ASSUME Publish(w)
      PROVE  Head(reply[w].sends) \in MessageTypes
  <2>1. reply[w] \in Outcome
    BY <1>1, <1>3, SavedRowTyped DEF Publish
  <2>2. reply[w].sends \in Seq(MessageTypes) /\ reply[w].sends # << >>
    BY <2>1, <1>3 DEF Outcome, Publish
  <2> QED  BY <2>2
<1>4. ASSUME Arm(w)
      PROVE  [sagaId |-> held[w].sagaId, version |-> held[w].version + 1] \in Timers
  BY <1>2, <1>4 DEF Row, Timers
<1>5. TimeoutType \in MessageTypes
  BY BusAssumption
<1> QED
  BY <1>2, <1>3, <1>4, <1>5 DEF Payloads, TimeoutSet

(* Queues, slots and loops stay well formed. *)
LEMMA BusTypeOKStep ==
    ASSUME BusInv, [BusNext]_allVars
    PROVE  BusTypeOK'
<1>1. IInv /\ TypeOK /\ BusTypeOK /\ CallHasEnvelope
  BY DEF BusInv, IInv, CallInv
<1>2. CASE UNCHANGED allVars
  BY <1>1, <1>2 DEF allVars, busVars, BusTypeOK
<1>3. ASSUME NEW p \in Inputs, PublishInput(p)
      PROVE  BusTypeOK'
  <2>1. p \in Payloads /\ 1 \in Nat \ {0}
    BY BusAssumption
  <2>2. Enqueue(p, 1)
    BY <1>3 DEF PublishInput
  <2> QED
    BY <1>1, <1>3, <2>1, <2>2, EnqueueFacts DEF PublishInput, BusTypeOK
<1>4. ASSUME NEW w \in Workers, Deliver(w)
      PROVE  BusTypeOK'
  <2>1. PICK e \in BagToSet(queue) :
               /\ queue' = BagRemove(queue, e)
               /\ slot' = [slot EXCEPT ![w] = e]
               /\ todo' = [todo EXCEPT ![w] = Handlers[e.payload.type]]
    BY <1>4 DEF Deliver
  <2>2. e \in Envelopes /\ e.payload.type \in MessageTypes
    BY <1>1 DEF BusTypeOK, BagToSet, Envelopes, Payloads
  <2>3. Handlers[e.payload.type] \in Seq(SagaNames)
    BY <2>2, BusAssumption
  <2>4. IsABag(queue') /\ DOMAIN queue' \subseteq Envelopes
    BY <1>1, <2>1, BagRemoveFacts DEF BusTypeOK
  <2> QED
    BY <1>1, <1>4, <2>1, <2>2, <2>3, <2>4 DEF Deliver, BusTypeOK
<1>5. ASSUME NEW w \in Workers, Call(w) \/ Work(w)
      PROVE  BusTypeOK'
  BY <1>1, <1>5 DEF Call, Work, busVars, BusTypeOK
<1>6. ASSUME NEW w \in Workers, SendFromHandler(w) \/ ScheduleTimeout(w)
      PROVE  BusTypeOK'
  <2>1. PICK p \in Payloads : Enqueue(p, 1)
    BY <1>1, <1>6, SentTyped DEF SendFromHandler, ScheduleTimeout
  <2>2. 1 \in Nat \ {0}
    OBVIOUS
  <2> QED
    BY <1>1, <1>6, <2>1, <2>2, EnqueueFacts DEF SendFromHandler, ScheduleTimeout, BusTypeOK
<1>7. ASSUME NEW w \in Workers, Settle(w)
      PROVE  BusTypeOK'
  <2>1. slot[w] # NoEnvelope /\ todo[w] # << >>
    BY <1>1, <1>7 DEF Settle, Return, CallHasEnvelope
  <2>2. /\ slot[w] \in Envelopes /\ slot[w].payload \in Payloads
        /\ slot[w].attempt + 1 \in Nat \ {0} /\ todo[w] \in Seq(SagaNames)
    BY <1>1, <2>1, SlotTyped
  <2>3. Head(todo[w]) \in SagaNames /\ Tail(todo[w]) \in Seq(SagaNames)
    BY <2>1, <2>2
  <2>4. todo' \in [Workers -> Seq(SagaNames)]
    BY <1>1, <1>7, <2>3 DEF Settle, BusTypeOK
  <2>5. faults' \in 0 .. MaxFaults /\ redelivered' \in 0 .. faults'
    BY <1>1, <1>7, BusAssumption
       DEF Settle, Succeeded, Retry, GiveUp, CountFault, Thrown, BusTypeOK
  <2>6. CASE Succeeded(w)
    <3>1. settled' \subseteq Payloads \X SagaNames
      BY <1>1, <2>2, <2>3, <2>6 DEF Succeeded, BusTypeOK
    <3>2. IsABag(dlq') /\ DOMAIN dlq' \subseteq Envelopes
      <4>1. CASE DeadLetter(slot[w])
        BY <1>1, <2>2, <4>1, DeadLetterFacts
      <4>2. CASE dlq' = dlq
        BY <1>1, <4>2 DEF BusTypeOK
      <4> QED
        BY <2>6, <4>1, <4>2 DEF Succeeded
    <3> QED
      BY <1>1, <1>7, <2>4, <2>5, <2>6, <3>1, <3>2 DEF Settle, Succeeded, BusTypeOK
  <2>7. CASE Retry(w)
    BY <1>1, <1>7, <2>2, <2>4, <2>5, <2>7, EnqueueFacts DEF Settle, Retry, BusTypeOK
  <2>8. CASE GiveUp(w)
    BY <1>1, <1>7, <2>2, <2>4, <2>5, <2>8, DeadLetterFacts DEF Settle, GiveUp, BusTypeOK
  <2> QED
    BY <1>7, <2>6, <2>7, <2>8 DEF Settle
<1>8. ASSUME NEW w \in Workers, Ack(w) \/ Fail(w)
      PROVE  BusTypeOK'
  <2>1. CASE Ack(w)
    BY <1>1, <2>1 DEF Ack, BusTypeOK
  <2>2. CASE Fail(w)
    <3>1. faults' \in 0 .. MaxFaults /\ redelivered' \in 0 .. faults'
      BY <1>1, <2>2, BusAssumption DEF Fail, BusTypeOK
    <3> QED
      BY <1>1, <2>2, <3>1 DEF Fail, BusTypeOK
  <2> QED
    BY <1>8, <2>1, <2>2
<1>9. ASSUME NEW w \in Workers, Die(w)
      PROVE  BusTypeOK'
  <2>1. slot[w] \in Envelopes
    BY <1>1, <1>9, SlotTyped DEF Die
  <2>2. IsABag(queue') /\ DOMAIN queue' \subseteq Envelopes
    <3>1. IsABag(queue) /\ DOMAIN queue \subseteq Envelopes
      BY <1>1 DEF BusTypeOK
    <3>2. queue' = BagAdd(queue, slot[w])
      BY <1>9 DEF Die, GiveBack
    <3>3. /\ IsABag(BagAdd(queue, slot[w]))
          /\ DOMAIN BagAdd(queue, slot[w]) = DOMAIN queue \cup {slot[w]}
      BY <3>1, BagAddFacts
    <3> QED
      BY <2>1, <3>1, <3>2, <3>3
  <2>3. faults' \in 0 .. MaxFaults /\ redelivered' \in 0 .. faults'
    BY <1>1, <1>9, BusAssumption DEF Die, GiveBack, BusTypeOK
  <2>4. << >> \in Seq(SagaNames)
    OBVIOUS
  <2> QED
    BY <1>1, <1>9, <2>2, <2>3, <2>4 DEF Die, BusTypeOK
<1>10. ASSUME NEW w \in Workers, Abandon(w)
      PROVE  BusTypeOK'
  <2>1. slot[w] \in Envelopes
    BY <1>1, <1>10, SlotTyped DEF Abandon, Return, CallHasEnvelope
  <2>2. IsABag(queue) /\ DOMAIN queue \subseteq Envelopes
    BY <1>1 DEF BusTypeOK
  <2>3. /\ IsABag(BagAdd(queue, slot[w]))
        /\ DOMAIN BagAdd(queue, slot[w]) = DOMAIN queue \cup {slot[w]}
    BY <2>2, BagAddFacts
  <2>4. IsABag(queue') /\ DOMAIN queue' \subseteq Envelopes
    BY <1>10, <2>1, <2>2, <2>3 DEF Abandon, GiveBack
  <2>5. faults' \in 0 .. MaxFaults /\ redelivered' \in 0 .. faults'
    BY <1>1, <1>10, BusAssumption DEF Abandon, GiveBack, BusTypeOK
  <2>6. << >> \in Seq(SagaNames)
    OBVIOUS
  <2> QED
    BY <1>1, <1>10, <2>4, <2>5, <2>6 DEF Abandon, BusTypeOK
<1> QED
  BY <1>2, <1>3, <1>4, <1>5, <1>6, <1>7, <1>8, <1>9, <1>10 DEF BusNext, WorkerStep

-----------------------------------------------------------------------------

(* At the start no message is on its way. *)
LEMMA BusInvInit == BusInit => BusInv
<1>1. SUFFICES ASSUME BusInit PROVE BusInv
  OBVIOUS
<1>2. IInv
  BY <1>1, IInvInit DEF BusInit
<1>3. IsABag(EmptyBag) /\ DOMAIN EmptyBag = {}
  BY DEF IsABag, EmptyBag, SetToBag
<1>4. BusTypeOK
  BY <1>1, <1>3, BusAssumption DEF BusInit, BusTypeOK
<1>5. CallHasEnvelope
  BY <1>1 DEF BusInit, Init, CallHasEnvelope
<1> QED
  BY <1>2, <1>4, <1>5 DEF BusInv

(* BusInv is inductive. *)
LEMMA BusInvStep == BusInv /\ [BusNext]_allVars => BusInv'
BY BusStepRefines, IInvStep, CallHasEnvelopeStep, BusTypeOKStep DEF BusInv

(* BusInv holds in every state of the bus. *)
LEMMA BusInvariant == BusSpec => []BusInv
BY BusInvInit, BusInvStep, PTL DEF BusSpec

(* Whatever the bus does, its calls behave as SagaOrchestrator says: each theorem
   about the orchestrator holds of the running bus. *)
THEOREM BusDrivesOrchestrator == BusSpec => Spec
<1>1. BusInit => Init
  BY DEF BusInit
<1>2. BusInv /\ [BusNext]_allVars => [Next]_vars
  BY BusStepRefines DEF BusInv
<1> QED
  BY <1>1, <1>2, BusInvariant, PTL DEF BusSpec, Spec

(* So an application that sees sagas only through the bus sees atomic ones: deliveries,
   retries, dead letters and crashes of the bus are steps or stutters of AtomicSagas. *)
THEOREM BusImplementsAtomicSagas == BusSpec => AtomicSpec
BY BusDrivesOrchestrator, ImplementsAtomicSagas

(* Queues, slots, loops and dead letters hold well-formed envelopes. *)
THEOREM BusTypeCorrect == BusSpec => []BusTypeOK
<1>1. BusInv => BusTypeOK
  BY DEF BusInv
<1> QED
  BY <1>1, BusInvariant, PTL

-----------------------------------------------------------------------------
(* No message is lost. *)

(* What an action must not take away for a pair to stay accounted for. *)
LEMMA StaysAccounted ==
    ASSUME NEW p, NEW s, AccountedFor(p, s),
           settled \subseteq settled',
           DOMAIN dlq \subseteq DOMAIN dlq',
           \A e \in DOMAIN queue : e.payload = p => AccountedFor(p, s)',
           \A w \in Workers :
              slot[w] # NoEnvelope /\ slot[w].payload = p /\ s \in Range(todo[w])
                 => AccountedFor(p, s)'
    PROVE  AccountedFor(p, s)'
BY DEF AccountedFor, BagToSet

(* The head of a loop's list is the saga being run, the tail the others. *)
LEMMA RangeHeadTail ==
    ASSUME NEW S, NEW q \in Seq(S), q # << >>, NEW s \in Range(q)
    PROVE  s = Head(q) \/ s \in Range(Tail(q))
<1>1. PICK i \in DOMAIN q : q[i] = s
  BY DEF Range
<1>2. i \in 1 .. Len(q)
  BY <1>1
<1>3. CASE i = 1
  BY <1>1, <1>3
<1>4. CASE i > 1
  <2>1. i - 1 \in 1 .. Len(Tail(q)) /\ Tail(q)[i - 1] = q[i]
    BY <1>2, <1>4
  <2>2. i - 1 \in DOMAIN Tail(q)
    BY <2>1
  <2> QED
    BY <1>1, <2>1, <2>2 DEF Range
<1> QED
  BY <1>2, <1>3, <1>4

(* A message in the queue, or among the dead letters, is accounted for. *)
LEMMA QueuedIsAccounted ==
    ASSUME NEW p, NEW s, NEW e, e.payload = p
    PROVE  /\ e \in DOMAIN queue' => AccountedFor(p, s)'
           /\ e \in DOMAIN dlq' => AccountedFor(p, s)'
BY DEF AccountedFor, BagToSet

(* One more message on its way does not unaccount the others, and is itself in
   the queue unless nobody handles it. *)
LEMMA EnqueueAccounts ==
    ASSUME BusTypeOK, NothingLost, NEW q \in Payloads, NEW a \in Nat \ {0}, Enqueue(q, a),
           UNCHANGED <<slot, todo, settled, dlq>>
    PROVE  NothingLost'
<1> SUFFICES ASSUME NEW p \in published', NEW s \in Range(Handlers[p.type])
             PROVE  AccountedFor(p, s)'
  BY DEF NothingLost
<1>1. /\ DOMAIN queue \subseteq DOMAIN queue'
      /\ published' = published \cup {q}
      /\ Handlers[q.type] # << >> => [payload |-> q, attempt |-> a] \in DOMAIN queue'
  BY EnqueueFacts
<1>2. CASE p \in published
  <2>1. AccountedFor(p, s)
    BY <1>2 DEF NothingLost
  <2> QED
    BY <1>1, <2>1 DEF AccountedFor, BagToSet
<1>3. CASE p = q
  <2>1. Handlers[q.type] # << >>
    BY <1>3 DEF Range
  <2> DEFINE e == [payload |-> q, attempt |-> a]
  <2>2. e \in DOMAIN queue' /\ e.payload = p
    BY <1>1, <1>3, <2>1
  <2> QED
    BY <2>2, QueuedIsAccounted
<1> QED
  BY <1>1, <1>2, <1>3

(* Every action keeps every published message accounted for. *)
LEMMA AccountedStep ==
    ASSUME BusInv, RequeuesRejected, NothingLost, [BusNext]_allVars
    PROVE  NothingLost'
<1>1. IInv /\ BusTypeOK /\ CallHasEnvelope
  BY DEF BusInv
<1>2. CASE UNCHANGED busVars
  BY <1>2 DEF busVars, NothingLost, AccountedFor
<1>3. ASSUME NEW p \in Inputs, PublishInput(p)
      PROVE  NothingLost'
  <2>1. p \in Payloads /\ 1 \in Nat \ {0}
    BY BusAssumption
  <2> QED
    BY <1>1, <1>3, <2>1, EnqueueAccounts DEF PublishInput
<1>4. ASSUME NEW w \in Workers, SendFromHandler(w) \/ ScheduleTimeout(w)
      PROVE  NothingLost'
  <2>1. PICK p \in Payloads : Enqueue(p, 1)
    BY <1>1, <1>4, SentTyped DEF SendFromHandler, ScheduleTimeout
  <2>2. UNCHANGED <<slot, todo, settled, dlq>>
    BY <1>4 DEF SendFromHandler, ScheduleTimeout
  <2> QED
    BY <1>1, <2>1, <2>2, EnqueueAccounts
<1>5. ASSUME NEW w \in Workers, Deliver(w)
      PROVE  NothingLost'
  <2>1. PICK e \in BagToSet(queue) :
               /\ queue' = BagRemove(queue, e)
               /\ slot' = [slot EXCEPT ![w] = e]
               /\ todo' = [todo EXCEPT ![w] = Handlers[e.payload.type]]
    BY <1>5 DEF Deliver
  <2>2. slot[w] = NoEnvelope /\ UNCHANGED <<dlq, published, settled>>
    BY <1>5 DEF Deliver
  <2>3. e \in Envelopes
    BY <1>1, <2>1 DEF BusTypeOK, BagToSet
  <2>4. e # NoEnvelope
    BY <2>3, BusAssumption
  <2>5. slot'[w] = e /\ todo'[w] = Handlers[e.payload.type]
    BY <1>1, <2>1 DEF BusTypeOK
  <2>6. DOMAIN queue \ {e} \subseteq DOMAIN queue'
    BY <1>1, <2>1, BagRemoveFacts DEF BusTypeOK
  <2>7. ASSUME NEW p \in published', NEW s \in Range(Handlers[p.type])
        PROVE  AccountedFor(p, s)'
    <3>1. AccountedFor(p, s)
      BY <2>2 DEF NothingLost
    <3>2. e.payload = p => AccountedFor(p, s)'
      BY <2>4, <2>5 DEF AccountedFor
    <3>3. \A f \in DOMAIN queue : f.payload = p => AccountedFor(p, s)'
      BY <2>6, <3>2, QueuedIsAccounted
    <3>4. \A v \in Workers : slot[v] # NoEnvelope => slot'[v] = slot[v] /\ todo'[v] = todo[v]
      BY <1>1, <2>1, <2>2 DEF BusTypeOK
    <3> QED
      BY <2>2, <3>1, <3>3, <3>4, StaysAccounted DEF AccountedFor
  <2> QED
    BY <2>7 DEF NothingLost
<1>6. ASSUME NEW w \in Workers, Settle(w)
      PROVE  NothingLost'
  <2>1. slot[w] # NoEnvelope /\ todo[w] # << >>
    BY <1>1, <1>6 DEF Settle, Return, CallHasEnvelope
  <2>2. /\ slot[w] \in Envelopes /\ slot[w].payload \in Payloads
        /\ slot[w].attempt + 1 \in Nat \ {0} /\ todo[w] \in Seq(SagaNames)
    BY <1>1, <2>1, SlotTyped
  <2>3. slot' = slot /\ todo' = [todo EXCEPT ![w] = Tail(todo[w])]
    BY <1>6 DEF Settle
  <2>4. todo'[w] = Tail(todo[w]) /\ \A v \in Workers \ {w} : todo'[v] = todo[v]
    BY <1>1, <2>3 DEF BusTypeOK
  <2> PICK q : q = slot[w].payload
    OBVIOUS
  <2>5. /\ settled \subseteq settled'
        /\ DOMAIN dlq \subseteq DOMAIN dlq'
        /\ DOMAIN queue \subseteq DOMAIN queue'
        /\ published' \subseteq published \cup {q}
        /\ \A s \in Range(Handlers[q.type]) : s = Head(todo[w]) => AccountedFor(q, s)'
        /\ q \in published' \ published =>
              \A s \in Range(Handlers[q.type]) : AccountedFor(q, s)'
    <3>1. CASE Succeeded(w)
      <4>1. DOMAIN dlq \subseteq DOMAIN dlq'
        BY <1>1, <2>2, <3>1, DeadLetterFacts DEF Succeeded
      <4>2. settled' = settled \cup {<<q, Head(todo[w])>>} /\ queue' = queue
            /\ published' = published
        BY <3>1 DEF Succeeded
      <4>3. ASSUME NEW s, s = Head(todo[w])
            PROVE  AccountedFor(q, s)'
        <5>1. <<q, s>> \in settled'
          BY <4>2, <4>3
        <5> QED
          BY <5>1 DEF AccountedFor
      <4> QED
        BY <4>1, <4>2, <4>3
    <3>2. CASE Retry(w)
      <4>1. Enqueue(q, slot[w].attempt + 1) /\ dlq' = dlq /\ settled' = settled
        BY <3>2 DEF Retry
      <4>2. /\ DOMAIN queue \subseteq DOMAIN queue'
            /\ published' = published \cup {q}
            /\ Handlers[q.type] # << >> =>
                  [payload |-> q, attempt |-> slot[w].attempt + 1] \in DOMAIN queue'
        BY <1>1, <2>2, <4>1, EnqueueFacts
      <4>3. ASSUME NEW s \in Range(Handlers[q.type])
            PROVE  AccountedFor(q, s)'
        <5>1. Handlers[q.type] # << >>
          BY DEF Range
        <5> DEFINE e == [payload |-> q, attempt |-> slot[w].attempt + 1]
        <5>2. e \in DOMAIN queue' /\ e.payload = q
          BY <4>2, <5>1
        <5> QED
          BY <5>2, QueuedIsAccounted
      <4> QED
        BY <4>1, <4>2, <4>3
    <3>3. CASE GiveUp(w)
      <4>1. DeadLetter(slot[w]) /\ UNCHANGED <<queue, published, settled>>
        BY <3>3 DEF GiveUp
      <4>2. DOMAIN dlq \subseteq DOMAIN dlq' /\ slot[w] \in DOMAIN dlq'
        BY <1>1, <2>2, <4>1, DeadLetterFacts
      <4> QED
        BY <4>1, <4>2, QueuedIsAccounted
    <3> QED
      BY <1>6, <3>1, <3>2, <3>3 DEF Settle
  <2>6. ASSUME NEW p \in published', NEW s \in Range(Handlers[p.type])
        PROVE  AccountedFor(p, s)'
    <3>1. CASE p \notin published
      BY <2>5, <3>1
    <3>2. CASE p \in published
      <4>1. AccountedFor(p, s)
        BY <3>2 DEF NothingLost
      <4>2. \A e \in DOMAIN queue : e.payload = p => AccountedFor(p, s)'
        BY <2>5, QueuedIsAccounted
      <4>3. ASSUME NEW v \in Workers, slot[v] # NoEnvelope, slot[v].payload = p,
                   s \in Range(todo[v])
            PROVE  AccountedFor(p, s)'
        <5>1. CASE s \in Range(todo'[v])
          BY <2>3, <4>3, <5>1 DEF AccountedFor
        <5>2. CASE v = w /\ s = Head(todo[w])
          BY <2>5, <4>3, <5>2
        <5> QED
          BY <2>2, <2>1, <2>4, <4>3, <5>1, <5>2, RangeHeadTail
      <4> QED
        BY <2>5, <4>1, <4>2, <4>3, StaysAccounted
    <3> QED
      BY <3>1, <3>2
  <2> QED
    BY <2>6 DEF NothingLost
<1>7. ASSUME NEW w \in Workers, Ack(w)
      PROVE  NothingLost'
  <2>1. /\ slot' = [slot EXCEPT ![w] = NoEnvelope]
        /\ todo[w] = << >>
        /\ UNCHANGED <<queue, dlq, todo, published, settled>>
    BY <1>7 DEF Ack
  <2>2. Range(todo[w]) = {}
    BY <2>1 DEF Range
  <2>3. \A v \in Workers \ {w} : slot'[v] = slot[v]
    BY <1>1, <2>1 DEF BusTypeOK
  <2>4. ASSUME NEW p \in published', NEW s \in Range(Handlers[p.type])
        PROVE  AccountedFor(p, s)'
    <3>1. AccountedFor(p, s)
      BY <2>1 DEF NothingLost
    <3> QED
      BY <2>1, <2>2, <2>3, <3>1, StaysAccounted, QueuedIsAccounted DEF AccountedFor
  <2> QED
    BY <2>4 DEF NothingLost
<1>8. ASSUME NEW w \in Workers, Die(w) \/ Abandon(w)
      PROVE  NothingLost'
  <2>1. /\ slot[w] # NoEnvelope
        /\ queue' = BagAdd(queue, slot[w])
        /\ slot' = [slot EXCEPT ![w] = NoEnvelope]
        /\ todo' = [todo EXCEPT ![w] = << >>]
        /\ UNCHANGED <<dlq, published, settled>>
    <3>1. CASE Die(w)
      BY <3>1 DEF Die, GiveBack
    <3>2. CASE Abandon(w)
      BY <1>1, <3>2 DEF Abandon, GiveBack, Return, CallHasEnvelope
    <3> QED
      BY <1>8, <3>1, <3>2
  <2>2. DOMAIN queue' = DOMAIN queue \cup {slot[w]}
    <3>1. IsABag(queue)
      BY <1>1 DEF BusTypeOK
    <3>2. DOMAIN BagAdd(queue, slot[w]) = DOMAIN queue \cup {slot[w]}
      BY <3>1, BagAddFacts
    <3> QED
      BY <2>1, <3>2
  <2>3. \A v \in Workers \ {w} : slot'[v] = slot[v] /\ todo'[v] = todo[v]
    BY <1>1, <2>1 DEF BusTypeOK
  <2>4. ASSUME NEW p \in published', NEW s \in Range(Handlers[p.type])
        PROVE  AccountedFor(p, s)'
    <3>1. AccountedFor(p, s)
      BY <2>1 DEF NothingLost
    <3>2. \A e \in DOMAIN queue : e.payload = p => AccountedFor(p, s)'
      BY <2>2, QueuedIsAccounted
    <3>3. slot[w].payload = p => AccountedFor(p, s)'
      BY <2>2, QueuedIsAccounted
    <3>4. \A v \in Workers \ {w} :
             slot[v] # NoEnvelope /\ slot[v].payload = p /\ s \in Range(todo[v])
                => AccountedFor(p, s)'
      BY <2>3 DEF AccountedFor
    <3> QED
      BY <2>1, <3>1, <3>2, <3>3, <3>4, StaysAccounted
  <2> QED
    BY <2>4 DEF NothingLost
<1>9. ASSUME NEW w \in Workers, Call(w) \/ Work(w) \/ Fail(w)
      PROVE  NothingLost'
  <2>1. UNCHANGED <<queue, dlq, slot, todo, published, settled>>
    BY <1>9 DEF Call, Work, Fail, busVars
  <2> QED
    BY <2>1 DEF NothingLost, AccountedFor
<1> QED
  BY <1>2, <1>3, <1>4, <1>5, <1>6, <1>7, <1>8, <1>9 DEF BusNext, WorkerStep, allVars

(* However calls interleave, fail or die, and however many sagas share a message,
   the bus never loses a published message on its way to a saga that handles it, on
   a transport that gives back a message whose handler threw. *)
THEOREM NoMessageLost == BusSpec => []Accounted
<1>1. BusInit => Accounted
  BY DEF BusInit, Accounted, NothingLost
<1>2. BusInv /\ Accounted /\ [BusNext]_allVars => Accounted'
  BY AccountedStep DEF Accounted
<1> QED
  BY <1>1, <1>2, BusInvariant, PTL DEF BusSpec

=============================================================================
