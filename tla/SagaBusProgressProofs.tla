------------------------ MODULE SagaBusProgressProofs ------------------------
(***************************************************************************)
(* Proofs about what calls of the bus find, leave and cost, for any number *)
(* of sagas, messages, workers and attempts: a message only a saga's own   *)
(* handlers send finds the saga, without faults a pending timeout has been *)
(* published or is about to be, and a conflict never burns an attempt for  *)
(* nothing.                                                                *)
(***************************************************************************)
EXTENDS SagaBusProofs

(* A call works on the message in its slot, for the saga its loop is at, and all that
   is queued or in a slot was published. *)
CallsFollowSlots ==
    /\ \A w \in Workers : pc[w] # "idle" =>
          /\ job[w].saga = Head(todo[w])
          /\ job[w].type = slot[w].payload.type
          /\ job[w].corr = slot[w].payload.corr
    /\ \A e \in DOMAIN queue : e.payload \in published
    /\ \A w \in Workers : slot[w] # NoEnvelope => slot[w].payload \in published

(* The bus deletes no instance: whatever row a call holds or the index leads to is
   still there, and every row is found under its key. *)
RowsStay ==
    /\ \A w \in Workers : held[w] # NoRow => Live(held[w].sagaId)
    /\ \A key \in Keys : correlationIndex[key] # NoSaga => Live(correlationIndex[key])
    /\ \A id \in SagaIds : Live(id) => correlationIndex[rows[id].key] # NoSaga

(* A handler's pending messages are messages that handlers of its saga send. *)
SendsAreHandlers ==
    \A w \in Workers : pc[w] = "running" =>
        \A t \in Range(reply[w].sends) :
            \E u \in MessageTypes, d \in Data :
                \E o \in Handler[job[w].saga, u, d] : t \in Range(o.sends)

(* A published message of a type only the saga sends is one for an instance. *)
OwnSendsHaveSaga ==
    \A p \in published, s \in SagaNames : p.type \in SentOnlyBy(s) =>
        /\ p.corr \in CorrelationIds
        /\ GetByCorrelationId(<<s, p.corr>>) # NoRow

(* The inductive invariant behind OwnSendsFindSaga. *)
SendsInv ==
    CallsFollowSlots /\ RowsStay /\ SendsAreHandlers /\ OwnSendsHaveSaga /\ OwnSendsFindSaga

(* TimeoutArmed, with the version that the call on its way is to publish. *)
ArmingAsShown ==
    faults = 0 =>
        \A id \in SagaIds : PendingTimeout(id) =>
            \/ TimeoutPublished(id)
            \/ \E w \in Workers :
                  /\ pc[w] = "arming"
                  /\ held[w].sagaId = id
                  /\ held[w].version + 1 = rows[id].timeout

(* Each message type has one saga at most. *)
OneSagaPerType == \A t \in MessageTypes : Len(Handlers[t]) <= 1

(* An instance of the saga is at a version the attempts before this one account for. *)
Advanced(saga, corr, n) ==
    \E id \in SagaIds : Live(id) /\ rows[id].key = <<saga, corr>> /\ n <= rows[id].version

(* An envelope's attempts are accounted for. *)
Earned(e) ==
    e.attempt = 1 \/ Advanced(Head(Handlers[e.payload.type]), e.payload.corr, e.attempt - 1)

(* While there are no faults: every attempt is accounted for, a call that is to save
   holds a row its attempts account for, and only conflicts are ever retried. *)
AttemptsEarned ==
    /\ \A e \in DOMAIN queue : Earned(e)
    /\ \A w \in Workers : slot[w] # NoEnvelope =>
          /\ Earned(slot[w])
          /\ todo[w] # << >> => todo[w] = Handlers[slot[w].payload.type]
    /\ \A w \in Workers : pc[w] \in {"loaded", "running"} =>
          IF held[w] = NoRow THEN slot[w].attempt = 1
                             ELSE slot[w].attempt - 1 <= held[w].version
    /\ \A w \in Workers : pc[w] = "done" =>
          /\ result[w] # "transient"
          /\ result[w] = "conflict" => Advanced(job[w].saga, job[w].corr, slot[w].attempt)

-----------------------------------------------------------------------------
(* What a step of the bus does to the store and to a call. *)

(* The store changes by an insert or by the save of a running call, and not else. *)
LEMMA BusStoreSteps ==
    ASSUME [BusNext]_allVars
    PROVE  \/ UNCHANGED storeVars
           \/ \E w \in Workers, id \in SagaIds : Creating(w, id) /\ Insert(NewRow(w, id))
           \/ \E w \in Workers : Saving(w) /\ Update(SavedRow(w), held[w].version)
<1>1. CASE UNCHANGED allVars
  BY <1>1 DEF allVars, vars
<1>2. CASE \E p \in Inputs : PublishInput(p)
  BY <1>2 DEF PublishInput, vars
<1>3. ASSUME NEW w \in Workers, Deliver(w) \/ Ack(w) \/ Call(w) \/ SendFromHandler(w)
                                  \/ ScheduleTimeout(w) \/ Settle(w) \/ Abandon(w) \/ Die(w)
      PROVE  UNCHANGED storeVars
  BY <1>3 DEF Deliver, Ack, Call, SendFromHandler, ScheduleTimeout, Settle, Abandon, Die,
              Receive, Publish, Arm, Return, Reset, vars
<1>4. ASSUME NEW w \in Workers, Work(w)
      PROVE  \/ UNCHANGED storeVars
             \/ \E id \in SagaIds : Creating(w, id) /\ Insert(NewRow(w, id))
             \/ Saving(w) /\ Update(SavedRow(w), held[w].version)
  BY <1>4 DEF Work, Load, Ignore, Skip, Create, CreateRejected, Handle, Save, SaveRejected
<1>5. ASSUME NEW w \in Workers, Fail(w)
      PROVE  \/ UNCHANGED storeVars
             \/ \E id \in SagaIds : Creating(w, id) /\ Insert(NewRow(w, id))
             \/ Saving(w) /\ Update(SavedRow(w), held[w].version)
  BY <1>5 DEF Fail, CreateUnacked, SaveUnacked, Throw
<1>. QED
  BY <1>1, <1>2, <1>3, <1>4, <1>5 DEF BusNext, WorkerStep

(* An insert, seen on the rows and the index. *)
LEMMA InsertFacts ==
    ASSUME IInv, NEW w \in Workers, NEW id \in SagaIds, Creating(w, id), Insert(NewRow(w, id))
    PROVE  /\ ~ Live(id)
           /\ rows'[id] = NewRow(w, id) /\ Live(id)'
           /\ NewRow(w, id) \in Row
           /\ NewRow(w, id).key = Key(w) /\ Key(w) \in Keys
           /\ NewRow(w, id).sagaId = id /\ NewRow(w, id).version = 0
           /\ NewRow(w, id).timeout = NoTimeout
           /\ \A i \in SagaIds : i # id => rows'[i] = rows[i]
           /\ correlationIndex'[Key(w)] = id
           /\ \A key \in Keys : key # Key(w) => correlationIndex'[key] = correlationIndex[key]
<1>1. TypeOK /\ CallConsistent
  BY DEF IInv, CallInv
<1>2. NewRow(w, id) \in Row /\ Key(w) \in Keys
  BY <1>1, NewRowTyped
<1>3. NewRow(w, id) # NoRow
  BY <1>2, StoreAssumption
<1>4. /\ NewRow(w, id).sagaId = id /\ NewRow(w, id).key = Key(w)
      /\ NewRow(w, id).version = 0 /\ NewRow(w, id).timeout = NoTimeout
  BY DEF NewRow
<1>. QED
  BY <1>1, <1>2, <1>3, <1>4 DEF Insert, CanInsert, Live, TypeOK, StoreTypeOK

(* A save, seen on the rows and the index: it replaces the row the call holds. *)
LEMMA SaveFacts ==
    ASSUME IInv, NEW w \in Workers, Saving(w), Update(SavedRow(w), held[w].version)
    PROVE  /\ held[w] \in Row /\ held[w].sagaId \in SagaIds /\ Live(held[w].sagaId)
           /\ rows[held[w].sagaId] = held[w]
           /\ rows'[held[w].sagaId] = SavedRow(w) /\ rows'[held[w].sagaId] # NoRow
           /\ SavedRow(w) \in Row
           /\ \A i \in SagaIds : i # held[w].sagaId => rows'[i] = rows[i]
           /\ correlationIndex' = correlationIndex
<1>1. TypeOK /\ CallConsistent /\ HeldIsPast
  BY DEF IInv, CallInv
<1>2. SavedRow(w) \in Row /\ held[w] \in Row
  BY <1>1, SavedRowTyped DEF Saving
<1>3. SavedRow(w) # NoRow /\ held[w] # NoRow
  BY <1>2, StoreAssumption
<1>4. SavedRow(w).sagaId = held[w].sagaId
  BY DEF SavedRow
<1>5. held[w].sagaId \in SagaIds
  BY <1>2 DEF Row
<1>6. Live(held[w].sagaId) /\ rows[held[w].sagaId].version = held[w].version
  BY <1>4 DEF Update, VersionMatches
<1>7. rows[held[w].sagaId] = held[w]
  BY <1>1, <1>3, <1>6 DEF HeldIsPast, Live
<1>8. /\ rows' = [rows EXCEPT ![held[w].sagaId] = SavedRow(w)]
      /\ correlationIndex' = correlationIndex
  BY <1>4 DEF Update
<1>9. /\ rows'[held[w].sagaId] = SavedRow(w)
      /\ \A i \in SagaIds : i # held[w].sagaId => rows'[i] = rows[i]
  BY <1>1, <1>5, <1>8 DEF TypeOK, StoreTypeOK
<1>. QED
  BY <1>2, <1>3, <1>5, <1>6, <1>7, <1>8, <1>9 DEF Live

(* An instance once there stays, under its key, and its version only grows. *)
LEMMA RowsGrow ==
    ASSUME BusInv, [BusNext]_allVars, NEW id \in SagaIds, Live(id)
    PROVE  /\ Live(id)' /\ rows'[id] \in Row
           /\ rows'[id].key = rows[id].key
           /\ rows[id].version <= rows'[id].version
<1>1. IInv /\ TypeOK
  BY DEF BusInv, IInv, CallInv
<1>2. rows[id] \in Row /\ rows[id].version \in Nat
  BY <1>1 DEF Live, TypeOK, StoreTypeOK, Row
<1>3. CASE UNCHANGED storeVars
  BY <1>2, <1>3 DEF storeVars, Live
<1>4. ASSUME NEW w \in Workers, NEW i \in SagaIds, Creating(w, i), Insert(NewRow(w, i))
      PROVE  rows'[id] = rows[id]
  BY <1>1, <1>4, InsertFacts
<1>5. ASSUME NEW w \in Workers, Saving(w), Update(SavedRow(w), held[w].version)
      PROVE  \/ rows'[id] = rows[id]
             \/ /\ rows'[id] \in Row /\ Live(id)'
                /\ rows'[id].key = rows[id].key
                /\ rows'[id].version = rows[id].version + 1
  <2>1. SavedRow(w).key = held[w].key /\ SavedRow(w).version = held[w].version + 1
    BY DEF SavedRow
  <2>2. /\ rows[held[w].sagaId] = held[w]
        /\ rows'[held[w].sagaId] = SavedRow(w) /\ rows'[held[w].sagaId] # NoRow
        /\ SavedRow(w) \in Row
        /\ \A j \in SagaIds : j # held[w].sagaId => rows'[j] = rows[j]
    BY <1>1, <1>5, SaveFacts
  <2>3. CASE id = held[w].sagaId
    <3>1. rows'[id] = SavedRow(w) /\ rows[id] = held[w] /\ rows'[id] # NoRow
      BY <2>2, <2>3
    <3>. QED
      BY <2>1, <2>2, <3>1 DEF Live
  <2>. QED
    BY <2>2, <2>3
<1>. QED
  BY <1>2, <1>3, <1>4, <1>5, BusStoreSteps DEF Live

(* A call that a step does not touch. *)
Untouched(v) ==
    /\ pc'[v] = pc[v] /\ job'[v] = job[v] /\ held'[v] = held[v]
    /\ reply'[v] = reply[v] /\ result'[v] = result[v]

(* A call that a step ends or takes past its save. *)
Ends(v) ==
    /\ pc[v] # "idle" /\ pc'[v] \in {"arming", "done"}
    /\ job'[v] = job[v] /\ held'[v] = held[v] /\ reply'[v] = reply[v]
    /\ slot' = slot /\ todo' = todo
    /\ pc'[v] = "arming" => Save(v) /\ MustArm(v)
    /\ pc'[v] = "done" /\ result'[v] = "conflict" => SaveRejected(v)
    /\ pc'[v] = "done" /\ result'[v] = "transient" => faults' = faults + 1

(* What a step of the bus may do to a call. *)
LEMMA CallMoves ==
    ASSUME BusInv, [BusNext]_allVars, NEW v \in Workers
    PROVE  \/ Untouched(v)
           \/ pc'[v] = "idle" /\ held'[v] = NoRow
           \/ Call(v)
           \/ Load(v) /\ UNCHANGED busVars
           \/ (\E id \in SagaIds : Create(v, id)) /\ UNCHANGED busVars
           \/ Handle(v) /\ UNCHANGED busVars
           \/ SendFromHandler(v)
           \/ Ends(v)
<1>1. TypeOK /\ BusTypeOK /\ CallHasEnvelope
  BY DEF BusInv, IInv, CallInv
<1>. USE DEF TypeOK, Goto, End, Untouched
<1>2. CASE UNCHANGED allVars
  BY <1>2 DEF allVars, vars, callVars
<1>3. CASE \E p \in Inputs : PublishInput(p)
  BY <1>3 DEF PublishInput, vars, callVars
<1>4. ASSUME NEW w \in Workers, Deliver(w) \/ Ack(w) PROVE Untouched(v)
  BY <1>4 DEF Deliver, Ack, vars, callVars
<1>5. ASSUME NEW w \in Workers, w # v, Call(w) PROVE Untouched(v)
  BY <1>1, <1>5 DEF Call, Receive
<1>6. ASSUME NEW w \in Workers, w # v, Work(w) PROVE Untouched(v)
  BY <1>1, <1>6 DEF Work, Load, Ignore, Skip, Create, Creating, CreateRejected, Handle, Save,
                    SaveRejected
<1>7. ASSUME NEW w \in Workers, w # v, SendFromHandler(w) \/ ScheduleTimeout(w) \/ Fail(w)
      PROVE  Untouched(v)
  BY <1>1, <1>7 DEF SendFromHandler, Publish, ScheduleTimeout, Arm, Fail, CreateUnacked,
                    Creating, SaveUnacked, Throw
<1>8. ASSUME NEW w \in Workers, Settle(w) \/ Abandon(w) \/ Die(w)
      PROVE  Untouched(v) \/ (pc'[v] = "idle" /\ held'[v] = NoRow)
  BY <1>1, <1>8 DEF Settle, Abandon, Die, Return, Reset, vars, callVars
<1>9. ASSUME Work(v)
      PROVE  \/ Load(v) /\ UNCHANGED busVars
             \/ (\E id \in SagaIds : Create(v, id)) /\ UNCHANGED busVars
             \/ Handle(v) /\ UNCHANGED busVars
             \/ Ends(v)
  <2>0. slot' = slot /\ todo' = todo
    BY <1>9 DEF Work, busVars
  <2>1. ASSUME Ignore(v) \/ Skip(v) PROVE Ends(v)
    BY <1>1, <2>0, <2>1 DEF Ignore, Skip, Ends
  <2>2. ASSUME NEW id \in SagaIds, CreateRejected(v, id) PROVE Ends(v)
    BY <1>1, <2>0, <2>2 DEF CreateRejected, Creating, Ends
  <2>3. ASSUME Save(v) PROVE Ends(v)
    BY <1>1, <2>0, <2>3 DEF Save, Saving, Ends
  <2>4. ASSUME SaveRejected(v) PROVE Ends(v)
    BY <1>1, <2>0, <2>4 DEF SaveRejected, Saving, Ends
  <2>5. UNCHANGED busVars
    BY <1>9 DEF Work
  <2>6. \/ Load(v) \/ Ignore(v) \/ Skip(v) \/ Handle(v) \/ Save(v) \/ SaveRejected(v)
        \/ \E id \in SagaIds : Create(v, id)
        \/ \E id \in SagaIds : CreateRejected(v, id)
    BY <1>9 DEF Work
  <2>. HIDE DEF Untouched, TypeOK, Goto, End
  <2>. QED
    BY <2>1, <2>2, <2>3, <2>4, <2>5, <2>6
<1>10. ASSUME ScheduleTimeout(v) PROVE Ends(v)
  BY <1>1, <1>10 DEF ScheduleTimeout, Arm, Ends
<1>11. ASSUME Fail(v) PROVE Ends(v)
  <2>0. slot' = slot /\ todo' = todo /\ faults' = faults + 1
    BY <1>11 DEF Fail
  <2>1. ASSUME NEW id \in SagaIds, CreateUnacked(v, id) PROVE Ends(v)
    BY <1>1, <2>0, <2>1 DEF CreateUnacked, Creating, Ends
  <2>2. CASE SaveUnacked(v)
    BY <1>1, <2>0, <2>2 DEF SaveUnacked, Saving, Ends
  <2>3. ASSUME NEW how \in Failures, Throw(v, how) PROVE Ends(v)
    BY <1>1, <2>0, <2>3 DEF Throw, Ends
  <2>. QED
    BY <1>11, <2>1, <2>2, <2>3 DEF Fail
<1>. QED
  BY <1>2, <1>3, <1>4, <1>5, <1>6, <1>7, <1>8, <1>9, <1>10, <1>11 DEF BusNext, WorkerStep

(* What the bus may publish: an input, a handler's message, a timeout, or what a slot
   holds over again. *)
LEMMA PublishedSteps ==
    ASSUME BusInv, [BusNext]_allVars, NEW p \in published' \ published
    PROVE  \/ p \in Inputs
           \/ \E w \in Workers :
                 /\ Publish(w)
                 /\ p = [type |-> Head(reply[w].sends), corr |-> job[w].corr,
                         timer |-> NoTimer]
           \/ \E w \in Workers : Arm(w) /\ p = TimeoutSet(w)
           \/ \E w \in Workers : slot[w] # NoEnvelope /\ p = slot[w].payload
<1>1. CallHasEnvelope
  BY DEF BusInv
<1>2. CASE UNCHANGED allVars
  BY <1>2 DEF allVars, busVars
<1>3. ASSUME NEW q \in Inputs, PublishInput(q) PROVE p \in Inputs
  BY <1>3 DEF PublishInput, Enqueue
<1>4. ASSUME NEW w \in Workers, SendFromHandler(w)
      PROVE  /\ Publish(w)
             /\ p = [type |-> Head(reply[w].sends), corr |-> job[w].corr, timer |-> NoTimer]
  BY <1>4 DEF SendFromHandler, Enqueue
<1>5. ASSUME NEW w \in Workers, ScheduleTimeout(w) PROVE Arm(w) /\ p = TimeoutSet(w)
  BY <1>5 DEF ScheduleTimeout, Enqueue
<1>6. ASSUME NEW w \in Workers, Settle(w)
      PROVE  slot[w] # NoEnvelope /\ p = slot[w].payload
  BY <1>1, <1>6 DEF Settle, Succeeded, Retry, GiveUp, Enqueue, Return, CallHasEnvelope
<1>7. ASSUME NEW w \in Workers, Deliver(w) \/ Call(w) \/ Work(w) \/ Ack(w) \/ Fail(w)
                                  \/ Abandon(w) \/ Die(w)
      PROVE  published' = published
  BY <1>7 DEF Deliver, Call, Work, Ack, Fail, Abandon, Die, busVars
<1>. QED
  BY <1>2, <1>3, <1>4, <1>5, <1>6, <1>7 DEF BusNext, WorkerStep

(* What was published stays published. *)
LEMMA PublishedGrows ==
    ASSUME [BusNext]_allVars
    PROVE  published \subseteq published'
BY DEF BusNext, WorkerStep, allVars, busVars, PublishInput, Enqueue, Deliver, Call, Work,
       SendFromHandler, ScheduleTimeout, Settle, Succeeded, Retry, GiveUp, Ack, Fail, Abandon, Die

(* Faults are only ever counted up. *)
LEMMA FaultsGrow ==
    ASSUME BusInv, [BusNext]_allVars
    PROVE  faults \in Nat /\ faults' \in {faults, faults + 1}
<1>1. faults \in Nat
  BY BusAssumption DEF BusInv, BusTypeOK
<1>2. faults' \in {faults, faults + 1}
  BY DEF BusNext, WorkerStep, allVars, busVars, PublishInput, Deliver, Call, Work,
         SendFromHandler, ScheduleTimeout, Settle, Succeeded, Retry, GiveUp, CountFault, Ack,
         Fail, Abandon, Die
<1>. QED
  BY <1>1, <1>2

-----------------------------------------------------------------------------
(* A message of the saga's own finds the saga. *)

(* Calls, slots and queue stay in step. *)
LEMMA CallsFollowSlotsStep ==
    ASSUME BusInv, CallsFollowSlots, [BusNext]_allVars
    PROVE  CallsFollowSlots'
<1>1. TypeOK /\ BusTypeOK /\ CallHasEnvelope /\ IInv
  BY DEF BusInv, IInv, CallInv
<1>. DEFINE InStep == \A w \in Workers : pc'[w] # "idle" =>
                /\ job'[w].saga = Head(todo'[w])
                /\ job'[w].type = slot'[w].payload.type
                /\ job'[w].corr = slot'[w].payload.corr
            Queued == \A e \in DOMAIN queue' : e.payload \in published'
            Slotted == \A w \in Workers : slot'[w] # NoEnvelope => slot'[w].payload \in published'
<1>2. published \subseteq published'
  BY PublishedGrows
<1>3. Queued
  <2>1. \A e \in DOMAIN queue : e.payload \in published'
    BY <1>2 DEF CallsFollowSlots
  <2>2. ASSUME NEW p \in Payloads, NEW a \in Nat \ {0}, Enqueue(p, a) PROVE Queued
    <3>1. p \in published' /\ IsABag(queue)
      BY <1>1, <2>2 DEF Enqueue, BusTypeOK
    <3>2. DOMAIN queue' \subseteq DOMAIN queue \cup {[payload |-> p, attempt |-> a]}
      BY <2>2, <3>1, BagAddFacts DEF Enqueue
    <3>. QED
      BY <2>1, <3>1, <3>2
  <2>3. ASSUME NEW w \in Workers, slot[w] # NoEnvelope, queue' = BagAdd(queue, slot[w])
        PROVE  Queued
    <3>1. DOMAIN queue' = DOMAIN queue \cup {slot[w]}
      BY <1>1, <2>3, BagAddFacts DEF BusTypeOK
    <3>2. slot[w].payload \in published'
      BY <1>2, <2>3 DEF CallsFollowSlots
    <3>. QED
      BY <2>1, <3>1, <3>2
  <2>4. ASSUME NEW p \in Inputs, PublishInput(p) PROVE Queued
    BY <2>2, <2>4, BusAssumption DEF PublishInput
  <2>5. ASSUME NEW w \in Workers, Deliver(w) PROVE Queued
    <3>1. PICK e : queue' = BagRemove(queue, e)
      BY <2>5 DEF Deliver
    <3>2. DOMAIN queue' \subseteq DOMAIN queue
      BY <1>1, <3>1, BagRemoveFacts DEF BusTypeOK
    <3>. QED
      BY <2>1, <3>2
  <2>6. ASSUME NEW w \in Workers, SendFromHandler(w) \/ ScheduleTimeout(w) PROVE Queued
    <3>1. PICK p \in Payloads : Enqueue(p, 1)
      BY <1>1, <2>6, SentTyped DEF SendFromHandler, ScheduleTimeout
    <3>. QED
      BY <2>2, <3>1
  <2>7. ASSUME NEW w \in Workers, Settle(w) PROVE Queued
    <3>1. slot[w] # NoEnvelope
      BY <1>1, <2>7 DEF Settle, Return, CallHasEnvelope
    <3>2. slot[w].payload \in Payloads /\ slot[w].attempt + 1 \in Nat \ {0}
      BY <1>1, <3>1, SlotTyped
    <3>3. queue' = queue \/ Enqueue(slot[w].payload, slot[w].attempt + 1)
      BY <2>7 DEF Settle, Succeeded, Retry, GiveUp
    <3>. QED
      BY <2>1, <2>2, <3>2, <3>3
  <2>8. ASSUME NEW w \in Workers, Abandon(w) \/ Die(w) PROVE Queued
    <3>1. /\ slot[w] # NoEnvelope
          /\ queue' = BagAdd(queue, slot[w]) \/ queue' = queue
      BY <1>1, <2>8 DEF Abandon, Die, GiveBack, Return, CallHasEnvelope
    <3>. QED
      BY <2>1, <2>3, <3>1
  <2>9. ASSUME \/ UNCHANGED allVars
               \/ \E w \in Workers : Call(w) \/ Work(w) \/ Ack(w) \/ Fail(w)
        PROVE  queue' = queue
    BY <2>9 DEF allVars, busVars, Call, Work, Ack, Fail
  <2>. QED
    BY <2>1, <2>4, <2>5, <2>6, <2>7, <2>8, <2>9 DEF BusNext, WorkerStep
<1>4. ASSUME \A w \in Workers :
                /\ slot'[w] \in {slot[w], NoEnvelope}
                /\ \/ pc'[w] = "idle"
                   \/ /\ pc[w] # "idle" /\ job'[w] = job[w]
                      /\ slot'[w] = slot[w] /\ todo'[w] = todo[w]
      PROVE  CallsFollowSlots'
  <2>1. InStep
    BY <1>4 DEF CallsFollowSlots
  <2>2. Slotted
    BY <1>2, <1>4 DEF CallsFollowSlots
  <2>. QED
    BY <1>3, <2>1, <2>2 DEF CallsFollowSlots
<1>. DEFINE Easy == \A w \in Workers :
                /\ slot'[w] \in {slot[w], NoEnvelope}
                /\ \/ pc'[w] = "idle"
                   \/ /\ pc[w] # "idle" /\ job'[w] = job[w]
                      /\ slot'[w] = slot[w] /\ todo'[w] = todo[w]
<1>5. ASSUME \/ UNCHANGED allVars
             \/ \E p \in Inputs : PublishInput(p)
      PROVE  Easy
  BY <1>5 DEF allVars, vars, busVars, callVars, PublishInput
<1>6. ASSUME NEW w \in Workers, Work(w) \/ SendFromHandler(w) \/ ScheduleTimeout(w) \/ Fail(w)
      PROVE  Easy
  <2>1. job' = job
    BY <1>6 DEF Work, Load, Ignore, Skip, Create, CreateRejected, Handle, Save, SaveRejected,
                SendFromHandler, Publish, ScheduleTimeout, Arm, Fail, CreateUnacked,
                SaveUnacked, Throw
  <2>. QED
    BY <1>1, <1>6, <2>1, CallSteps
<1>7. ASSUME NEW w \in Workers, Settle(w) \/ Ack(w) \/ Abandon(w) \/ Die(w)
      PROVE  Easy
  <2>1. pc'[w] = "idle"
    BY <1>1, <1>7 DEF Settle, Ack, Abandon, Die, Return, Reset, Goto, TypeOK, vars, callVars,
                      CallHasEnvelope
  <2>2. slot'[w] \in {slot[w], NoEnvelope}
    BY <1>1, <1>7 DEF Settle, Ack, Abandon, Die, BusTypeOK
  <2>3. \A v \in Workers \ {w} :
           pc'[v] = pc[v] /\ job'[v] = job[v] /\ slot'[v] = slot[v] /\ todo'[v] = todo[v]
    BY <1>1, <1>7 DEF Settle, Ack, Abandon, Die, Return, Reset, Goto, TypeOK, BusTypeOK, vars,
                      callVars
  <2>. QED
    BY <2>1, <2>2, <2>3
<1>8. ASSUME NEW w \in Workers, Deliver(w)
      PROVE  InStep /\ Slotted
  <2>1. PICK e \in BagToSet(queue) : slot' = [slot EXCEPT ![w] = e]
    BY <1>8 DEF Deliver
  <2>2. e.payload \in published'
    BY <1>2, <2>1 DEF CallsFollowSlots, BagToSet
  <2>3. pc[w] = "idle" /\ pc' = pc /\ job' = job
    BY <1>1, <1>8 DEF Deliver, CallHasEnvelope, vars, callVars
  <2>4. \A v \in Workers \ {w} : slot'[v] = slot[v] /\ todo'[v] = todo[v]
    BY <1>1, <1>8, <2>1 DEF Deliver, BusTypeOK
  <2>5. slot'[w] = e
    BY <1>1, <2>1 DEF BusTypeOK
  <2>. QED
    BY <1>2, <2>2, <2>3, <2>4, <2>5 DEF CallsFollowSlots
<1>9. ASSUME NEW w \in Workers, Call(w)
      PROVE  InStep /\ Slotted
  <2>1. /\ slot' = slot /\ todo' = todo /\ published' = published
        /\ job'[w] = [saga |-> Head(todo[w]), type |-> slot[w].payload.type,
                      corr |-> slot[w].payload.corr]
        /\ \A v \in Workers \ {w} : pc'[v] = pc[v] /\ job'[v] = job[v]
    BY <1>1, <1>9 DEF Call, Receive, Goto, End, TypeOK, busVars
  <2>. QED
    BY <2>1 DEF CallsFollowSlots
<1>. HIDE DEF Easy, InStep, Queued, Slotted
<1>10. Easy => CallsFollowSlots'
  BY <1>4 DEF Easy
<1>11. InStep /\ Slotted => CallsFollowSlots'
  BY <1>3 DEF InStep, Slotted, Queued, CallsFollowSlots
<1>. QED
  BY <1>5, <1>6, <1>7, <1>8, <1>9, <1>10, <1>11 DEF BusNext, WorkerStep

(* The bus takes no row away. *)
LEMMA RowsStayStep ==
    ASSUME BusInv, RowsStay, [BusNext]_allVars
    PROVE  RowsStay'
<1>1. IInv /\ TypeOK /\ IdsIssued
  BY DEF BusInv, IInv, CallInv
<1>2. \A id \in SagaIds : Live(id) => Live(id)' /\ rows'[id].key = rows[id].key
  BY RowsGrow
<1>3. \A v \in Workers : held[v] # NoRow => held[v].sagaId \in SagaIds
  BY <1>1 DEF TypeOK, Row
<1>4. ASSUME NEW v \in Workers, held'[v] # NoRow
      PROVE  rows'[held'[v].sagaId] # NoRow
  <2>1. CASE held'[v] = held[v]
    BY <1>2, <1>3, <1>4, <2>1 DEF RowsStay, Live
  <2>2. CASE Load(v)
    <3>1. /\ held'[v] = GetByCorrelationId(Key(v)) /\ rows' = rows
      BY <1>1, <2>2 DEF Load, TypeOK, storeVars
    <3>2. Key(v) \in Keys
      BY <1>1, <2>2 DEF Load, IInv, CallInv, CallConsistent, TypeOK, Jobs, Key, Keys
    <3>3. correlationIndex[Key(v)] \in SagaIds
      BY <1>1, <1>4, <3>1, <3>2 DEF GetByCorrelationId, TypeOK, StoreTypeOK
    <3>4. held'[v] = rows[correlationIndex[Key(v)]]
      BY <1>4, <3>1 DEF GetByCorrelationId
    <3>5. held'[v].sagaId = correlationIndex[Key(v)]
      BY <1>1, <1>4, <3>3, <3>4 DEF IdsIssued, Live
    <3>. QED
      BY <1>4, <3>1, <3>4, <3>5
  <2>3. ASSUME NEW id \in SagaIds, Create(v, id)
        PROVE  rows'[held'[v].sagaId] # NoRow
    <3>1. held'[v] = NewRow(v, id) /\ Creating(v, id) /\ Insert(NewRow(v, id))
      BY <1>1, <2>3 DEF Create, TypeOK
    <3>. QED
      BY <1>1, <3>1, InsertFacts DEF Live
  <2>4. CASE Call(v) \/ Handle(v) \/ SendFromHandler(v)
    <3>1. held' = held
      BY <2>4 DEF Call, Receive, Handle, SendFromHandler, Publish
    <3>. QED
      BY <2>1, <3>1
  <2>. QED
    BY <1>4, <2>1, <2>2, <2>3, <2>4, CallMoves DEF Untouched, Ends
<1>5. /\ \A key \in Keys : correlationIndex'[key] # NoSaga => rows'[correlationIndex'[key]] # NoRow
      /\ \A id \in SagaIds : rows'[id] # NoRow => correlationIndex'[rows'[id].key] # NoSaga
  <2>0. /\ \A key \in Keys : correlationIndex[key] \in SagaIds \cup {NoSaga}
        /\ \A id \in SagaIds : Live(id) => rows[id].key \in Keys
    BY <1>1 DEF TypeOK, StoreTypeOK, Live, Row
  <2>1. CASE UNCHANGED storeVars
    BY <2>1 DEF storeVars, RowsStay, Live
  <2>2. ASSUME NEW w \in Workers, NEW id \in SagaIds, Creating(w, id), Insert(NewRow(w, id))
        PROVE  /\ \A key \in Keys : correlationIndex'[key] # NoSaga =>
                                       rows'[correlationIndex'[key]] # NoRow
               /\ \A i \in SagaIds : rows'[i] # NoRow => correlationIndex'[rows'[i].key] # NoSaga
    <3>1. /\ rows'[id] = NewRow(w, id) /\ rows'[id] # NoRow /\ rows'[id].key = Key(w)
          /\ \A i \in SagaIds : i # id => rows'[i] = rows[i]
          /\ correlationIndex'[Key(w)] = id
          /\ \A key \in Keys : key # Key(w) => correlationIndex'[key] = correlationIndex[key]
      BY <1>1, <2>2, InsertFacts DEF Live
    <3>2. id # NoSaga
      BY StoreAssumption
    <3>3. ASSUME NEW key \in Keys, correlationIndex'[key] # NoSaga
          PROVE  rows'[correlationIndex'[key]] # NoRow
      <4>1. CASE key = Key(w)
        BY <3>1, <4>1
      <4>2. CASE key # Key(w)
        <5>1. correlationIndex'[key] = correlationIndex[key] /\ correlationIndex[key] \in SagaIds
          BY <2>0, <3>1, <3>3, <4>2
        <5>. QED
          BY <3>1, <3>3, <5>1 DEF RowsStay, Live
      <4>. QED
        BY <4>1, <4>2
    <3>4. ASSUME NEW i \in SagaIds, rows'[i] # NoRow
          PROVE  correlationIndex'[rows'[i].key] # NoSaga
      <4>1. CASE i = id
        BY <3>1, <3>2, <4>1
      <4>2. CASE i # id
        <5>1. rows'[i] = rows[i] /\ Live(i) /\ rows[i].key \in Keys
          BY <2>0, <3>1, <3>4, <4>2 DEF Live
        <5>. QED
          BY <3>1, <3>2, <5>1 DEF RowsStay
      <4>. QED
        BY <4>1, <4>2
    <3>. QED
      BY <3>3, <3>4
  <2>3. ASSUME NEW w \in Workers, Saving(w), Update(SavedRow(w), held[w].version)
        PROVE  /\ \A key \in Keys : correlationIndex'[key] # NoSaga =>
                                       rows'[correlationIndex'[key]] # NoRow
               /\ \A i \in SagaIds : rows'[i] # NoRow => correlationIndex'[rows'[i].key] # NoSaga
    <3>1. correlationIndex' = correlationIndex
      BY <1>1, <2>3, SaveFacts
    <3>2. \A i \in SagaIds : rows'[i] # NoRow => Live(i)
      BY <1>1, <2>3, SaveFacts DEF Live
    <3>. QED
      BY <1>2, <2>0, <3>1, <3>2 DEF RowsStay, Live
  <2>. QED
    BY <2>1, <2>2, <2>3, BusStoreSteps
<1>. QED
  BY <1>4, <1>5 DEF RowsStay, Live

(* What an outcome's handler is still to publish, its handler sends. *)
LEMMA SendsAreHandlersStep ==
    ASSUME BusInv, SendsAreHandlers, [BusNext]_allVars
    PROVE  SendsAreHandlers'
<1>1. TypeOK /\ CallConsistent
  BY DEF BusInv, IInv, CallInv
<1>. SUFFICES ASSUME NEW v \in Workers, pc'[v] = "running", NEW t \in Range(reply'[v].sends)
              PROVE  \E u \in MessageTypes, d \in Data :
                        \E o \in Handler[job'[v].saga, u, d] : t \in Range(o.sends)
  BY DEF SendsAreHandlers
<1>2. CASE Untouched(v)
  BY <1>2 DEF Untouched, SendsAreHandlers
<1>3. CASE Handle(v)
  <2>1. /\ job'[v] = job[v] /\ job[v] \in Jobs /\ held[v] \in Row
        /\ reply'[v] \in Outcomes(job[v].saga, job[v].type, held[v].data)
    BY <1>1, <1>3, OrchestratorAssumption DEF Handle, TypeOK, CallConsistent
  <2>2. CASE Handler[job[v].saga, job[v].type, held[v].data] = {}
    <3>1. reply'[v] = Unchanged(held[v].data)
      BY <2>1, <2>2 DEF Outcomes
    <3>2. PICK sends : sends = reply'[v].sends
      OBVIOUS
    <3>3. sends = << >>
      BY <3>1, <3>2 DEF Unchanged
    <3>4. DOMAIN sends = {}
      BY <3>3
    <3>. QED
      BY <3>2, <3>4 DEF Range
  <2>3. CASE Handler[job[v].saga, job[v].type, held[v].data] # {}
    <3>1. reply'[v] \in Handler[job[v].saga, job[v].type, held[v].data]
      BY <2>1, <2>3 DEF Outcomes
    <3>2. job[v].type \in MessageTypes /\ held[v].data \in Data
      BY <2>1 DEF Jobs, Row
    <3>. QED
      BY <2>1, <3>1, <3>2
  <2>. QED
    BY <2>2, <2>3
<1>4. CASE SendFromHandler(v)
  <2>1. /\ pc[v] = "running" /\ reply[v] \in Outcome /\ job'[v] = job[v]
        /\ reply[v].sends # << >> /\ reply'[v].sends = Tail(reply[v].sends)
    BY <1>1, <1>4, SavedRowTyped DEF SendFromHandler, Publish, TypeOK, Outcome
  <2>2. reply[v].sends \in Seq(MessageTypes)
    BY <2>1 DEF Outcome
  <2>3. t \in Range(reply[v].sends)
    <3>1. PICK i \in DOMAIN Tail(reply[v].sends) : t = Tail(reply[v].sends)[i]
      BY <2>1 DEF Range
    <3>2. i + 1 \in DOMAIN reply[v].sends /\ t = reply[v].sends[i + 1]
      BY <2>1, <2>2, <3>1
    <3>. QED
      BY <3>2 DEF Range
  <2>. QED
    BY <2>1, <2>3 DEF SendsAreHandlers
<1>5. ASSUME \/ Call(v) \/ Load(v) \/ Ends(v) \/ pc'[v] = "idle"
             \/ \E id \in SagaIds : Create(v, id)
      PROVE  FALSE
  BY <1>1, <1>5 DEF TypeOK, Call, Receive, Load, Ends, Create, Creating, Goto, End
<1>. QED
  BY <1>2, <1>3, <1>4, <1>5, CallMoves

(* A correlation id that leads to an instance keeps leading to one. *)
LEMMA FoundStays ==
    ASSUME BusInv, RowsStay, [BusNext]_allVars, NEW key \in Keys, GetByCorrelationId(key) # NoRow
    PROVE  GetByCorrelationId(key)' # NoRow
<1>1. IInv
  BY DEF BusInv
<1>2. correlationIndex[key] # NoSaga
  BY DEF GetByCorrelationId
<1>3. ASSUME NEW w \in Workers, NEW id \in SagaIds, Creating(w, id), Insert(NewRow(w, id))
      PROVE  correlationIndex'[key] \in {correlationIndex[key], id}
  BY <1>1, <1>3, InsertFacts
<1>4. ASSUME NEW w \in Workers, Saving(w), Update(SavedRow(w), held[w].version)
      PROVE  correlationIndex' = correlationIndex
  BY <1>4 DEF Update
<1>5. correlationIndex'[key] # NoSaga
  BY <1>2, <1>3, <1>4, BusStoreSteps, StoreAssumption DEF storeVars
<1>6. rows'[correlationIndex'[key]] # NoRow
  BY <1>5, RowsStayStep DEF RowsStay, Live
<1>. QED
  BY <1>5, <1>6 DEF GetByCorrelationId

(* A message that only the saga sends is sent for an instance. *)
LEMMA OwnSendsHaveSagaStep ==
    ASSUME BusInv, SendsInv, [BusNext]_allVars
    PROVE  OwnSendsHaveSaga'
<1>1. /\ IInv /\ TypeOK /\ CallConsistent /\ IndexFindsRows /\ HeldIsPast
      /\ CallsFollowSlots /\ RowsStay /\ SendsAreHandlers /\ OwnSendsHaveSaga
  BY DEF BusInv, IInv, CallInv, SendsInv
<1>. SUFFICES ASSUME NEW p \in published', NEW s \in SagaNames, p.type \in SentOnlyBy(s)
              PROVE  /\ p.corr \in CorrelationIds
                     /\ GetByCorrelationId(<<s, p.corr>>)' # NoRow
  BY DEF OwnSendsHaveSaga, SentOnlyBy
<1>2. ASSUME p.corr \in CorrelationIds, GetByCorrelationId(<<s, p.corr>>) # NoRow
      PROVE  GetByCorrelationId(<<s, p.corr>>)' # NoRow
  <2>1. <<s, p.corr>> \in Keys
    BY <1>2 DEF Keys
  <2>. QED
    BY <1>1, <1>2, <2>1, FoundStays
<1>3. CASE p \in published
  BY <1>1, <1>2, <1>3 DEF OwnSendsHaveSaga
<1>4. ASSUME NEW w \in Workers, Publish(w),
             p = [type |-> Head(reply[w].sends), corr |-> job[w].corr, timer |-> NoTimer]
      PROVE  p.corr \in CorrelationIds /\ GetByCorrelationId(<<s, p.corr>>) # NoRow
  <2>1. /\ pc[w] = "running" /\ reply[w].sends # << >> /\ reply[w] \in Outcome
        /\ p.type = Head(reply[w].sends) /\ p.corr = job[w].corr
    BY <1>1, <1>4, SavedRowTyped DEF Publish
  <2>2. job[w] \in Jobs /\ job[w].corr \in CorrelationIds /\ held[w] # NoRow
    BY <1>1, <2>1, OrchestratorAssumption DEF TypeOK, CallConsistent, Jobs
  <2>3. p.type \in Range(reply[w].sends)
    <3>1. reply[w].sends \in Seq(MessageTypes)
      BY <2>1 DEF Outcome
    <3>2. 1 \in DOMAIN reply[w].sends /\ p.type = reply[w].sends[1]
      BY <2>1, <3>1
    <3>. QED
      BY <3>2 DEF Range
  <2>4. job[w].saga = s
    BY <1>1, <2>1, <2>2, <2>3 DEF SendsAreHandlers, SentOnlyBy, Jobs
  <2>5. Key(w) = <<s, p.corr>> /\ Key(w) \in Keys
    BY <2>1, <2>2, <2>4 DEF Key, Keys
  <2>6. held[w].key = Key(w)
    BY <1>1, <2>1, <2>2 DEF IndexFindsRows
  <2>7. held[w].sagaId \in SagaIds /\ Live(held[w].sagaId)
    BY <1>1, <2>2 DEF RowsStay, TypeOK, Row
  <2>8. rows[held[w].sagaId].key = held[w].key
    BY <1>1, <2>2, <2>7 DEF HeldIsPast, Live
  <2>9. correlationIndex[Key(w)] # NoSaga
    BY <1>1, <2>6, <2>7, <2>8 DEF RowsStay
  <2>10. GetByCorrelationId(Key(w)) # NoRow
    BY <1>1, <2>5, <2>9 DEF RowsStay, Live, GetByCorrelationId
  <2>. QED
    BY <2>1, <2>2, <2>5, <2>10
<1>5. CASE p \notin published
  <2>1. p \notin Inputs
    BY DEF SentOnlyBy
  <2>2. ASSUME NEW w \in Workers, p = TimeoutSet(w) PROVE FALSE
    BY <2>2 DEF TimeoutSet, SentOnlyBy
  <2>3. ASSUME NEW w \in Workers, slot[w] # NoEnvelope, p = slot[w].payload PROVE FALSE
    BY <1>1, <1>5, <2>3 DEF CallsFollowSlots
  <2>. QED
    BY <1>2, <1>4, <1>5, <2>1, <2>2, <2>3, PublishedSteps
<1>. QED
  BY <1>3, <1>5

(* So the call for it loads the instance. *)
LEMMA OwnSendsFindSagaStep ==
    ASSUME BusInv, SendsInv, [BusNext]_allVars
    PROVE  OwnSendsFindSaga'
<1>1. /\ IInv /\ TypeOK /\ CallConsistent /\ CallHasEnvelope
      /\ CallsFollowSlots /\ OwnSendsHaveSaga /\ OwnSendsFindSaga
  BY DEF BusInv, IInv, CallInv, SendsInv
<1>. SUFFICES ASSUME NEW v \in Workers, pc'[v] = "loaded",
                     job'[v].type \in SentOnlyBy(job'[v].saga)
              PROVE  held'[v] # NoRow
  BY DEF OwnSendsFindSaga, SentOnlyBy
<1>2. CASE Untouched(v)
  BY <1>1, <1>2 DEF Untouched, OwnSendsFindSaga
<1>3. CASE Load(v)
  <2>1. /\ pc[v] = "loading" /\ held'[v] = GetByCorrelationId(Key(v)) /\ job'[v] = job[v]
    BY <1>1, <1>3 DEF Load, TypeOK
  <2>2. job[v] \in Jobs /\ slot[v] # NoEnvelope
    BY <1>1, <2>1 DEF TypeOK, CallConsistent, CallHasEnvelope
  <2>3. /\ slot[v].payload \in published /\ job[v].saga \in SagaNames
        /\ slot[v].payload.type = job[v].type /\ slot[v].payload.corr = job[v].corr
    BY <1>1, <2>1, <2>2 DEF CallsFollowSlots, Jobs
  <2>4. GetByCorrelationId(<<job[v].saga, slot[v].payload.corr>>) # NoRow
    BY <1>1, <2>1, <2>3 DEF OwnSendsHaveSaga
  <2>. QED
    BY <2>1, <2>3, <2>4 DEF Key
<1>4. ASSUME NEW id \in SagaIds, Create(v, id) PROVE held'[v] # NoRow
  <2>1. held'[v] = NewRow(v, id) /\ Creating(v, id) /\ Insert(NewRow(v, id))
    BY <1>1, <1>4 DEF Create, TypeOK
  <2>. QED
    BY <1>1, <2>1, InsertFacts, StoreAssumption
<1>5. ASSUME Call(v) \/ Handle(v) \/ SendFromHandler(v) \/ Ends(v) \/ pc'[v] = "idle"
      PROVE  FALSE
  BY <1>1, <1>5 DEF TypeOK, Call, Receive, Handle, SendFromHandler, Publish, Ends, Goto, End
<1>. QED
  BY <1>2, <1>3, <1>4, <1>5, CallMoves

(* At the start nothing is published and no call runs. *)
LEMMA SendsInvInit == BusInit => SendsInv
<1>. SUFFICES ASSUME BusInit PROVE SendsInv
  OBVIOUS
<1>1. /\ \A id \in SagaIds : ~ Live(id)
      /\ \A key \in Keys : correlationIndex[key] = NoSaga
      /\ \A w \in Workers : pc[w] = "idle" /\ held[w] = NoRow /\ slot[w] = NoEnvelope
      /\ DOMAIN queue = {} /\ published = {}
  BY DEF BusInit, Init, StoreInit, Live, EmptyBag, SetToBag
<1>. QED
  BY <1>1 DEF SendsInv, CallsFollowSlots, RowsStay, SendsAreHandlers, OwnSendsHaveSaga,
              OwnSendsFindSaga

(* SendsInv is inductive, over BusInv. *)
LEMMA SendsInvariant == BusSpec => [](BusInv /\ SendsInv)
<1>1. BusInv /\ SendsInv /\ [BusNext]_allVars => SendsInv'
  BY CallsFollowSlotsStep, RowsStayStep, SendsAreHandlersStep, OwnSendsHaveSagaStep,
     OwnSendsFindSagaStep DEF SendsInv
<1>. QED
  BY <1>1, BusInvInit, SendsInvInit, BusInvStep, PTL DEF BusSpec

(* However late, often or out of order a message comes that only the saga's own
   handlers send, and whatever failed in between, the call for it finds an instance,
   although it was published before the state of the handler that sent it was saved. *)
THEOREM OwnMessagesFindTheirSaga == BusSpec => []OwnSendsFindSaga
<1>1. SendsInv => OwnSendsFindSaga
  BY DEF SendsInv
<1>. QED
  BY <1>1, SendsInvariant, PTL

-----------------------------------------------------------------------------
(* A pending timeout is published. *)

(* Without a fault, a call that is to publish a timeout message waits or does. *)
LEMMA ArmingMoves ==
    ASSUME BusInv, [BusNext]_allVars, faults' = faults, NEW v \in Workers, pc[v] = "arming"
    PROVE  Untouched(v) \/ ScheduleTimeout(v)
<1>1. TypeOK /\ BusTypeOK /\ faults + 1 # faults
  BY FaultsGrow DEF BusInv, IInv, CallInv
<1>. USE DEF TypeOK, Goto, End, Untouched
<1>2. CASE UNCHANGED vars
  BY <1>2 DEF vars, callVars
<1>3. ASSUME NEW w \in Workers, w # v, WorkerStep(w) PROVE Untouched(v)
  <2>1. CASE Call(w)
    BY <1>1, <1>3, <2>1 DEF Call, Receive
  <2>2. CASE Work(w)
    BY <1>1, <1>3, <2>2 DEF Work, Load, Ignore, Skip, Create, Creating, CreateRejected, Handle,
                            Save, SaveRejected
  <2>3. CASE SendFromHandler(w) \/ ScheduleTimeout(w)
    BY <1>1, <1>3, <2>3 DEF SendFromHandler, Publish, ScheduleTimeout, Arm
  <2>4. CASE Settle(w) \/ Ack(w)
    BY <1>1, <1>3, <2>4 DEF Settle, Return, Reset, Ack, vars, callVars
  <2>. QED
    BY <1>3, <2>1, <2>2, <2>3, <2>4 DEF WorkerStep
<1>4. ASSUME WorkerStep(v) PROVE ScheduleTimeout(v) \/ UNCHANGED vars
  BY <1>4 DEF WorkerStep, Call, Receive, Work, Load, Ignore, Skip, Create, Creating,
              CreateRejected, Handle, Save, SaveRejected, Saving, SendFromHandler, Publish,
              Settle, Return, Ack
<1>5. ASSUME NEW w \in Workers, Fail(w) \/ Abandon(w) \/ Die(w) PROVE FALSE
  BY <1>1, <1>5 DEF Fail, Abandon, Die
<1>6. ASSUME \/ UNCHANGED allVars
             \/ \E p \in Inputs : PublishInput(p)
             \/ \E w \in Workers : Deliver(w)
      PROVE  UNCHANGED vars
  BY <1>6 DEF allVars, PublishInput, Deliver
<1>. HIDE DEF TypeOK, Goto, End, Untouched
<1>. QED
  BY <1>2, <1>3, <1>4, <1>5, <1>6 DEF BusNext

(* Without a fault, a row changes by an insert or by a save that returns. *)
LEMMA FaultlessRowSteps ==
    ASSUME BusInv, [BusNext]_allVars, faults' = faults
    PROVE  \/ rows' = rows
           \/ \E w \in Workers, id \in SagaIds : Creating(w, id) /\ Insert(NewRow(w, id))
           \/ \E w \in Workers : Save(w)
<1>1. faults + 1 # faults
  BY FaultsGrow
<1>2. ASSUME NEW w \in Workers, Fail(w) \/ Abandon(w) \/ Die(w) PROVE FALSE
  BY <1>1, <1>2 DEF Fail, Abandon, Die
<1>3. ASSUME NEW w \in Workers, Work(w)
      PROVE  \/ rows' = rows
             \/ \E id \in SagaIds : Creating(w, id) /\ Insert(NewRow(w, id))
             \/ Save(w)
  BY <1>3 DEF Work, Load, Ignore, Skip, Create, CreateRejected, Handle, SaveRejected, storeVars
<1>4. ASSUME NEW w \in Workers, Deliver(w) \/ Ack(w) \/ Call(w) \/ SendFromHandler(w)
                                  \/ ScheduleTimeout(w) \/ Settle(w)
      PROVE  rows' = rows
  BY <1>4 DEF Deliver, Ack, Call, SendFromHandler, ScheduleTimeout, Settle, Receive, Publish,
              Arm, Return, Reset, vars, storeVars
<1>5. ASSUME UNCHANGED allVars \/ \E p \in Inputs : PublishInput(p) PROVE rows' = rows
  BY <1>5 DEF allVars, PublishInput, vars, storeVars
<1>. QED
  BY <1>2, <1>3, <1>4, <1>5 DEF BusNext, WorkerStep

(* A timeout that is published, or that a call is to publish, is so after a step. *)
LEMMA ArmedStays ==
    ASSUME BusInv, ArmingAsShown, faults = 0, faults' = 0, [BusNext]_allVars,
           NEW id \in SagaIds, PendingTimeout(id)
    PROVE  \/ \E p \in published' : p.timer = [sagaId |-> id, version |-> rows[id].timeout]
           \/ \E w \in Workers :
                 /\ pc'[w] = "arming"
                 /\ held'[w].sagaId = id
                 /\ held'[w].version + 1 = rows[id].timeout
<1>1. CASE TimeoutPublished(id)
  BY <1>1, PublishedGrows DEF TimeoutPublished
<1>2. ASSUME NEW w \in Workers, pc[w] = "arming", held[w].sagaId = id,
             held[w].version + 1 = rows[id].timeout
      PROVE  \/ \E p \in published' : p.timer = [sagaId |-> id, version |-> rows[id].timeout]
             \/ /\ pc'[w] = "arming"
                /\ held'[w].sagaId = id
                /\ held'[w].version + 1 = rows[id].timeout
  <2>1. CASE Untouched(w)
    BY <1>2, <2>1 DEF Untouched
  <2>2. CASE ScheduleTimeout(w)
    <3>1. TimeoutSet(w) \in published'
      BY <2>2 DEF ScheduleTimeout, Enqueue
    <3>2. TimeoutSet(w).timer = [sagaId |-> id, version |-> rows[id].timeout]
      BY <1>2 DEF TimeoutSet
    <3>. QED
      BY <3>1, <3>2
  <2>. QED
    BY <1>2, <2>1, <2>2, ArmingMoves
<1>. QED
  BY <1>1, <1>2 DEF ArmingAsShown

(* Every action keeps ArmingAsShown: a save that sets a timeout makes its call the one to
   publish it, any other keeps the timeout the row shows or clears it. *)
LEMMA ArmingAsShownStep ==
    ASSUME BusInv, ArmingAsShown, [BusNext]_allVars
    PROVE  ArmingAsShown'
<1>1. IInv /\ TypeOK /\ CallConsistent
  BY DEF BusInv, IInv, CallInv
<1>. SUFFICES ASSUME faults' = 0, NEW id \in SagaIds,
                     rows'[id] # NoRow, ~ rows'[id].isCompleted, rows'[id].timeout # NoTimeout
              PROVE  \/ \E p \in published' :
                           p.timer = [sagaId |-> id, version |-> rows'[id].timeout]
                     \/ \E w \in Workers :
                           /\ pc'[w] = "arming"
                           /\ held'[w].sagaId = id
                           /\ held'[w].version + 1 = rows'[id].timeout
  BY DEF ArmingAsShown, PendingTimeout, TimeoutPublished, Live
<1>2. faults = 0 /\ faults' = faults
  BY FaultsGrow
<1>3. CASE rows'[id] = rows[id]
  <2>1. PendingTimeout(id)
    BY <1>3 DEF PendingTimeout, Live
  <2>. QED
    BY <1>2, <1>3, <2>1, ArmedStays
<1>4. ASSUME rows'[id] # rows[id], NEW w \in Workers, NEW i \in SagaIds,
             Creating(w, i), Insert(NewRow(w, i))
      PROVE  FALSE
  BY <1>1, <1>4, InsertFacts
<1>5. ASSUME rows'[id] # rows[id], NEW w \in Workers, Save(w)
      PROVE  \/ \E p \in published' :
                   p.timer = [sagaId |-> id, version |-> rows'[id].timeout]
             \/ \E v \in Workers :
                   /\ pc'[v] = "arming"
                   /\ held'[v].sagaId = id
                   /\ held'[v].version + 1 = rows'[id].timeout
  <2>1. Saving(w) /\ Update(SavedRow(w), held[w].version)
    BY <1>5 DEF Save
  <2>2. /\ held[w] \in Row /\ rows[id] = held[w] /\ held[w].sagaId = id /\ Live(id)
        /\ rows'[id] = SavedRow(w)
    BY <1>1, <1>5, <2>1, SaveFacts
  <2>3. reply[w] \in Outcome /\ ~ held[w].isCompleted
    BY <1>1, <2>1, SavedRowTyped DEF Saving, CallConsistent
  <2>4. /\ rows'[id].isCompleted = reply[w].isCompleted
        /\ reply[w].timeout = "keep" => rows'[id].timeout = held[w].timeout
        /\ reply[w].timeout = "clear" => rows'[id].timeout = NoTimeout
        /\ reply[w].timeout = "set" => rows'[id].timeout = held[w].version + 1
    BY <2>2 DEF SavedRow
  <2>5. reply[w].timeout \in {"keep", "clear", "set"}
    BY <2>3 DEF Outcome
  <2>6. CASE reply[w].timeout = "set"
    <3>1. MustArm(w)
      BY <2>4, <2>6 DEF MustArm
    <3>2. pc'[w] = "arming" /\ held'[w] = held[w]
      BY <1>1, <1>5, <3>1 DEF Save, Goto, TypeOK
    <3>. QED
      BY <2>2, <2>4, <2>6, <3>2
  <2>7. CASE reply[w].timeout = "keep"
    <3>1. rows'[id].timeout = rows[id].timeout
      BY <2>2, <2>4, <2>7
    <3>2. PendingTimeout(id)
      BY <2>2, <2>3, <3>1 DEF PendingTimeout
    <3>. QED
      BY <1>2, <3>1, <3>2, ArmedStays
  <2>. QED
    BY <2>4, <2>5, <2>6, <2>7
<1>. QED
  BY <1>2, <1>3, <1>4, <1>5, FaultlessRowSteps

(* Without faults, whatever calls interleave, an instance never shows a pending timeout
   whose message is neither published nor about to be: in particular a save by another
   call between the save that set it and the publish does not lose it. *)
THEOREM PendingTimeoutsAreArmed == BusSpec => []TimeoutArmed
<1>1. BusInit => ArmingAsShown
  BY DEF BusInit, Init, StoreInit, ArmingAsShown, PendingTimeout, Live
<1>2. BusInv /\ ArmingAsShown /\ [BusNext]_allVars => ArmingAsShown'
  BY ArmingAsShownStep
<1>3. ArmingAsShown => TimeoutArmed
  BY DEF ArmingAsShown, TimeoutArmed
<1>. QED
  BY <1>1, <1>2, <1>3, BusInvariant, PTL DEF BusSpec

-----------------------------------------------------------------------------
(* A conflict means progress. *)

(* What a step may do to a slot. *)
LEMMA SlotSteps ==
    ASSUME BusInv, [BusNext]_allVars, NEW v \in Workers
    PROVE  \/ slot'[v] = slot[v] /\ todo'[v] = todo[v]
           \/ slot'[v] = NoEnvelope
           \/ /\ slot'[v] = slot[v] /\ todo[v] # << >> /\ todo'[v] = Tail(todo[v])
           \/ /\ slot[v] = NoEnvelope /\ slot'[v] \in DOMAIN queue
              /\ todo'[v] = Handlers[slot'[v].payload.type]
<1>1. BusTypeOK /\ CallHasEnvelope
  BY DEF BusInv
<1>. USE DEF BusTypeOK
<1>2. ASSUME \/ UNCHANGED allVars
             \/ \E p \in Inputs : PublishInput(p)
             \/ \E w \in Workers : Call(w) \/ Work(w) \/ SendFromHandler(w)
                                     \/ ScheduleTimeout(w) \/ Fail(w)
      PROVE  slot'[v] = slot[v] /\ todo'[v] = todo[v]
  BY <1>2 DEF allVars, busVars, PublishInput, Call, Work, SendFromHandler, ScheduleTimeout, Fail
<1>3. ASSUME NEW w \in Workers, w # v, Deliver(w) \/ Settle(w) \/ Ack(w) \/ Abandon(w) \/ Die(w)
      PROVE  slot'[v] = slot[v] /\ todo'[v] = todo[v]
  BY <1>1, <1>3 DEF Deliver, Settle, Ack, Abandon, Die
<1>4. ASSUME Ack(v) \/ Abandon(v) \/ Die(v) PROVE slot'[v] = NoEnvelope
  BY <1>1, <1>4 DEF Ack, Abandon, Die
<1>5. ASSUME Settle(v)
      PROVE  slot'[v] = slot[v] /\ todo[v] # << >> /\ todo'[v] = Tail(todo[v])
  BY <1>1, <1>5 DEF Settle, Return, CallHasEnvelope
<1>6. ASSUME Deliver(v)
      PROVE  /\ slot[v] = NoEnvelope /\ slot'[v] \in DOMAIN queue
             /\ todo'[v] = Handlers[slot'[v].payload.type]
  BY <1>1, <1>6 DEF Deliver, BagToSet
<1>. QED
  BY <1>2, <1>3, <1>4, <1>5, <1>6 DEF BusNext, WorkerStep

(* What a step may add to the queue while there is no fault. *)
LEMMA QueueSteps ==
    ASSUME BusInv, [BusNext]_allVars, faults' = faults, NEW e \in DOMAIN queue' \ DOMAIN queue
    PROVE  \/ e.attempt = 1
           \/ \E w \in Workers :
                 /\ pc[w] = "done" /\ slot[w] # NoEnvelope
                 /\ result[w] \in {"conflict", "transient"}
                 /\ e = [payload |-> slot[w].payload, attempt |-> slot[w].attempt + 1]
<1>1. BusTypeOK /\ CallHasEnvelope /\ IsABag(queue) /\ faults + 1 # faults
  BY FaultsGrow DEF BusInv, BusTypeOK
<1>2. ASSUME NEW p, NEW a, Enqueue(p, a) PROVE e = [payload |-> p, attempt |-> a]
  <2>1. DOMAIN BagAdd(queue, [payload |-> p, attempt |-> a])
          = DOMAIN queue \cup {[payload |-> p, attempt |-> a]}
    BY <1>1, BagAddFacts
  <2>. QED
    BY <1>2, <2>1 DEF Enqueue
<1>3. ASSUME NEW w \in Workers, Deliver(w) PROVE FALSE
  BY <1>1, <1>3, BagRemoveFacts DEF Deliver
<1>4. ASSUME \/ UNCHANGED allVars
             \/ \E w \in Workers : Call(w) \/ Work(w) \/ Ack(w)
      PROVE  queue' = queue
  BY <1>4 DEF allVars, busVars, Call, Work, Ack
<1>5. ASSUME NEW w \in Workers, Fail(w) \/ Abandon(w) \/ Die(w) PROVE FALSE
  BY <1>1, <1>5 DEF Fail, Abandon, Die
<1>6. ASSUME NEW p \in Inputs, PublishInput(p) PROVE e.attempt = 1
  BY <1>2, <1>6 DEF PublishInput
<1>7. ASSUME NEW w \in Workers, SendFromHandler(w) \/ ScheduleTimeout(w) PROVE e.attempt = 1
  <2>1. PICK p : Enqueue(p, 1)
    BY <1>7 DEF SendFromHandler, ScheduleTimeout
  <2>. QED
    BY <1>2, <2>1
<1>8. ASSUME NEW w \in Workers, Settle(w)
      PROVE  /\ pc[w] = "done" /\ slot[w] # NoEnvelope
             /\ result[w] \in {"conflict", "transient"}
             /\ e = [payload |-> slot[w].payload, attempt |-> slot[w].attempt + 1]
  <2>1. Retry(w) /\ pc[w] = "done" /\ slot[w] # NoEnvelope
    BY <1>1, <1>8 DEF Settle, Succeeded, GiveUp, Return, CallHasEnvelope
  <2>2. e = [payload |-> slot[w].payload, attempt |-> slot[w].attempt + 1]
    BY <1>2, <2>1 DEF Retry
  <2>3. result[w] \in Failures
    BY <1>1, <2>1 DEF Retry, CountFault
  <2>4. result[w] \in {"conflict", "transient"}
    BY <2>1, <2>3 DEF Retry, Thrown, Classify, Failures
  <2>. QED
    BY <2>1, <2>2, <2>4
<1>. QED
  BY <1>3, <1>4, <1>5, <1>6, <1>7, <1>8 DEF BusNext, WorkerStep

(* Progress is not undone. *)
LEMMA AdvancedStays ==
    ASSUME BusInv, [BusNext]_allVars, NEW saga, NEW corr, NEW n \in Nat, Advanced(saga, corr, n)
    PROVE  Advanced(saga, corr, n)'
<1>1. PICK id \in SagaIds : Live(id) /\ rows[id].key = <<saga, corr>> /\ n <= rows[id].version
  BY DEF Advanced
<1>2. /\ rows'[id] # NoRow /\ rows'[id] \in Row
      /\ rows'[id].key = rows[id].key /\ rows[id].version <= rows'[id].version
  BY <1>1, RowsGrow DEF Live
<1>3. rows[id].version \in Nat /\ rows'[id].version \in Nat
  <2>1. rows[id] \in Row
    BY <1>1 DEF BusInv, IInv, CallInv, TypeOK, StoreTypeOK, Live
  <2>. QED
    BY <1>2, <2>1 DEF Row
<1>4. rows'[id].key = <<saga, corr>> /\ n <= rows'[id].version
  BY <1>1, <1>2, <1>3
<1>. QED
  BY <1>2, <1>4 DEF Advanced, Live

(* An attempt accounted for stays accounted for. *)
LEMMA EarnedStays ==
    ASSUME BusInv, [BusNext]_allVars, NEW e \in Envelopes, Earned(e)
    PROVE  Earned(e)'
<1>1. CASE e.attempt = 1
  BY <1>1 DEF Earned
<1>2. CASE e.attempt # 1
  <2>1. e.attempt - 1 \in Nat
    BY DEF Envelopes
  <2>2. Advanced(Head(Handlers[e.payload.type]), e.payload.corr, e.attempt - 1)
    BY <1>2 DEF Earned
  <2>3. Advanced(Head(Handlers[e.payload.type]), e.payload.corr, e.attempt - 1)'
    BY <2>1, <2>2, AdvancedStays
  <2>. QED
    BY <2>3 DEF Earned
<1>. QED
  BY <1>1, <1>2

(* A call runs on its slot's envelope and saga before a step and after. *)
LEMMA CallKeepsSlot ==
    ASSUME BusInv, AttemptsEarned, CallsFollowSlots, [BusNext]_allVars,
           NEW v \in Workers, pc[v] # "idle"
    PROVE  /\ slot[v] \in Envelopes /\ slot[v].attempt \in Nat \ {0} /\ slot[v] # NoEnvelope
           /\ job[v].saga = Head(Handlers[slot[v].payload.type])
           /\ job[v].corr = slot[v].payload.corr
           /\ pc'[v] # "idle" => slot'[v] = slot[v]
<1>1. slot[v] # NoEnvelope /\ todo[v] # << >>
  BY DEF BusInv, CallHasEnvelope
<1>2. slot[v] \in Envelopes /\ slot[v].attempt \in Nat \ {0}
  BY <1>1, SlotTyped DEF BusInv
<1>3. todo[v] = Handlers[slot[v].payload.type]
  BY <1>1 DEF AttemptsEarned
<1>4. job[v].saga = Head(todo[v]) /\ job[v].corr = slot[v].payload.corr
  BY DEF CallsFollowSlots
<1>5. pc'[v] # "idle" => slot'[v] # NoEnvelope
  BY CallHasEnvelopeStep DEF CallHasEnvelope
<1>. QED
  BY <1>1, <1>2, <1>3, <1>4, <1>5, SlotSteps

(* A conflict: the row has moved on past the version the call held. *)
LEMMA ConflictIsAdvance ==
    ASSUME BusInv, NEW v \in Workers, SaveRejected(v), Live(held[v].sagaId), NEW n \in Nat,
           n <= held[v].version + 1
    PROVE  Advanced(job[v].saga, job[v].corr, n)
<1>1. TypeOK /\ CallConsistent /\ HeldIsPast /\ IndexFindsRows
  BY DEF BusInv, IInv, CallInv
<1>. DEFINE id == held[v].sagaId
<1>2. pc[v] = "running" /\ held[v] # NoRow
  BY <1>1 DEF SaveRejected, Saving, CallConsistent
<1>3. held[v] \in Row /\ id \in SagaIds /\ held[v].version \in Nat
  BY <1>1, <1>2 DEF TypeOK, Row
<1>4. rows[id] \in Row /\ rows[id].version \in Nat
  BY <1>1, <1>3 DEF TypeOK, StoreTypeOK, Live, Row
<1>5. rows[id].version # held[v].version
  BY DEF SaveRejected, VersionMatches, SavedRow
<1>6. rows[id].key = held[v].key /\ held[v].version <= rows[id].version
  BY <1>1, <1>2 DEF HeldIsPast, Live
<1>7. held[v].key = <<job[v].saga, job[v].corr>>
  BY <1>1, <1>2 DEF IndexFindsRows, Key
<1>8. n <= rows[id].version
  BY <1>3, <1>4, <1>5, <1>6
<1>. QED
  BY <1>3, <1>6, <1>7, <1>8 DEF Advanced

(* A call that loads finds the row its attempts account for. *)
LEMMA LoadFindsAdvanced ==
    ASSUME BusInv, UniqueCorrelation, NEW v \in Workers, pc[v] = "loading",
           NEW n \in Nat, Advanced(job[v].saga, job[v].corr, n)
    PROVE  GetByCorrelationId(Key(v)) # NoRow /\ n <= GetByCorrelationId(Key(v)).version
<1>1. PICK id \in SagaIds :
         Live(id) /\ rows[id].key = <<job[v].saga, job[v].corr>> /\ n <= rows[id].version
  BY DEF Advanced
<1>2. correlationIndex[Key(v)] = id
  BY <1>1 DEF BusInv, IInv, IndexFindsRows, Key
<1>3. GetByCorrelationId(Key(v)) = rows[id]
  BY <1>2, StoreAssumption DEF GetByCorrelationId
<1>. QED
  BY <1>1, <1>3 DEF Live

(* Every action keeps the attempts accounted for while there is no fault. *)
LEMMA AttemptsEarnedStep ==
    ASSUME BusInv, CallsFollowSlots, RowsStay, AttemptsEarned, UniqueCorrelation,
           OneSagaPerType, faults' = faults, [BusNext]_allVars
    PROVE  AttemptsEarned'
<1>1. TypeOK /\ BusTypeOK /\ CallHasEnvelope /\ CallConsistent /\ IInv
  BY DEF BusInv, IInv, CallInv
<1>2. ASSUME NEW e \in DOMAIN queue'
      PROVE  Earned(e)'
  <2>1. CASE e \in DOMAIN queue
    <3>1. e \in Envelopes /\ Earned(e)
      BY <1>1, <2>1 DEF BusTypeOK, AttemptsEarned
    <3>. QED
      BY <3>1, EarnedStays
  <2>2. CASE e.attempt = 1
    BY <2>2 DEF Earned
  <2>3. ASSUME NEW w \in Workers, pc[w] = "done", slot[w] # NoEnvelope,
               result[w] \in {"conflict", "transient"},
               e = [payload |-> slot[w].payload, attempt |-> slot[w].attempt + 1]
        PROVE  Earned(e)'
    <3>1. Advanced(job[w].saga, job[w].corr, slot[w].attempt)
      BY <2>3 DEF AttemptsEarned
    <3>2. /\ job[w].saga = Head(Handlers[slot[w].payload.type])
          /\ job[w].corr = slot[w].payload.corr
          /\ slot[w].attempt \in Nat
      BY <2>3, CallKeepsSlot
    <3>3. PICK p, n : p = slot[w].payload /\ n = slot[w].attempt /\ n \in Nat
      BY <3>2
    <3>4. Advanced(Head(Handlers[p.type]), p.corr, n)
      BY <3>1, <3>2, <3>3
    <3>5. Advanced(Head(Handlers[p.type]), p.corr, n)'
      BY <3>3, <3>4, AdvancedStays
    <3>6. e.payload = p /\ e.attempt - 1 = n
      BY <2>3, <3>3
    <3>. QED
      BY <3>5, <3>6 DEF Earned
  <2>. QED
    BY <2>1, <2>2, <2>3, QueueSteps
<1>4. ASSUME NEW v \in Workers, NEW e, e = slot'[v], e # NoEnvelope
      PROVE  Earned(e)' /\ (todo'[v] # << >> => todo'[v] = Handlers[e.payload.type])
  <2>1. CASE slot[v] = e
    <3>1. e \in Envelopes /\ Earned(e) /\ e.payload.type \in MessageTypes
      BY <1>1, <1>4, <2>1 DEF BusTypeOK, AttemptsEarned, Envelopes, Payloads
    <3>2. todo[v] # << >> => todo[v] = Handlers[e.payload.type]
      BY <1>4, <2>1 DEF AttemptsEarned
    <3>3. ASSUME todo[v] # << >>, todo'[v] = Tail(todo[v])
          PROVE  todo'[v] = << >>
      <4>1. PICK q \in Seq(SagaNames) : q = Handlers[e.payload.type]
        BY <3>1, BusAssumption
      <4>2. Len(q) <= 1
        BY <3>1, <4>1 DEF OneSagaPerType
      <4>3. q # << >> /\ todo'[v] = Tail(q)
        BY <3>2, <3>3, <4>1
      <4>4. Tail(q) = << >>
        BY <4>2, <4>3
      <4>. QED
        BY <4>3, <4>4
    <3>4. \/ todo'[v] = todo[v]
          \/ todo[v] # << >> /\ todo'[v] = Tail(todo[v])
          \/ todo'[v] = Handlers[e.payload.type]
      BY <1>4, SlotSteps
    <3>. QED
      BY <3>1, <3>2, <3>3, <3>4, EarnedStays
  <2>2. CASE slot[v] # e
    <3>1. e \in DOMAIN queue /\ todo'[v] = Handlers[e.payload.type]
      BY <1>4, <2>2, SlotSteps
    <3>2. e \in Envelopes /\ Earned(e)
      BY <1>1, <3>1 DEF BusTypeOK, AttemptsEarned
    <3>. QED
      BY <3>1, <3>2, EarnedStays
  <2>. QED
    BY <2>1, <2>2
<1>5. ASSUME NEW v \in Workers, pc'[v] \in {"loaded", "running"}
      PROVE  IF held'[v] = NoRow THEN slot'[v].attempt = 1
                                 ELSE slot'[v].attempt - 1 <= held'[v].version
  <2>1. CASE Load(v)
    <3>1. /\ pc[v] = "loading" /\ held'[v] = GetByCorrelationId(Key(v))
      BY <1>1, <2>1 DEF Load, TypeOK
    <3>2. /\ slot'[v] = slot[v] /\ slot[v] # NoEnvelope
          /\ slot[v].attempt \in Nat \ {0}
          /\ job[v].saga = Head(Handlers[slot[v].payload.type])
          /\ job[v].corr = slot[v].payload.corr
      BY <1>5, <3>1, CallKeepsSlot
    <3>3. Earned(slot[v])
      BY <3>2 DEF AttemptsEarned
    <3>4. CASE slot[v].attempt = 1
      <4>1. held'[v] # NoRow => held'[v].version \in Nat
        <5>1. TypeOK'
          BY BusInvStep DEF BusInv, IInv, CallInv
        <5>. QED
          BY <5>1 DEF TypeOK, Row
      <4>. QED
        BY <3>2, <3>4, <4>1
    <3>5. CASE slot[v].attempt # 1
      <4>1. Advanced(job[v].saga, job[v].corr, slot[v].attempt - 1)
        BY <3>2, <3>3, <3>5 DEF Earned
      <4>2. slot[v].attempt - 1 \in Nat
        BY <3>2
      <4>. QED
        BY <3>1, <3>2, <4>1, <4>2, LoadFindsAdvanced
    <3>. QED
      BY <3>4, <3>5
  <2>2. ASSUME NEW id \in SagaIds, Create(v, id)
        PROVE  held'[v] # NoRow /\ slot'[v].attempt - 1 <= held'[v].version
    <3>1. /\ pc[v] = "loaded" /\ held[v] = NoRow
          /\ held'[v] = NewRow(v, id) /\ Creating(v, id) /\ Insert(NewRow(v, id))
      BY <1>1, <2>2 DEF Create, Creating, TypeOK
    <3>2. slot'[v] = slot[v]
      BY <1>5, <3>1, CallKeepsSlot
    <3>3. slot'[v].attempt = 1
      BY <3>1, <3>2 DEF AttemptsEarned
    <3>4. held'[v] # NoRow /\ held'[v].version = 0
      BY <1>1, <3>1, InsertFacts, StoreAssumption
    <3>. QED
      BY <3>3, <3>4
  <2>3. ASSUME pc[v] \in {"loaded", "running"}, held'[v] = held[v]
        PROVE  IF held'[v] = NoRow THEN slot'[v].attempt = 1
                                   ELSE slot'[v].attempt - 1 <= held'[v].version
    <3>1. slot'[v] = slot[v]
      BY <1>5, <2>3, CallKeepsSlot
    <3>. QED
      BY <2>3, <3>1 DEF AttemptsEarned
  <2>4. CASE Untouched(v) \/ Handle(v) \/ SendFromHandler(v)
    <3>1. pc[v] \in {"loaded", "running"} /\ held'[v] = held[v]
      BY <1>5, <2>4 DEF Untouched, Handle, SendFromHandler, Publish
    <3>. QED
      BY <2>3, <3>1
  <2>5. ASSUME Call(v) \/ pc'[v] = "idle" \/ Ends(v) PROVE FALSE
    BY <1>1, <1>5, <2>5 DEF TypeOK, Call, Receive, Ends, Goto, End
  <2>. QED
    BY <2>1, <2>2, <2>4, <2>5, CallMoves
<1>6. ASSUME NEW v \in Workers, pc'[v] = "done", NEW saga, NEW corr, NEW n,
             saga = job'[v].saga, corr = job'[v].corr, n = slot'[v].attempt
      PROVE  /\ result'[v] # "transient"
             /\ result'[v] = "conflict" => Advanced(saga, corr, n)'
  <2>1. CASE Untouched(v)
    <3>1. /\ pc[v] = "done" /\ job'[v] = job[v] /\ result'[v] = result[v]
      BY <1>6, <2>1 DEF Untouched
    <3>2. slot'[v] = slot[v] /\ slot[v].attempt \in Nat
      BY <1>6, <3>1, CallKeepsSlot
    <3>3. saga = job[v].saga /\ corr = job[v].corr /\ n = slot[v].attempt /\ n \in Nat
      BY <1>6, <3>1, <3>2
    <3>4. result[v] = "conflict" => Advanced(saga, corr, n)
      BY <3>1, <3>3 DEF AttemptsEarned
    <3>. QED
      BY <3>1, <3>3, <3>4, AdvancedStays DEF AttemptsEarned
  <2>2. CASE Call(v)
    BY <1>1, <1>6, <2>2 DEF Call, Receive, End, Goto, TypeOK
  <2>3. CASE Ends(v)
    <3>1. result'[v] # "transient"
      BY <1>6, <2>3, FaultsGrow DEF Ends
    <3>2. ASSUME result'[v] = "conflict"
          PROVE  Advanced(saga, corr, n)'
      <4>1. /\ SaveRejected(v) /\ job'[v] = job[v] /\ slot' = slot
        BY <1>6, <2>3, <3>2 DEF Ends
      <4>2. Live(held[v].sagaId)
        BY <1>1, <3>2, <4>1 DEF SaveRejected, End, TypeOK
      <4>3. pc[v] = "running"
        BY <4>1 DEF SaveRejected, Saving
      <4>4. slot[v].attempt \in Nat \ {0}
        BY <4>3, CallKeepsSlot
      <4>5. slot[v].attempt - 1 <= held[v].version /\ held[v].version \in Nat
        BY <1>1, <4>3 DEF AttemptsEarned, TypeOK, CallConsistent, Row
      <4>6. slot[v].attempt <= held[v].version + 1
        BY <4>4, <4>5
      <4>7. saga = job[v].saga /\ corr = job[v].corr /\ n = slot[v].attempt /\ n \in Nat
        BY <1>6, <4>1, <4>4
      <4>8. Advanced(saga, corr, n)
        BY <4>1, <4>2, <4>6, <4>7, ConflictIsAdvance
      <4>9. Advanced(saga, corr, n)'
        BY <4>7, <4>8, AdvancedStays
      <4>. QED
        BY <4>9
    <3>. QED
      BY <3>1, <3>2
  <2>4. ASSUME \/ pc'[v] = "idle" \/ Load(v) \/ Handle(v) \/ SendFromHandler(v)
               \/ \E id \in SagaIds : Create(v, id)
        PROVE  FALSE
    BY <1>1, <1>6, <2>4 DEF TypeOK, Load, Handle, SendFromHandler, Publish, Create, Creating,
                            Goto
  <2>. QED
    BY <2>1, <2>2, <2>3, <2>4, CallMoves
<1>7. ASSUME NEW v \in Workers, slot'[v] # NoEnvelope
      PROVE  Earned(slot[v])'
  BY <1>4, <1>7 DEF Earned, Advanced, Live
<1>8. ASSUME NEW v \in Workers, pc'[v] = "done", result'[v] = "conflict"
      PROVE  Advanced(job[v].saga, job[v].corr, slot[v].attempt)'
  <2>1. PICK saga, corr, n :
           saga = job'[v].saga /\ corr = job'[v].corr /\ n = slot'[v].attempt
    OBVIOUS
  <2>2. Advanced(saga, corr, n)'
    BY <1>6, <1>8, <2>1
  <2>. QED
    BY <2>1, <2>2 DEF Advanced, Live
<1>9. \A e \in DOMAIN queue' : Earned(e)'
  BY <1>2
<1>. QED
  BY <1>4, <1>5, <1>6, <1>7, <1>8, <1>9 DEF AttemptsEarned

(* With a unique correlation index and one saga per message type, optimistic concurrency
   never burns an attempt for nothing: without faults, n failed attempts of a message mean
   n updates of its instance by other messages, however many of them compete for it. *)
THEOREM ConflictsMeanProgress ==
    ASSUME UniqueCorrelation, OneSagaPerType
    PROVE  BusSpec => []ConflictMeansProgress
<1>. DEFINE Inv == faults = 0 => AttemptsEarned
<1>1. BusInit => Inv
  BY DEF BusInit, Init, AttemptsEarned, EmptyBag, SetToBag
<1>2. BusInv /\ SendsInv /\ Inv /\ [BusNext]_allVars => Inv'
  <2>. SUFFICES ASSUME BusInv, SendsInv, Inv, [BusNext]_allVars, faults' = 0
                PROVE  AttemptsEarned'
    OBVIOUS
  <2>1. faults = 0
    BY FaultsGrow
  <2>. QED
    BY <2>1, AttemptsEarnedStep DEF SendsInv
<1>3. BusInv /\ Inv => ConflictMeansProgress
  <2>. SUFFICES ASSUME BusInv, AttemptsEarned,
                       NEW e \in BagToSet(queue) \cup Range(slot), e # NoEnvelope,
                       e.attempt # 1
                PROVE  \E id \in SagaIds :
                          /\ Live(id)
                          /\ rows[id].key[2] = e.payload.corr
                          /\ e.attempt - 1 <= rows[id].version
    BY DEF ConflictMeansProgress
  <2>1. Earned(e)
    <3>1. CASE e \in BagToSet(queue)
      BY <3>1 DEF AttemptsEarned, BagToSet
    <3>2. CASE e \in Range(slot)
      <4>1. PICK w \in Workers : e = slot[w]
        BY <3>2 DEF Range, BusInv, BusTypeOK
      <4>. QED
        BY <4>1 DEF AttemptsEarned
    <3>. QED
      BY <3>1, <3>2
  <2>2. Advanced(Head(Handlers[e.payload.type]), e.payload.corr, e.attempt - 1)
    BY <2>1 DEF Earned
  <2>. QED
    BY <2>2 DEF Advanced
<1>. HIDE DEF Inv
<1>. QED
  BY <1>1, <1>2, <1>3, SendsInvariant, PTL DEF BusSpec

=============================================================================
