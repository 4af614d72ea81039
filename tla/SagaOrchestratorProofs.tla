----------------------- MODULE SagaOrchestratorProofs -----------------------
(***************************************************************************)
(* Proofs about SagaOrchestrator, for every set of saga definitions, every *)
(* store of either kind and any number of concurrent calls.                *)
(***************************************************************************)
EXTENDS SagaOrchestrator, TLAPS

-----------------------------------------------------------------------------
(* What a step's parameters and the registered definitions are made of. *)

LEMMA OutcomesTyped ==
    ASSUME NEW s \in SagaNames, NEW t \in MessageTypes, NEW d \in Data,
           NEW o \in Outcomes(s, t, d)
    PROVE  o \in Outcome
<1>1. CASE Handler[s, t, d] = {}
  <2>1. o = Unchanged(d)
    BY <1>1 DEF Outcomes
  <2>2. << >> \in Seq(MessageTypes)
    OBVIOUS
  <2>3. QED
    BY <2>1, <2>2 DEF Unchanged, Outcome
<1>2. CASE Handler[s, t, d] # {}
  BY <1>2, DefinitionsAssumption DEF Outcomes
<1>3. QED
  BY <1>1, <1>2

LEMMA NewRowTyped ==
    ASSUME TypeOK, CallConsistent, NEW w \in Workers, NEW id \in SagaIds, Creating(w, id)
    PROVE  /\ NewRow(w, id) \in Row
           /\ job[w] \in Jobs
           /\ Key(w) \in Keys
<1>1. job[w] \in Jobs /\ job[w].corr \in CorrelationIds
  BY DEF TypeOK, CallConsistent, Creating, Jobs
<1>2. Key(w) \in Keys
  BY <1>1 DEF Key, Keys, Jobs
<1>3. Initial[job[w].saga, job[w].type] \in Data
  BY <1>1, DefinitionsAssumption DEF Jobs
<1>4. QED
  BY <1>1, <1>2, <1>3 DEF NewRow, Row, NoTimeout

LEMMA SavedRowTyped ==
    ASSUME TypeOK, CallConsistent, NEW w \in Workers, pc[w] = "running"
    PROVE  /\ SavedRow(w) \in Row
           /\ held[w] \in Row
           /\ reply[w] \in Outcome
<1>1. held[w] \in Row
  BY DEF TypeOK, CallConsistent
<1>3. reply[w] \in Outcome
  BY DEF TypeOK, CallConsistent
<1>4. reply[w].timeout \in {"keep", "set", "clear"}
  BY <1>3 DEF Outcome
<1>5. QED
  BY <1>1, <1>3, <1>4 DEF SavedRow, Row, Outcome, NoTimeout

-----------------------------------------------------------------------------
(* Type correctness.  CallConsistent comes along: a call that runs a handler
   has a job, a row and an outcome. *)

CallInv == TypeOK /\ CallConsistent

LEMMA CallInvInit == Init => CallInv
<1>1. SUFFICES ASSUME Init PROVE CallInv
  OBVIOUS
<1>2. StoreTypeOK
  BY <1>1 DEF Init, StoreInit, StoreTypeOK
<1>3. TypeOK
  BY <1>1, <1>2 DEF Init, TypeOK
<1>4. CallConsistent
  <2>1. \A w \in Workers : pc[w] = "idle"
    BY <1>1 DEF Init
  <2>2. QED
    BY <2>1 DEF CallConsistent
<1>5. QED
  BY <1>3, <1>4 DEF CallInv

LEMMA TypeOKStep == CallInv /\ [Next]_vars => TypeOK'
<1>1. SUFFICES ASSUME TypeOK, CallConsistent, [Next]_vars PROVE TypeOK'
  BY DEF CallInv
<1> USE DEF TypeOK, StoreTypeOK, Goto, End, Reset, storeVars, Results, Failures
<1>2. ASSUME NEW w \in Workers, NEW s \in SagaNames, NEW t \in MessageTypes,
             NEW c \in CorrelationIds \cup {NoCorrelation}, Receive(w, s, t, c)
      PROVE  TypeOK'
  BY <1>1, <1>2 DEF Receive, Jobs
<1>3. ASSUME NEW w \in Workers, Load(w) PROVE TypeOK'
  <2>1. job[w] \in Jobs /\ job[w].corr \in CorrelationIds
    BY <1>1, <1>3 DEF Load, CallConsistent, Jobs
  <2>2. Key(w) \in Keys
    BY <2>1 DEF Key, Keys, Jobs
  <2>3. GetByCorrelationId(Key(w)) \in Row \cup {NoRow}
    BY <1>1, <2>2 DEF GetByCorrelationId
  <2>4. QED
    BY <1>1, <1>3, <2>3 DEF Load
<1>4. ASSUME NEW w \in Workers, Ignore(w) \/ Skip(w) PROVE TypeOK'
  BY <1>1, <1>4 DEF Ignore, Skip
<1>5. ASSUME NEW w \in Workers, NEW id \in SagaIds, Create(w, id) PROVE TypeOK'
  <2>1. NewRow(w, id) \in Row /\ Key(w) \in Keys
    BY <1>1, <1>5, NewRowTyped DEF Create
  <2>2. NewRow(w, id).sagaId \in SagaIds /\ NewRow(w, id).key \in Keys
    BY <2>1 DEF Row
  <2>3. QED
    BY <1>1, <1>5, <2>1, <2>2 DEF Create, Creating, Insert
<1>6. ASSUME NEW w \in Workers, NEW id \in SagaIds, CreateRejected(w, id) PROVE TypeOK'
  BY <1>1, <1>6 DEF CreateRejected, Creating
<1>7. ASSUME NEW w \in Workers, NEW id \in SagaIds, CreateUnacked(w, id) PROVE TypeOK'
  <2>1. NewRow(w, id) \in Row /\ Key(w) \in Keys
    BY <1>1, <1>7, NewRowTyped DEF CreateUnacked
  <2>2. NewRow(w, id).sagaId \in SagaIds /\ NewRow(w, id).key \in Keys
    BY <2>1 DEF Row
  <2>3. QED
    BY <1>1, <1>7, <2>1, <2>2 DEF CreateUnacked, Creating, Insert
<1>8. ASSUME NEW w \in Workers, Handle(w) PROVE TypeOK'
  <2>1. job[w] \in Jobs /\ held[w] \in Row
    BY <1>1, <1>8 DEF Handle, CallConsistent
  <2>2. PICK o \in Outcomes(job[w].saga, job[w].type, held[w].data) :
               reply' = [reply EXCEPT ![w] = o]
    BY <1>8 DEF Handle
  <2>3. o \in Outcome
    BY <2>1, OutcomesTyped DEF Jobs, Row
  <2>4. QED
    BY <1>1, <1>8, <2>2, <2>3 DEF Handle
<1>9. ASSUME NEW w \in Workers, Publish(w) PROVE TypeOK'
  <2>1. reply[w] \in Outcome
    BY <1>1, <1>9, SavedRowTyped DEF Publish
  <2>2. [reply[w] EXCEPT !.sends = Tail(@)] \in Outcome
    <3>1. reply[w].sends \in Seq(MessageTypes) /\ reply[w].sends # << >>
      BY <2>1, <1>9 DEF Outcome, Publish
    <3>2. Tail(reply[w].sends) \in Seq(MessageTypes)
      BY <3>1
    <3>3. QED
      BY <2>1, <3>2 DEF Outcome
  <2>3. QED
    BY <1>1, <1>9, <2>2 DEF Publish
<1>10. ASSUME NEW w \in Workers, Save(w) PROVE TypeOK'
  <2>1. SavedRow(w) \in Row
    BY <1>1, <1>10, SavedRowTyped DEF Save, Saving
  <2>2. SavedRow(w).sagaId \in SagaIds
    BY <2>1 DEF Row
  <2>3. QED
    BY <1>1, <1>10, <2>1, <2>2 DEF Save, Update
<1>11. ASSUME NEW w \in Workers, SaveRejected(w) PROVE TypeOK'
  BY <1>1, <1>11 DEF SaveRejected
<1>12. ASSUME NEW w \in Workers, SaveUnacked(w) PROVE TypeOK'
  <2>1. SavedRow(w) \in Row
    BY <1>1, <1>12, SavedRowTyped DEF SaveUnacked, Saving
  <2>2. SavedRow(w).sagaId \in SagaIds
    BY <2>1 DEF Row
  <2>3. QED
    BY <1>1, <1>12, <2>1, <2>2 DEF SaveUnacked, Update
<1>13. ASSUME NEW w \in Workers, Arm(w) PROVE TypeOK'
  BY <1>1, <1>13 DEF Arm
<1>14. ASSUME NEW w \in Workers, NEW how \in Failures, Throw(w, how) PROVE TypeOK'
  BY <1>1, <1>14 DEF Throw
<1>15. ASSUME NEW w \in Workers, Return(w) \/ Crash(w) PROVE TypeOK'
  BY <1>1, <1>15 DEF Return, Crash
<1>16. ASSUME NEW id \in SagaIds, Remove(id) PROVE TypeOK'
  BY <1>1, <1>16 DEF Remove, Delete, callVars
<1>17. CASE UNCHANGED vars
  BY <1>1, <1>17 DEF vars, callVars
<1>18. QED
  BY <1>1, <1>2, <1>3, <1>4, <1>5, <1>6, <1>7, <1>8, <1>9, <1>10, <1>11, <1>12,
     <1>13, <1>14, <1>15, <1>16, <1>17 DEF Next, Step, Fault

LEMMA CallConsistentStep == CallInv /\ [Next]_vars => CallConsistent'
<1>1. SUFFICES ASSUME TypeOK, CallConsistent, [Next]_vars PROVE CallConsistent'
  BY DEF CallInv
<1> USE DEF TypeOK, CallConsistent, Goto, End, Reset, Key
<1>2. ASSUME NEW w \in Workers, NEW s \in SagaNames, NEW t \in MessageTypes,
             NEW c \in CorrelationIds \cup {NoCorrelation}, Receive(w, s, t, c)
      PROVE  CallConsistent'
  <2>1. [saga |-> s, type |-> t, corr |-> c] \in Jobs
    BY DEF Jobs
  <2>2. [saga |-> s, type |-> t, corr |-> c] # NoJob
    BY <2>1, OrchestratorAssumption
  <2>3. QED
    BY <1>1, <1>2, <2>2 DEF Receive
<1>3. ASSUME NEW w \in Workers, Load(w) PROVE CallConsistent'
  BY <1>1, <1>3 DEF Load
<1>4. ASSUME NEW w \in Workers, Ignore(w) \/ Skip(w) PROVE CallConsistent'
  BY <1>1, <1>4 DEF Ignore, Skip
<1>5. ASSUME NEW w \in Workers, NEW id \in SagaIds, Create(w, id) PROVE CallConsistent'
  BY <1>1, <1>5 DEF Create, Creating, NewRow
<1>6. ASSUME NEW w \in Workers, NEW id \in SagaIds,
             CreateRejected(w, id) \/ CreateUnacked(w, id)
      PROVE  CallConsistent'
  BY <1>1, <1>6 DEF CreateRejected, CreateUnacked, Creating
<1>8. ASSUME NEW w \in Workers, Handle(w) PROVE CallConsistent'
  <2>1. job[w] \in Jobs /\ held[w] \in Row
    BY <1>1, <1>8 DEF Handle
  <2>2. PICK o \in Outcomes(job[w].saga, job[w].type, held[w].data) :
               reply' = [reply EXCEPT ![w] = o]
    BY <1>8 DEF Handle
  <2>3. o \in Outcome
    BY <2>1, OutcomesTyped DEF Jobs, Row
  <2>4. o # NoOutcome
    BY <2>3, OrchestratorAssumption
  <2>5. ~ held[w].isCompleted
    BY <1>8 DEF Handle, Ignored
  <2>6. QED
    BY <1>1, <1>8, <2>2, <2>4, <2>5 DEF Handle
<1>9. ASSUME NEW w \in Workers, Publish(w) PROVE CallConsistent'
  <2>1. reply[w] \in Outcome
    BY <1>1, <1>9, SavedRowTyped DEF Publish
  <2>2. [reply[w] EXCEPT !.sends = Tail(@)] \in Outcome
    <3>1. reply[w].sends \in Seq(MessageTypes) /\ reply[w].sends # << >>
      BY <2>1, <1>9 DEF Outcome, Publish
    <3>2. Tail(reply[w].sends) \in Seq(MessageTypes)
      BY <3>1
    <3>3. QED
      BY <2>1, <3>2 DEF Outcome
  <2>3. reply'[w] # NoOutcome
    BY <1>1, <1>9, <2>2, OrchestratorAssumption DEF Publish
  <2>4. reply'[w].data = reply[w].data /\ reply'[w].isCompleted = reply[w].isCompleted
    BY <1>1, <1>9, <2>1 DEF Publish, Outcome
  <2>5. QED
    BY <1>1, <1>9, <2>3, <2>4 DEF Publish
<1>10. ASSUME NEW w \in Workers, Save(w) PROVE CallConsistent'
  BY <1>1, <1>10 DEF Save, Saving
<1>11. ASSUME NEW w \in Workers, SaveRejected(w) \/ SaveUnacked(w) PROVE CallConsistent'
  BY <1>1, <1>11 DEF SaveRejected, SaveUnacked, Saving
<1>13. ASSUME NEW w \in Workers, Arm(w) PROVE CallConsistent'
  BY <1>1, <1>13 DEF Arm
<1>14. ASSUME NEW w \in Workers, NEW how \in Failures, Throw(w, how) PROVE CallConsistent'
  BY <1>1, <1>14 DEF Throw
<1>15. ASSUME NEW w \in Workers, Return(w) \/ Crash(w) PROVE CallConsistent'
  BY <1>1, <1>15 DEF Return, Crash
<1>16. ASSUME NEW id \in SagaIds, Remove(id) PROVE CallConsistent'
  BY <1>1, <1>16 DEF Remove, callVars
<1>17. CASE UNCHANGED vars
  BY <1>1, <1>17 DEF vars, callVars
<1>18. QED
  BY <1>1, <1>2, <1>3, <1>4, <1>5, <1>6, <1>8, <1>9, <1>10, <1>11,
     <1>13, <1>14, <1>15, <1>16, <1>17 DEF Next, Step, Fault

-----------------------------------------------------------------------------
(* The inductive invariant. *)

IInv == CallInv /\ IdsIssued /\ HeldIsPast /\ IndexFindsRows

(* The four ways a step can touch the store, in one place: a fresh row, the
   next version of a row, one deletion, or nothing. *)
LEMMA InsertKeeps ==
    ASSUME IInv, NEW w \in Workers, NEW id \in SagaIds, Creating(w, id),
           Insert(NewRow(w, id)), held' \in {held, [held EXCEPT ![w] = NewRow(w, id)]},
           pc'[w] = "done" \/ pc' = pc, \A v \in Workers \ {w} : pc'[v] = pc[v],
           job' = job
    PROVE  IdsIssued' /\ HeldIsPast' /\ IndexFindsRows'
<1> USE DEF IInv, CallInv, TypeOK, StoreTypeOK
<1>1. NewRow(w, id) \in Row /\ Key(w) \in Keys
  BY NewRowTyped
<1>2. /\ NewRow(w, id).sagaId = id
      /\ NewRow(w, id).key = Key(w)
      /\ NewRow(w, id) # NoRow
  BY <1>1, StoreAssumption DEF NewRow
<1>3. /\ id \notin issued
      /\ issued' = issued \cup {id}
      /\ held[w] = NoRow
  BY DEF Creating
<1>4. ~ Live(id)
  BY <1>3 DEF IdsIssued
<1>5. /\ rows' = [rows EXCEPT ![id] = NewRow(w, id)]
      /\ correlationIndex' = [correlationIndex EXCEPT ![Key(w)] = id]
  BY <1>2 DEF Insert
<1>6. \A v \in Workers : held'[v] # NoRow => held'[v] = held[v] \/ (v = w /\ held'[v] = NewRow(w, id))
  OBVIOUS
<1>7. IdsIssued'
  BY <1>2, <1>3, <1>5, <1>6 DEF IdsIssued, Live
<1>8. HeldIsPast'
  <2>1. ASSUME NEW v \in Workers, held'[v] # NoRow, held'[v] = held[v], rows'[held[v].sagaId] # NoRow
        PROVE  /\ held[v].key = rows'[held[v].sagaId].key
               /\ held[v].version <= rows'[held[v].sagaId].version
               /\ held[v].version = rows'[held[v].sagaId].version => held[v] = rows'[held[v].sagaId]
    <3>1. held[v].sagaId # id
      BY <1>3, <2>1 DEF IdsIssued
    <3>2. rows'[held[v].sagaId] = rows[held[v].sagaId]
      BY <1>5, <3>1
    <3>3. QED
      BY <2>1, <3>2 DEF HeldIsPast
  <2>2. rows'[id] = NewRow(w, id) /\ NewRow(w, id).version = 0
    BY <1>5 DEF NewRow
  <2>3. QED
    BY <1>2, <1>6, <2>1, <2>2 DEF HeldIsPast
<1>9. IndexFindsRows'
  <2>1. \A v \in Workers : pc'[v] \in {"loaded", "running"} /\ held'[v] # NoRow => held'[v].key = Key(v)'
    BY <1>2, <1>6 DEF IndexFindsRows, Key
  <2>2. ASSUME NEW key \in Keys, correlationIndex'[key] # NoSaga
        PROVE  /\ correlationIndex'[key] \in issued'
               /\ rows'[correlationIndex'[key]] # NoRow =>
                     rows'[correlationIndex'[key]].key = key
    <3>1. CASE key = Key(w)
      <4>1. correlationIndex'[key] = id /\ rows'[id] = NewRow(w, id)
        BY <1>5, <3>1
      <4>2. QED
        BY <1>2, <1>3, <3>1, <4>1
    <3>2. CASE key # Key(w)
      <4>1. correlationIndex'[key] = correlationIndex[key]
        BY <1>5, <3>2
      <4>2. correlationIndex[key] \in issued /\ correlationIndex[key] # id
        BY <1>3, <2>2, <4>1 DEF IndexFindsRows
      <4>3. rows'[correlationIndex[key]] = rows[correlationIndex[key]]
        BY <1>5, <4>2
      <4>4. QED
        BY <1>3, <2>2, <4>1, <4>2, <4>3 DEF IndexFindsRows, Live
    <3>3. QED
      BY <3>1, <3>2
  <2>3. ASSUME UniqueCorrelation, NEW i \in SagaIds, Live(i)'
        PROVE  correlationIndex'[rows'[i].key] = i
    <3>1. CASE i = id
      BY <1>1, <1>2, <1>5, <3>1
    <3>2. CASE i # id
      <4>1. rows'[i] = rows[i] /\ Live(i) /\ rows[i] \in Row
        BY <1>5, <2>3, <3>2 DEF Live
      <4>2. rows[i].key # Key(w)
        BY <1>2, <2>3, <4>1 DEF Insert, CanInsert
      <4>3. QED
        BY <1>5, <2>3, <4>1, <4>2 DEF IndexFindsRows
    <3>3. QED
      BY <3>1, <3>2
  <2>4. QED
    BY <2>1, <2>2, <2>3 DEF IndexFindsRows, Live
<1>10. QED
  BY <1>7, <1>8, <1>9

LEMMA UpdateKeeps ==
    ASSUME IInv, NEW w \in Workers, Saving(w), Update(SavedRow(w), held[w].version),
           pc'[w] \in {"arming", "done"}, \A v \in Workers \ {w} : pc'[v] = pc[v],
           UNCHANGED <<job, held, issued>>
    PROVE  IdsIssued' /\ HeldIsPast' /\ IndexFindsRows'
<1> USE DEF IInv, CallInv, TypeOK, StoreTypeOK
<1> DEFINE id  == held[w].sagaId
           new == SavedRow(w)
<1>1. /\ new \in Row
      /\ held[w] \in Row
      /\ held[w] # NoRow
  BY SavedRowTyped, StoreAssumption DEF Saving
<1>2. /\ new.sagaId = id
      /\ new.key = held[w].key
      /\ new.version = held[w].version + 1
      /\ new # NoRow
      /\ id \in SagaIds
      /\ held[w].version \in Nat
  BY <1>1, StoreAssumption DEF SavedRow, Row
<1> HIDE DEF new
<1>3. /\ rows[id] # NoRow
      /\ rows[id].version = held[w].version
      /\ rows' = [rows EXCEPT ![id] = new]
      /\ correlationIndex' = correlationIndex
  BY <1>2 DEF Update, VersionMatches, Live, new
<1>4. rows[id] = held[w]
  BY <1>1, <1>3 DEF HeldIsPast
<1>5. /\ rows'[id] = new
      /\ \A i \in SagaIds : i # id => rows'[i] = rows[i]
      /\ \A i \in SagaIds : rows'[i] # NoRow <=> rows[i] # NoRow
      /\ \A i \in SagaIds : rows'[i] # NoRow => rows'[i].key = rows[i].key
  BY <1>2, <1>3, <1>4
<1>6. IdsIssued'
  BY <1>2, <1>5 DEF IdsIssued, Live
<1>7. HeldIsPast'
  <2>1. ASSUME NEW v \in Workers, held[v] # NoRow, rows'[held[v].sagaId] # NoRow
        PROVE  /\ held[v].key = rows'[held[v].sagaId].key
               /\ held[v].version <= rows'[held[v].sagaId].version
               /\ held[v].version = rows'[held[v].sagaId].version => held[v] = rows'[held[v].sagaId]
    <3>1. held[v] \in Row /\ held[v].sagaId \in SagaIds /\ held[v].version \in Nat
      BY <2>1 DEF Row
    <3>2. CASE held[v].sagaId = id
      <4>1. held[v].key = held[w].key /\ held[v].version <= held[w].version
        BY <1>3, <1>4, <2>1, <3>2 DEF HeldIsPast
      <4>2. QED
        BY <1>2, <1>5, <3>1, <3>2, <4>1
    <3>3. CASE held[v].sagaId # id
      BY <1>5, <2>1, <3>1, <3>3 DEF HeldIsPast
    <3>4. QED
      BY <3>2, <3>3
  <2>2. QED
    BY <2>1 DEF HeldIsPast
<1>8. IndexFindsRows'
  <2>1. \A v \in Workers : pc'[v] \in {"loaded", "running"} /\ held'[v] # NoRow => held'[v].key = Key(v)'
    BY DEF IndexFindsRows, Key
  <2>2. ASSUME NEW key \in Keys, correlationIndex'[key] # NoSaga
        PROVE  /\ correlationIndex'[key] \in issued'
               /\ rows'[correlationIndex'[key]] # NoRow =>
                     rows'[correlationIndex'[key]].key = key
    BY <1>3, <1>5, <2>2 DEF IndexFindsRows, Live
  <2>3. ASSUME UniqueCorrelation, NEW i \in SagaIds, rows'[i] # NoRow
        PROVE  correlationIndex'[rows'[i].key] = i
    BY <1>3, <1>5, <2>3 DEF IndexFindsRows, Live
  <2>4. QED
    BY <2>1, <2>2, <2>3 DEF IndexFindsRows, Live
<1>9. QED
  BY <1>6, <1>7, <1>8

LEMMA DeleteKeeps ==
    ASSUME IInv, NEW id \in SagaIds, Delete(id), UNCHANGED <<callVars, issued>>
    PROVE  IdsIssued' /\ HeldIsPast' /\ IndexFindsRows'
<1> USE DEF IInv, CallInv, TypeOK, StoreTypeOK, callVars
<1>1. /\ rows'[id] = NoRow
      /\ \A i \in SagaIds : i # id => rows'[i] = rows[i]
      /\ correlationIndex' = correlationIndex
  BY DEF Delete
<1>2. \A i \in SagaIds : rows'[i] # NoRow => rows'[i] = rows[i]
  BY <1>1
<1>3. IdsIssued'
  BY <1>2 DEF IdsIssued, Live
<1>4. HeldIsPast'
  <2>1. ASSUME NEW v \in Workers, held[v] # NoRow, rows'[held[v].sagaId] # NoRow
        PROVE  rows'[held[v].sagaId] = rows[held[v].sagaId]
    <3>1. held[v].sagaId \in SagaIds
      BY <2>1 DEF Row
    <3>2. QED
      BY <1>2, <2>1, <3>1
  <2>2. QED
    BY <2>1 DEF HeldIsPast
<1>5. IndexFindsRows'
  <2>1. \A v \in Workers : pc'[v] \in {"loaded", "running"} /\ held'[v] # NoRow => held'[v].key = Key(v)'
    BY DEF IndexFindsRows, Key
  <2>2. ASSUME NEW key \in Keys, correlationIndex'[key] # NoSaga
        PROVE  /\ correlationIndex'[key] \in issued'
               /\ rows'[correlationIndex'[key]] # NoRow =>
                     rows'[correlationIndex'[key]].key = key
    BY <1>1, <1>2, <2>2 DEF IndexFindsRows, Live
  <2>3. ASSUME UniqueCorrelation, NEW i \in SagaIds, rows'[i] # NoRow
        PROVE  correlationIndex'[rows'[i].key] = i
    BY <1>1, <1>2, <2>3 DEF IndexFindsRows, Live
  <2>4. QED
    BY <2>1, <2>2, <2>3 DEF IndexFindsRows, Live
<1>6. QED
  BY <1>3, <1>4, <1>5

(* A step that leaves the store alone, and each call's row alone, dropped, or
   read from the store. *)
LEMMA StoreUnchangedKeeps ==
    ASSUME IInv, UNCHANGED <<storeVars, issued>>,
           \A v \in Workers :
              \/ held'[v] = NoRow
              \/ pc'[v] \in {"idle", "loading", "arming", "done"} /\ held'[v] = held[v]
              \/ pc[v] \in {"loaded", "running"} /\ held'[v] = held[v] /\ job'[v] = job[v]
              \/ job'[v] = job[v] /\ Key(v) \in Keys /\ held'[v] = GetByCorrelationId(Key(v))
    PROVE  IdsIssued' /\ HeldIsPast' /\ IndexFindsRows'
<1> USE DEF IInv, CallInv, TypeOK, StoreTypeOK, storeVars
<1>1. ASSUME NEW v \in Workers, held'[v] # NoRow, held'[v] # held[v]
      PROVE  /\ job'[v] = job[v]
             /\ held'[v].key = Key(v)
             /\ held'[v].sagaId \in issued
             /\ rows[held'[v].sagaId] = held'[v]
  <2>1. /\ job'[v] = job[v]
        /\ Key(v) \in Keys
        /\ held'[v] = GetByCorrelationId(Key(v))
    BY <1>1
  <2>2. PICK id \in SagaIds : id = correlationIndex[Key(v)] /\ held'[v] = rows[id]
    BY <1>1, <2>1 DEF GetByCorrelationId
  <2>3. rows[id].key = Key(v) /\ id \in issued /\ rows[id].sagaId = id
    BY <1>1, <2>1, <2>2, StoreAssumption DEF IndexFindsRows, IdsIssued, Live
  <2>4. QED
    BY <2>1, <2>2, <2>3
<1>2. IdsIssued'
  BY <1>1 DEF IdsIssued, Live
<1>3. HeldIsPast'
  <2>1. ASSUME NEW v \in Workers, held'[v] # NoRow, rows[held'[v].sagaId] # NoRow
        PROVE  /\ held'[v].key = rows[held'[v].sagaId].key
               /\ held'[v].version <= rows[held'[v].sagaId].version
               /\ held'[v].version = rows[held'[v].sagaId].version => held'[v] = rows[held'[v].sagaId]
    <3>1. CASE held'[v] = held[v]
      BY <2>1, <3>1 DEF HeldIsPast
    <3>2. CASE held'[v] # held[v]
      <4>1. rows[held'[v].sagaId] = held'[v] /\ held'[v].sagaId \in SagaIds
        BY <1>1, <2>1, <3>2
      <4>2. held'[v] \in Row
        BY <2>1, <4>1
      <4>3. held'[v].version \in Nat
        BY <4>2 DEF Row
      <4>4. QED
        BY <4>1, <4>3
    <3>3. QED
      BY <3>1, <3>2
  <2>2. QED
    BY <2>1 DEF HeldIsPast
<1>4. IndexFindsRows'
  <2>1. ASSUME NEW v \in Workers, pc'[v] \in {"loaded", "running"}, held'[v] # NoRow
        PROVE  held'[v].key = Key(v)'
    <3>1. CASE held'[v] = held[v] /\ pc[v] \in {"loaded", "running"} /\ job'[v] = job[v]
      BY <2>1, <3>1 DEF IndexFindsRows, Key
    <3>2. CASE job'[v] = job[v] /\ Key(v) \in Keys /\ held'[v] = GetByCorrelationId(Key(v))
      <4>1. PICK id \in SagaIds : id = correlationIndex[Key(v)] /\ held'[v] = rows[id]
        BY <2>1, <3>2 DEF GetByCorrelationId
      <4>2. held'[v].key = Key(v)
        BY <2>1, <3>2, <4>1, StoreAssumption DEF IndexFindsRows, Live
      <4>3. QED
        BY <3>2, <4>2 DEF Key
    <3>3. QED
      BY <2>1, <3>1, <3>2
  <2>2. QED
    BY <2>1 DEF IndexFindsRows, Live
<1>5. QED
  BY <1>2, <1>3, <1>4

-----------------------------------------------------------------------------

LEMMA IInvInit == Init => IInv
<1>1. SUFFICES ASSUME Init PROVE IInv
  OBVIOUS
<1>2. /\ \A id \in SagaIds : rows[id] = NoRow
      /\ \A key \in Keys : correlationIndex[key] = NoSaga
      /\ \A w \in Workers : held[w] = NoRow
  BY <1>1 DEF Init, StoreInit
<1>3. IdsIssued
  BY <1>2 DEF IdsIssued, Live
<1>4. HeldIsPast
  BY <1>2 DEF HeldIsPast
<1>5. IndexFindsRows
  BY <1>2 DEF IndexFindsRows, Live
<1>6. QED
  BY <1>1, <1>3, <1>4, <1>5, CallInvInit DEF IInv

LEMMA IInvStep == IInv /\ [Next]_vars => IInv'
<1>1. SUFFICES ASSUME IInv, [Next]_vars PROVE IdsIssued' /\ HeldIsPast' /\ IndexFindsRows'
  BY TypeOKStep, CallConsistentStep DEF IInv, CallInv
<1> DEFINE Kept == IdsIssued' /\ HeldIsPast' /\ IndexFindsRows'
<1>2. TypeOK /\ CallConsistent
  BY <1>1 DEF IInv, CallInv
<1> USE DEF TypeOK, Goto, End
<1>3. ASSUME NEW w \in Workers, NEW s \in SagaNames, NEW t \in MessageTypes,
             NEW c \in CorrelationIds \cup {NoCorrelation}, Receive(w, s, t, c)
      PROVE  Kept
  <2>1. \A v \in Workers :
           \/ pc'[v] \in {"idle", "loading", "arming", "done"} /\ held'[v] = held[v]
           \/ pc[v] \in {"loaded", "running"} /\ held'[v] = held[v] /\ job'[v] = job[v]
    BY <1>2, <1>3 DEF Receive
  <2>2. UNCHANGED <<storeVars, issued>>
    BY <1>3 DEF Receive
  <2>3. QED
    BY <1>1, <2>1, <2>2, StoreUnchangedKeeps
<1>4. ASSUME NEW w \in Workers, Load(w) PROVE Kept
  <2>1. job[w] \in Jobs /\ job[w].corr \in CorrelationIds
    BY <1>2, <1>4 DEF Load, CallConsistent, Jobs
  <2>2. Key(w) \in Keys
    BY <2>1 DEF Key, Keys, Jobs
  <2>3. \A v \in Workers :
           \/ pc'[v] \in {"idle", "loading", "arming", "done"} /\ held'[v] = held[v]
           \/ pc[v] \in {"loaded", "running"} /\ held'[v] = held[v] /\ job'[v] = job[v]
           \/ job'[v] = job[v] /\ Key(v) \in Keys /\ held'[v] = GetByCorrelationId(Key(v))
    BY <1>2, <1>4, <2>2 DEF Load
  <2>4. UNCHANGED <<storeVars, issued>>
    BY <1>4 DEF Load
  <2>5. QED
    BY <1>1, <2>3, <2>4, StoreUnchangedKeeps
<1>5. ASSUME NEW w \in Workers, NEW id \in SagaIds, Create(w, id) \/ CreateUnacked(w, id)
      PROVE  Kept
  <2>1. /\ Creating(w, id) /\ Insert(NewRow(w, id)) /\ job' = job
        /\ held' \in {held, [held EXCEPT ![w] = NewRow(w, id)]}
    BY <1>5 DEF Create, CreateUnacked
  <2>2. /\ pc'[w] = "done" \/ pc' = pc
        /\ \A v \in Workers \ {w} : pc'[v] = pc[v]
    BY <1>2, <1>5 DEF Create, CreateUnacked
  <2>3. QED
    BY <1>1, <2>1, <2>2, InsertKeeps
<1>6. ASSUME NEW w \in Workers, Save(w) \/ SaveUnacked(w) PROVE Kept
  <2>1. Saving(w) /\ Update(SavedRow(w), held[w].version) /\ UNCHANGED <<job, held, issued>>
    BY <1>6 DEF Save, SaveUnacked
  <2>2. /\ pc'[w] \in {"arming", "done"}
        /\ \A v \in Workers \ {w} : pc'[v] = pc[v]
    BY <1>2, <1>6 DEF Save, SaveUnacked
  <2>3. QED
    BY <1>1, <2>1, <2>2, UpdateKeeps
<1>7. ASSUME NEW w \in Workers,
             \/ Ignore(w) \/ Skip(w)
             \/ \E id \in SagaIds : CreateRejected(w, id)
             \/ Handle(w)
             \/ Publish(w)
             \/ SaveRejected(w)
             \/ Arm(w)
             \/ \E how \in Failures : Throw(w, how)
             \/ Return(w)
             \/ Crash(w)
      PROVE  Kept
  <2>1. UNCHANGED storeVars
    BY <1>7 DEF Ignore, Skip, CreateRejected, Handle, Publish, SaveRejected, Arm, Throw, Return,
                Crash, Reset
  <2>2. CASE \E id \in SagaIds : CreateRejected(w, id)
    <3>1. PICK id \in SagaIds : CreateRejected(w, id)
      BY <2>2
    <3>2. /\ issued' = issued \cup {id}
          /\ UNCHANGED <<held, job>>
          /\ \A v \in Workers : pc'[v] = IF v = w THEN "done" ELSE pc[v]
      BY <1>2, <3>1 DEF CreateRejected, Creating
    <3>3. IdsIssued'
      BY <1>1, <2>1, <3>2 DEF IInv, IdsIssued, Live, storeVars
    <3>4. HeldIsPast'
      BY <1>1, <2>1, <3>2 DEF IInv, HeldIsPast, storeVars
    <3>5. IndexFindsRows'
      BY <1>1, <2>1, <3>2 DEF IInv, IndexFindsRows, Live, Key, storeVars
    <3>6. QED
      BY <3>3, <3>4, <3>5
  <2>3. CASE ~ \E id \in SagaIds : CreateRejected(w, id)
    <3>1. UNCHANGED issued
      BY <1>7, <2>3 DEF Ignore, Skip, Handle, Publish, SaveRejected, Arm, Throw, Return, Crash, Reset
    <3>2. \A v \in Workers :
             \/ held'[v] = NoRow
             \/ pc'[v] \in {"idle", "loading", "arming", "done"} /\ held'[v] = held[v]
             \/ pc[v] \in {"loaded", "running"} /\ held'[v] = held[v] /\ job'[v] = job[v]
      BY <1>2, <1>7, <2>3 DEF Ignore, Skip, Handle, Publish, SaveRejected, Arm, Throw, Return,
                              Crash, Reset
    <3>3. QED
      BY <1>1, <2>1, <3>1, <3>2, StoreUnchangedKeeps
  <2>4. QED
    BY <2>2, <2>3
<1>8. ASSUME NEW id \in SagaIds, Remove(id) PROVE Kept
  BY <1>1, <1>8, DeleteKeeps DEF Remove
<1>9. CASE UNCHANGED vars
  <2>1. \A v \in Workers :
           \/ pc'[v] \in {"idle", "loading", "arming", "done"} /\ held'[v] = held[v]
           \/ pc[v] \in {"loaded", "running"} /\ held'[v] = held[v] /\ job'[v] = job[v]
    BY <1>2, <1>9 DEF vars, callVars
  <2>2. QED
    BY <1>1, <1>9, <2>1, StoreUnchangedKeeps DEF vars
<1>10. QED
  BY <1>1, <1>3, <1>4, <1>5, <1>6, <1>7, <1>8, <1>9 DEF Next, Step, Fault

-----------------------------------------------------------------------------
(* The results. *)

(* Every reachable state satisfies the inductive invariant: calls hold past
   states of the rows they will write, ids are not reused, the index is sound. *)
THEOREM InductiveInvariant == Spec => []IInv
<1>1. QED
  BY IInvInit, IInvStep, PTL DEF Spec

(* processMessage only ever handles well-formed rows, outcomes and results. *)
THEOREM TypeCorrect == Spec => []TypeOK
<1>1. IInv => TypeOK
  BY DEF IInv, CallInv
<1>2. QED
  BY <1>1, InductiveInvariant, PTL

(* A row with the version a call read is the row it read: the version check of
   store.update detects every write in between. *)
THEOREM VersionIdentifiesState == Spec => []HeldIsPast
<1>1. IInv => HeldIsPast
  BY DEF IInv
<1>2. QED
  BY <1>1, InductiveInvariant, PTL

(* Each await of processMessage finds what the one before it left: a call that runs a
   handler has a correlation id, a row that was not completed when it read it, and an
   outcome of that handler on that very row's data. *)
THEOREM CallsAreConsistent == Spec => []CallConsistent
<1>1. IInv => CallConsistent
  BY DEF IInv, CallInv
<1>2. QED
  BY <1>1, InductiveInvariant, PTL

(* getByCorrelationId never hands a call another saga's or correlation id's instance, and
   under a unique index it misses no live one, whatever inserts, saves and deletions other
   calls make. *)
THEOREM IndexIsSound == Spec => []IndexFindsRows
<1>1. IInv => IndexFindsRows
  BY DEF IInv
<1>2. QED
  BY <1>1, InductiveInvariant, PTL

(* Concurrent starts never leave two instances of a saga for a correlation id
   in a store with a unique index. *)
THEOREM UniqueInstances == Spec => []OneInstancePerKey
<1>1. IInv => OneInstancePerKey
  BY DEF IInv, IndexFindsRows, OneInstancePerKey
<1>2. QED
  BY <1>1, InductiveInvariant, PTL

(* What a step does to the rows, seen from outside: a new row for an id with
   none, one handler run on the current row of a saga that is not complete, a
   deletion, or nothing. *)
LEMMA RowSteps ==
    ASSUME IInv, [Next]_vars
    PROVE  \/ rows' = rows
           \/ \E w \in Workers, id \in SagaIds :
                 /\ Creating(w, id)
                 /\ rows[id] = NoRow
                 /\ rows' = [rows EXCEPT ![id] = NewRow(w, id)]
           \/ \E w \in Workers :
                 /\ pc[w] = "running"
                 /\ rows[held[w].sagaId] = held[w]
                 /\ rows' = [rows EXCEPT ![held[w].sagaId] = SavedRow(w)]
           \/ \E id \in SagaIds :
                 /\ rows[id] # NoRow
                 /\ rows' = [rows EXCEPT ![id] = NoRow]
<1> DEFINE Steps ==
           \/ rows' = rows
           \/ \E w \in Workers, id \in SagaIds :
                 /\ Creating(w, id)
                 /\ rows[id] = NoRow
                 /\ rows' = [rows EXCEPT ![id] = NewRow(w, id)]
           \/ \E w \in Workers :
                 /\ pc[w] = "running"
                 /\ rows[held[w].sagaId] = held[w]
                 /\ rows' = [rows EXCEPT ![held[w].sagaId] = SavedRow(w)]
           \/ \E id \in SagaIds :
                 /\ rows[id] # NoRow
                 /\ rows' = [rows EXCEPT ![id] = NoRow]
<1>1. TypeOK /\ CallConsistent
  BY DEF IInv, CallInv
<1>2. ASSUME NEW w \in Workers, NEW id \in SagaIds, Create(w, id) \/ CreateUnacked(w, id)
      PROVE  Steps
  <2>1. Creating(w, id) /\ Insert(NewRow(w, id))
    BY <1>2 DEF Create, CreateUnacked
  <2>2. NewRow(w, id).sagaId = id
    BY DEF NewRow
  <2>3. QED
    BY <2>1, <2>2 DEF Insert, CanInsert, Live
<1>3. ASSUME NEW w \in Workers, Save(w) \/ SaveUnacked(w) PROVE Steps
  <2>1. pc[w] = "running" /\ Update(SavedRow(w), held[w].version)
    BY <1>3 DEF Save, SaveUnacked, Saving
  <2>2. SavedRow(w).sagaId = held[w].sagaId
    BY DEF SavedRow
  <2>3. held[w] \in Row /\ held[w] # NoRow
    BY <1>1, <2>1 DEF CallConsistent, TypeOK
  <2>4. rows[held[w].sagaId] = held[w]
    BY <2>1, <2>2, <2>3 DEF IInv, HeldIsPast, Update, VersionMatches, Live
  <2>5. QED
    BY <2>1, <2>2, <2>4 DEF Update
<1>4. ASSUME NEW id \in SagaIds, Remove(id) PROVE Steps
  BY <1>4 DEF Remove, Delete, Live
<1>5. ASSUME NEW w \in Workers,
             \/ \E s \in SagaNames, t \in MessageTypes, c \in CorrelationIds \cup {NoCorrelation} :
                   Receive(w, s, t, c)
             \/ Load(w)
             \/ Ignore(w) \/ Skip(w)
             \/ \E id \in SagaIds : CreateRejected(w, id)
             \/ Handle(w)
             \/ Publish(w)
             \/ SaveRejected(w)
             \/ Arm(w)
             \/ \E how \in Failures : Throw(w, how)
             \/ Return(w)
             \/ Crash(w)
      PROVE  rows' = rows
  BY <1>5 DEF storeVars, Receive, Load, Ignore, Skip, CreateRejected, Handle, Publish, SaveRejected,
              Arm, Throw, Return, Crash, Reset
<1>6. CASE UNCHANGED vars
  BY <1>6 DEF vars, storeVars
<1>7. QED
  BY <1>2, <1>3, <1>4, <1>5, <1>6 DEF Next, Step, Fault

(* No call, however old the state it read, changes a completed saga. *)
THEOREM CompletedSagasStay == Spec => CompletedIsFinal
<1> DEFINE Stays == \A id \in SagaIds :
                       Live(id) /\ rows[id].isCompleted => rows'[id] \in {rows[id], NoRow}
<1>1. IInv /\ [Next]_vars => Stays
  <2> SUFFICES ASSUME IInv, [Next]_vars, NEW id \in SagaIds, Live(id), rows[id].isCompleted
               PROVE  rows'[id] \in {rows[id], NoRow}
    OBVIOUS
  <2>1. TypeOK /\ CallConsistent
    BY DEF IInv, CallInv
  <2>2. CASE rows' = rows
    BY <2>2
  <2>3. ASSUME NEW w \in Workers, NEW i \in SagaIds, rows[i] = NoRow,
               rows' = [rows EXCEPT ![i] = NewRow(w, i)]
        PROVE  rows'[id] = rows[id]
    BY <2>3 DEF Live
  <2>4. ASSUME NEW w \in Workers, pc[w] = "running", rows[held[w].sagaId] = held[w],
               rows' = [rows EXCEPT ![held[w].sagaId] = SavedRow(w)]
        PROVE  rows'[id] = rows[id]
    <3>1. ~ held[w].isCompleted
      BY <2>1, <2>4 DEF CallConsistent
    <3>2. QED
      BY <2>4, <3>1
  <2>5. ASSUME NEW i \in SagaIds, rows' = [rows EXCEPT ![i] = NoRow]
        PROVE  rows'[id] \in {rows[id], NoRow}
    BY <2>1, <2>5 DEF TypeOK, StoreTypeOK
  <2>6. QED
    BY <2>2, <2>3, <2>4, <2>5, RowSteps
<1>2. QED
  BY <1>1, InductiveInvariant, PTL DEF Spec, CompletedIsFinal

(* The refinement mapping, as an operator on the rows. *)
Instances ==
    [id \in SagaIds |-> IF Live(id) THEN AsInstance(rows[id]) ELSE NoInstance]

LEMMA AsInstanceTyped ==
    ASSUME NEW row \in Row
    PROVE  AsInstance(row) # NoInstance
<1>1. AsInstance(row) \in [key : Keys, isCompleted : BOOLEAN, data : Data]
  BY DEF AsInstance, Row
<1>2. QED
  BY <1>1, OrchestratorAssumption

(* The runtime implements AtomicSagas: a save replaces exactly the state its
   handler ran on, so each step is one atomic start, handler run or deletion. *)
THEOREM ImplementsAtomicSagas == Spec => AtomicSpec
<1> USE DEF AtomicSpec
<1>1. Init => Atomic!Init
  BY DEF Init, StoreInit, Atomic!Init, Live
<1>2. IInv /\ [Next]_vars => [Atomic!Next]_Instances
  <2> SUFFICES ASSUME IInv, [Next]_vars
               PROVE  Atomic!Next \/ Instances' = Instances
    BY DEF Instances
  <2>1. /\ TypeOK /\ CallConsistent /\ IndexFindsRows
        /\ rows \in [SagaIds -> Row \cup {NoRow}]
    BY DEF IInv, CallInv, TypeOK, StoreTypeOK
  <2>2. CASE rows' = rows
    BY <2>2 DEF Instances, Live
  <2>3. ASSUME NEW w \in Workers, NEW id \in SagaIds, Creating(w, id), rows[id] = NoRow,
               rows' = [rows EXCEPT ![id] = NewRow(w, id)]
        PROVE  Atomic!Next
    <3>1. NewRow(w, id) \in Row /\ NewRow(w, id) # NoRow
      BY <2>1, <2>3, NewRowTyped, StoreAssumption
    <3>2. /\ job[w].saga \in SagaNames
          /\ job[w].type \in MessageTypes
          /\ job[w].corr \in CorrelationIds
          /\ job[w].type \in StartTypes[job[w].saga]
      BY <2>1, <2>3 DEF TypeOK, CallConsistent, Creating, Ignored, Jobs
    <3>3. AsInstance(NewRow(w, id)) =
             [key |-> <<job[w].saga, job[w].corr>>, isCompleted |-> FALSE,
              data |-> Initial[job[w].saga, job[w].type]]
      BY DEF AsInstance, NewRow, Key
    <3>4. Instances[id] = NoInstance
      BY <2>3 DEF Instances, Live
    <3>5. Instances' = [Instances EXCEPT ![id] = AsInstance(NewRow(w, id))]
      BY <2>1, <2>3, <3>1 DEF Instances, Live
    <3>6. Atomic!Start(id, job[w].saga, job[w].corr, job[w].type)
      BY <3>2, <3>3, <3>4, <3>5 DEF Atomic!Start, Instances
    <3>7. QED
      BY <3>2, <3>6 DEF Atomic!Next
  <2>4. ASSUME NEW w \in Workers, pc[w] = "running", rows[held[w].sagaId] = held[w],
               rows' = [rows EXCEPT ![held[w].sagaId] = SavedRow(w)]
        PROVE  Atomic!Next
    <3> DEFINE id == held[w].sagaId
    <3>1. /\ SavedRow(w) \in Row /\ SavedRow(w) # NoRow
          /\ held[w] \in Row /\ held[w] # NoRow
          /\ id \in SagaIds
          /\ ~ held[w].isCompleted
      BY <2>1, <2>4, SavedRowTyped, StoreAssumption DEF CallConsistent, Row
    <3>2. /\ job[w].type \in MessageTypes
          /\ held[w].key[1] = job[w].saga
      BY <2>1, <2>4, <3>1 DEF TypeOK, CallConsistent, IndexFindsRows, Key, Jobs
    <3>3. PICK o \in Outcomes(job[w].saga, job[w].type, held[w].data) :
                 reply[w].data = o.data /\ reply[w].isCompleted = o.isCompleted
      BY <2>1, <2>4 DEF CallConsistent
    <3>4. AsInstance(SavedRow(w)) =
             [key |-> held[w].key, isCompleted |-> o.isCompleted, data |-> o.data]
      BY <3>3 DEF AsInstance, SavedRow
    <3>5. Instances[id] = AsInstance(held[w])
      BY <2>4, <3>1 DEF Instances, Live
    <3>6. Instances[id] # NoInstance
      BY <3>1, <3>5, AsInstanceTyped
    <3>7. Instances' = [Instances EXCEPT ![id] = AsInstance(SavedRow(w))]
      BY <2>1, <2>4, <3>1 DEF Instances, Live
    <3>8. /\ Instances[id].key = held[w].key
          /\ Instances[id].isCompleted = held[w].isCompleted
          /\ Instances[id].data = held[w].data
      BY <3>5 DEF AsInstance
    <3>9. Atomic!Handle(id, job[w].type)
      <4>1. o \in Atomic!Outcomes(Instances[id].key[1], job[w].type, Instances[id].data)
        BY <3>2, <3>3, <3>8 DEF Atomic!Outcomes, Atomic!Unchanged, Outcomes, Unchanged
      <4>2. Instances' = [Instances EXCEPT ![id] =
               [key |-> Instances[id].key, isCompleted |-> o.isCompleted, data |-> o.data]]
        BY <3>4, <3>7, <3>8
      <4>3. ~ Instances[id].isCompleted
        BY <3>1, <3>8
      <4>4. QED
        BY <3>6, <4>1, <4>2, <4>3 DEF Atomic!Handle, Instances
    <3>10. QED
      BY <3>1, <3>2, <3>9 DEF Atomic!Next
  <2>5. ASSUME NEW id \in SagaIds, rows[id] # NoRow, rows' = [rows EXCEPT ![id] = NoRow]
        PROVE  Atomic!Next
    <3>1. Instances[id] # NoInstance
      BY <2>1, <2>5, AsInstanceTyped DEF Instances, Live
    <3>2. Instances' = [Instances EXCEPT ![id] = NoInstance]
      BY <2>1, <2>5 DEF Instances, Live
    <3>3. Atomic!Forget(id)
      BY <3>1, <3>2 DEF Atomic!Forget, Instances
    <3>4. QED
      BY <3>3 DEF Atomic!Next
  <2>6. QED
    BY <2>2, <2>3, <2>4, <2>5, RowSteps
<1>3. QED
  BY <1>1, <1>2, InductiveInvariant, PTL DEF Spec, Atomic!Spec, Instances

=============================================================================
