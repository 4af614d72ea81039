-------------------------- MODULE SagaOrchestrator --------------------------
(***************************************************************************)
(* SagaOrchestrator.processMessage: concurrent calls, one per worker, each *)
(* a sequence of awaits against the shared store and the transport.        *)
(*                                                                         *)
(*    load -> [create] -> handler, publishing as it goes -> save -> [arm]  *)
(*                                                                         *)
(* The state a call works on is read once, before the middleware pipeline, *)
(* and written back at the end: every interleaving of other calls between  *)
(* the two is a behaviour of this module.  A worker is a delivery slot of  *)
(* a subscription, in this process or in another one on the same store.    *)
(*                                                                         *)
(* Any worker may be given any handled message at any time, so duplicates, *)
(* reordering, retries and redeliveries by a transport are all covered;    *)
(* SagaBus says which messages a bus really gives it.                      *)
(***************************************************************************)
EXTENDS SagaStore

CONSTANTS
    Workers,
    NoJob,       \* a worker with no call
    NoOutcome,   \* the handler has not returned
    NoInstance   \* no saga instance, in the abstract specification

VARIABLES
    pc,          \* worker -> the await the call is in
    job,         \* worker -> the saga, message type and correlation id
    held,        \* worker -> the row it read or inserted (existingState, state)
    reply,       \* worker -> the handler's outcome, sends not yet published
    result,      \* worker -> how the call ended
    issued       \* the saga ids generated so far

callVars == <<pc, job, held, reply, result>>
vars == <<storeVars, callVars, issued>>

Jobs == [saga : SagaNames, type : MessageTypes, corr : CorrelationIds \cup {NoCorrelation}]

(* How a call ends: normally, or with an error the bus classifies. *)
Failures == {"conflict", "transient", "permanent"}
Results  == {"handled", "ignored", "uncorrelated"} \cup Failures

ASSUME OrchestratorAssumption ==
    /\ NoJob \notin Jobs
    /\ NoOutcome \notin Outcome
    /\ NoInstance \notin [key : Keys, isCompleted : BOOLEAN, data : Data]

TypeOK ==
    /\ StoreTypeOK
    /\ pc \in [Workers -> {"idle", "loading", "loaded", "running", "arming", "done"}]
    /\ job \in [Workers -> Jobs \cup {NoJob}]
    /\ held \in [Workers -> Row \cup {NoRow}]
    /\ reply \in [Workers -> Outcome \cup {NoOutcome}]
    /\ result \in [Workers -> Results \cup {"none"}]
    /\ issued \subseteq SagaIds

Init ==
    /\ StoreInit
    /\ pc = [w \in Workers |-> "idle"]
    /\ job = [w \in Workers |-> NoJob]
    /\ held = [w \in Workers |-> NoRow]
    /\ reply = [w \in Workers |-> NoOutcome]
    /\ result = [w \in Workers |-> "none"]
    /\ issued = {}

Key(w) == <<job[w].saga, job[w].corr>>

Goto(w, label) == pc' = [pc EXCEPT ![w] = label]

End(w, how) ==
    /\ Goto(w, "done")
    /\ result' = [result EXCEPT ![w] = how]

-----------------------------------------------------------------------------

(* processMessage is called; a message with no correlation id ends it. *)
Receive(w, saga, type, corr) ==
    /\ pc[w] = "idle"
    /\ type \in HandledTypes[saga]
    /\ job' = [job EXCEPT ![w] = [saga |-> saga, type |-> type, corr |-> corr]]
    /\ IF corr = NoCorrelation
       THEN End(w, "uncorrelated")
       ELSE Goto(w, "loading") /\ UNCHANGED result
    /\ UNCHANGED <<storeVars, held, reply, issued>>

(* store.getByCorrelationId returns: existingState, before the pipeline. *)
Load(w) ==
    /\ pc[w] = "loading"
    /\ held' = [held EXCEPT ![w] = GetByCorrelationId(Key(w))]
    /\ Goto(w, "loaded")
    /\ UNCHANGED <<storeVars, job, reply, result, issued>>

(* Mutant: the test for a completed saga is dropped. *)
IgnoredIfAbsent(w) == held[w] = NoRow /\ job[w].type \notin StartTypes[job[w].saga]

(* No saga and the message cannot start one, or the saga is complete. *)
Ignored(w) ==
    IF held[w] = NoRow
    THEN job[w].type \notin StartTypes[job[w].saga]
    ELSE held[w].isCompleted

Ignore(w) ==
    /\ pc[w] = "loaded"
    /\ Ignored(w)
    /\ End(w, "ignored")
    /\ UNCHANGED <<storeVars, job, held, reply, issued>>

(* A middleware returns without calling next, as the idempotency and validation
   middleware may. *)
Skip(w) ==
    /\ pc[w] = "loaded"
    /\ End(w, "ignored")
    /\ UNCHANGED <<storeVars, job, held, reply, issued>>

(* Mutant: insert's saga name and correlation id change places. *)
NewRowSwapped(w, id) ==
    [ sagaId      |-> id,
      key         |-> <<job[w].corr, job[w].saga>>,
      version     |-> 0,
      isCompleted |-> FALSE,
      timeout     |-> NoTimeout,
      data        |-> Initial[job[w].saga, job[w].type] ]

NewRow(w, id) ==
    [ sagaId      |-> id,
      key         |-> Key(w),
      version     |-> 0,
      isCompleted |-> FALSE,
      timeout     |-> NoTimeout,
      data        |-> Initial[job[w].saga, job[w].type] ]

(* createInitialState and store.insert under a fresh saga id; the call then
   goes on to the handler with the row it inserted. *)
Creating(w, id) ==
    /\ pc[w] = "loaded"
    /\ held[w] = NoRow
    /\ ~ Ignored(w)
    /\ id \notin issued
    /\ issued' = issued \cup {id}

(* Mutant: the insert is left to the save at the end of the call. *)
CreateDeferred(w, id) ==
    /\ Creating(w, id)
    /\ CanInsert(NewRow(w, id))
    /\ held' = [held EXCEPT ![w] = NewRow(w, id)]
    /\ UNCHANGED <<storeVars, pc, job, reply, result>>

Create(w, id) ==
    /\ Creating(w, id)
    /\ Insert(NewRow(w, id))
    /\ held' = [held EXCEPT ![w] = NewRow(w, id)]
    /\ UNCHANGED <<pc, job, reply, result>>

(* The unique index rejects the row: another call started the saga first. *)
CreateRejected(w, id) ==
    /\ Creating(w, id)
    /\ ~ CanInsert(NewRow(w, id))
    /\ End(w, "permanent")
    /\ UNCHANGED <<storeVars, job, held, reply>>

(* The insert takes effect but its reply is lost. *)
CreateUnacked(w, id) ==
    /\ Creating(w, id)
    /\ Insert(NewRow(w, id))
    /\ End(w, "transient")
    /\ UNCHANGED <<job, held, reply>>

(* definition.handle runs on the state the call holds, however old. *)
Handle(w) ==
    /\ pc[w] = "loaded"
    /\ held[w] # NoRow
    /\ ~ Ignored(w)
    /\ \E o \in Outcomes(job[w].saga, job[w].type, held[w].data) :
          reply' = [reply EXCEPT ![w] = o]
    /\ Goto(w, "running")
    /\ UNCHANGED <<storeVars, job, held, result, issued>>

(* ctx.publish inside the handler: the message is out before anything is saved. *)
Publish(w) ==
    /\ pc[w] = "running"
    /\ reply[w].sends # << >>
    /\ reply' = [reply EXCEPT ![w].sends = Tail(@)]
    /\ UNCHANGED <<storeVars, pc, job, held, result, issued>>

(* The metadata the orchestrator builds around the handler's new state. *)
SavedRow(w) ==
    [ sagaId      |-> held[w].sagaId,
      key         |-> held[w].key,
      version     |-> held[w].version + 1,
      isCompleted |-> reply[w].isCompleted,
      timeout     |-> CASE reply[w].timeout = "keep"  -> held[w].timeout
                        [] reply[w].timeout = "clear" -> NoTimeout
                        [] reply[w].timeout = "set"   -> held[w].version + 1,
      data        |-> reply[w].data ]

Saving(w) == pc[w] = "running" /\ reply[w].sends = << >>

(* Mutant: the test for completion is inverted. *)
MustArmIfCompleted(w) == reply[w].timeout = "set" /\ reply[w].isCompleted

(* A timeout message follows a successful save that set a timeout. *)
MustArm(w) == reply[w].timeout = "set" /\ ~ reply[w].isCompleted

Save(w) ==
    /\ Saving(w)
    /\ Update(SavedRow(w), held[w].version)
    /\ IF MustArm(w)
       THEN Goto(w, "arming") /\ UNCHANGED result
       ELSE End(w, "handled")
    /\ UNCHANGED <<job, held, reply, issued>>

(* ConcurrencyError, or "not found" when the row was deleted meanwhile. *)
SaveRejected(w) ==
    /\ Saving(w)
    /\ ~ VersionMatches(SavedRow(w), held[w].version)
    /\ End(w, IF Live(held[w].sagaId) THEN "conflict" ELSE "permanent")
    /\ UNCHANGED <<storeVars, job, held, reply, issued>>

(* The update takes effect but its reply is lost. *)
SaveUnacked(w) ==
    /\ Saving(w)
    /\ Update(SavedRow(w), held[w].version)
    /\ End(w, "transient")
    /\ UNCHANGED <<job, held, reply, issued>>

(* scheduleTimeoutMessage publishes SagaTimeoutExpired with a delay. *)
Arm(w) ==
    /\ pc[w] = "arming"
    /\ End(w, "handled")
    /\ UNCHANGED <<storeVars, job, held, reply, issued>>

(* Any await that has not taken effect may throw: the store, a middleware, the
   factory, the handler, transport.publish or onCorrelationFailure; and so may a
   middleware once next has returned. *)
Throw(w, how) ==
    /\ \/ pc[w] \in {"loading", "loaded", "running", "arming"}
       \/ pc[w] = "done" /\ result[w] \in {"handled", "ignored", "uncorrelated"}
    /\ how \in {"transient", "permanent"}
    /\ End(w, how)
    /\ UNCHANGED <<storeVars, job, held, reply, issued>>

(* The caller takes the result, or the process running the call dies. *)
Reset(w) ==
    /\ Goto(w, "idle")
    /\ job' = [job EXCEPT ![w] = NoJob]
    /\ held' = [held EXCEPT ![w] = NoRow]
    /\ reply' = [reply EXCEPT ![w] = NoOutcome]
    /\ result' = [result EXCEPT ![w] = "none"]
    /\ UNCHANGED <<storeVars, issued>>

Return(w) == pc[w] = "done" /\ Reset(w)

Crash(w) == pc[w] \notin {"idle", "done"} /\ Reset(w)

(* The application deletes an instance (clean-up, manual repair). *)
Remove(id) ==
    /\ Delete(id)
    /\ UNCHANGED <<callVars, issued>>

-----------------------------------------------------------------------------

Step(w) ==
    \/ Load(w)
    \/ Ignore(w)
    \/ Skip(w)
    \/ \E id \in SagaIds : Create(w, id) \/ CreateRejected(w, id)
    \/ Handle(w)
    \/ Publish(w)
    \/ Save(w)
    \/ SaveRejected(w)
    \/ Arm(w)

Fault(w) ==
    \/ \E id \in SagaIds : CreateUnacked(w, id)
    \/ SaveUnacked(w)
    \/ \E how \in Failures : Throw(w, how)
    \/ Crash(w)

Next ==
    \/ \E w \in Workers :
          \/ \E s \in SagaNames, t \in MessageTypes, c \in CorrelationIds \cup {NoCorrelation} :
                Receive(w, s, t, c)
          \/ Step(w)
          \/ Fault(w)
          \/ Return(w)
    \/ \E id \in SagaIds : Remove(id)

Spec == Init /\ [][Next]_vars

-----------------------------------------------------------------------------
(* The pieces of the inductive invariant. *)

(* Saga ids are never reused: every row and every row a call holds bears an
   id generated before. *)
IdsIssued ==
    /\ \A id \in SagaIds : Live(id) => id \in issued /\ rows[id].sagaId = id
    /\ \A w \in Workers : held[w] # NoRow => held[w].sagaId \in issued

(* What a call holds is a past state of the row: never ahead of it, and equal
   to it while the version is the same.  This is why comparing versions is
   enough to detect every intervening write. *)
HeldIsPast ==
    \A w \in Workers : held[w] # NoRow =>
        LET current == rows[held[w].sagaId] IN
        current # NoRow =>
            /\ held[w].key = current.key
            /\ held[w].version <= current.version
            /\ held[w].version = current.version => held[w] = current

(* Each await finds in the call what the code before it left there. *)
CallConsistent ==
    \A w \in Workers :
        /\ pc[w] # "idle" => job[w] # NoJob
        /\ pc[w] \in {"loading", "loaded", "running", "arming"} => job[w].corr # NoCorrelation
        /\ pc[w] \in {"running", "arming"} => held[w] # NoRow
        /\ pc[w] = "running" =>
              /\ ~ held[w].isCompleted
              /\ reply[w] # NoOutcome
              /\ \E o \in Outcomes(job[w].saga, job[w].type, held[w].data) :
                    reply[w].data = o.data /\ reply[w].isCompleted = o.isCompleted

(* The index leads from a key to a row of that key, and under a unique index to
   every live row: a call never loads another correlation id's instance. *)
IndexFindsRows ==
    /\ \A w \in Workers :
          pc[w] \in {"loaded", "running"} /\ held[w] # NoRow => held[w].key = Key(w)
    /\ \A key \in Keys :
          LET id == correlationIndex[key] IN
          id # NoSaga => id \in issued /\ (Live(id) => rows[id].key = key)
    /\ UniqueCorrelation =>
          \A id \in SagaIds : Live(id) => correlationIndex[rows[id].key] = id

-----------------------------------------------------------------------------

(* Under a unique correlation index a key never has two instances, however
   many calls try to start the saga at the same time. *)
OneInstancePerKey ==
    UniqueCorrelation =>
        \A i, j \in SagaIds : Live(i) /\ Live(j) /\ rows[i].key = rows[j].key => i = j

(* An instance is created only when no existing saga matches the correlation
   id (apps/docs, core-concepts/sagas.md), whatever the store. *)
StartsOnlyWhenAbsent ==
    [][\A id, other \in SagaIds :
          ~ Live(id) /\ rows'[id] # NoRow /\ Live(other) => rows[other].key # rows'[id].key]_vars

(* A completed saga never changes again: a call that read it before another
   call completed it does not get its own, older, state saved over it. *)
CompletedIsFinal ==
    [][\A id \in SagaIds :
          Live(id) /\ rows[id].isCompleted => rows'[id] \in {rows[id], NoRow}]_vars

(* The runtime implements AtomicSagas: forget versions and timeouts, and each
   step is one atomic handler run or nothing.  No update is lost, and none is
   computed from a state other than the one it replaces. *)
AsInstance(row) ==
    [key |-> row.key, isCompleted |-> row.isCompleted, data |-> row.data]

Atomic == INSTANCE AtomicSagas WITH
    instances <- [id \in SagaIds |-> IF Live(id) THEN AsInstance(rows[id]) ELSE NoInstance]

AtomicSpec == Atomic!Spec

=============================================================================
