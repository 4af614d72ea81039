---------------------------- MODULE AtomicSagas ----------------------------
(***************************************************************************)
(* What the runtime promises about saga state, with no store, versions or  *)
(* concurrency in sight: a saga instance is born in the state its initial  *)
(* factory builds, and from then on changes only by one handler run at a   *)
(* time, each applied to the state the previous one left.  A completed     *)
(* instance never changes again.  Instances may be deleted.                *)
(***************************************************************************)
EXTENDS SagaDefinitions

CONSTANTS SagaIds, NoInstance

VARIABLE instances

Keys == SagaNames \X CorrelationIds

Instance == [key : Keys, isCompleted : BOOLEAN, data : Data]

Init == instances = [id \in SagaIds |-> NoInstance]

(* A message that may start a saga creates an instance of it. *)
Start(id, saga, corr, type) ==
    /\ instances[id] = NoInstance
    /\ type \in StartTypes[saga]
    /\ instances' = [instances EXCEPT ![id] =
          [key |-> <<saga, corr>>, isCompleted |-> FALSE, data |-> Initial[saga, type]]]

(* A handler runs, atomically, on the instance as it is now. *)
Handle(id, type) ==
    LET instance == instances[id] IN
    /\ instance # NoInstance
    /\ ~ instance.isCompleted
    /\ \E o \in Outcomes(instance.key[1], type, instance.data) :
          instances' = [instances EXCEPT ![id] =
              [key |-> instance.key, isCompleted |-> o.isCompleted, data |-> o.data]]

(* The application removes an instance through the store. *)
Forget(id) ==
    /\ instances[id] # NoInstance
    /\ instances' = [instances EXCEPT ![id] = NoInstance]

Next ==
    \E id \in SagaIds :
        \/ \E saga \in SagaNames, corr \in CorrelationIds, type \in MessageTypes :
              Start(id, saga, corr, type)
        \/ \E type \in MessageTypes : Handle(id, type)
        \/ Forget(id)

Spec == Init /\ [][Next]_instances

=============================================================================
