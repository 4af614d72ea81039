---------------------------- MODULE StoreClients ----------------------------
(***************************************************************************)
(* What the store adapters share: clients that work on one saga the way    *)
(* the orchestrator does, which is a lookup by correlation id followed by  *)
(* an insert of a new instance, an update of the one found, or a delete.   *)
(* The modules TableStores and RedisSagaStore say what each call does to   *)
(* the database, statement by statement; between two statements of a call  *)
(* other clients' statements run.                                          *)
(***************************************************************************)
EXTENDS Integers, Sequences, FiniteSets

CONSTANTS
    Clients,       \* calls that can be under way at once
    Correlations,  \* correlation ids
    SagaIds,       \* the ids generateSagaId draws, numbers: DynamoDB sorts by them
    Clock,         \* the values of createdAt, set by each process's own clock
    NoRow,         \* null
    NoCorrelation, \* none
    MaxVersion     \* bound: versions of a saga

ASSUME ClientsAssumption ==
    /\ SagaIds \subseteq Nat
    /\ Clock \subseteq Nat
    /\ MaxVersion \in Nat
    /\ NoCorrelation \notin Correlations

VARIABLES
    pc,       \* client -> the statement it is about to run
    held,     \* client -> the row its lookup returned
    mine,     \* client -> the row it means to store
    result,   \* client -> how its last call ended, if one has
    issued    \* saga id -> the correlation id it was drawn for, if it was

clientVars == <<pc, held, mine, result, issued>>

Row ==
    [ sagaId      : SagaIds,
      corr        : Correlations,
      version     : 0 .. MaxVersion,
      isCompleted : BOOLEAN,
      created     : Clock ]

ASSUME NoRowAssumption == NoRow \notin Row

Results == {"ok", "taken", "conflict", "notFound"}

ClientTypeOK(labels) ==
    /\ pc \in [Clients -> labels]
    /\ held \in [Clients -> Row \cup {NoRow}]
    /\ mine \in [Clients -> Row \cup {NoRow}]
    /\ result \in [Clients -> Results]
    /\ issued \in [SagaIds -> Correlations \cup {NoCorrelation}]

ClientInit ==
    /\ pc = [c \in Clients |-> "idle"]
    /\ held = [c \in Clients |-> NoRow]
    /\ mine = [c \in Clients |-> NoRow]
    /\ result = [c \in Clients |-> "ok"]
    /\ issued = [id \in SagaIds |-> NoCorrelation]

Goto(c, label) == pc' = [pc EXCEPT ![c] = label]

(* A call returns or throws; what a refused update meant to replace stays until
   the client's next lookup, for the properties to compare. *)
Return(c, how) ==
    /\ Goto(c, "idle")
    /\ result' = [result EXCEPT ![c] = how]
    /\ mine' = [mine EXCEPT ![c] = NoRow]
    /\ held' = [held EXCEPT ![c] = IF how \in {"conflict", "notFound"} THEN @ ELSE NoRow]
    /\ UNCHANGED issued

Drawn == {id \in SagaIds : issued[id] # NoCorrelation}

(* The lookup has answered: what the orchestrator does next. *)
StartSaga(c, corr) ==
    /\ held' = [held EXCEPT ![c] = NoRow]
    /\ \E id \in SagaIds \ Drawn, now \in Clock :
          /\ issued' = [issued EXCEPT ![id] = corr]
          /\ mine' = [mine EXCEPT ![c] =
                [ sagaId |-> id, corr |-> corr, version |-> 0,
                  isCompleted |-> FALSE, created |-> now ]]
    /\ Goto(c, "inserting")

ContinueSaga(c, row) ==
    /\ ~ row.isCompleted
    /\ row.version < MaxVersion
    /\ held' = [held EXCEPT ![c] = row]
    /\ \E done \in BOOLEAN :
          mine' = [mine EXCEPT ![c] =
              [row EXCEPT !.version = @ + 1, !.isCompleted = done]]
    /\ Goto(c, "updating")
    /\ UNCHANGED issued

RemoveSaga(c, row) ==
    /\ held' = [held EXCEPT ![c] = row]
    /\ mine' = [mine EXCEPT ![c] = NoRow]
    /\ Goto(c, "deleting")
    /\ UNCHANGED issued

(* getByCorrelationId returned found, a row or NoRow. *)
Decide(c, corr, found) ==
    /\ pc[c] = "idle"
    /\ result' = [result EXCEPT ![c] = "ok"]
    /\ IF found = NoRow
       THEN StartSaga(c, corr)
       ELSE ContinueSaga(c, found) \/ RemoveSaga(c, found)

=============================================================================
