----------------------------- MODULE SagaStore -----------------------------
(***************************************************************************)
(* The saga store: the SagaStore interface of packages/core/src/types as   *)
(* the in-memory store and the SQL stores implement it.  A row is one saga *)
(* instance; getByCorrelationId finds it through an index from (saga name, *)
(* correlation id) to saga id.                                             *)
(*                                                                         *)
(* Each operation is one atomic step: the in-memory store's method bodies  *)
(* have no await, and a SQL store's INSERT, UPDATE ... WHERE version and   *)
(* SELECT are single statements.  The stores differ in one respect that    *)
(* matters here, UniqueCorrelation: the SQL schemas have a unique index on *)
(* (saga_name, correlation_id), the in-memory store indexes the last row   *)
(* inserted and keeps the others.                                          *)
(*                                                                         *)
(* The module gives the state and the operations; SagaOrchestrator is the  *)
(* program that calls them.                                                *)
(***************************************************************************)
EXTENDS SagaDefinitions

CONSTANTS
    SagaIds,             \* the uuids generateSagaId can draw
    NoSaga,              \* no saga id
    NoRow,               \* null: no such saga
    UniqueCorrelation    \* the store rejects a second row for a key

VARIABLES
    rows,                \* saga id -> its row
    correlationIndex     \* key -> the saga id getByCorrelationId follows

storeVars == <<rows, correlationIndex>>

Keys == SagaNames \X CorrelationIds

(* A timeout is named by the version of the row that set it. *)
NoTimeout == 0

Row ==
    [ sagaId      : SagaIds,
      key         : Keys,
      version     : Nat,
      isCompleted : BOOLEAN,
      timeout     : Nat,
      data        : Data ]

ASSUME StoreAssumption ==
    /\ NoRow \notin Row
    /\ NoSaga \notin SagaIds
    /\ UniqueCorrelation \in BOOLEAN

StoreTypeOK ==
    /\ rows \in [SagaIds -> Row \cup {NoRow}]
    /\ correlationIndex \in [Keys -> SagaIds \cup {NoSaga}]

StoreInit ==
    /\ rows = [id \in SagaIds |-> NoRow]
    /\ correlationIndex = [key \in Keys |-> NoSaga]

Live(id) == rows[id] # NoRow

GetByCorrelationId(key) ==
    IF correlationIndex[key] = NoSaga THEN NoRow ELSE rows[correlationIndex[key]]

(* Mutant: a schema without the unique correlation index. *)
CanInsertTwins(row) == ~ Live(row.sagaId)

(* insert throws on an id in use, or on a taken key under a unique index. *)
CanInsert(row) ==
    /\ ~ Live(row.sagaId)
    /\ UniqueCorrelation => \A id \in SagaIds : Live(id) => rows[id].key # row.key

Insert(row) ==
    /\ CanInsert(row)
    /\ rows' = [rows EXCEPT ![row.sagaId] = row]
    /\ correlationIndex' = [correlationIndex EXCEPT ![row.key] = row.sagaId]

(* Mutants: the UPDATE loses its version condition, or compares with the new
   state's version. *)
VersionUnchecked(row, expectedVersion) == Live(row.sagaId)

VersionOfNewState(row, expectedVersion) ==
    /\ Live(row.sagaId)
    /\ rows[row.sagaId].version = row.version

(* update ... where id and version match, else ConcurrencyError or not found. *)
VersionMatches(row, expectedVersion) ==
    /\ Live(row.sagaId)
    /\ rows[row.sagaId].version = expectedVersion

Update(row, expectedVersion) ==
    /\ VersionMatches(row, expectedVersion)
    /\ row.version = expectedVersion + 1
    /\ rows' = [rows EXCEPT ![row.sagaId] = row]
    /\ UNCHANGED correlationIndex

(* delete, and the SQL stores' deleteCompletedBefore row by row. The index  *)
(* entry dangles in the in-memory store and vanishes in SQL: either way     *)
(* GetByCorrelationId returns NoRow.                                        *)
Delete(id) ==
    /\ Live(id)
    /\ rows' = [rows EXCEPT ![id] = NoRow]
    /\ UNCHANGED correlationIndex

=============================================================================
