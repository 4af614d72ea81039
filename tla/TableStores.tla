---------------------------- MODULE TableStores ----------------------------
(***************************************************************************)
(* The stores that keep a saga as one row, document or item and change it  *)
(* by one conditional statement: PostgreSQL, MySQL, SQL Server, Prisma,    *)
(* MongoDB, SQLite and DynamoDB.  They differ in the unique index an       *)
(* insert runs into, in where a lookup by correlation id reads (DynamoDB:  *)
(* a global secondary index that lags behind the table), in how a listing  *)
(* is cut into pages and in whether a clean-up is one statement.           *)
(*                                                                         *)
(* The model keeps one saga name; the adapters add it to every predicate.  *)
(* All of them keep the metadata twice, in columns and in the serialized   *)
(* state, and no statement writes one without the other.                   *)
(***************************************************************************)
EXTENDS StoreClients, FiniteSetsExt, SequencesExt

CONSTANTS
    PageSizes,     \* the limits a listing may use
    NoListing

ASSUME ListingAssumption == PageSizes \subseteq Nat

VARIABLES
    adapter,   \* which of the stores this is
    table,     \* saga id -> its row
    replica,   \* saga id -> the row as DynamoDB's secondary indexes show it
    sweep,     \* saga ids DynamoDB's deleteCompletedBefore has yet to delete
    listing    \* a caller going through findByName page by page

tableVars == <<table, replica, sweep, listing>>

(* The adapters with a unique index on (saga name, correlation id). *)
UniqueAdapters == {"postgres", "mysql", "sqlserver", "prisma", "mongo"}
TableAdapters == UniqueAdapters \cup {"sqlite", "dynamodb"}

Listings ==
    [ limit  : PageSizes,
      filter : {"all", "incomplete"},
      next   : Nat,                 \* offset, or DynamoDB's last evaluated key
      done   : BOOLEAN,
      seen   : SUBSET SagaIds,
      due    : SUBSET SagaIds,      \* history: in the listing since it began
      moved  : BOOLEAN ]            \* history: a row has left it, or two tied

TableTypeOK ==
    /\ table \in [SagaIds -> Row \cup {NoRow}]
    /\ replica \in [SagaIds -> Row \cup {NoRow}]
    /\ sweep \subseteq SagaIds
    /\ listing \in Listings \cup {NoListing}

TableInit ==
    /\ table = [id \in SagaIds |-> NoRow]
    /\ replica = [id \in SagaIds |-> NoRow]
    /\ sweep = {}
    /\ listing = NoListing

Present(rows) == {id \in SagaIds : rows[id] # NoRow}

-----------------------------------------------------------------------------
(* The statements. *)

(* What an INSERT runs into: the primary key, and the unique index on the
   correlation id where there is one. *)
IdTaken(row) == table[row.sagaId] # NoRow

KeyTaken(row) == IdTaken(row) \/ \E id \in Present(table) : table[id].corr = row.corr

InsertUnless(c, Refused(_)) ==
    /\ pc[c] = "inserting"
    /\ IF Refused(mine[c])
       THEN Return(c, "taken") /\ UNCHANGED table
       ELSE /\ table' = [table EXCEPT ![mine[c].sagaId] = mine[c]]
            /\ Return(c, "ok")

(* Mutants: the condition on the version is lost, or names the new version. *)
SelectsById(id, version) == table[id] # NoRow

SelectsNextVersion(id, version) == table[id] # NoRow /\ table[id].version = version + 1

(* The condition of an UPDATE: the row with this id at this version. *)
Selects(id, version) == table[id] # NoRow /\ table[id].version = version

(* One conditional statement; when it touched no row (rowCount, affectedRows,
   rowsAffected, count, matchedCount, changes, or a failed condition) the
   adapter looks again by id. *)
UpdateWhere(c, Condition(_, _)) ==
    /\ pc[c] = "updating"
    /\ IF Condition(mine[c].sagaId, held[c].version)
       THEN /\ table' = [table EXCEPT ![mine[c].sagaId] = mine[c]]
            /\ Return(c, "ok")
       ELSE /\ Goto(c, "rereading")
            /\ UNCHANGED <<table, held, mine, result, issued>>

(* getById in a second statement tells a lost race from a missing saga. *)
RereadIn(c, rows) ==
    /\ pc[c] = "rereading"
    /\ Return(c, IF rows[mine[c].sagaId] = NoRow THEN "notFound" ELSE "conflict")
    /\ UNCHANGED table

(* No adapter minds a row that is gone. *)
DeleteById(c) ==
    /\ pc[c] = "deleting"
    /\ table' = [table EXCEPT ![held[c].sagaId] = NoRow]
    /\ Return(c, "ok")

(* Mutant: a lookup looks among the running sagas only. *)
LookupRunning(c, rows) ==
    /\ \E corr \in Correlations :
          LET matches == {id \in Present(rows) : rows[id].corr = corr /\ ~ rows[id].isCompleted}
          IN IF matches = {}
             THEN Decide(c, corr, NoRow)
             ELSE \E id \in matches : Decide(c, corr, rows[id])
    /\ UNCHANGED table

(* getByCorrelationId: any one of the rows that match. *)
LookupIn(c, rows) ==
    /\ \E corr \in Correlations :
          LET matches == {id \in Present(rows) : rows[id].corr = corr}
          IN IF matches = {}
             THEN Decide(c, corr, NoRow)
             ELSE \E id \in matches : Decide(c, corr, rows[id])
    /\ UNCHANGED table

(* deleteCompletedBefore in one statement: the completed rows up to some time. *)
DeleteCompleted ==
    \E old \in SUBSET {id \in Present(table) : table[id].isCompleted} \ {{}} :
        table' = [id \in SagaIds |-> IF id \in old THEN NoRow ELSE table[id]]

-----------------------------------------------------------------------------
(* findByName.  A page is cut out of the matching rows in descending order of
   createdAt, rows of one time in whatever order the database likes. *)

Matching(rows, filter) ==
    {id \in Present(rows) : filter = "all" \/ ~ rows[id].isCompleted}

Ties(rows, filter) ==
    \E i, j \in Matching(rows, filter) : i # j /\ rows[i].created = rows[j].created

NewestFirst(ids) ==
    {order \in SetToSeqs(ids) :
        \A i, j \in DOMAIN order :
            i < j => table[order[i]].created >= table[order[j]].created}

Cut(order, offset, limit) ==
    {order[i] : i \in DOMAIN order \cap (offset + 1 .. offset + limit)}

BeginListing ==
    /\ adapter # "sqlite"
    /\ listing = NoListing
    /\ \E limit \in PageSizes, filter \in {"all", "incomplete"} :
          listing' =
              [ limit |-> limit, filter |-> filter, next |-> 0, done |-> FALSE,
                seen |-> {}, moved |-> Ties(table, filter),
                due |-> Matching(table, filter) \cap
                       (IF adapter = "dynamodb" THEN Matching(replica, filter) ELSE SagaIds) ]

(* The caller asks for the next page until one comes back short. *)
Underway == listing # NoListing /\ ~ listing.done

(* Mutant: the second page starts one row too late. *)
PageSkippingOne ==
    /\ Underway
    /\ \E order \in NewestFirst(Matching(table, listing.filter)) :
          LET page == Cut(order, listing.next, listing.limit)
          IN listing' = [listing EXCEPT !.next = @ + listing.limit + 1,
                                        !.seen = @ \cup page,
                                        !.done = Cardinality(page) < listing.limit]

(* LIMIT and OFFSET. *)
PageByOffset ==
    /\ Underway
    /\ \E order \in NewestFirst(Matching(table, listing.filter)) :
          LET page == Cut(order, listing.next, listing.limit)
          IN listing' = [listing EXCEPT !.next = @ + listing.limit,
                                        !.seen = @ \cup page,
                                        !.done = Cardinality(page) < listing.limit]

(* History: what a change of the table does to a listing under way. *)
Noticed ==
    IF listing = NoListing THEN NoListing
    ELSE LET was == Matching(table, listing.filter)
             is  == Matching(table', listing.filter)
         IN [listing EXCEPT !.due = @ \cap is,
                            !.moved = @ \/ was \ is # {} \/ Ties(table', listing.filter)]

-----------------------------------------------------------------------------
(* The adapters.  A call is one of these statements on the adapter's table. *)

Calls(c, Refused(_)) ==
    \/ InsertUnless(c, Refused)
    \/ UpdateWhere(c, Selects)
    \/ RereadIn(c, table)
    \/ LookupIn(c, table)

Postgres(c) == adapter = "postgres" /\ (Calls(c, KeyTaken) \/ DeleteById(c))
PostgresDeleteCompletedBefore == adapter = "postgres" /\ DeleteCompleted
PostgresFindByName == adapter = "postgres" /\ PageByOffset

MySql(c) == adapter = "mysql" /\ (Calls(c, KeyTaken) \/ DeleteById(c))
MySqlDeleteCompletedBefore == adapter = "mysql" /\ DeleteCompleted
MySqlFindByName == adapter = "mysql" /\ PageByOffset

SqlServer(c) == adapter = "sqlserver" /\ (Calls(c, KeyTaken) \/ DeleteById(c))
SqlServerDeleteCompletedBefore == adapter = "sqlserver" /\ DeleteCompleted
SqlServerFindByName == adapter = "sqlserver" /\ PageByOffset

(* Prisma's delete throws on a missing row; the adapter catches that and every
   other error, so a delete that failed returns like one that worked. *)
PrismaDeleteFails(c) ==
    /\ pc[c] = "deleting"
    /\ Return(c, "ok")
    /\ UNCHANGED table

Prisma(c) ==
    /\ adapter = "prisma"
    /\ Calls(c, KeyTaken) \/ DeleteById(c) \/ PrismaDeleteFails(c)
PrismaDeleteCompletedBefore == adapter = "prisma" /\ DeleteCompleted
PrismaFindByName == adapter = "prisma" /\ PageByOffset

Mongo(c) == adapter = "mongo" /\ (Calls(c, KeyTaken) \/ DeleteById(c))
MongoDeleteCompletedBefore == adapter = "mongo" /\ DeleteCompleted
MongoFindByName == adapter = "mongo" /\ PageByOffset

(* SQLite: the correlation index is not unique; no clean-up, no listing. *)
Sqlite(c) == adapter = "sqlite" /\ (Calls(c, IdTaken) \/ DeleteById(c))

(* DynamoDB: the condition of the put is on the primary key alone; a lookup by
   correlation id reads the index, and getById is eventually consistent. *)
DynamoInsert(c) == InsertUnless(c, IdTaken)
DynamoUpdate(c) == UpdateWhere(c, Selects)
DynamoGetById(c) == \E rows \in {table, replica} : RereadIn(c, rows)
DynamoGetByCorrelationId(c) == LookupIn(c, replica)

Dynamo(c) ==
    /\ adapter = "dynamodb"
    /\ \/ DynamoInsert(c) \/ DynamoUpdate(c) \/ DynamoGetById(c)
       \/ DeleteById(c) \/ DynamoGetByCorrelationId(c)

(* The indexes come up to date, item by item. *)
Replicate(id) ==
    /\ adapter = "dynamodb"
    /\ replica[id] # table[id]
    /\ replica' = [replica EXCEPT ![id] = table[id]]

(* deleteCompletedBefore: a page of the completed items the index shows, then
   one unconditional delete for each. *)
DynamoSweep ==
    /\ adapter = "dynamodb"
    /\ sweep = {}
    /\ sweep' \in SUBSET {id \in Present(replica) : replica[id].isCompleted} \ {{}}

DynamoSweepDelete(id) ==
    /\ id \in sweep
    /\ sweep' = sweep \ {id}
    /\ table' = [table EXCEPT ![id] = NoRow]

(* findByName: Limit items by descending key after the last evaluated one; the
   filter applies to the page, so a page may show fewer. *)
DynamoFindByName ==
    /\ adapter = "dynamodb"
    /\ Underway
    /\ \E rows \in {table, replica} :
          LET after == {id \in Present(rows) : listing.next = 0 \/ id < listing.next}
              page  == {id \in after : Cardinality({i \in after : i > id}) < listing.limit}
          IN listing' = [listing EXCEPT
                !.next = IF page = {} THEN @ ELSE Min(page),
                !.seen = @ \cup (page \cap Matching(rows, listing.filter)),
                !.done = Cardinality(page) < listing.limit]

-----------------------------------------------------------------------------

TableLabels == {"idle", "inserting", "updating", "rereading", "deleting"}

ClientStep(c) ==
    /\ \/ Postgres(c) \/ MySql(c) \/ SqlServer(c) \/ Prisma(c)
       \/ Mongo(c) \/ Sqlite(c) \/ Dynamo(c)
    /\ listing' = Noticed
    /\ UNCHANGED <<replica, sweep>>

CleanUp ==
    /\ \/ /\ \/ PostgresDeleteCompletedBefore \/ MySqlDeleteCompletedBefore
             \/ SqlServerDeleteCompletedBefore \/ PrismaDeleteCompletedBefore
             \/ MongoDeleteCompletedBefore
          /\ UNCHANGED sweep
       \/ DynamoSweep /\ UNCHANGED table
       \/ \E id \in SagaIds : DynamoSweepDelete(id)
    /\ listing' = Noticed
    /\ UNCHANGED <<replica, clientVars>>

ListNext ==
    /\ \/ BeginListing
       \/ PostgresFindByName \/ MySqlFindByName \/ SqlServerFindByName
       \/ PrismaFindByName \/ MongoFindByName \/ DynamoFindByName
    /\ UNCHANGED <<table, replica, sweep, clientVars>>

TableNext ==
    \/ \E c \in Clients : ClientStep(c)
    \/ CleanUp
    \/ ListNext
    \/ \E id \in SagaIds : Replicate(id) /\ UNCHANGED <<table, sweep, listing, clientVars>>

=============================================================================
