------------------------ MODULE StoreAdaptersProofs ------------------------
(***************************************************************************)
(* Proofs about the store adapters, for any number of clients, sagas,      *)
(* correlation ids, versions and retries: no second instance under a       *)
(* unique index, no lost update, no insert that comes to nothing, no row   *)
(* in Redis that its saga id does not lead to, no refusal that is not      *)
(* true, no clean-up that takes a running saga, and no row missed by a     *)
(* listing.  Each adapter implements AtomicStore.                          *)
(***************************************************************************)
EXTENDS StoreAdapters, FiniteSetTheorems, TLAPS

Inserting == {"inserting", "insertExec"}
Updating  == {"updating", "watch", "check", "exec"}
Deleting  == {"deleting", "del"}

(* What the proof needs to know of the types. *)
Shapes ==
    /\ pc \in [Clients -> TableLabels \cup RedisLabels]
    /\ held \in [Clients -> Row \cup {NoRow}]
    /\ mine \in [Clients -> Row \cup {NoRow}]
    /\ result \in [Clients -> Results]
    /\ table \in [SagaIds -> Row \cup {NoRow}]
    /\ replica \in [SagaIds -> Row \cup {NoRow}]
    /\ kv \in [Correlations -> Row \cup {NoRow}]
    /\ idIndex \in [SagaIds -> Correlations \cup {NoCorrelation}]
    /\ connection \in [Clients -> Connections]
    /\ watched \in [Connections -> SUBSET Correlations]
    /\ dirty \in [Connections -> BOOLEAN]

(* Every row somebody stores or holds. *)
Known ==
    {r \in Row :
        \/ \E id \in SagaIds : r \in {table[id], replica[id]}
        \/ \E corr \in Correlations : r = kv[corr]
        \/ \E c \in Clients : r \in {mine[c], held[c]}}

(* A saga id is drawn once, and so belongs to one correlation id. *)
Agree ==
    /\ issued \in [SagaIds -> Correlations \cup {NoCorrelation}]
    /\ \A r \in Known : issued[r.sagaId] = r.corr

(* Rows are under their own keys. *)
Filed ==
    /\ \A id \in SagaIds : table[id] # NoRow => table[id].sagaId = id
    /\ \A id \in SagaIds : replica[id] # NoRow => replica[id].sagaId = id
    /\ \A corr \in Correlations : kv[corr] # NoRow => kv[corr].corr = corr

(* What a client in the middle of a call has in hand. *)
InHand(c) ==
    /\ pc[c] \in Inserting \cup Updating => mine[c] \in Row
    /\ pc[c] \in Updating \cup Deleting => held[c] \in Row
    /\ pc[c] \in Updating =>
          mine[c].sagaId = held[c].sagaId /\ mine[c].corr = held[c].corr

(* Outside an update a connection of one client watches nothing; inside, a write
   to the key since the check has made it dirty. *)
Watches(c) ==
    /\ pc[c] \notin {"check", "exec", "unwatch"} =>
          watched[connection[c]] = {} /\ ~ dirty[connection[c]]
    /\ pc[c] \in {"check", "exec"} => watched[connection[c]] = {mine[c].corr}
    /\ pc[c] = "exec" /\ ~ dirty[connection[c]] =>
          kv[mine[c].corr] # NoRow /\ kv[mine[c].corr].version = held[c].version

WatchInv == adapter = "redis" /\ Dedicated => \A c \in Clients : Watches(c)

StoreInv ==
    /\ adapter \in TableAdapters \cup {"redis"}
    /\ Shapes
    /\ Agree
    /\ Filed
    /\ \A c \in Clients : InHand(c)
    /\ OneRowPerKey
    /\ RowsReachable
    /\ WatchInv

-----------------------------------------------------------------------------

(* It holds of empty stores. *)
LEMMA InitStores == Init => StoreInv
<1> SUFFICES ASSUME Init PROVE StoreInv
  OBVIOUS
<1> USE DEF Init, ClientInit, TableInit, RedisInit
<1>1. adapter \in TableAdapters \cup {"redis"} /\ Shapes
  BY ClientsAssumption DEF Shapes, Results, TableLabels, RedisLabels
<1>2. Agree /\ Filed
  BY NoRowAssumption, ClientsAssumption DEF Agree, Known, Filed
<1>3. \A c \in Clients : InHand(c)
  BY DEF InHand, Inserting, Updating, Deleting
<1>4. OneRowPerKey /\ RowsReachable
  BY DEF OneRowPerKey, RowsReachable, Present
<1>5. WatchInv
  BY DEF WatchInv, Watches
<1> QED
  BY <1>1, <1>2, <1>3, <1>4, <1>5 DEF StoreInv

(* The ids of known rows have been drawn. *)
LEMMA KnownDrawn ==
    ASSUME Agree
    PROVE  \A r \in Known : r \in Row /\ r.sagaId \in Drawn
BY ClientsAssumption DEF Agree, Known, Row, Drawn

(* Most steps draw none. *)
LEMMA SameDrawn == issued' = issued => Drawn' = Drawn
BY DEF Drawn

(* A step after which only known rows are known leaves Agree as it was. *)
LEMMA AgreeKept ==
    ASSUME Agree, Known' \subseteq Known, issued' = issued
    PROVE  Agree'
BY DEF Agree

(* A row with its next version is one of the same saga. *)
LEMMA NextVersion ==
    ASSUME NEW row \in Row, row.version < MaxVersion, NEW done \in BOOLEAN,
           NEW next, next = [row EXCEPT !.version = @ + 1, !.isCompleted = done]
    PROVE  /\ next \in Row /\ next.sagaId = row.sagaId /\ next.corr = row.corr
           /\ next.version = row.version + 1 /\ next.created = row.created
<1> DEFINE raised == [row EXCEPT !.version = @ + 1]
<1>1. /\ raised \in Row /\ raised.sagaId = row.sagaId /\ raised.corr = row.corr
      /\ raised.version = row.version + 1 /\ raised.created = row.created
  BY ClientsAssumption DEF Row
<1>2. next = [raised EXCEPT !.isCompleted = done]
  BY DEF Row
<1> HIDE DEF raised
<1> QED
  BY <1>1, <1>2 DEF Row

(* What a lookup leads to: only this client's part changes, and saga ids go on
   belonging to one correlation id. *)
LEMMA DecideFacts ==
    ASSUME Shapes, Agree, NEW c \in Clients, NEW corr \in Correlations,
           NEW found \in Row \cup {NoRow}, found # NoRow => found \in Known,
           Decide(c, corr, found), UNCHANGED <<table, replica, kv>>
    PROVE  /\ pc' \in [Clients -> TableLabels \cup RedisLabels]
           /\ held' \in [Clients -> Row \cup {NoRow}]
           /\ mine' \in [Clients -> Row \cup {NoRow}]
           /\ result' \in [Clients -> Results]
           /\ Agree'
           /\ pc[c] = "idle" /\ pc'[c] \in {"inserting", "updating", "deleting"}
           /\ InHand(c)'
           /\ \A d \in Clients \ {c} :
                 pc'[d] = pc[d] /\ mine'[d] = mine[d] /\ held'[d] = held[d]
<1> USE DEF Shapes
<1>0. pc[c] = "idle" /\ result' = [result EXCEPT ![c] = "ok"]
  BY DEF Decide
<1>1. CASE StartSaga(c, corr)
  <2>1. PICK id \in SagaIds \ Drawn, now \in Clock :
           /\ issued' = [issued EXCEPT ![id] = corr]
           /\ mine' = [mine EXCEPT ![c] =
                 [ sagaId |-> id, corr |-> corr, version |-> 0,
                   isCompleted |-> FALSE, created |-> now ]]
    BY <1>1 DEF StartSaga
  <2> DEFINE row == [ sagaId |-> id, corr |-> corr, version |-> 0,
                      isCompleted |-> FALSE, created |-> now ]
  <2>2. held' = [held EXCEPT ![c] = NoRow] /\ pc' = [pc EXCEPT ![c] = "inserting"]
    BY <1>1 DEF StartSaga, Goto
  <2>3. row \in Row /\ row.sagaId = id /\ row.corr = corr /\ corr # NoCorrelation
    BY ClientsAssumption DEF Row
  <2>4. mine' = [mine EXCEPT ![c] = row]
    BY <2>1
  <2> HIDE DEF row
  <2>5. \A r \in Known' : r \in Known \/ r = row
    BY <2>2, <2>4, NoRowAssumption DEF Known
  <2>6. Agree'
    BY <2>1, <2>3, <2>5, KnownDrawn DEF Agree, Drawn
  <2>7. InHand(c)'
    BY <2>2, <2>3, <2>4 DEF InHand, Inserting, Updating, Deleting
  <2> QED
    BY <1>0, <2>2, <2>3, <2>4, <2>6, <2>7 DEF Results, TableLabels, RedisLabels
<1>2. CASE ContinueSaga(c, found) /\ found # NoRow
  <2>1. PICK done \in BOOLEAN :
           mine' = [mine EXCEPT ![c] =
              [found EXCEPT !.version = @ + 1, !.isCompleted = done]]
    BY <1>2 DEF ContinueSaga
  <2> DEFINE next == [found EXCEPT !.version = @ + 1, !.isCompleted = done]
  <2>2. /\ held' = [held EXCEPT ![c] = found] /\ pc' = [pc EXCEPT ![c] = "updating"]
        /\ issued' = issued /\ found \in Row /\ found.version < MaxVersion
    BY <1>2 DEF ContinueSaga, Goto
  <2>3. next \in Row /\ next.sagaId = found.sagaId /\ next.corr = found.corr
    BY <2>2, NextVersion
  <2>4. mine' = [mine EXCEPT ![c] = next]
    BY <2>1
  <2> HIDE DEF next
  <2>5. \A r \in Known' : r \in Known \/ r = next
    BY <1>2, <2>2, <2>4, NoRowAssumption DEF Known
  <2>6. Agree'
    BY <1>2, <2>2, <2>3, <2>5 DEF Agree
  <2>7. InHand(c)'
    BY <2>2, <2>3, <2>4 DEF InHand, Inserting, Updating, Deleting
  <2> QED
    BY <1>0, <2>2, <2>3, <2>4, <2>6, <2>7 DEF Results, TableLabels, RedisLabels
<1>3. CASE RemoveSaga(c, found) /\ found # NoRow
  <2>1. /\ held' = [held EXCEPT ![c] = found] /\ mine' = [mine EXCEPT ![c] = NoRow]
        /\ pc' = [pc EXCEPT ![c] = "deleting"] /\ issued' = issued /\ found \in Row
    BY <1>3 DEF RemoveSaga, Goto
  <2>2. Known' \subseteq Known
    BY <1>3, <2>1, NoRowAssumption DEF Known
  <2>3. InHand(c)'
    BY <2>1 DEF InHand, Inserting, Updating, Deleting
  <2> QED
    BY <1>0, <2>1, <2>2, <2>3, AgreeKept DEF Results, TableLabels, RedisLabels
<1> QED
  BY <1>1, <1>2, <1>3 DEF Decide

(* What the end of a call leaves: the client is idle and holds nothing new. *)
LEMMA ReturnFacts ==
    ASSUME Shapes, NEW c \in Clients, NEW how \in Results, Return(c, how)
    PROVE  /\ pc' = [pc EXCEPT ![c] = "idle"] /\ pc' \in [Clients -> TableLabels \cup RedisLabels]
           /\ held' \in [Clients -> Row \cup {NoRow}]
           /\ mine' = [mine EXCEPT ![c] = NoRow] /\ mine' \in [Clients -> Row \cup {NoRow}]
           /\ result' = [result EXCEPT ![c] = how] /\ result' \in [Clients -> Results]
           /\ issued' = issued
           /\ InHand(c)'
           /\ held'[c] \in {held[c], NoRow}
           /\ \A d \in Clients \ {c} :
                 pc'[d] = pc[d] /\ mine'[d] = mine[d] /\ held'[d] = held[d]
BY DEF Return, Goto, Shapes, InHand, Inserting, Updating, Deleting, TableLabels, RedisLabels

-----------------------------------------------------------------------------
(* The stores with a table. *)

TableFixed == UNCHANGED <<adapter, connection, redisVars>>

(* Nothing of the invariant is about Redis when the adapter is another. *)
LEMMA TableKept ==
    ASSUME StoreInv, adapter \in TableAdapters, TableFixed,
           pc' \in [Clients -> TableLabels \cup RedisLabels],
           held' \in [Clients -> Row \cup {NoRow}],
           mine' \in [Clients -> Row \cup {NoRow}],
           result' \in [Clients -> Results],
           table' \in [SagaIds -> Row \cup {NoRow}],
           replica' \in [SagaIds -> Row \cup {NoRow}],
           \A id \in SagaIds : table'[id] # NoRow => table'[id].sagaId = id,
           \A id \in SagaIds : replica'[id] # NoRow => replica'[id].sagaId = id,
           Agree', \A c \in Clients : InHand(c)', OneRowPerKey'
    PROVE  StoreInv'
<1>1. Shapes' /\ Filed' /\ RowsReachable'
  BY DEF StoreInv, Shapes, Filed, RowsReachable, TableFixed, redisVars
<1>2. WatchInv'
  BY DEF WatchInv, TableFixed, TableAdapters, UniqueAdapters
<1> QED
  BY <1>1, <1>2 DEF StoreInv, TableFixed

(* Another client's call is none of a client's business. *)
LEMMA OthersInHand ==
    ASSUME StoreInv, NEW c \in Clients, InHand(c)',
           \A d \in Clients \ {c} :
              pc'[d] = pc[d] /\ mine'[d] = mine[d] /\ held'[d] = held[d]
    PROVE  \A d \in Clients : InHand(d)'
<1> SUFFICES ASSUME NEW d \in Clients \ {c} PROVE InHand(d)'
  OBVIOUS
<1> QED
  BY DEF StoreInv, InHand

(* Rows go, or stay as they are. *)
RowsOnlyGo ==
    /\ table' \in [SagaIds -> Row \cup {NoRow}]
    /\ \A id \in SagaIds : table'[id] \in {table[id], NoRow}

(* The rows that are left are under their ids, one for each key. *)
LEMMA RowsGo ==
    ASSUME StoreInv, RowsOnlyGo, adapter' = adapter
    PROVE  /\ \A id \in SagaIds : table'[id] # NoRow => table'[id].sagaId = id
           /\ OneRowPerKey'
BY DEF StoreInv, RowsOnlyGo, Filed, OneRowPerKey, Present

(* A call that returns without having stored anything. *)
LEMMA CallEnds ==
    ASSUME StoreInv, adapter \in TableAdapters, TableFixed, UNCHANGED replica,
           NEW c \in Clients, NEW how \in Results, Return(c, how), RowsOnlyGo
    PROVE  StoreInv'
<1>1. Shapes /\ adapter' = adapter
  BY DEF StoreInv, TableFixed
<1> USE ReturnFacts, RowsGo, <1>1
<1>2. Known' \subseteq Known
  BY NoRowAssumption DEF Known, Shapes, RowsOnlyGo, TableFixed, redisVars
<1>3. Agree'
  BY <1>2, AgreeKept DEF StoreInv
<1>4. \A d \in Clients : InHand(d)'
  BY OthersInHand
<1>5. /\ replica' \in [SagaIds -> Row \cup {NoRow}]
      /\ \A id \in SagaIds : replica'[id] # NoRow => replica'[id].sagaId = id
      /\ OneRowPerKey'
  BY DEF StoreInv, Shapes, Filed
<1> QED
  BY <1>3, <1>4, <1>5, TableKept DEF RowsOnlyGo

(* A call that returns and has stored its row: an insert that was not refused, or
   an update of a row the table had. *)
LEMMA RowStored ==
    ASSUME StoreInv, adapter \in TableAdapters, TableFixed, UNCHANGED replica,
           NEW c \in Clients, pc[c] \in {"inserting", "updating"}, Return(c, "ok"),
           table' = [table EXCEPT ![mine[c].sagaId] = mine[c]],
           adapter \in UniqueAdapters /\ pc[c] = "inserting" => ~ KeyTaken(mine[c]),
           pc[c] = "updating" => table[mine[c].sagaId] # NoRow
    PROVE  StoreInv'
<1>1. Shapes /\ mine[c] \in Row /\ mine[c] # NoRow /\ mine[c].sagaId \in SagaIds
  BY NoRowAssumption DEF StoreInv, InHand, Inserting, Updating, Row
<1> USE ReturnFacts, <1>1 DEF Results
<1>2. Known' \subseteq Known
  BY NoRowAssumption DEF Known, Shapes, TableFixed, redisVars
<1>3. Agree'
  BY <1>2, AgreeKept DEF StoreInv
<1>4. \A d \in Clients : InHand(d)'
  BY OthersInHand
<1>5. /\ replica' \in [SagaIds -> Row \cup {NoRow}]
      /\ \A id \in SagaIds : replica'[id] # NoRow => replica'[id].sagaId = id
      /\ table' \in [SagaIds -> Row \cup {NoRow}]
      /\ \A id \in SagaIds : table'[id] # NoRow => table'[id].sagaId = id
  BY DEF StoreInv, Shapes, Filed
<1>6. OneRowPerKey'
  <2>1. CASE pc[c] = "inserting"
    BY <2>1 DEF StoreInv, OneRowPerKey, Present, KeyTaken, TableFixed, Shapes
  <2>2. CASE pc[c] = "updating"
    <3>1. table[mine[c].sagaId].corr = mine[c].corr
      BY <2>2 DEF StoreInv, Agree, Known, Filed, Shapes
    <3> QED
      BY <2>2, <3>1 DEF StoreInv, OneRowPerKey, Present, TableFixed, Shapes
  <2> QED
    BY <2>1, <2>2
<1> QED
  BY <1>3, <1>4, <1>5, <1>6, TableKept

(* A lookup, in the table or in what DynamoDB's index shows of it. *)
LEMMA LookedUp ==
    ASSUME StoreInv, adapter \in TableAdapters, TableFixed, UNCHANGED replica,
           NEW c \in Clients, NEW rows \in {table, replica}, LookupIn(c, rows)
    PROVE  StoreInv'
<1>1. PICK corr \in Correlations :
         \/ Decide(c, corr, NoRow)
         \/ \E id \in Present(rows) : Decide(c, corr, rows[id])
  BY DEF LookupIn
<1>2. PICK found \in Row \cup {NoRow} :
         Decide(c, corr, found) /\ (found # NoRow => found \in Known)
  <2>1. CASE Decide(c, corr, NoRow)
    BY <2>1
  <2>2. CASE \E id \in Present(rows) : Decide(c, corr, rows[id])
    <3>1. PICK id \in SagaIds : rows[id] # NoRow /\ Decide(c, corr, rows[id])
      BY <2>2 DEF Present
    <3>2. rows[id] \in Row /\ rows[id] \in Known
      BY <3>1 DEF StoreInv, Shapes, Known
    <3> QED
      BY <3>1, <3>2
  <2> QED
    BY <1>1, <2>1, <2>2
<1>3. UNCHANGED <<table, replica, kv>> /\ Shapes /\ Agree
  BY DEF LookupIn, TableFixed, redisVars, StoreInv
<1> USE <1>2, <1>3, DecideFacts
<1>4. \A d \in Clients : InHand(d)'
  BY OthersInHand
<1>5. OneRowPerKey' /\ Filed'
  BY DEF StoreInv, OneRowPerKey, Present, Filed, TableFixed
<1> QED
  BY <1>4, <1>5, TableKept DEF Shapes, Filed

(* Of a table that stays as it is no row goes. *)
LEMMA NoneGoes ==
    ASSUME StoreInv, UNCHANGED table
    PROVE  RowsOnlyGo
BY DEF StoreInv, Shapes, RowsOnlyGo

(* An adapter's statement is one of a few; DynamoDB alone reads its index. *)
LEMMA CallCases ==
    ASSUME NEW c \in Clients, ClientStep(c)
    PROVE  \/ adapter \in UniqueAdapters /\ InsertUnless(c, KeyTaken)
           \/ adapter \notin UniqueAdapters /\ InsertUnless(c, IdTaken)
           \/ UpdateWhere(c, Selects)
           \/ \E rows \in {table, replica} :
                 (rows = table \/ adapter = "dynamodb") /\ RereadIn(c, rows)
           \/ \E rows \in {table, replica} :
                 /\ adapter = "dynamodb" => rows = replica
                 /\ adapter # "dynamodb" => rows = table
                 /\ LookupIn(c, rows)
           \/ DeleteById(c)
           \/ adapter = "prisma" /\ PrismaDeleteFails(c)
BY DEF ClientStep, Postgres, MySql, SqlServer, Prisma, Mongo, Sqlite, Dynamo, Calls,
       DynamoInsert, DynamoUpdate, DynamoGetById, DynamoGetByCorrelationId, UniqueAdapters

(* Each of them keeps the invariant. *)
LEMMA CallKept ==
    ASSUME StoreInv, adapter \in TableAdapters, TableFixed, NEW c \in Clients, ClientStep(c)
    PROVE  StoreInv'
<1>1. UNCHANGED replica
  BY DEF ClientStep
<1>2. \/ /\ adapter \in UniqueAdapters
         /\ InsertUnless(c, KeyTaken)
      \/ /\ adapter \notin UniqueAdapters
         /\ InsertUnless(c, IdTaken)
      \/ UpdateWhere(c, Selects)
      \/ \E rows \in {table, replica} : RereadIn(c, rows)
      \/ \E rows \in {table, replica} : LookupIn(c, rows)
      \/ DeleteById(c)
      \/ PrismaDeleteFails(c)
  BY CallCases
<1>3. ASSUME NEW how \in Results, Return(c, how), UNCHANGED table
      PROVE  StoreInv'
  BY <1>1, <1>3, NoneGoes, CallEnds
<1>4. CASE adapter \in UniqueAdapters /\ InsertUnless(c, KeyTaken)
  <2>1. CASE KeyTaken(mine[c])
    BY <1>3, <1>4, <2>1 DEF InsertUnless, Results
  <2>2. CASE ~ KeyTaken(mine[c])
    BY <1>1, <1>4, <2>2, RowStored DEF InsertUnless
  <2> QED
    BY <2>1, <2>2
<1>5. CASE adapter \notin UniqueAdapters /\ InsertUnless(c, IdTaken)
  <2>1. CASE IdTaken(mine[c])
    BY <1>3, <1>5, <2>1 DEF InsertUnless, Results
  <2>2. CASE ~ IdTaken(mine[c])
    BY <1>1, <1>5, <2>2, RowStored DEF InsertUnless
  <2> QED
    BY <2>1, <2>2
<1>6. CASE UpdateWhere(c, Selects)
  <2>1. CASE Selects(mine[c].sagaId, held[c].version)
    BY <1>1, <1>6, <2>1, RowStored DEF UpdateWhere, Selects
  <2>2. CASE ~ Selects(mine[c].sagaId, held[c].version)
    <3>1. /\ pc' = [pc EXCEPT ![c] = "rereading"]
          /\ UNCHANGED <<table, held, mine, result, issued>>
      BY <1>6, <2>2 DEF UpdateWhere, Goto
    <3>2. Known' = Known
      BY <1>1, <3>1 DEF Known, TableFixed, redisVars
    <3>3. Agree'
      BY <3>1, <3>2, AgreeKept DEF StoreInv
    <3>4. \A d \in Clients : InHand(d)'
      BY <3>1 DEF StoreInv, Shapes, InHand, Inserting, Updating, Deleting
    <3>5. OneRowPerKey'
      BY <3>1 DEF StoreInv, OneRowPerKey, Present, TableFixed
    <3> QED
      BY <1>1, <3>1, <3>3, <3>4, <3>5, TableKept DEF StoreInv, Shapes, Filed, TableLabels
  <2> QED
    BY <2>1, <2>2
<1>7. CASE \E rows \in {table, replica} : RereadIn(c, rows)
  BY <1>3, <1>7 DEF RereadIn, Results
<1>8. CASE \E rows \in {table, replica} : LookupIn(c, rows)
  BY <1>1, <1>8, LookedUp
<1>9. CASE DeleteById(c)
  <2>1. RowsOnlyGo
    BY <1>9 DEF DeleteById, StoreInv, Shapes, RowsOnlyGo
  <2> QED
    BY <1>1, <1>9, <2>1, CallEnds DEF DeleteById, Results
<1>10. CASE PrismaDeleteFails(c)
  BY <1>3, <1>10 DEF PrismaDeleteFails, Results
<1> QED
  BY <1>2, <1>4, <1>5, <1>6, <1>7, <1>8, <1>9, <1>10

(* Clean-ups remove rows, indexes catch up, listings only look. *)
LEMMA BackgroundKept ==
    ASSUME StoreInv, adapter \in TableAdapters, TableFixed, UNCHANGED clientVars,
           RowsOnlyGo,
           \A id \in SagaIds : replica'[id] \in {replica[id], table[id]},
           replica' \in [SagaIds -> Row \cup {NoRow}]
    PROVE  StoreInv'
<1>1. Known' \subseteq Known
  BY NoRowAssumption DEF Known, RowsOnlyGo, TableFixed, redisVars, clientVars
<1>2. Agree'
  BY <1>1, AgreeKept DEF StoreInv, clientVars
<1>3. \A c \in Clients : InHand(c)'
  BY DEF StoreInv, InHand, clientVars
<1>4. \A id \in SagaIds : replica'[id] # NoRow => replica'[id].sagaId = id
  BY DEF StoreInv, Filed
<1>5. /\ pc' \in [Clients -> TableLabels \cup RedisLabels]
      /\ held' \in [Clients -> Row \cup {NoRow}]
      /\ mine' \in [Clients -> Row \cup {NoRow}]
      /\ result' \in [Clients -> Results]
  BY DEF StoreInv, Shapes, clientVars
<1>6. adapter' = adapter
  BY DEF TableFixed
<1> QED
  BY <1>2, <1>3, <1>4, <1>5, <1>6, RowsGo, TableKept DEF RowsOnlyGo

(* Whatever a store with a table does next. *)
LEMMA TableStep ==
    ASSUME StoreInv, adapter # "redis", TableFixed, TableNext
    PROVE  StoreInv'
<1>1. adapter \in TableAdapters
  BY DEF StoreInv
<1>2. CASE \E c \in Clients : ClientStep(c)
  BY <1>1, <1>2, CallKept
<1>3. replica \in [SagaIds -> Row \cup {NoRow}]
  BY DEF StoreInv, Shapes
<1>4. CASE CleanUp
  <2>1. RowsOnlyGo
    <3>1. CASE DeleteCompleted
      BY <3>1 DEF DeleteCompleted, RowsOnlyGo, StoreInv, Shapes
    <3>2. CASE \E id \in SagaIds : DynamoSweepDelete(id)
      BY <3>2 DEF DynamoSweepDelete, RowsOnlyGo, StoreInv, Shapes
    <3>3. CASE UNCHANGED table
      BY <3>3, NoneGoes
    <3> QED
      BY <1>4, <3>1, <3>2, <3>3
         DEF CleanUp, DynamoSweep, PostgresDeleteCompletedBefore, MySqlDeleteCompletedBefore,
             SqlServerDeleteCompletedBefore, PrismaDeleteCompletedBefore,
             MongoDeleteCompletedBefore
  <2>2. UNCHANGED <<replica, clientVars>>
    BY <1>4 DEF CleanUp
  <2> QED
    BY <1>1, <1>3, <2>1, <2>2, BackgroundKept
<1>5. CASE ListNext
  <2>1. UNCHANGED <<table, replica, clientVars>>
    BY <1>5 DEF ListNext
  <2>2. RowsOnlyGo
    BY <2>1, NoneGoes
  <2> QED
    BY <1>1, <1>3, <2>1, <2>2, BackgroundKept
<1>6. CASE \E id \in SagaIds : Replicate(id) /\ UNCHANGED <<table, sweep, listing, clientVars>>
  <2>1. /\ UNCHANGED <<table, clientVars>>
        /\ \A id \in SagaIds : replica'[id] \in {replica[id], table[id]}
        /\ replica' \in [SagaIds -> Row \cup {NoRow}]
    BY <1>6 DEF Replicate, StoreInv, Shapes
  <2>2. RowsOnlyGo
    BY <2>1, NoneGoes
  <2> QED
    BY <1>1, <2>1, <2>2, BackgroundKept
<1> QED
  BY <1>2, <1>4, <1>5, <1>6 DEF TableNext

-----------------------------------------------------------------------------
(* Redis. *)

RedisFixed == UNCHANGED <<adapter, connection, tableVars>>

(* Nothing of the invariant is about a table when the adapter is Redis. *)
LEMMA RedisKept ==
    ASSUME StoreInv, adapter = "redis", RedisFixed,
           pc' \in [Clients -> TableLabels \cup RedisLabels],
           held' \in [Clients -> Row \cup {NoRow}],
           mine' \in [Clients -> Row \cup {NoRow}],
           result' \in [Clients -> Results],
           kv' \in [Correlations -> Row \cup {NoRow}],
           idIndex' \in [SagaIds -> Correlations \cup {NoCorrelation}],
           watched' \in [Connections -> SUBSET Correlations],
           dirty' \in [Connections -> BOOLEAN],
           \A corr \in Correlations : kv'[corr] # NoRow => kv'[corr].corr = corr,
           Agree', \A c \in Clients : InHand(c)', RowsReachable', WatchInv'
    PROVE  StoreInv'
<1>1. Shapes' /\ Filed'
  BY DEF StoreInv, Shapes, Filed, RedisFixed, tableVars
<1>2. OneRowPerKey'
  BY DEF OneRowPerKey, UniqueAdapters, RedisFixed
<1> QED
  BY <1>1, <1>2 DEF StoreInv, RedisFixed

(* A connection as a step of another connection leaves it: a key it watches has
   kept its value, or the connection is dirty. *)
Marked(k) ==
    /\ watched'[k] = watched[k]
    /\ dirty[k] => dirty'[k]
    /\ dirty'[k] => dirty[k] \/ watched[k] # {}
    /\ \A corr \in watched[k] : kv'[corr] = kv[corr] \/ dirty'[k]

(* Nothing was written. *)
LEMMA QuietMarks ==
    ASSUME NEW k, UNCHANGED kv, watched'[k] = watched[k], dirty'[k] = dirty[k]
    PROVE  Marked(k)
BY DEF Marked

(* One key was. *)
LEMMA WriteMarks ==
    ASSUME Shapes, NEW k \in Connections, NEW corr \in Correlations,
           \A other \in Correlations \ {corr} : kv'[other] = kv[other],
           watched'[k] = watched[k], dirty'[k] = Touched(corr)[k]
    PROVE  Marked(k)
<1>1. dirty'[k] = (dirty[k] \/ corr \in watched[k])
  BY DEF Touched
<1>2. watched[k] \subseteq Correlations
  BY DEF Shapes
<1> QED
  BY <1>1, <1>2 DEF Marked

(* A client whose connection is as such a step leaves it. *)
LEMMA WatchesKept ==
    ASSUME NEW d, Watches(d), UNCHANGED connection, Marked(connection[d]),
           pc'[d] = pc[d], mine'[d] = mine[d], held'[d] = held[d]
    PROVE  Watches(d)'
BY DEF Watches, Marked

(* A step of one client: the others and their connections. *)
LEMMA OthersWatch ==
    ASSUME StoreInv, adapter = "redis", RedisFixed, NEW c \in Clients,
           \A d \in Clients \ {c} :
              pc'[d] = pc[d] /\ mine'[d] = mine[d] /\ held'[d] = held[d],
           \A k \in Connections \ {connection[c]} : Marked(k),
           Dedicated => Watches(c)'
    PROVE  WatchInv'
<1> SUFFICES ASSUME Dedicated, NEW d \in Clients \ {c} PROVE Watches(d)'
  BY DEF WatchInv, Dedicated, RedisFixed
<1>1. connection[d] \in Connections \ {connection[c]}
  BY DEF Dedicated, StoreInv, Shapes
<1>2. Watches(d)
  BY DEF StoreInv, WatchInv
<1> QED
  BY <1>1, <1>2, WatchesKept DEF RedisFixed

(* A step that writes no key. *)
LEMMA QuietStep ==
    ASSUME StoreInv, adapter = "redis", RedisFixed, NEW c \in Clients,
           UNCHANGED <<kv, idIndex>>,
           pc' \in [Clients -> TableLabels \cup RedisLabels],
           held' \in [Clients -> Row \cup {NoRow}],
           mine' \in [Clients -> Row \cup {NoRow}],
           result' \in [Clients -> Results],
           watched' \in [Connections -> SUBSET Correlations],
           dirty' \in [Connections -> BOOLEAN],
           \A k \in Connections \ {connection[c]} :
              watched'[k] = watched[k] /\ dirty'[k] = dirty[k],
           \A d \in Clients \ {c} :
              pc'[d] = pc[d] /\ mine'[d] = mine[d] /\ held'[d] = held[d],
           Agree', InHand(c)', Dedicated => Watches(c)'
    PROVE  StoreInv'
<1>1. \A d \in Clients : InHand(d)'
  BY OthersInHand
<1>2. WatchInv'
  BY QuietMarks, OthersWatch
<1>3. RowsReachable'
  BY DEF StoreInv, RowsReachable
<1>4. \A corr \in Correlations : kv'[corr] # NoRow => kv'[corr].corr = corr
  BY DEF StoreInv, Filed
<1> QED
  BY <1>1, <1>2, <1>3, <1>4, RedisKept DEF StoreInv, Shapes

(* What is known after a step in which this client has at most let rows go. *)
LEMMA NothingNew ==
    ASSUME StoreInv, RedisFixed, NEW c \in Clients, issued' = issued,
           \A corr \in Correlations : kv'[corr] \in {kv[corr], mine[c], NoRow},
           \A d \in Clients \ {c} : mine'[d] = mine[d] /\ held'[d] = held[d],
           mine'[c] \in {mine[c], NoRow}, held'[c] \in {held[c], NoRow}
    PROVE  Agree'
<1>1. Known' \subseteq Known
  BY NoRowAssumption DEF Known, RedisFixed, tableVars
<1> QED
  BY <1>1, AgreeKept DEF StoreInv

(* A call goes on, or ends, without having written a key. *)
LEMMA GoesOn ==
    ASSUME StoreInv, adapter = "redis", RedisFixed, NEW c \in Clients,
           UNCHANGED <<kv, idIndex>>,
           NEW label \in RedisLabels, pc' = [pc EXCEPT ![c] = label],
           NEW how \in Results, result' = [result EXCEPT ![c] = how],
           UNCHANGED <<held, mine, issued>>,
           label \in Inserting => pc[c] \in Inserting,
           label \in Updating => pc[c] \in Updating,
           label \in Deleting => pc[c] \in Deleting,
           watched' \in [Connections -> SUBSET Correlations],
           dirty' \in [Connections -> BOOLEAN],
           \A k \in Connections \ {connection[c]} :
              watched'[k] = watched[k] /\ dirty'[k] = dirty[k],
           Dedicated => Watches(c)'
    PROVE  StoreInv'
<1>1. Agree'
  BY NothingNew
<1>2. InHand(c)'
  BY DEF StoreInv, Shapes, InHand, Inserting, Updating, Deleting
<1> QED
  BY <1>1, <1>2, QuietStep DEF StoreInv, Shapes

(* A call returns without having written a key, its connection watching nothing. *)
LEMMA Ends ==
    ASSUME StoreInv, adapter = "redis", RedisFixed, NEW c \in Clients,
           UNCHANGED <<kv, idIndex>>, NEW how \in Results, Return(c, how),
           watched' \in [Connections -> SUBSET Correlations],
           dirty' \in [Connections -> BOOLEAN],
           \A k \in Connections \ {connection[c]} :
              watched'[k] = watched[k] /\ dirty'[k] = dirty[k],
           Dedicated => watched'[connection[c]] = {} /\ ~ dirty'[connection[c]]
    PROVE  StoreInv'
<1>1. Shapes
  BY DEF StoreInv
<1> USE ReturnFacts, <1>1
<1>2. Agree'
  BY NothingNew
<1>3. pc'[c] = "idle" /\ connection' = connection
  BY DEF Shapes, RedisFixed
<1>4. Dedicated => Watches(c)'
  BY <1>3 DEF Watches
<1> QED
  BY <1>2, <1>4, QuietStep

(* A read leaves every connection as it was. *)
LEMMA ReadFacts ==
    ASSUME StoreInv, Reads
    PROVE  /\ UNCHANGED <<kv, idIndex>>
           /\ watched' \in [Connections -> SUBSET Correlations]
           /\ dirty' \in [Connections -> BOOLEAN]
           /\ \A k \in Connections : watched'[k] = watched[k] /\ dirty'[k] = dirty[k]
BY DEF StoreInv, Shapes, Reads

(* UNWATCH clears this connection and no other. *)
LEMMA UnwatchFacts ==
    ASSUME StoreInv, NEW c \in Clients, UNWATCH(c)
    PROVE  /\ watched' \in [Connections -> SUBSET Correlations]
           /\ dirty' \in [Connections -> BOOLEAN]
           /\ watched'[connection[c]] = {} /\ ~ dirty'[connection[c]]
           /\ \A k \in Connections \ {connection[c]} :
                 watched'[k] = watched[k] /\ dirty'[k] = dirty[k]
BY DEF StoreInv, Shapes, UNWATCH

(* Every connection is dirty or not. *)
LEMMA TouchedFacts ==
    ASSUME Shapes, NEW corr
    PROVE  Touched(corr) \in [Connections -> BOOLEAN]
BY DEF Touched

(* EXEC has written a row its client had in hand: the index leads to it, and to
   no other row than before. *)
LEMMA RowWritten ==
    ASSUME StoreInv, adapter = "redis", RedisFixed, NEW c \in Clients,
           pc[c] \in {"insertExec", "exec"}, ExecWrites(c, mine[c]), Return(c, "ok")
    PROVE  StoreInv'
<1>1. Shapes /\ Agree /\ Filed /\ RowsReachable
  BY DEF StoreInv
<1>2. mine[c] \in Row /\ mine[c] # NoRow /\ mine[c].sagaId \in SagaIds /\ mine[c].corr \in Correlations
  BY NoRowAssumption DEF StoreInv, InHand, Inserting, Updating, Row
<1> DEFINE row == mine[c]
           k0 == connection[c]
<1>3. /\ kv' = [kv EXCEPT ![row.corr] = row]
      /\ idIndex' = [idIndex EXCEPT ![row.sagaId] = row.corr]
      /\ watched' = [watched EXCEPT ![k0] = {}]
      /\ dirty' = [Touched(row.corr) EXCEPT ![k0] = FALSE]
  BY DEF ExecWrites
<1>4. k0 \in Connections /\ connection' = connection
  BY <1>1 DEF Shapes, RedisFixed
<1>5. /\ kv' \in [Correlations -> Row \cup {NoRow}]
      /\ idIndex' \in [SagaIds -> Correlations \cup {NoCorrelation}]
      /\ watched' \in [Connections -> SUBSET Correlations]
  BY <1>1, <1>2, <1>3 DEF Shapes
<1>6. dirty' \in [Connections -> BOOLEAN] /\ ~ dirty'[k0]
  BY <1>1, <1>3, <1>4, TouchedFacts
<1>7. \A corr \in Correlations : kv'[corr] # NoRow => kv'[corr].corr = corr
  BY <1>1, <1>2, <1>3 DEF Filed, Shapes
<1>8. RowsReachable'
  <2> SUFFICES ASSUME NEW corr \in Correlations, kv'[corr] # NoRow
               PROVE  idIndex'[kv'[corr].sagaId] = corr
    BY DEF RowsReachable
  <2>1. CASE corr = row.corr
    BY <1>1, <1>2, <1>3, <2>1 DEF Shapes
  <2>2. CASE corr # row.corr
    <3>1. kv'[corr] = kv[corr] /\ kv[corr] \in Known /\ kv[corr] \in Row
      BY <1>1, <1>3, <2>2 DEF Shapes, Known
    <3>2. row \in Known
      BY <1>2 DEF Known
    <3>3. kv[corr].sagaId # row.sagaId
      BY <1>1, <2>2, <3>1, <3>2 DEF Agree, Filed
    <3>4. idIndex[kv[corr].sagaId] = corr
      BY <1>1, <3>1 DEF RowsReachable
    <3> HIDE DEF row
    <3> QED
      BY <1>1, <1>3, <3>1, <3>3, <3>4 DEF Shapes, Row
  <2> QED
    BY <2>1, <2>2
<1>9. Agree' /\ \A d \in Clients : InHand(d)'
  <2>1. \A corr \in Correlations : kv'[corr] \in {kv[corr], mine[c], NoRow}
    BY <1>1, <1>3 DEF Shapes
  <2> QED
    BY <1>1, <2>1, NothingNew, ReturnFacts, OthersInHand DEF Results, Shapes
<1>10. WatchInv'
  <2>1. \A k \in Connections \ {k0} : Marked(k)
    <3> SUFFICES ASSUME NEW k \in Connections \ {k0} PROVE Marked(k)
      OBVIOUS
    <3>1. watched'[k] = watched[k] /\ dirty'[k] = Touched(row.corr)[k]
      BY <1>1, <1>3, <1>4, TouchedFacts DEF Shapes
    <3>2. \A other \in Correlations \ {row.corr} : kv'[other] = kv[other]
      BY <1>1, <1>3 DEF Shapes
    <3> QED
      BY <1>1, <1>2, <3>1, <3>2, WriteMarks
  <2>2. watched'[k0] = {}
    BY <1>1, <1>3, <1>4 DEF Shapes
  <2>3. pc'[c] = "idle"
    BY <1>1, ReturnFacts DEF Shapes, Results
  <2>4. Watches(c)'
    BY <1>4, <1>6, <2>2, <2>3 DEF Watches
  <2> QED
    BY <1>1, <2>1, <2>4, OthersWatch, ReturnFacts DEF Results
<1> QED
  BY <1>1, <1>5, <1>6, <1>7, <1>8, <1>9, <1>10, RedisKept, ReturnFacts DEF Results

(* Both keys of a saga have gone; the row under the first was filed there. *)
LEMMA KeysGone ==
    ASSUME StoreInv, NEW gone \in Row, gone \in Known,
           kv' = [kv EXCEPT ![gone.corr] = NoRow],
           idIndex' = [idIndex EXCEPT ![gone.sagaId] = NoCorrelation],
           dirty' = Touched(gone.corr), UNCHANGED watched
    PROVE  /\ kv' \in [Correlations -> Row \cup {NoRow}]
           /\ idIndex' \in [SagaIds -> Correlations \cup {NoCorrelation}]
           /\ watched' \in [Connections -> SUBSET Correlations]
           /\ dirty' \in [Connections -> BOOLEAN]
           /\ \A corr \in Correlations :
                 kv'[corr] \in {kv[corr], NoRow} /\ (kv'[corr] # NoRow => kv'[corr].corr = corr)
           /\ RowsReachable'
           /\ \A k \in Connections : Marked(k)
<1>1. Shapes /\ Agree /\ Filed /\ RowsReachable
  BY DEF StoreInv
<1>2. gone.corr \in Correlations /\ gone.sagaId \in SagaIds
  BY DEF Row
<1>3. /\ kv' \in [Correlations -> Row \cup {NoRow}]
      /\ idIndex' \in [SagaIds -> Correlations \cup {NoCorrelation}]
      /\ watched' \in [Connections -> SUBSET Correlations]
      /\ dirty' \in [Connections -> BOOLEAN]
  BY <1>1, <1>2, TouchedFacts DEF Shapes
<1>4. \A corr \in Correlations :
         kv'[corr] \in {kv[corr], NoRow} /\ (kv'[corr] # NoRow => kv'[corr].corr = corr)
  BY <1>1, <1>2 DEF Shapes, Filed
<1>5. RowsReachable'
  <2> SUFFICES ASSUME NEW corr \in Correlations, kv'[corr] # NoRow
               PROVE  idIndex'[kv'[corr].sagaId] = corr
    BY DEF RowsReachable
  <2>1. corr # gone.corr /\ kv'[corr] = kv[corr] /\ kv[corr] \in Known /\ kv[corr] \in Row
    BY <1>1, <1>2 DEF Shapes, Known
  <2>2. kv[corr].sagaId # gone.sagaId
    BY <1>1, <2>1 DEF Agree, Filed
  <2>3. idIndex[kv[corr].sagaId] = corr
    BY <1>1, <2>1 DEF RowsReachable
  <2> QED
    BY <1>1, <2>1, <2>2, <2>3 DEF Shapes, Row
<1>6. \A k \in Connections : Marked(k)
  <2>1. \A other \in Correlations \ {gone.corr} : kv'[other] = kv[other]
    BY <1>1, <1>2 DEF Shapes
  <2> QED
    BY <1>1, <1>2, <2>1, WriteMarks
<1> QED
  BY <1>3, <1>4, <1>5, <1>6

(* A command of a client. *)
LEMMA CommandKept ==
    ASSUME StoreInv, adapter = "redis", RedisFixed, NEW c \in Clients,
           \/ \E corr \in Correlations : GetByCorrelationId(c, corr)
           \/ InsertGet(c) \/ InsertExec(c)
           \/ UpdateGetIndex(c) \/ UpdateWatch(c) \/ UpdateCheck(c)
           \/ UpdateExec(c) \/ UpdateAborted(c) \/ UpdateUnwatch(c) \/ UpdateCatch(c)
           \/ DeleteGetIndex(c) \/ DeleteDel(c)
    PROVE  StoreInv'
<1>1. /\ Shapes /\ InHand(c) /\ connection' = connection /\ connection[c] \in Connections
      /\ Dedicated => Watches(c)
  BY DEF StoreInv, Shapes, WatchInv, RedisFixed
<1>2. ASSUME pc[c] \notin {"check", "exec", "unwatch"}, Reads, NEW how \in Results, Return(c, how)
      PROVE  StoreInv'
  BY <1>1, <1>2, ReadFacts, Ends DEF Watches
<1>3. ASSUME Reads, NEW label \in RedisLabels, Proceed(c, label),
             label \in Inserting => pc[c] \in Inserting,
             label \in Updating => pc[c] \in Updating,
             label \in Deleting => pc[c] \in Deleting,
             Dedicated => Watches(c)'
      PROVE  StoreInv'
  <2>1. result[c] \in Results /\ result' = [result EXCEPT ![c] = result[c]]
    BY <1>1, <1>3 DEF Shapes, Proceed
  <2> QED
    BY <1>3, <2>1, ReadFacts, GoesOn DEF Proceed, Goto
<1>4. CASE \E corr \in Correlations : GetByCorrelationId(c, corr)
  <2>1. PICK corr \in Correlations : Decide(c, corr, kv[corr]) /\ Reads
    BY <1>4 DEF GetByCorrelationId
  <2>2. kv[corr] \in Row \cup {NoRow} /\ (kv[corr] # NoRow => kv[corr] \in Known)
    BY <1>1 DEF Shapes, Known
  <2>3. UNCHANGED <<table, replica, kv>> /\ Agree
    BY <2>1 DEF RedisFixed, tableVars, Reads, StoreInv
  <2> USE <1>1, <2>1, <2>2, <2>3, DecideFacts
  <2>4. Dedicated => Watches(c)'
    BY ReadFacts DEF Watches
  <2> QED
    BY <2>4, ReadFacts, QuietStep
<1>5. CASE InsertGet(c)
  <2>1. CASE kv[mine[c].corr] # NoRow
    BY <1>2, <1>5, <2>1 DEF InsertGet, Results
  <2>2. CASE kv[mine[c].corr] = NoRow
    <3>1. pc[c] = "inserting" /\ Proceed(c, "insertExec") /\ Reads
      BY <1>5, <2>2 DEF InsertGet
    <3>2. Dedicated => Watches(c)'
      BY <1>1, <3>1 DEF Watches, Proceed, Goto, Shapes, Reads
    <3> QED
      BY <1>3, <3>1, <3>2 DEF RedisLabels, Inserting, Updating, Deleting
  <2> QED
    BY <2>1, <2>2
<1>6. CASE InsertExec(c)
  <2>1. CASE ExecWrites(c, mine[c])
    BY <1>6, <2>1, RowWritten DEF InsertExec
  <2>2. CASE ExecAborts(c)
    BY <1>6, <2>2, UnwatchFacts, Ends DEF InsertExec, ExecAborts, Results
  <2> QED
    BY <1>6, <2>1, <2>2 DEF InsertExec
<1>7. CASE UpdateGetIndex(c)
  <2>1. CASE idIndex[mine[c].sagaId] = NoCorrelation
    BY <1>2, <1>7, <2>1 DEF UpdateGetIndex, Results
  <2>2. CASE idIndex[mine[c].sagaId] # NoCorrelation
    <3>1. pc[c] = "updating" /\ Proceed(c, "watch") /\ Reads
      BY <1>7, <2>2 DEF UpdateGetIndex
    <3>2. Dedicated => Watches(c)'
      BY <1>1, <3>1 DEF Watches, Proceed, Goto, Shapes, Reads
    <3> QED
      BY <1>3, <3>1, <3>2 DEF RedisLabels, Inserting, Updating, Deleting
  <2> QED
    BY <2>1, <2>2
<1>8. CASE UpdateWatch(c)
  <2>1. /\ pc[c] = "watch" /\ Proceed(c, "check") /\ UNCHANGED <<kv, idIndex, dirty>>
        /\ watched' = [watched EXCEPT ![connection[c]] = @ \cup {mine[c].corr}]
    BY <1>8 DEF UpdateWatch, WATCH
  <2>2. mine[c].corr \in Correlations
    BY <1>1, <2>1 DEF InHand, Updating, Row
  <2>3. /\ watched' \in [Connections -> SUBSET Correlations]
        /\ dirty' \in [Connections -> BOOLEAN]
        /\ \A k \in Connections \ {connection[c]} :
              watched'[k] = watched[k] /\ dirty'[k] = dirty[k]
    BY <1>1, <2>1, <2>2 DEF Shapes
  <2>4. Dedicated => Watches(c)'
    BY <1>1, <2>1 DEF Watches, Proceed, Goto, Shapes
  <2>5. result[c] \in Results /\ result' = [result EXCEPT ![c] = result[c]]
    BY <1>1, <2>1 DEF Shapes, Proceed
  <2> QED
    BY <2>1, <2>3, <2>4, <2>5, GoesOn
       DEF Proceed, Goto, RedisLabels, Inserting, Updating, Deleting
<1>9. CASE UpdateCheck(c)
  <2>1. pc[c] = "check" /\ Reads
    BY <1>9 DEF UpdateCheck
  <2>2. CASE \E how \in {"notFound", "conflict"} : Throw(c, how, "unwatch")
    <3>1. PICK how \in Results :
             /\ pc' = [pc EXCEPT ![c] = "unwatch"]
             /\ result' = [result EXCEPT ![c] = how]
             /\ UNCHANGED <<held, mine, issued>>
      BY <2>2 DEF Throw, Goto, Results
    <3>2. Dedicated => Watches(c)'
      BY <1>1, <3>1 DEF Watches, Shapes
    <3> QED
      BY <2>1, <3>1, <3>2, ReadFacts, GoesOn DEF RedisLabels, Inserting, Updating, Deleting
  <2>3. CASE /\ kv[mine[c].corr] # NoRow /\ kv[mine[c].corr].version = held[c].version
             /\ Proceed(c, "exec")
    <3>1. Dedicated => Watches(c)'
      BY <1>1, <2>1, <2>3 DEF Watches, Shapes, Proceed, Goto, Reads
    <3> QED
      BY <1>3, <2>1, <2>3, <3>1 DEF RedisLabels, Inserting, Updating, Deleting
  <2> QED
    BY <1>9, <2>2, <2>3 DEF UpdateCheck
<1>10. CASE UpdateExec(c)
  BY <1>10, RowWritten DEF UpdateExec
<1>11. CASE UpdateAborted(c)
  <2>1. pc[c] = "exec" /\ UNWATCH(c) /\ UNCHANGED <<kv, idIndex>>
    BY <1>11 DEF UpdateAborted, ExecAborts
  <2>2. PICK label \in {"watch", "catch"}, how \in Results :
           /\ pc' = [pc EXCEPT ![c] = label]
           /\ result' = [result EXCEPT ![c] = how]
           /\ UNCHANGED <<held, mine, issued>>
    <3>1. CASE Proceed(c, "watch")
      <4>1. result[c] \in Results /\ result' = [result EXCEPT ![c] = result[c]]
        BY <1>1, <3>1 DEF Shapes, Proceed
      <4> QED
        BY <3>1, <4>1 DEF Proceed, Goto
    <3>2. CASE Throw(c, "conflict", "catch")
      BY <3>2 DEF Throw, Goto, Results
    <3> QED
      BY <1>11, <3>1, <3>2 DEF UpdateAborted
  <2>3. Dedicated => Watches(c)'
    BY <1>1, <2>1, <2>2, UnwatchFacts DEF Watches, Shapes
  <2> QED
    BY <2>1, <2>2, <2>3, UnwatchFacts, GoesOn DEF RedisLabels, Inserting, Updating, Deleting
<1>12. CASE UpdateUnwatch(c)
  <2>1. UNWATCH(c) /\ Proceed(c, "catch") /\ UNCHANGED <<kv, idIndex>>
    BY <1>12 DEF UpdateUnwatch
  <2>2. Dedicated => Watches(c)'
    BY <1>1, <2>1, UnwatchFacts DEF Watches, Shapes, Proceed, Goto
  <2>3. result[c] \in Results /\ result' = [result EXCEPT ![c] = result[c]]
    BY <1>1, <2>1 DEF Shapes, Proceed
  <2> QED
    BY <2>1, <2>2, <2>3, UnwatchFacts, GoesOn
       DEF Proceed, Goto, RedisLabels, Inserting, Updating, Deleting
<1>13. CASE UpdateCatch(c)
  <2>1. result[c] \in Results
    BY <1>1 DEF Shapes
  <2> QED
    BY <1>13, <2>1, UnwatchFacts, Ends DEF UpdateCatch
<1>14. CASE DeleteGetIndex(c)
  <2>1. CASE idIndex[held[c].sagaId] = NoCorrelation
    BY <1>2, <1>14, <2>1 DEF DeleteGetIndex, Results
  <2>2. CASE idIndex[held[c].sagaId] # NoCorrelation
    <3>1. pc[c] = "deleting" /\ Proceed(c, "del") /\ Reads
      BY <1>14, <2>2 DEF DeleteGetIndex
    <3>2. Dedicated => Watches(c)'
      BY <1>1, <3>1 DEF Watches, Proceed, Goto, Shapes, Reads
    <3> QED
      BY <1>3, <3>1, <3>2 DEF RedisLabels, Inserting, Updating, Deleting
  <2> QED
    BY <2>1, <2>2
<1>15. CASE DeleteDel(c)
  <2>1. /\ pc[c] = "del" /\ Return(c, "ok") /\ UNCHANGED watched
        /\ kv' = [kv EXCEPT ![held[c].corr] = NoRow]
        /\ idIndex' = [idIndex EXCEPT ![held[c].sagaId] = NoCorrelation]
        /\ dirty' = Touched(held[c].corr)
    BY <1>15 DEF DeleteDel
  <2>2. held[c] \in Row /\ held[c] \in Known
    BY <1>1, <2>1 DEF InHand, Deleting, Known
  <2> USE <1>1, <2>1, <2>2, KeysGone, ReturnFacts DEF Results
  <2>3. Agree' /\ \A d \in Clients : InHand(d)'
    BY NothingNew, OthersInHand
  <2>4. Dedicated => Watches(c)'
    <3>1. Marked(connection[c])
      BY KeysGone
    <3>2. pc'[c] = "idle"
      BY <2>1 DEF Return, Goto, Shapes
    <3> QED
      BY <3>1, <3>2 DEF Watches, Marked
  <2>5. WatchInv'
    BY <2>4, OthersWatch
  <2> QED
    BY <2>3, <2>5, RedisKept
<1> QED
  BY <1>4, <1>5, <1>6, <1>7, <1>8, <1>9, <1>10, <1>11, <1>12, <1>13, <1>14, <1>15

(* Whatever Redis or its clients do next. *)
LEMMA RedisStep ==
    ASSUME StoreInv, adapter = "redis", RedisFixed, RedisNext
    PROVE  StoreInv'
<1>1. CASE \E corr \in Correlations : ExpireCompleted(corr)
  <2>1. PICK corr \in Correlations : ExpireCompleted(corr)
    BY <1>1
  <2>2. Shapes /\ Filed
    BY DEF StoreInv
  <2>3. kv[corr] \in Row /\ kv[corr] \in Known /\ kv[corr].corr = corr
    BY <2>1, <2>2 DEF ExpireCompleted, Shapes, Known, Filed
  <2>4. /\ kv' = [kv EXCEPT ![kv[corr].corr] = NoRow]
        /\ idIndex' = [idIndex EXCEPT ![kv[corr].sagaId] = NoCorrelation]
        /\ dirty' = Touched(kv[corr].corr) /\ UNCHANGED <<watched, pc, held, mine, result, issued>>
    BY <2>1, <2>3 DEF ExpireCompleted, clientVars
  <2> HIDE <2>1
  <2> USE <2>2, <2>3, <2>4, KeysGone
  <2>5. Known' \subseteq Known
    BY NoRowAssumption DEF Known, RedisFixed, tableVars
  <2>6. Agree'
    BY <2>5, AgreeKept DEF StoreInv
  <2>7. \A c \in Clients : InHand(c)'
    BY DEF StoreInv, InHand
  <2>8. WatchInv'
    <3> SUFFICES ASSUME Dedicated, NEW c \in Clients PROVE Watches(c)'
      BY DEF WatchInv, Dedicated, RedisFixed
    <3>1. Watches(c) /\ connection[c] \in Connections /\ connection' = connection
      BY DEF StoreInv, WatchInv, Shapes, RedisFixed
    <3> QED
      BY <3>1, WatchesKept
  <2> QED
    BY <2>6, <2>7, <2>8, RedisKept DEF Shapes
<1> QED
  BY <1>1, CommandKept DEF RedisNext

-----------------------------------------------------------------------------

(* Every step keeps the invariant. *)
LEMMA NextCarried == StoreInv /\ [Next]_vars => StoreInv'
<1> SUFFICES ASSUME StoreInv, [Next]_vars PROVE StoreInv'
  OBVIOUS
<1>1. CASE adapter # "redis" /\ TableNext /\ UNCHANGED <<adapter, connection, redisVars>>
  BY <1>1, TableStep DEF TableFixed
<1>2. CASE adapter = "redis" /\ RedisNext /\ UNCHANGED <<adapter, connection, tableVars>>
  BY <1>2, RedisStep DEF RedisFixed
<1>3. CASE UNCHANGED vars
  BY <1>3 DEF vars, clientVars, tableVars, redisVars, StoreInv, Shapes, Agree, Known, Filed,
              InHand, OneRowPerKey, Present, RowsReachable, WatchInv, Dedicated, Watches
<1> QED
  BY <1>1, <1>2, <1>3 DEF Next

(* In every reachable state of every adapter rows are under their own keys, a
   saga id belongs to one correlation id, and a connection of one call watches
   only what that call is updating. *)
THEOREM StoresInvariant == Spec => []StoreInv
<1> QED
  BY InitStores, NextCarried, PTL DEF Spec

(* With a unique index on the correlation id there are never two instances of a
   saga, whatever lookups and inserts race. *)
THEOREM UniqueIndexHolds == Spec => []OneRowPerKey
<1>1. StoreInv => OneRowPerKey
  BY DEF StoreInv
<1> QED
  BY <1>1, StoresInvariant, PTL

(* Whatever Redis holds under a correlation key can be reached by its saga id,
   connections shared or not. *)
THEOREM IndexLeadsToRows == Spec => []RowsReachable
<1>1. StoreInv => RowsReachable
  BY DEF StoreInv
<1> QED
  BY <1>1, StoresInvariant, PTL

(* A call that stored its row and returned: which statement that was, and what it
   had found. *)
LEMMA StoredAndReturned ==
    ASSUME StoreInv, Next, NEW c \in Clients, Isolated, Answers(c, "ok"),
           pc[c] \in {"inserting", "insertExec", "updating", "exec"}
    PROVE  \/ /\ adapter # "redis" /\ pc[c] = "inserting"
              /\ table' = [table EXCEPT ![mine[c].sagaId] = mine[c]]
           \/ /\ adapter # "redis" /\ pc[c] = "updating"
              /\ Selects(mine[c].sagaId, held[c].version)
           \/ /\ adapter = "redis" /\ pc[c] \in {"insertExec", "exec"}
              /\ ExecWrites(c, mine[c])
<1>1. Shapes /\ (adapter = "redis" => Dedicated /\ Watches(c))
  BY DEF StoreInv, Isolated, WatchInv
<1>2. ASSUME NEW how \in Results \ {"ok"}, Return(c, how)
      PROVE  FALSE
  BY <1>1, <1>2, ReturnFacts DEF Answers, Shapes
<1>3. ASSUME NEW label, label # "idle", Goto(c, label)
      PROVE  FALSE
  BY <1>1, <1>3 DEF Goto, Answers, Shapes
<1>4. ASSUME NEW d \in Clients \ {c}, NEW label, Goto(d, label)
      PROVE  FALSE
  BY <1>1, <1>4 DEF Goto, Answers, Shapes
<1>5. ASSUME UNCHANGED pc
      PROVE  FALSE
  BY <1>5 DEF Answers
<1>6. ASSUME NEW d \in Clients, NEW corr, NEW found, Decide(d, corr, found)
      PROVE  FALSE
  <2>1. pc[d] = "idle" /\ \E label : Goto(d, label)
    BY <1>6 DEF Decide, StartSaga, ContinueSaga, RemoveSaga
  <2>2. d # c
    BY <2>1
  <2> QED
    BY <1>4, <2>1, <2>2
<1>7. CASE adapter # "redis" /\ TableNext
  <2>1. PICK d \in Clients : ClientStep(d)
    BY <1>5, <1>7 DEF TableNext, CleanUp, ListNext, clientVars
  <2>2. \/ InsertUnless(d, KeyTaken)
        \/ InsertUnless(d, IdTaken)
        \/ UpdateWhere(d, Selects)
        \/ \E rows \in {table, replica} : RereadIn(d, rows)
        \/ DeleteById(d)
        \/ PrismaDeleteFails(d)
    BY <1>6, <2>1 DEF ClientStep, Postgres, MySql, SqlServer, Prisma, Mongo, Sqlite, Dynamo,
         Calls, DynamoInsert, DynamoUpdate, DynamoGetById, DynamoGetByCorrelationId, LookupIn
  <2>3. \E label : Goto(d, label)
    BY <2>2 DEF InsertUnless, UpdateWhere, RereadIn, DeleteById, PrismaDeleteFails, Return
  <2>4. d = c
    BY <1>4, <2>3
  <2> QED
    BY <1>2, <1>3, <1>7, <2>2, <2>4
       DEF InsertUnless, UpdateWhere, RereadIn, DeleteById, PrismaDeleteFails, Results
<1>8. CASE adapter = "redis" /\ RedisNext
  <2>1. PICK d \in Clients :
           \/ InsertGet(d) \/ InsertExec(d)
           \/ UpdateGetIndex(d) \/ UpdateWatch(d) \/ UpdateCheck(d)
           \/ UpdateExec(d) \/ UpdateAborted(d) \/ UpdateUnwatch(d) \/ UpdateCatch(d)
           \/ DeleteGetIndex(d) \/ DeleteDel(d)
    BY <1>5, <1>6, <1>8 DEF RedisNext, GetByCorrelationId, ExpireCompleted, clientVars
  <2>2. \E label : Goto(d, label)
    BY <2>1 DEF InsertGet, InsertExec, UpdateGetIndex, UpdateWatch, UpdateCheck, UpdateExec,
         UpdateAborted, UpdateUnwatch, UpdateCatch, DeleteGetIndex, DeleteDel, Return,
         Proceed, Throw
  <2>3. d = c
    BY <1>4, <2>2
  <2>4. \/ InsertGet(c) \/ InsertExec(c) \/ UpdateGetIndex(c) \/ UpdateExec(c)
        \/ UpdateAborted(c)
    BY <2>1, <2>3 DEF UpdateWatch, UpdateCheck, UpdateUnwatch, UpdateCatch, DeleteGetIndex,
         DeleteDel
  <2>5. ~ (\E label \in {"insertExec", "watch"} : Proceed(c, label))
        /\ ~ Throw(c, "conflict", "catch")
    BY <1>3 DEF Proceed, Throw
  <2>6. ~ InsertGet(c) /\ ~ UpdateGetIndex(c) /\ ~ UpdateAborted(c)
    BY <1>2, <2>5 DEF InsertGet, UpdateGetIndex, UpdateAborted, Results
  <2>7. CASE InsertExec(c)
    BY <1>1, <1>8, <2>7 DEF InsertExec, ExecAborts, Aborted, Watches
  <2> QED
    BY <1>8, <2>4, <2>6, <2>7 DEF UpdateExec
<1> QED
  BY <1>7, <1>8 DEF Next

-----------------------------------------------------------------------------
(* What a client was told of its row stays true. *)

(* The row of the same saga, as the database holds it, and after the step. *)
Now(r)  == IF adapter = "redis" THEN kv[r.corr] ELSE table[r.sagaId]
Then(r) == IF adapter' = "redis" THEN kv'[r.corr] ELSE table'[r.sagaId]

(* A row that was read: it is still stored, or a later one is, or none. *)
Ahead(now, r) ==
    /\ now = NoRow \/ now = r \/ now.version > r.version
    /\ r.isCompleted => now = NoRow \/ now.isCompleted

Past(now, r) == now = NoRow \/ now.version > r.version

(* What a step may do to a row: let it be, remove it, or save its next version if
   it is not completed. *)
Onward(now, next) ==
    \/ next = now
    \/ next = NoRow
    \/ now # NoRow /\ ~ now.isCompleted /\ next # NoRow /\ next.version > now.version

Told(c) ==
    /\ held[c] # NoRow => Ahead(Now(held[c]), held[c])
    /\ result[c] = "conflict" => held[c] # NoRow /\ Past(Now(held[c]), held[c])
    /\ result[c] = "notFound" => held[c] # NoRow /\ Now(held[c]) = NoRow
    /\ pc[c] = "rereading" =>
          /\ held[c] # NoRow /\ mine[c].sagaId = held[c].sagaId
          /\ Past(Now(held[c]), held[c])
    /\ pc[c] \in {"check", "exec"} /\ dirty[connection[c]] => Past(Now(held[c]), held[c])
    /\ pc[c] \in Updating => mine[c].version = held[c].version + 1 /\ ~ held[c].isCompleted

(* An instance that is being inserted is nobody else's. *)
Unseen(c) ==
    pc[c] \in Inserting =>
        /\ Now(mine[c]) = NoRow
        /\ replica[mine[c].sagaId] = NoRow
        /\ mine[c].sagaId \notin sweep
        /\ \A d \in Clients :
              /\ held[d] # NoRow => held[d].sagaId # mine[c].sagaId
              /\ d # c /\ mine[d] # NoRow => mine[d].sagaId # mine[c].sagaId

(* DynamoDB's index shows what the table holds or has held, and so does the list a
   clean-up works from; what has been read and is gone from the index is gone. *)
Lagging ==
    /\ \A id \in SagaIds : replica[id] # NoRow => Ahead(table[id], replica[id])
    /\ \A id \in sweep : table[id] = NoRow \/ table[id].isCompleted
    /\ sweep \subseteq Drawn
    /\ adapter = "dynamodb" =>
          \A c \in Clients :
              held[c] # NoRow /\ replica[held[c].sagaId] = NoRow => table[held[c].sagaId] = NoRow

Truths == (\A c \in Clients : Told(c) /\ Unseen(c)) /\ Lagging

(* RejectionsAreTrue alone is not inductive: what is true when a client is told must
   still be true when others, with what they have read before, go on. *)
TruthInv == Isolated /\ OneInstance => Truths

(* Nobody has been told anything to begin with. *)
LEMMA InitTruths == Init => TruthInv
BY DEF Init, ClientInit, TableInit, RedisInit, TruthInv, Truths, Told, Unseen, Lagging,
       Updating, Inserting

(* The fields of a row. *)
LEMMA RowFields ==
    ASSUME NEW r \in Row
    PROVE  /\ r # NoRow /\ r.sagaId \in SagaIds /\ r.corr \in Correlations
           /\ r.version \in Nat /\ r.isCompleted \in BOOLEAN
BY NoRowAssumption, ClientsAssumption DEF Row

(* What was read stays read, what was passed stays passed, what was gone stays gone. *)
LEMMA OnwardKeeps ==
    ASSUME NEW r \in Row, NEW now \in Row \cup {NoRow}, NEW next \in Row \cup {NoRow},
           Onward(now, next)
    PROVE  /\ Ahead(now, r) => Ahead(next, r)
           /\ Past(now, r) => Past(next, r)
           /\ now = NoRow => next = NoRow
<1>1. r.version \in Nat /\ (now # NoRow => now.version \in Nat)
      /\ (next # NoRow => next.version \in Nat)
  BY RowFields
<1> QED
  BY <1>1 DEF Onward, Ahead, Past

(* A client that the step is not one of. *)
LEMMA ToldKept ==
    ASSUME Shapes, Shapes', NEW d \in Clients, Told(d), InHand(d),
           pc'[d] = pc[d], mine'[d] = mine[d], held'[d] = held[d], result'[d] = result[d],
           held[d] # NoRow => Onward(Now(held[d]), Then(held[d])),
           pc[d] \in {"check", "exec"} /\ dirty'[connection'[d]] =>
               dirty[connection[d]] \/ Past(Then(held[d]), held[d])
    PROVE  Told(d)'
<1>1. held[d] # NoRow =>
         /\ held[d] \in Row
         /\ Now(held[d]) \in Row \cup {NoRow} /\ Then(held[d]) \in Row \cup {NoRow}
  <2>1. held[d] # NoRow => held[d] \in Row
    BY DEF Shapes
  <2> QED
    BY <2>1, RowFields DEF Shapes, Now, Then
<1>2. held[d] # NoRow =>
         /\ Ahead(Now(held[d]), held[d]) => Ahead(Then(held[d]), held[d])
         /\ Past(Now(held[d]), held[d]) => Past(Then(held[d]), held[d])
         /\ Now(held[d]) = NoRow => Then(held[d]) = NoRow
  BY <1>1, OnwardKeeps
<1>3. Now(held[d])' = Then(held[d])
  BY DEF Now, Then
<1>4. pc[d] \in Updating => held[d] # NoRow
  BY RowFields DEF InHand
<1> QED
  BY <1>1, <1>2, <1>3, <1>4 DEF Told, Updating

(* The clients that a step is none of, when it takes rows only onward and touches
   no instance that one of them is inserting. *)
LEMMA Bystanders ==
    ASSUME StoreInv, StoreInv', Truths, NEW D \in SUBSET Clients,
           \A d \in D : /\ pc'[d] = pc[d] /\ mine'[d] = mine[d]
                        /\ held'[d] = held[d] /\ result'[d] = result[d],
           \A d \in D : held[d] # NoRow => Onward(Now(held[d]), Then(held[d])),
           \A d \in D : pc[d] \in {"check", "exec"} /\ dirty'[connection'[d]] =>
               dirty[connection[d]] \/ Past(Then(held[d]), held[d]),
           \A d \in D : pc[d] \in Inserting =>
               /\ Then(mine[d]) = NoRow
               /\ replica'[mine[d].sagaId] = NoRow /\ mine[d].sagaId \notin sweep'
               /\ \A e \in Clients \ D :
                     /\ held'[e] # NoRow => held'[e].sagaId # mine[d].sagaId
                     /\ mine'[e] # NoRow => mine'[e].sagaId # mine[d].sagaId
    PROVE  \A d \in D : Told(d)' /\ Unseen(d)'
<1> SUFFICES ASSUME NEW d \in D PROVE Told(d)' /\ Unseen(d)'
  OBVIOUS
<1>1. Shapes /\ Shapes' /\ InHand(d) /\ Told(d) /\ Unseen(d)
  BY DEF StoreInv, Truths
<1>2. Told(d)'
  BY <1>1, ToldKept
<1>3. ASSUME pc[d] \in Inserting
      PROVE  Unseen(d)'
  <2>1. Now(mine[d])' = NoRow
    BY <1>3 DEF Now, Then
  <2>2. ASSUME NEW e \in Clients
        PROVE  /\ held'[e] # NoRow => held'[e].sagaId # mine'[d].sagaId
               /\ e # d /\ mine'[e] # NoRow => mine'[e].sagaId # mine'[d].sagaId
    BY <1>1, <1>3 DEF Unseen
  <2> QED
    BY <1>3, <2>1, <2>2 DEF Unseen
<1> QED
  BY <1>2, <1>3 DEF Unseen

(* Every row somebody has in hand is known. *)
LEMMA HandsKnown ==
    ASSUME Shapes
    PROVE  \A d \in Clients :
              /\ held[d] # NoRow => held[d] \in Known /\ held[d] \in Row
              /\ mine[d] # NoRow => mine[d] \in Known /\ mine[d] \in Row
BY DEF Shapes, Known

(* A step of one client in which no row comes. *)
LEMMA OthersStay ==
    ASSUME StoreInv, StoreInv', Truths, NEW c \in Clients,
           \A d \in Clients \ {c} :
              /\ pc'[d] = pc[d] /\ mine'[d] = mine[d]
              /\ held'[d] = held[d] /\ result'[d] = result[d],
           mine'[c] \in {mine[c], NoRow}, held'[c] \in {held[c], NoRow},
           \A r \in Known : Then(r) \in {Now(r), NoRow},
           \A d \in Clients \ {c} : pc[d] \in {"check", "exec"} /\ dirty'[connection'[d]] =>
               dirty[connection[d]] \/ Past(Then(held[d]), held[d]),
           UNCHANGED <<replica, sweep>>,
           Told(c)', Unseen(c)', Lagging'
    PROVE  Truths'
<1>1. Shapes
  BY DEF StoreInv
<1> DEFINE D == Clients \ {c}
<1>2. \A d \in D : held[d] # NoRow => Onward(Now(held[d]), Then(held[d]))
  BY <1>1, HandsKnown DEF Onward
<1>3. \A d \in D : pc[d] \in Inserting => mine[d] # NoRow /\ mine[d] \in Known
  BY <1>1, HandsKnown, RowFields DEF StoreInv, InHand
<1>4. \A d \in D : pc[d] \in Inserting =>
         /\ Then(mine[d]) = NoRow
         /\ replica'[mine[d].sagaId] = NoRow /\ mine[d].sagaId \notin sweep'
         /\ \A e \in Clients \ D :
               /\ held'[e] # NoRow => held'[e].sagaId # mine[d].sagaId
               /\ mine'[e] # NoRow => mine'[e].sagaId # mine[d].sagaId
  BY <1>3 DEF Truths, Unseen
<1>5. \A d \in D : Told(d)' /\ Unseen(d)'
  <2> HIDE DEF D
  <2>1. D \in SUBSET Clients /\ \A d \in D : d \in Clients \ {c}
    BY DEF D
  <2> QED
    BY <1>2, <1>4, <2>1, Bystanders
<1> QED
  BY <1>5 DEF Truths

(* A client whose call has ended well, or been told that its key was taken. *)
LEMMA ToldNothing ==
    ASSUME Shapes, NEW c \in Clients, NEW how \in {"ok", "taken"}, Return(c, how)
    PROVE  Told(c)' /\ Unseen(c)'
<1>1. pc'[c] = "idle" /\ held'[c] = NoRow /\ result'[c] = how
  BY DEF Return, Goto, Shapes
<1> QED
  BY <1>1 DEF Told, Unseen, Updating, Inserting

(* A client updates only what it was told: a row of the version it read is the row
   it read. *)
LEMMA SameVersion ==
    ASSUME StoreInv, NEW c \in Clients, Told(c), pc[c] \in Updating,
           Now(held[c]) # NoRow, Now(held[c]).version = held[c].version
    PROVE  Now(held[c]) = held[c]
<1>1. held[c] \in Row /\ held[c] # NoRow
  BY RowFields DEF StoreInv, InHand
<1> QED
  BY <1>1, RowFields DEF Told, Ahead

(* A call that stores its row and returns. *)
LEMMA WritesTruth ==
    ASSUME StoreInv, StoreInv', Truths, NEW c \in Clients,
           pc[c] \in Inserting \cup Updating, Return(c, "ok"),
           \A r \in Known : Then(r) = IF r.sagaId = mine[c].sagaId THEN mine[c] ELSE Now(r),
           pc[c] \in Updating => Now(held[c]) = held[c],
           \A d \in Clients \ {c} : pc[d] \in {"check", "exec"} /\ dirty'[connection'[d]] =>
               dirty[connection[d]] \/ held[d].sagaId = mine[c].sagaId,
           UNCHANGED <<replica, sweep>>, Lagging'
    PROVE  Truths'
<1>1. Shapes /\ mine[c] \in Row /\ mine[c] # NoRow
  BY RowFields DEF StoreInv, InHand
<1>2. /\ held'[c] = NoRow /\ mine'[c] = NoRow
      /\ \A d \in Clients \ {c} :
            /\ pc'[d] = pc[d] /\ mine'[d] = mine[d]
            /\ held'[d] = held[d] /\ result'[d] = result[d]
  BY <1>1 DEF Return, Goto, Shapes
<1> DEFINE D == Clients \ {c}
<1>3. ASSUME NEW d \in D, pc[d] \in Inserting
      PROVE  /\ mine[d] # NoRow /\ mine[d] \in Known /\ mine[d].sagaId # mine[c].sagaId
             /\ Then(mine[d]) = NoRow
             /\ replica'[mine[d].sagaId] = NoRow /\ mine[d].sagaId \notin sweep'
  <2>1. mine[d] # NoRow /\ mine[d] \in Known
    BY <1>1, <1>3, HandsKnown, RowFields DEF StoreInv, InHand
  <2>2. mine[c].sagaId # mine[d].sagaId
    BY <1>1, <1>3 DEF Truths, Unseen
  <2> QED
    BY <1>3, <2>1, <2>2 DEF Truths, Unseen
<1>4. ASSUME NEW d \in D, held[d] # NoRow
      PROVE  /\ Onward(Now(held[d]), Then(held[d]))
             /\ held[d].sagaId = mine[c].sagaId => Past(Then(held[d]), held[d])
  <2>1. held[d] \in Known /\ held[d] \in Row
    BY <1>1, <1>4, HandsKnown
  <2>2. CASE pc[c] \in Inserting
    <3>1. held[d].sagaId # mine[c].sagaId
      BY <1>4, <2>2 DEF Truths, Unseen
    <3> QED
      BY <2>1, <3>1 DEF Onward
  <2>3. CASE pc[c] \in Updating
    <3>1. CASE held[d].sagaId # mine[c].sagaId
      BY <2>1, <3>1 DEF Onward
    <3>2. CASE held[d].sagaId = mine[c].sagaId
      <4>1. /\ held[c] \in Row /\ held[c] # NoRow /\ held[c] \in Known
            /\ mine[c].sagaId = held[c].sagaId
            /\ mine[c].version = held[c].version + 1 /\ ~ held[c].isCompleted
        BY <1>1, <2>3, HandsKnown, RowFields DEF StoreInv, InHand, Truths, Told
      <4>2. held[d].corr = held[c].corr
        BY <2>1, <3>2, <4>1 DEF StoreInv, Agree
      <4>3. Now(held[d]) = held[c] /\ Then(held[d]) = mine[c]
        BY <2>1, <2>3, <3>2, <4>1, <4>2 DEF Now
      <4>4. Ahead(held[c], held[d])
        BY <1>4, <4>3 DEF Truths, Told
      <4>5. held[c].version \in Nat /\ held[d].version \in Nat
        BY <2>1, <4>1, RowFields
      <4> QED
        BY <1>1, <4>1, <4>3, <4>4, <4>5 DEF Onward, Ahead, Past
    <3> QED
      BY <3>1, <3>2
  <2> QED
    BY <2>2, <2>3
<1>5. \A d \in D : pc[d] \in {"check", "exec"} /\ dirty'[connection'[d]] =>
         dirty[connection[d]] \/ Past(Then(held[d]), held[d])
  <2> SUFFICES ASSUME NEW d \in D, pc[d] \in {"check", "exec"}, dirty'[connection'[d]]
               PROVE  dirty[connection[d]] \/ Past(Then(held[d]), held[d])
    OBVIOUS
  <2>1. held[d] # NoRow
    BY RowFields DEF StoreInv, InHand, Updating
  <2> QED
    BY <1>4, <2>1
<1>6. \A d \in D : Told(d)' /\ Unseen(d)'
  <2>1. \A d \in D : pc[d] \in Inserting =>
           /\ Then(mine[d]) = NoRow
           /\ replica'[mine[d].sagaId] = NoRow /\ mine[d].sagaId \notin sweep'
           /\ \A e \in Clients \ D :
                 /\ held'[e] # NoRow => held'[e].sagaId # mine[d].sagaId
                 /\ mine'[e] # NoRow => mine'[e].sagaId # mine[d].sagaId
    BY <1>2, <1>3
  <2>2. \A d \in D : held[d] # NoRow => Onward(Now(held[d]), Then(held[d]))
    BY <1>4
  <2>3. D \in SUBSET Clients /\ \A d \in D : d \in Clients \ {c}
    OBVIOUS
  <2> HIDE DEF D
  <2> QED
    BY <1>2, <1>5, <2>1, <2>2, <2>3, Bystanders
<1>7. Told(c)' /\ Unseen(c)'
  BY <1>1, ToldNothing
<1> QED
  BY <1>6, <1>7 DEF Truths

(* The index and the clean-up's list go on lagging behind a table that moves on. *)
LEMMA LagsOn ==
    ASSUME StoreInv, StoreInv', Lagging, UNCHANGED <<adapter, replica>>,
           sweep' \subseteq sweep, Drawn \subseteq Drawn',
           \A id \in SagaIds : replica[id] # NoRow => Onward(table[id], table'[id]),
           \A id \in sweep : table'[id] \in {table[id], NoRow},
           adapter = "dynamodb" =>
               \A e \in Clients : held'[e] # NoRow /\ replica[held'[e].sagaId] = NoRow =>
                   held'[e] = held[e] /\ table'[held[e].sagaId] \in {table[held[e].sagaId], NoRow}
    PROVE  Lagging'
<1>1. ASSUME NEW id \in SagaIds, replica[id] # NoRow
      PROVE  Ahead(table'[id], replica[id])
  <2>1. replica[id] \in Row /\ table[id] \in Row \cup {NoRow} /\ table'[id] \in Row \cup {NoRow}
    BY <1>1 DEF StoreInv, Shapes
  <2>2. Ahead(table[id], replica[id]) /\ Onward(table[id], table'[id])
    BY <1>1 DEF Lagging
  <2> QED
    BY <2>1, <2>2, OnwardKeeps
<1>2. \A id \in sweep' : table'[id] = NoRow \/ table'[id].isCompleted
  BY DEF Lagging
<1>3. \A id \in SagaIds : replica'[id] # NoRow => Ahead(table[id], replica[id])'
  BY <1>1 DEF Ahead
<1>4. sweep' \subseteq Drawn'
  BY DEF Lagging
<1>5. adapter' = "dynamodb" =>
         \A e \in Clients :
            held'[e] # NoRow /\ replica'[held'[e].sagaId] = NoRow => table'[held'[e].sagaId] = NoRow
  BY DEF Lagging
<1> QED
  BY <1>2, <1>3, <1>4, <1>5 DEF Lagging

(* What a client has in hand after a lookup. *)
LEMMA DecideCases ==
    ASSUME Shapes, Agree, NEW c \in Clients, NEW corr \in Correlations,
           NEW found \in Row \cup {NoRow}, Decide(c, corr, found)
    PROVE  /\ result'[c] = "ok" /\ pc[c] = "idle"
           /\ \A d \in Clients \ {c} :
                 /\ pc'[d] = pc[d] /\ mine'[d] = mine[d]
                 /\ held'[d] = held[d] /\ result'[d] = result[d]
           /\ \/ /\ found = NoRow /\ pc'[c] = "inserting" /\ held'[c] = NoRow
                 /\ mine'[c] # NoRow /\ mine'[c].corr = corr
                 /\ mine'[c].sagaId \in SagaIds \ Drawn
                 /\ Drawn \subseteq Drawn'
              \/ /\ found \in Row /\ found # NoRow /\ pc'[c] = "updating" /\ held'[c] = found
                 /\ ~ found.isCompleted
                 /\ mine'[c] # NoRow /\ mine'[c].sagaId = found.sagaId
                 /\ mine'[c].version = found.version + 1
                 /\ mine'[c].created = found.created
                 /\ issued' = issued
              \/ /\ found \in Row /\ found # NoRow /\ pc'[c] = "deleting" /\ held'[c] = found
                 /\ mine'[c] = NoRow /\ issued' = issued
<1> USE DEF Shapes
<1>0. pc[c] = "idle" /\ result' = [result EXCEPT ![c] = "ok"]
  BY DEF Decide
<1>1. CASE found = NoRow /\ StartSaga(c, corr)
  <2>1. PICK id \in SagaIds \ Drawn, now \in Clock :
           /\ issued' = [issued EXCEPT ![id] = corr]
           /\ mine' = [mine EXCEPT ![c] =
                 [ sagaId |-> id, corr |-> corr, version |-> 0,
                   isCompleted |-> FALSE, created |-> now ]]
    BY <1>1 DEF StartSaga
  <2> DEFINE row == [ sagaId |-> id, corr |-> corr, version |-> 0,
                      isCompleted |-> FALSE, created |-> now ]
  <2>2. row \in Row /\ row.sagaId = id /\ row.corr = corr
    BY ClientsAssumption DEF Row
  <2>3. mine' = [mine EXCEPT ![c] = row]
    BY <2>1
  <2> HIDE DEF row
  <2>4. row # NoRow
    BY <2>2, RowFields
  <2>5. Drawn \subseteq Drawn'
    BY <2>1 DEF Drawn, Agree
  <2> QED
    BY <1>0, <1>1, <2>1, <2>2, <2>3, <2>4, <2>5 DEF StartSaga, Goto
<1>2. CASE found # NoRow /\ ContinueSaga(c, found)
  <2>1. PICK done \in BOOLEAN :
           mine' = [mine EXCEPT ![c] =
              [found EXCEPT !.version = @ + 1, !.isCompleted = done]]
    BY <1>2 DEF ContinueSaga
  <2> DEFINE next == [found EXCEPT !.version = @ + 1, !.isCompleted = done]
  <2>2. found \in Row /\ found.version < MaxVersion
    BY <1>2 DEF ContinueSaga
  <2>3. next \in Row /\ next.sagaId = found.sagaId /\ next.version = found.version + 1
        /\ next.created = found.created
    BY <2>2, NextVersion
  <2>4. mine' = [mine EXCEPT ![c] = next]
    BY <2>1
  <2> HIDE DEF next
  <2>5. next # NoRow
    BY <2>3, RowFields
  <2> QED
    BY <1>0, <1>2, <2>2, <2>3, <2>4, <2>5 DEF ContinueSaga, Goto
<1>3. CASE found # NoRow /\ RemoveSaga(c, found)
  BY <1>0, <1>3 DEF RemoveSaga, Goto
<1> QED
  BY <1>1, <1>2, <1>3 DEF Decide

(* A lookup, whatever it read: a row that is stored, or was a moment ago. *)
LEMMA LooksTruth ==
    ASSUME StoreInv, StoreInv', Truths, NEW c \in Clients, NEW corr \in Correlations,
           NEW found \in Row \cup {NoRow}, Decide(c, corr, found),
           UNCHANGED <<adapter, connection, table, kv, replica, sweep, dirty>>,
           adapter = "redis" /\ found = NoRow => kv[corr] = NoRow,
           found # NoRow =>
               /\ found \in Known /\ Ahead(Now(found), found)
               /\ adapter = "dynamodb" => replica[found.sagaId] # NoRow
               /\ \A d \in Clients : pc[d] \in Inserting => found.sagaId # mine[d].sagaId
    PROVE  Truths'
<1>1. Shapes /\ Agree
  BY DEF StoreInv
<1> USE <1>1, DecideCases
<1> DEFINE D == Clients \ {c}
<1>2. \A r \in Row : Then(r) = Now(r)
  BY DEF Then, Now
<1>3. \A d \in Clients : /\ held[d] # NoRow => held[d].sagaId \in Drawn
                         /\ mine[d] # NoRow => mine[d].sagaId \in Drawn
  BY HandsKnown, KnownDrawn
<1>4. \A d \in D : held[d] # NoRow => Onward(Now(held[d]), Then(held[d]))
  BY <1>2, HandsKnown DEF Onward
<1>5. ASSUME NEW d \in D, pc[d] \in Inserting
      PROVE  /\ Then(mine[d]) = NoRow
             /\ replica'[mine[d].sagaId] = NoRow /\ mine[d].sagaId \notin sweep'
             /\ held'[c] # NoRow => held'[c].sagaId # mine[d].sagaId
             /\ mine'[c] # NoRow => mine'[c].sagaId # mine[d].sagaId
  <2>1. mine[d] \in Row /\ mine[d] # NoRow
    BY <1>5, RowFields DEF StoreInv, InHand
  <2>2. Then(mine[d]) = NoRow /\ replica'[mine[d].sagaId] = NoRow /\ mine[d].sagaId \notin sweep'
    BY <1>2, <1>5, <2>1 DEF Truths, Unseen
  <2>3. mine[d].sagaId \in Drawn
    BY <1>3, <2>1
  <2> QED
    BY <1>5, <2>2, <2>3
<1>6. \A d \in D : Told(d)' /\ Unseen(d)'
  <2>1. \A d \in D : pc[d] \in Inserting =>
           /\ Then(mine[d]) = NoRow
           /\ replica'[mine[d].sagaId] = NoRow /\ mine[d].sagaId \notin sweep'
           /\ \A e \in Clients \ D :
                 /\ held'[e] # NoRow => held'[e].sagaId # mine[d].sagaId
                 /\ mine'[e] # NoRow => mine'[e].sagaId # mine[d].sagaId
    BY <1>5
  <2>2. D \in SUBSET Clients /\ \A d \in D : d \in Clients \ {c}
    OBVIOUS
  <2>3. \A d \in D : /\ pc'[d] = pc[d] /\ mine'[d] = mine[d]
                     /\ held'[d] = held[d] /\ result'[d] = result[d]
    OBVIOUS
  <2> HIDE DEF D
  <2> QED
    BY <1>4, <2>1, <2>2, <2>3, Bystanders
<1>7. Told(c)'
  <2>1. held'[c] # NoRow => held'[c] = found /\ found # NoRow
    OBVIOUS
  <2>2. held'[c] # NoRow => Ahead(Now(held[c]), held[c])'
    BY <2>1 DEF Ahead, Now
  <2>3. /\ result'[c] = "ok" /\ pc'[c] \notin {"rereading", "check", "exec"}
        /\ pc'[c] \in Updating => mine'[c].version = held'[c].version + 1 /\ ~ held'[c].isCompleted
    BY DEF Updating
  <2> QED
    BY <2>2, <2>3 DEF Told
<1>8. Unseen(c)'
  <2> SUFFICES ASSUME pc'[c] \in Inserting PROVE Unseen(c)'
    BY DEF Unseen
  <2>1. /\ found = NoRow /\ held'[c] = NoRow /\ mine'[c].corr = corr
        /\ mine'[c].sagaId \in SagaIds \ Drawn
    BY DEF Inserting
  <2>2. \A id \in SagaIds \ Drawn : table[id] = NoRow /\ replica[id] = NoRow /\ id \notin sweep
    <3> SUFFICES ASSUME NEW id \in SagaIds \ Drawn
                 PROVE  table[id] = NoRow /\ replica[id] = NoRow /\ id \notin sweep
      OBVIOUS
    <3>1. ASSUME NEW row \in {table[id], replica[id]}, row # NoRow
          PROVE  FALSE
      <4>1. row \in Known /\ row.sagaId = id
        BY <3>1 DEF StoreInv, Filed, Known, Shapes
      <4> QED
        BY <4>1, KnownDrawn
    <3> QED
      BY <3>1 DEF Truths, Lagging
  <2>3. Now(mine[c])' = NoRow
    BY <2>1, <2>2 DEF Now
  <2>4. \A d \in Clients :
           /\ held'[d] # NoRow => held'[d].sagaId # mine'[c].sagaId
           /\ d # c /\ mine'[d] # NoRow => mine'[d].sagaId # mine'[c].sagaId
    BY <1>3, <2>1
  <2> QED
    BY <2>1, <2>2, <2>3, <2>4 DEF Unseen
<1>9. Lagging'
  <2>1. \A id \in SagaIds : replica[id] # NoRow => Onward(table[id], table'[id])
    BY DEF Onward
  <2>2. \A id \in sweep : table'[id] \in {table[id], NoRow}
    OBVIOUS
  <2>3. Drawn \subseteq Drawn'
    BY SameDrawn
  <2>4. adapter = "dynamodb" =>
           \A e \in Clients : held'[e] # NoRow /\ replica[held'[e].sagaId] = NoRow =>
               held'[e] = held[e] /\ table'[held[e].sagaId] \in {table[held[e].sagaId], NoRow}
    OBVIOUS
  <2> QED
    BY <2>1, <2>2, <2>3, <2>4, LagsOn DEF Truths
<1> QED
  BY <1>6, <1>7, <1>8, <1>9 DEF Truths

(* In a table, rows are where their ids say. *)
LEMMA TableRows ==
    ASSUME adapter \in TableAdapters, TableFixed
    PROVE  \A r : Now(r) = table[r.sagaId] /\ Then(r) = table'[r.sagaId]
BY DEF Now, Then, TableFixed, TableAdapters, UniqueAdapters

(* A call that returns without having stored anything. *)
LEMMA EndTruth ==
    ASSUME StoreInv, StoreInv', Truths, adapter \in TableAdapters, TableFixed,
           UNCHANGED <<replica, sweep>>,
           NEW c \in Clients, NEW how \in Results, Return(c, how), RowsOnlyGo,
           Told(c)'
    PROVE  Truths'
<1>1. Shapes
  BY DEF StoreInv
<1> USE <1>1, ReturnFacts
<1>2. result' = [result EXCEPT ![c] = how] /\ pc'[c] = "idle" /\ mine'[c] = NoRow
  BY DEF Shapes
<1>3. \A d \in Clients \ {c} :
         /\ pc'[d] = pc[d] /\ mine'[d] = mine[d]
         /\ held'[d] = held[d] /\ result'[d] = result[d]
  BY <1>2 DEF Shapes
<1>4. \A r \in Known : Then(r) \in {Now(r), NoRow}
  BY TableRows DEF Known, Row, RowsOnlyGo
<1>5. Lagging'
  <2>1. \A id \in SagaIds : Onward(table[id], table'[id])
    BY DEF RowsOnlyGo, Onward
  <2>2. \A id \in sweep : table'[id] \in {table[id], NoRow}
    BY DEF Drawn, RowsOnlyGo, Truths, Lagging
  <2>3. \A e \in Clients : held'[e] # NoRow =>
           held'[e] = held[e] /\ table'[held[e].sagaId] \in {table[held[e].sagaId], NoRow}
    BY <1>3, HandsKnown, RowFields DEF RowsOnlyGo
  <2>4. UNCHANGED adapter
    BY DEF TableFixed
  <2> QED
    BY <2>1, <2>2, <2>3, <2>4, SameDrawn, LagsOn DEF Truths
<1>6. Unseen(c)'
  BY <1>2 DEF Unseen, Inserting
<1>7. UNCHANGED <<dirty, connection>>
  BY DEF TableFixed, redisVars
<1> QED
  BY <1>2, <1>3, <1>4, <1>5, <1>6, <1>7, OthersStay

(* A call that returns and has stored its row. *)
LEMMA StoredTruth ==
    ASSUME StoreInv, StoreInv', Truths, adapter \in TableAdapters, TableFixed,
           UNCHANGED <<replica, sweep>>,
           NEW c \in Clients, pc[c] \in {"inserting", "updating"}, Return(c, "ok"),
           table' = [table EXCEPT ![mine[c].sagaId] = mine[c]],
           pc[c] = "updating" => Selects(mine[c].sagaId, held[c].version)
    PROVE  Truths'
<1>1. Shapes /\ mine[c] \in Row /\ mine[c] # NoRow /\ mine[c].sagaId \in SagaIds
  BY RowFields DEF StoreInv, InHand, Inserting, Updating
<1>2. \A r \in Known : Then(r) = IF r.sagaId = mine[c].sagaId THEN mine[c] ELSE Now(r)
  BY <1>1, TableRows DEF Known, Row, Shapes
<1>3. ASSUME pc[c] = "updating"
      PROVE  /\ Now(held[c]) = held[c] /\ table[mine[c].sagaId] = held[c] /\ held[c] # NoRow
             /\ ~ held[c].isCompleted
             /\ mine[c].version > held[c].version
  <2>1. /\ mine[c].sagaId = held[c].sagaId /\ held[c] \in Row /\ held[c] # NoRow
        /\ Told(c) /\ Now(held[c]) = table[mine[c].sagaId]
    BY <1>3, TableRows, RowFields DEF StoreInv, InHand, Updating, Truths
  <2>2. Now(held[c]) = held[c]
    BY <1>3, <2>1, SameVersion DEF Selects, Updating
  <2> QED
    BY <1>3, <2>1, <2>2, RowFields DEF Told, Updating
<1>4. Lagging'
  <2>1. \A id \in SagaIds : replica[id] # NoRow => Onward(table[id], table'[id])
    <3>1. CASE pc[c] = "inserting"
      BY <1>1, <3>1 DEF Truths, Unseen, Inserting, Onward, Shapes
    <3>2. CASE pc[c] = "updating"
      BY <1>1, <1>3, <3>2 DEF Onward, Shapes
    <3> QED
      BY <3>1, <3>2
  <2>2. mine[c].sagaId \notin sweep
    BY <1>1, <1>3 DEF Truths, Unseen, Inserting, Lagging
  <2>3. \A id \in sweep : table'[id] \in {table[id], NoRow}
    BY <1>1, <2>2 DEF Shapes, Truths, Lagging
  <2>4. adapter = "dynamodb" =>
           \A e \in Clients : held'[e] # NoRow /\ replica[held'[e].sagaId] = NoRow =>
               held'[e] = held[e] /\ table'[held[e].sagaId] \in {table[held[e].sagaId], NoRow}
    <3> SUFFICES ASSUME adapter = "dynamodb", NEW e \in Clients,
                        held'[e] # NoRow, replica[held'[e].sagaId] = NoRow
                 PROVE  /\ held'[e] = held[e]
                        /\ table'[held[e].sagaId] \in {table[held[e].sagaId], NoRow}
      OBVIOUS
    <3>1. held'[e] = held[e] /\ held[e].sagaId \in SagaIds
      BY <1>1, ReturnFacts, HandsKnown, RowFields DEF Results
    <3>2. table[held[e].sagaId] = NoRow
      BY <3>1 DEF Truths, Lagging
    <3>3. held[e].sagaId # mine[c].sagaId
      BY <1>1, <1>3, <3>1, <3>2 DEF Truths, Unseen, Inserting
    <3> QED
      BY <1>1, <3>1, <3>3 DEF Shapes
  <2>5. UNCHANGED <<adapter, issued>>
    BY DEF TableFixed, Return
  <2> QED
    BY <2>1, <2>3, <2>4, <2>5, SameDrawn, LagsOn DEF Truths
<1>5. UNCHANGED <<dirty, connection>>
  BY DEF TableFixed, redisVars
<1> QED
  BY <1>2, <1>3, <1>4, <1>5, WritesTruth DEF Inserting, Updating

(* A call of a store with a table. *)
LEMMA CallTruth ==
    ASSUME StoreInv, StoreInv', Truths, adapter \in TableAdapters, TableFixed,
           NEW c \in Clients, ClientStep(c)
    PROVE  Truths'
<1>1. Shapes /\ Told(c) /\ UNCHANGED <<replica, sweep>>
  BY DEF StoreInv, Truths, ClientStep
<1>2. ASSUME NEW how \in {"ok", "taken"}, Return(c, how), RowsOnlyGo
      PROVE  Truths'
  BY <1>1, <1>2, ToldNothing, EndTruth DEF Results
<1>3. UNCHANGED table => RowsOnlyGo
  BY NoneGoes
<1>4. CASE InsertUnless(c, KeyTaken) \/ InsertUnless(c, IdTaken)
  <2>1. CASE Return(c, "taken") /\ UNCHANGED table
    BY <1>2, <1>3, <2>1
  <2>2. CASE Return(c, "ok") /\ table' = [table EXCEPT ![mine[c].sagaId] = mine[c]]
    BY <1>1, <1>4, <2>2, StoredTruth DEF InsertUnless
  <2> QED
    BY <1>4, <2>1, <2>2 DEF InsertUnless
<1>5. CASE UpdateWhere(c, Selects)
  <2>1. CASE Selects(mine[c].sagaId, held[c].version)
    BY <1>1, <1>5, <2>1, StoredTruth DEF UpdateWhere
  <2>2. CASE ~ Selects(mine[c].sagaId, held[c].version)
    <3>1. /\ pc' = [pc EXCEPT ![c] = "rereading"]
          /\ UNCHANGED <<table, held, mine, result, issued>>
      BY <1>5, <2>2 DEF UpdateWhere, Goto
    <3>2. /\ held[c] # NoRow /\ mine[c].sagaId = held[c].sagaId
          /\ Past(Now(held[c]), held[c])
      <4>1. pc[c] = "updating"
        BY <1>5 DEF UpdateWhere
      <4>2. held[c] \in Row /\ held[c] # NoRow /\ mine[c].sagaId = held[c].sagaId
        BY <4>1, RowFields DEF StoreInv, InHand, Updating
      <4>3. Now(held[c]) = table[held[c].sagaId] /\ Ahead(Now(held[c]), held[c])
        BY <1>1, <4>2, TableRows DEF Told
      <4> QED
        BY <2>2, <4>2, <4>3 DEF Selects, Ahead, Past
    <3>3. \A r \in Known : Then(r) = Now(r)
      BY <3>1, TableRows
    <3>4. Past(Now(held[c]), held[c])'
      <4>1. held[c] \in Known /\ held'[c] = held[c] /\ Now(held[c])' = Then(held[c])
        BY <1>1, <3>1, <3>2, HandsKnown DEF Now, Then
      <4> QED
        BY <3>2, <3>3, <4>1 DEF Past
    <3>5. Told(c)' /\ Unseen(c)'
      <4>1. Ahead(Now(held[c]), held[c])'
        <5>1. held[c] \in Known /\ held'[c] = held[c] /\ Now(held[c])' = Then(held[c])
          BY <1>1, <3>1, <3>2, HandsKnown DEF Now, Then
        <5> QED
          BY <1>1, <3>2, <3>3, <5>1 DEF Told, Ahead
      <4>2. result'[c] = result[c] /\ pc'[c] = "rereading"
        BY <1>1, <3>1 DEF Shapes
      <4>3. result'[c] = "notFound" => Now(held[c])' = NoRow
        <5>1. held[c] \in Known /\ Now(held[c])' = Then(held[c])
          BY <1>1, <3>1, <3>2, HandsKnown DEF Now, Then
        <5> QED
          BY <1>1, <3>3, <4>2, <5>1 DEF Told
      <4> QED
        BY <3>1, <3>2, <3>4, <4>1, <4>2, <4>3 DEF Told, Unseen, Updating, Inserting
    <3>6. Lagging'
      <4>1. UNCHANGED <<adapter, table, held, issued>>
        BY <3>1 DEF TableFixed
      <4> QED
        BY <1>1, <4>1, SameDrawn, LagsOn DEF Onward, Truths
    <3>7. UNCHANGED <<dirty, connection>>
      BY DEF TableFixed, redisVars
    <3> QED
      BY <1>1, <3>1, <3>3, <3>5, <3>6, <3>7, OthersStay DEF Shapes
  <2> QED
    BY <2>1, <2>2
<1>6. CASE \E rows \in {table, replica} :
              (rows = table \/ adapter = "dynamodb") /\ RereadIn(c, rows)
  <2>0. PICK rows \in {table, replica} :
           (rows = table \/ adapter = "dynamodb") /\ RereadIn(c, rows)
    BY <1>6
  <2>1. PICK how \in {"conflict", "notFound"} :
           /\ Return(c, how)
           /\ how = "notFound" => rows[mine[c].sagaId] = NoRow
    BY <2>0 DEF RereadIn
  <2>2. /\ held[c] # NoRow /\ held[c] \in Row /\ mine[c].sagaId = held[c].sagaId
        /\ Past(Now(held[c]), held[c]) /\ Ahead(Now(held[c]), held[c])
    BY <1>1, <2>0, HandsKnown DEF RereadIn, Told
  <2>3. Now(held[c]) = table[held[c].sagaId]
    BY TableRows
  <2>4. how = "notFound" => Now(held[c]) = NoRow
    BY <2>0, <2>1, <2>2, <2>3 DEF Truths, Lagging
  <2>5. held'[c] = held[c] /\ result'[c] = how /\ pc'[c] = "idle"
    BY <1>1, <2>1 DEF Return, Goto, Shapes
  <2>6. Now(held[c])' = Now(held[c])
    BY <2>0, <2>5 DEF Now, RereadIn, TableFixed, redisVars
  <2>7. Told(c)'
    BY <2>2, <2>4, <2>5, <2>6 DEF Told, Ahead, Past, Updating
  <2>8. RowsOnlyGo
    BY <1>3, <2>0 DEF RereadIn
  <2> QED
    BY <1>1, <2>1, <2>7, <2>8, EndTruth DEF Results
<1>7. CASE \E rows \in {table, replica} :
              /\ adapter = "dynamodb" => rows = replica
              /\ adapter # "dynamodb" => rows = table
              /\ LookupIn(c, rows)
  <2>0. PICK rows \in {table, replica} :
           /\ adapter = "dynamodb" => rows = replica
           /\ adapter # "dynamodb" => rows = table
           /\ LookupIn(c, rows)
    BY <1>7
  <2>1. PICK corr \in Correlations :
           \/ Decide(c, corr, NoRow)
           \/ \E id \in Present(rows) : Decide(c, corr, rows[id])
    BY <2>0 DEF LookupIn
  <2>2. /\ UNCHANGED <<adapter, connection, table, kv, replica, sweep, dirty>>
        /\ adapter # "redis"
    BY <1>1, <2>0 DEF LookupIn, TableFixed, redisVars, TableAdapters, UniqueAdapters
  <2>3. CASE Decide(c, corr, NoRow)
    BY <2>2, <2>3, LooksTruth
  <2>4. ASSUME NEW id \in Present(rows), Decide(c, corr, rows[id])
        PROVE  Truths'
    <3> DEFINE found == rows[id]
    <3>1. id \in SagaIds /\ found # NoRow /\ found \in Row /\ found.sagaId = id /\ found \in Known
      BY <1>1, <2>0, <2>4 DEF Present, Shapes, StoreInv, Filed, Known
    <3>2. Ahead(Now(found), found)
      BY <2>0, <3>1, TableRows DEF Ahead, Truths, Lagging
    <3>3. adapter = "dynamodb" => replica[found.sagaId] # NoRow
      BY <2>0, <3>1
    <3>4. \A d \in Clients : pc[d] \in Inserting => found.sagaId # mine[d].sagaId
      BY <2>0, <3>1, TableRows DEF Truths, Unseen
    <3>5. Decide(c, corr, found)
      BY <2>4
    <3> HIDE DEF found
    <3> QED
      BY <2>2, <3>1, <3>2, <3>3, <3>4, <3>5, LooksTruth
  <2> QED
    BY <2>1, <2>3, <2>4
<1>8. CASE DeleteById(c)
  <2>1. RowsOnlyGo
    BY <1>1, <1>8 DEF DeleteById, Shapes, RowsOnlyGo
  <2> QED
    BY <1>2, <1>8, <2>1 DEF DeleteById
<1>9. CASE PrismaDeleteFails(c)
  BY <1>2, <1>3, <1>9 DEF PrismaDeleteFails
<1> QED
  BY <1>4, <1>5, <1>6, <1>7, <1>8, <1>9, CallCases

(* What happens to a table besides calls. *)
LEMMA BackgroundTruth ==
    ASSUME StoreInv, StoreInv', Truths, adapter \in TableAdapters, TableFixed,
           UNCHANGED clientVars, RowsOnlyGo,
           \A id \in SagaIds : replica'[id] \in {replica[id], table[id]},
           \A id \in sweep' : id \in sweep \/ replica[id] # NoRow,
           Lagging'
    PROVE  Truths'
<1>1. Shapes
  BY DEF StoreInv
<1>2. \A d \in Clients : /\ pc'[d] = pc[d] /\ mine'[d] = mine[d]
                         /\ held'[d] = held[d] /\ result'[d] = result[d]
  BY DEF clientVars
<1>3. \A d \in Clients : held[d] # NoRow => Onward(Now(held[d]), Then(held[d]))
  <2> SUFFICES ASSUME NEW d \in Clients, held[d] # NoRow
               PROVE  Onward(Now(held[d]), Then(held[d]))
    OBVIOUS
  <2>1. held[d].sagaId \in SagaIds
    BY <1>1, HandsKnown, RowFields
  <2> QED
    BY <2>1, TableRows DEF RowsOnlyGo, Onward
<1>4. ASSUME NEW d \in Clients, pc[d] \in Inserting
      PROVE  /\ Then(mine[d]) = NoRow
             /\ replica'[mine[d].sagaId] = NoRow /\ mine[d].sagaId \notin sweep'
  <2>1. mine[d].sagaId \in SagaIds
    BY <1>4, RowFields DEF StoreInv, InHand
  <2>2. table[mine[d].sagaId] = NoRow /\ replica[mine[d].sagaId] = NoRow
        /\ mine[d].sagaId \notin sweep
    BY <1>4, TableRows DEF Truths, Unseen
  <2>3. table'[mine[d].sagaId] = NoRow
    BY <2>1, <2>2 DEF RowsOnlyGo
  <2> QED
    BY <2>1, <2>2, <2>3, TableRows
<1>5. UNCHANGED <<dirty, connection>>
  BY DEF TableFixed, redisVars
<1>6. \A d \in Clients : Told(d)' /\ Unseen(d)'
  <2> DEFINE D == Clients
  <2>1. D \in SUBSET Clients /\ Clients \ D = {}
    OBVIOUS
  <2>2. \A d \in D : pc[d] \in Inserting =>
           /\ Then(mine[d]) = NoRow
           /\ replica'[mine[d].sagaId] = NoRow /\ mine[d].sagaId \notin sweep'
           /\ \A e \in Clients \ D :
                 /\ held'[e] # NoRow => held'[e].sagaId # mine[d].sagaId
                 /\ mine'[e] # NoRow => mine'[e].sagaId # mine[d].sagaId
    BY <1>4
  <2> QED
    BY <1>2, <1>3, <1>5, <2>1, <2>2, Bystanders
<1> QED
  BY <1>6 DEF Truths

(* Whatever a store with a table does next. *)
LEMMA TableTruth ==
    ASSUME StoreInv, StoreInv', Truths, adapter # "redis", TableFixed, TableNext
    PROVE  Truths'
<1>1. adapter \in TableAdapters /\ Shapes /\ adapter' = adapter
  BY DEF StoreInv, TableFixed
<1>2. CASE \E c \in Clients : ClientStep(c)
  BY <1>1, <1>2, CallTruth
<1>3. ASSUME UNCHANGED <<replica, clientVars>>, RowsOnlyGo, sweep' \subseteq sweep
      PROVE  Truths'
  <2>1. Lagging'
    <3>1. \A id \in SagaIds : Onward(table[id], table'[id])
      BY <1>3 DEF RowsOnlyGo, Onward
    <3>2. \A id \in sweep : table'[id] \in {table[id], NoRow}
      BY <1>3 DEF Drawn, RowsOnlyGo, Truths, Lagging
    <3>3. \A e \in Clients : held'[e] # NoRow =>
             held'[e] = held[e] /\ table'[held[e].sagaId] \in {table[held[e].sagaId], NoRow}
      BY <1>1, <1>3, HandsKnown, RowFields DEF RowsOnlyGo, clientVars
    <3>4. UNCHANGED <<adapter, replica, issued>>
      BY <1>1, <1>3 DEF clientVars
    <3> QED
      BY <1>3, <3>1, <3>2, <3>3, <3>4, SameDrawn, LagsOn DEF Truths
  <2> QED
    BY <1>1, <1>3, <2>1, BackgroundTruth
<1>4. CASE CleanUp
  <2>0. UNCHANGED <<replica, clientVars>>
    BY <1>4 DEF CleanUp
  <2>1. CASE DeleteCompleted /\ UNCHANGED sweep
    <3>1. RowsOnlyGo
      BY <1>1, <2>1 DEF DeleteCompleted, RowsOnlyGo, Shapes
    <3> QED
      BY <1>3, <2>0, <2>1, <3>1
  <2>2. CASE \E id \in SagaIds : DynamoSweepDelete(id)
    <3>1. RowsOnlyGo /\ sweep' \subseteq sweep
      BY <1>1, <2>2 DEF DynamoSweepDelete, RowsOnlyGo, Shapes
    <3> QED
      BY <1>3, <2>0, <3>1
  <2>3. CASE DynamoSweep /\ UNCHANGED table
    <3>1. sweep' \in SUBSET {id \in Present(replica) : replica[id].isCompleted}
      BY <2>3 DEF DynamoSweep
    <3>2. ASSUME NEW id \in sweep'
          PROVE  /\ id \in Drawn /\ replica[id] # NoRow
                 /\ table[id] = NoRow \/ table[id].isCompleted
      <4>1. id \in SagaIds /\ replica[id] # NoRow /\ replica[id].isCompleted
        BY <3>1, <3>2 DEF Present
      <4>2. replica[id] \in Known /\ replica[id].sagaId = id
        BY <1>1, <4>1 DEF Shapes, Known, StoreInv, Filed
      <4> QED
        BY <4>1, <4>2, KnownDrawn DEF StoreInv, Truths, Lagging, Ahead
    <3>3. Lagging'
      <4>1. UNCHANGED <<adapter, table, replica, held, issued>>
        BY <1>1, <2>0, <2>3 DEF clientVars
      <4>2. \A id \in SagaIds : replica'[id] # NoRow => Ahead(table[id], replica[id])'
        BY <4>1 DEF Truths, Lagging, Ahead
      <4>3. \A id \in sweep' : table'[id] = NoRow \/ table'[id].isCompleted
        BY <3>2, <4>1
      <4>4. sweep' \subseteq Drawn'
        BY <3>2, <4>1, SameDrawn
      <4>5. adapter' = "dynamodb" =>
               \A c \in Clients :
                  held'[c] # NoRow /\ replica'[held'[c].sagaId] = NoRow =>
                      table'[held'[c].sagaId] = NoRow
        BY <4>1 DEF Truths, Lagging
      <4> QED
        BY <4>2, <4>3, <4>4, <4>5 DEF Lagging
    <3>4. RowsOnlyGo
      BY <2>3, NoneGoes
    <3> QED
      BY <1>1, <2>0, <3>2, <3>3, <3>4, BackgroundTruth
  <2> QED
    BY <1>4, <2>1, <2>2, <2>3
       DEF CleanUp, PostgresDeleteCompletedBefore, MySqlDeleteCompletedBefore,
           SqlServerDeleteCompletedBefore, PrismaDeleteCompletedBefore,
           MongoDeleteCompletedBefore
<1>5. CASE ListNext
  <2>1. UNCHANGED <<table, replica, sweep, clientVars>>
    BY <1>5 DEF ListNext
  <2>2. RowsOnlyGo
    BY <2>1, NoneGoes
  <2> QED
    BY <1>3, <2>1, <2>2
<1>6. CASE \E id \in SagaIds : Replicate(id) /\ UNCHANGED <<table, sweep, listing, clientVars>>
  <2>1. PICK id \in SagaIds : Replicate(id)
    BY <1>6
  <2>2. UNCHANGED <<table, sweep, clientVars>>
    BY <1>6
  <2>3. replica' = [replica EXCEPT ![id] = table[id]]
    BY <2>1 DEF Replicate
  <2>4. Lagging'
    <3>1. UNCHANGED <<adapter, table, sweep, held, issued>>
      BY <1>1, <2>2 DEF clientVars
    <3>2. \A i \in SagaIds : replica'[i] # NoRow => Ahead(table[i], replica[i])'
      <4> SUFFICES ASSUME NEW i \in SagaIds, replica'[i] # NoRow
                   PROVE  Ahead(table'[i], replica'[i])
        BY DEF Ahead
      <4>1. CASE i = id
        BY <1>1, <2>3, <3>1, <4>1 DEF Ahead, Shapes
      <4>2. CASE i # id
        <5>1. replica'[i] = replica[i] /\ table'[i] = table[i]
          BY <1>1, <2>3, <3>1, <4>2 DEF Shapes
        <5> QED
          BY <5>1 DEF Truths, Lagging, Ahead
      <4> QED
        BY <4>1, <4>2
    <3>3. adapter' = "dynamodb" =>
             \A c \in Clients :
                held'[c] # NoRow /\ replica'[held'[c].sagaId] = NoRow =>
                    table'[held'[c].sagaId] = NoRow
      <4>1. \A c \in Clients : held[c] # NoRow => held[c].sagaId \in SagaIds
        BY <1>1, HandsKnown, RowFields
      <4> QED
        BY <1>1, <2>3, <3>1, <4>1 DEF Truths, Lagging, Shapes
    <3> QED
      BY <3>1, <3>2, <3>3, SameDrawn DEF Truths, Lagging
  <2>5. RowsOnlyGo
    BY <2>2, NoneGoes
  <2>6. \A i \in SagaIds : replica'[i] \in {replica[i], table[i]}
    BY <1>1, <2>3 DEF Shapes
  <2> QED
    BY <1>1, <2>2, <2>4, <2>5, <2>6, BackgroundTruth
<1> QED
  BY <1>2, <1>4, <1>5, <1>6 DEF TableNext

(* In Redis, rows are under their correlation ids. *)
LEMMA RedisRows ==
    ASSUME adapter = "redis", RedisFixed
    PROVE  \A r : Now(r) = kv[r.corr] /\ Then(r) = kv'[r.corr]
BY DEF Now, Then, RedisFixed

(* Where a correlation id never has another instance, it tells instances apart. *)
LEMMA RedisOne ==
    ASSUME StoreInv, adapter = "redis", OneInstance
    PROVE  \A r, s \in Known : r.sagaId = s.sagaId <=> r.corr = s.corr
BY KnownDrawn DEF StoreInv, Agree, OneInstance

(* With a connection to itself, a client watches its own key and no other. *)
LEMMA WatchesOwn ==
    ASSUME StoreInv, adapter = "redis", Dedicated, NEW d \in Clients, pc[d] \in {"check", "exec"}
    PROVE  /\ watched[connection[d]] = {held[d].corr}
           /\ held[d] \in Row /\ held[d] # NoRow /\ held[d] \in Known
           /\ connection[d] \in Connections
<1>1. held[d] \in Row /\ held[d] # NoRow /\ mine[d].corr = held[d].corr
  BY RowFields DEF StoreInv, InHand, Updating
<1> QED
  BY <1>1, HandsKnown DEF StoreInv, WatchInv, Watches, Shapes

(* Redis has no index that lags and no clean-up that lists. *)
LEMMA RedisLags ==
    ASSUME Lagging, adapter = "redis", RedisFixed, Drawn \subseteq Drawn'
    PROVE  Lagging'
<1>1. UNCHANGED <<table, replica, sweep>> /\ adapter' # "dynamodb"
  BY DEF RedisFixed, tableVars
<1>2. \A id \in SagaIds : replica'[id] # NoRow => Ahead(table[id], replica[id])'
  BY <1>1 DEF Lagging, Ahead
<1> QED
  BY <1>1, <1>2 DEF Lagging

(* A client goes on with its call, or is about to be told what came of it. *)
LEMMA GoesTruth ==
    ASSUME StoreInv, StoreInv', Truths, adapter = "redis", Dedicated, RedisFixed,
           NEW c \in Clients, UNCHANGED <<kv, held, mine, issued>>,
           NEW label \in RedisLabels, pc' = [pc EXCEPT ![c] = label],
           NEW how \in Results, result' = [result EXCEPT ![c] = how],
           \A k \in Connections \ {connection[c]} : dirty'[k] = dirty[k],
           label \in Inserting => pc[c] \in Inserting,
           label \in Updating => pc[c] \in Updating,
           label \in {"check", "exec"} /\ dirty'[connection[c]] => Past(Now(held[c]), held[c]),
           how = "conflict" =>
               how = result[c] \/ (held[c] # NoRow /\ Past(Now(held[c]), held[c])),
           how = "notFound" =>
               how = result[c] \/ (held[c] # NoRow /\ Now(held[c]) = NoRow)
    PROVE  Truths'
<1>1. Shapes /\ Told(c) /\ Unseen(c) /\ adapter' = adapter /\ connection' = connection
  BY DEF StoreInv, Truths, RedisFixed
<1>2. pc'[c] = label /\ result'[c] = how
      /\ \A d \in Clients \ {c} : pc'[d] = pc[d] /\ result'[d] = result[d]
  BY <1>1 DEF Shapes
<1>3. \A r : Then(r) = Now(r)
  BY RedisRows
<1>4. /\ Ahead(Now(held[c]), held[c])' = Ahead(Now(held[c]), held[c])
      /\ Past(Now(held[c]), held[c])' = Past(Now(held[c]), held[c])
      /\ Now(held[c])' = Now(held[c]) /\ Now(mine[c])' = Now(mine[c])
  BY <1>1 DEF Ahead, Past, Now
<1>5. label # "rereading"
  BY DEF RedisLabels
<1>6. Told(c)'
  <2>1. held'[c] # NoRow => Ahead(Now(held[c]), held[c])'
    BY <1>1, <1>4 DEF Told
  <2>2. result'[c] = "conflict" => held'[c] # NoRow /\ Past(Now(held[c]), held[c])'
    BY <1>1, <1>2, <1>4 DEF Told
  <2>3. result'[c] = "notFound" => held'[c] # NoRow /\ Now(held[c])' = NoRow
    BY <1>1, <1>2, <1>4 DEF Told
  <2>4. pc'[c] \in {"check", "exec"} /\ dirty'[connection'[c]] => Past(Now(held[c]), held[c])'
    BY <1>1, <1>2, <1>4
  <2>5. pc'[c] \in Updating => mine'[c].version = held'[c].version + 1 /\ ~ held'[c].isCompleted
    BY <1>1, <1>2 DEF Told
  <2> QED
    BY <1>2, <1>5, <2>1, <2>2, <2>3, <2>4, <2>5 DEF Told
<1>7. Unseen(c)'
  BY <1>1, <1>2, <1>4 DEF Unseen, RedisFixed, tableVars
<1>8. Lagging'
  BY SameDrawn, RedisLags DEF Truths
<1>9. \A d \in Clients \ {c} : dirty'[connection'[d]] => dirty[connection[d]]
  BY <1>1 DEF Dedicated, Shapes
<1>10. UNCHANGED <<replica, sweep>>
  BY DEF RedisFixed, tableVars
<1> QED
  BY <1>2, <1>3, <1>6, <1>7, <1>8, <1>9, <1>10, OthersStay

(* A call returns and has taken at most its rows away. *)
LEMMA ReturnsTruth ==
    ASSUME StoreInv, StoreInv', Truths, adapter = "redis", RedisFixed,
           NEW c \in Clients, NEW how \in Results, Return(c, how),
           \A corr \in Correlations : kv'[corr] \in {kv[corr], NoRow},
           \A d \in Clients \ {c} : pc[d] \in {"check", "exec"} /\ dirty'[connection'[d]] =>
               dirty[connection[d]] \/ kv'[held[d].corr] = NoRow,
           how = "conflict" => held[c] # NoRow /\ Past(Now(held[c]), held[c]),
           how = "notFound" => held[c] # NoRow /\ Now(held[c]) = NoRow
    PROVE  Truths'
<1>1. Shapes /\ Told(c) /\ adapter' = adapter
  BY DEF StoreInv, Truths, RedisFixed
<1> USE <1>1, ReturnFacts
<1>2. /\ result'[c] = how /\ pc'[c] = "idle" /\ mine'[c] = NoRow
      /\ \A d \in Clients \ {c} : result'[d] = result[d]
  BY DEF Shapes
<1>3. held'[c] = IF how \in {"conflict", "notFound"} THEN held[c] ELSE NoRow
  BY DEF Return, Shapes
<1>4. \A r \in Row : Then(r) \in {Now(r), NoRow}
  BY RedisRows DEF Row
<1>5. Told(c)'
  <2>1. CASE how \in {"conflict", "notFound"}
    <3>1. held'[c] = held[c] /\ held[c] \in Row /\ Now(held[c])' = Then(held[c])
      BY <1>3, <2>1, HandsKnown DEF Now, Then
    <3>2. Then(held[c]) \in {Now(held[c]), NoRow} /\ Ahead(Now(held[c]), held[c])
      BY <1>4, <2>1, <3>1 DEF Told
    <3>3. Past(Now(held[c]), held[c]) => Past(Now(held[c]), held[c])'
      BY <3>1, <3>2 DEF Past
    <3>4. Ahead(Now(held[c]), held[c])'
      BY <3>1, <3>2 DEF Ahead
    <3> QED
      BY <1>2, <2>1, <3>1, <3>2, <3>3, <3>4 DEF Told, Updating
  <2>2. CASE how \notin {"conflict", "notFound"}
    BY <1>2, <1>3, <2>2 DEF Told, Updating
  <2> QED
    BY <2>1, <2>2
<1>6. Unseen(c)'
  BY <1>2 DEF Unseen, Inserting
<1>7. Lagging'
  BY SameDrawn, RedisLags DEF Truths
<1>8. \A d \in Clients \ {c} : pc[d] \in {"check", "exec"} /\ dirty'[connection'[d]] =>
         dirty[connection[d]] \/ Past(Then(held[d]), held[d])
  BY RedisRows DEF Past
<1>9. UNCHANGED <<replica, sweep>> /\ Known \subseteq Row
  BY DEF RedisFixed, tableVars, Known
<1> QED
  BY <1>2, <1>4, <1>5, <1>6, <1>7, <1>8, <1>9, OthersStay

(* A command of a client of Redis, with its connection to itself. *)
LEMMA CommandTruth ==
    ASSUME StoreInv, StoreInv', Truths, adapter = "redis", Dedicated, OneInstance, RedisFixed,
           NEW c \in Clients,
           \/ \E corr \in Correlations : GetByCorrelationId(c, corr)
           \/ InsertGet(c) \/ InsertExec(c)
           \/ UpdateGetIndex(c) \/ UpdateWatch(c) \/ UpdateCheck(c)
           \/ UpdateExec(c) \/ UpdateAborted(c) \/ UpdateUnwatch(c) \/ UpdateCatch(c)
           \/ DeleteGetIndex(c) \/ DeleteDel(c)
    PROVE  Truths'
<1>1. /\ Shapes /\ InHand(c) /\ Told(c) /\ connection' = connection /\ Watches(c)
      /\ result[c] \in Results /\ connection[c] \in Connections
  BY DEF StoreInv, Shapes, WatchInv, RedisFixed, Truths
<1>2. \A d \in Clients \ {c} : connection[d] \in Connections \ {connection[c]}
  BY <1>1 DEF Dedicated, Shapes
<1>3. pc[c] \in Updating =>
         /\ held[c] \in Row /\ held[c] # NoRow /\ mine[c].corr = held[c].corr
         /\ Now(held[c]) = kv[mine[c].corr] /\ Ahead(Now(held[c]), held[c])
  BY <1>1, RedisRows, RowFields DEF InHand, Told
<1>4. ASSUME NEW how \in Results, Return(c, how), UNCHANGED kv,
             \A k \in Connections \ {connection[c]} : dirty'[k] = dirty[k],
             how = "conflict" => held[c] # NoRow /\ Past(Now(held[c]), held[c]),
             how = "notFound" => held[c] # NoRow /\ Now(held[c]) = NoRow
      PROVE  Truths'
  BY <1>1, <1>2, <1>4, ReturnsTruth
<1>5. ASSUME NEW label \in RedisLabels, Proceed(c, label), UNCHANGED kv,
             \A k \in Connections \ {connection[c]} : dirty'[k] = dirty[k],
             label \in Inserting => pc[c] \in Inserting,
             label \in Updating => pc[c] \in Updating,
             label \in {"check", "exec"} /\ dirty'[connection[c]] => Past(Now(held[c]), held[c])
      PROVE  Truths'
  <2>1. /\ pc' = [pc EXCEPT ![c] = label] /\ UNCHANGED <<held, mine, issued>>
        /\ result' = [result EXCEPT ![c] = result[c]]
    BY <1>1, <1>5 DEF Proceed, Goto, Shapes
  <2>2. PICK how \in Results : how = result[c]
    BY <1>1
  <2>3. result' = [result EXCEPT ![c] = how]
    BY <2>1, <2>2
  <2> QED
    BY <1>1, <1>5, <2>1, <2>2, <2>3, GoesTruth
<1>6. ASSUME NEW how \in {"conflict", "notFound"}, NEW label \in {"unwatch", "catch"},
             Throw(c, how, label), UNCHANGED kv,
             \A k \in Connections \ {connection[c]} : dirty'[k] = dirty[k],
             how = "conflict" => held[c] # NoRow /\ Past(Now(held[c]), held[c]),
             how = "notFound" => held[c] # NoRow /\ Now(held[c]) = NoRow
      PROVE  Truths'
  <2>1. /\ pc' = [pc EXCEPT ![c] = label] /\ UNCHANGED <<held, mine, issued>>
        /\ result' = [result EXCEPT ![c] = how]
    BY <1>6 DEF Throw, Goto
  <2> QED
    BY <1>1, <1>6, <2>1, GoesTruth DEF RedisLabels, Inserting, Updating, Results
<1>7. Reads => UNCHANGED <<kv, dirty>>
  BY DEF Reads
<1>8. UNWATCH(c) => \A k \in Connections \ {connection[c]} : dirty'[k] = dirty[k]
  BY UnwatchFacts
<1>9. CASE \E corr \in Correlations : GetByCorrelationId(c, corr)
  <2>1. PICK corr \in Correlations : Decide(c, corr, kv[corr]) /\ Reads
    BY <1>9 DEF GetByCorrelationId
  <2>2. UNCHANGED <<adapter, connection, table, kv, replica, sweep, dirty>>
    BY <2>1 DEF Reads, RedisFixed, tableVars
  <2> DEFINE found == kv[corr]
  <2>3. found \in Row \cup {NoRow} /\ Decide(c, corr, found)
        /\ (adapter = "redis" /\ found = NoRow => kv[corr] = NoRow)
    BY <1>1, <2>1 DEF Shapes
  <2>4. ASSUME found # NoRow
        PROVE  /\ found \in Known /\ Ahead(Now(found), found)
               /\ adapter = "dynamodb" => replica[found.sagaId] # NoRow
               /\ \A d \in Clients : pc[d] \in Inserting => found.sagaId # mine[d].sagaId
    <3>1. found \in Known /\ found \in Row /\ found.corr = corr
      BY <1>1, <2>4 DEF Shapes, Known, StoreInv, Filed
    <3>2. Now(found) = found
      BY <3>1, RedisRows
    <3>3. ASSUME NEW d \in Clients, pc[d] \in Inserting, found.sagaId = mine[d].sagaId
          PROVE  FALSE
      <4>1. mine[d] \in Known /\ Now(mine[d]) = NoRow
        BY <1>1, <3>3, HandsKnown, RowFields DEF StoreInv, InHand, Truths, Unseen
      <4>2. mine[d].corr = corr
        BY <3>1, <3>3, <4>1 DEF StoreInv, Agree
      <4> QED
        BY <2>4, <4>1, <4>2, RedisRows
    <3> QED
      BY <3>1, <3>2, <3>3 DEF Ahead
  <2> HIDE DEF found
  <2> QED
    BY <2>2, <2>3, <2>4, LooksTruth
<1>10. ASSUME pc[c] \in {"insertExec", "exec"}, ExecWrites(c, mine[c]), Return(c, "ok")
       PROVE  Truths'
  <2>1. mine[c] \in Row /\ mine[c] # NoRow /\ mine[c] \in Known /\ mine[c].corr \in Correlations
    BY <1>1, <1>10, HandsKnown, RowFields DEF InHand, Inserting, Updating
  <2>2. kv' = [kv EXCEPT ![mine[c].corr] = mine[c]]
    BY <1>10 DEF ExecWrites
  <2>3. \A r \in Known : Then(r) = IF r.sagaId = mine[c].sagaId THEN mine[c] ELSE Now(r)
    <3>1. \A r \in Known : r.sagaId = mine[c].sagaId <=> r.corr = mine[c].corr
      BY <2>1, RedisOne
    <3>2. \A corr \in Correlations :
             kv'[corr] = IF corr = mine[c].corr THEN mine[c] ELSE kv[corr]
      BY <1>1, <2>1, <2>2 DEF Shapes
    <3>3. \A r \in Known : r.corr \in Correlations
      BY RowFields DEF Known
    <3> QED
      BY <3>1, <3>2, <3>3, RedisRows
  <2>4. pc[c] \in Updating => Now(held[c]) = held[c]
    <3> SUFFICES ASSUME pc[c] \in Updating PROVE Now(held[c]) = held[c]
      OBVIOUS
    <3>1. pc[c] = "exec" /\ ~ dirty[connection[c]]
      BY <1>10 DEF Updating, ExecWrites, Aborted
    <3>2. kv[mine[c].corr] # NoRow /\ kv[mine[c].corr].version = held[c].version
      BY <1>1, <3>1 DEF Watches
    <3> QED
      BY <1>1, <1>3, <3>2, SameVersion
  <2>5. \A d \in Clients \ {c} : pc[d] \in {"check", "exec"} /\ dirty'[connection'[d]] =>
           dirty[connection[d]] \/ held[d].sagaId = mine[c].sagaId
    <3> SUFFICES ASSUME NEW d \in Clients \ {c}, pc[d] \in {"check", "exec"},
                        dirty'[connection'[d]], ~ dirty[connection[d]]
                 PROVE  held[d].sagaId = mine[c].sagaId
      OBVIOUS
    <3>1. held[d] \in Known /\ watched[connection[d]] = {held[d].corr}
      BY WatchesOwn
    <3>2. dirty'[connection[d]] = Touched(mine[c].corr)[connection[d]]
      BY <1>1, <1>2, <1>10, TouchedFacts DEF ExecWrites
    <3>3. held[d].corr = mine[c].corr
      BY <1>1, <1>2, <3>1, <3>2 DEF Touched
    <3> QED
      BY <2>1, <3>1, <3>3, RedisOne
  <2>6. Lagging' /\ UNCHANGED <<replica, sweep>>
    <3>1. issued' = issued
      BY <1>10 DEF Return
    <3> QED
      BY <3>1, SameDrawn, RedisLags DEF Truths, RedisFixed, tableVars
  <2> QED
    BY <1>10, <2>3, <2>4, <2>5, <2>6, WritesTruth DEF Inserting, Updating
<1>11. CASE InsertGet(c)
  <2>1. pc[c] = "inserting" /\ Reads /\ (Return(c, "taken") \/ Proceed(c, "insertExec"))
    BY <1>11 DEF InsertGet
  <2> QED
    BY <1>4, <1>5, <1>7, <2>1 DEF Results, RedisLabels, Inserting, Updating
<1>12. CASE InsertExec(c)
  <2>1. CASE ExecWrites(c, mine[c])
    BY <1>10, <1>12, <2>1 DEF InsertExec
  <2>2. CASE ExecAborts(c)
    BY <1>4, <1>8, <1>12, <2>2 DEF InsertExec, ExecAborts, Results
  <2> QED
    BY <1>12, <2>1, <2>2 DEF InsertExec
<1>13. CASE UpdateGetIndex(c)
  <2>1. pc[c] = "updating" /\ pc[c] \in Updating /\ Reads /\ mine[c].sagaId = held[c].sagaId
    BY <1>1, <1>13 DEF UpdateGetIndex, InHand, Updating
  <2>2. CASE idIndex[mine[c].sagaId] = NoCorrelation
    <3>1. Return(c, "notFound")
      BY <1>13, <2>2 DEF UpdateGetIndex
    <3>2. Now(held[c]) = NoRow
      <4> SUFFICES ASSUME Now(held[c]) # NoRow PROVE FALSE
        OBVIOUS
      <4> DEFINE row == kv[held[c].corr]
      <4>1. row # NoRow /\ row \in Known /\ held[c] \in Known /\ held[c].corr \in Correlations
        BY <1>1, <1>3, <2>1, HandsKnown, RedisRows, RowFields DEF Shapes, Known
      <4>2. row.sagaId = held[c].sagaId
        BY <4>1, RedisOne DEF StoreInv, Filed
      <4>3. idIndex[row.sagaId] = held[c].corr
        BY <4>1 DEF StoreInv, RowsReachable
      <4> QED
        BY <2>1, <2>2, <4>1, <4>2, <4>3, ClientsAssumption
    <3> QED
      BY <1>3, <1>4, <1>7, <2>1, <3>1, <3>2 DEF Results
  <2>3. CASE idIndex[mine[c].sagaId] # NoCorrelation
    <3>1. Proceed(c, "watch")
      BY <1>13, <2>3 DEF UpdateGetIndex
    <3> QED
      BY <1>5, <1>7, <2>1, <3>1 DEF RedisLabels, Inserting
  <2> QED
    BY <2>2, <2>3
<1>14. CASE UpdateWatch(c)
  <2>1. pc[c] = "watch" /\ Proceed(c, "check") /\ UNCHANGED <<kv, dirty>>
    BY <1>14 DEF UpdateWatch, WATCH
  <2>2. ~ dirty'[connection[c]]
    BY <1>1, <2>1 DEF Watches
  <2> QED
    BY <1>5, <2>1, <2>2 DEF RedisLabels, Inserting, Updating
<1>15. CASE UpdateCheck(c)
  <2>1. pc[c] = "check" /\ Reads /\ pc[c] \in Updating
    BY <1>15 DEF UpdateCheck, Updating
  <2>2. CASE kv[mine[c].corr] = NoRow /\ Throw(c, "notFound", "unwatch")
    BY <1>3, <1>6, <1>7, <2>1, <2>2
  <2>3. CASE /\ kv[mine[c].corr] # NoRow /\ kv[mine[c].corr].version # held[c].version
             /\ Throw(c, "conflict", "unwatch")
    <3>1. Past(Now(held[c]), held[c])
      BY <1>3, <2>1, <2>3 DEF Ahead, Past
    <3> QED
      BY <1>3, <1>6, <1>7, <2>1, <2>3, <3>1
  <2>4. CASE Proceed(c, "exec")
    <3>1. dirty'[connection[c]] => Past(Now(held[c]), held[c])
      BY <1>1, <1>7, <2>1 DEF Told
    <3> QED
      BY <1>5, <1>7, <2>1, <2>4, <3>1 DEF RedisLabels, Inserting
  <2> QED
    BY <1>15, <2>2, <2>3, <2>4 DEF UpdateCheck
<1>16. CASE UpdateExec(c)
  BY <1>10, <1>16 DEF UpdateExec
<1>17. CASE UpdateAborted(c)
  <2>1. pc[c] = "exec" /\ pc[c] \in Updating /\ UNWATCH(c) /\ UNCHANGED kv /\ dirty[connection[c]]
    BY <1>17 DEF UpdateAborted, ExecAborts, Aborted, Updating
  <2>2. Past(Now(held[c]), held[c])
    BY <1>1, <2>1 DEF Told
  <2>3. CASE Proceed(c, "watch")
    BY <1>5, <1>8, <2>1, <2>3 DEF RedisLabels, Inserting
  <2>4. CASE Throw(c, "conflict", "catch")
    BY <1>3, <1>6, <1>8, <2>1, <2>2, <2>4
  <2> QED
    BY <1>17, <2>3, <2>4 DEF UpdateAborted
<1>18. CASE UpdateUnwatch(c)
  <2>1. UNWATCH(c) /\ Proceed(c, "catch") /\ UNCHANGED kv
    BY <1>18 DEF UpdateUnwatch
  <2> QED
    BY <1>5, <1>8, <2>1 DEF RedisLabels, Inserting, Updating
<1>19. CASE UpdateCatch(c)
  <2>1. UNWATCH(c) /\ Return(c, result[c]) /\ UNCHANGED kv
    BY <1>19 DEF UpdateCatch
  <2> QED
    BY <1>1, <1>4, <1>8, <2>1 DEF Told
<1>20. CASE DeleteGetIndex(c)
  <2>1. pc[c] = "deleting" /\ Reads /\ (Return(c, "ok") \/ Proceed(c, "del"))
    BY <1>20 DEF DeleteGetIndex
  <2> QED
    BY <1>4, <1>5, <1>7, <2>1 DEF Results, RedisLabels, Inserting, Updating
<1>21. CASE DeleteDel(c)
  <2>1. /\ pc[c] = "del" /\ Return(c, "ok")
        /\ kv' = [kv EXCEPT ![held[c].corr] = NoRow]
    BY <1>21 DEF DeleteDel
  <2>2. held[c] \in Known /\ held[c].corr \in Correlations
    BY <1>1, <2>1, HandsKnown, RowFields DEF InHand, Deleting
  <2>3. \A corr \in Correlations : kv'[corr] \in {kv[corr], NoRow}
    BY <1>1, <2>1 DEF Shapes
  <2>4. \A d \in Clients \ {c} : pc[d] \in {"check", "exec"} /\ dirty'[connection'[d]] =>
           dirty[connection[d]] \/ kv'[held[d].corr] = NoRow
    <3> SUFFICES ASSUME NEW d \in Clients \ {c}, pc[d] \in {"check", "exec"},
                        dirty'[connection'[d]], ~ dirty[connection[d]]
                 PROVE  kv'[held[d].corr] = NoRow
      OBVIOUS
    <3>1. watched[connection[d]] = {held[d].corr} /\ connection[d] \in Connections
      BY WatchesOwn
    <3>2. dirty' = Touched(held[c].corr)
      BY <1>21 DEF DeleteDel
    <3>3. held[d].corr = held[c].corr
      BY <1>1, <3>1, <3>2 DEF Touched
    <3> QED
      BY <1>1, <2>1, <2>2, <3>3 DEF Shapes
  <2> QED
    BY <2>1, <2>3, <2>4, ReturnsTruth DEF Results
<1> QED
  BY <1>9, <1>11, <1>12, <1>13, <1>14, <1>15, <1>16, <1>17, <1>18, <1>19, <1>20, <1>21

(* Whatever Redis or its clients do next, with a connection for each client. *)
LEMMA RedisTruth ==
    ASSUME StoreInv, StoreInv', Truths, adapter = "redis", Dedicated, OneInstance, RedisFixed,
           RedisNext
    PROVE  Truths'
<1>1. CASE \E corr \in Correlations : ExpireCompleted(corr)
  <2>1. PICK corr \in Correlations : ExpireCompleted(corr)
    BY <1>1
  <2>2. Shapes /\ Filed /\ RowsReachable
    BY DEF StoreInv
  <2>3. /\ kv[corr] \in Row /\ kv[corr] \in Known /\ kv[corr].corr = corr
        /\ kv' = [kv EXCEPT ![corr] = NoRow] /\ UNCHANGED clientVars
        /\ dirty' = Touched(corr) /\ connection' = connection
    BY <2>1, <2>2 DEF ExpireCompleted, Shapes, Known, Filed, RedisFixed
  <2>4. \A d \in Clients : held[d] # NoRow => Then(held[d]) \in {Now(held[d]), NoRow}
    <3>1. \A d \in Clients : held[d] # NoRow => held[d].corr \in Correlations
      BY <2>2, HandsKnown, RowFields
    <3> QED
      BY <2>2, <2>3, <3>1, RedisRows DEF Shapes
  <2>5. \A d \in Clients : /\ pc'[d] = pc[d] /\ mine'[d] = mine[d]
                           /\ held'[d] = held[d] /\ result'[d] = result[d]
    BY <2>3 DEF clientVars
  <2>6. \A d \in Clients : held[d] # NoRow => Onward(Now(held[d]), Then(held[d]))
    BY <2>4 DEF Onward
  <2>7. \A d \in Clients : pc[d] \in {"check", "exec"} /\ dirty'[connection'[d]] =>
           dirty[connection[d]] \/ Past(Then(held[d]), held[d])
    <3> SUFFICES ASSUME NEW d \in Clients, pc[d] \in {"check", "exec"},
                        dirty'[connection'[d]], ~ dirty[connection[d]]
                 PROVE  Past(Then(held[d]), held[d])
      OBVIOUS
    <3>1. watched[connection[d]] = {held[d].corr} /\ connection[d] \in Connections
      BY WatchesOwn
    <3>2. held[d].corr = corr
      BY <2>3, <3>1 DEF Touched
    <3> QED
      BY <2>2, <2>3, <3>2, RedisRows DEF Past, Shapes
  <2>8. ASSUME NEW d \in Clients, pc[d] \in Inserting
        PROVE  /\ Then(mine[d]) = NoRow
               /\ replica'[mine[d].sagaId] = NoRow /\ mine[d].sagaId \notin sweep'
    <3>1. mine[d] \in Row /\ Now(mine[d]) = NoRow
          /\ replica[mine[d].sagaId] = NoRow /\ mine[d].sagaId \notin sweep
      BY <2>8 DEF StoreInv, InHand, Truths, Unseen
    <3>2. mine[d].corr \in Correlations
      BY <3>1, RowFields
    <3>3. Then(mine[d]) = NoRow
      BY <2>2, <2>3, <3>1, <3>2, RedisRows DEF Shapes
    <3> QED
      BY <3>1, <3>3 DEF RedisFixed, tableVars
  <2>9. \A d \in Clients : Told(d)' /\ Unseen(d)'
    <3> DEFINE D == Clients
    <3>1. D \in SUBSET Clients /\ Clients \ D = {}
      OBVIOUS
    <3>2. \A d \in D : pc[d] \in Inserting =>
             /\ Then(mine[d]) = NoRow
             /\ replica'[mine[d].sagaId] = NoRow /\ mine[d].sagaId \notin sweep'
             /\ \A e \in Clients \ D :
                   /\ held'[e] # NoRow => held'[e].sagaId # mine[d].sagaId
                   /\ mine'[e] # NoRow => mine'[e].sagaId # mine[d].sagaId
      BY <2>8
    <3> QED
      BY <2>5, <2>6, <2>7, <3>1, <3>2, Bystanders
  <2>10. Lagging'
    BY <2>3, SameDrawn, RedisLags DEF clientVars, Truths
  <2> QED
    BY <2>9, <2>10 DEF Truths
<1> QED
  BY <1>1, CommandTruth DEF RedisNext

(* Every step keeps it. *)
LEMMA TruthCarried == StoreInv /\ TruthInv /\ [Next]_vars => TruthInv'
<1> SUFFICES ASSUME StoreInv, TruthInv, [Next]_vars PROVE TruthInv'
  OBVIOUS
<1>1. StoreInv'
  BY NextCarried
<1>2. CASE adapter # "redis" /\ TableNext /\ UNCHANGED <<adapter, connection, redisVars>>
  <2>1. Truths
    BY <1>2 DEF TruthInv, Isolated, OneInstance
  <2> QED
    BY <1>1, <1>2, <2>1, TableTruth DEF TableFixed, TruthInv
<1>3. CASE adapter = "redis" /\ RedisNext /\ UNCHANGED <<adapter, connection, tableVars>>
  <2> SUFFICES ASSUME Isolated', OneInstance' PROVE Truths'
    BY DEF TruthInv
  <2>1. \A id \in Drawn : id \in Drawn' /\ issued'[id] = issued[id]
    <3>1. \/ issued' = issued
          \/ \E id \in SagaIds \ Drawn, corr \in Correlations :
                issued' = [issued EXCEPT ![id] = corr]
      BY <1>3 DEF RedisNext, GetByCorrelationId, Decide, StartSaga, ContinueSaga, RemoveSaga,
           InsertGet, InsertExec, UpdateGetIndex, UpdateWatch, UpdateCheck, UpdateExec,
           UpdateAborted, UpdateUnwatch, UpdateCatch, DeleteGetIndex, DeleteDel,
           ExpireCompleted, clientVars, Return, Proceed, Throw
    <3> QED
      BY <3>1 DEF Drawn, StoreInv, Agree
  <2>2. Dedicated /\ OneInstance
    BY <1>3, <2>1 DEF Isolated, Dedicated, OneInstance
  <2>3. Truths
    BY <1>3, <2>2 DEF TruthInv, Isolated
  <2> QED
    BY <1>1, <1>3, <2>2, <2>3, RedisTruth DEF RedisFixed
<1>4. CASE UNCHANGED vars
  BY <1>4 DEF vars, Drawn, clientVars, tableVars, redisVars, TruthInv, Truths, Told, Unseen, Lagging,
              Ahead, Past, Now, Isolated, Dedicated, OneInstance
<1> QED
  BY <1>2, <1>3, <1>4 DEF Next

(* What clients have read, been told and are about to insert stays in step with what
   is stored, with a connection for each of Redis's clients and as long as Redis sees
   one instance of a correlation id. *)
THEOREM TruthsInvariant == Spec => [](StoreInv /\ TruthInv)
<1>1. Init => StoreInv /\ TruthInv
  BY InitStores, InitTruths
<1>2. StoreInv /\ TruthInv /\ [Next]_vars => (StoreInv /\ TruthInv)'
  BY NextCarried, TruthCarried
<1> QED
  BY <1>1, <1>2, PTL DEF Spec

(* A client that was refused an update was told the truth, and it stays true until
   it looks again: the row it had read is gone or replaced after a conflict, and
   there is no row after not found. *)
THEOREM RejectionsStayTrue == Spec => []RejectionsAreTrue
<1>1. StoreInv /\ TruthInv => RejectionsAreTrue
  <2> SUFFICES ASSUME StoreInv, TruthInv, NEW c \in Clients, Isolated, OneInstance
               PROVE  /\ result[c] = "conflict" => Stored(held[c].sagaId) # held[c]
                      /\ result[c] = "notFound" => Stored(held[c].sagaId) = NoRow
    BY DEF RejectionsAreTrue
  <2>1. Told(c) /\ Shapes
    BY DEF TruthInv, Truths, StoreInv
  <2> SUFFICES ASSUME held[c] # NoRow
               PROVE  /\ Past(Now(held[c]), held[c]) => Stored(held[c].sagaId) # held[c]
                      /\ Now(held[c]) = NoRow => Stored(held[c].sagaId) = NoRow
    BY <2>1 DEF Told
  <2>2. held[c] \in Row /\ held[c] \in Known /\ held[c].version \in Nat
    BY <2>1, HandsKnown, RowFields
  <2>3. CASE adapter # "redis"
    BY <2>2, <2>3 DEF Stored, Now, Past
  <2>4. CASE adapter = "redis"
    <3>1. Stored(held[c].sagaId) # NoRow => Now(held[c]) = Stored(held[c].sagaId)
      <4> DEFINE corr == idIndex[held[c].sagaId]
      <4> SUFFICES ASSUME Stored(held[c].sagaId) # NoRow
                   PROVE  Now(held[c]) = Stored(held[c].sagaId)
        OBVIOUS
      <4>1. /\ corr # NoCorrelation /\ kv[corr] # NoRow
            /\ kv[corr].sagaId = held[c].sagaId /\ Stored(held[c].sagaId) = kv[corr]
        BY <2>4 DEF Stored
      <4>2. corr \in Correlations
        BY <2>1, <2>2, <4>1, RowFields DEF Shapes
      <4>3. kv[corr] \in Known /\ kv[corr].corr = corr
        BY <2>1, <4>1, <4>2 DEF Shapes, Known, StoreInv, Filed
      <4>4. held[c].corr = corr
        BY <2>2, <4>1, <4>3 DEF StoreInv, Agree
      <4> QED
        BY <2>4, <4>1, <4>4 DEF Now
    <3> QED
      BY <2>2, <3>1 DEF Past
  <2> QED
    BY <2>3, <2>4
<1> QED
  BY <1>1, TruthsInvariant, PTL

(* A clean-up never takes a saga that is still running, whatever list it works from:
   only a delete of its own does. *)
THEOREM CleanupsSpareLive == Spec => CleanupSparesLive
<1> DEFINE Spared(id) ==
      LET row == Stored(id)
      IN row # NoRow /\ ~ row.isCompleted /\ Stored(id)' = NoRow /\ adapter # "redis" =>
            \E c \in Clients :
                pc[c] = "deleting" /\ pc'[c] = "idle" /\ held[c].sagaId = id
<1>1. ASSUME StoreInv, TruthInv, Next, NEW id \in SagaIds
      PROVE  Spared(id)
  <2> SUFFICES ASSUME adapter # "redis", table[id] # NoRow, ~ table[id].isCompleted,
                      table'[id] = NoRow
               PROVE  \E c \in Clients :
                          pc[c] = "deleting" /\ pc'[c] = "idle" /\ held[c].sagaId = id
    BY <1>1 DEF Stored, Next
  <2>1. TableNext /\ Shapes /\ Truths
    BY <1>1 DEF Next, StoreInv, TruthInv, Isolated, OneInstance
  <2>2. table' # table
    OBVIOUS
  <2>3. CASE \E c \in Clients : ClientStep(c)
    <3>1. PICK c \in Clients : ClientStep(c)
      BY <2>3
    <3>2. ASSUME pc[c] \in {"inserting", "updating"},
                 table' = [table EXCEPT ![mine[c].sagaId] = mine[c]]
          PROVE  FALSE
      <4>1. mine[c] # NoRow
        BY <1>1, <3>2, RowFields DEF StoreInv, InHand, Inserting, Updating
      <4> QED
        BY <2>1, <3>2, <4>1 DEF Shapes
    <3>3. DeleteById(c)
      BY <2>2, <3>1, <3>2, CallCases
         DEF InsertUnless, UpdateWhere, RereadIn, LookupIn, PrismaDeleteFails
    <3>4. pc[c] = "deleting" /\ pc'[c] = "idle"
      BY <2>1, <3>3 DEF DeleteById, Return, Goto, Shapes
    <3>5. held[c].sagaId = id
      BY <2>1, <3>3 DEF DeleteById, Shapes
    <3> QED
      BY <3>4, <3>5
  <2>4. CASE CleanUp
    <3>1. CASE DeleteCompleted
      BY <2>1, <3>1 DEF DeleteCompleted, Present
    <3>2. CASE \E i \in SagaIds : DynamoSweepDelete(i)
      BY <2>1, <3>2 DEF DynamoSweepDelete, Shapes, Truths, Lagging
    <3> QED
      BY <2>2, <2>4, <3>1, <3>2
         DEF CleanUp, PostgresDeleteCompletedBefore, MySqlDeleteCompletedBefore,
             SqlServerDeleteCompletedBefore, PrismaDeleteCompletedBefore,
             MongoDeleteCompletedBefore
  <2> QED
    BY <2>1, <2>2, <2>3, <2>4 DEF TableNext, ListNext
<1>2. ASSUME UNCHANGED vars, NEW id \in SagaIds
      PROVE  Spared(id)
  BY <1>2 DEF vars, tableVars, redisVars, Stored
<1>3. StoreInv /\ TruthInv /\ [Next]_vars => [\A id \in SagaIds : Spared(id)]_vars
  BY <1>1, <1>2
<1> QED
  BY <1>3, TruthsInvariant, PTL DEF Spec, CleanupSparesLive

(* No lost update: an update that returns has replaced a row of the version its
   caller had read, and that row itself where Redis sees one instance of a
   correlation id. *)
THEOREM NoLostUpdate == Spec => SwapsWhatWasRead
<1> DEFINE Swap(c) ==
      Isolated /\ pc[c] \in {"updating", "exec"} /\ Answers(c, "ok") =>
          LET old == IF adapter = "redis" THEN kv[held[c].corr] ELSE table[held[c].sagaId]
          IN /\ old # NoRow /\ old.version = held[c].version
             /\ OneInstance => old = held[c]
<1>1. ASSUME StoreInv, TruthInv, Next, NEW c \in Clients
      PROVE  Swap(c)
  <2> SUFFICES ASSUME Isolated, pc[c] \in {"updating", "exec"}, Answers(c, "ok")
               PROVE  /\ Now(held[c]) # NoRow /\ Now(held[c]).version = held[c].version
                      /\ OneInstance => Now(held[c]) = held[c]
    BY DEF Now
  <2>1. mine[c].sagaId = held[c].sagaId /\ mine[c].corr = held[c].corr /\ pc[c] \in Updating
    BY <1>1 DEF StoreInv, InHand, Updating
  <2>2. Now(held[c]) # NoRow /\ Now(held[c]).version = held[c].version
    <3>1. CASE adapter # "redis"
      BY <1>1, <2>1, <3>1, StoredAndReturned DEF Selects, Now
    <3>2. CASE adapter = "redis"
      <4>1. pc[c] = "exec" /\ ~ dirty[connection[c]]
        BY <1>1, <3>2, StoredAndReturned DEF ExecWrites, Aborted
      <4>2. Watches(c)
        BY <1>1, <3>2 DEF StoreInv, WatchInv, Isolated
      <4> QED
        BY <2>1, <3>2, <4>1, <4>2 DEF Watches, Now
    <3> QED
      BY <3>1, <3>2
  <2>3. OneInstance => Now(held[c]) = held[c]
    BY <1>1, <2>1, <2>2, SameVersion DEF TruthInv, Truths
  <2> QED
    BY <2>2, <2>3
<1>2. ASSUME UNCHANGED vars, NEW c \in Clients
      PROVE  Swap(c)
  BY <1>2 DEF vars, clientVars, Answers
<1>3. StoreInv /\ TruthInv /\ [Next]_vars => [\A c \in Clients : Swap(c)]_vars
  BY <1>1, <1>2
<1> QED
  BY <1>3, TruthsInvariant, PTL DEF Spec, SwapsWhatWasRead

(* An insert that returns has stored its row. *)
THEOREM NoLostInsert == Spec => InsertsAreStored
<1> DEFINE Kept(c) ==
      Isolated /\ pc[c] \in {"inserting", "insertExec"} /\ Answers(c, "ok") =>
          \E row \in {mine[c]} : Stored(row.sagaId)' = row
<1>1. ASSUME StoreInv, Next, NEW c \in Clients
      PROVE  Kept(c)
  <2> SUFFICES ASSUME Isolated, pc[c] \in {"inserting", "insertExec"}, Answers(c, "ok")
               PROVE  \E row \in {mine[c]} : Stored(row.sagaId)' = row
    OBVIOUS
  <2>1. Shapes /\ adapter' = adapter
    BY <1>1 DEF StoreInv, Next
  <2>2. mine[c] \in Row /\ mine[c] # NoRow /\ mine[c].sagaId \in SagaIds
        /\ mine[c].corr \in Correlations /\ mine[c].corr # NoCorrelation
    BY <1>1, NoRowAssumption, ClientsAssumption DEF StoreInv, InHand, Inserting, Row
  <2>3. CASE adapter # "redis"
    <3>1. table'[mine[c].sagaId] = mine[c]
      BY <1>1, <2>1, <2>2, <2>3, StoredAndReturned DEF Shapes
    <3> QED
      BY <2>1, <2>3, <3>1 DEF Stored
  <2>4. CASE adapter = "redis"
    <3>1. idIndex'[mine[c].sagaId] = mine[c].corr /\ kv'[mine[c].corr] = mine[c]
      BY <1>1, <2>1, <2>2, <2>4, StoredAndReturned DEF ExecWrites, Shapes
    <3> QED
      BY <2>1, <2>2, <2>4, <3>1 DEF Stored
  <2> QED
    BY <2>3, <2>4
<1>2. ASSUME UNCHANGED vars, NEW c \in Clients
      PROVE  Kept(c)
  BY <1>2 DEF vars, clientVars, Answers
<1>3. StoreInv /\ [Next]_vars => [\A c \in Clients : Kept(c)]_vars
  BY <1>1, <1>2
<1> QED
  BY <1>3, StoresInvariant, PTL DEF Spec, InsertsAreStored

-----------------------------------------------------------------------------
(* Every adapter is an atomic store. *)

(* What each label is a part of. *)
LEMMA CallLabels ==
    /\ CallOf("idle") = "idle"
    /\ \A label \in {"inserting", "insertExec"} : CallOf(label) = "inserting"
    /\ \A label \in {"updating", "rereading", "watch", "check", "exec", "unwatch", "catch"} :
          CallOf(label) = "updating"
    /\ \A label \in {"deleting", "del"} : CallOf(label) = "deleting"
BY DEF CallOf

(* A call that returns does so atomically. *)
LEMMA AtomicReturn ==
    ASSUME Shapes, NEW c \in Clients, NEW how \in Results, Return(c, how)
    PROVE  Atomic!Return(c, how)
<1>1. /\ pc' = [pc EXCEPT ![c] = "idle"] /\ result' = [result EXCEPT ![c] = how]
      /\ UNCHANGED issued
      /\ mine' = [mine EXCEPT ![c] = NoRow]
      /\ held' = [held EXCEPT ![c] = IF how \in {"conflict", "notFound"} THEN @ ELSE NoRow]
  BY DEF Return, Goto
<1>2. calls' = [calls EXCEPT ![c] = "idle"]
  BY <1>1, CallLabels DEF calls, Shapes
<1>3. answers' = [answers EXCEPT ![c] = how]
  BY <1>1 DEF answers, Shapes
<1> QED
  BY <1>1, <1>2, <1>3 DEF Atomic!Return, Atomic!Goto

(* So does a lookup, which begins the next call. *)
LEMMA AtomicDecide ==
    ASSUME Shapes, NEW c \in Clients, NEW corr, NEW found, Decide(c, corr, found)
    PROVE  Atomic!Decide(c, corr, found) /\ calls[c] = "idle" /\ calls'[c] # "idle"
<1>1. ASSUME NEW label \in {"inserting", "updating", "deleting"}, Goto(c, label)
      PROVE  Atomic!Goto(c, label) /\ calls'[c] # "idle"
  <2>1. pc' = [pc EXCEPT ![c] = label] /\ CallOf(label) = label
    BY <1>1, CallLabels DEF Goto
  <2>2. calls' = [calls EXCEPT ![c] = label]
    BY <2>1 DEF calls, Shapes
  <2> QED
    BY <2>2 DEF Atomic!Goto, calls
<1>2. pc[c] = "idle" /\ calls[c] = "idle"
  BY CallLabels DEF Decide, calls
<1>3. \E label \in {"inserting", "updating", "deleting"} : Goto(c, label)
  BY DEF Decide, StartSaga, ContinueSaga, RemoveSaga
<1>4. answers' = [answers EXCEPT ![c] = "ok"]
  BY <1>2, <1>3 DEF Decide, Goto, answers, Shapes
<1>5. StartSaga(c, corr) => Atomic!StartSaga(c, corr)
  BY <1>1 DEF StartSaga, Atomic!StartSaga, Drawn, Atomic!Drawn
<1>6. ContinueSaga(c, found) => Atomic!ContinueSaga(c, found)
  BY <1>1 DEF ContinueSaga, Atomic!ContinueSaga
<1>7. RemoveSaga(c, found) => Atomic!RemoveSaga(c, found)
  BY <1>1 DEF RemoveSaga, Atomic!RemoveSaga
<1> QED
  BY <1>1, <1>2, <1>3, <1>4, <1>5, <1>6, <1>7 DEF Decide, Atomic!Decide

(* A statement that is not the last of its call shows nowhere. *)
LEMMA AtomicWithin ==
    ASSUME Shapes, NEW c \in Clients, NEW label, Goto(c, label),
           CallOf(label) = calls[c], pc[c] # "idle", label # "idle",
           \A d \in Clients \ {c} : result'[d] = result[d]
    PROVE  UNCHANGED <<calls, answers>>
<1>1. pc' = [pc EXCEPT ![c] = label]
  BY DEF Goto
<1>2. calls' = calls
  BY <1>1 DEF calls, Shapes
<1>3. answers' = answers
  BY <1>1 DEF answers, Shapes
<1> QED
  BY <1>2, <1>3

(* Nor does one that changes neither the clients nor what is stored. *)
LEMMA AtomicStutter ==
    ASSUME UNCHANGED <<adapter, held, mine, issued, calls, answers, contents>>
    PROVE  UNCHANGED Atomic!vars
BY DEF Atomic!vars, Atomic!clientVars, adapterTraits

(* An adapter stays the adapter it is. *)
LEMMA AtomicTraits == adapter' = adapter => UNCHANGED adapterTraits
BY DEF adapterTraits

(* How each call may end, in terms of what is stored. *)
LEMMA AtomicLookup ==
    ASSUME Shapes, NEW c \in Clients, NEW corr \in Correlations, NEW found,
           Decide(c, corr, found), found \in Atomic!Finds(corr), contents' = contents
    PROVE  Atomic!Lookup(c)
BY AtomicDecide DEF Atomic!Lookup

(* An insert that returns, or is told that the row is there already. *)
LEMMA AtomicInsert ==
    ASSUME Shapes, NEW c \in Clients, CallOf(pc[c]) = "inserting",
           \/ /\ Atomic!Taken(mine[c])
              /\ Return(c, "taken") /\ contents' = contents
           \/ /\ ~ Atomic!Taken(mine[c])
              /\ Return(c, "ok")
              /\ contents' = [contents EXCEPT ![mine[c].sagaId] = mine[c]]
    PROVE  Atomic!Insert(c)
<1>1. calls[c] = "inserting"
  BY DEF calls
<1> QED
  BY <1>1, AtomicReturn DEF Atomic!Insert, Results

(* An update that returns, or says truly that it could not. *)
LEMMA AtomicUpdate ==
    ASSUME Shapes, NEW c \in Clients, CallOf(pc[c]) = "updating",
           \/ /\ contents[held[c].sagaId] = held[c]
              /\ Return(c, "ok")
              /\ contents' = [contents EXCEPT ![held[c].sagaId] = mine[c]]
           \/ /\ contents[held[c].sagaId] # held[c]
              /\ Return(c, "conflict") /\ contents' = contents
           \/ /\ contents[held[c].sagaId] = NoRow
              /\ Return(c, "notFound") /\ contents' = contents
    PROVE  Atomic!Update(c)
<1>1. calls[c] = "updating"
  BY DEF calls
<1> QED
  BY <1>1, AtomicReturn DEF Atomic!Update, Atomic!Live, Results

(* A delete that returns, done or forgiven. *)
LEMMA AtomicDelete ==
    ASSUME Shapes, NEW c \in Clients, CallOf(pc[c]) = "deleting", Return(c, "ok"),
           \/ contents' = [contents EXCEPT ![held[c].sagaId] = NoRow]
           \/ adapter = "prisma" /\ contents' = contents
    PROVE  Atomic!Delete(c)
<1>1. calls[c] = "deleting"
  BY DEF calls
<1> QED
  BY <1>1, AtomicReturn DEF Atomic!Delete, Results, adapterTraits

(* A clean-up: completed rows go, or none. *)
LEMMA AtomicCleanUp ==
    ASSUME UNCHANGED <<adapter, connection, clientVars>>,
           NEW old \in SUBSET SagaIds,
           \A id \in old : contents[id] # NoRow /\ contents[id].isCompleted,
           contents' = [id \in SagaIds |-> IF id \in old THEN NoRow ELSE contents[id]]
    PROVE  Atomic!CleanUp
<1>1. old \in SUBSET {id \in SagaIds : Atomic!Live(id) /\ contents[id].isCompleted}
  BY DEF Atomic!Live
<1>2. UNCHANGED Atomic!clientVars
  BY DEF Atomic!clientVars, clientVars, calls, answers
<1> QED
  BY <1>1, <1>2 DEF Atomic!CleanUp

(* The rows of a table are the contents of the store. *)
LEMMA TableContents ==
    ASSUME Shapes, adapter # "redis"
    PROVE  contents = table
BY DEF contents, Stored, Shapes

(* A lookup in a table finds an instance if there is one; DynamoDB's index shows it
   as it is or was. *)
LEMMA TableFinds ==
    ASSUME StoreInv, Truths, adapter # "redis", NEW c \in Clients,
           NEW rows \in {table, replica},
           adapter = "dynamodb" => rows = replica,
           adapter # "dynamodb" => rows = table,
           LookupIn(c, rows), contents' = contents
    PROVE  Atomic!Lookup(c)
<1>1. Shapes /\ contents = table
  BY TableContents DEF StoreInv
<1>2. PICK corr \in Correlations :
         LET matches == {id \in Present(rows) : rows[id].corr = corr}
         IN IF matches = {}
            THEN Decide(c, corr, NoRow)
            ELSE \E id \in matches : Decide(c, corr, rows[id])
  BY DEF LookupIn
<1> DEFINE matches == {id \in Present(rows) : rows[id].corr = corr}
<1>3. PICK found :
         /\ Decide(c, corr, found)
         /\ \/ found = NoRow /\ matches = {}
            \/ \E id \in matches : found = rows[id]
  BY <1>2
<1>4. CASE adapter # "dynamodb"
  <2>1. Atomic!Instances(corr) = {table[id] : id \in matches}
    BY <1>1, <1>4 DEF Atomic!Instances, Atomic!Live, Present
  <2>2. found \in Atomic!Finds(corr)
    BY <1>3, <1>4, <2>1 DEF Atomic!Finds, adapterTraits
  <2> QED
    BY <1>1, <1>3, <2>2, AtomicLookup
<1>5. CASE adapter = "dynamodb"
  <2>1. ASSUME NEW id \in matches, found = rows[id]
        PROVE  found \in Atomic!Former(corr)
    <3>1. id \in SagaIds /\ replica[id] # NoRow /\ found = replica[id] /\ found.corr = corr
      BY <1>5, <2>1 DEF Present
    <3>2. found \in Row /\ found \in Known /\ found.sagaId = id
      BY <1>1, <3>1 DEF Shapes, Known, StoreInv, Filed
    <3>3. issued[id] = corr
      BY <3>1, <3>2 DEF StoreInv, Agree
    <3>4. table[id] \in {NoRow, found} \/ table[id].version > found.version
      BY <3>1 DEF Truths, Lagging, Ahead
    <3> QED
      BY <1>1, <3>1, <3>2, <3>3, <3>4 DEF Atomic!Former, Row
  <2>2. found \in Atomic!Finds(corr)
    BY <1>3, <1>5, <2>1 DEF Atomic!Finds, adapterTraits
  <2> QED
    BY <1>1, <1>3, <2>2, AtomicLookup
<1> QED
  BY <1>4, <1>5

(* What an insert into a table runs into is what is stored. *)
LEMMA TableTakes ==
    ASSUME StoreInv, adapter # "redis", NEW row
    PROVE  Atomic!Taken(row) <=> IF adapter \in UniqueAdapters THEN KeyTaken(row) ELSE IdTaken(row)
<1>1. contents = table
  BY TableContents DEF StoreInv
<1>2. Atomic!Instances(row.corr) # {} <=> \E id \in Present(table) : table[id].corr = row.corr
  BY <1>1 DEF Atomic!Instances, Atomic!Live, Present
<1>3. adapterTraits.unique <=> adapter \in UniqueAdapters
  BY DEF adapterTraits
<1> QED
  BY <1>1, <1>2, <1>3 DEF Atomic!Taken, Atomic!Live, KeyTaken, IdTaken

(* A call of a store with a table. *)
LEMMA TableCallActs ==
    ASSUME StoreInv, Truths, adapter # "redis", TableFixed,
           NEW c \in Clients, ClientStep(c)
    PROVE  \/ Atomic!Lookup(c) \/ Atomic!Insert(c) \/ Atomic!Update(c) \/ Atomic!Delete(c)
           \/ UNCHANGED Atomic!vars
<1>1. /\ Shapes /\ Told(c) /\ contents = table /\ adapter' = adapter
      /\ adapter \in TableAdapters
  BY TableContents DEF StoreInv, Truths, TableFixed
<1>2. ASSUME UNCHANGED table
      PROVE  contents' = contents
  BY <1>1, <1>2 DEF contents, Stored
<1>3. ASSUME NEW id \in SagaIds, NEW row, table' = [table EXCEPT ![id] = row]
      PROVE  contents' = [contents EXCEPT ![id] = row]
  BY <1>1, <1>3 DEF contents, Stored, Shapes
<1>4. pc[c] = "updating" => /\ mine[c].sagaId = held[c].sagaId /\ held[c].sagaId \in SagaIds
                            /\ Now(held[c]) = table[held[c].sagaId]
  BY <1>1, RowFields, TableRows DEF StoreInv, InHand, Updating
<1>5. CASE \/ adapter \in UniqueAdapters /\ InsertUnless(c, KeyTaken)
           \/ adapter \notin UniqueAdapters /\ InsertUnless(c, IdTaken)
  <2>1. pc[c] = "inserting" /\ mine[c].sagaId \in SagaIds /\ CallOf(pc[c]) = "inserting"
    BY <1>5, RowFields, CallLabels DEF StoreInv, InHand, InsertUnless, Inserting
  <2>2. \/ Atomic!Taken(mine[c]) /\ Return(c, "taken") /\ UNCHANGED table
        \/ /\ ~ Atomic!Taken(mine[c]) /\ Return(c, "ok")
           /\ table' = [table EXCEPT ![mine[c].sagaId] = mine[c]]
    BY <1>5, TableTakes DEF InsertUnless
  <2> QED
    BY <1>1, <1>2, <1>3, <2>1, <2>2, AtomicInsert
<1>6. CASE UpdateWhere(c, Selects)
  <2>1. pc[c] = "updating" /\ CallOf(pc[c]) = "updating"
    BY <1>6, CallLabels DEF UpdateWhere
  <2>2. CASE Selects(mine[c].sagaId, held[c].version)
    <3>1. contents[held[c].sagaId] = held[c]
      BY <1>1, <1>4, <2>1, <2>2, SameVersion DEF Selects, Updating
    <3>2. Return(c, "ok") /\ contents' = [contents EXCEPT ![held[c].sagaId] = mine[c]]
      BY <1>3, <1>4, <1>6, <2>1, <2>2 DEF UpdateWhere
    <3> QED
      BY <1>1, <2>1, <3>1, <3>2, AtomicUpdate
  <2>3. CASE ~ Selects(mine[c].sagaId, held[c].version)
    <3>1. Goto(c, "rereading") /\ UNCHANGED <<table, held, mine, result, issued>>
      BY <1>6, <2>3 DEF UpdateWhere
    <3>2. CallOf("rereading") = calls[c]
      BY <2>1, CallLabels DEF calls
    <3>3. UNCHANGED <<calls, answers>>
      BY <1>1, <2>1, <3>1, <3>2, AtomicWithin
    <3> QED
      BY <1>1, <1>2, <3>1, <3>3, AtomicStutter
  <2> QED
    BY <2>2, <2>3
<1>7. CASE \E rows \in {table, replica} :
              (rows = table \/ adapter = "dynamodb") /\ RereadIn(c, rows)
  <2>1. PICK rows \in {table, replica} :
           (rows = table \/ adapter = "dynamodb") /\ RereadIn(c, rows)
    BY <1>7
  <2>2. pc[c] = "rereading" /\ CallOf(pc[c]) = "updating" /\ contents' = contents
    BY <1>2, <2>1, CallLabels DEF RereadIn
  <2>3. /\ held[c] # NoRow /\ held[c] \in Row /\ mine[c].sagaId = held[c].sagaId
        /\ Past(Now(held[c]), held[c]) /\ Now(held[c]) = table[held[c].sagaId]
    BY <1>1, <2>2, HandsKnown, TableRows DEF Told
  <2>4. contents[held[c].sagaId] # held[c]
    BY <1>1, <2>3, RowFields DEF Past
  <2>5. CASE rows[mine[c].sagaId] = NoRow
    <3>1. contents[held[c].sagaId] = NoRow
      BY <1>1, <2>1, <2>3, <2>5 DEF Truths, Lagging
    <3> QED
      BY <1>1, <2>1, <2>2, <2>5, <3>1, AtomicUpdate DEF RereadIn
  <2>6. CASE rows[mine[c].sagaId] # NoRow
    BY <1>1, <2>1, <2>2, <2>4, <2>6, AtomicUpdate DEF RereadIn
  <2> QED
    BY <2>5, <2>6
<1>8. CASE \E rows \in {table, replica} :
              /\ adapter = "dynamodb" => rows = replica
              /\ adapter # "dynamodb" => rows = table
              /\ LookupIn(c, rows)
  BY <1>2, <1>8, TableFinds DEF LookupIn
<1>9. CASE DeleteById(c)
  <2>1. pc[c] = "deleting" /\ CallOf(pc[c]) = "deleting" /\ held[c].sagaId \in SagaIds
    BY <1>9, CallLabels, RowFields DEF DeleteById, StoreInv, InHand, Deleting
  <2> QED
    BY <1>1, <1>3, <1>9, <2>1, AtomicDelete DEF DeleteById
<1>10. CASE adapter = "prisma" /\ PrismaDeleteFails(c)
  <2>1. pc[c] = "deleting" /\ CallOf(pc[c]) = "deleting"
    BY <1>10, CallLabels DEF PrismaDeleteFails
  <2> QED
    BY <1>1, <1>2, <1>10, <2>1, AtomicDelete DEF PrismaDeleteFails
<1> QED
  BY <1>5, <1>6, <1>7, <1>8, <1>9, <1>10, CallCases

(* Whatever a store with a table does next. *)
LEMMA TableActs ==
    ASSUME StoreInv, Truths, adapter # "redis", TableFixed, TableNext
    PROVE  \/ \E c \in Clients :
                 Atomic!Lookup(c) \/ Atomic!Insert(c) \/ Atomic!Update(c) \/ Atomic!Delete(c)
           \/ Atomic!CleanUp
           \/ UNCHANGED Atomic!vars
<1>1. Shapes /\ contents = table /\ UNCHANGED <<adapter, connection>>
  BY TableContents DEF StoreInv, TableFixed
<1>2. ASSUME UNCHANGED <<table, clientVars>>
      PROVE  UNCHANGED Atomic!vars
  <2>1. UNCHANGED <<held, mine, issued, calls, answers, contents>>
    BY <1>1, <1>2 DEF clientVars, calls, answers, contents, Stored
  <2> QED
    BY <1>1, <2>1, AtomicStutter
<1>3. CASE \E c \in Clients : ClientStep(c)
  BY <1>3, TableCallActs
<1>4. CASE CleanUp
  <2>1. UNCHANGED clientVars
    BY <1>4 DEF CleanUp
  <2>2. CASE DeleteCompleted
    <3>1. PICK old \in SUBSET SagaIds :
             /\ \A id \in old : table[id] # NoRow /\ table[id].isCompleted
             /\ table' = [id \in SagaIds |-> IF id \in old THEN NoRow ELSE table[id]]
      BY <2>2 DEF DeleteCompleted, Present
    <3>2. contents' = [id \in SagaIds |-> IF id \in old THEN NoRow ELSE contents[id]]
      BY <1>1, <3>1 DEF contents, Stored
    <3> QED
      BY <1>1, <2>1, <3>1, <3>2, AtomicCleanUp
  <2>3. CASE \E id \in SagaIds : DynamoSweepDelete(id)
    <3>1. PICK id \in SagaIds : id \in sweep /\ table' = [table EXCEPT ![id] = NoRow]
      BY <2>3 DEF DynamoSweepDelete
    <3>2. CASE table[id] = NoRow
      <4>1. table' = table
        BY <1>1, <3>1, <3>2 DEF Shapes
      <4> QED
        BY <1>2, <2>1, <4>1
    <3>3. CASE table[id] # NoRow
      <4> DEFINE old == {id}
      <4>1. \A i \in old : contents[i] # NoRow /\ contents[i].isCompleted
        BY <1>1, <3>1, <3>3 DEF Truths, Lagging
      <4>2. contents' = [i \in SagaIds |-> IF i \in old THEN NoRow ELSE contents[i]]
        BY <1>1, <3>1 DEF contents, Stored, Shapes
      <4>3. old \in SUBSET SagaIds
        OBVIOUS
      <4> HIDE DEF old
      <4> QED
        BY <1>1, <2>1, <4>1, <4>2, <4>3, AtomicCleanUp
    <3> QED
      BY <3>2, <3>3
  <2> QED
    BY <1>2, <1>4, <2>1, <2>2, <2>3
       DEF CleanUp, PostgresDeleteCompletedBefore, MySqlDeleteCompletedBefore,
           SqlServerDeleteCompletedBefore, PrismaDeleteCompletedBefore,
           MongoDeleteCompletedBefore
<1> QED
  BY <1>2, <1>3, <1>4 DEF TableNext, ListNext

(* In Redis, what an id leads to is what is under the key of its correlation id,
   where that has no other instance. *)
LEMMA RedisHas ==
    ASSUME StoreInv, adapter = "redis", OneInstance, NEW r \in Known
    PROVE  /\ r.sagaId \in SagaIds /\ r.corr \in Correlations
           /\ contents[r.sagaId] = kv[r.corr]
<1>1. Shapes /\ r \in Row /\ r.sagaId \in SagaIds /\ r.corr \in Correlations
  BY RowFields DEF StoreInv, Known
<1> DEFINE id == r.sagaId
<1>2. ASSUME NEW corr \in Correlations, kv[corr] # NoRow
      PROVE  kv[corr] \in Known /\ kv[corr].corr = corr /\ idIndex[kv[corr].sagaId] = corr
             /\ corr # NoCorrelation
  BY <1>1, <1>2, ClientsAssumption DEF Shapes, Known, StoreInv, Filed, RowsReachable
<1>3. CASE kv[r.corr] # NoRow
  BY <1>1, <1>2, <1>3, RedisOne DEF contents, Stored
<1>4. CASE kv[r.corr] = NoRow
  <2>1. idIndex[id] \in Correlations /\ kv[idIndex[id]] # NoRow /\ kv[idIndex[id]].sagaId = id
        => idIndex[id] = r.corr
    BY <1>1, <1>2, RedisOne
  <2> QED
    BY <1>1, <1>4, <2>1 DEF contents, Stored, Shapes
<1> QED
  BY <1>3, <1>4

(* A lookup by correlation id finds the instances with that id. *)
LEMMA RedisInstances ==
    ASSUME StoreInv, adapter = "redis", NEW corr \in Correlations
    PROVE  Atomic!Instances(corr) = IF kv[corr] = NoRow THEN {} ELSE {kv[corr]}
<1>1. Shapes
  BY DEF StoreInv
<1>2. ASSUME NEW id \in SagaIds, contents[id] # NoRow, contents[id].corr = corr
      PROVE  contents[id] = kv[corr]
  <2>1. idIndex[id] \in Correlations /\ contents[id] = kv[idIndex[id]]
    BY <1>1, <1>2 DEF contents, Stored, Shapes
  <2>2. kv[idIndex[id]].corr = idIndex[id]
    BY <1>2, <2>1 DEF StoreInv, Filed
  <2> QED
    BY <1>2, <2>1, <2>2
<1>3. ASSUME kv[corr] # NoRow
      PROVE  \E id \in SagaIds : contents[id] = kv[corr]
  <2>1. kv[corr] \in Row /\ idIndex[kv[corr].sagaId] = corr
    BY <1>1, <1>3 DEF Shapes, StoreInv, RowsReachable
  <2>2. contents[kv[corr].sagaId] = kv[corr] /\ kv[corr].sagaId \in SagaIds
    BY <1>3, <2>1, RowFields, ClientsAssumption DEF contents, Stored
  <2> QED
    BY <2>2
<1>4. kv[corr] # NoRow => kv[corr].corr = corr
  BY DEF StoreInv, Filed
<1> QED
  BY <1>2, <1>3, <1>4 DEF Atomic!Instances, Atomic!Live

(* A write to the two keys of an instance is no other's concern. *)
LEMMA RedisOthers ==
    ASSUME StoreInv, adapter = "redis", OneInstance, RedisFixed,
           NEW r \in Known, kv'[r.corr] \in {r, NoRow},
           \A corr \in Correlations \ {r.corr} : kv'[corr] = kv[corr],
           NEW id \in SagaIds \ {r.sagaId}, idIndex'[id] = idIndex[id]
    PROVE  Stored(id)' = Stored(id)
<1>1. Shapes /\ adapter' = "redis"
  BY DEF StoreInv, RedisFixed
<1>2. CASE idIndex[id] = r.corr
  <2>1. kv[r.corr] # NoRow => kv[r.corr].sagaId # id
    <3>1. r.corr \in Correlations
      BY RowFields DEF Known
    <3>2. kv[r.corr] # NoRow => kv[r.corr] \in Known /\ kv[r.corr].corr = r.corr
      BY <1>1, <3>1 DEF Shapes, Known, StoreInv, Filed
    <3> QED
      BY <3>2, RedisOne
  <2>2. Stored(id) = NoRow
    BY <1>2, <2>1 DEF Stored
  <2>3. Stored(id)' = NoRow
    BY <1>1, <1>2 DEF Stored
  <2> QED
    BY <2>2, <2>3
<1>3. CASE idIndex[id] # r.corr
  <2>1. idIndex[id] # NoCorrelation => kv'[idIndex[id]] = kv[idIndex[id]]
    BY <1>1, <1>3 DEF Shapes
  <2> QED
    BY <1>1, <2>1 DEF Stored
<1> QED
  BY <1>2, <1>3

(* EXEC stores its row and no other. *)
LEMMA RedisStores ==
    ASSUME StoreInv, adapter = "redis", OneInstance, RedisFixed,
           NEW r \in Known,
           kv' = [kv EXCEPT ![r.corr] = r],
           idIndex' = [idIndex EXCEPT ![r.sagaId] = r.corr]
    PROVE  contents' = [contents EXCEPT ![r.sagaId] = r]
<1>1. Shapes /\ r # NoRow /\ r.sagaId \in SagaIds /\ r.corr \in Correlations
      /\ r.corr # NoCorrelation /\ adapter' = "redis"
  BY RowFields, ClientsAssumption DEF StoreInv, Known, RedisFixed
<1>2. Stored(r.sagaId)' = r
  BY <1>1 DEF Stored, Shapes
<1>3. \A id \in SagaIds \ {r.sagaId} : Stored(id)' = Stored(id)
  BY <1>1, RedisOthers DEF Shapes
<1> QED
  BY <1>1, <1>2, <1>3 DEF contents

(* DEL of both keys removes one row and no other. *)
LEMMA RedisRemoves ==
    ASSUME StoreInv, adapter = "redis", OneInstance, RedisFixed,
           NEW r \in Known,
           kv' = [kv EXCEPT ![r.corr] = NoRow],
           idIndex' = [idIndex EXCEPT ![r.sagaId] = NoCorrelation]
    PROVE  contents' = [contents EXCEPT ![r.sagaId] = NoRow]
<1>1. Shapes /\ r.sagaId \in SagaIds /\ r.corr \in Correlations /\ adapter' = "redis"
  BY RowFields DEF StoreInv, Known, RedisFixed
<1>2. Stored(r.sagaId)' = NoRow
  BY <1>1 DEF Stored, Shapes
<1>3. \A id \in SagaIds \ {r.sagaId} : Stored(id)' = Stored(id)
  BY <1>1, RedisOthers DEF Shapes
<1> QED
  BY <1>1, <1>2, <1>3 DEF contents

(* An update is on its way out with one of the two refusals. *)
Refusals == {"conflict", "notFound"}

Thrown == \A c \in Clients : pc[c] \in {"unwatch", "catch"} => result[c] \in Refusals

(* Clients either stay where they are, or one goes on, and to the way out only with
   a refusal. *)
LEMMA ThrownCarried == StoreInv /\ Thrown /\ [Next]_vars => Thrown'
<1> SUFFICES ASSUME StoreInv, Thrown, [Next]_vars PROVE Thrown'
  OBVIOUS
<1>1. Shapes
  BY DEF StoreInv
<1>2. ASSUME UNCHANGED <<pc, result>>
      PROVE  Thrown'
  BY <1>2 DEF Thrown
<1>3. ASSUME NEW c \in Clients, NEW label, Goto(c, label),
             \A d \in Clients \ {c} : result'[d] = result[d],
             label \in {"unwatch", "catch"} => result'[c] \in Refusals
      PROVE  Thrown'
  BY <1>1, <1>3 DEF Thrown, Goto, Shapes
<1>4. ASSUME NEW c \in Clients, NEW how, Return(c, how)
      PROVE  Thrown'
  BY <1>1, <1>3, <1>4 DEF Return, Shapes
<1>5. ASSUME NEW c \in Clients, NEW label \in {"insertExec", "watch", "check", "exec", "del"},
             Proceed(c, label)
      PROVE  Thrown'
  BY <1>3, <1>5 DEF Proceed
<1>6. ASSUME NEW c \in Clients, NEW how \in Refusals, NEW label, Throw(c, how, label)
      PROVE  Thrown'
  BY <1>1, <1>3, <1>6 DEF Throw, Shapes
<1>7. ASSUME NEW c \in Clients, NEW corr, NEW found, Decide(c, corr, found)
      PROVE  Thrown'
  <2>1. \E label \in {"inserting", "updating", "deleting"} : Goto(c, label)
    BY <1>7 DEF Decide, StartSaga, ContinueSaga, RemoveSaga
  <2>2. \A d \in Clients \ {c} : result'[d] = result[d]
    BY <1>1, <1>7 DEF Decide, Shapes
  <2> QED
    BY <1>3, <2>1, <2>2
<1>8. CASE TableNext
  <2>1. ASSUME NEW c \in Clients, ClientStep(c)
        PROVE  Thrown'
    <3>1. CASE UpdateWhere(c, Selects)
      <4>1. CASE Return(c, "ok")
        BY <1>4, <4>1
      <4>2. CASE Goto(c, "rereading") /\ result' = result
        BY <1>3, <4>2
      <4> QED
        BY <3>1, <4>1, <4>2 DEF UpdateWhere
    <3>2. ASSUME NEW rows, LookupIn(c, rows)
          PROVE  Thrown'
      BY <1>7, <3>2 DEF LookupIn
    <3> QED
      BY <1>4, <2>1, <3>1, <3>2, CallCases
         DEF InsertUnless, RereadIn, DeleteById, PrismaDeleteFails
  <2> QED
    BY <1>2, <1>8, <2>1 DEF TableNext, CleanUp, ListNext, clientVars
<1>9. CASE RedisNext
  <2>1. ASSUME NEW c \in Clients, UpdateUnwatch(c)
        PROVE  Thrown'
    BY <1>1, <1>3, <2>1 DEF UpdateUnwatch, Proceed, Thrown
  <2>2. ASSUME NEW c \in Clients, UpdateCheck(c)
        PROVE  Thrown'
    BY <1>5, <1>6, <2>2 DEF UpdateCheck, Refusals
  <2>3. ASSUME NEW c \in Clients, UpdateAborted(c)
        PROVE  Thrown'
    BY <1>5, <1>6, <2>3 DEF UpdateAborted, Refusals
  <2>4. ASSUME NEW c \in Clients,
               \/ InsertGet(c) \/ InsertExec(c) \/ UpdateGetIndex(c) \/ UpdateWatch(c)
               \/ UpdateExec(c) \/ UpdateCatch(c) \/ DeleteGetIndex(c) \/ DeleteDel(c)
        PROVE  Thrown'
    BY <1>4, <1>5, <2>4 DEF InsertGet, InsertExec, UpdateGetIndex, UpdateWatch, UpdateExec,
         UpdateCatch, DeleteGetIndex, DeleteDel
  <2> QED
    BY <1>2, <1>7, <1>9, <2>1, <2>2, <2>3, <2>4
       DEF RedisNext, GetByCorrelationId, ExpireCompleted, clientVars
<1>10. CASE UNCHANGED vars
  BY <1>2, <1>10 DEF vars, clientVars
<1> QED
  BY <1>8, <1>9, <1>10 DEF Next

(* A command of a client with a connection to itself, unless it is the last of its
   call, shows nowhere; the last one is the call. *)
LEMMA RedisCallActs ==
    ASSUME StoreInv, Truths, Thrown, adapter = "redis", Dedicated, OneInstance, RedisFixed,
           NEW c \in Clients,
           \/ \E corr \in Correlations : GetByCorrelationId(c, corr)
           \/ InsertGet(c) \/ InsertExec(c)
           \/ UpdateGetIndex(c) \/ UpdateWatch(c) \/ UpdateCheck(c)
           \/ UpdateExec(c) \/ UpdateAborted(c) \/ UpdateUnwatch(c) \/ UpdateCatch(c)
           \/ DeleteGetIndex(c) \/ DeleteDel(c)
    PROVE  \/ Atomic!Lookup(c) \/ Atomic!Insert(c) \/ Atomic!Update(c) \/ Atomic!Delete(c)
           \/ UNCHANGED Atomic!vars
<1>1. /\ Shapes /\ InHand(c) /\ Told(c) /\ Unseen(c) /\ Watches(c) /\ adapter' = "redis"
  BY DEF StoreInv, WatchInv, RedisFixed, Truths
<1>2. ASSUME UNCHANGED <<kv, idIndex>>
      PROVE  contents' = contents
  BY <1>1, <1>2 DEF contents, Stored
<1>3. pc[c] \in Inserting => mine[c] \in Known
  BY <1>1, HandsKnown, RowFields DEF InHand
<1>4. pc[c] \in Updating \cup Deleting => held[c] \in Known
  BY <1>1, HandsKnown, RowFields DEF InHand
<1>5. pc[c] \in Updating =>
         /\ mine[c] \in Known
         /\ mine[c].sagaId = held[c].sagaId /\ mine[c].corr = held[c].corr
  BY <1>1, HandsKnown, RowFields DEF InHand
<1>6. ASSUME NEW label, Goto(c, label), CallOf(label) = CallOf(pc[c]), label # "idle",
             pc[c] # "idle", UNCHANGED <<kv, idIndex, held, mine, issued>>,
             \A d \in Clients \ {c} : result'[d] = result[d]
      PROVE  UNCHANGED Atomic!vars
  <2>1. CallOf(label) = calls[c]
    BY <1>6 DEF calls
  <2>2. UNCHANGED <<calls, answers>>
    BY <1>1, <1>6, <2>1, AtomicWithin
  <2> QED
    BY <1>1, <1>2, <1>6, <2>2, AtomicStutter
<1>7. ASSUME NEW label, Proceed(c, label), CallOf(label) = CallOf(pc[c]), label # "idle",
             pc[c] # "idle", UNCHANGED <<kv, idIndex>>
      PROVE  UNCHANGED Atomic!vars
  BY <1>6, <1>7 DEF Proceed
<1>8. ASSUME NEW label, NEW how, Throw(c, how, label), CallOf(label) = CallOf(pc[c]),
             label # "idle", pc[c] # "idle", UNCHANGED <<kv, idIndex>>
      PROVE  UNCHANGED Atomic!vars
  <2>1. \A d \in Clients \ {c} : result'[d] = result[d]
    BY <1>1, <1>8 DEF Throw, Shapes
  <2> QED
    BY <1>6, <1>8, <2>1 DEF Throw
<1>9. ASSUME NEW corr \in Correlations, GetByCorrelationId(c, corr)
      PROVE  Atomic!Lookup(c)
  <2>1. kv[corr] \in Atomic!Finds(corr)
    BY <1>1, RedisInstances DEF Atomic!Finds, adapterTraits
  <2> QED
    BY <1>1, <1>2, <1>9, <2>1, AtomicLookup DEF GetByCorrelationId, Reads
<1>10. pc[c] \in Inserting =>
         /\ mine[c].corr \in Correlations /\ contents[mine[c].sagaId] = kv[mine[c].corr]
         /\ Atomic!Taken(mine[c]) <=> kv[mine[c].corr] # NoRow
  <2> SUFFICES ASSUME pc[c] \in Inserting
               PROVE  /\ mine[c].corr \in Correlations
                      /\ contents[mine[c].sagaId] = kv[mine[c].corr]
                      /\ Atomic!Taken(mine[c]) <=> kv[mine[c].corr] # NoRow
    OBVIOUS
  <2>1. mine[c].corr \in Correlations /\ contents[mine[c].sagaId] = kv[mine[c].corr]
    BY <1>3, RedisHas
  <2> QED
    BY <2>1, RedisInstances DEF Atomic!Taken, Atomic!Live, adapterTraits
<1>11. CASE InsertGet(c)
  <2>1. pc[c] = "inserting" /\ CallOf(pc[c]) = "inserting" /\ contents' = contents
        /\ UNCHANGED <<kv, idIndex>>
    BY <1>2, <1>11, CallLabels DEF InsertGet, Reads
  <2>2. CASE kv[mine[c].corr] # NoRow
    BY <1>1, <1>10, <1>11, <2>1, <2>2, AtomicInsert DEF InsertGet, Inserting
  <2>3. CASE kv[mine[c].corr] = NoRow
    BY <1>7, <1>11, <2>1, <2>3, CallLabels DEF InsertGet
  <2> QED
    BY <2>2, <2>3
<1>12. CASE InsertExec(c)
  <2>1. pc[c] = "insertExec" /\ CallOf(pc[c]) = "inserting" /\ ~ dirty[connection[c]]
    BY <1>1, <1>12, CallLabels DEF InsertExec, Watches
  <2>2. ExecWrites(c, mine[c]) /\ Return(c, "ok")
    BY <1>12, <2>1 DEF InsertExec, ExecAborts, Aborted
  <2>3. contents' = [contents EXCEPT ![mine[c].sagaId] = mine[c]]
    BY <1>3, <2>1, <2>2, RedisStores DEF ExecWrites, Inserting
  <2>4. ~ Atomic!Taken(mine[c])
    BY <1>1, <1>10, <2>1, RedisRows DEF Unseen, Inserting
  <2> QED
    BY <1>1, <2>1, <2>2, <2>3, <2>4, AtomicInsert
<1>13. CASE UpdateGetIndex(c)
  <2>1. pc[c] = "updating" /\ CallOf(pc[c]) = "updating" /\ contents' = contents
        /\ UNCHANGED <<kv, idIndex>>
    BY <1>2, <1>13, CallLabels DEF UpdateGetIndex, Reads
  <2>2. CASE idIndex[mine[c].sagaId] = NoCorrelation
    <3>1. contents[held[c].sagaId] = NoRow
      BY <1>1, <1>4, <1>5, <2>1, <2>2, RedisHas DEF Updating, contents, Stored
    <3> QED
      BY <1>1, <1>13, <2>1, <2>2, <3>1, AtomicUpdate DEF UpdateGetIndex
  <2>3. CASE idIndex[mine[c].sagaId] # NoCorrelation
    BY <1>7, <1>13, <2>1, <2>3, CallLabels DEF UpdateGetIndex
  <2> QED
    BY <2>2, <2>3
<1>14. CASE UpdateWatch(c)
  BY <1>7, <1>14, CallLabels DEF UpdateWatch
<1>15. CASE UpdateCheck(c)
  <2>1. pc[c] = "check" /\ UNCHANGED <<kv, idIndex>>
    BY <1>15 DEF UpdateCheck, Reads
  <2>2. \/ \E how : Throw(c, how, "unwatch")
        \/ Proceed(c, "exec")
    BY <1>15 DEF UpdateCheck
  <2> QED
    BY <1>7, <1>8, <2>1, <2>2, CallLabels
<1>16. CASE UpdateExec(c)
  <2>1. /\ pc[c] = "exec" /\ CallOf(pc[c]) = "updating" /\ ~ dirty[connection[c]]
        /\ ExecWrites(c, mine[c]) /\ Return(c, "ok")
    BY <1>16, CallLabels DEF UpdateExec, ExecWrites, Aborted
  <2>2. Now(held[c]) = kv[mine[c].corr] /\ Now(held[c]) = kv[held[c].corr]
    BY <1>5, <2>1, RedisRows DEF Updating
  <2>3. Now(held[c]) = held[c]
    BY <1>1, <2>1, <2>2, SameVersion DEF Watches, Updating
  <2>4. contents[held[c].sagaId] = held[c]
    BY <1>4, <2>1, <2>2, <2>3, RedisHas DEF Updating
  <2>5. contents' = [contents EXCEPT ![held[c].sagaId] = mine[c]]
    BY <1>5, <2>1, RedisStores DEF ExecWrites, Updating
  <2> QED
    BY <1>1, <2>1, <2>4, <2>5, AtomicUpdate
<1>17. CASE UpdateAborted(c)
  <2>1. pc[c] = "exec" /\ UNCHANGED <<kv, idIndex>>
    BY <1>17 DEF UpdateAborted, ExecAborts
  <2>2. Throw(c, "conflict", "catch") \/ Proceed(c, "watch")
    BY <1>17 DEF UpdateAborted
  <2> QED
    BY <1>7, <1>8, <2>1, <2>2, CallLabels
<1>18. CASE UpdateUnwatch(c)
  BY <1>7, <1>18, CallLabels DEF UpdateUnwatch
<1>19. CASE UpdateCatch(c)
  <2>1. /\ CallOf(pc[c]) = "updating" /\ contents' = contents
        /\ Return(c, result[c]) /\ result[c] \in Refusals
    BY <1>2, <1>19, CallLabels DEF UpdateCatch, Thrown
  <2>2. held[c] # NoRow /\ held[c] \in Row /\ held[c] \in Known
    BY <1>1, <2>1, HandsKnown DEF Told, Refusals
  <2>3. contents[held[c].sagaId] = Now(held[c])
    BY <2>2, RedisHas, RedisRows
  <2>4. result[c] = "conflict" => contents[held[c].sagaId] # held[c]
    BY <1>1, <2>2, <2>3, RowFields DEF Told, Past
  <2>5. result[c] = "notFound" => contents[held[c].sagaId] = NoRow
    BY <1>1, <2>3 DEF Told
  <2> QED
    BY <1>1, <2>1, <2>4, <2>5, AtomicUpdate DEF Refusals
<1>20. CASE DeleteGetIndex(c)
  <2>1. pc[c] = "deleting" /\ CallOf(pc[c]) = "deleting" /\ contents' = contents
        /\ UNCHANGED <<kv, idIndex>>
    BY <1>2, <1>20, CallLabels DEF DeleteGetIndex, Reads
  <2>2. CASE idIndex[held[c].sagaId] = NoCorrelation
    <3>1. contents[held[c].sagaId] = NoRow
      BY <1>1, <1>4, <2>1, <2>2, RedisHas DEF Deleting, contents, Stored
    <3>2. contents' = [contents EXCEPT ![held[c].sagaId] = NoRow]
      BY <2>1, <3>1 DEF contents
    <3> QED
      BY <1>1, <1>20, <2>1, <2>2, <3>2, AtomicDelete DEF DeleteGetIndex
  <2>3. CASE idIndex[held[c].sagaId] # NoCorrelation
    BY <1>7, <1>20, <2>1, <2>3, CallLabels DEF DeleteGetIndex
  <2> QED
    BY <2>2, <2>3
<1>21. CASE DeleteDel(c)
  <2>1. pc[c] = "del" /\ CallOf(pc[c]) = "deleting" /\ Return(c, "ok")
    BY <1>21, CallLabels DEF DeleteDel
  <2>2. contents' = [contents EXCEPT ![held[c].sagaId] = NoRow]
    BY <1>4, <1>21, <2>1, RedisRemoves DEF DeleteDel, Deleting
  <2> QED
    BY <1>1, <2>1, <2>2, AtomicDelete
<1> QED
  BY <1>9, <1>11, <1>12, <1>13, <1>14, <1>15, <1>16, <1>17, <1>18, <1>19, <1>20, <1>21

(* Whatever Redis or its clients do next, with a connection for each client. *)
LEMMA RedisActs ==
    ASSUME StoreInv, Truths, Thrown, adapter = "redis", Dedicated, OneInstance, RedisFixed,
           RedisNext
    PROVE  \/ \E c \in Clients :
                 Atomic!Lookup(c) \/ Atomic!Insert(c) \/ Atomic!Update(c) \/ Atomic!Delete(c)
           \/ Atomic!CleanUp
           \/ UNCHANGED Atomic!vars
<1>1. ASSUME NEW corr \in Correlations, ExpireCompleted(corr)
      PROVE  Atomic!CleanUp
  <2>1. /\ kv[corr] # NoRow /\ kv[corr].isCompleted /\ UNCHANGED clientVars
        /\ kv' = [kv EXCEPT ![corr] = NoRow]
        /\ idIndex' = [idIndex EXCEPT ![kv[corr].sagaId] = NoCorrelation]
    BY <1>1 DEF ExpireCompleted
  <2> DEFINE r == kv[corr]
             old == {r.sagaId}
  <2>2. r \in Known /\ r.corr = corr
    BY <2>1 DEF StoreInv, Shapes, Known, Filed
  <2>3. r.sagaId \in SagaIds /\ contents[r.sagaId] = r
    BY <2>2, RedisHas
  <2>4. contents' = [contents EXCEPT ![r.sagaId] = NoRow]
    BY <2>1, <2>2, RedisRemoves
  <2>5. contents' = [id \in SagaIds |-> IF id \in old THEN NoRow ELSE contents[id]]
    BY <2>4 DEF contents
  <2>6. \A id \in old : contents[id] # NoRow /\ contents[id].isCompleted
    BY <2>1, <2>3
  <2>7. UNCHANGED <<adapter, connection>> /\ old \in SUBSET SagaIds
    BY <2>3 DEF RedisFixed
  <2> HIDE DEF old
  <2> QED
    BY <2>1, <2>5, <2>6, <2>7, AtomicCleanUp
<1> QED
  BY <1>1, RedisCallActs DEF RedisNext

(* The store begins empty, with no call under way. *)
LEMMA InitAtomic == Init => Atomic!Init
<1> SUFFICES ASSUME Init PROVE Atomic!Init
  OBVIOUS
<1>1. calls = [c \in Clients |-> "idle"] /\ answers = [c \in Clients |-> "ok"]
  BY CallLabels DEF Init, ClientInit, calls, answers
<1>2. contents = [id \in SagaIds |-> NoRow]
  BY DEF Init, TableInit, RedisInit, contents, Stored
<1>3. adapterTraits \in Atomic!Traits
  BY DEF adapterTraits, Atomic!Traits
<1> QED
  BY <1>1, <1>2, <1>3 DEF Init, ClientInit, Atomic!Init, Atomic!ClientInit

(* A step of a client, of Redis or of the database is a call taking effect, a clean-up,
   or nothing a client could see. *)
LEMMA StepsAtomically ==
    StoreInv /\ TruthInv /\ Thrown /\ [Next]_vars =>
        [Isolated /\ OneInstance => Atomic!Next]_(Atomic!vars)
<1> SUFFICES ASSUME StoreInv, TruthInv, Thrown, [Next]_vars, Isolated, OneInstance
             PROVE  Atomic!Next \/ UNCHANGED Atomic!vars
  OBVIOUS
<1>1. Truths
  BY DEF TruthInv
<1>2. CASE Next
  <2>1. UNCHANGED adapterTraits
    BY <1>2, AtomicTraits DEF Next
  <2>2. CASE adapter # "redis"
    BY <1>1, <1>2, <2>1, <2>2, TableActs DEF Next, TableFixed, Atomic!Next
  <2>3. CASE adapter = "redis"
    BY <1>1, <1>2, <2>1, <2>3, RedisActs DEF Next, RedisFixed, Isolated, Atomic!Next
  <2> QED
    BY <2>2, <2>3
<1>3. CASE UNCHANGED vars
  <2>1. UNCHANGED <<adapter, held, mine, issued, calls, answers, contents>>
    BY <1>3 DEF vars, clientVars, tableVars, redisVars, calls, answers, contents, Stored
  <2> QED
    BY <2>1, AtomicStutter
<1> QED
  BY <1>2, <1>3

(* Every adapter is an atomic store: however the statements of concurrent calls
   interleave, each call takes effect at once when it returns, and its answer is true
   of the rows at that moment. *)
THEOREM StoresActAtomically == Spec => ActsAtomically
<1>1. Init => Thrown
  BY DEF Init, ClientInit, Thrown
<1>2. Spec => []Thrown
  BY <1>1, ThrownCarried, StoresInvariant, PTL DEF Spec
<1> QED
  BY <1>2, InitAtomic, TruthsInvariant, StepsAtomically, PTL DEF Spec, ActsAtomically

(* The refinement itself: an adapter with a table, or Redis with a connection for each
   client and one instance of a correlation id, implements the atomic store. *)
THEOREM StoresImplementAtomicStore == Spec /\ [](Isolated /\ OneInstance) => Atomic!Spec
BY StoresActAtomically, PTL DEF ActsAtomically, Atomic!Spec

-----------------------------------------------------------------------------
(* A listing shows what it should. *)

(* A set of natural numbers that is not empty has a least one, which Min names. *)
LEMMA LeastOf ==
    ASSUME NEW S, S \subseteq Nat, S # {}
    PROVE  Min(S) \in S /\ \A y \in S : Min(S) <= y
<1>1. PICK x \in S : \A y \in S : ~ (<<y, x>> \in OpToRel(<, Nat))
  BY WFMin, NatLessThanWellFounded
<1>2. \A y \in S : ~ (y < x)
  BY <1>1 DEF OpToRel
<1>3. \A y \in S : x <= y
  BY <1>2
<1> QED
  BY <1>3 DEF Min

(* Counting the part of a finite set. *)
LEMMA PartCounts ==
    ASSUME NEW T, IsFiniteSet(T), NEW S \in SUBSET T
    PROVE  /\ IsFiniteSet(S) /\ Cardinality(S) \in Nat /\ Cardinality(T) \in Nat
           /\ Cardinality(S) <= Cardinality(T)
           /\ S # T => Cardinality(S) < Cardinality(T)
BY FS_Subset, FS_CardinalityType

Above(keys, key) == {k \in keys : k > key}

(* DynamoDB's page, the greatest keys: with a key it has every greater one, and when
   it is short it has them all. *)
LEMMA GreatestKeys ==
    ASSUME NEW S \in SUBSET Nat, IsFiniteSet(S), NEW limit \in Nat, NEW page, page \subseteq S,
           \A id \in S : id \in page <=> Cardinality(Above(S, id)) < limit
    PROVE  /\ IsFiniteSet(page) /\ Cardinality(page) \in Nat
           /\ \A i \in page, j \in S : j >= i => j \in page
           /\ Cardinality(page) < limit => page = S
<1>1. IsFiniteSet(page) /\ Cardinality(page) \in Nat
  BY PartCounts
<1>2. \A id \in S : Above(S, id) \in SUBSET S /\ Cardinality(Above(S, id)) \in Nat
                    /\ IsFiniteSet(Above(S, id))
  <2>1. \A id \in S : Above(S, id) \in SUBSET S
    BY DEF Above
  <2> QED
    BY <2>1, PartCounts
<1>3. ASSUME NEW i \in S, NEW j \in S, j > i
      PROVE  Cardinality(Above(S, j)) < Cardinality(Above(S, i))
  <2>0. i \in Nat /\ j \in Nat
    OBVIOUS
  <2>1. ASSUME NEW a \in Above(S, j) PROVE a \in Above(S, i)
    <3>1. a \in S /\ a \in Nat /\ a > j
      BY <2>1 DEF Above
    <3>2. a > i
      BY <1>3, <2>0, <3>1
    <3> QED
      BY <3>1, <3>2 DEF Above
  <2>2. Above(S, j) \in SUBSET Above(S, i)
    BY <2>1
  <2>3. j \in Above(S, i) /\ j \notin Above(S, j)
    BY <1>3, <2>0 DEF Above
  <2> QED
    BY <1>2, <2>2, <2>3, PartCounts
<1>5. \A i \in page, j \in S : j >= i => j \in page
  <2> SUFFICES ASSUME NEW i \in page, NEW j \in S, j >= i, j # i PROVE j \in page
    OBVIOUS
  <2>0. i \in S /\ j > i
    BY <1>1
  <2>1. Cardinality(Above(S, j)) < Cardinality(Above(S, i)) /\ Cardinality(Above(S, i)) < limit
    BY <2>0, <1>3
  <2> QED
    BY <2>0, <1>2, <2>1
<1>6. ASSUME Cardinality(page) < limit, page # S
      PROVE  FALSE
  <2> DEFINE counts == {Cardinality(Above(S, id)) : id \in S \ page}
  <2>1. counts \subseteq Nat /\ counts # {}
    BY <1>1, <1>2, <1>6
  <2>2. PICK id \in S \ page : \A j \in S \ page : Cardinality(Above(S, id)) <= Cardinality(Above(S, j))
    <3> HIDE DEF counts
    <3>1. Min(counts) \in counts /\ \A y \in counts : Min(counts) <= y
      BY <2>1, LeastOf
    <3>2. PICK id \in S \ page : Min(counts) = Cardinality(Above(S, id))
      BY <3>1 DEF counts
    <3>3. \A j \in S \ page : Cardinality(Above(S, j)) \in counts
      BY DEF counts
    <3> QED
      BY <3>1, <3>2, <3>3
  <2>3. Above(S, id) \subseteq page
    <3> SUFFICES ASSUME NEW j \in Above(S, id), j \notin page PROVE FALSE
      OBVIOUS
    <3>1. j \in S /\ j > id
      BY DEF Above
    <3>2. Cardinality(Above(S, j)) < Cardinality(Above(S, id))
      BY <1>3, <3>1
    <3> QED
      BY <1>2, <2>2, <3>1, <3>2
  <2>4. Cardinality(Above(S, id)) <= Cardinality(page)
    BY <1>1, <2>3, PartCounts
  <2> QED
    BY <1>1, <1>2, <1>6, <2>4
<1> QED
  BY <1>1, <1>5, <1>6

(* An arrangement of a finite set has each of its elements at one place. *)
LEMMA Arranged ==
    ASSUME NEW M, IsFiniteSet(M), NEW order \in SetToSeqs(M)
    PROVE  /\ Cardinality(M) \in Nat /\ DOMAIN order = 1 .. Cardinality(M)
           /\ order \in [1 .. Cardinality(M) -> M]
           /\ \A i, j \in 1 .. Cardinality(M) : order[i] = order[j] => i = j
           /\ \A id \in M : \E i \in 1 .. Cardinality(M) : order[i] = id
<1> DEFINE n == Cardinality(M)
<1>1. n \in Nat
  BY FS_CardinalityType
<1>2. order \in [1 .. n -> M] /\ \A i, j \in 1 .. n : order[i] = order[j] => i = j
  BY DEF SetToSeqs
<1>3. order \in Injection(1 .. n, M)
  BY <1>2 DEF Injection, IsInjective
<1>4. Cardinality(1 .. n) = n
  BY <1>1, FS_Interval
<1>5. order \in Surjection(1 .. n, M)
  BY <1>3, <1>4, FS_Injection
<1> QED
  BY <1>1, <1>2, <1>5 DEF Surjection

(* No two rows of a listing were created at one time. *)
Untied(M) == \A i, j \in M : i # j => table[i].created # table[j].created

(* Then a row's place in the order is the number of newer rows. *)
LEMMA PlaceIsRank ==
    ASSUME NEW M, IsFiniteSet(M), NEW order \in NewestFirst(M), Untied(M),
           \A id \in M : table[id].created \in Nat,
           NEW k \in 1 .. Cardinality(M)
    PROVE  Cardinality({i \in M : table[i].created > table[order[k]].created}) = k - 1
<1> DEFINE n == Cardinality(M)
           newer == {i \in M : table[i].created > table[order[k]].created}
           f == [i \in 1 .. k - 1 |-> order[i]]
<1>0. order \in SetToSeqs(M)
  BY DEF NewestFirst
<1>1. /\ n \in Nat /\ DOMAIN order = 1 .. n /\ order \in [1 .. n -> M]
      /\ \A i, j \in 1 .. n : order[i] = order[j] => i = j
      /\ \A id \in M : \E i \in 1 .. n : order[i] = id
  BY <1>0, Arranged
<1>2. \A i, j \in 1 .. n : i < j => table[order[i]].created >= table[order[j]].created
  BY <1>1 DEF NewestFirst
<1>3. k \in 1 .. n /\ k \in Nat /\ k - 1 \in Nat /\ 1 .. k - 1 \subseteq 1 .. n
      /\ \A i \in 1 .. k - 1 : i < k
  BY <1>1
<1> HIDE DEF n
<1>4. \A i \in 1 .. k - 1 : order[i] \in newer
  <2> SUFFICES ASSUME NEW i \in 1 .. k - 1 PROVE order[i] \in newer
    OBVIOUS
  <2>1. i \in 1 .. n /\ i < k /\ order[i] \in M /\ order[k] \in M /\ order[i] # order[k]
    BY <1>1, <1>3
  <2>2. table[order[i]].created >= table[order[k]].created
    BY <1>2, <1>3, <2>1
  <2> QED
    BY <2>1, <2>2 DEF Untied
<1>5. ASSUME NEW id \in newer
      PROVE  \E i \in 1 .. k - 1 : order[i] = id
  <2>1. PICK i \in 1 .. n : order[i] = id
    BY <1>1, <1>5
  <2>2. table[order[i]].created > table[order[k]].created
        /\ table[order[i]].created \in Nat /\ table[order[k]].created \in Nat
    BY <1>1, <1>3, <1>5, <2>1
  <2>3. ~ (k < i) /\ k # i
    BY <1>2, <1>3, <2>2
  <2> QED
    BY <1>1, <1>3, <2>1, <2>3
<1>6. f \in Bijection(1 .. k - 1, newer)
  <2> HIDE DEF newer
  <2>1. f \in [1 .. k - 1 -> newer]
    BY <1>4
  <2>2. \A i, j \in 1 .. k - 1 : f[i] = f[j] => i = j
    BY <1>1, <1>3
  <2>3. \A id \in newer : \E i \in 1 .. k - 1 : f[i] = id
    BY <1>5
  <2> QED
    BY <2>1, <2>2, <2>3 DEF Bijection, Injection, Surjection, IsInjective
<1>7. ExistsBijection(1 .. k - 1, newer)
  BY <1>6 DEF ExistsBijection
<1> QED
  BY <1>3, <1>7, FS_CountingElements

(* A page cut by LIMIT and OFFSET, when it is short, was the last one. *)
LEMMA ShortPageIsLast ==
    ASSUME NEW M, IsFiniteSet(M), NEW order \in SetToSeqs(M), NEW offset \in Nat, NEW limit \in Nat
    PROVE  /\ Cut(order, offset, limit) \subseteq M
           /\ Cardinality(Cut(order, offset, limit)) < limit => Cardinality(M) < offset + limit
<1> DEFINE n == Cardinality(M)
           page == Cut(order, offset, limit)
           f == [i \in 1 .. limit |-> order[offset + i]]
<1>1. /\ n \in Nat /\ DOMAIN order = 1 .. n /\ order \in [1 .. n -> M]
      /\ \A i, j \in 1 .. n : order[i] = order[j] => i = j
  BY Arranged
<1> HIDE DEF n
<1>2. page \subseteq M
  BY <1>1 DEF Cut
<1>3. ASSUME offset + limit <= n
      PROVE  Cardinality(page) = limit
  <2>1. \A i \in 1 .. limit : offset + i \in 1 .. n /\ offset + i \in offset + 1 .. offset + limit
    BY <1>1, <1>3
  <2>2. f \in [1 .. limit -> page]
    BY <1>1, <2>1 DEF Cut
  <2>3. \A i, j \in 1 .. limit : f[i] = f[j] => i = j
    BY <1>1, <2>1
  <2>4. ASSUME NEW id \in page
        PROVE  \E i \in 1 .. limit : f[i] = id
    <3>1. PICK p \in offset + 1 .. offset + limit : order[p] = id
      BY <2>4 DEF Cut
    <3>2. p - offset \in 1 .. limit /\ offset + (p - offset) = p
      BY <3>1
    <3> QED
      BY <3>1, <3>2
  <2>5. f \in Bijection(1 .. limit, page)
    BY <2>2, <2>3, <2>4 DEF Bijection, Injection, Surjection, IsInjective
  <2>6. ExistsBijection(1 .. limit, page)
    BY <2>5 DEF ExistsBijection
  <2> QED
    BY <2>6, FS_CountingElements
<1> QED
  BY <1>1, <1>2, <1>3 DEF n

-----------------------------------------------------------------------------
(* What a listing has shown so far. *)

Newer(rows, filter, id) ==
    {i \in Matching(rows, filter) : rows[i].created > rows[id].created}

(* Down to a continuation key every row has been shown; up to an offset as many of the
   newest as it says, unless one has left the listing. *)
Shown ==
    IF adapter = "dynamodb"
    THEN \A id \in listing.due :
            listing.next # 0 /\ id >= listing.next => id \in listing.seen
    ELSE ~ listing.moved =>
            \A id \in listing.due :
                Cardinality(Newer(table, listing.filter, id)) < listing.next =>
                    id \in listing.seen

(* What is due is still there, in the indexes as well. *)
ListingInv ==
    listing # NoListing =>
        /\ listing \in Listings
        /\ listing.due \subseteq Matching(table, listing.filter)
        /\ adapter = "dynamodb" => listing.due \subseteq Matching(replica, listing.filter)
        /\ listing.moved \/ ~ Ties(table, listing.filter)
        /\ Shown
        /\ ListingMissesNothing

(* An update leaves a row its time of creation, by which it is listed. *)
Dated == \A c \in Clients : pc[c] \in Updating => mine[c].created = held[c].created

(* However many saga ids there are, only so many sagas are stored at a time. *)
Finite == IsFiniteSet(Present(table)) /\ IsFiniteSet(Present(replica))

(* ListingMissesNothing alone is not inductive: that nothing will have been missed at the
   end takes that nothing has been missed so far. *)
ListInv ==
    IF adapter = "redis" THEN listing = NoListing
    ELSE Finite /\ Dated /\ ListingInv

(* To begin with nothing is listed. *)
LEMMA InitLists == Init => ListInv
<1> SUFFICES ASSUME Init PROVE ListInv
  OBVIOUS
<1>1. /\ Present(table) = {} /\ Present(replica) = {} /\ listing = NoListing
      /\ \A c \in Clients : pc[c] = "idle"
  BY DEF Init, ClientInit, TableInit, Present
<1> QED
  BY <1>1, FS_EmptySet DEF ListInv, Finite, ListingInv, Dated, Updating

(* The rows a page is cut from are finitely many. *)
LEMMA RowsFinite ==
    ASSUME StoreInv, Finite, NEW rows \in {table, replica}, NEW filter
    PROVE  /\ IsFiniteSet(Present(rows)) /\ Present(rows) \subseteq SagaIds
           /\ IsFiniteSet(Matching(rows, filter)) /\ Matching(rows, filter) \subseteq SagaIds
           /\ \A id \in Present(rows) : rows[id] \in Row
<1>1. Matching(rows, filter) \in SUBSET Present(rows)
  BY DEF Matching
<1>2. IsFiniteSet(Present(rows))
  BY DEF Finite
<1> QED
  BY <1>1, <1>2, FS_Subset DEF Present, StoreInv, Shapes

(* Changes of the table that leave each row its time: a listing under way loses what has
   left it, and the rows before one of the others are only ever more. *)
LEMMA NoticedKept ==
    ASSUME StoreInv, StoreInv', adapter # "redis", UNCHANGED <<adapter, replica>>,
           Finite, IsFiniteSet(Present(table')), ListingInv, listing' = Noticed,
           \A id \in SagaIds : table[id] # NoRow /\ table'[id] # NoRow =>
                                   table'[id].created = table[id].created
    PROVE  ListingInv'
<1> SUFFICES ASSUME listing # NoListing PROVE ListingInv'
  BY DEF Noticed, ListingInv
<1> DEFINE f == listing.filter
           was == Matching(table, f)
           is == Matching(table', f)
<1>1. listing \in Listings /\ listing.due \subseteq was
  BY DEF ListingInv
<1>2. listing' = [listing EXCEPT !.due = @ \cap is,
                                 !.moved = @ \/ was \ is # {} \/ Ties(table', f)]
  BY DEF Noticed
<1>3. /\ listing'.limit = listing.limit /\ listing'.filter = f
      /\ listing'.next = listing.next /\ listing'.done = listing.done
      /\ listing'.seen = listing.seen /\ listing'.due = listing.due \cap is
      /\ listing'.moved = (listing.moved \/ was \ is # {} \/ Ties(table', f))
      /\ listing' \in Listings
  BY <1>1, <1>2 DEF Listings
<1> HIDE DEF f
<1>4. adapter = "dynamodb" => listing'.due \subseteq Matching(replica', f)
  BY <1>3 DEF ListingInv, f
<1>5. ASSUME ~ listing'.moved, NEW id \in listing'.due
      PROVE  Cardinality(Newer(table, f, id)) <= Cardinality(Newer(table', f, id))
  <2>1. was \subseteq is
    BY <1>3, <1>5
  <2>2. id \in was /\ id \in is /\ \A i \in was : i \in SagaIds /\ table'[i].created = table[i].created
    BY <1>1, <1>3, <1>5, <2>1 DEF Matching, Present
  <2>3. Newer(table, f, id) \in SUBSET Newer(table', f, id)
    BY <2>1, <2>2 DEF Newer
  <2>4. is \in SUBSET Present(table')
    BY DEF Matching
  <2>5. Newer(table', f, id) \in SUBSET is
    BY DEF Newer
  <2> HIDE DEF was, is
  <2>6. IsFiniteSet(Newer(table', f, id))
    <3>1. Newer(table', f, id) \in SUBSET Present(table')
      BY <2>4, <2>5
    <3> QED
      BY <3>1, FS_Subset
  <2> QED
    BY <2>3, <2>6, PartCounts
<1>6. ~ listing'.moved => ~ listing.moved
  BY <1>3
<1>7. ASSUME NEW id \in SagaIds
      PROVE  /\ Cardinality(Newer(table, f, id)) \in Nat
             /\ Cardinality(Newer(table', f, id)) \in Nat
  <2>1. IsFiniteSet(was) /\ IsFiniteSet(is)
    <3>1. is \in SUBSET Present(table')
      BY DEF Matching
    <3> QED
      BY <3>1, RowsFinite, FS_Subset
  <2>2. Newer(table, f, id) \in SUBSET was /\ Newer(table', f, id) \in SUBSET is
    BY DEF Newer
  <2> HIDE DEF was, is
  <2> QED
    BY <2>1, <2>2, PartCounts
<1>8. Shown'
  <2>1. CASE adapter = "dynamodb"
    BY <1>3, <2>1 DEF Shown, ListingInv
  <2>2. CASE adapter # "dynamodb"
    <3> SUFFICES ASSUME ~ listing'.moved, NEW id \in listing'.due,
                        Cardinality(Newer(table', f, id)) < listing'.next
                 PROVE  id \in listing'.seen
      BY <1>3, <2>2 DEF Shown
    <3>1. id \in listing.due /\ id \in SagaIds /\ listing.next \in Nat
      BY <1>1, <1>3 DEF Listings
    <3>2. Cardinality(Newer(table, f, id)) < listing.next
      BY <1>3, <1>5, <1>7, <3>1
    <3> QED
      BY <1>3, <1>6, <2>2, <3>1, <3>2 DEF Shown, ListingInv, f
  <2> QED
    BY <2>1, <2>2
<1>9. ListingMissesNothing'
  BY <1>3 DEF ListingMissesNothing, ListingInv
<1> QED
  BY <1>3, <1>4, <1>8, <1>9 DEF ListingInv

(* A new listing has shown nothing. *)
LEMMA ListingBegins ==
    ASSUME StoreInv, UNCHANGED <<adapter, table, replica>>, Finite, BeginListing
    PROVE  ListingInv'
<1>1. PICK limit \in PageSizes, filter \in {"all", "incomplete"} :
         listing' =
             [ limit |-> limit, filter |-> filter, next |-> 0, done |-> FALSE,
               seen |-> {}, moved |-> Ties(table, filter),
               due |-> Matching(table, filter) \cap
                      (IF adapter = "dynamodb" THEN Matching(replica, filter) ELSE SagaIds) ]
  BY DEF BeginListing
<1> DEFINE due == Matching(table, filter) \cap
                  (IF adapter = "dynamodb" THEN Matching(replica, filter) ELSE SagaIds)
<1>2. /\ listing'.limit = limit /\ listing'.filter = filter /\ listing'.next = 0
      /\ listing'.done = FALSE /\ listing'.seen = {} /\ listing'.moved = Ties(table, filter)
      /\ listing'.due = due
  BY <1>1
<1>3. due \subseteq SagaIds
  BY RowsFinite
<1>4. Ties(table, filter) \in BOOLEAN
  BY DEF Ties
<1>5. listing' \in Listings
  BY <1>1, <1>3, <1>4 DEF Listings
<1>6. \A id : Cardinality(Newer(table, filter, id)) \in Nat
  <2>1. \A id : Newer(table, filter, id) \in SUBSET Matching(table, filter)
    BY DEF Newer
  <2> QED
    BY <2>1, RowsFinite, PartCounts
<1>7. Shown'
  BY <1>2, <1>6 DEF Shown
<1> QED
  BY <1>2, <1>5, <1>7 DEF ListingInv, ListingMissesNothing

(* A page by its offset. *)
LEMMA OffsetPage ==
    ASSUME StoreInv, adapter # "dynamodb", UNCHANGED <<adapter, table, replica>>,
           Finite, ListingInv, PageByOffset
    PROVE  ListingInv'
<1> DEFINE M == Matching(table, listing.filter)
<1>1. PICK order \in NewestFirst(M) :
         listing' = [listing EXCEPT
             !.next = @ + listing.limit,
             !.seen = @ \cup Cut(order, listing.next, listing.limit),
             !.done = Cardinality(Cut(order, listing.next, listing.limit)) < listing.limit]
  BY DEF PageByOffset
<1> DEFINE page == Cut(order, listing.next, listing.limit)
<1>2. /\ listing # NoListing /\ ~ listing.done /\ listing \in Listings
      /\ listing.due \subseteq M /\ Shown
      /\ listing.moved \/ ~ Ties(table, listing.filter)
  BY DEF PageByOffset, Underway, ListingInv
<1>3. /\ listing.next \in Nat /\ listing.limit \in Nat /\ listing.seen \subseteq SagaIds
      /\ listing.next + listing.limit \in Nat
  <2>1. listing.next \in Nat /\ listing.limit \in PageSizes /\ listing.seen \in SUBSET SagaIds
    BY <1>2 DEF Listings
  <2>2. listing.limit \in Nat
    BY <2>1, ListingAssumption
  <2> QED
    BY <2>1, <2>2
<1>4. IsFiniteSet(M) /\ M \subseteq SagaIds /\ \A id \in M : table[id] \in Row
  BY RowsFinite DEF Matching
<1>5. \A id \in M : table[id].created \in Nat
  BY <1>4, ClientsAssumption DEF Row
<1>6. order \in SetToSeqs(M)
  BY DEF NewestFirst
<1> HIDE DEF M
<1>7. page \subseteq M /\ (Cardinality(page) < listing.limit =>
                              Cardinality(M) < listing.next + listing.limit)
  BY <1>3, <1>4, <1>6, ShortPageIsLast
<1>8. /\ listing' \in Listings /\ listing'.limit = listing.limit
      /\ listing'.filter = listing.filter /\ listing'.next = listing.next + listing.limit
      /\ listing'.seen = listing.seen \cup page
      /\ listing'.done = (Cardinality(page) < listing.limit)
      /\ listing'.due = listing.due /\ listing'.moved = listing.moved
  <2> DEFINE done == Cardinality(page) < listing.limit
             next == listing.next + listing.limit
             seen == listing.seen \cup page
  <2>1. /\ listing' = [listing EXCEPT !.next = next, !.seen = seen, !.done = done]
        /\ done \in BOOLEAN /\ next \in Nat /\ seen \in SUBSET SagaIds
    BY <1>1, <1>3, <1>4, <1>7
  <2> HIDE DEF page, done, next, seen
  <2>2. /\ listing' \in Listings /\ listing'.limit = listing.limit
        /\ listing'.filter = listing.filter /\ listing'.next = next
        /\ listing'.seen = seen /\ listing'.done = done
        /\ listing'.due = listing.due /\ listing'.moved = listing.moved
    BY <1>2, <2>1 DEF Listings
  <2> QED
    BY <2>2 DEF done, next, seen
<1>9. ASSUME ~ listing.moved, NEW id \in listing.due
      PROVE  \E k \in 1 .. Cardinality(M) :
                order[k] = id /\ Cardinality(Newer(table, listing.filter, id)) = k - 1
  <2>1. PICK k \in 1 .. Cardinality(M) : order[k] = id
    BY <1>2, <1>4, <1>6, <1>9, Arranged
  <2>2. Untied(M)
    BY <1>2, <1>9 DEF Untied, Ties, M
  <2>3. Cardinality({i \in M : table[i].created > table[order[k]].created}) = k - 1
    BY <1>4, <1>5, <2>2, PlaceIsRank
  <2>4. Newer(table, listing.filter, id) = {i \in M : table[i].created > table[order[k]].created}
    BY <2>1 DEF Newer, M
  <2> QED
    BY <2>1, <2>3, <2>4
<1>10. ASSUME ~ listing.moved, NEW id \in listing.due, NEW k \in 1 .. Cardinality(M),
              order[k] = id, Cardinality(Newer(table, listing.filter, id)) = k - 1,
              k <= listing.next + listing.limit
       PROVE  id \in listing'.seen
  <2>0. Cardinality(M) \in Nat /\ DOMAIN order = 1 .. Cardinality(M)
    BY <1>4, <1>6, Arranged
  <2>1. CASE k <= listing.next
    <3>1. Cardinality(Newer(table, listing.filter, id)) < listing.next
      BY <1>3, <1>10, <2>0, <2>1
    <3> QED
      BY <1>2, <1>8, <1>10, <3>1 DEF Shown
  <2>2. CASE k > listing.next
    <3>1. k \in listing.next + 1 .. listing.next + listing.limit
      BY <1>3, <1>10, <2>0, <2>2
    <3>2. id \in page
      BY <1>10, <2>0, <3>1 DEF Cut
    <3> QED
      BY <1>8, <3>2
  <2> QED
    BY <1>3, <2>0, <2>1, <2>2
<1>11. Cardinality(M) \in Nat
  BY <1>4, FS_CardinalityType
<1> HIDE DEF page
<1>12. ~ listing.moved => \A id \in listing.due :
          Cardinality(Newer(table, listing.filter, id)) < listing.next + listing.limit =>
              id \in listing'.seen
  BY <1>3, <1>9, <1>10, <1>11
<1>13. ~ listing.moved /\ Cardinality(page) < listing.limit => listing.due \subseteq listing'.seen
  BY <1>3, <1>7, <1>9, <1>10, <1>11
<1>14. Shown' /\ ListingMissesNothing'
  BY <1>8, <1>12, <1>13 DEF Shown, ListingMissesNothing
<1> QED
  BY <1>2, <1>8, <1>14 DEF ListingInv, M

(* A page by its continuation key, read from the table or from what an index shows. *)
LEMMA KeyPage ==
    ASSUME StoreInv, UNCHANGED <<adapter, table, replica>>,
           Finite, ListingInv, DynamoFindByName
    PROVE  ListingInv'
<1>0. adapter = "dynamodb"
  BY DEF DynamoFindByName
<1>1. PICK rows \in {table, replica} :
         LET after == {id \in Present(rows) : listing.next = 0 \/ id < listing.next}
             page  == {id \in after : Cardinality({i \in after : i > id}) < listing.limit}
         IN listing' = [listing EXCEPT
               !.next = IF page = {} THEN @ ELSE Min(page),
               !.seen = @ \cup (page \cap Matching(rows, listing.filter)),
               !.done = Cardinality(page) < listing.limit]
  BY DEF DynamoFindByName
<1> DEFINE after == {id \in Present(rows) : listing.next = 0 \/ id < listing.next}
           page == {id \in after : Cardinality({i \in after : i > id}) < listing.limit}
           M == Matching(rows, listing.filter)
           next == IF page = {} THEN listing.next ELSE Min(page)
<1>2. /\ listing # NoListing /\ ~ listing.done /\ listing \in Listings
      /\ listing.due \subseteq M /\ listing.due \subseteq Matching(table, listing.filter)
      /\ listing.due \subseteq Matching(replica, listing.filter)
      /\ Shown /\ (listing.moved \/ ~ Ties(table, listing.filter))
  BY <1>0 DEF DynamoFindByName, Underway, ListingInv
<1>3. listing.next \in Nat /\ listing.limit \in Nat /\ listing.seen \subseteq SagaIds
  <2>1. listing.next \in Nat /\ listing.limit \in PageSizes /\ listing.seen \in SUBSET SagaIds
    BY <1>2 DEF Listings
  <2> QED
    BY <2>1, ListingAssumption
<1>4. /\ IsFiniteSet(Present(rows)) /\ Present(rows) \subseteq Nat
      /\ M \subseteq Present(rows) /\ M \subseteq SagaIds
  BY RowsFinite, ClientsAssumption DEF Matching
<1>5. after \in SUBSET Nat /\ IsFiniteSet(after)
  <2>1. after \in SUBSET Present(rows)
    OBVIOUS
  <2> QED
    BY <1>4, <2>1, FS_Subset
<1>6. \A id \in M : id \in after \/ (listing.next # 0 /\ id >= listing.next)
  BY <1>3, <1>4
<1>7. listing' = [listing EXCEPT !.next = next, !.seen = @ \cup (page \cap M),
                      !.done = Cardinality(page) < listing.limit]
  BY <1>1
<1> HIDE DEF after, M
<1>p. page \subseteq after
      /\ \A id \in after : id \in page <=> Cardinality(Above(after, id)) < listing.limit
  BY DEF Above
<1> HIDE DEF page
<1>8. /\ page \subseteq after /\ IsFiniteSet(page)
      /\ \A i \in page, j \in after : j >= i => j \in page
      /\ Cardinality(page) < listing.limit => page = after
  <2> DEFINE limit == listing.limit
  <2>1. limit \in Nat /\ \A id \in after : id \in page <=> Cardinality(Above(after, id)) < limit
    BY <1>3, <1>p
  <2> HIDE DEF limit
  <2>2. /\ IsFiniteSet(page)
        /\ \A i \in page, j \in after : j >= i => j \in page
        /\ Cardinality(page) < limit => page = after
    BY <1>5, <1>p, <2>1, GreatestKeys
  <2> QED
    BY <1>p, <2>2 DEF limit
<1>9. page # {} => Min(page) \in page
  BY <1>5, <1>8, LeastOf
<1>10. next \in Nat
  BY <1>3, <1>5, <1>8, <1>9
<1> HIDE DEF next
<1>11. /\ listing' \in Listings /\ listing'.limit = listing.limit
       /\ listing'.filter = listing.filter /\ listing'.next = next
       /\ listing'.seen = listing.seen \cup (page \cap M)
       /\ listing'.done = (Cardinality(page) < listing.limit)
       /\ listing'.due = listing.due /\ listing'.moved = listing.moved
  <2> DEFINE shown == page \cap M
             done == Cardinality(page) < listing.limit
  <2>1. /\ listing.seen \cup shown \subseteq SagaIds /\ done \in BOOLEAN
        /\ listing' = [listing EXCEPT !.next = next, !.seen = @ \cup shown, !.done = done]
    BY <1>3, <1>4, <1>7
  <2> HIDE DEF shown, done
  <2>2. /\ listing' \in Listings /\ listing'.limit = listing.limit
        /\ listing'.filter = listing.filter /\ listing'.next = next
        /\ listing'.seen = listing.seen \cup shown /\ listing'.done = done
        /\ listing'.due = listing.due /\ listing'.moved = listing.moved
    BY <1>2, <1>10, <2>1 DEF Listings
  <2> QED
    BY <2>2 DEF shown, done
<1>12. ASSUME NEW id \in listing.due, id \notin after
       PROVE  id \in listing.seen
  BY <1>0, <1>2, <1>6, <1>12 DEF Shown
<1>13. Shown'
  <2> SUFFICES ASSUME NEW id \in listing.due, next # 0, id >= next PROVE id \in listing'.seen
    BY <1>0, <1>11 DEF Shown
  <2>1. CASE id \notin after
    BY <1>11, <1>12, <2>1
  <2>2. CASE id \in after /\ page = {}
    <3>1. next = listing.next
      BY <2>2 DEF next
    <3> QED
      BY <1>0, <1>2, <1>11, <3>1 DEF Shown
  <2>3. CASE id \in after /\ page # {}
    <3>1. id \in page
      BY <1>8, <1>9, <2>3 DEF next
    <3> QED
      BY <1>2, <1>11, <3>1
  <2> QED
    BY <2>1, <2>2, <2>3
<1>14. ListingMissesNothing'
  <2> SUFFICES ASSUME Cardinality(page) < listing.limit, NEW id \in listing.due
               PROVE  id \in listing'.seen
    BY <1>11 DEF ListingMissesNothing
  <2> QED
    BY <1>2, <1>8, <1>11, <1>12
<1> QED
  BY <1>2, <1>11, <1>13, <1>14 DEF ListingInv

(* No statement changes when a row was created. *)
Timeless ==
    \A id \in SagaIds :
        table[id] # NoRow /\ table'[id] # NoRow => table'[id].created = table[id].created

(* A table that loses rows, or gets one, has as few as before, or one more. *)
LEMMA FinitelyMore ==
    ASSUME Finite, UNCHANGED replica, NEW new,
           \A id \in SagaIds : table'[id] # NoRow => table[id] # NoRow \/ id = new
    PROVE  Finite'
<1>1. Present(table') \in SUBSET (Present(table) \cup {new})
  BY DEF Present
<1>2. IsFiniteSet(Present(table) \cup {new})
  BY FS_AddElement DEF Finite
<1> QED
  BY <1>1, <1>2, FS_Subset DEF Finite

(* A call of a client keeps all that a listing needs to know of the rows. *)
LEMMA CallDates ==
    ASSUME StoreInv, Truths, adapter \in TableAdapters, TableFixed, Finite, Dated,
           NEW c \in Clients, ClientStep(c)
    PROVE  Finite' /\ Dated' /\ Timeless
<1>1. Shapes /\ Agree /\ Told(c) /\ InHand(c) /\ UNCHANGED replica
  BY DEF StoreInv, Truths, ClientStep
<1>2. ASSUME NEW d \in Clients, pc'[d] = pc[d], mine'[d] = mine[d], held'[d] = held[d]
      PROVE  pc'[d] \in Updating => mine'[d].created = held'[d].created
  BY <1>2 DEF Dated
<1>3. ASSUME NEW how \in Results, Return(c, how)
      PROVE  Dated'
  <2>1. pc'[c] \notin Updating
    BY <1>1, <1>3, ReturnFacts DEF Updating, Shapes
  <2>2. \A d \in Clients \ {c} : pc'[d] = pc[d] /\ mine'[d] = mine[d] /\ held'[d] = held[d]
    BY <1>1, <1>3, ReturnFacts
  <2> QED
    BY <1>2, <2>1, <2>2 DEF Dated
<1>4. ASSUME RowsOnlyGo
      PROVE  Finite' /\ Timeless
  <2>1. \A id \in SagaIds : table'[id] \in {table[id], NoRow}
    BY <1>4 DEF RowsOnlyGo
  <2>2. Finite'
    BY <1>1, <2>1, FinitelyMore
  <2> QED
    BY <2>1, <2>2 DEF Timeless
<1>5. ASSUME pc[c] \in {"inserting", "updating"},
             table' = [table EXCEPT ![mine[c].sagaId] = mine[c]],
             table[mine[c].sagaId] # NoRow =>
                 table[mine[c].sagaId].created = mine[c].created
      PROVE  Finite' /\ Timeless
  <2>1. mine[c].sagaId \in SagaIds
    BY <1>1, <1>5, RowFields DEF InHand, Inserting, Updating
  <2>2. \A id \in SagaIds : table'[id] # NoRow => table[id] # NoRow \/ id = mine[c].sagaId
    BY <1>1, <1>5 DEF Shapes
  <2>3. Finite'
    BY <1>1, <2>2, FinitelyMore
  <2> QED
    BY <1>1, <1>5, <2>1, <2>3 DEF Shapes, Timeless
<1>6. UNCHANGED table => RowsOnlyGo
  BY NoneGoes
<1>7. CASE InsertUnless(c, KeyTaken) \/ InsertUnless(c, IdTaken)
  <2>1. CASE Return(c, "taken") /\ UNCHANGED table
    BY <1>3, <1>4, <1>6, <2>1 DEF Results
  <2>2. CASE ~ IdTaken(mine[c]) /\ pc[c] = "inserting" /\ Return(c, "ok")
             /\ table' = [table EXCEPT ![mine[c].sagaId] = mine[c]]
    BY <1>3, <1>5, <2>2 DEF Results, IdTaken
  <2> QED
    BY <1>7, <2>1, <2>2 DEF InsertUnless, KeyTaken
<1>8. CASE UpdateWhere(c, Selects)
  <2>1. pc[c] \in Updating /\ held[c] \in Row /\ mine[c].sagaId = held[c].sagaId
        /\ mine[c].created = held[c].created
    BY <1>1, <1>8 DEF UpdateWhere, InHand, Updating, Dated
  <2>2. CASE Selects(mine[c].sagaId, held[c].version)
    <3>1. Now(held[c]) = table[held[c].sagaId]
      BY TableRows
    <3>2. table[mine[c].sagaId] = held[c]
      BY <1>1, <2>1, <2>2, <3>1, SameVersion DEF Selects
    <3> QED
      BY <1>3, <1>5, <1>8, <2>1, <2>2, <3>2 DEF UpdateWhere, Results
  <2>3. CASE ~ Selects(mine[c].sagaId, held[c].version)
    <3>1. /\ pc' = [pc EXCEPT ![c] = "rereading"]
          /\ UNCHANGED <<table, held, mine, result, issued>>
      BY <1>8, <2>3 DEF UpdateWhere, Goto
    <3>2. Dated'
      BY <1>1, <3>1 DEF Dated, Shapes, Updating
    <3> QED
      BY <1>4, <1>6, <3>1, <3>2
  <2> QED
    BY <2>2, <2>3
<1>9. CASE \E rows \in {table, replica} : RereadIn(c, rows)
  BY <1>3, <1>4, <1>6, <1>9 DEF RereadIn, Results
<1>10. CASE \E rows \in {table, replica} : LookupIn(c, rows)
  <2>1. PICK rows \in {table, replica}, corr \in Correlations :
           \/ Decide(c, corr, NoRow)
           \/ \E id \in Present(rows) : Decide(c, corr, rows[id])
    BY <1>10 DEF LookupIn
  <2>2. PICK found \in Row \cup {NoRow} : Decide(c, corr, found)
    BY <1>1, <2>1 DEF Present, Shapes
  <2>3. pc'[c] \in Updating => mine'[c].created = held'[c].created
    BY <1>1, <2>2, DecideCases DEF Updating
  <2>4. \A d \in Clients \ {c} : pc'[d] = pc[d] /\ mine'[d] = mine[d] /\ held'[d] = held[d]
    BY <1>1, <2>2, DecideCases
  <2>5. Dated'
    BY <1>2, <2>3, <2>4 DEF Dated
  <2> QED
    BY <1>4, <1>6, <1>10, <2>5 DEF LookupIn
<1>11. CASE DeleteById(c)
  <2>1. RowsOnlyGo
    BY <1>1, <1>11 DEF DeleteById, Shapes, RowsOnlyGo
  <2> QED
    BY <1>3, <1>4, <1>11, <2>1 DEF DeleteById, Results
<1>12. CASE PrismaDeleteFails(c)
  BY <1>3, <1>4, <1>6, <1>12 DEF PrismaDeleteFails, Results
<1> QED
  BY <1>7, <1>8, <1>9, <1>10, <1>11, <1>12, CallCases

(* A clean-up only takes rows. *)
LEMMA CleanUpTakes ==
    ASSUME StoreInv, CleanUp
    PROVE  RowsOnlyGo
<1>1. CASE DeleteCompleted
  BY <1>1 DEF DeleteCompleted, RowsOnlyGo, StoreInv, Shapes
<1>2. CASE \E id \in SagaIds : DynamoSweepDelete(id)
  BY <1>2 DEF DynamoSweepDelete, RowsOnlyGo, StoreInv, Shapes
<1>3. CASE UNCHANGED table
  BY <1>3, NoneGoes
<1> QED
  BY <1>1, <1>2, <1>3
     DEF CleanUp, DynamoSweep, PostgresDeleteCompletedBefore, MySqlDeleteCompletedBefore,
         SqlServerDeleteCompletedBefore, PrismaDeleteCompletedBefore,
         MongoDeleteCompletedBefore

(* An index that catches up shows a listing what the table does. *)
LEMMA CatchingUp ==
    ASSUME StoreInv, Finite, ListingInv, adapter # "redis", NEW id \in SagaIds, Replicate(id),
           UNCHANGED <<adapter, table, listing>>
    PROVE  Finite' /\ ListingInv'
<1>1. replica' = [replica EXCEPT ![id] = table[id]] /\ replica \in [SagaIds -> Row \cup {NoRow}]
  BY DEF Replicate, StoreInv, Shapes
<1>2. Finite'
  <2>1. Present(replica') \in SUBSET (Present(replica) \cup {id})
    BY <1>1 DEF Present
  <2>2. IsFiniteSet(Present(replica) \cup {id})
    BY FS_AddElement DEF Finite
  <2> QED
    BY <2>1, <2>2, FS_Subset DEF Finite
<1>3. ASSUME NEW filter, NEW i \in Matching(table, filter), i \in Matching(replica, filter)
      PROVE  i \in Matching(replica', filter)
  BY <1>1, <1>3 DEF Matching, Present
<1>4. listing # NoListing /\ adapter = "dynamodb" =>
         listing'.due \subseteq Matching(replica', listing'.filter)
  BY <1>3 DEF ListingInv
<1>5. Shown' = Shown /\ ListingMissesNothing' = ListingMissesNothing
  BY DEF Shown, ListingMissesNothing
<1> QED
  BY <1>2, <1>4, <1>5 DEF ListingInv

(* Whatever a store with a table does next. *)
LEMMA TableLists ==
    ASSUME StoreInv, StoreInv', Truths, adapter # "redis", TableFixed, TableNext,
           Finite, Dated, ListingInv
    PROVE  Finite' /\ Dated' /\ ListingInv'
<1>1. adapter \in TableAdapters /\ Shapes /\ adapter' = adapter
  BY DEF StoreInv, TableFixed
<1>2. ASSUME Finite', Timeless, UNCHANGED replica, listing' = Noticed
      PROVE  ListingInv'
  <2>1. IsFiniteSet(Present(table'))
    BY <1>2 DEF Finite
  <2> QED
    BY <1>1, <1>2, <2>1, NoticedKept DEF Timeless
<1>3. CASE \E c \in Clients : ClientStep(c)
  <2>1. PICK c \in Clients : ClientStep(c)
    BY <1>3
  <2>2. Finite' /\ Dated' /\ Timeless
    BY <1>1, <2>1, CallDates
  <2>3. UNCHANGED replica /\ listing' = Noticed
    BY <2>1 DEF ClientStep
  <2> QED
    BY <1>2, <2>2, <2>3
<1>4. UNCHANGED clientVars => Dated'
  BY DEF Dated, clientVars
<1>5. CASE CleanUp
  <2>1. \A id \in SagaIds : table'[id] \in {table[id], NoRow}
    BY <1>5, CleanUpTakes DEF RowsOnlyGo
  <2>2. UNCHANGED <<replica, clientVars>> /\ listing' = Noticed
    BY <1>5 DEF CleanUp
  <2>3. Finite'
    BY <2>1, <2>2, FinitelyMore
  <2>4. Timeless
    BY <2>1 DEF Timeless
  <2> QED
    BY <1>2, <1>4, <2>2, <2>3, <2>4
<1>6. CASE ListNext
  <2>1. UNCHANGED <<adapter, table, replica, clientVars>>
    BY <1>1, <1>6 DEF ListNext
  <2>2. Finite'
    BY <2>1 DEF Finite
  <2>3. \/ BeginListing
        \/ adapter # "dynamodb" /\ PageByOffset
        \/ DynamoFindByName
    BY <1>6 DEF ListNext, PostgresFindByName, MySqlFindByName, SqlServerFindByName,
                PrismaFindByName, MongoFindByName
  <2>4. ListingInv'
    BY <2>1, <2>3, ListingBegins, OffsetPage, KeyPage
  <2> QED
    BY <1>4, <2>1, <2>2, <2>4
<1>7. CASE \E id \in SagaIds : Replicate(id) /\ UNCHANGED <<table, sweep, listing, clientVars>>
  BY <1>1, <1>4, <1>7, CatchingUp
<1> QED
  BY <1>3, <1>5, <1>6, <1>7 DEF TableNext

(* Redis lists nothing. *)
LEMMA ListsCarried ==
    StoreInv /\ TruthInv /\ ListInv /\ [Next]_vars => ListInv'
<1> SUFFICES ASSUME StoreInv, TruthInv, ListInv, [Next]_vars PROVE ListInv'
  OBVIOUS
<1>1. CASE adapter # "redis" /\ TableNext /\ UNCHANGED <<adapter, connection, redisVars>>
  <2>1. Truths /\ StoreInv'
    BY <1>1, NextCarried DEF TruthInv, Isolated, OneInstance
  <2> QED
    BY <1>1, <2>1, TableLists DEF TableFixed, ListInv
<1>2. CASE adapter = "redis" /\ RedisNext /\ UNCHANGED <<adapter, connection, tableVars>>
  BY <1>2 DEF ListInv, tableVars
<1>3. CASE UNCHANGED vars
  <2>1. UNCHANGED <<adapter, pc, held, mine, table, replica, listing>>
    BY <1>3 DEF vars, clientVars, tableVars
  <2>2. Finite' = Finite /\ Dated' = Dated /\ Shown' = Shown
        /\ ListingMissesNothing' = ListingMissesNothing
    BY <2>1 DEF Finite, Dated, Shown, ListingMissesNothing
  <2>3. ListingInv' = ListingInv
    BY <2>1, <2>2 DEF ListingInv
  <2> QED
    BY <2>1, <2>2, <2>3 DEF ListInv
<1> QED
  BY <1>1, <1>2, <1>3 DEF Next

(* A listing read to its end has shown every row that was in it all along: by DynamoDB's
   continuation keys always, whatever it read from the table and what from an index that
   lags, by LIMIT and OFFSET unless a row left it between two pages or two rows are of
   one time. *)
THEOREM ListingsMissNothing == Spec => []ListingMissesNothing
<1>1. ListInv => ListingMissesNothing
  BY DEF ListInv, ListingInv, ListingMissesNothing
<1> QED
  BY <1>1, InitLists, ListsCarried, TruthsInvariant, PTL DEF Spec

(* What the other invariants leave open of the types: a clean-up's list names sagas, and
   the loop of Redis's update counts below maxRetries. *)
Bounded == sweep \subseteq SagaIds /\ attempt \in [Clients -> 0 .. MaxRetries - 1]

(* The list is drawn up from the rows of an index; the loop gives up in time. *)
LEMMA BoundsCarried == Bounded /\ [Next]_vars => Bounded'
<1> SUFFICES ASSUME Bounded, [Next]_vars PROVE Bounded'
  OBVIOUS
<1>1. CASE TableNext /\ UNCHANGED redisVars
  <2>1. CASE UNCHANGED sweep
    BY <1>1, <2>1 DEF Bounded, redisVars
  <2>2. CASE DynamoSweep
    BY <1>1, <2>2 DEF Bounded, redisVars, DynamoSweep, Present
  <2>3. CASE \E id \in SagaIds : DynamoSweepDelete(id)
    BY <1>1, <2>3 DEF Bounded, redisVars, DynamoSweepDelete
  <2>4. UNCHANGED sweep \/ DynamoSweep \/ \E id \in SagaIds : DynamoSweepDelete(id)
    BY <1>1 DEF TableNext, ClientStep, CleanUp, ListNext
  <2> QED
    BY <2>1, <2>2, <2>3, <2>4
<1>2. CASE RedisNext /\ UNCHANGED tableVars
  <2>1. UNCHANGED sweep
    BY <1>2 DEF tableVars
  <2>2. CASE UNCHANGED attempt
    BY <2>1, <2>2 DEF Bounded
  <2>3. ASSUME NEW c \in Clients, attempt' = [attempt EXCEPT ![c] = 0]
        PROVE  Bounded'
    BY <2>1, <2>3, RedisAssumption DEF Bounded
  <2>4. ASSUME NEW c \in Clients, UpdateAborted(c)
        PROVE  Bounded'
    <3>1. CASE attempt[c] < MaxRetries - 1 /\ attempt' = [attempt EXCEPT ![c] = @ + 1]
      <4>1. attempt[c] + 1 \in 0 .. MaxRetries - 1
        BY <2>4, <3>1, RedisAssumption DEF Bounded
      <4> QED
        BY <2>1, <3>1, <4>1 DEF Bounded
    <3> QED
      BY <2>3, <2>4, <3>1 DEF UpdateAborted
  <2>5. ASSUME NEW c \in Clients, UpdateCheck(c)
        PROVE  Bounded'
    BY <2>2, <2>3, <2>5 DEF UpdateCheck
  <2>6. ASSUME NEW c \in Clients, UpdateExec(c)
        PROVE  Bounded'
    BY <2>3, <2>6 DEF UpdateExec
  <2>7. \/ UNCHANGED attempt
        \/ \E c \in Clients : UpdateAborted(c) \/ UpdateCheck(c) \/ UpdateExec(c)
    BY <1>2 DEF RedisNext, GetByCorrelationId, InsertGet, InsertExec, UpdateGetIndex,
         UpdateWatch, UpdateUnwatch, UpdateCatch, DeleteGetIndex, DeleteDel, ExpireCompleted
  <2> QED
    BY <2>2, <2>4, <2>5, <2>6, <2>7
<1>3. CASE UNCHANGED vars
  BY <1>3 DEF vars, tableVars, redisVars, Bounded
<1> QED
  BY <1>1, <1>2, <1>3 DEF Next

(* The variables keep their types, with any of the stores. *)
THEOREM StoreTypes == Spec => []StoreTypeOK
<1>1. Init => Bounded
  BY RedisAssumption DEF Init, TableInit, RedisInit, Bounded
<1>2. StoreInv /\ ListInv /\ Bounded => StoreTypeOK
  <2> SUFFICES ASSUME StoreInv, ListInv, Bounded PROVE StoreTypeOK
    OBVIOUS
  <2>1. ClientTypeOK(TableLabels \cup RedisLabels)
    BY DEF StoreInv, Shapes, Agree, ClientTypeOK
  <2>2. listing \in Listings \cup {NoListing}
    BY DEF ListInv, ListingInv
  <2>3. TableTypeOK
    BY <2>2 DEF TableTypeOK, StoreInv, Shapes, Bounded
  <2>4. RedisTypeOK
    BY DEF RedisTypeOK, StoreInv, Shapes, Bounded
  <2> QED
    BY <2>1, <2>3, <2>4 DEF StoreTypeOK, StoreInv
<1> QED
  BY <1>1, <1>2, InitLists, ListsCarried, BoundsCarried, TruthsInvariant, PTL DEF Spec

=============================================================================
