--------------------------- MODULE StoreAdapters ---------------------------
(***************************************************************************)
(* Every store adapter under the same clients: the adapter is chosen in    *)
(* the initial state.  What the bus and the orchestrator rely on is stated *)
(* once, with the adapters that give it.                                   *)
(***************************************************************************)
EXTENDS TableStores, RedisSagaStore

vars == <<adapter, connection, clientVars, tableVars, redisVars>>

Init ==
    /\ adapter \in TableAdapters \cup {"redis"}
    /\ ClientInit
    /\ TableInit
    /\ RedisInit
    /\ adapter # "redis" => Dedicated

Next ==
    /\ UNCHANGED <<adapter, connection>>
    /\ \/ adapter # "redis" /\ TableNext /\ UNCHANGED redisVars
       \/ adapter = "redis" /\ RedisNext /\ UNCHANGED tableVars

Spec == Init /\ [][Next]_vars

(* The row with an id as the database holds it. *)
Stored(id) ==
    IF adapter # "redis" THEN table[id]
    ELSE IF idIndex[id] # NoCorrelation /\ kv[idIndex[id]] # NoRow /\ kv[idIndex[id]].sagaId = id
         THEN kv[idIndex[id]] ELSE NoRow

(* Redis's watches belong to the call that set them. *)
Isolated == adapter = "redis" => Dedicated

(* Redis's update compares the version of whatever row is under the key by then,
   and not its saga id: it knows an instance by that as long as its correlation id
   never has another. *)
OneInstance ==
    adapter = "redis" =>
        \A i, j \in Drawn : issued[i] = issued[j] => i = j

(* The store as its clients see it: a statement that does not return is part of the
   call it belongs to, and how a call ends is not known before it does. *)
CallOf(label) ==
    CASE label \in {"inserting", "insertExec"} -> "inserting"
      [] label \in {"updating", "rereading", "watch", "check", "exec", "unwatch", "catch"} ->
            "updating"
      [] label \in {"deleting", "del"} -> "deleting"
      [] OTHER -> "idle"

calls == [c \in Clients |-> CallOf(pc[c])]

answers == [c \in Clients |-> IF pc[c] = "idle" THEN result[c] ELSE "ok"]

contents == [id \in SagaIds |-> Stored(id)]

adapterTraits ==
    [ unique   |-> adapter \in UniqueAdapters \cup {"redis"},
      lags     |-> adapter = "dynamodb",
      forgives |-> adapter = "prisma" ]

Atomic == INSTANCE AtomicStore WITH
    pc <- calls, result <- answers, rows <- contents, traits <- adapterTraits

Answers(c, how) == pc'[c] = "idle" /\ pc[c] # "idle" /\ result'[c] = how

-----------------------------------------------------------------------------

(* The variables keep their types. *)
StoreTypeOK ==
    /\ adapter \in TableAdapters \cup {"redis"}
    /\ ClientTypeOK(TableLabels \cup RedisLabels)
    /\ TableTypeOK
    /\ RedisTypeOK

(* Two first messages of one saga race through lookup and insert: with a
   unique index on the correlation id one of the inserts is refused, and
   there are never two instances. *)
OneRowPerKey ==
    adapter \in UniqueAdapters =>
        \A i, j \in Present(table) : table[i].corr = table[j].corr => i = j

(* No lost update: an update that returns has replaced a row of exactly the
   version its caller had read, however many statements of others ran since
   the lookup and however stale the index it read was; and it is that row,
   unless Redis has seen another instance of the correlation id.  In Redis this
   takes a connection per concurrent call. *)
SwapsWhatWasRead ==
    [][\A c \in Clients :
          Isolated /\ pc[c] \in {"updating", "exec"} /\ Answers(c, "ok") =>
              LET old == IF adapter = "redis" THEN kv[held[c].corr] ELSE table[held[c].sagaId]
              IN /\ old # NoRow /\ old.version = held[c].version
                 /\ OneInstance => old = held[c]]_vars

(* An insert that returns has stored its row: no watch left behind by an
   earlier call of the connection makes its EXEC come to nothing. *)
InsertsAreStored ==
    [][\A c \in Clients :
          Isolated /\ pc[c] \in {"inserting", "insertExec"} /\ Answers(c, "ok") =>
              \E row \in {mine[c]} : Stored(row.sagaId)' = row]_vars

(* The two refusals of an update tell the truth, and it stays true: after a
   conflict the row the caller had read is no longer stored, so reading again
   is worth it; after not found there is no row with the id. *)
RejectionsAreTrue ==
    \A c \in Clients :
        pc[c] = "idle" /\ Isolated /\ OneInstance =>
            /\ result[c] = "conflict" => Stored(held[c].sagaId) # held[c]
            /\ result[c] = "notFound" => Stored(held[c].sagaId) = NoRow

(* Only a delete of its own and, once it is completed, a clean-up or its time
   to live remove a saga: a clean-up that works from a list drawn up earlier,
   or from an index that lags, never takes a saga still running. *)
CleanupSparesLive ==
    [][\A id \in SagaIds :
          LET row == Stored(id)
          IN row # NoRow /\ ~ row.isCompleted /\ Stored(id)' = NoRow /\ adapter # "redis" =>
                \E c \in Clients :
                    pc[c] = "deleting" /\ pc'[c] = "idle" /\ held[c].sagaId = id]_vars

(* Every adapter is an atomic store: whatever statements its calls are made of and
   however they interleave, each call takes effect at once when it returns, and
   what it answers is true of the rows at that moment.  In Redis this takes a
   connection per concurrent call, and holds as long as no correlation id has had
   a second instance. *)
ActsAtomically ==
    /\ Atomic!Init
    /\ [][Isolated /\ OneInstance => Atomic!Next]_(Atomic!vars)

(* Redis: a row under its correlation key can be reached by its saga id, which
   is how update and delete find it; also when a late EXEC brings back a key
   that was deleted meanwhile. *)
RowsReachable ==
    \A corr \in Correlations :
        kv[corr] # NoRow => idIndex[kv[corr].sagaId] = corr

(* A listing read to its end has shown every row that was in it all along.
   DynamoDB's continuation keys give this always; LIMIT and OFFSET only when no
   row left the listing between two pages and no two were created at one time. *)
ListingMissesNothing ==
    listing # NoListing /\ listing.done =>
        \/ listing.due \subseteq listing.seen
        \/ adapter # "dynamodb" /\ listing.moved
=============================================================================
