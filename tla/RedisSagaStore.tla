--------------------------- MODULE RedisSagaStore ---------------------------
(***************************************************************************)
(* RedisSagaStore: a saga is the value of a key made of its correlation    *)
(* id, and an index key leads from the saga id to the correlation id.  A   *)
(* call is a sequence of commands; a MULTI ... EXEC block is one of them.  *)
(*                                                                         *)
(* Redis keeps WATCHes per connection, and a store opens one connection:   *)
(* the calls of one process share it, those of several processes do not.   *)
(* EXEC and UNWATCH clear every watch of the connection, whoever set it;   *)
(* an EXEC on a connection of which a watched key was written does nothing *)
(* and answers null.                                                       *)
(***************************************************************************)
EXTENDS StoreClients

CONSTANTS
    Connections,
    MaxRetries     \* the option maxRetries

ASSUME RedisAssumption ==
    MaxRetries \in Nat \ {0}

VARIABLES
    connection,  \* client -> the connection of its process
    kv,          \* correlation id -> the row under its key
    idIndex,     \* saga id -> the correlation id under its index key
    watched,     \* connection -> the keys it watches
    dirty,       \* connection -> a key it watches has been written
    attempt      \* client -> attempts of update's loop so far

redisVars == <<kv, idIndex, watched, dirty, attempt>>

RedisLabels ==
    {"idle", "inserting", "insertExec", "updating", "watch", "check", "exec",
     "unwatch", "catch", "deleting", "del"}

RedisTypeOK ==
    /\ connection \in [Clients -> Connections]
    /\ kv \in [Correlations -> Row \cup {NoRow}]
    /\ idIndex \in [SagaIds -> Correlations \cup {NoCorrelation}]
    /\ watched \in [Connections -> SUBSET Correlations]
    /\ dirty \in [Connections -> BOOLEAN]
    /\ attempt \in [Clients -> 0 .. MaxRetries - 1]

Dedicated == \A c, d \in Clients : c # d => connection[c] # connection[d]
Shared == \A c, d \in Clients : connection[c] = connection[d]

RedisInit ==
    /\ connection \in [Clients -> Connections]
    /\ Dedicated \/ Shared
    /\ kv = [corr \in Correlations |-> NoRow]
    /\ idIndex = [id \in SagaIds |-> NoCorrelation]
    /\ watched = [k \in Connections |-> {}]
    /\ dirty = [k \in Connections |-> FALSE]
    /\ attempt = [c \in Clients |-> 0]

-----------------------------------------------------------------------------
(* Redis. *)

(* A command on a key marks every connection that watches it. *)
Touched(corr) == [k \in Connections |-> dirty[k] \/ corr \in watched[k]]

WATCH(c, corr) ==
    /\ watched' = [watched EXCEPT ![connection[c]] = @ \cup {corr}]
    /\ UNCHANGED dirty

UNWATCH(c) ==
    /\ watched' = [watched EXCEPT ![connection[c]] = {}]
    /\ dirty' = [dirty EXCEPT ![connection[c]] = FALSE]

(* MULTI, SET key, SET index key, EXEC. *)
Aborted(c) == dirty[connection[c]]

ExecWrites(c, row) ==
    /\ ~ Aborted(c)
    /\ kv' = [kv EXCEPT ![row.corr] = row]
    /\ idIndex' = [idIndex EXCEPT ![row.sagaId] = row.corr]
    /\ watched' = [watched EXCEPT ![connection[c]] = {}]
    /\ dirty' = [Touched(row.corr) EXCEPT ![connection[c]] = FALSE]

ExecAborts(c) ==
    /\ Aborted(c)
    /\ UNWATCH(c)
    /\ UNCHANGED <<kv, idIndex>>

(* A step that sends Redis nothing but a read. *)
Reads == UNCHANGED <<kv, idIndex, watched, dirty>>

-----------------------------------------------------------------------------
(* The store. *)

(* A call goes on with its next command. *)
Proceed(c, label) == Goto(c, label) /\ UNCHANGED <<held, mine, result, issued>>

(* An error is on its way out through the catch block. *)
Throw(c, how, label) ==
    /\ Goto(c, label)
    /\ result' = [result EXCEPT ![c] = how]
    /\ UNCHANGED <<held, mine, issued>>

GetByCorrelationId(c, corr) ==
    /\ Decide(c, corr, kv[corr])
    /\ Reads
    /\ UNCHANGED attempt

InsertGet(c) ==
    /\ pc[c] = "inserting"
    /\ IF kv[mine[c].corr] # NoRow
       THEN Return(c, "taken")
       ELSE Proceed(c, "insertExec")
    /\ Reads
    /\ UNCHANGED attempt

(* What EXEC answers is not looked at: aborted or not, the call returns. *)
InsertExec(c) ==
    /\ pc[c] = "insertExec"
    /\ ExecWrites(c, mine[c]) \/ ExecAborts(c)
    /\ Return(c, "ok")
    /\ UNCHANGED attempt

UpdateGetIndex(c) ==
    /\ pc[c] = "updating"
    /\ IF idIndex[mine[c].sagaId] = NoCorrelation
       THEN Return(c, "notFound")
       ELSE Proceed(c, "watch")
    /\ Reads
    /\ UNCHANGED attempt

(* Mutant: the key is not watched. *)
UpdateNoWatch(c) ==
    /\ pc[c] = "watch"
    /\ Proceed(c, "check")
    /\ Reads
    /\ UNCHANGED attempt

UpdateWatch(c) ==
    /\ pc[c] = "watch"
    /\ WATCH(c, mine[c].corr)
    /\ Proceed(c, "check")
    /\ UNCHANGED <<kv, idIndex, attempt>>

UpdateCheck(c) ==
    /\ pc[c] = "check"
    /\ LET existing == kv[mine[c].corr]
           fails == attempt' = [attempt EXCEPT ![c] = 0]
       IN \/ existing = NoRow /\ Throw(c, "notFound", "unwatch") /\ fails
          \/ /\ existing # NoRow
             /\ existing.version # held[c].version
             /\ Throw(c, "conflict", "unwatch") /\ fails
          \/ /\ existing # NoRow
             /\ existing.version = held[c].version
             /\ Proceed(c, "exec") /\ UNCHANGED attempt
    /\ Reads

(* Mutant: an update writes the key and leaves the index to the insert. *)
UpdateExecKeyOnly(c) ==
    /\ pc[c] = "exec"
    /\ ~ Aborted(c)
    /\ kv' = [kv EXCEPT ![mine[c].corr] = mine[c]]
    /\ watched' = [watched EXCEPT ![connection[c]] = {}]
    /\ dirty' = [Touched(mine[c].corr) EXCEPT ![connection[c]] = FALSE]
    /\ Return(c, "ok")
    /\ attempt' = [attempt EXCEPT ![c] = 0]
    /\ UNCHANGED idIndex

UpdateExec(c) ==
    /\ pc[c] = "exec"
    /\ ExecWrites(c, mine[c])
    /\ Return(c, "ok")
    /\ attempt' = [attempt EXCEPT ![c] = 0]

(* Mutant: the loop does not count. *)
UpdateAbortedForever(c) ==
    /\ pc[c] = "exec"
    /\ ExecAborts(c)
    /\ Proceed(c, "watch")
    /\ attempt' = [attempt EXCEPT ![c] = @ + 1]

(* Null: the loop goes round after a delay, maxRetries times in all. *)
UpdateAborted(c) ==
    /\ pc[c] = "exec"
    /\ ExecAborts(c)
    /\ IF attempt[c] < MaxRetries - 1
       THEN Proceed(c, "watch") /\ attempt' = [attempt EXCEPT ![c] = @ + 1]
       ELSE Throw(c, "conflict", "catch") /\ attempt' = [attempt EXCEPT ![c] = 0]

(* Mutant: no UNWATCH anywhere on the way out. *)
UpdateUnwatchForgotten(c) ==
    /\ pc[c] = "unwatch"
    /\ Return(c, result[c])
    /\ Reads
    /\ UNCHANGED attempt

(* The check unwatches before it throws, and the catch block once more. *)
UpdateUnwatch(c) ==
    /\ pc[c] = "unwatch"
    /\ UNWATCH(c)
    /\ Proceed(c, "catch")
    /\ UNCHANGED <<kv, idIndex, attempt>>

UpdateCatch(c) ==
    /\ pc[c] = "catch"
    /\ UNWATCH(c)
    /\ Return(c, result[c])
    /\ UNCHANGED <<kv, idIndex, attempt>>

DeleteGetIndex(c) ==
    /\ pc[c] = "deleting"
    /\ IF idIndex[held[c].sagaId] = NoCorrelation
       THEN Return(c, "ok")
       ELSE Proceed(c, "del")
    /\ Reads
    /\ UNCHANGED attempt

(* DEL of both keys, whatever instance is under the first by now. *)
DeleteDel(c) ==
    /\ pc[c] = "del"
    /\ kv' = [kv EXCEPT ![held[c].corr] = NoRow]
    /\ idIndex' = [idIndex EXCEPT ![held[c].sagaId] = NoCorrelation]
    /\ dirty' = Touched(held[c].corr)
    /\ Return(c, "ok")
    /\ UNCHANGED <<watched, attempt>>

(* completedTtlSeconds: both keys of a completed saga go, set with one TTL. *)
ExpireCompleted(corr) ==
    /\ kv[corr] # NoRow
    /\ kv[corr].isCompleted
    /\ kv' = [kv EXCEPT ![corr] = NoRow]
    /\ idIndex' = [idIndex EXCEPT ![kv[corr].sagaId] = NoCorrelation]
    /\ dirty' = Touched(corr)
    /\ UNCHANGED <<watched, attempt, clientVars>>

RedisNext ==
    \/ \E c \in Clients :
          \/ \E corr \in Correlations : GetByCorrelationId(c, corr)
          \/ InsertGet(c) \/ InsertExec(c)
          \/ UpdateGetIndex(c) \/ UpdateWatch(c) \/ UpdateCheck(c)
          \/ UpdateExec(c) \/ UpdateAborted(c) \/ UpdateUnwatch(c) \/ UpdateCatch(c)
          \/ DeleteGetIndex(c) \/ DeleteDel(c)
    \/ \E corr \in Correlations : ExpireCompleted(corr)

=============================================================================
