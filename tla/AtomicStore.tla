---------------------------- MODULE AtomicStore ----------------------------
(***************************************************************************)
(* What a client may take a saga store for, whichever adapter is behind    *)
(* it: a table of rows on which every call takes effect in one step, at    *)
(* the moment it returns.  There are no statements, watches, indexes or    *)
(* replicas; what other clients do in between shows only in the answer.    *)
(*                                                                         *)
(* The orchestrator's calls are those of SagaStore, refusals included.     *)
(***************************************************************************)
EXTENDS StoreClients

VARIABLES
    rows,     \* saga id -> its row
    traits    \* what the adapters differ in

vars == <<clientVars, rows, traits>>

Traits ==
    [ unique   : BOOLEAN,     \* a correlation id has one instance at a time
      lags     : BOOLEAN,     \* a lookup may return what was stored earlier
      forgives : BOOLEAN ]    \* a delete that failed returns all the same

Init ==
    /\ ClientInit
    /\ rows = [id \in SagaIds |-> NoRow]
    /\ traits \in Traits

Live(id) == rows[id] # NoRow

(* What has been stored under a correlation id so far and may still be shown: its
   instances as they are, or as they were before they were replaced or removed. *)
Former(corr) ==
    {row \in [ sagaId : {id \in SagaIds : issued[id] = corr}, corr : {corr},
               version : 0 .. MaxVersion, isCompleted : BOOLEAN, created : Clock ] :
        rows[row.sagaId] \in {NoRow, row} \/ rows[row.sagaId].version > row.version}

Instances(corr) == {rows[id] : id \in {i \in SagaIds : Live(i) /\ rows[i].corr = corr}}

Finds(corr) ==
    IF traits.lags THEN {NoRow} \cup Former(corr)
    ELSE IF Instances(corr) = {} THEN {NoRow} ELSE Instances(corr)

(* The client always goes on with a call: saying so first spares TLC the search. *)
Lookup(c) ==
    /\ pc[c] = "idle" /\ pc'[c] # "idle"
    /\ UNCHANGED rows
    /\ \E corr \in Correlations : \E found \in Finds(corr) : Decide(c, corr, found)

Taken(row) == Live(row.sagaId) \/ (traits.unique /\ Instances(row.corr) # {})

Insert(c) ==
    /\ pc[c] = "inserting"
    /\ IF Taken(mine[c])
       THEN Return(c, "taken") /\ UNCHANGED rows
       ELSE Return(c, "ok") /\ rows' = [rows EXCEPT ![mine[c].sagaId] = mine[c]]

(* The row that was read is replaced, or the answer says that it is not there. *)
Update(c) ==
    LET id == held[c].sagaId IN
    /\ pc[c] = "updating"
    /\ \/ rows[id] = held[c] /\ Return(c, "ok") /\ rows' = [rows EXCEPT ![id] = mine[c]]
       \/ rows[id] # held[c] /\ Return(c, "conflict") /\ UNCHANGED rows
       \/ ~ Live(id) /\ Return(c, "notFound") /\ UNCHANGED rows

Delete(c) ==
    /\ pc[c] = "deleting"
    /\ Return(c, "ok")
    /\ \/ rows' = [rows EXCEPT ![held[c].sagaId] = NoRow]
       \/ traits.forgives /\ UNCHANGED rows

(* A clean-up, or a time to live: only completed instances. *)
CleanUp ==
    /\ \E old \in SUBSET {id \in SagaIds : Live(id) /\ rows[id].isCompleted} :
          rows' = [id \in SagaIds |-> IF id \in old THEN NoRow ELSE rows[id]]
    /\ UNCHANGED clientVars

Next ==
    /\ \/ \E c \in Clients : Lookup(c) \/ Insert(c) \/ Update(c) \/ Delete(c)
       \/ CleanUp
    /\ UNCHANGED traits

Spec == Init /\ [][Next]_vars

=============================================================================
