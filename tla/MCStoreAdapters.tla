-------------------------- MODULE MCStoreAdapters --------------------------
(* Two clients, two correlation ids, two instances: enough for twins of one
   saga, a refusal while another saga is untouched, and a second page. *)
EXTENDS StoreAdapters

CONSTANTS c1, c2, k1, k2, p1, p2

Symmetry ==
    Permutations({k1, k2}) \cup Permutations({c1, c2}) \cup Permutations({p1, p2})

(* Bound: createdAt differs only under the adapters that sort a listing by it. *)
OneClock ==
    adapter \notin UniqueAdapters =>
        \A c \in Clients : mine[c] # NoRow => mine[c].created = 1

(* Bound: DynamoDB, which lets several instances have one correlation id, is
   checked with one. *)
OneSaga ==
    adapter = "dynamodb" =>
        \A i, j \in Present(table), c \in Clients :
            /\ table[i].corr = table[j].corr
            /\ mine[c] # NoRow => mine[c].corr = table[i].corr

(* Bound: MySQL, SQL Server and MongoDB run the statements PostgreSQL runs, and are
   followed for one instance. *)
OneInstanceOfTheAlike ==
    adapter \in {"mysql", "sqlserver", "mongo"} => Cardinality(Drawn) <= 1

(* Bound: while a listing of DynamoDB's table is under way, one client at a time is in
   a call, and rows vanish by its deletes and not by a clean-up as well. *)
OneReader ==
    adapter = "dynamodb" /\ listing # NoListing /\ ~ listing.done =>
        /\ sweep = {}
        /\ \A c, d \in Clients : "idle" \in {pc[c], pc[d]} \/ c = d

(* Bound: a behaviour is followed no further than to the end of its listing, which
   touches nothing: what clients do after it, they do without it as well. *)
ListingLast == listing = NoListing \/ ~ listing.done
=============================================================================
