--------------------------- MODULE MCBusLifecycle ---------------------------
(* Instances of BusLifecycle for TLC: two sagas that share a message type. *)
EXTENDS BusLifecycle, TLC

MCEndpoints == {"OrderSubmitted", "OrderCancelled"}

MCHandledEndpoints == <<"OrderSubmitted", "OrderCancelled", "OrderSubmitted">>

OneAtATime == [e \in Endpoints |-> 1]

Symmetry == Permutations(Messages) \cup Permutations(Callers)

=============================================================================
