------------------------- MODULE MCSagaOrchestrator -------------------------
(***************************************************************************)
(* Instances of SagaOrchestrator for TLC: an order saga that starts,       *)
(* records a payment and completes on shipment once it is paid.            *)
(***************************************************************************)
EXTENDS SagaOrchestrator, FiniteSets, TLC

CONSTANT MaxVersion   \* bound: no row gets past this version

MCMessageTypes == {"OrderSubmitted", "PaymentCaptured", "ShipmentCreated"}

MCData == SUBSET {"paid", "shipped"}

MCHandledTypes == [s \in SagaNames |-> MCMessageTypes]

MCStartTypes == [s \in SagaNames |-> {"OrderSubmitted"}]

MCInitial == [k \in SagaNames \X MCMessageTypes |-> {}]

(* OrderSubmitted asks for the payment and sets a timeout, PaymentCaptured
   clears it, ShipmentCreated is guarded by the payment and completes. *)
MCHandler ==
    [k \in SagaNames \X MCMessageTypes \X MCData |->
        LET type == k[2]
            data == k[3]
        IN CASE type = "OrderSubmitted" ->
                  {[data |-> data, isCompleted |-> FALSE, timeout |-> "set",
                    sends |-> <<"PaymentCaptured">>]}
             [] type = "PaymentCaptured" ->
                  {[data |-> data \cup {"paid"}, isCompleted |-> FALSE,
                    timeout |-> "clear", sends |-> << >>]}
             [] type = "ShipmentCreated" ->
                  IF "paid" \in data
                  THEN {[data |-> data \cup {"shipped"}, isCompleted |-> TRUE,
                         timeout |-> "keep", sends |-> << >>]}
                  ELSE {}]

WithinVersions == \A id \in SagaIds : rows[id] # NoRow => rows[id].version <= MaxVersion

BoundedNext == Next /\ WithinVersions'

BoundedSpec == Init /\ [][BoundedNext]_vars

Symmetry == Permutations(Workers) \cup Permutations(SagaIds)

=============================================================================
