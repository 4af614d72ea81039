----------------------------- MODULE MCSagaBus -----------------------------
(***************************************************************************)
(* Instances of SagaBus for TLC.  An order saga starts on OrderSubmitted,  *)
(* sets a timeout and requests the payment from itself; the request clears *)
(* the timeout; SagaTimeoutExpired completes the saga.  An audit saga that *)
(* starts on OrderSubmitted too makes the type one of two handlers.        *)
(***************************************************************************)
EXTENDS SagaBus, TLC

CONSTANT Slots    \* concurrency of every endpoint's subscription

MCMessageTypes == {"OrderSubmitted", "PaymentRequested", "SagaTimeoutExpired"}

MCWorkers == MCMessageTypes \X (1 .. Slots)

MCEndpoint == [w \in MCWorkers |-> w[1]]

OrderOnly == {"order"}

OrderAndAudit == {"order", "audit"}

MCData == {"new", "open", "paid", "expired"}

MCHandledTypes ==
    [s \in SagaNames |-> IF s = "order" THEN MCMessageTypes
                       ELSE {"OrderSubmitted", "SagaTimeoutExpired"}]

MCStartTypes == [s \in SagaNames |-> {"OrderSubmitted"}]

EveryStart == [s \in SagaNames |-> {"OrderSubmitted", "PaymentRequested"}]

MCInitial == [k \in SagaNames \X MCMessageTypes |-> "new"]

To(data, completed, timeout, sends) ==
    {[data |-> data, isCompleted |-> completed, timeout |-> timeout, sends |-> sends]}

MCHandler ==
    [k \in SagaNames \X MCMessageTypes \X MCData |->
        CASE k[1] = "order" /\ k[2] = "OrderSubmitted" /\ k[3] = "new" ->
                To("open", FALSE, "set", <<"PaymentRequested">>)
          [] k[1] = "order" /\ k[2] = "PaymentRequested" /\ k[3] \in {"new", "open"} ->
                To("paid", FALSE, "clear", << >>)
          [] k[1] = "order" /\ k[2] = "SagaTimeoutExpired" ->
                To("expired", TRUE, "keep", << >>)
          [] OTHER -> {}]

(* An order that sets a timeout when it is new and only then, and sends nothing. *)
MCOnceHandler ==
    [k \in SagaNames \X MCMessageTypes \X MCData |->
        CASE k[2] = "OrderSubmitted" /\ k[3] = "new" -> To("open", FALSE, "set", << >>)
          [] k[2] = "OrderSubmitted" -> To(k[3], FALSE, "keep", << >>)
          [] k[2] = "SagaTimeoutExpired" -> To("expired", TRUE, "keep", << >>)
          [] OTHER -> {}]

(* The same sagas, sending nothing and setting no timeout. *)
MCSilentHandler ==
    [k \in SagaNames \X MCMessageTypes \X MCData |-> To("open", FALSE, "keep", << >>)]

MaxAttemptsOf(n) == [s \in SagaNames |-> n]
TwoAttempts == MaxAttemptsOf(2)
ThreeAttempts == MaxAttemptsOf(3)

(* BusImpl filters the registered sagas, the order saga first, by type. *)
MCHandlers ==
    [t \in MCMessageTypes |->
        SelectSeq(<<"order", "audit">>,
                  LAMBDA s : s \in SagaNames /\ t \in MCHandledTypes[s])]

Input(type, corr) == [type |-> type, corr |-> corr, timer |-> NoTimer]

OneOrder == {Input("OrderSubmitted", c) : c \in CorrelationIds}

OrderAndPayment ==
    OneOrder \cup {Input("PaymentRequested", c) : c \in CorrelationIds \cup {NoCorrelation}}

OneOrderAndStray == OneOrder \cup {Input("OrderSubmitted", NoCorrelation)}

(* A bus with nothing left to do rests; anything else that stops is a deadlock. *)
Rest == Quiet /\ UNCHANGED allVars

MCBusNext == BusNext \/ Rest

MCBusSpec == BusInit /\ [][MCBusNext]_allVars

MCFairBusSpec == MCBusSpec /\ Fairness

(* Nothing goes wrong but the publish of a timeout message, and no middleware keeps a
   message from its handler. *)
OnlyArmingFails ==
    /\ faults' # faults => \E w \in Workers : pc[w] = "arming" /\ pc'[w] = "done"
    /\ \A w \in Workers : Skip(w) => Ignored(w)

MCArmingFailsSpec == BusInit /\ [][MCBusNext /\ OnlyArmingFails]_allVars

Symmetry == Permutations(SagaIds)

=============================================================================
