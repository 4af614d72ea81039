---------------------- MODULE ExampleBusDeliveryProofs ----------------------
(***************************************************************************)
(* Proofs about the example saga under load: what is counted, what is      *)
(* forgotten, what is handled twice, and that a saga which waits for a     *)
(* message of its own is not left waiting.  Unlike the proof that no step  *)
(* is skipped, these depend on who holds which envelope and on what the    *)
(* marks know, so the invariants are about envelopes: an envelope in       *)
(* flight is in the queue, in the hands of some workers, or both.          *)
(***************************************************************************)
EXTENDS ExampleBusProofs

(* The states of one saga. *)
StatesOf(saga) == IF saga = "order" THEN OrderSagaState ELSE LoanApplicationSagaState

(* What a handler may give back: a state of its saga and at most one message;
   and it goes to a status that waits for a message only by publishing it. *)
Proper(S, r) ==
    /\ r.state \in S
    /\ \A m \in r.sends : m \in Message
    /\ \A m, n \in r.sends : m = n
    /\ \A wait \in Waits : r.state.status = wait[1] => Plain(wait[2]) \in r.sends

(* The states with statuses from S and members from M. *)
StateSet(S, M) ==
    [status : S, isCompleted : BOOLEAN, application : Applications, has : SUBSET M]

(* How a handler's result is made up, for the states of either saga. *)
LEMMA GoesShape ==
    ASSUME NEW S, NEW M,
           NEW s \in StateSet(S, M), NEW status \in S, NEW gained \in SUBSET M, NEW sends
    PROVE  /\ Goes(s, status, gained, sends).state \in StateSet(S, M)
           /\ Goes(s, status, gained, sends).state.status = status
           /\ Goes(s, status, gained, sends).state.isCompleted = s.isCompleted
           /\ Goes(s, status, gained, sends).sends = sends
<1> DEFINE t == [s EXCEPT !.status = status, !.has = @ \cup gained]
<1>1. /\ Goes(s, status, gained, sends).state = t
      /\ Goes(s, status, gained, sends).sends = sends
  BY DEF Goes
<1>2. /\ t \in StateSet(S, M)
      /\ t.status = status
      /\ t.isCompleted = s.isCompleted
  BY DEF StateSet
<1> QED
  BY <1>1, <1>2

(* The same of the handlers that complete the saga. *)
LEMMA EndsShape ==
    ASSUME NEW S, NEW M,
           NEW s \in StateSet(S, M), NEW status \in S, NEW gained \in SUBSET M, NEW sends
    PROVE  /\ Ends(s, status, gained, sends).state \in StateSet(S, M)
           /\ Ends(s, status, gained, sends).state.status = status
           /\ Ends(s, status, gained, sends).sends = sends
<1> DEFINE t == [s EXCEPT !.status = status, !.has = @ \cup gained]
           u == [t EXCEPT !.isCompleted = TRUE]
<1>1. /\ Ends(s, status, gained, sends).state = u
      /\ Ends(s, status, gained, sends).sends = sends
  BY DEF Ends, Goes
<1>2. t \in StateSet(S, M) /\ t.status = status
  BY DEF StateSet
<1> HIDE DEF t
<1>3. u \in StateSet(S, M) /\ u.status = status
  BY <1>2 DEF StateSet
<1> QED
  BY <1>1, <1>3

(* The messages that handlers publish are messages. *)
LEMMA PlainMessage ==
    ASSUME NEW t \in LoanMessage \cup OrderMessage
    PROVE  Plain(t) \in Message
BY DEF Plain, Message

(* The handlers of the loan saga. *)
LEMMA LoanHandlersProper ==
    ASSUME NEW s \in LoanApplicationSagaState, NEW m, NEW r,
           \/ r \in LoanApplicationSubmitted(s)
           \/ r \in IdentityVerified(s)
           \/ r \in IdentityVerificationFailed(s)
           \/ r \in CreditCheckCompleted(m, s)
           \/ r \in CreditCheckFailed(s)
           \/ r \in EmploymentVerified(s)
           \/ r \in EmploymentVerificationFailed(s)
           \/ r \in DocumentsReceived(s)
           \/ r \in DocumentsVerified(m, s)
           \/ r \in DocumentVerificationFailed(s)
           \/ r \in AppraisalCompleted(s)
           \/ r \in AppraisalFailed(s)
           \/ r \in UnderwritingApproved(s)
           \/ r \in UnderwritingDenied(s)
           \/ r \in UnderwritingPendingReview(s)
           \/ r \in LoanApproved(s)
           \/ r \in LoanOfferAccepted(s)
           \/ r \in LoanOfferDeclined(s)
           \/ r \in LoanOfferExpired(s)
           \/ r \in DisbursementCompleted(s)
           \/ r \in DisbursementFailed(s)
           \/ r \in ApplicationCancelled(s)
    PROVE  Proper(LoanApplicationSagaState, r)
<1> DEFINE Names == {"identityVerification", "creditCheck", "employmentVerification",
                     "documents", "appraisal", "underwriting", "loan", "offerExpiresAt",
                     "eSignatureId", "disbursement", "cancellation"}
           Sending == {{}} \cup {{Plain(t)} : t \in LoanMessage}
           Calm == LoanApplicationStatus \ {"approved", "documents_verification_failed"}
<1>1. LoanApplicationSagaState = StateSet(LoanApplicationStatus, Names)
  BY DEF StateSet, LoanApplicationSagaState
<1>0. ASSUME NEW status \in LoanApplicationStatus, NEW gained \in SUBSET Names, NEW sends
      PROVE  /\ Goes(s, status, gained, sends).state \in LoanApplicationSagaState
             /\ Goes(s, status, gained, sends).state.status = status
             /\ Goes(s, status, gained, sends).sends = sends
             /\ Ends(s, status, gained, sends).state \in LoanApplicationSagaState
             /\ Ends(s, status, gained, sends).state.status = status
             /\ Ends(s, status, gained, sends).sends = sends
  <2>1. s \in StateSet(LoanApplicationStatus, Names)
    BY <1>1
  <2> HIDE DEF Names
  <2>2. /\ Goes(s, status, gained, sends).state \in StateSet(LoanApplicationStatus, Names)
        /\ Goes(s, status, gained, sends).state.status = status
        /\ Goes(s, status, gained, sends).sends = sends
    BY <2>1, GoesShape
  <2>3. /\ Ends(s, status, gained, sends).state \in StateSet(LoanApplicationStatus, Names)
        /\ Ends(s, status, gained, sends).state.status = status
        /\ Ends(s, status, gained, sends).sends = sends
    BY <2>1, EndsShape
  <2> QED
    BY <1>1, <2>2, <2>3
<1>2. \A sends \in Sending : /\ \A a \in sends : a \in Message
                             /\ \A a, b \in sends : a = b
  BY PlainMessage
<1>3. ASSUME NEW status \in Calm, NEW gained \in SUBSET Names, NEW sends \in Sending
      PROVE  /\ Proper(LoanApplicationSagaState, Goes(s, status, gained, sends))
             /\ Proper(LoanApplicationSagaState, Ends(s, status, gained, sends))
  <2> DEFINE g == Goes(s, status, gained, sends)
             e == Ends(s, status, gained, sends)
  <2>1. status \in LoanApplicationStatus
    OBVIOUS
  <2>2. g.state \in LoanApplicationSagaState /\ g.state.status = status /\ g.sends = sends
    BY <1>0, <2>1
  <2>3. e.state \in LoanApplicationSagaState /\ e.state.status = status /\ e.sends = sends
    BY <1>0, <2>1
  <2>4. status \notin {"approved", "documents_verification_failed"}
    OBVIOUS
  <2> QED
    BY <1>2, <2>2, <2>3, <2>4 DEF Proper, Waits
<1>4. ASSUME NEW gained \in SUBSET Names
      PROVE  /\ Proper(LoanApplicationSagaState,
                       Goes(s, "approved", gained, {Plain("LoanApproved")}))
             /\ Proper(LoanApplicationSagaState,
                       Goes(s, "documents_verification_failed", gained,
                            {Plain("DocumentVerificationFailed")}))
  <2>1. "approved" \in LoanApplicationStatus
          /\ "documents_verification_failed" \in LoanApplicationStatus
    BY DEF LoanApplicationStatus
  <2>2. Plain("LoanApproved") \in Message /\ Plain("DocumentVerificationFailed") \in Message
    BY PlainMessage DEF LoanMessage, OfferMessages, DocumentMessages
  <2> DEFINE a == Goes(s, "approved", gained, {Plain("LoanApproved")})
             d == Goes(s, "documents_verification_failed", gained,
                       {Plain("DocumentVerificationFailed")})
  <2>3. /\ a.state \in LoanApplicationSagaState
        /\ a.state.status = "approved"
        /\ a.sends = {Plain("LoanApproved")}
    BY <1>0, <2>1
  <2>4. /\ d.state \in LoanApplicationSagaState
        /\ d.state.status = "documents_verification_failed"
        /\ d.sends = {Plain("DocumentVerificationFailed")}
    BY <1>0, <2>1
  <2> HIDE DEF a, d
  <2>5. Proper(LoanApplicationSagaState, a)
    BY <2>2, <2>3 DEF Proper, Waits
  <2>6. Proper(LoanApplicationSagaState, d)
    BY <2>2, <2>4 DEF Proper, Waits
  <2> QED
    BY <2>5, <2>6 DEF a, d
<1>5. {"identity_verification_pending", "credit_check_pending", "denied", "cancelled",
       "employment_verification_pending", "documents_requested", "documents_received",
       "appraisal_pending", "underwriting_pending", "underwriting_review", "offer_sent",
       "disbursement_pending", "offer_declined", "offer_expired", "completed"} \subseteq Calm
  BY DEF LoanApplicationStatus
<1>6. {"IdentityVerificationRequested", "CreditCheckRequested", "ApplicationCancelled",
       "UnderwritingDenied", "EmploymentVerificationRequested", "DocumentsRequested",
       "UnderwritingRequested", "AppraisalRequested", "LoanOfferSent",
       "DisbursementRequested", "ApplicationCompleted"} \subseteq LoanMessage
  BY DEF LoanMessage, SubmissionMessages, IdentityMessages, CreditMessages,
         EmploymentMessages, DocumentMessages, AppraisalMessages, UnderwritingMessages,
         OfferMessages, DisbursementMessages, StatusMessages
<1>7. {} \in Sending /\ \A t \in LoanMessage : {Plain(t)} \in Sending
  OBVIOUS
<1> HIDE DEF Sending, Calm
<1>8. CASE \/ r \in LoanApplicationSubmitted(s)
           \/ r \in IdentityVerified(s)
           \/ r \in IdentityVerificationFailed(s)
           \/ r \in CreditCheckFailed(s)
           \/ r \in EmploymentVerified(s)
           \/ r \in EmploymentVerificationFailed(s)
           \/ r \in DocumentsReceived(s)
  BY <1>3, <1>5, <1>6, <1>7, <1>8
     DEF LoanApplicationSubmitted, IdentityVerified, IdentityVerificationFailed,
         CreditCheckFailed, EmploymentVerified, EmploymentVerificationFailed,
         DocumentsReceived, When
<1>9. CASE r \in CreditCheckCompleted(m, s)
  <2>1. \/ r = Ends(s, "denied", {"creditCheck"}, {Plain("UnderwritingDenied")})
        \/ r = Goes(s, "employment_verification_pending", {"creditCheck"},
                    {Plain("EmploymentVerificationRequested")})
        \/ r = Goes(s, "documents_requested", {"creditCheck"}, {Plain("DocumentsRequested")})
    BY <1>9 DEF CreditCheckCompleted, When
  <2>2. {"creditCheck"} \in SUBSET Names
    OBVIOUS
  <2> QED
    BY <1>3, <1>5, <1>6, <1>7, <2>1, <2>2
<1>10. CASE r \in DocumentsVerified(m, s)
  BY <1>3, <1>4, <1>5, <1>6, <1>7, <1>10 DEF DocumentsVerified, When
<1>11. CASE \/ r \in DocumentVerificationFailed(s)
            \/ r \in AppraisalCompleted(s)
            \/ r \in AppraisalFailed(s)
            \/ r \in UnderwritingDenied(s)
            \/ r \in UnderwritingPendingReview(s)
            \/ r \in LoanApproved(s)
            \/ r \in LoanOfferAccepted(s)
  BY <1>3, <1>5, <1>6, <1>7, <1>11
     DEF DocumentVerificationFailed, AppraisalCompleted, AppraisalFailed,
         UnderwritingDenied, UnderwritingPendingReview, LoanApproved, LoanOfferAccepted, When
<1>12. CASE r \in UnderwritingApproved(s)
  BY <1>4, <1>12 DEF UnderwritingApproved, When
<1>13. CASE \/ r \in LoanOfferDeclined(s)
            \/ r \in LoanOfferExpired(s)
            \/ r \in DisbursementCompleted(s)
            \/ r \in DisbursementFailed(s)
            \/ r \in ApplicationCancelled(s)
  BY <1>3, <1>5, <1>6, <1>7, <1>13
     DEF LoanOfferDeclined, LoanOfferExpired, DisbursementCompleted, DisbursementFailed,
         ApplicationCancelled, When
<1> QED
  BY <1>8, <1>9, <1>10, <1>11, <1>12, <1>13

(* And those of the order saga, which waits for nothing of its own. *)
LEMMA OrderHandlersProper ==
    ASSUME NEW s \in OrderSagaState, NEW r,
           \/ r \in OrderSubmitted(s)
           \/ r \in PaymentCaptured(s)
           \/ r \in PaymentFailed(s)
           \/ r \in InventoryReserved(s)
           \/ r \in InventoryReservationFailed(s)
           \/ r \in ShipmentCreated(s)
           \/ r \in OrderCancelled(s)
    PROVE  Proper(OrderSagaState, r)
<1> DEFINE Names == {"transactionId", "reservationId", "trackingNumber", "cancelReason"}
           Sending == {{}} \cup {{Plain(t)} : t \in OrderMessage}
<1>1. OrderSagaState = StateSet(OrderStatus, Names)
  BY DEF StateSet, OrderSagaState
<1>0. ASSUME NEW status \in OrderStatus, NEW gained \in SUBSET Names, NEW sends
      PROVE  /\ Goes(s, status, gained, sends).state \in OrderSagaState
             /\ Goes(s, status, gained, sends).state.status = status
             /\ Goes(s, status, gained, sends).sends = sends
             /\ Ends(s, status, gained, sends).state \in OrderSagaState
             /\ Ends(s, status, gained, sends).state.status = status
             /\ Ends(s, status, gained, sends).sends = sends
  <2>1. s \in StateSet(OrderStatus, Names)
    BY <1>1
  <2> HIDE DEF Names
  <2>2. /\ Goes(s, status, gained, sends).state \in StateSet(OrderStatus, Names)
        /\ Goes(s, status, gained, sends).state.status = status
        /\ Goes(s, status, gained, sends).sends = sends
    BY <2>1, GoesShape
  <2>3. /\ Ends(s, status, gained, sends).state \in StateSet(OrderStatus, Names)
        /\ Ends(s, status, gained, sends).state.status = status
        /\ Ends(s, status, gained, sends).sends = sends
    BY <2>1, EndsShape
  <2> QED
    BY <1>1, <2>2, <2>3
<1>2. \A sends \in Sending : /\ \A a \in sends : a \in Message
                             /\ \A a, b \in sends : a = b
  BY PlainMessage
<1>3. ASSUME NEW status \in OrderStatus, NEW gained \in SUBSET Names, NEW sends \in Sending
      PROVE  /\ Proper(OrderSagaState, Goes(s, status, gained, sends))
             /\ Proper(OrderSagaState, Ends(s, status, gained, sends))
  <2>1. status \notin {"approved", "documents_verification_failed"}
    BY DEF OrderStatus
  <2> DEFINE g == Goes(s, status, gained, sends)
             e == Ends(s, status, gained, sends)
  <2>2. g.state \in OrderSagaState /\ g.state.status = status /\ g.sends = sends
    BY <1>0
  <2>3. e.state \in OrderSagaState /\ e.state.status = status /\ e.sends = sends
    BY <1>0
  <2> QED
    BY <1>2, <2>1, <2>2, <2>3 DEF Proper, Waits
<1>4. {"payment_requested", "inventory_requested", "cancelled", "shipment_requested",
       "shipped"} \subseteq OrderStatus
  BY DEF OrderStatus
<1>5. {"PaymentRequested", "InventoryReserveRequested", "OrderCancelled",
       "ShipmentRequested", "OrderCompleted"} \subseteq OrderMessage
  BY DEF OrderMessage
<1>6. {} \in Sending /\ \A t \in OrderMessage : {Plain(t)} \in Sending
  OBVIOUS
<1> HIDE DEF Sending
<1> QED
  BY <1>3, <1>4, <1>5, <1>6
     DEF OrderSubmitted, PaymentCaptured, PaymentFailed, InventoryReserved,
         InventoryReservationFailed, ShipmentCreated, OrderCancelled, When

(* So what the orchestrator saves is a state of the saga, and what is published
   on the way is at most one message; a message the saga waits for never leaves
   it waiting. *)
LEMMA ResultProper ==
    ASSUME NEW saga \in {"order", "loan"}, NEW s \in StatesOf(saga),
           NEW m, m.type \in HandledTypes(saga)
    PROVE  /\ Result(m, s).state \in StatesOf(saga)
           /\ \A x \in Result(m, s).sends : x \in Message
           /\ \A x, y \in Result(m, s).sends : x = y
           /\ \A wait \in Waits :
                 Result(m, s).state.status = wait[1] =>
                     /\ m.type # wait[2]
                     /\ s.status = wait[1] \/ Plain(wait[2]) \in Result(m, s).sends
<1>1. ASSUME NEW r \in Results(m, s)
      PROVE  Proper(StatesOf(saga), r)
  <2>1. CASE saga = "order"
    <3>1. \/ r \in OrderSubmitted(s)
          \/ r \in PaymentCaptured(s)
          \/ r \in PaymentFailed(s)
          \/ r \in InventoryReserved(s)
          \/ r \in InventoryReservationFailed(s)
          \/ r \in ShipmentCreated(s)
          \/ r \in OrderCancelled(s)
      BY <1>1, <2>1 DEF Results, HandledTypes, OrderHandled, OrderMessage
    <3> QED
      BY <3>1, <2>1, OrderHandlersProper DEF StatesOf
  <2>2. CASE saga = "loan"
    <3>1. m.type \in LoanMessage
      BY <2>2 DEF HandledTypes, LoanHandled
    <3>2. m.type \notin {"OrderSubmitted", "PaymentCaptured", "PaymentFailed",
                         "InventoryReserved", "InventoryReservationFailed",
                         "ShipmentCreated", "OrderCancelled"}
      BY <3>1 DEF LoanMessage, SubmissionMessages, IdentityMessages, CreditMessages,
                  EmploymentMessages, DocumentMessages, AppraisalMessages,
                  UnderwritingMessages, OfferMessages, DisbursementMessages, StatusMessages
    <3>3. \/ r \in LoanApplicationSubmitted(s)
          \/ r \in IdentityVerified(s)
          \/ r \in IdentityVerificationFailed(s)
          \/ r \in CreditCheckCompleted(m, s)
          \/ r \in CreditCheckFailed(s)
          \/ r \in EmploymentVerified(s)
          \/ r \in EmploymentVerificationFailed(s)
          \/ r \in DocumentsReceived(s)
          \/ r \in DocumentsVerified(m, s)
          \/ r \in DocumentVerificationFailed(s)
          \/ r \in AppraisalCompleted(s)
          \/ r \in AppraisalFailed(s)
          \/ r \in UnderwritingApproved(s)
          \/ r \in UnderwritingDenied(s)
          \/ r \in UnderwritingPendingReview(s)
          \/ r \in LoanApproved(s)
          \/ r \in LoanOfferAccepted(s)
          \/ r \in LoanOfferDeclined(s)
          \/ r \in LoanOfferExpired(s)
          \/ r \in DisbursementCompleted(s)
          \/ r \in DisbursementFailed(s)
          \/ r \in ApplicationCancelled(s)
      BY <1>1, <3>2 DEF Results
    <3> QED
      BY <3>3, <2>2, LoanHandlersProper DEF StatesOf
  <2> QED
    BY <2>1, <2>2
<1>2. Results(m, s) # {} => Result(m, s) \in Results(m, s)
  BY DEF Result
<1>3. Results(m, s) = {} => Result(m, s).state = s /\ Result(m, s).sends = {}
  BY DEF Result
<1> DEFINE Reaches(status, gained, sends) ==
               Goes(s, status, gained, sends).state.status = status
<1>0. \A status, gained, sends : Reaches(status, gained, sends)
  <2>1. CASE saga = "order"
    BY <2>1 DEF Goes, StatesOf, OrderSagaState
  <2>2. CASE saga = "loan"
    BY <2>2 DEF Goes, StatesOf, LoanApplicationSagaState
  <2> QED
    BY <2>1, <2>2
<1>4. ASSUME m.type = "LoanApproved", Result(m, s).state.status = "approved"
      PROVE  FALSE
  <2>1. Results(m, s) = LoanApproved(s)
    BY <1>4 DEF Results
  <2>2. CASE s.status = "approved"
    <3>1. /\ Result(m, s) \in LoanApproved(s)
          /\ LoanApproved(s) =
                {Goes(s, "offer_sent", {"offerExpiresAt"}, {Plain("LoanOfferSent")})}
      BY <2>1, <2>2, <1>2 DEF LoanApproved, When
    <3> QED
      BY <3>1, <1>4, <1>0
  <2>3. CASE s.status # "approved"
    BY <2>1, <2>3, <1>3, <1>4 DEF LoanApproved, When
  <2> QED
    BY <2>2, <2>3
<1>5. ASSUME m.type = "DocumentVerificationFailed",
             Result(m, s).state.status = "documents_verification_failed"
      PROVE  FALSE
  <2>1. Results(m, s) = DocumentVerificationFailed(s)
    BY <1>5 DEF Results
  <2>2. CASE s.status \in {"documents_received", "documents_verification_failed"}
    <3>1. /\ Result(m, s) \in DocumentVerificationFailed(s)
          /\ DocumentVerificationFailed(s) =
                {Goes(s, "documents_requested", {}, {Plain("DocumentsRequested")})}
      BY <2>1, <2>2, <1>2 DEF DocumentVerificationFailed, When
    <3> QED
      BY <3>1, <1>5, <1>0
  <2>3. CASE s.status \notin {"documents_received", "documents_verification_failed"}
    BY <2>1, <2>3, <1>3, <1>5 DEF DocumentVerificationFailed, When
  <2> QED
    BY <2>2, <2>3
<1>6. \A wait \in Waits : Result(m, s).state.status = wait[1] => m.type # wait[2]
  BY <1>4, <1>5 DEF Waits
<1>7. CASE Results(m, s) = {}
  BY <1>3, <1>6, <1>7
<1>8. CASE Results(m, s) # {}
  <2>1. Proper(StatesOf(saga), Result(m, s))
    BY <1>1, <1>2, <1>8
  <2> QED
    BY <2>1, <1>6 DEF Proper
<1> QED
  BY <1>7, <1>8

(* The factories make states of their saga. *)
LEMMA InitialTyped ==
    ASSUME NEW saga \in {"order", "loan"}, NEW application \in Applications
    PROVE  Initial(saga, application) \in StatesOf(saga)
BY DEF Initial, OrderInitial, LoanInitial, StatesOf, OrderSagaState, LoanApplicationSagaState,
       OrderStatus, LoanApplicationStatus

-----------------------------------------------------------------------------

Labels == {"idle", "loaded", "marking", "inside", "saving", "arming", "returned", "failed",
           "refused", "skipped", "done"}

(* What the broker delivers: envelopes the saga's bus is subscribed to. *)
Deliverable(saga) == {e \in Envelopes : e.message.type \in HandledTypes(saga)}

SlotsOf(saga) ==
    [pc : Labels, env : Deliverable(saga) \cup {NoEnvelope},
     held : StatesOf(saga) \cup {NoSaga}, stale : BOOLEAN, isNew : BOOLEAN, of : Nat,
     leased : BOOLEAN, counts : SUBSET {"created", "completed"}]

(* A worker is idle when it has no envelope, and only then. *)
Placed(x) == x.pc = "idle" <=> x.env = NoEnvelope

SlotsTyped ==
    /\ slot \in [Workers -> SlotsOf(setup.saga)]
    /\ \A w \in Workers : Placed(slot[w])

CountersTyped ==
    /\ DOMAIN counters = {"created", "completed"}
    /\ counters.created \in Nat /\ counters.completed \in Nat

GhostsTyped ==
    /\ processedTwice \subseteq processed /\ processed \subseteq Ids /\ settled \subseteq Ids
    /\ ~ Stack => processed = {}
    /\ dlq \subseteq {wait[2] : wait \in Waits}
    /\ forgotten \in BOOLEAN

FaultsTyped == faults \subseteq {"fault", "error", "crash", "overlap", "late", "expired"}

TypeInv ==
    /\ setup \in Setups
    /\ row \in StatesOf(setup.saga) \cup {NoSaga}
    /\ instances \in Nat
    /\ queue \subseteq Deliverable(setup.saga)
    /\ SlotsTyped
    /\ marks \subseteq Ids
    /\ CountersTyped
    /\ GhostsTyped
    /\ FaultsTyped

(* A setup is one of the assumed ones. *)
LEMMA SetupTyped ==
    ASSUME NEW s \in Setups
    PROVE  /\ s.saga \in {"order", "loan"}
           /\ s.application \in Applications
           /\ s.unique \in BOOLEAN
           /\ s.idempotency \in {"none", "before", "after"}
           /\ s.onDuplicate \in {"skip", "throw"}
           /\ s.onInvalid \in {"none", "throw", "skip", "dlq"}
<1>1. s \in [saga : {"order", "loan"}, application : Applications,
             unique : BOOLEAN, idempotency : {"none", "before", "after"},
             onDuplicate : {"skip", "throw"}, onInvalid : {"none", "throw", "skip", "dlq"}]
  BY ExampleBusAssumption
<1> QED
  BY <1>1

(* NoSaga and NoEnvelope are neither states nor envelopes. *)
LEMMA NothingIsNothing ==
    ASSUME NEW saga
    PROVE  NoSaga \notin StatesOf(saga) /\ NoEnvelope \notin Deliverable(saga)
BY NoEnvelopeAssumption DEF StatesOf, Sagas, Deliverable

(* The records that Past and Holding make. *)
LEMMA PastShape ==
    ASSUME NEW w, NEW label, NEW counts
    PROVE  Past(w, label, counts) =
               [pc |-> label, env |-> slot[w].env, held |-> NoSaga, stale |-> FALSE,
                isNew |-> FALSE, of |-> 0, leased |-> slot[w].leased, counts |-> counts]
<1>1. Idle \in [pc : {"idle"}, env : {NoEnvelope}, held : {NoSaga}, stale : {FALSE},
                isNew : {FALSE}, of : {0}, leased : {FALSE}, counts : {{}}]
  BY DEF Idle
<1>2. Past(w, label, counts) \in
         [pc : {label}, env : {slot[w].env}, held : {NoSaga}, stale : {FALSE},
          isNew : {FALSE}, of : {0}, leased : {slot[w].leased}, counts : {counts}]
  BY <1>1 DEF Past
<1> QED
  BY <1>2

(* The same of a worker that is given an envelope. *)
LEMMA HoldingShape ==
    ASSUME NEW e
    PROVE  Holding(e) =
               [pc |-> IF setup.idempotency = "none" THEN "inside" ELSE "loaded", env |-> e,
                held |-> row, stale |-> FALSE, isNew |-> (row = NoSaga), of |-> instances,
                leased |-> TRUE, counts |-> {}]
<1>1. Idle \in [pc : {"idle"}, env : {NoEnvelope}, held : {NoSaga}, stale : {FALSE},
                isNew : {FALSE}, of : {0}, leased : {FALSE}, counts : {{}}]
  BY DEF Idle
<1>2. Holding(e) \in
         [pc : {IF setup.idempotency = "none" THEN "inside" ELSE "loaded"}, env : {e},
          held : {row}, stale : {FALSE}, isNew : {row = NoSaga}, of : {instances},
          leased : {TRUE}, counts : {{}}]
  BY <1>1 DEF Holding
<1> QED
  BY <1>2

(* A worker that has left the handler. *)
LEMMA PastTyped ==
    ASSUME SlotsTyped, NEW w \in Workers, slot[w].pc # "idle",
           NEW label \in Labels \ {"idle"}, NEW counts \in SUBSET {"created", "completed"}
    PROVE  /\ Past(w, label, counts) \in SlotsOf(setup.saga)
           /\ Placed(Past(w, label, counts))
BY PastShape DEF SlotsTyped, SlotsOf, Placed

(* And one that is given an envelope. *)
LEMMA HoldingTyped ==
    ASSUME NEW e \in Deliverable(setup.saga), row \in StatesOf(setup.saga) \cup {NoSaga},
           instances \in Nat
    PROVE  Holding(e) \in SlotsOf(setup.saga) /\ Placed(Holding(e))
BY HoldingShape, NothingIsNothing DEF SlotsOf, Placed, Labels

(* A worker that goes on with what it has. *)
LEMMA GoOnTyped ==
    ASSUME SlotsTyped, NEW w \in Workers, slot[w].pc # "idle", NEW label \in Labels \ {"idle"}
    PROVE  /\ [slot[w] EXCEPT !.pc = label] \in SlotsOf(setup.saga)
           /\ Placed([slot[w] EXCEPT !.pc = label])
BY DEF SlotsTyped, SlotsOf, Placed

(* The slot of a worker whose insert has been taken. *)
Created(w) ==
    [pc |-> slot[w].pc, env |-> slot[w].env, held |-> Initial(setup.saga, setup.application),
     stale |-> slot[w].stale, isNew |-> slot[w].isNew, of |-> instances',
     leased |-> slot[w].leased, counts |-> slot[w].counts]

LEMMA CreatedSlot ==
    ASSUME TypeInv, NEW w \in Workers, Create(w), row = NoSaga \/ ~ setup.unique
    PROVE  /\ slot' = [slot EXCEPT ![w] = Created(w)]
           /\ Created(w) \in SlotsOf(setup.saga) /\ Placed(Created(w))
           /\ row' = Initial(setup.saga, setup.application)
           /\ row' \in StatesOf(setup.saga)
           /\ instances' = instances + 1
<1> DEFINE first == Initial(setup.saga, setup.application)
           t == [slot[w] EXCEPT !.held = first]
           x == [t EXCEPT !.of = instances']
<1>1. first \in StatesOf(setup.saga)
  BY SetupTyped, InitialTyped DEF TypeInv
<1> HIDE DEF first
<1>2. row' = first /\ slot' = [slot EXCEPT ![w] = x] /\ instances' = instances + 1
  BY DEF Create, first
<1>3. instances' \in Nat /\ slot[w] \in SlotsOf(setup.saga) /\ Placed(slot[w])
  BY <1>2 DEF TypeInv, SlotsTyped
<1>4. t = [pc |-> slot[w].pc, env |-> slot[w].env, held |-> first, stale |-> slot[w].stale,
           isNew |-> slot[w].isNew, of |-> slot[w].of, leased |-> slot[w].leased,
           counts |-> slot[w].counts]
  BY <1>3 DEF SlotsOf
<1> HIDE DEF t
<1>5. x = Created(w)
  BY <1>4 DEF Created, first
<1>6. Created(w) \in SlotsOf(setup.saga) /\ Placed(Created(w))
  BY <1>1, <1>3 DEF Created, SlotsOf, Placed, first
<1> QED
  BY <1>1, <1>2, <1>5, <1>6 DEF first

(* A worker that has nothing to do. *)
LEMMA IdleTyped ==
    ASSUME NEW saga
    PROVE  Idle \in SlotsOf(saga) /\ Placed(Idle)
BY DEF Idle, SlotsOf, Placed, Labels

(* One worker's slot changes. *)
LEMMA OneSlotTyped ==
    ASSUME SlotsTyped, NEW w \in Workers, NEW x \in SlotsOf(setup.saga), Placed(x),
           slot' = [slot EXCEPT ![w] = x], setup' = setup
    PROVE  SlotsTyped'
<1>1. slot' \in [Workers -> SlotsOf(setup.saga)]
  BY DEF SlotsTyped
<1>2. \A v \in Workers : slot'[v] = IF v = w THEN x ELSE slot[v]
  BY DEF SlotsTyped
<1>3. \A v \in Workers : Placed(slot'[v])
  BY <1>2 DEF SlotsTyped
<1> QED
  BY <1>1, <1>3 DEF SlotsTyped, Placed

(* What a worker is busy with can be handled, and gives a proper result. *)
LEMMA HeldResult ==
    ASSUME TypeInv, NEW w \in Workers, slot[w].held # NoSaga, slot[w].pc # "idle"
    PROVE  LET result == Result(slot[w].env.message, slot[w].held)
           IN /\ result.state \in StatesOf(setup.saga)
              /\ \A x \in result.sends : x \in Message
              /\ \A x, y \in result.sends : x = y
              /\ \A wait \in Waits :
                    result.state.status = wait[1] =>
                        /\ slot[w].env.message.type # wait[2]
                        /\ slot[w].held.status = wait[1] \/ Plain(wait[2]) \in result.sends
<1>1. slot[w] \in SlotsOf(setup.saga) /\ slot[w].env # NoEnvelope
  BY DEF TypeInv, SlotsTyped, Placed
<1>2. slot[w].held \in StatesOf(setup.saga) /\ slot[w].env \in Deliverable(setup.saga)
  BY <1>1 DEF SlotsOf
<1>3. setup.saga \in {"order", "loan"}
  BY SetupTyped DEF TypeInv
<1> QED
  BY <1>2, <1>3, ResultProper DEF Deliverable

(* A new envelope can be delivered to the saga's bus. *)
LEMMA EnvelopeTyped ==
    ASSUME NEW m \in Message, m.type \in HandledTypes(setup.saga), NEW valid \in BOOLEAN,
           NEW i \in Ids
    PROVE  Envelope(m, valid, i) \in Deliverable(setup.saga)
BY ExampleBusAssumption DEF Envelope, Envelopes, Deliverable

(* A retry is the same message once more. *)
LEMMA RetryTyped ==
    ASSUME NEW e \in Deliverable(setup.saga), e.attempt < MaxAttempts, NEW i \in Ids
    PROVE  [e EXCEPT !.id = i, !.attempt = @ + 1] \in Deliverable(setup.saga)
<1> DEFINE f == [e EXCEPT !.id = i, !.attempt = @ + 1]
<1>1. e \in Envelopes /\ e.message.type \in HandledTypes(setup.saga)
  BY DEF Deliverable
<1>2. e.attempt + 1 \in 1 .. MaxAttempts
  BY <1>1, ExampleBusAssumption DEF Envelopes
<1>3. f \in Envelopes
  BY <1>1, <1>2 DEF Envelopes
<1>4. f.message = e.message
  BY <1>1 DEF Envelopes
<1> QED
  BY <1>1, <1>3, <1>4 DEF Deliverable

(* Types before the first message. *)
LEMMA InitTyped == Init => TypeInv
<1> SUFFICES ASSUME Init PROVE TypeInv
  OBVIOUS
<1>1. SlotsTyped
  BY IdleTyped DEF Init, SlotsTyped
<1>2. CountersTyped /\ GhostsTyped /\ FaultsTyped
  BY DEF Init, CountersTyped, GhostsTyped, FaultsTyped
<1> QED
  BY <1>1, <1>2 DEF Init, TypeInv

(* Every action keeps the types. *)
LEMMA NextTyped == TypeInv /\ SoundInv /\ [Next]_vars => TypeInv'
<1> SUFFICES ASSUME TypeInv, SoundInv, [Next]_vars PROVE TypeInv'
  OBVIOUS
<1> USE DEF TypeInv
<1>0. setup.saga \in {"order", "loan"} /\ setup.application \in Applications
  BY SetupTyped
<1>1. CASE UNCHANGED vars
  BY <1>1 DEF vars, SlotsTyped, CountersTyped, GhostsTyped, FaultsTyped, Stack
<1>2. CASE Reply
  <2>1. PICK m \in Replies(setup.saga), valid \in BOOLEAN, i \in FreeIds :
           queue' = queue \cup {Envelope(m, valid, i)}
    BY <1>2 DEF Reply
  <2>2. Envelope(m, valid, i) \in Deliverable(setup.saga)
    BY <2>1, <1>0, RepliesAssumption, EnvelopeTyped DEF FreeIds
  <2> QED
    BY <1>2, <2>1, <2>2 DEF Reply, SlotsTyped, CountersTyped, GhostsTyped, FaultsTyped, Stack,
                            ghosts
<1>3. ASSUME NEW w \in Workers, NEW e \in queue, Deliver(w, e) PROVE TypeInv'
  <2>1. SlotsTyped'
    BY <1>3, HoldingTyped, OneSlotTyped DEF Deliver
  <2> QED
    BY <1>3, <2>1 DEF Deliver, CountersTyped, GhostsTyped, FaultsTyped, Stack, ghosts
<1>4. ASSUME NEW w \in Workers, CheckMark(w) PROVE TypeInv'
  <2>1. slot[w].pc # "idle"
    BY <1>4 DEF CheckMark
  <2>2. PICK x \in SlotsOf(setup.saga) : Placed(x) /\ slot' = [slot EXCEPT ![w] = x]
    BY <1>4, <2>1, PastTyped, GoOnTyped DEF CheckMark, Throws, Labels
  <2> QED
    BY <1>4, <2>2, OneSlotTyped DEF CheckMark, CountersTyped, GhostsTyped, FaultsTyped, Stack,
                                    ghosts
<1>5. ASSUME NEW w \in Workers, MarkBefore(w) PROVE TypeInv'
  <2>1. slot[w].pc # "idle"
    BY <1>5 DEF MarkBefore
  <2>2. SlotsTyped'
    BY <1>5, <2>1, GoOnTyped, OneSlotTyped DEF MarkBefore, Labels
  <2>3. slot[w].env.id \in Ids
    BY <2>1 DEF SlotsTyped, SlotsOf, Placed, Deliverable, Envelopes
  <2> QED
    BY <1>5, <2>2, <2>3 DEF MarkBefore, CountersTyped, GhostsTyped, FaultsTyped, Stack, ghosts
<1>6. ASSUME NEW w \in Workers, Invalid(w) \/ Ignore(w) \/ Arm(w) PROVE TypeInv'
  <2>1. slot[w].pc # "idle"
    BY <1>6 DEF Invalid, Ignore, Arm
  <2>0. slot[w].counts \in SUBSET {"created", "completed"}
    BY DEF SlotsTyped, SlotsOf
  <2>2. PICK label \in Labels \ {"idle"}, counts \in SUBSET {"created", "completed"} :
           slot' = [slot EXCEPT ![w] = Past(w, label, counts)]
    BY <1>6, <2>0 DEF Invalid, Ignore, Arm, Throws, Returns, Back, Labels
  <2>3. SlotsTyped'
    BY <1>6, <2>1, <2>2, PastTyped, OneSlotTyped DEF Invalid, Ignore, Arm
  <2>4. slot[w].env.origin \in Ids
    BY <2>1 DEF SlotsTyped, SlotsOf, Placed, Deliverable, Envelopes
  <2>5. settled' \subseteq Ids /\ dlq' \subseteq {wait[2] : wait \in Waits}
    BY <1>6, <2>4 DEF Invalid, Ignore, Arm, Throws, Returns, DeadLetter, GhostsTyped
  <2> QED
    BY <1>6, <2>3, <2>5 DEF Invalid, Ignore, Arm, CountersTyped, GhostsTyped, FaultsTyped, Stack
<1>7. ASSUME NEW w \in Workers, Create(w) PROVE TypeInv'
  <2>1. slot[w].pc # "idle"
    BY <1>7 DEF Create
  <2>2. CASE row = NoSaga \/ ~ setup.unique
    <3>1. SlotsTyped' /\ row' \in StatesOf(setup.saga) /\ instances' \in Nat
      BY <1>7, <2>2, CreatedSlot, OneSlotTyped DEF Create
    <3> QED
      BY <1>7, <3>1 DEF Create, CountersTyped, GhostsTyped, FaultsTyped, Stack, ghosts
  <2>3. CASE ~ (row = NoSaga \/ ~ setup.unique)
    <3>1. SlotsTyped'
      BY <1>7, <2>1, <2>3, PastTyped, OneSlotTyped DEF Create, Throws, Labels
    <3> QED
      BY <1>7, <2>3, <3>1 DEF Create, CountersTyped, GhostsTyped, FaultsTyped, Stack, ghosts
  <2> QED
    BY <2>2, <2>3
<1>8. ASSUME NEW w \in Workers, HandleMessage(w) PROVE TypeInv'
  <2>1. slot[w].pc # "idle" /\ slot[w].held # NoSaga
    BY <1>8 DEF HandleMessage
  <2>2. SlotsTyped'
    BY <1>8, <2>1, GoOnTyped, OneSlotTyped DEF HandleMessage, Labels
  <2>3. PICK i \in FreeIds :
           queue' = queue \cup {Envelope(m, TRUE, i) :
                                   m \in Own(Result(slot[w].env.message, slot[w].held).sends)}
    BY <1>8 DEF HandleMessage
  <2>4. \A m \in Own(Result(slot[w].env.message, slot[w].held).sends) :
           Envelope(m, TRUE, i) \in Deliverable(setup.saga)
    BY <2>1, <2>3, HeldResult, EnvelopeTyped DEF Own, FreeIds
  <2> QED
    BY <1>8, <2>2, <2>3, <2>4 DEF HandleMessage, CountersTyped, GhostsTyped, FaultsTyped, Stack,
                                  ghosts
<1>9. ASSUME NEW w \in Workers, Save(w) PROVE TypeInv'
  <2>1. slot[w].pc # "idle" /\ slot[w].held # NoSaga
    BY <1>9 DEF Save, SoundInv, HeldSound
  <2> DEFINE saved == Result(slot[w].env.message, slot[w].held).state
             Staled(v) == [slot[v] EXCEPT !.stale = @ \/ slot[v].of = slot[w].of]
  <2>2. row' \in StatesOf(setup.saga) \cup {NoSaga}
    <3>1. row' \in {saved, row}
      BY <1>9 DEF Save
    <3> QED
      BY <3>1, <2>1, HeldResult
  <2>3. PICK label \in {"arming", "returned", "done"} :
           slot' = [v \in Workers |->
                       IF v = w THEN Past(w, label, Counts(w, saved)) ELSE Staled(v)]
    BY <1>9 DEF Save, Back
  <2>4. Counts(w, saved) \in SUBSET {"created", "completed"}
    BY DEF Counts
  <2>5. \A v \in Workers : Staled(v) \in SlotsOf(setup.saga) /\ Placed(Staled(v))
    <3>1. ASSUME NEW v \in Workers, NEW b \in BOOLEAN
          PROVE  /\ [slot[v] EXCEPT !.stale = b] \in SlotsOf(setup.saga)
                 /\ Placed([slot[v] EXCEPT !.stale = b])
      BY DEF SlotsTyped, SlotsOf, Placed
    <3>2. \A v \in Workers : slot[v].stale \in BOOLEAN
      BY DEF SlotsTyped, SlotsOf
    <3> QED
      BY <3>1, <3>2
  <2> HIDE DEF saved, Staled
  <2>6. /\ Past(w, label, Counts(w, saved)) \in SlotsOf(setup.saga)
        /\ Placed(Past(w, label, Counts(w, saved)))
    BY <2>1, <2>4, PastTyped DEF Labels
  <2>7. \A v \in Workers : slot'[v] \in SlotsOf(setup.saga) /\ Placed(slot'[v])
    BY <2>3, <2>5, <2>6
  <2>8. slot' \in [Workers -> SlotsOf(setup.saga)]
    BY <2>3, <2>7
  <2>9. SlotsTyped'
    BY <1>9, <2>7, <2>8 DEF SlotsTyped, Placed, Save
  <2>10. slot[w].env.origin \in Ids
    BY <2>1 DEF SlotsTyped, SlotsOf, Placed, Deliverable, Envelopes
  <2>11. GhostsTyped'
    BY <1>9, <2>10 DEF Save, GhostsTyped, Stack
  <2> QED
    BY <1>9, <2>2, <2>9, <2>11 DEF Save, CountersTyped, FaultsTyped
<1>10. ASSUME NEW w \in Workers, Loses(w) PROVE TypeInv'
  <2>1. slot[w].pc # "idle"
    BY <1>10 DEF Loses
  <2>2. SlotsTyped'
    BY <1>10, <2>1, PastTyped, OneSlotTyped DEF Loses, Throws, Labels
  <2> QED
    BY <1>10, <2>2 DEF Loses, CountersTyped, GhostsTyped, FaultsTyped, Stack, ghosts
<1>11. ASSUME NEW w \in Workers, Leave(w) PROVE TypeInv'
  <2>1. slot[w].pc # "idle"
    BY <1>11 DEF Leave
  <2>2. SlotsTyped'
    BY <1>11, <2>1, PastTyped, OneSlotTyped DEF Leave, Labels
  <2>3. slot[w].env.id \in Ids
    BY <2>1 DEF SlotsTyped, SlotsOf, Placed, Deliverable, Envelopes
  <2>4. CountersTyped'
    BY <1>11 DEF Leave, CountersTyped, Counted
  <2> QED
    BY <1>11, <2>2, <2>3, <2>4 DEF Leave, GhostsTyped, FaultsTyped, Stack, ghosts
<1>12. ASSUME NEW w \in Workers, Retry(w) PROVE TypeInv'
  <2>1. slot[w].pc # "idle"
    BY <1>12 DEF Retry
  <2>2. SlotsTyped'
    BY <1>12, <2>1, PastTyped, OneSlotTyped DEF Retry, Labels
  <2>3. slot[w].env \in Deliverable(setup.saga) /\ slot[w].env.origin \in Ids
    BY <2>1 DEF SlotsTyped, SlotsOf, Placed, Deliverable, Envelopes
  <2>4. CASE slot[w].pc = "failed" /\ slot[w].env.attempt < MaxAttempts
    <3>1. PICK i \in FreeIds :
             queue' = queue \cup {[slot[w].env EXCEPT !.id = i, !.attempt = @ + 1]}
      BY <1>12, <2>4 DEF Retry
    <3>2. [slot[w].env EXCEPT !.id = i, !.attempt = @ + 1] \in Deliverable(setup.saga)
      BY <2>3, <2>4, RetryTyped DEF FreeIds
    <3>3. queue' \subseteq Deliverable(setup.saga)
      BY <3>1, <3>2
    <3>4. settled' = settled /\ dlq' = dlq
      BY <1>12, <2>4 DEF Retry
    <3> QED
      BY <1>12, <2>2, <3>3, <3>4 DEF Retry, CountersTyped, GhostsTyped, FaultsTyped, Stack
  <2>5. CASE ~ (slot[w].pc = "failed" /\ slot[w].env.attempt < MaxAttempts)
    BY <1>12, <2>2, <2>3, <2>5
       DEF Retry, DeadLetter, CountersTyped, GhostsTyped, FaultsTyped, Stack
  <2> QED
    BY <2>4, <2>5
<1>13. ASSUME NEW w \in Workers, Ack(w) PROVE TypeInv'
  <2>1. slot' = [v \in Workers |->
                    IF v = w THEN Idle
                    ELSE [slot[v] EXCEPT !.leased = @ /\ slot[v].env # slot[w].env]]
    BY <1>13 DEF Ack
  <2>2. \A v \in Workers :
           /\ [slot[v] EXCEPT !.leased = @ /\ slot[v].env # slot[w].env]
                 \in SlotsOf(setup.saga)
           /\ Placed([slot[v] EXCEPT !.leased = @ /\ slot[v].env # slot[w].env])
    <3>1. ASSUME NEW v \in Workers, NEW b \in BOOLEAN
          PROVE  /\ [slot[v] EXCEPT !.leased = b] \in SlotsOf(setup.saga)
                 /\ Placed([slot[v] EXCEPT !.leased = b])
      BY DEF SlotsTyped, SlotsOf, Placed
    <3> QED
      BY <3>1
  <2>3. \A v \in Workers : slot'[v] \in SlotsOf(setup.saga) /\ Placed(slot'[v])
    BY <2>1, <2>2, IdleTyped
  <2>4. slot' \in [Workers -> SlotsOf(setup.saga)]
    BY <2>1, <2>3
  <2>5. SlotsTyped'
    BY <1>13, <2>3, <2>4 DEF SlotsTyped, Placed, Ack
  <2>6. GhostsTyped'
    BY <1>13 DEF Ack, GhostsTyped, Stack
  <2> QED
    BY <1>13, <2>5, <2>6 DEF Ack, CountersTyped, FaultsTyped
<1>14. ASSUME NEW w \in Workers, Crash(w) PROVE TypeInv'
  <2>1. SlotsTyped'
    BY <1>14, IdleTyped, OneSlotTyped DEF Crash
  <2>2. slot[w].env \in Deliverable(setup.saga)
    BY <1>14 DEF Crash, SlotsTyped, SlotsOf, Placed
  <2>3. FaultsTyped' /\ marks' \subseteq Ids
    BY <1>14 DEF Crash, Redelivery, Fault, FaultsTyped
  <2> QED
    BY <1>14, <2>1, <2>2, <2>3 DEF Crash, CountersTyped, GhostsTyped, Stack, ghosts
<1>15. ASSUME NEW w \in Workers, NEW v \in Workers, Overlap(w, v) PROVE TypeInv'
  <2>1. slot[v].env \in Deliverable(setup.saga)
    BY <1>15 DEF Overlap, SlotsTyped, SlotsOf, Placed
  <2>2. SlotsTyped'
    BY <1>15, <2>1, HoldingTyped, OneSlotTyped DEF Overlap
  <2>3. FaultsTyped' /\ marks' \subseteq Ids
    BY <1>15 DEF Overlap, Redelivery, Fault, FaultsTyped
  <2> QED
    BY <1>15, <2>2, <2>3 DEF Overlap, CountersTyped, GhostsTyped, Stack, ghosts
<1>16. ASSUME NEW w \in Workers, Error(w) PROVE TypeInv'
  <2>1. slot[w].pc # "idle"
    BY <1>16 DEF Error
  <2>0. PICK how \in {"failed", "refused"} : slot' = [slot EXCEPT ![w] = Past(w, how, {})]
    BY <1>16 DEF Error, Throws
  <2>2. SlotsTyped'
    BY <1>16, <2>0, <2>1, PastTyped, OneSlotTyped DEF Error, Labels
  <2>3. FaultsTyped'
    BY <1>16 DEF Error, Fault, FaultsTyped
  <2> QED
    BY <1>16, <2>2, <2>3 DEF Error, CountersTyped, GhostsTyped, Stack, ghosts
<1> QED
  BY <1>1, <1>2, <1>3, <1>4, <1>5, <1>6, <1>7, <1>8, <1>9, <1>10, <1>11, <1>12, <1>13, <1>14,
     <1>15, <1>16 DEF Next, Step

-----------------------------------------------------------------------------

(* What a worker holds is the row, unless it knows better by its version; and
   only a saga that is not over is saved. *)
HeldFresh(x) ==
    /\ x.held # NoSaga =>
          /\ row # NoSaga
          /\ ~ x.stale => x.held = row
          /\ ~ row.isCompleted => ~ x.held.isCompleted
    /\ x.pc = "saving" => ~ x.held.isCompleted

(* The worker that has created the saga, or completed it, and has not yet come
   back to the metrics to say so. *)
Creator(x) == (x.isNew /\ x.held # NoSaga) \/ "created" \in x.counts

Closer(x) == "completed" \in x.counts

CreatedOnce ==
    /\ \A w \in Workers : Creator(slot[w]) => row # NoSaga /\ counters.created = 0
    /\ \A w, v \in Workers : Creator(slot[w]) /\ Creator(slot[v]) => w = v
    /\ counters.created \in {0, 1}
    /\ counters.created = 1 => row # NoSaga

CompletedOnce ==
    /\ \A w \in Workers :
          Closer(slot[w]) => row # NoSaga /\ row.isCompleted /\ counters.completed = 0
    /\ \A w, v \in Workers : Closer(slot[w]) /\ Closer(slot[v]) => w = v
    /\ counters.completed \in {0, 1}
    /\ counters.completed = 1 => row # NoSaga /\ row.isCompleted

(* With one instance the bookkeeping is single; CountedOnce alone is not inductive,
   for it does not say who will count. *)
Single ==
    /\ \A w \in Workers : HeldFresh(slot[w])
    /\ CreatedOnce
    /\ CompletedOnce

Alone == instances <= 1

(* Which instance a worker holds, where a store without a unique index has taken more. *)
Numbers(x) == x.of <= instances /\ (x.held # NoSaga => x.of # 0)

Numbered ==
    /\ row = NoSaga <=> instances = 0
    /\ setup.unique => Alone
    /\ \A w \in Workers : Numbers(slot[w])

CountInv == Numbered /\ (Alone => Single)

(* The step of one worker that inserts nothing. *)
LEMMA OneSlotNumbered ==
    ASSUME TypeInv, Numbered, NEW w \in Workers, NEW x, Numbers(x),
           slot' = [slot EXCEPT ![w] = x],
           row' = row, instances' = instances, setup' = setup
    PROVE  Numbered'
<1>1. \A v \in Workers : slot'[v] = IF v = w THEN x ELSE slot[v]
  BY DEF TypeInv, SlotsTyped
<1>2. \A v \in Workers : Numbers(slot'[v])
  BY <1>1 DEF Numbered
<1>3. \A v \in Workers : Numbers(slot[v])'
  BY <1>2 DEF Numbers
<1> QED
  BY <1>3 DEF Numbered, Alone

(* What a worker then has in its slot. *)
LEMMA SlotNumbers ==
    ASSUME TypeInv, Numbered
    PROVE  /\ \A w, label, counts : Numbers(Past(w, label, counts))
           /\ \A e : Numbers(Holding(e))
           /\ \A label : \A w \in Workers : Numbers([slot[w] EXCEPT !.pc = label])
           /\ Numbers(Idle)
<1>1. instances \in Nat /\ (row # NoSaga => instances # 0)
  BY DEF TypeInv, Numbered
<1>2. \A w, label, counts : Numbers(Past(w, label, counts))
  BY <1>1, PastShape DEF Numbers
<1>3. \A e : Numbers(Holding(e))
  BY <1>1, HoldingShape DEF Numbers
<1>4. ASSUME NEW w \in Workers, NEW label PROVE Numbers([slot[w] EXCEPT !.pc = label])
  <2>1. slot[w] \in SlotsOf(setup.saga) /\ Numbers(slot[w])
    BY DEF TypeInv, SlotsTyped, Numbered
  <2> QED
    BY <2>1 DEF SlotsOf, Numbers
<1>5. Numbers(Idle)
  BY <1>1 DEF Idle, Numbers
<1> QED
  BY <1>2, <1>3, <1>4, <1>5

(* An insert makes one more; nothing makes it one less. *)
LEMMA NextNumbered ==
    ASSUME TypeInv, SoundInv, Numbered, [Next]_vars
    PROVE  Numbered' /\ (Alone' => Alone)
<1>1. CASE UNCHANGED vars \/ Reply
  BY <1>1 DEF vars, Reply, Numbered, Numbers, Alone
<1>2. ASSUME NEW w \in Workers, NEW e, Deliver(w, e) PROVE Numbered' /\ (Alone' => Alone)
  BY <1>2, SlotNumbers, OneSlotNumbered DEF Deliver, Alone
<1>3. ASSUME NEW w \in Workers, CheckMark(w) PROVE Numbered' /\ (Alone' => Alone)
  <2>1. \E x : Numbers(x) /\ slot' = [slot EXCEPT ![w] = x]
    BY <1>3, SlotNumbers DEF CheckMark, Throws
  <2> QED
    BY <1>3, <2>1, OneSlotNumbered DEF CheckMark, Alone
<1>4. ASSUME NEW w \in Workers, MarkBefore(w) PROVE Numbered' /\ (Alone' => Alone)
  BY <1>4, SlotNumbers, OneSlotNumbered DEF MarkBefore, Alone
<1>5. ASSUME NEW w \in Workers, Invalid(w) \/ Ignore(w) \/ Arm(w)
      PROVE  Numbered' /\ (Alone' => Alone)
  BY <1>5, SlotNumbers, OneSlotNumbered DEF Invalid, Ignore, Arm, Throws, Returns, Alone
<1>6. ASSUME NEW w \in Workers, Create(w) PROVE Numbered' /\ (Alone' => Alone)
  <2>1. CASE row = NoSaga \/ ~ setup.unique
    <3>1. /\ slot' = [slot EXCEPT ![w] = Created(w)]
          /\ row' \in StatesOf(setup.saga)
          /\ instances' = instances + 1 /\ setup' = setup
      BY <1>6, <2>1, CreatedSlot DEF Create
    <3>2. row' # NoSaga /\ instances \in Nat
      BY <3>1, NothingIsNothing DEF TypeInv
    <3>3. \A v \in Workers : slot'[v] = IF v = w THEN Created(w) ELSE slot[v]
      BY <3>1 DEF TypeInv, SlotsTyped
    <3>4. ASSUME NEW v \in Workers PROVE Numbers(slot[v])'
      <4>1. Numbers(slot[v]) /\ slot[v].of \in Nat
        BY DEF Numbered, TypeInv, SlotsTyped, SlotsOf
      <4> QED
        BY <3>1, <3>2, <3>3, <4>1 DEF Numbers, Created
    <3>5. setup.unique => instances' = 1
      BY <2>1, <3>1 DEF Numbered
    <3> QED
      BY <3>1, <3>2, <3>4, <3>5 DEF Numbered, Alone
  <2>2. CASE ~ (row = NoSaga \/ ~ setup.unique)
    BY <1>6, <2>2, SlotNumbers, OneSlotNumbered DEF Create, Throws, Alone
  <2> QED
    BY <2>1, <2>2
<1>7. ASSUME NEW w \in Workers, HandleMessage(w) PROVE Numbered' /\ (Alone' => Alone)
  BY <1>7, SlotNumbers, OneSlotNumbered DEF HandleMessage, Alone
<1>8. ASSUME NEW w \in Workers, Save(w) PROVE Numbered' /\ (Alone' => Alone)
  <2> DEFINE saved == Result(slot[w].env.message, slot[w].held).state
             Staled(v) == [slot[v] EXCEPT !.stale = @ \/ slot[v].of = slot[w].of]
  <2>1. PICK label : slot' = [v \in Workers |-> IF v = w THEN Past(w, label, Counts(w, saved))
                                               ELSE Staled(v)]
    BY <1>8 DEF Save
  <2>2. \A v \in Workers : Staled(v).of = slot[v].of /\ Staled(v).held = slot[v].held
    BY DEF TypeInv, SlotsTyped, SlotsOf
  <2>3. /\ slot[w].held # NoSaga
        /\ saved \in StatesOf(setup.saga)
        /\ row' = IF slot[w].of = instances THEN saved ELSE row
        /\ instances' = instances /\ setup' = setup
    <3>1. slot[w].held # NoSaga /\ slot[w].pc # "idle"
      BY <1>8 DEF Save, SoundInv, HeldSound
    <3> QED
      BY <1>8, <3>1, HeldResult DEF Save
  <2> HIDE DEF saved, Staled
  <2>4. \A v \in Workers : Numbers(slot'[v])
    BY <2>1, <2>2, SlotNumbers DEF Numbered, Numbers
  <2>5. saved # NoSaga /\ instances # 0
    BY <2>3, NothingIsNothing DEF Numbered, Numbers, TypeInv, SlotsTyped, SlotsOf
  <2>6. row' = NoSaga <=> instances' = 0
    BY <2>3, <2>5 DEF Numbered
  <2>7. \A v \in Workers : Numbers(slot[v])'
    BY <2>3, <2>4 DEF Numbers
  <2> QED
    BY <2>3, <2>6, <2>7 DEF Numbered, Alone
<1>9. ASSUME NEW w \in Workers, Loses(w) \/ Error(w) \/ Retry(w) \/ Leave(w)
      PROVE  Numbered' /\ (Alone' => Alone)
  <2>1. \E x : Numbers(x) /\ slot' = [slot EXCEPT ![w] = x]
    BY <1>9, SlotNumbers DEF Loses, Error, Throws, Retry, Leave
  <2> QED
    BY <1>9, <2>1, OneSlotNumbered DEF Loses, Error, Retry, Leave, Alone
<1>10. ASSUME NEW w \in Workers, Ack(w) PROVE Numbered' /\ (Alone' => Alone)
  <2>1. slot' = [v \in Workers |->
                    IF v = w THEN Idle
                    ELSE [slot[v] EXCEPT !.leased = @ /\ slot[v].env # slot[w].env]]
    BY <1>10 DEF Ack
  <2>2. \A v \in Workers : v # w => slot'[v].held = slot[v].held /\ slot'[v].of = slot[v].of
    <3>1. \A v \in Workers : slot[v] \in SlotsOf(setup.saga)
      BY DEF TypeInv, SlotsTyped
    <3> QED
      BY <2>1, <3>1 DEF SlotsOf
  <2>3. \A v \in Workers : Numbers(slot'[v])
    BY <2>1, <2>2, SlotNumbers DEF Numbered, Numbers
  <2> QED
    BY <1>10, <2>3 DEF Ack, Numbered, Numbers, Alone
<1>11. ASSUME NEW w \in Workers, Crash(w) PROVE Numbered' /\ (Alone' => Alone)
  BY <1>11, SlotNumbers, OneSlotNumbered DEF Crash, Alone
<1>12. ASSUME NEW w \in Workers, NEW v \in Workers, Overlap(w, v)
       PROVE  Numbered' /\ (Alone' => Alone)
  BY <1>12, SlotNumbers, OneSlotNumbered DEF Overlap, Alone
<1> QED
  BY <1>1, <1>2, <1>3, <1>4, <1>5, <1>6, <1>7, <1>8, <1>9, <1>10, <1>11, <1>12
     DEF Next, Step

(* A step of one worker that makes it neither creator nor closer. *)
LEMMA OneSlotCounted ==
    ASSUME TypeInv, Single, NEW w \in Workers, NEW x, HeldFresh(x),
           Creator(x) => Creator(slot[w]), Closer(x) => Closer(slot[w]),
           slot' = [slot EXCEPT ![w] = x], row' = row, counters' = counters
    PROVE  Single'
<1>1. \A v \in Workers : slot'[v] = IF v = w THEN x ELSE slot[v]
  BY DEF TypeInv, SlotsTyped
<1>2. \A v \in Workers : HeldFresh(slot[v])
  BY DEF Single
<1>3. \A v \in Workers : HeldFresh(slot'[v])
  BY <1>1, <1>2
<1>4. \A v \in Workers : HeldFresh(slot[v])'
  BY <1>3 DEF HeldFresh
<1>5. \A v \in Workers : /\ Creator(slot'[v]) => Creator(slot[v])
                         /\ Closer(slot'[v]) => Closer(slot[v])
  BY <1>1
<1>6. CreatedOnce'
  BY <1>5 DEF Single, CreatedOnce, Creator
<1>7. CompletedOnce'
  BY <1>5 DEF Single, CompletedOnce, Closer
<1> QED
  BY <1>4, <1>6, <1>7 DEF Single

(* A worker that has dropped what it held. *)
LEMMA PastCounted ==
    ASSUME NEW w, NEW label, label # "saving", NEW counts
    PROVE  /\ HeldFresh(Past(w, label, counts))
           /\ Creator(Past(w, label, counts)) <=> "created" \in counts
           /\ Closer(Past(w, label, counts)) <=> "completed" \in counts
BY PastShape DEF HeldFresh, Creator, Closer

(* A worker that has just loaded the saga. *)
LEMMA HoldingCounted ==
    ASSUME NEW e
    PROVE  /\ HeldFresh(Holding(e)) /\ ~ Creator(Holding(e)) /\ ~ Closer(Holding(e))
BY HoldingShape DEF HeldFresh, Creator, Closer

(* A worker that goes on with what it holds. *)
LEMMA GoOnCounted ==
    ASSUME TypeInv, Single, NEW w \in Workers,
           NEW label, label = "saving" => ~ slot[w].held.isCompleted
    PROVE  /\ HeldFresh([slot[w] EXCEPT !.pc = label])
           /\ Creator([slot[w] EXCEPT !.pc = label]) => Creator(slot[w])
           /\ Closer([slot[w] EXCEPT !.pc = label]) => Closer(slot[w])
<1>1. slot[w] \in SlotsOf(setup.saga) /\ HeldFresh(slot[w])
  BY DEF TypeInv, SlotsTyped, Single
<1> QED
  BY <1>1 DEF SlotsOf, HeldFresh, Creator, Closer

(* Nothing is held or counted to begin with. *)
LEMMA InitCounted == Init => CountInv
BY DEF Init, Idle, CountInv, Numbered, Numbers, Alone, Single, HeldFresh, Creator, Closer,
       CreatedOnce, CompletedOnce

(* The saga is created by the worker whose insert is accepted: there was none. *)
LEMMA CreateCounted ==
    ASSUME TypeInv, SoundInv, Numbered, Alone, Single, Alone', NEW w \in Workers, Create(w),
           row = NoSaga \/ ~ setup.unique
    PROVE  Single'
<1> DEFINE first == Initial(setup.saga, setup.application)
<1>0. row = NoSaga
  <2>1. instances' = instances + 1 /\ instances \in Nat
    BY CreatedSlot DEF TypeInv
  <2> QED
    BY <2>1 DEF Numbered, Alone
<1>1. row' = first /\ slot' = [slot EXCEPT ![w] = Created(w)]
  BY CreatedSlot
<1>2. first # NoSaga /\ ~ first.isCompleted
  <2>1. first \in StatesOf(setup.saga)
    BY SetupTyped, InitialTyped DEF TypeInv
  <2>2. ~ first.isCompleted
    BY DEF Initial, OrderInitial, LoanInitial
  <2> QED
    BY <2>1, <2>2, NothingIsNothing
<1>3. counters' = counters /\ slot[w].pc = "inside"
  BY DEF Create
<1> HIDE DEF first
<1>4. \A v \in Workers :
         slot'[v] = IF v = w THEN Created(w) ELSE slot[v]
  BY <1>1 DEF TypeInv, SlotsTyped
<1>5. \A v \in Workers : /\ slot[v].held = NoSaga /\ ~ Creator(slot[v]) /\ ~ Closer(slot[v])
                         /\ slot[v].pc # "saving"
  BY <1>0 DEF Single, HeldFresh, CreatedOnce, CompletedOnce, SoundInv, HeldSound
<1>7. /\ Created(w).held = first
      /\ Created(w).pc = "inside"
      /\ Created(w).counts = slot[w].counts
  BY <1>3 DEF Created, first
<1>8. \A v \in Workers : HeldFresh(slot[v])'
  BY <1>1, <1>2, <1>4, <1>5, <1>7 DEF HeldFresh
<1>9. counters.created = 0 /\ counters.completed = 0
  BY <1>0 DEF Single, CreatedOnce, CompletedOnce
<1>10. \A v \in Workers : /\ Creator(slot'[v]) => v = w
                          /\ ~ Closer(slot'[v])
  BY <1>4, <1>5, <1>7 DEF Closer
<1>11. CreatedOnce'
  BY <1>1, <1>2, <1>3, <1>9, <1>10 DEF CreatedOnce, Creator
<1>12. CompletedOnce'
  BY <1>3, <1>9, <1>10 DEF CompletedOnce, Closer
<1> QED
  BY <1>8, <1>11, <1>12 DEF Single

(* A save makes every other copy stale; and it is the only one ever to complete
   the saga, for it was not completed before. *)
LEMMA SaveCounted ==
    ASSUME TypeInv, SoundInv, Numbered, Alone, Single, NEW w \in Workers, Save(w)
    PROVE  Single'
<1> DEFINE saved == Result(slot[w].env.message, slot[w].held).state
<1>1. /\ slot[w].pc = "saving" /\ ~ slot[w].stale /\ counters' = counters
      /\ row' = IF slot[w].of = instances THEN saved ELSE row
  BY DEF Save
<1>0. \A v \in Workers : slot[v].held # NoSaga => slot[v].of = 1 /\ instances = 1
  BY DEF Numbered, Numbers, Alone, TypeInv, SlotsTyped, SlotsOf
<1>2. /\ slot[w].held # NoSaga /\ slot[w].held = row /\ row # NoSaga /\ ~ row.isCompleted
  BY <1>1 DEF Single, HeldFresh, SoundInv, HeldSound
<1>3. row' = saved /\ row' # NoSaga
  <2>1. saved \in StatesOf(setup.saga)
    BY <1>1, <1>2, HeldResult
  <2> QED
    BY <1>0, <1>1, <1>2, <2>1, NothingIsNothing
<1>4. PICK label \in {"arming", "returned", "done"} :
         slot' = [v \in Workers |->
                     IF v = w THEN Past(w, label, Counts(w, saved))
                     ELSE [slot[v] EXCEPT !.stale = @ \/ slot[v].of = slot[w].of]]
  BY DEF Save, Back
<1> DEFINE mine == Past(w, label, Counts(w, saved))
<1>5. /\ mine.held = NoSaga /\ mine.pc = label
      /\ Creator(mine) => slot[w].isNew
      /\ Closer(mine) => row'.isCompleted
  BY <1>3, PastShape, PastCounted DEF Counts
<1>6. \A v \in Workers : v # w =>
         /\ slot'[v].held = slot[v].held /\ slot'[v].pc = slot[v].pc
         /\ slot'[v].isNew = slot[v].isNew /\ slot'[v].counts = slot[v].counts
         /\ slot[v].held # NoSaga => slot'[v].stale
  <2>1. \A v \in Workers : slot[v] \in SlotsOf(setup.saga)
    BY DEF TypeInv, SlotsTyped
  <2> QED
    BY <1>0, <1>2, <1>4, <2>1 DEF SlotsOf
<1>7. slot'[w] = mine
  BY <1>4
<1> HIDE DEF mine, saved
<1>8. \A v \in Workers : slot[v].held # NoSaga => ~ slot[v].held.isCompleted
  BY <1>2 DEF Single, HeldFresh
<1>9. \A v \in Workers : slot[v].pc = "saving" => ~ slot[v].held.isCompleted
  BY DEF Single, HeldFresh
<1>10. \A v \in Workers : HeldFresh(slot[v])'
  BY <1>3, <1>5, <1>6, <1>7, <1>8, <1>9 DEF HeldFresh
<1>11. \A v \in Workers : Creator(slot'[v]) => Creator(slot[v])
  BY <1>2, <1>5, <1>6, <1>7 DEF Creator
<1>12. CreatedOnce'
  BY <1>1, <1>3, <1>11 DEF Single, CreatedOnce, Creator
<1>13. \A v \in Workers : ~ Closer(slot[v]) /\ (Closer(slot'[v]) => v = w /\ row'.isCompleted)
  BY <1>2, <1>5, <1>6, <1>7 DEF Single, CompletedOnce, Closer
<1>14. CompletedOnce'
  BY <1>1, <1>2, <1>3, <1>13 DEF Single, CompletedOnce, Closer
<1> QED
  BY <1>10, <1>12, <1>14 DEF Single

(* On the way back the metrics count what the worker has done, and it is done. *)
LEMMA LeaveCounted ==
    ASSUME TypeInv, Single, NEW w \in Workers, Leave(w)
    PROVE  Single'
<1>1. /\ slot' = [slot EXCEPT ![w] = Past(w, "done", {})] /\ row' = row
      /\ counters' = [x \in DOMAIN counters |-> Counted(x, slot[w].counts)]
  BY DEF Leave
<1>2. \A v \in Workers : slot'[v] = IF v = w THEN Past(w, "done", {}) ELSE slot[v]
  BY <1>1 DEF TypeInv, SlotsTyped
<1>3. \A v \in Workers : HeldFresh(slot'[v])
  BY <1>2, PastCounted DEF Single
<1>4. \A v \in Workers : HeldFresh(slot[v])'
  BY <1>1, <1>3 DEF HeldFresh
<1>5. \A v \in Workers : /\ Creator(slot'[v]) => Creator(slot[v]) /\ v # w
                         /\ Closer(slot'[v]) => Closer(slot[v]) /\ v # w
  BY <1>2, PastCounted
<1>6. /\ counters'.created = counters.created + (IF "created" \in slot[w].counts THEN 1 ELSE 0)
      /\ counters'.completed
           = counters.completed + (IF "completed" \in slot[w].counts THEN 1 ELSE 0)
  BY <1>1 DEF TypeInv, CountersTyped, Counted
<1>7. CreatedOnce'
  BY <1>1, <1>5, <1>6 DEF Single, CreatedOnce, Creator
<1>8. CompletedOnce'
  BY <1>1, <1>5, <1>6 DEF Single, CompletedOnce, Closer
<1> QED
  BY <1>4, <1>7, <1>8 DEF Single

(* Every action keeps count, as long as there is one instance. *)
LEMMA NextSingle ==
    ASSUME TypeInv, SoundInv, Numbered, Alone, Single, [Next]_vars, Alone'
    PROVE  Single'
<1>1. CASE UNCHANGED vars \/ Reply
  BY <1>1 DEF vars, Reply, Single, HeldFresh, CreatedOnce, CompletedOnce, Creator, Closer
<1>2. ASSUME NEW w \in Workers, NEW e, Deliver(w, e) PROVE Single'
  BY <1>2, HoldingCounted, OneSlotCounted DEF Deliver
<1>3. ASSUME NEW w \in Workers, CheckMark(w) PROVE Single'
  <2>1. \E x : /\ HeldFresh(x) /\ slot' = [slot EXCEPT ![w] = x]
               /\ Creator(x) => Creator(slot[w])
               /\ Closer(x) => Closer(slot[w])
    <3>1. CASE \E label : label # "saving" /\ slot' = [slot EXCEPT ![w] = Past(w, label, {})]
      <4>1. PICK label : label # "saving" /\ slot' = [slot EXCEPT ![w] = Past(w, label, {})]
        BY <3>1
      <4>2. /\ HeldFresh(Past(w, label, {}))
            /\ ~ Creator(Past(w, label, {})) /\ ~ Closer(Past(w, label, {}))
        BY <4>1, PastCounted
      <4> QED
        BY <4>1, <4>2
    <3>2. CASE \E label : /\ label # "saving"
                          /\ slot' = [slot EXCEPT ![w] = [slot[w] EXCEPT !.pc = label]]
      BY <3>2, GoOnCounted
    <3>3. \/ slot' = [slot EXCEPT ![w] = Past(w, "refused", {})]
          \/ slot' = [slot EXCEPT ![w] = Past(w, "skipped", {})]
          \/ slot' = [slot EXCEPT ![w] = [slot[w] EXCEPT !.pc = "marking"]]
          \/ slot' = [slot EXCEPT ![w] = [slot[w] EXCEPT !.pc = "inside"]]
      BY <1>3 DEF CheckMark, Throws
    <3> QED
      BY <3>1, <3>2, <3>3
  <2> QED
    BY <1>3, <2>1, OneSlotCounted DEF CheckMark
<1>4. ASSUME NEW w \in Workers, MarkBefore(w) PROVE Single'
  BY <1>4, GoOnCounted, OneSlotCounted DEF MarkBefore
<1>5. ASSUME NEW w \in Workers, Invalid(w) \/ Ignore(w) \/ Arm(w) PROVE Single'
  <2>1. \E label, counts : /\ label # "saving"
                           /\ counts \subseteq slot[w].counts
                           /\ slot' = [slot EXCEPT ![w] = Past(w, label, counts)]
    BY <1>5 DEF Invalid, Ignore, Arm, Throws, Returns, Back
  <2>2. PICK label, counts : /\ label # "saving"
                             /\ counts \subseteq slot[w].counts
                             /\ slot' = [slot EXCEPT ![w] = Past(w, label, counts)]
    BY <2>1
  <2>3. /\ HeldFresh(Past(w, label, counts))
        /\ Creator(Past(w, label, counts)) => Creator(slot[w])
        /\ Closer(Past(w, label, counts)) => Closer(slot[w])
    BY <2>2, PastCounted DEF Creator, Closer
  <2> QED
    BY <1>5, <2>2, <2>3, OneSlotCounted DEF Invalid, Ignore, Arm
<1>6. ASSUME NEW w \in Workers, Create(w) PROVE Single'
  <2>1. CASE ~ (row = NoSaga \/ ~ setup.unique)
    BY <1>6, <2>1, PastCounted, OneSlotCounted DEF Create, Throws
  <2> QED
    BY <1>6, <2>1, CreateCounted
<1>7. ASSUME NEW w \in Workers, HandleMessage(w) PROVE Single'
  <2>1. ~ slot[w].held.isCompleted
    BY <1>7 DEF HandleMessage
  <2> QED
    BY <1>7, <2>1, GoOnCounted, OneSlotCounted DEF HandleMessage
<1>8. ASSUME NEW w \in Workers, Save(w) PROVE Single'
  BY <1>8, SaveCounted
<1>9. ASSUME NEW w \in Workers, Loses(w) \/ Error(w) \/ Retry(w) PROVE Single'
  <2>1. PICK label : label # "saving" /\ slot' = [slot EXCEPT ![w] = Past(w, label, {})]
    BY <1>9 DEF Loses, Error, Throws, Retry
  <2> QED
    BY <1>9, <2>1, PastCounted, OneSlotCounted DEF Loses, Error, Retry
<1>10. ASSUME NEW w \in Workers, Leave(w) PROVE Single'
  BY <1>10, LeaveCounted
<1>11. ASSUME NEW w \in Workers, Ack(w) PROVE Single'
  <2>1. slot' = [v \in Workers |->
                    IF v = w THEN Idle
                    ELSE [slot[v] EXCEPT !.leased = @ /\ slot[v].env # slot[w].env]]
    BY <1>11 DEF Ack
  <2>2. \A v \in Workers : v # w =>
           /\ slot'[v].held = slot[v].held /\ slot'[v].pc = slot[v].pc
           /\ slot'[v].isNew = slot[v].isNew /\ slot'[v].counts = slot[v].counts
           /\ slot'[v].stale = slot[v].stale
    <3>1. \A v \in Workers : slot[v] \in SlotsOf(setup.saga)
      BY DEF TypeInv, SlotsTyped
    <3> QED
      BY <2>1, <3>1 DEF SlotsOf
  <2>3. slot'[w] = Idle
    BY <2>1
  <2>4. row' = row /\ counters' = counters
    BY <1>11 DEF Ack
  <2>5. \A v \in Workers : HeldFresh(slot[v])'
    BY <2>2, <2>3, <2>4 DEF Single, HeldFresh, Idle
  <2>6. \A v \in Workers : /\ Creator(slot'[v]) => Creator(slot[v])
                           /\ Closer(slot'[v]) => Closer(slot[v])
    BY <2>2, <2>3 DEF Creator, Closer, Idle
  <2>7. CreatedOnce' /\ CompletedOnce'
    BY <2>4, <2>6 DEF Single, CreatedOnce, CompletedOnce, Creator, Closer
  <2> QED
    BY <2>5, <2>7 DEF Single
<1>12. ASSUME NEW w \in Workers, Crash(w) PROVE Single'
  <2>1. HeldFresh(Idle) /\ ~ Creator(Idle) /\ ~ Closer(Idle)
    BY DEF HeldFresh, Creator, Closer, Idle
  <2> QED
    BY <1>12, <2>1, OneSlotCounted DEF Crash
<1>13. ASSUME NEW w \in Workers, NEW v \in Workers, Overlap(w, v) PROVE Single'
  BY <1>13, HoldingCounted, OneSlotCounted DEF Overlap
<1> QED
  BY <1>1, <1>2, <1>3, <1>4, <1>5, <1>6, <1>7, <1>8, <1>9, <1>10, <1>11, <1>12, <1>13
     DEF Next, Step

LEMMA NextCounted == TypeInv /\ SoundInv /\ CountInv /\ [Next]_vars => CountInv'
BY NextNumbered, NextSingle DEF CountInv

(* The invariants of the types and of the counting, on the one about sound states. *)
LEMMA TypesAndCounts == Spec => [](TypeInv /\ SoundInv /\ CountInv)
<1>1. Init => TypeInv /\ CountInv
  BY InitTyped, InitCounted
<1>2. TypeInv /\ CountInv /\ SoundInv /\ [Next]_vars => TypeInv' /\ CountInv'
  BY NextTyped, NextCounted
<1> QED
  BY <1>1, <1>2, InitSound, NextSound, PTL DEF Spec

(* The variables keep their types, whatever the number of workers and of faults. *)
THEOREM ExampleTypes == Spec => []ExamplesTypeOK
<1>1. TypeInv /\ CountInv => ExamplesTypeOK
  <2> SUFFICES ASSUME TypeInv, CountInv PROVE ExamplesTypeOK
    OBVIOUS
  <2>1. StatesOf(setup.saga) \subseteq Sagas
    BY DEF StatesOf, Sagas
  <2>2. Deliverable(setup.saga) \subseteq Envelopes
    BY DEF Deliverable
  <2>3. row \in Sagas \cup {NoSaga} /\ queue \subseteq Envelopes /\ marks \subseteq Ids
    BY <2>1, <2>2 DEF TypeInv
  <2>4. ASSUME NEW w \in Workers
        PROVE  /\ slot[w].pc \in {"idle", "loaded", "marking", "inside", "saving", "arming",
                                  "returned", "failed", "refused", "skipped", "done"}
               /\ slot[w].env \in Envelopes \cup {NoEnvelope}
               /\ slot[w].held \in Sagas \cup {NoSaga}
               /\ slot[w].of \in 0 .. instances
               /\ {slot[w].stale, slot[w].isNew, slot[w].leased} \subseteq BOOLEAN
               /\ slot[w].counts \subseteq {"created", "completed"}
    <3>1. slot[w] \in SlotsOf(setup.saga)
      BY DEF TypeInv, SlotsTyped
    <3>2. slot[w].of \in Nat /\ slot[w].of <= instances /\ instances \in Nat
      BY <3>1 DEF SlotsOf, TypeInv, CountInv, Numbered, Numbers
    <3> QED
      BY <2>1, <2>2, <3>1, <3>2 DEF SlotsOf, Labels
  <2>5. instances \in Nat /\ {counters.created, counters.completed} \subseteq Nat
    BY DEF TypeInv, CountersTyped
  <2>6. dlq \subseteq LoanMessage \cup OrderMessage
    BY DEF TypeInv, GhostsTyped, Waits, LoanMessage, OfferMessages, DocumentMessages
  <2> QED
    BY <2>3, <2>4, <2>5, <2>6 DEF TypeInv, GhostsTyped, FaultsTyped, ExamplesTypeOK
<1> QED
  BY <1>1, TypesAndCounts, PTL

(* The metrics count a saga's creation and its completion at most once each, and
   only when it is there and completed: the one who counts is the one whose
   insert, or whose completing save, was accepted; where the store has no unique
   index, as long as it has taken one instance. *)
THEOREM SagasAreCountedOnce == Spec => []CountedOnce
<1>1. CountInv => CountedOnce
  <2>1. CountInv /\ Alone => CreatedOnce /\ CompletedOnce
    BY DEF CountInv, Single
  <2>2. CreatedOnce /\ CompletedOnce =>
           /\ counters.created <= 1 /\ counters.completed <= 1
           /\ counters.created = 1 => row # NoSaga
           /\ counters.completed = 1 => row.isCompleted
    BY DEF CreatedOnce, CompletedOnce
  <2>3. CountInv => (setup.unique => Alone)
    BY DEF CountInv, Numbered
  <2> QED
    BY <2>1, <2>2, <2>3 DEF CountedOnce, Alone
<1> QED
  BY <1>1, TypesAndCounts, PTL

-----------------------------------------------------------------------------

(* What the steps do to the envelopes, in the terms the rest of the proofs need:
   where the workers are, what they have, and the bookkeeping. *)
Moves(w, label) ==
    /\ \A v \in Workers : slot'[v].env = slot[v].env
    /\ \A v \in Workers : slot'[v].pc = IF v = w THEN label ELSE slot[v].pc

Start == IF setup.idempotency = "none" THEN "inside" ELSE "loaded"

Takes(w, e) ==
    /\ slot[w].pc = "idle"
    /\ \A v \in Workers : slot'[v].env = IF v = w THEN e ELSE slot[v].env
    /\ \A v \in Workers : slot'[v].pc = IF v = w THEN Start ELSE slot[v].pc

Drops(w) ==
    /\ \A v \in Workers : slot'[v].env = IF v = w THEN NoEnvelope ELSE slot[v].env
    /\ \A v \in Workers : slot'[v].pc = IF v = w THEN "idle" ELSE slot[v].pc

Rests ==
    /\ \A v \in Workers : slot'[v].env = slot[v].env /\ slot'[v].pc = slot[v].pc
    /\ UNCHANGED <<queue, marks, processed, processedTwice, settled, forgotten, faults>>

Publishes ==
    /\ \A v \in Workers : slot'[v].env = slot[v].env /\ slot'[v].pc = slot[v].pc
    /\ \E f : f.id \in FreeIds /\ f.origin = f.id /\ queue' = queue \cup {f}
    /\ UNCHANGED <<marks, processed, processedTwice, settled, forgotten, faults>>

Delivers(w, e) ==
    /\ e \in queue /\ queue' = queue \ {e}
    /\ Takes(w, e)
    /\ UNCHANGED <<marks, processed, processedTwice, settled, forgotten, faults>>

Checks(w) ==
    /\ slot[w].pc = "loaded"
    /\ \/ slot[w].env.id \in marks /\ setup.onDuplicate = "throw" /\ Moves(w, "refused")
       \/ slot[w].env.id \in marks /\ setup.onDuplicate # "throw" /\ Moves(w, "skipped")
       \/ slot[w].env.id \notin marks /\ setup.idempotency = "before" /\ Moves(w, "marking")
       \/ slot[w].env.id \notin marks /\ setup.idempotency # "before" /\ Moves(w, "inside")
    /\ UNCHANGED <<queue, marks, processed, processedTwice, settled, forgotten, faults>>

Marks(w) ==
    /\ slot[w].pc = "marking" /\ Moves(w, "inside")
    /\ marks' = marks \cup {slot[w].env.id}
    /\ UNCHANGED <<queue, processed, processedTwice, settled, forgotten, faults>>

Fails(w) ==
    /\ slot[w].pc \in {"inside", "saving"}
    /\ \E how \in {"failed", "refused"} : Moves(w, how)
    /\ UNCHANGED <<queue, marks, processed, processedTwice, settled, forgotten, faults>>

Parks(w) ==
    /\ slot[w].pc = "saving" /\ ~ Stack /\ Moves(w, "arming")
    /\ UNCHANGED <<queue, marks, processed, processedTwice, settled, forgotten, faults>>

Settles(w) ==
    /\ slot[w].pc \in {"inside", "saving", "arming"}
    /\ Moves(w, IF Stack THEN "returned" ELSE "done")
    /\ settled' = settled \cup {slot[w].env.origin}
    /\ \/ UNCHANGED <<processed, processedTwice>>
       \/ /\ processed' = IF Stack THEN processed \cup {slot[w].env.origin} ELSE {}
          /\ processedTwice' = processedTwice \cup ({slot[w].env.origin} \cap processed)
    /\ UNCHANGED <<queue, marks, forgotten, faults>>

Handles(w) ==
    /\ slot[w].pc = "inside" /\ Moves(w, "saving")
    /\ \/ queue' = queue
       \/ \E f : f.id \in FreeIds /\ f.origin = f.id /\ queue' = queue \cup {f}
    /\ UNCHANGED <<marks, processed, processedTwice, settled, forgotten, faults>>

Leaves(w) ==
    /\ slot[w].pc = "returned" /\ Moves(w, "done")
    /\ marks' = IF setup.idempotency = "after" THEN marks \cup {slot[w].env.id} ELSE marks
    /\ UNCHANGED <<queue, processed, processedTwice, settled, forgotten, faults>>

RetriesAs(e, f) == f.id \in FreeIds /\ f.origin = e.origin /\ f.attempt = e.attempt + 1

Retries(w) ==
    /\ slot[w].pc \in {"failed", "refused"} /\ Moves(w, "done")
    /\ \/ /\ slot[w].pc = "failed"
          /\ \E f : RetriesAs(slot[w].env, f) /\ queue' = queue \cup {f}
          /\ settled' = settled
       \/ settled' = settled \cup {slot[w].env.origin} /\ queue' = queue
    /\ UNCHANGED <<marks, processed, processedTwice, forgotten, faults>>

Acks(w) ==
    /\ slot[w].pc \in {"done", "skipped"} /\ Drops(w)
    /\ queue' = queue \ {slot[w].env}
    /\ LET left == {f.origin : f \in InFlight'}
       IN /\ processed' = processed \cap left
          /\ processedTwice' = processedTwice \cap left
          /\ settled' = settled \cap left
          /\ forgotten' = (forgotten \/ slot[w].env.origin \notin left \cup settled)
    /\ marks' = marks \cap {f.id : f \in InFlight'}
    /\ faults' = faults

Crashes(w) ==
    /\ slot[w].pc # "idle" /\ Drops(w)
    /\ Redelivery(slot[w].env, "crash")
    /\ queue' = queue \cup {slot[w].env}
    /\ UNCHANGED <<processed, processedTwice, settled, forgotten>>

Overlaps(w, v) ==
    /\ slot[v].pc # "idle"
    /\ Takes(w, slot[v].env)
    /\ Redelivery(slot[v].env, "overlap")
    /\ UNCHANGED <<queue, processed, processedTwice, settled, forgotten>>

Errs(w) ==
    /\ \/ slot[w].pc \in {"loaded", "marking", "inside", "saving", "arming"}
       \/ slot[w].pc = "returned" /\ setup.idempotency = "after"
    /\ Fault("error")
    /\ \E how \in {"failed", "refused"} : Moves(w, how)
    /\ UNCHANGED <<queue, marks, processed, processedTwice, settled, forgotten>>

(* A worker that leaves the handler, or goes on, keeps its envelope. *)
LEMMA PastMoves ==
    ASSUME SlotsTyped, NEW w \in Workers, NEW label, NEW counts,
           slot' = [slot EXCEPT ![w] = Past(w, label, counts)]
    PROVE  Moves(w, label)
BY PastShape DEF SlotsTyped, Moves

(* The same of a worker that goes on. *)
LEMMA GoOnMoves ==
    ASSUME SlotsTyped, NEW w \in Workers, NEW label,
           slot' = [slot EXCEPT ![w] = [slot[w] EXCEPT !.pc = label]]
    PROVE  Moves(w, label)
BY DEF SlotsTyped, SlotsOf, Moves

(* And one that gets an envelope, and one that has none any more. *)
LEMMA HoldingTakes ==
    ASSUME SlotsTyped, NEW w \in Workers, NEW e, slot[w].pc = "idle",
           slot' = [slot EXCEPT ![w] = Holding(e)]
    PROVE  Takes(w, e)
BY HoldingShape DEF SlotsTyped, Takes, Start

(* What is published on behalf of a handler is one new envelope, or none. *)
LEMMA OwnSends ==
    ASSUME TypeInv, NEW w \in Workers, slot[w].held # NoSaga, slot[w].pc # "idle",
           NEW i \in FreeIds,
           queue' = queue \cup {Envelope(m, TRUE, i) :
                                   m \in Own(Result(slot[w].env.message, slot[w].held).sends)}
    PROVE  \/ queue' = queue
           \/ \E f : f.id \in FreeIds /\ f.origin = f.id /\ queue' = queue \cup {f}
<1> DEFINE own == Own(Result(slot[w].env.message, slot[w].held).sends)
<1>1. \A x, y \in own : x = y
  BY HeldResult DEF Own
<1> HIDE DEF own
<1>2. CASE own = {}
  BY <1>2 DEF own
<1>3. CASE own # {}
  <2>1. PICK m : m \in own
    BY <1>3
  <2>2. own = {m}
    BY <1>1, <2>1
  <2>3. queue' = queue \cup {Envelope(m, TRUE, i)}
    BY <2>2 DEF own
  <2>4. Envelope(m, TRUE, i).id = i /\ Envelope(m, TRUE, i).origin = i
    BY DEF Envelope
  <2> QED
    BY <2>3, <2>4
<1> QED
  BY <1>2, <1>3

(* Every step is one of these. *)
LEMMA NextView ==
    ASSUME TypeInv, SoundInv, [Next]_vars
    PROVE  /\ setup' = setup
           /\ \/ Rests \/ Publishes
              \/ \E w \in Workers :
                    \/ \E e \in queue : Delivers(w, e)
                    \/ Checks(w) \/ Marks(w) \/ Fails(w) \/ Parks(w) \/ Settles(w) \/ Handles(w)
                    \/ Leaves(w) \/ Retries(w) \/ Acks(w) \/ Crashes(w) \/ Errs(w)
              \/ \E w, v \in Workers : Overlaps(w, v)
<1>0. SlotsTyped
  BY DEF TypeInv
<1>1. CASE UNCHANGED vars
  BY <1>1 DEF vars, Rests
<1>2. CASE Reply
  <2>1. PICK m \in Replies(setup.saga), valid \in BOOLEAN, i \in FreeIds :
           queue' = queue \cup {Envelope(m, valid, i)}
    BY <1>2 DEF Reply
  <2>2. Envelope(m, valid, i).id = i /\ Envelope(m, valid, i).origin = i
    BY DEF Envelope
  <2>3. \E f : f.id \in FreeIds /\ f.origin = f.id /\ queue' = queue \cup {f}
    BY <2>1, <2>2
  <2> QED
    BY <1>2, <2>3 DEF Reply, Publishes, ghosts
<1>3. ASSUME NEW w \in Workers, NEW e \in queue, Deliver(w, e) PROVE Delivers(w, e)
  BY <1>0, <1>3, HoldingTakes DEF Deliver, Delivers, ghosts
<1>4. ASSUME NEW w \in Workers, CheckMark(w) PROVE Checks(w)
  <2>1. \/ /\ slot[w].env.id \in marks /\ setup.onDuplicate = "throw"
           /\ slot' = [slot EXCEPT ![w] = Past(w, "refused", {})]
        \/ /\ slot[w].env.id \in marks /\ setup.onDuplicate # "throw"
           /\ slot' = [slot EXCEPT ![w] = Past(w, "skipped", {})]
        \/ /\ slot[w].env.id \notin marks /\ setup.idempotency = "before"
           /\ slot' = [slot EXCEPT ![w] = [slot[w] EXCEPT !.pc = "marking"]]
        \/ /\ slot[w].env.id \notin marks /\ setup.idempotency # "before"
           /\ slot' = [slot EXCEPT ![w] = [slot[w] EXCEPT !.pc = "inside"]]
    BY <1>4 DEF CheckMark, Throws
  <2> QED
    BY <1>0, <1>4, <2>1, PastMoves, GoOnMoves DEF CheckMark, Checks, ghosts
<1>5. ASSUME NEW w \in Workers, MarkBefore(w) PROVE Marks(w)
  BY <1>0, <1>5, GoOnMoves DEF MarkBefore, Marks, ghosts
<1>6. ASSUME NEW w \in Workers, Invalid(w) PROVE Fails(w) \/ Settles(w)
  BY <1>0, <1>6, PastMoves DEF Invalid, Throws, Returns, Back, Fails, Settles
<1>7. ASSUME NEW w \in Workers, Ignore(w) \/ Arm(w) PROVE Settles(w)
  BY <1>0, <1>7, PastMoves DEF Ignore, Arm, Returns, Back, Settles
<1>8. ASSUME NEW w \in Workers, Create(w) PROVE Rests \/ Fails(w)
  <2>1. CASE row = NoSaga \/ ~ setup.unique
    <3>1. slot' = [slot EXCEPT ![w] = Created(w)]
      BY <1>8, <2>1, CreatedSlot
    <3>2. \A v \in Workers : slot'[v].env = slot[v].env /\ slot'[v].pc = slot[v].pc
      BY <1>0, <3>1 DEF Created, SlotsTyped
    <3> QED
      BY <1>8, <3>2 DEF Create, Rests, ghosts
  <2>2. CASE ~ (row = NoSaga \/ ~ setup.unique)
    BY <1>0, <1>8, <2>2, PastMoves DEF Create, Throws, Fails, ghosts
  <2> QED
    BY <2>1, <2>2
<1>9. ASSUME NEW w \in Workers, HandleMessage(w) PROVE Handles(w)
  <2>1. slot[w].held # NoSaga /\ slot[w].pc = "inside"
    BY <1>9 DEF HandleMessage
  <2>2. \/ queue' = queue
        \/ \E f : f.id \in FreeIds /\ f.origin = f.id /\ queue' = queue \cup {f}
    BY <1>9, <2>1, OwnSends DEF HandleMessage
  <2> QED
    BY <1>0, <1>9, <2>2, GoOnMoves DEF HandleMessage, Handles, ghosts
<1>10. ASSUME NEW w \in Workers, Save(w) PROVE Settles(w) \/ Parks(w)
  <2> DEFINE arms == SetsTimeout(slot[w].env.message, slot[w].held)
             label == IF arms THEN "arming" ELSE Back
  <2>1. PICK counts :
           slot' = [v \in Workers |->
                       IF v = w THEN Past(w, label, counts)
                       ELSE [slot[v] EXCEPT !.stale = @ \/ slot[v].of = slot[w].of]]
    BY <1>10 DEF Save
  <2>2. Moves(w, label)
    BY <1>0, <2>1, PastShape DEF Moves, SlotsTyped, SlotsOf
  <2>3. CASE arms
    <3>1. ~ Stack
      <4>1. slot[w].env \in Deliverable(setup.saga)
        BY <1>0, <1>10 DEF Save, SlotsTyped, SlotsOf, Placed
      <4>2. "LoanApplicationSubmitted" \in HandledTypes(setup.saga)
        BY <2>3, <4>1 DEF SetsTimeout, Deliverable
      <4>3. "LoanApplicationSubmitted" \notin OrderHandled
        BY DEF OrderHandled, OrderMessage
      <4>4. setup.saga = "loan"
        BY <4>2, <4>3, SetupTyped DEF HandledTypes, TypeInv
      <4> QED
        BY <4>4, LoanSetupAssumption DEF Stack, TypeInv
    <3>2. processed = {}
      BY <3>1 DEF TypeInv, GhostsTyped
    <3> QED
      BY <1>10, <2>2, <2>3, <3>1, <3>2 DEF Save, Parks
  <2>4. CASE ~ arms
    BY <1>10, <2>2, <2>4 DEF Save, Settles, Back
  <2> QED
    BY <2>3, <2>4
<1>11. ASSUME NEW w \in Workers, Loses(w) PROVE Fails(w)
  BY <1>0, <1>11, PastMoves DEF Loses, Throws, Fails, ghosts
<1>12. ASSUME NEW w \in Workers, Leave(w) PROVE Leaves(w)
  BY <1>0, <1>12, PastMoves DEF Leave, Leaves, ghosts
<1>13. ASSUME NEW w \in Workers, Retry(w) PROVE Retries(w)
  <2>1. Moves(w, "done")
    BY <1>0, <1>13, PastMoves DEF Retry
  <2>2. CASE slot[w].pc = "failed" /\ slot[w].env.attempt < MaxAttempts
    <3>1. PICK i \in FreeIds :
             queue' = queue \cup {[slot[w].env EXCEPT !.id = i, !.attempt = @ + 1]}
      BY <1>13, <2>2 DEF Retry
    <3>2. slot[w].env \in Envelopes
      BY <1>0, <1>13 DEF Retry, SlotsTyped, SlotsOf, Placed, Deliverable
    <3>3. RetriesAs(slot[w].env, [slot[w].env EXCEPT !.id = i, !.attempt = @ + 1])
      BY <3>1, <3>2 DEF RetriesAs, Envelopes
    <3> QED
      BY <1>13, <2>1, <2>2, <3>1, <3>3 DEF Retry, Retries
  <2>3. CASE ~ (slot[w].pc = "failed" /\ slot[w].env.attempt < MaxAttempts)
    BY <1>13, <2>1, <2>3 DEF Retry, Retries
  <2> QED
    BY <2>2, <2>3
<1>14. ASSUME NEW w \in Workers, Ack(w) PROVE Acks(w)
  <2>1. slot' = [v \in Workers |->
                    IF v = w THEN Idle
                    ELSE [slot[v] EXCEPT !.leased = @ /\ slot[v].env # slot[w].env]]
    BY <1>14 DEF Ack
  <2>2. Drops(w)
    BY <1>0, <2>1 DEF Drops, SlotsTyped, SlotsOf, Idle
  <2> QED
    BY <1>14, <2>2 DEF Ack, Acks
<1>15. ASSUME NEW w \in Workers, Crash(w) PROVE Crashes(w)
  <2>1. Drops(w)
    BY <1>0, <1>15 DEF Crash, Drops, SlotsTyped, Idle
  <2> QED
    BY <1>15, <2>1 DEF Crash, Crashes, ghosts
<1>16. ASSUME NEW w \in Workers, NEW v \in Workers, Overlap(w, v) PROVE Overlaps(w, v)
  BY <1>0, <1>16, HoldingTakes DEF Overlap, Overlaps, ghosts
<1>17. ASSUME NEW w \in Workers, Error(w) PROVE Errs(w)
  BY <1>0, <1>17, PastMoves DEF Error, Throws, Errs, ghosts
<1>18. setup' = setup
  BY DEF vars, Next, Step, Reply, Deliver, CheckMark, MarkBefore, Invalid, Ignore, Create,
         HandleMessage, Save, Loses, Arm, Leave, Retry, Ack, Crash, Overlap, Error
<1> QED
  BY <1>1, <1>2, <1>3, <1>4, <1>5, <1>6, <1>7, <1>8, <1>9, <1>10, <1>11, <1>12, <1>13, <1>14,
     <1>15, <1>16, <1>17, <1>18 DEF Next, Step

-----------------------------------------------------------------------------

(* An envelope is in flight while the broker or a worker has it. *)
LEMMA FlightMember ==
    ASSUME NEW f
    PROVE  f \in InFlight <=> \/ f \in queue
                             \/ \E v \in Workers : slot[v].env = f /\ f # NoEnvelope
BY DEF InFlight

(* A worker that is not idle has an envelope in flight. *)
LEMMA BusyFlight ==
    ASSUME TypeInv, NEW w \in Workers, slot[w].pc # "idle"
    PROVE  slot[w].env \in InFlight /\ slot[w].env # NoEnvelope
BY DEF TypeInv, SlotsTyped, Placed, InFlight

(* A worker's move leaves in flight what was, and what is sent joins it. *)
LEMMA FlightMoves ==
    ASSUME \A v \in Workers : slot'[v].env = slot[v].env
    PROVE  /\ queue' = queue => InFlight' = InFlight
           /\ \A f : queue' = queue \cup {f} => InFlight' = InFlight \cup {f}
BY DEF InFlight

(* So do deliveries, first ones and repeated ones, and crashes. *)
LEMMA FlightDelivers ==
    ASSUME TypeInv, NEW w \in Workers, NEW e \in queue, Delivers(w, e)
    PROVE  InFlight' = InFlight
<1>1. e # NoEnvelope /\ slot[w].env = NoEnvelope
  BY NothingIsNothing DEF TypeInv, SlotsTyped, Placed, Delivers, Takes
<1> QED
  BY <1>1 DEF Delivers, Takes, InFlight

(* The same of a repeated one. *)
LEMMA FlightOverlaps ==
    ASSUME TypeInv, NEW w \in Workers, NEW v \in Workers, Overlaps(w, v)
    PROVE  InFlight' = InFlight
<1>1. slot[v].env # NoEnvelope /\ slot[w].env = NoEnvelope
  BY DEF TypeInv, SlotsTyped, Placed, Overlaps, Takes
<1> QED
  BY <1>1 DEF Overlaps, Takes, InFlight

(* And of a crash: the broker has the envelope again. *)
LEMMA FlightCrashes ==
    ASSUME TypeInv, NEW w \in Workers, Crashes(w)
    PROVE  InFlight' = InFlight
<1>1. slot[w].env # NoEnvelope
  BY DEF TypeInv, SlotsTyped, Placed, Crashes
<1> QED
  BY <1>1 DEF Crashes, Drops, InFlight

(* Only the acknowledged envelope may leave, and not while another worker is busy
   with it. *)
LEMMA FlightAcks ==
    ASSUME NEW w \in Workers, Acks(w)
    PROVE  /\ InFlight' \subseteq InFlight
           /\ InFlight \ {slot[w].env} \subseteq InFlight'
           /\ \A v \in Workers \ {w} : slot[v].env # NoEnvelope => slot[v].env \in InFlight'
BY DEF Acks, Drops, InFlight

(* A free id is nobody's. *)
LEMMA FreeIsNew ==
    ASSUME NEW f, f.id \in FreeIds
    PROVE  /\ f.id \notin marks
           /\ \A e \in InFlight : e.id # f.id /\ e.origin # f.id
BY DEF FreeIds

-----------------------------------------------------------------------------

(* An id is one envelope's; what is settled is in flight, and what has been saved
   is settled. *)
IdsUnique == \A e, f \in InFlight : e.id = f.id => e = f

Origins == settled \subseteq {e.origin : e \in InFlight} /\ processed \subseteq settled

IdInv == IdsUnique /\ Origins

(* Nothing is in flight to begin with. *)
LEMMA InitIds == Init => IdInv
BY DEF Init, Idle, IdInv, IdsUnique, Origins, InFlight

(* Ids stay unique, and what is settled in flight, at every step. *)
LEMMA NextIds == TypeInv /\ SoundInv /\ IdInv /\ [Next]_vars => IdInv'
<1> SUFFICES ASSUME TypeInv, SoundInv, IdInv, [Next]_vars PROVE IdInv'
  OBVIOUS
<1> USE DEF IdInv
<1>1. ASSUME NEW f, f.id \in FreeIds, InFlight' = InFlight \cup {f} PROVE IdsUnique'
  BY <1>1, FreeIsNew DEF IdsUnique
<1>2. InFlight' = InFlight => IdsUnique'
  BY DEF IdsUnique
<1>3. InFlight \subseteq InFlight' /\ settled' = settled /\ processed' = processed => Origins'
  BY DEF Origins
<1>4. CASE Rests
  BY <1>2, <1>3, <1>4, FlightMoves DEF Rests
<1>5. CASE Publishes
  BY <1>1, <1>3, <1>5, FlightMoves DEF Publishes
<1>6. ASSUME NEW w \in Workers, \E e \in queue : Delivers(w, e) PROVE IdInv'
  BY <1>2, <1>3, <1>6, FlightDelivers DEF Delivers
<1>7. ASSUME NEW w \in Workers,
             Checks(w) \/ Marks(w) \/ Fails(w) \/ Parks(w) \/ Leaves(w) \/ Errs(w)
      PROVE  IdInv'
  BY <1>2, <1>3, <1>7, FlightMoves DEF Checks, Marks, Fails, Parks, Leaves, Errs, Moves
<1>8. ASSUME NEW w \in Workers, Settles(w) PROVE IdInv'
  <2>1. slot[w].env \in InFlight /\ InFlight' = InFlight
    BY <1>8, BusyFlight, FlightMoves DEF Settles, Moves
  <2> QED
    BY <1>2, <1>8, <2>1 DEF Settles, Origins
<1>9. ASSUME NEW w \in Workers, Handles(w) PROVE IdInv'
  BY <1>1, <1>2, <1>3, <1>9, FlightMoves DEF Handles, Moves
<1>10. ASSUME NEW w \in Workers, Retries(w) PROVE IdInv'
  <2>1. slot[w].env \in InFlight
    BY <1>10, BusyFlight DEF Retries
  <2>2. CASE settled' = settled
    BY <1>1, <1>2, <1>3, <1>10, <2>2, FlightMoves DEF Retries, RetriesAs, Moves
  <2>3. CASE settled' = settled \cup {slot[w].env.origin} /\ queue' = queue
    BY <1>2, <1>10, <2>1, <2>3, FlightMoves DEF Retries, Moves, Origins
  <2> QED
    BY <1>10, <2>2, <2>3 DEF Retries
<1>11. ASSUME NEW w \in Workers, Acks(w) PROVE IdInv'
  <2>1. IdsUnique'
    BY <1>11, FlightAcks DEF IdsUnique
  <2>2. Origins'
    BY <1>11 DEF Acks, Origins
  <2> QED
    BY <2>1, <2>2
<1>12. ASSUME NEW w \in Workers, Crashes(w) PROVE IdInv'
  BY <1>2, <1>3, <1>12, FlightCrashes DEF Crashes
<1>13. ASSUME NEW w \in Workers, NEW v \in Workers, Overlaps(w, v) PROVE IdInv'
  BY <1>2, <1>3, <1>13, FlightOverlaps DEF Overlaps
<1> QED
  BY <1>4, <1>5, <1>6, <1>7, <1>8, <1>9, <1>10, <1>11, <1>12, <1>13, NextView

-----------------------------------------------------------------------------

(* An envelope need not be kept when its message is settled, or on its way in a
   later attempt. *)
Vouched(e) ==
    e.origin \in settled \/ \E f \in InFlight : f.origin = e.origin /\ f.attempt > e.attempt

(* A copy of it may be skipped while the worker that has marked it is at work. *)
Borne(e) ==
    /\ e.id \in marks
    /\ \E v \in Workers :
          slot[v].env = e /\ slot[v].pc \in {"inside", "saving", "arming", "failed", "refused"}

(* What NothingForgotten says of the faults. *)
Sure ==
    setup.idempotency = "before" =>
        "late" \notin faults /\ ("expired" \in faults => faults = {"expired"})

Labelled ==
    \A w \in Workers :
        /\ slot[w].pc = "marking" => setup.idempotency = "before"
        /\ slot[w].pc = "returned" => slot[w].env.origin \in settled

Unmarked == setup.idempotency = "none" => marks = {}

(* Marking after the handler: only what is settled is marked. *)
AfterMarked ==
    setup.idempotency = "after" => \A e \in InFlight : e.id \in marks => e.origin \in settled

(* Marking before it: as long as no marked envelope has been delivered again. *)
BeforeMarked ==
    setup.idempotency = "before" /\ faults \cap {"late", "expired"} = {} =>
        \A e \in InFlight : e.id \in marks => Vouched(e) \/ Borne(e)

(* And if nothing happens but that marks expire, there is one copy that is not
   marked yet, and none to skip. *)
OneCopy ==
    setup.idempotency = "before" /\ faults \subseteq {"expired"} =>
        /\ \A e \in queue : e.id \notin marks
        /\ \A w \in Workers : slot[w].pc # "skipped"
        /\ \A w \in Workers : slot[w].pc \in {"loaded", "marking"} =>
              /\ slot[w].env.id \notin marks
              /\ slot[w].env \notin queue
              /\ \A v \in Workers \ {w} :
                    slot[v].pc \in {"loaded", "marking"} => slot[v].env # slot[w].env

(* A worker acknowledges what is vouched for, or borne by another. *)
Acknowledged ==
    Sure =>
        /\ ~ forgotten
        /\ \A e \in InFlight, w \in Workers :
              slot[w].env = e =>
                  /\ slot[w].pc = "done" => Vouched(e)
                  /\ slot[w].pc = "skipped" => Vouched(e) \/ Borne(e)

ForgetInv ==
    Labelled /\ Unmarked /\ AfterMarked /\ BeforeMarked /\ OneCopy /\ Acknowledged

(* Nothing is marked or done to begin with. *)
LEMMA InitForget == Init => ForgetInv
BY DEF Init, Idle, InFlight, ForgetInv, Labelled, Unmarked, AfterMarked, BeforeMarked, OneCopy,
       Acknowledged

(* What is vouched for stays so while nothing leaves; what is borne does while
   its bearer stays and its mark lasts. *)
LEMMA VouchedStays ==
    ASSUME NEW e, Vouched(e), InFlight \subseteq InFlight', settled \subseteq settled'
    PROVE  Vouched(e)'
BY DEF Vouched

(* The steps in which no envelope and no worker's place changes. *)
LEMMA RestsForget ==
    ASSUME TypeInv, ForgetInv, Rests, setup' = setup
    PROVE  ForgetInv'
<1>1. InFlight' = InFlight
  BY FlightMoves DEF Rests
<1>2. \A e : Vouched(e) => Vouched(e)'
  BY <1>1 DEF Vouched, Rests
<1>3. \A e : Borne(e) => Borne(e)'
  BY DEF Borne, Rests
<1> QED
  BY <1>1, <1>2, <1>3
     DEF Rests, ForgetInv, Labelled, Unmarked, AfterMarked, BeforeMarked, OneCopy, Acknowledged,
         Sure

(* A new message. *)
LEMMA PublishesForget ==
    ASSUME TypeInv, ForgetInv, Publishes, setup' = setup
    PROVE  ForgetInv'
<1>1. PICK f : f.id \in FreeIds /\ f.origin = f.id /\ queue' = queue \cup {f}
  BY DEF Publishes
<1>2. InFlight' = InFlight \cup {f}
  BY <1>1, FlightMoves DEF Publishes
<1>3. f.id \notin marks /\ f \notin InFlight
  BY <1>1, FreeIsNew
<1>4. \A e : Vouched(e) => Vouched(e)'
  BY <1>2, VouchedStays DEF Publishes
<1>5. \A e : Borne(e) => Borne(e)'
  BY DEF Borne, Publishes
<1>6. Labelled' /\ Unmarked'
  BY DEF Publishes, ForgetInv, Labelled, Unmarked
<1>7. AfterMarked' /\ BeforeMarked'
  BY <1>2, <1>3, <1>4, <1>5 DEF Publishes, ForgetInv, AfterMarked, BeforeMarked
<1>8. \A w \in Workers : slot[w].pc # "idle" => slot[w].env # f
  BY <1>3, BusyFlight
<1>9. OneCopy'
  BY <1>1, <1>3, <1>8 DEF Publishes, ForgetInv, OneCopy
<1>10. \A w \in Workers : slot[w].pc \in {"done", "skipped"} => slot[w].env \in InFlight
  BY BusyFlight
<1>11. Acknowledged'
  BY <1>2, <1>4, <1>5, <1>10 DEF Publishes, ForgetInv, Acknowledged, Sure
<1> QED
  BY <1>6, <1>7, <1>9, <1>11 DEF ForgetInv

(* An envelope reaches a worker. *)
LEMMA DeliversForget ==
    ASSUME TypeInv, ForgetInv, NEW w \in Workers, NEW e \in queue, Delivers(w, e), setup' = setup
    PROVE  ForgetInv'
<1>1. InFlight' = InFlight
  BY FlightDelivers
<1>2. \A f : Vouched(f) => Vouched(f)'
  BY <1>1 DEF Vouched, Delivers
<1>3. Start \in {"inside", "loaded"}
  BY DEF Start
<1>4. \A v \in Workers : v # w => slot'[v].env = slot[v].env /\ slot'[v].pc = slot[v].pc
  BY DEF Delivers, Takes
<1>5. slot[w].pc = "idle" /\ slot'[w].pc = Start /\ slot'[w].env = e
  BY DEF Delivers, Takes
<1>6. \A f : Borne(f) => Borne(f)'
  BY <1>4, <1>5 DEF Borne, Delivers
<1>7. Labelled' /\ Unmarked'
  BY <1>3, <1>4, <1>5 DEF Delivers, ForgetInv, Labelled, Unmarked
<1>8. AfterMarked' /\ BeforeMarked'
  BY <1>1, <1>2, <1>6 DEF Delivers, ForgetInv, AfterMarked, BeforeMarked
<1>9. OneCopy'
  BY <1>3, <1>4, <1>5 DEF Delivers, ForgetInv, OneCopy
<1>10. Acknowledged'
  BY <1>1, <1>2, <1>3, <1>4, <1>5, <1>6 DEF Delivers, ForgetInv, Acknowledged, Sure
<1> QED
  BY <1>7, <1>8, <1>9, <1>10 DEF ForgetInv

(* The mark is looked up; a copy is skipped for a mark whose envelope is borne by
   another worker, or has been settled. *)
LEMMA ChecksForget ==
    ASSUME TypeInv, ForgetInv, NEW w \in Workers, Checks(w), setup' = setup
    PROVE  ForgetInv'
<1> DEFINE e == slot[w].env
<1>0. slot[w].pc = "loaded" /\ e \in InFlight
  BY BusyFlight DEF Checks
<1>1. InFlight' = InFlight
  BY FlightMoves DEF Checks, Moves
<1>2. PICK label \in {"refused", "skipped", "marking", "inside"} :
         /\ Moves(w, label)
         /\ label \in {"refused", "skipped"} <=> e.id \in marks
         /\ label = "marking" => setup.idempotency = "before"
  BY DEF Checks
<1>3. /\ \A v \in Workers : slot'[v].env = slot[v].env
      /\ \A v \in Workers : v # w => slot'[v].pc = slot[v].pc
      /\ slot'[w].pc = label
  BY <1>2 DEF Moves
<1>4. \A f : Vouched(f) => Vouched(f)'
  BY <1>1 DEF Vouched, Checks
<1>5. \A f : Borne(f) => Borne(f)'
  BY <1>0, <1>3 DEF Borne, Checks
<1>6. label = "skipped" => /\ setup.idempotency # "none"
                           /\ ~ (setup.idempotency = "before" /\ faults \subseteq {"expired"})
  BY <1>0, <1>2 DEF ForgetInv, Unmarked, OneCopy
<1>7. label = "skipped" /\ Sure => Vouched(e) \/ Borne(e)
  <2> SUFFICES ASSUME label = "skipped", Sure PROVE Vouched(e) \/ Borne(e)
    OBVIOUS
  <2>1. CASE setup.idempotency = "before"
    <3>1. faults \cap {"late", "expired"} = {}
      BY <1>6, <2>1 DEF Sure
    <3> QED
      BY <1>0, <1>2, <2>1, <3>1 DEF ForgetInv, BeforeMarked
  <2>2. CASE setup.idempotency # "before"
    <3>1. setup.idempotency = "after"
      BY <1>6, <2>2, SetupTyped DEF TypeInv
    <3> QED
      BY <1>0, <1>2, <3>1 DEF ForgetInv, AfterMarked, Vouched
  <2> QED
    BY <2>1, <2>2
<1>8. Labelled' /\ Unmarked'
  BY <1>2, <1>3 DEF Checks, ForgetInv, Labelled, Unmarked
<1>9. AfterMarked' /\ BeforeMarked'
  BY <1>1, <1>4, <1>5 DEF Checks, ForgetInv, AfterMarked, BeforeMarked
<1>10. OneCopy'
  BY <1>0, <1>3, <1>6 DEF Checks, ForgetInv, OneCopy
<1>11. Acknowledged'
  BY <1>1, <1>3, <1>4, <1>5, <1>7 DEF Checks, ForgetInv, Acknowledged, Sure
<1> QED
  BY <1>8, <1>9, <1>10, <1>11 DEF ForgetInv

(* The mark is set before the handler: the worker bears it from now on. *)
LEMMA MarksForget ==
    ASSUME TypeInv, IdInv, ForgetInv, NEW w \in Workers, Marks(w), setup' = setup
    PROVE  ForgetInv'
<1> DEFINE e == slot[w].env
<1>0. slot[w].pc = "marking" /\ e \in InFlight /\ setup.idempotency = "before"
  BY BusyFlight DEF Marks, ForgetInv, Labelled
<1>1. InFlight' = InFlight
  BY FlightMoves DEF Marks, Moves
<1>2. /\ \A v \in Workers : slot'[v].env = slot[v].env
      /\ \A v \in Workers : v # w => slot'[v].pc = slot[v].pc
      /\ slot'[w].pc = "inside"
      /\ marks' = marks \cup {e.id}
  BY DEF Marks, Moves
<1>3. \A f \in InFlight : f.id \in marks' => f.id \in marks \/ f = e
  BY <1>0, <1>2 DEF IdInv, IdsUnique
<1>4. \A f : Vouched(f) => Vouched(f)'
  BY <1>1 DEF Vouched, Marks
<1>5. \A f : Borne(f) => Borne(f)'
  BY <1>0, <1>2 DEF Borne
<1>7. Labelled' /\ Unmarked' /\ AfterMarked'
  BY <1>0, <1>2 DEF Marks, ForgetInv, Labelled, Unmarked, AfterMarked
<1>8. BeforeMarked'
  <2>1. \A f : f = e => Borne(f)'
    BY <1>2 DEF Borne
  <2> QED
    BY <1>1, <1>3, <1>4, <1>5, <2>1 DEF Marks, ForgetInv, BeforeMarked
<1>9. OneCopy'
  <2>1. \A f \in queue : f \in InFlight
    BY FlightMember
  <2>2. \A v \in Workers : slot[v].pc \in {"loaded", "marking"} => slot[v].env \in InFlight
    BY BusyFlight
  <2> QED
    BY <1>0, <1>2, <1>3, <2>1, <2>2 DEF Marks, ForgetInv, OneCopy
<1>10. Acknowledged'
  BY <1>1, <1>2, <1>4, <1>5 DEF Marks, ForgetInv, Acknowledged, Sure
<1> QED
  BY <1>7, <1>8, <1>9, <1>10 DEF ForgetInv

(* The handler fails, or the saga is saved and its timeout yet to be set: the worker
   bears on. *)
LEMMA FailsForget ==
    ASSUME TypeInv, ForgetInv, NEW w \in Workers, Fails(w) \/ Parks(w), setup' = setup
    PROVE  ForgetInv'
<1>0. slot[w].pc \in {"inside", "saving"}
  BY DEF Fails, Parks
<1>1. InFlight' = InFlight
  BY FlightMoves DEF Fails, Parks, Moves
<1>2. PICK label \in {"failed", "refused", "arming"} : Moves(w, label)
  BY DEF Fails, Parks
<1>3. /\ \A v \in Workers : slot'[v].env = slot[v].env
      /\ \A v \in Workers : v # w => slot'[v].pc = slot[v].pc
      /\ slot'[w].pc \in {"failed", "refused", "arming"}
  BY <1>2 DEF Moves
<1>4. UNCHANGED <<queue, marks, settled, forgotten, faults>>
  BY DEF Fails, Parks
<1>5. \A f : Vouched(f) => Vouched(f)'
  BY <1>1, <1>4 DEF Vouched
<1>6. \A f : Borne(f) => Borne(f)'
  BY <1>0, <1>3, <1>4 DEF Borne
<1> QED
  BY <1>0, <1>1, <1>3, <1>4, <1>5, <1>6
     DEF ForgetInv, Labelled, Unmarked, AfterMarked, BeforeMarked, OneCopy, Acknowledged, Sure

(* The same of a handler that has come as far as its save, and may have published. *)
LEMMA HandlesForget ==
    ASSUME TypeInv, ForgetInv, NEW w \in Workers, Handles(w), setup' = setup
    PROVE  ForgetInv'
<1>0. slot[w].pc = "inside"
  BY DEF Handles
<1>1. /\ \A v \in Workers : slot'[v].env = slot[v].env
      /\ \A v \in Workers : v # w => slot'[v].pc = slot[v].pc
      /\ slot'[w].pc = "saving"
  BY DEF Handles, Moves
<1> DEFINE S == queue' \ queue
<1>2. /\ queue' = queue \cup S /\ InFlight' = InFlight \cup S
      /\ \A f \in S : f.id \notin marks /\ f \notin InFlight
  <2>1. CASE queue' = queue
    <3>1. InFlight' = InFlight
      BY <1>1, <2>1, FlightMoves
    <3> QED
      BY <2>1, <3>1
  <2>2. CASE \E f : f.id \in FreeIds /\ queue' = queue \cup {f}
    <3>1. PICK f : f.id \in FreeIds /\ queue' = queue \cup {f}
      BY <2>2
    <3>2. InFlight' = InFlight \cup {f}
      BY <1>1, <3>1, FlightMoves
    <3>3. f.id \notin marks /\ f \notin InFlight
      BY <3>1, FreeIsNew
    <3>4. S = {f}
      BY <3>1, <3>3, FlightMember
    <3> QED
      BY <3>1, <3>2, <3>3, <3>4
  <2> QED
    BY <2>1, <2>2 DEF Handles
<1> HIDE DEF S
<1>3. \A f : Vouched(f) => Vouched(f)'
  BY <1>2 DEF Vouched, Handles
<1>4. \A f : Borne(f) => Borne(f)'
  BY <1>0, <1>1 DEF Borne, Handles
<1>5. \A v \in Workers : slot[v].pc # "idle" => slot[v].env \in InFlight
  BY BusyFlight
<1>6. Labelled' /\ Unmarked'
  BY <1>1 DEF Handles, ForgetInv, Labelled, Unmarked
<1>7. AfterMarked' /\ BeforeMarked'
  BY <1>2, <1>3, <1>4 DEF Handles, ForgetInv, AfterMarked, BeforeMarked
<1>8. OneCopy'
  BY <1>1, <1>2, <1>5 DEF Handles, ForgetInv, OneCopy
<1>9. Acknowledged'
  BY <1>1, <1>2, <1>3, <1>4, <1>5 DEF Handles, ForgetInv, Acknowledged, Sure
<1> QED
  BY <1>6, <1>7, <1>8, <1>9 DEF ForgetInv

(* The pipeline comes back: what the worker bore is settled now. *)
LEMMA SettlesForget ==
    ASSUME TypeInv, ForgetInv, NEW w \in Workers, Settles(w), setup' = setup
    PROVE  ForgetInv'
<1> DEFINE e == slot[w].env
<1>1. InFlight' = InFlight
  BY FlightMoves DEF Settles, Moves
<1>2. PICK label \in {"returned", "done"} :
         /\ \A v \in Workers : slot'[v].env = slot[v].env
         /\ \A v \in Workers : v # w => slot'[v].pc = slot[v].pc
         /\ slot'[w].pc = label
         /\ settled' = settled \cup {e.origin}
  BY DEF Settles, Moves
<1>3. \A f : Vouched(f) => Vouched(f)'
  BY <1>1, <1>2 DEF Vouched
<1>4. \A f : f.origin = e.origin => Vouched(f)'
  BY <1>2 DEF Vouched
<1>5. \A f : Borne(f) => Borne(f)' \/ Vouched(f)'
  BY <1>2, <1>4 DEF Borne, Settles
<1>6. Labelled' /\ Unmarked'
  BY <1>2 DEF Settles, ForgetInv, Labelled, Unmarked
<1>7. AfterMarked' /\ BeforeMarked'
  BY <1>1, <1>2, <1>3, <1>5 DEF Settles, ForgetInv, AfterMarked, BeforeMarked
<1>8. OneCopy'
  BY <1>2 DEF Settles, ForgetInv, OneCopy
<1>9. Acknowledged'
  BY <1>1, <1>2, <1>3, <1>4, <1>5 DEF Settles, ForgetInv, Acknowledged, Sure
<1> QED
  BY <1>6, <1>7, <1>8, <1>9 DEF ForgetInv

(* The mark is set after the handler: for what is settled. *)
LEMMA LeavesForget ==
    ASSUME TypeInv, IdInv, ForgetInv, NEW w \in Workers, Leaves(w), setup' = setup
    PROVE  ForgetInv'
<1> DEFINE e == slot[w].env
<1>0. slot[w].pc = "returned" /\ e \in InFlight /\ e.origin \in settled
  BY BusyFlight DEF Leaves, ForgetInv, Labelled
<1>1. InFlight' = InFlight
  BY FlightMoves DEF Leaves, Moves
<1>2. /\ \A v \in Workers : slot'[v].env = slot[v].env
      /\ \A v \in Workers : v # w => slot'[v].pc = slot[v].pc
      /\ slot'[w].pc = "done"
      /\ marks \subseteq marks' /\ (setup.idempotency # "after" => marks' = marks)
      /\ settled' = settled
  BY DEF Leaves, Moves
<1>3. \A f \in InFlight : f.id \in marks' => f.id \in marks \/ f = e
  BY <1>0 DEF IdInv, IdsUnique, Leaves
<1>4. \A f : Vouched(f) => Vouched(f)'
  BY <1>1, <1>2 DEF Vouched
<1>5. \A f : Borne(f) => Borne(f)'
  BY <1>0, <1>2 DEF Borne
<1>6. Labelled' /\ Unmarked'
  BY <1>2 DEF ForgetInv, Labelled, Unmarked
<1>7. AfterMarked'
  BY <1>0, <1>1, <1>2, <1>3 DEF ForgetInv, AfterMarked
<1>8. BeforeMarked' /\ OneCopy'
  BY <1>1, <1>2, <1>4, <1>5 DEF Leaves, ForgetInv, BeforeMarked, OneCopy
<1>9. \A f : f = e => Vouched(f)'
  BY <1>0, <1>2 DEF Vouched
<1>10. Acknowledged'
  BY <1>1, <1>2, <1>4, <1>5, <1>9 DEF Leaves, ForgetInv, Acknowledged, Sure
<1> QED
  BY <1>6, <1>7, <1>8, <1>10 DEF ForgetInv

(* A failed delivery becomes a later attempt, or a dead letter: either vouches
   for it. *)
LEMMA RetriesForget ==
    ASSUME TypeInv, ForgetInv, NEW w \in Workers, Retries(w), setup' = setup
    PROVE  ForgetInv'
<1> DEFINE e == slot[w].env
<1>0. slot[w].pc \in {"failed", "refused"} /\ e \in InFlight
  BY BusyFlight DEF Retries
<1>1. /\ \A v \in Workers : slot'[v].env = slot[v].env
      /\ \A v \in Workers : v # w => slot'[v].pc = slot[v].pc
      /\ slot'[w].pc = "done"
      /\ settled \subseteq settled'
  BY DEF Retries, Moves
<1>2. e.attempt \in Nat
  BY <1>0 DEF TypeInv, SlotsTyped, SlotsOf, Placed, Deliverable, Envelopes
<1> DEFINE S == queue' \ queue
<1>3. /\ queue' = queue \cup S /\ InFlight' = InFlight \cup S
      /\ \A f \in S : f.id \notin marks /\ f \notin InFlight
      /\ \/ e.origin \in settled'
         \/ \E f \in S : f.origin = e.origin /\ f.attempt = e.attempt + 1
  <2>1. CASE queue' = queue /\ settled' = settled \cup {e.origin}
    <3>1. InFlight' = InFlight
      BY <1>1, <2>1, FlightMoves
    <3> QED
      BY <2>1, <3>1
  <2>2. CASE \E f : RetriesAs(e, f) /\ queue' = queue \cup {f}
    <3>1. PICK f : RetriesAs(e, f) /\ queue' = queue \cup {f}
      BY <2>2
    <3>2. InFlight' = InFlight \cup {f}
      BY <1>1, <3>1, FlightMoves
    <3>3. f.id \notin marks /\ f \notin InFlight
      BY <3>1, FreeIsNew DEF RetriesAs
    <3>4. S = {f}
      BY <3>1, <3>3, FlightMember
    <3> QED
      BY <3>1, <3>2, <3>3, <3>4 DEF RetriesAs
  <2> QED
    BY <2>1, <2>2 DEF Retries
<1> HIDE DEF S
<1>4. \A f : Vouched(f) => Vouched(f)'
  BY <1>1, <1>3 DEF Vouched
<1>5. \A f : f = e => Vouched(f)'
  BY <1>2, <1>3 DEF Vouched
<1>6. \A f : Borne(f) => Borne(f)' \/ Vouched(f)'
  BY <1>0, <1>1, <1>5 DEF Borne, Retries
<1>7. \A v \in Workers : slot[v].pc # "idle" => slot[v].env \in InFlight
  BY BusyFlight
<1>8. Labelled' /\ Unmarked'
  BY <1>1 DEF Retries, ForgetInv, Labelled, Unmarked
<1>9. AfterMarked' /\ BeforeMarked'
  BY <1>1, <1>3, <1>4, <1>6 DEF Retries, ForgetInv, AfterMarked, BeforeMarked
<1>10. OneCopy'
  BY <1>1, <1>3, <1>7 DEF Retries, ForgetInv, OneCopy
<1>11. Acknowledged'
  BY <1>1, <1>3, <1>4, <1>5, <1>6, <1>7 DEF Retries, ForgetInv, Acknowledged, Sure
<1> QED
  BY <1>8, <1>9, <1>10, <1>11 DEF ForgetInv

(* An acknowledgement: the envelope may leave, for what vouches for it, or the
   worker that bears it, remains. *)
LEMMA AcksForget ==
    ASSUME TypeInv, IdInv, ForgetInv, NEW w \in Workers, Acks(w), setup' = setup
    PROVE  ForgetInv'
<1> DEFINE e == slot[w].env
           left == {f.origin : f \in InFlight'}
<1>0. slot[w].pc \in {"done", "skipped"} /\ e \in InFlight
  BY BusyFlight DEF Acks
<1>1. /\ \A v \in Workers : v # w => slot'[v].env = slot[v].env /\ slot'[v].pc = slot[v].pc
      /\ slot'[w].pc = "idle"
      /\ queue' = queue \ {e}
      /\ settled' = settled \cap left
      /\ marks' = marks \cap {f.id : f \in InFlight'}
      /\ forgotten' = (forgotten \/ e.origin \notin left \cup settled)
      /\ faults' = faults
  BY DEF Acks, Drops
<1>2. /\ InFlight' \subseteq InFlight
      /\ InFlight \ {e} \subseteq InFlight'
      /\ \A v \in Workers \ {w} : slot[v].env # NoEnvelope => slot[v].env \in InFlight'
  BY FlightAcks
<1> HIDE DEF left
<1>3. \A f \in InFlight' : f.origin \in left
  BY DEF left
<1>4. \A f \in InFlight : f.attempt \in Nat
  BY DEF InFlight, TypeInv, SlotsTyped, SlotsOf, Deliverable, Envelopes
<1>5. ASSUME Vouched(e)
      PROVE  \/ e.origin \in settled
             \/ \E g \in InFlight' : g.origin = e.origin /\ g.attempt > e.attempt
  <2>1. \A g \in InFlight : g.attempt > e.attempt => g \in InFlight'
    BY <1>0, <1>2, <1>4
  <2> QED
    BY <1>5, <2>1 DEF Vouched
<1>6. ASSUME Borne(e)
      PROVE  e \in InFlight'
  BY <1>0, <1>2, <1>6, BusyFlight DEF Borne
<1>7. Sure => Vouched(e) \/ Borne(e)
  BY <1>0 DEF ForgetInv, Acknowledged
<1>8. Sure => \A f \in InFlight' : Vouched(f) => Vouched(f)'
  <2> SUFFICES ASSUME Sure, NEW f \in InFlight', Vouched(f) PROVE Vouched(f)'
    OBVIOUS
  <2>1. CASE f.origin \in settled
    BY <1>1, <1>3, <2>1 DEF Vouched
  <2>2. CASE f.origin \notin settled
    <3>1. PICK g \in InFlight : g.origin = f.origin /\ g.attempt > f.attempt
      BY <2>2 DEF Vouched
    <3>2. CASE g \in InFlight'
      BY <3>1, <3>2 DEF Vouched
    <3>3. CASE g \notin InFlight'
      <4>1. g = e
        BY <1>2, <3>3
      <4>2. Vouched(e)
        BY <1>6, <1>7, <3>3, <4>1
      <4>3. PICK h \in InFlight' : h.origin = e.origin /\ h.attempt > e.attempt
        BY <1>5, <2>2, <3>1, <4>1, <4>2
      <4>4. h.attempt > f.attempt
        BY <1>2, <1>4, <3>1, <4>1, <4>3
      <4> QED
        BY <3>1, <4>1, <4>3, <4>4 DEF Vouched
    <3> QED
      BY <3>2, <3>3
  <2> QED
    BY <2>1, <2>2
<1>9. \A f \in InFlight' : Borne(f) => Borne(f)'
  BY <1>0, <1>1 DEF Borne
<1>10. Sure => ~ forgotten'
  <2>1. Sure => e.origin \in left \cup settled
    BY <1>3, <1>5, <1>6, <1>7
  <2> QED
    BY <1>1, <2>1 DEF ForgetInv, Acknowledged
<1>11. Labelled'
  <2>1. \A v \in Workers \ {w} : slot[v].pc # "idle" => slot[v].env \in InFlight'
    BY <1>2, BusyFlight
  <2> QED
    BY <1>1, <1>3, <2>1 DEF ForgetInv, Labelled
<1>12. Unmarked' /\ AfterMarked'
  BY <1>1, <1>2, <1>3 DEF ForgetInv, Unmarked, AfterMarked
<1>13. setup.idempotency = "before" /\ faults \cap {"late", "expired"} = {} => Sure
  BY DEF Sure
<1>14. BeforeMarked'
  BY <1>1, <1>2, <1>8, <1>9, <1>13 DEF ForgetInv, BeforeMarked
<1>15. OneCopy'
  BY <1>1 DEF ForgetInv, OneCopy
<1>16. Acknowledged'
  BY <1>1, <1>2, <1>8, <1>9, <1>10 DEF ForgetInv, Acknowledged, Sure
<1> QED
  BY <1>11, <1>12, <1>14, <1>15, <1>16 DEF ForgetInv

(* What a repeated delivery leaves behind in `faults` tells what the marks knew. *)
LEMMA RedeliveryFaults ==
    ASSUME ForgetInv, NEW e, NEW kind, kind \notin {"late", "expired"}, Redelivery(e, kind)
    PROVE  /\ faults \subseteq faults' /\ marks' \subseteq marks
           /\ \A i \in marks : i # e.id => i \in marks'
           /\ setup.idempotency = "before" /\ faults' \cap {"late", "expired"} = {} =>
                 e.id \notin marks /\ marks' = marks
           /\ setup.idempotency = "before" /\ faults' \subseteq {"expired"} =>
                 e.id \in marks /\ e.id \notin marks'
           /\ setup.idempotency = "before" /\ "late" \notin faults'
              /\ ("expired" \in faults' => faults' = {"expired"}) =>
                 (e.id \notin marks /\ marks' = marks) \/ faults \subseteq {"expired"}
BY DEF Redelivery, Fault, Stack

(* A worker's process dies; what it bore is borne no more, which is no loss unless
   the mark says so. *)
LEMMA CrashesForget ==
    ASSUME TypeInv, ForgetInv, NEW w \in Workers, Crashes(w), setup' = setup
    PROVE  ForgetInv'
<1> DEFINE e == slot[w].env
<1>1. InFlight' = InFlight
  BY FlightCrashes
<1>2. /\ \A v \in Workers : v # w => slot'[v].env = slot[v].env /\ slot'[v].pc = slot[v].pc
      /\ slot'[w].pc = "idle" /\ slot[w].pc # "idle"
      /\ queue' = queue \cup {e}
      /\ settled' = settled /\ forgotten' = forgotten
  BY DEF Crashes, Drops
<1>3. /\ faults \subseteq faults' /\ marks' \subseteq marks
      /\ \A i \in marks : i # e.id => i \in marks'
      /\ setup.idempotency = "before" /\ faults' \cap {"late", "expired"} = {} =>
            e.id \notin marks /\ marks' = marks
      /\ setup.idempotency = "before" /\ faults' \subseteq {"expired"} =>
            e.id \in marks /\ e.id \notin marks'
      /\ setup.idempotency = "before" /\ "late" \notin faults'
         /\ ("expired" \in faults' => faults' = {"expired"}) =>
            (e.id \notin marks /\ marks' = marks) \/ faults \subseteq {"expired"}
  BY RedeliveryFaults DEF Crashes
<1>4. \A f : Vouched(f) => Vouched(f)'
  BY <1>1, <1>2 DEF Vouched
<1>5. \A f : Borne(f) /\ e.id \notin marks /\ marks' = marks => Borne(f)'
  BY <1>2 DEF Borne
<1>6. Labelled' /\ Unmarked'
  BY <1>2, <1>3 DEF ForgetInv, Labelled, Unmarked
<1>7. AfterMarked'
  BY <1>1, <1>2, <1>3 DEF ForgetInv, AfterMarked
<1>8. BeforeMarked'
  BY <1>1, <1>3, <1>4, <1>5 DEF ForgetInv, BeforeMarked
<1>9. OneCopy'
  <2> SUFFICES ASSUME setup.idempotency = "before", faults' \subseteq {"expired"}
               PROVE  OneCopy'
    BY DEF OneCopy
  <2>1. faults \subseteq {"expired"} /\ e.id \in marks /\ e.id \notin marks'
    BY <1>3
  <2>2. slot[w].pc \notin {"loaded", "marking"}
    BY <2>1 DEF ForgetInv, OneCopy
  <2> QED
    BY <1>2, <1>3, <2>1, <2>2 DEF ForgetInv, OneCopy
<1>10. Acknowledged'
  <2> SUFFICES ASSUME Sure' PROVE Acknowledged'
    BY DEF Acknowledged
  <2>1. Sure
    BY <1>3 DEF Sure
  <2>2. ASSUME NEW f \in InFlight, NEW v \in Workers, v # w, slot[v].env = f,
               slot[v].pc = "skipped"
        PROVE  Vouched(f)' \/ Borne(f)'
    <3>1. Vouched(f) \/ Borne(f)
      BY <2>1, <2>2 DEF ForgetInv, Acknowledged
    <3>2. CASE setup.idempotency = "none"
      BY <1>4, <3>1, <3>2 DEF ForgetInv, Unmarked, Borne
    <3>3. CASE setup.idempotency = "after"
      BY <1>4, <3>1, <3>3 DEF ForgetInv, AfterMarked, Borne, Vouched
    <3>4. CASE setup.idempotency = "before"
      <4>1. ~ (faults \subseteq {"expired"})
        BY <2>2, <3>4 DEF ForgetInv, OneCopy
      <4>2. e.id \notin marks /\ marks' = marks
        BY <1>3, <3>4, <4>1 DEF Sure
      <4> QED
        BY <1>4, <1>5, <3>1, <4>2
    <3> QED
      BY <3>2, <3>3, <3>4, SetupTyped DEF TypeInv
  <2> QED
    BY <1>1, <1>2, <1>4, <2>1, <2>2 DEF ForgetInv, Acknowledged
<1> QED
  BY <1>6, <1>7, <1>8, <1>9, <1>10 DEF ForgetInv

(* The same of an envelope that is given to a second worker. *)
LEMMA OverlapsForget ==
    ASSUME TypeInv, IdInv, ForgetInv, NEW w \in Workers, NEW u \in Workers, Overlaps(w, u),
           setup' = setup
    PROVE  ForgetInv'
<1> DEFINE e == slot[u].env
<1>1. InFlight' = InFlight
  BY FlightOverlaps
<1>2. /\ \A v \in Workers : v # w => slot'[v].env = slot[v].env /\ slot'[v].pc = slot[v].pc
      /\ slot[w].pc = "idle" /\ slot'[w].pc = Start /\ slot'[w].env = e
      /\ queue' = queue /\ settled' = settled /\ forgotten' = forgotten
      /\ slot[u].pc # "idle"
  BY DEF Overlaps, Takes
<1>3. /\ faults \subseteq faults' /\ marks' \subseteq marks
      /\ \A i \in marks : i # e.id => i \in marks'
      /\ setup.idempotency = "before" /\ faults' \cap {"late", "expired"} = {} =>
            e.id \notin marks /\ marks' = marks
      /\ setup.idempotency = "before" /\ faults' \subseteq {"expired"} =>
            e.id \in marks /\ e.id \notin marks'
      /\ setup.idempotency = "before" /\ "late" \notin faults'
         /\ ("expired" \in faults' => faults' = {"expired"}) =>
            (e.id \notin marks /\ marks' = marks) \/ faults \subseteq {"expired"}
  BY RedeliveryFaults DEF Overlaps
<1>4. \A f : Vouched(f) => Vouched(f)'
  BY <1>1, <1>2 DEF Vouched
<1>5. \A f : Borne(f) /\ marks' = marks => Borne(f)'
  BY <1>2 DEF Borne
<1>6. Start \in {"inside", "loaded"}
  BY DEF Start
<1>7. Labelled' /\ Unmarked'
  BY <1>2, <1>3, <1>6 DEF ForgetInv, Labelled, Unmarked
<1>8. AfterMarked'
  BY <1>1, <1>2, <1>3 DEF ForgetInv, AfterMarked
<1>9. BeforeMarked'
  BY <1>1, <1>3, <1>4, <1>5 DEF ForgetInv, BeforeMarked
<1>10. OneCopy'
  <2> SUFFICES ASSUME setup.idempotency = "before", faults' \subseteq {"expired"}
               PROVE  OneCopy'
    BY DEF OneCopy
  <2>1. faults \subseteq {"expired"} /\ e.id \in marks /\ e.id \notin marks'
    BY <1>3
  <2>2. e \notin queue
    BY <2>1 DEF ForgetInv, OneCopy
  <2>3. \A v \in Workers : slot[v].pc \in {"loaded", "marking"} => slot[v].env # e
    BY <2>1 DEF ForgetInv, OneCopy
  <2> QED
    BY <1>2, <1>3, <1>6, <2>1, <2>2, <2>3 DEF ForgetInv, OneCopy
<1>11. Acknowledged'
  <2> SUFFICES ASSUME Sure' PROVE Acknowledged'
    BY DEF Acknowledged
  <2>1. Sure
    BY <1>3 DEF Sure
  <2>2. ASSUME NEW f \in InFlight, NEW v \in Workers, v # w, slot[v].env = f,
               slot[v].pc = "skipped"
        PROVE  Vouched(f)' \/ Borne(f)'
    <3>1. Vouched(f) \/ Borne(f)
      BY <2>1, <2>2 DEF ForgetInv, Acknowledged
    <3>2. CASE setup.idempotency = "none"
      BY <1>4, <3>1, <3>2 DEF ForgetInv, Unmarked, Borne
    <3>3. CASE setup.idempotency = "after"
      BY <1>4, <3>1, <3>3 DEF ForgetInv, AfterMarked, Borne, Vouched
    <3>4. CASE setup.idempotency = "before"
      <4>1. ~ (faults \subseteq {"expired"})
        BY <2>2, <3>4 DEF ForgetInv, OneCopy
      <4>2. e.id \notin marks /\ marks' = marks
        BY <1>3, <3>4, <4>1 DEF Sure
      <4> QED
        BY <1>4, <1>5, <3>1, <4>2
    <3> QED
      BY <3>2, <3>3, <3>4, SetupTyped DEF TypeInv
  <2> QED
    BY <1>1, <1>2, <1>4, <1>6, <2>1, <2>2 DEF ForgetInv, Acknowledged
<1> QED
  BY <1>7, <1>8, <1>9, <1>10, <1>11 DEF ForgetInv

(* A call that throws: whoever bore a mark bears on. *)
LEMMA ErrsForget ==
    ASSUME TypeInv, ForgetInv, NEW w \in Workers, Errs(w), setup' = setup
    PROVE  ForgetInv'
<1>1. InFlight' = InFlight
  BY FlightMoves DEF Errs, Moves
<1>2. /\ \A v \in Workers : slot'[v].env = slot[v].env
      /\ \A v \in Workers : v # w => slot'[v].pc = slot[v].pc
      /\ slot'[w].pc \in {"failed", "refused"}
      /\ marks' = marks /\ settled' = settled /\ queue' = queue /\ forgotten' = forgotten
      /\ slot[w].pc \notin {"done", "skipped"}
  BY DEF Errs, Moves
<1>3. /\ faults \subseteq faults'
      /\ setup.idempotency # "none" => "error" \in faults'
      /\ faults' \cap {"late", "expired"} = faults \cap {"late", "expired"}
  BY DEF Errs, Fault, Stack
<1>4. \A f : Vouched(f) => Vouched(f)'
  BY <1>1, <1>2 DEF Vouched
<1>5. \A f : Borne(f) => Borne(f)'
  BY <1>2 DEF Borne
<1>6. Labelled' /\ Unmarked' /\ AfterMarked'
  BY <1>1, <1>2 DEF ForgetInv, Labelled, Unmarked, AfterMarked
<1>7. BeforeMarked'
  BY <1>1, <1>2, <1>3, <1>4, <1>5 DEF ForgetInv, BeforeMarked
<1>8. OneCopy'
  BY <1>3 DEF OneCopy
<1>9. Acknowledged'
  BY <1>1, <1>2, <1>3, <1>4, <1>5 DEF ForgetInv, Acknowledged, Sure
<1> QED
  BY <1>6, <1>7, <1>8, <1>9 DEF ForgetInv

(* Every step keeps what an acknowledgement relies on. *)
LEMMA NextForget == TypeInv /\ SoundInv /\ IdInv /\ ForgetInv /\ [Next]_vars => ForgetInv'
BY NextView, RestsForget, PublishesForget, DeliversForget, ChecksForget, MarksForget,
   FailsForget, SettlesForget, HandlesForget, LeavesForget, RetriesForget, AcksForget,
   CrashesForget, OverlapsForget, ErrsForget

(* Envelopes on top of types and counts. *)
LEMMA EnvelopesInvariant == Spec => [](TypeInv /\ SoundInv /\ CountInv /\ IdInv /\ ForgetInv)
<1>1. Init => IdInv /\ ForgetInv
  BY InitIds, InitForget
<1>2. TypeInv /\ SoundInv /\ IdInv /\ ForgetInv /\ [Next]_vars => IdInv' /\ ForgetInv'
  BY NextIds, NextForget
<1> QED
  BY <1>1, <1>2, TypesAndCounts, PTL DEF Spec

(* At least once, whatever the number of workers, messages and faults: unless the
   marks are set before the handler, a message leaves the broker only when its
   pipeline has come back or when it is dead-lettered; and then it takes a marked
   envelope to be delivered again, or a mark to expire on top of another fault. *)
THEOREM NothingIsForgotten == Spec => []NothingForgotten
<1>1. TypeInv /\ ForgetInv => NothingForgotten
  BY DEF ForgetInv, Acknowledged, Sure, NothingForgotten
<1> QED
  BY <1>1, EnvelopesInvariant, PTL

-----------------------------------------------------------------------------

(* What ProcessedOnce says of the faults. *)
Clean ==
    /\ Stack /\ faults \cap {"overlap", "expired"} = {}
    /\ setup.idempotency = "after" => faults \cap {"error", "crash"} = {}
    /\ "error" \in faults => faults = {"error"}

(* A worker has a copy that may yet be handled; what is refused is settled instead,
   and may be the copy that was due, or else a late one. *)
Due(w) ==
    \/ slot[w].pc \in {"marking", "inside", "saving", "arming", "failed"}
    \/ slot[w].pc = "loaded" /\ slot[w].env.id \notin marks
    \/ slot[w].pc = "refused" /\ "late" \notin faults

(* A late copy may be dead-lettered while the message is due in its next attempt. *)
Open(origin) == origin \notin processed /\ ("late" \notin faults => origin \notin settled)

(* Of a message that has not been processed one copy at most may yet be handled, in
   the queue or at a worker; the other copies are marked. *)
DueInQueue ==
    \A e \in queue : e.id \notin marks =>
        /\ Open(e.origin)
        /\ \A f \in queue : f.id \notin marks /\ f.origin = e.origin => f = e
        /\ \A w \in Workers : Due(w) => slot[w].env.origin # e.origin

DueAtWorkers ==
    \A w \in Workers : Due(w) =>
        /\ Open(slot[w].env.origin)
        /\ \A v \in Workers \ {w} : Due(v) => slot[v].env.origin # slot[w].env.origin

(* There is no marked copy about until one is delivered late. *)
NoneLate ==
    "late" \notin faults =>
        /\ \A e \in queue : e.id \notin marks
        /\ \A w \in Workers : slot[w].pc = "loaded" => slot[w].env.id \notin marks

MarkedFirst ==
    setup.idempotency = "before" /\ "error" \notin faults =>
        \A w \in Workers :
            slot[w].pc \notin {"idle", "loaded", "marking"} => slot[w].env.id \in marks

Once == processedTwice = {} /\ DueInQueue /\ DueAtWorkers /\ NoneLate /\ MarkedFirst

OnceInv == Clean => Once

(* Nothing is due to begin with. *)
LEMMA InitOnce == Init => OnceInv
BY DEF Init, Idle, OnceInv, Once, DueInQueue, DueAtWorkers, Open, NoneLate, MarkedFirst, Due

(* Steps in which nothing is published, marked or settled, and in which no worker
   gets a copy to handle that had none. *)
LEMMA QuietOnce ==
    ASSUME Once, queue' \subseteq queue, marks' = marks, settled' = settled,
           processed' = processed, processedTwice' = processedTwice, setup' = setup, faults' = faults,
           \A w \in Workers : Due(w)' => Due(w) /\ slot'[w].env = slot[w].env,
           NoneLate', MarkedFirst'
    PROVE  Once'
BY DEF Once, DueInQueue, DueAtWorkers, Open

(* A new message, published by an application or by a handler. *)
LEMMA SendsOnce ==
    ASSUME TypeInv, IdInv, Once, NEW f, f.id \in FreeIds, f.origin = f.id,
           queue' = queue \cup {f}, marks' = marks, settled' = settled, setup' = setup,
           processed' = processed, processedTwice' = processedTwice, faults' = faults,
           \A w \in Workers : Due(w)' => Due(w) /\ slot'[w].env = slot[w].env,
           \A w \in Workers : slot'[w].pc = "loaded" => /\ slot[w].pc = "loaded"
                                                     /\ slot'[w].env = slot[w].env,
           MarkedFirst'
    PROVE  Once'
<1>1. f.id \notin marks /\ \A e \in InFlight : e.origin # f.id
  BY FreeIsNew
<1>2. Open(f.origin)
  BY <1>1 DEF IdInv, Origins, Open
<1>3. \A e \in queue : e.origin # f.origin
  BY <1>1, FlightMember
<1>4. \A w \in Workers : Due(w) => slot[w].env.origin # f.origin
  BY <1>1, BusyFlight DEF Due
<1>5. DueInQueue' /\ DueAtWorkers'
  BY <1>1, <1>2, <1>3, <1>4 DEF Once, DueInQueue, DueAtWorkers, Open
<1>6. NoneLate'
  BY <1>1 DEF Once, NoneLate
<1> QED
  BY <1>5, <1>6 DEF Once

(* The mark is set before the handler: its worker has the only copy. *)
LEMMA MarksOnce ==
    ASSUME TypeInv, IdInv, Once, NEW w \in Workers, Marks(w), setup' = setup
    PROVE  Once'
<1> DEFINE e == slot[w].env
<1>1. /\ \A v \in Workers : slot'[v].env = slot[v].env
      /\ \A v \in Workers : v # w => slot'[v].pc = slot[v].pc
      /\ slot[w].pc = "marking" /\ slot'[w].pc = "inside"
      /\ marks' = marks \cup {e.id} /\ queue' = queue /\ settled' = settled
      /\ UNCHANGED <<processed, processedTwice, faults>>
  BY DEF Marks, Moves
<1>2. Due(w) /\ e \in InFlight
  BY <1>1, BusyFlight DEF Due
<1>3. \A v \in Workers : Due(v)' => Due(v)
  BY <1>1 DEF Due
<1>4. DueInQueue' /\ DueAtWorkers'
  BY <1>1, <1>3 DEF Once, DueInQueue, DueAtWorkers, Open
<1>5. ASSUME "late" \notin faults
      PROVE  /\ \A f \in queue : f.id # e.id
             /\ \A v \in Workers : slot[v].pc = "loaded" => slot[v].env.id # e.id
  <2>1. \A f \in queue : f \in InFlight /\ f.id \notin marks
    BY <1>5, FlightMember DEF Once, NoneLate
  <2>2. \A f \in queue : f # e
    BY <1>2, <1>5, <2>1 DEF Once, DueInQueue, Open
  <2>3. ASSUME NEW v \in Workers, slot[v].pc = "loaded"
        PROVE  slot[v].env \in InFlight /\ slot[v].env # e
    <3>1. slot[v].env \in InFlight
      BY <2>3, BusyFlight
    <3>2. Due(v) /\ v # w
      BY <1>1, <1>5, <2>3 DEF Once, NoneLate, Due
    <3> QED
      BY <1>2, <1>5, <3>1, <3>2 DEF Once, DueAtWorkers, Open
  <2> QED
    BY <1>2, <2>1, <2>2, <2>3 DEF IdInv, IdsUnique
<1>6. NoneLate'
  BY <1>1, <1>5 DEF Once, NoneLate
<1>7. MarkedFirst'
  BY <1>1 DEF Once, MarkedFirst
<1> QED
  BY <1>1, <1>4, <1>6, <1>7 DEF Once

(* The pipeline comes back: the one copy that was due is settled, and what is
   saved had not been saved before. *)
LEMMA SettlesOnce ==
    ASSUME TypeInv, IdInv, Clean, Once, NEW w \in Workers, Settles(w), setup' = setup
    PROVE  Once'
<1> DEFINE e == slot[w].env
<1>1. /\ \A v \in Workers : slot'[v].env = slot[v].env
      /\ \A v \in Workers : v # w => slot'[v].pc = slot[v].pc
      /\ slot[w].pc \in {"inside", "saving", "arming"} /\ slot'[w].pc = "returned"
      /\ marks' = marks /\ queue' = queue /\ settled' = settled \cup {e.origin}
      /\ processed' \subseteq processed \cup {e.origin}
      /\ faults' = faults
  BY DEF Settles, Moves, Clean
<1>2. Due(w)
  BY <1>1 DEF Due
<1>3. \A v \in Workers : Due(v)' => Due(v) /\ v # w
  BY <1>1 DEF Due
<1>4. e.origin \notin processed
  BY <1>2 DEF Once, DueAtWorkers, Open, IdInv, Origins
<1>5. processedTwice' = {}
  BY <1>4 DEF Settles, Once
<1>6. DueInQueue' /\ DueAtWorkers'
  BY <1>1, <1>2, <1>3 DEF Once, DueInQueue, DueAtWorkers, Open
<1>7. NoneLate' /\ MarkedFirst'
  BY <1>1 DEF Once, NoneLate, MarkedFirst
<1> QED
  BY <1>5, <1>6, <1>7 DEF Once

(* The mark is set after the handler: of what is settled no copy is due. *)
LEMMA LeavesOnce ==
    ASSUME TypeInv, IdInv, ForgetInv, Once, NEW w \in Workers, Leaves(w), setup' = setup
    PROVE  Once'
<1> DEFINE e == slot[w].env
<1>1. /\ \A v \in Workers : slot'[v].env = slot[v].env
      /\ \A v \in Workers : v # w => slot'[v].pc = slot[v].pc
      /\ slot[w].pc = "returned" /\ slot'[w].pc = "done"
      /\ marks \subseteq marks' /\ marks' \subseteq marks \cup {e.id}
      /\ queue' = queue /\ settled' = settled
      /\ UNCHANGED <<processed, processedTwice, faults>>
  BY DEF Leaves, Moves
<1>2. e \in InFlight /\ e.origin \in settled
  BY <1>1, BusyFlight DEF ForgetInv, Labelled
<1>3. \A v \in Workers : Due(v)' => Due(v)
  BY <1>1 DEF Due
<1>4. DueInQueue' /\ DueAtWorkers'
  BY <1>1, <1>3 DEF Once, DueInQueue, DueAtWorkers, Open
<1>5. ASSUME "late" \notin faults
      PROVE  /\ \A f \in queue : f.id # e.id
             /\ \A v \in Workers : slot[v].pc = "loaded" => slot[v].env.id # e.id
  <2>1. \A f \in queue : f \in InFlight /\ f.id \notin marks
    BY <1>5, FlightMember DEF Once, NoneLate
  <2>2. \A f \in queue : f # e
    BY <1>2, <1>5, <2>1 DEF Once, DueInQueue, Open
  <2>3. ASSUME NEW v \in Workers, slot[v].pc = "loaded"
        PROVE  slot[v].env \in InFlight /\ slot[v].env # e
    <3>1. slot[v].env \in InFlight
      BY <2>3, BusyFlight
    <3>2. Due(v)
      BY <1>5, <2>3 DEF Once, NoneLate, Due
    <3> QED
      BY <1>2, <1>5, <3>1, <3>2 DEF Once, DueAtWorkers, Open
  <2> QED
    BY <1>2, <2>1, <2>2, <2>3 DEF IdInv, IdsUnique
<1>6. NoneLate'
  BY <1>1, <1>5 DEF Once, NoneLate
<1>7. MarkedFirst'
  <2>1. setup.idempotency = "before" => marks' = marks
    BY DEF Leaves
  <2> QED
    BY <1>1, <2>1 DEF Once, MarkedFirst
<1> QED
  BY <1>1, <1>4, <1>6, <1>7 DEF Once

(* The copy that was due in the queue is due at the worker. *)
LEMMA DeliversOnce ==
    ASSUME TypeInv, Clean, Once, NEW w \in Workers, NEW e \in queue, Delivers(w, e),
           setup' = setup
    PROVE  Once'
<1>1. /\ \A v \in Workers : v # w => slot'[v].env = slot[v].env /\ slot'[v].pc = slot[v].pc
      /\ slot[w].pc = "idle" /\ slot'[w].pc = "loaded" /\ slot'[w].env = e
      /\ queue' = queue \ {e} /\ marks' = marks /\ settled' = settled
      /\ UNCHANGED <<processed, processedTwice, faults>>
  BY DEF Delivers, Takes, Start, Clean, Stack
<1>2. \A v \in Workers : v # w /\ Due(v)' => Due(v)
  BY <1>1 DEF Due
<1>3. Due(w)' => e.id \notin marks
  BY <1>1 DEF Due
<1>4. DueInQueue'
  BY <1>1, <1>2, <1>3 DEF Once, DueInQueue, Open
<1>5. DueAtWorkers'
  BY <1>1, <1>2, <1>3 DEF Once, DueInQueue, DueAtWorkers, Open
<1>6. NoneLate' /\ MarkedFirst'
  BY <1>1 DEF Once, NoneLate, MarkedFirst
<1> QED
  BY <1>1, <1>4, <1>5, <1>6 DEF Once

(* The copy that was due at the worker is due again in its next attempt, or is
   settled as a dead letter. *)
LEMMA RetriesOnce ==
    ASSUME TypeInv, IdInv, Once, NEW w \in Workers, Retries(w), setup' = setup
    PROVE  Once'
<1> DEFINE e == slot[w].env
<1>1. /\ \A v \in Workers : slot'[v].env = slot[v].env
      /\ \A v \in Workers : v # w => slot'[v].pc = slot[v].pc
      /\ slot[w].pc \in {"failed", "refused"} /\ slot'[w].pc = "done"
      /\ marks' = marks /\ UNCHANGED <<processed, processedTwice, faults>>
  BY DEF Retries, Moves
<1>2. slot[w].pc = "failed" \/ "late" \notin faults => Due(w)
  BY <1>1 DEF Due
<1>3. \A v \in Workers : Due(v)' => Due(v) /\ v # w
  BY <1>1 DEF Due
<1>4. MarkedFirst'
  BY <1>1 DEF Once, MarkedFirst
<1>5. CASE queue' = queue /\ settled' = settled \cup {e.origin}
  <2>1. DueInQueue' /\ DueAtWorkers'
    BY <1>1, <1>2, <1>3, <1>5 DEF Once, DueInQueue, DueAtWorkers, Open
  <2> QED
    BY <1>1, <1>4, <1>5, <2>1 DEF Once, NoneLate
<1>6. CASE /\ slot[w].pc = "failed"
           /\ \E f : RetriesAs(e, f) /\ queue' = queue \cup {f} /\ settled' = settled
  <2>1. PICK f : RetriesAs(e, f) /\ queue' = queue \cup {f} /\ settled' = settled
    BY <1>6
  <2>2. f.id \notin marks /\ f.origin = e.origin
    BY <2>1, FreeIsNew DEF RetriesAs
  <2>3. DueInQueue' /\ DueAtWorkers'
    BY <1>1, <1>2, <1>3, <1>6, <2>1, <2>2 DEF Once, DueInQueue, DueAtWorkers, Open
  <2> QED
    BY <1>1, <1>4, <2>1, <2>2, <2>3 DEF Once, NoneLate
<1> QED
  BY <1>5, <1>6 DEF Retries

(* An acknowledgement leaves the marks of what is in flight. *)
LEMMA AcksOnce ==
    ASSUME TypeInv, Once, NEW w \in Workers, Acks(w), setup' = setup
    PROVE  Once'
<1>1. /\ \A v \in Workers : v # w => slot'[v].env = slot[v].env /\ slot'[v].pc = slot[v].pc
      /\ slot[w].pc # "idle" /\ slot'[w].pc = "idle"
      /\ queue' = queue \ {slot[w].env} /\ settled' \subseteq settled
      /\ marks' = marks \cap {f.id : f \in InFlight'}
      /\ processed' \subseteq processed
      /\ processedTwice' \subseteq processedTwice /\ faults' = faults
  BY DEF Acks, Drops
<1>2. \A f \in queue' : f.id \in marks' <=> f.id \in marks
  <2>1. \A f \in queue' : f \in InFlight'
    BY DEF InFlight
  <2> QED
    BY <1>1, <2>1
<1>3. \A v \in Workers : v # w /\ slot[v].pc # "idle" =>
         (slot[v].env.id \in marks' <=> slot[v].env.id \in marks)
  <2>1. \A v \in Workers : v # w /\ slot[v].pc # "idle" => slot[v].env \in InFlight'
    BY BusyFlight, FlightAcks
  <2> QED
    BY <1>1, <2>1
<1>4. \A v \in Workers : Due(v)' => Due(v) /\ v # w
  BY <1>1, <1>3 DEF Due
<1>5. DueInQueue' /\ DueAtWorkers'
  BY <1>1, <1>2, <1>4 DEF Once, DueInQueue, DueAtWorkers, Open
<1>6. NoneLate'
  BY <1>1, <1>2, <1>3 DEF Once, NoneLate
<1>7. MarkedFirst'
  BY <1>1, <1>3 DEF Once, MarkedFirst
<1> QED
  BY <1>1, <1>5, <1>6, <1>7 DEF Once

(* A crash: if the envelope was not marked, its worker had the copy that was due. *)
LEMMA CrashesOnce ==
    ASSUME TypeInv, Clean, Clean', Once, NEW w \in Workers, Crashes(w), setup' = setup
    PROVE  Once'
<1> DEFINE e == slot[w].env
<1>1. /\ \A v \in Workers : v # w => slot'[v].env = slot[v].env /\ slot'[v].pc = slot[v].pc
      /\ slot[w].pc # "idle" /\ slot'[w].pc = "idle"
      /\ queue' = queue \cup {e} /\ settled' = settled
      /\ UNCHANGED <<processed, processedTwice>>
  BY DEF Crashes, Drops
<1>2. /\ faults \subseteq faults' /\ marks' = marks
      /\ \/ e.id \notin marks /\ "crash" \in faults'
         \/ e.id \in marks /\ "late" \in faults'
  BY DEF Crashes, Redelivery, Fault, Clean, Stack
<1>3. \A v \in Workers : Due(v)' => Due(v) /\ v # w
  BY <1>1, <1>2 DEF Due
<1>4. e.id \notin marks => Due(w)
  <2> SUFFICES ASSUME e.id \notin marks PROVE Due(w)
    OBVIOUS
  <2>1. "crash" \in faults' /\ "error" \notin faults /\ setup.idempotency = "before"
    <3>1. "crash" \in faults' /\ "error" \notin faults'
      BY <1>2 DEF Clean
    <3>2. setup.idempotency \in {"none", "before", "after"}
      BY SetupTyped DEF TypeInv
    <3> QED
      BY <1>2, <3>1, <3>2 DEF Clean, Stack
  <2> QED
    BY <1>1, <2>1 DEF Once, MarkedFirst, Due
<1>5. DueInQueue' /\ DueAtWorkers'
  BY <1>1, <1>2, <1>3, <1>4 DEF Once, DueInQueue, DueAtWorkers, Open
<1>6. NoneLate'
  BY <1>1, <1>2 DEF Once, NoneLate
<1>7. MarkedFirst'
  BY <1>1, <1>2 DEF Once, MarkedFirst
<1> QED
  BY <1>1, <1>5, <1>6, <1>7 DEF Once

(* A marked envelope that is given to a second worker will be refused by it. *)
LEMMA OverlapsOnce ==
    ASSUME TypeInv, Clean, Clean', Once, NEW w \in Workers, NEW u \in Workers, Overlaps(w, u),
           setup' = setup
    PROVE  Once'
<1> DEFINE e == slot[u].env
<1>1. /\ \A v \in Workers : v # w => slot'[v].env = slot[v].env /\ slot'[v].pc = slot[v].pc
      /\ slot[w].pc = "idle" /\ slot'[w].pc = "loaded" /\ slot'[w].env = e
      /\ UNCHANGED <<queue, settled, processed, processedTwice>>
  BY DEF Overlaps, Takes, Start, Clean, Stack
<1>2. /\ faults \subseteq faults' /\ marks' = marks /\ e.id \in marks /\ "late" \in faults'
  BY DEF Overlaps, Redelivery, Fault, Clean, Stack
<1>3. \A v \in Workers : Due(v)' => Due(v) /\ v # w
  BY <1>1, <1>2 DEF Due
<1>4. DueInQueue' /\ DueAtWorkers'
  BY <1>1, <1>2, <1>3 DEF Once, DueInQueue, DueAtWorkers, Open
<1>5. NoneLate' /\ MarkedFirst'
  BY <1>1, <1>2 DEF Once, NoneLate, MarkedFirst
<1> QED
  BY <1>1, <1>4, <1>5 DEF Once

(* A call that throws: with no late copy about, its worker had the one that is due. *)
LEMMA ErrsOnce ==
    ASSUME TypeInv, Clean, Clean', Once, NEW w \in Workers, Errs(w), setup' = setup
    PROVE  Once'
<1>1. /\ \A v \in Workers : slot'[v].env = slot[v].env
      /\ \A v \in Workers : v # w => slot'[v].pc = slot[v].pc
      /\ slot'[w].pc \in {"failed", "refused"}
      /\ queue' = queue /\ marks' = marks /\ settled' = settled
      /\ UNCHANGED <<processed, processedTwice>>
  BY DEF Errs, Moves
<1>2. "error" \in faults' /\ faults \subseteq faults'
  BY DEF Errs, Fault, Clean
<1>3. "late" \notin faults /\ setup.idempotency # "after"
  BY <1>2 DEF Clean
<1>4. Due(w)
  BY <1>3 DEF Errs, Due, Once, NoneLate
<1>5. \A v \in Workers : Due(v)' => Due(v)
  BY <1>1, <1>2, <1>4 DEF Due
<1>6. DueInQueue' /\ DueAtWorkers'
  BY <1>1, <1>2, <1>3, <1>5 DEF Once, DueInQueue, DueAtWorkers, Open
<1>7. NoneLate' /\ MarkedFirst'
  BY <1>1, <1>2, <1>3 DEF Once, NoneLate, MarkedFirst
<1> QED
  BY <1>1, <1>6, <1>7 DEF Once

(* Faults are never taken back, so what is clean after a step was so before. *)
LEMMA CleanBefore ==
    ASSUME setup' = setup, faults \subseteq faults', Clean'
    PROVE  Clean
BY DEF Clean, Stack

(* Every step keeps one copy due at most. *)
LEMMA NextOnce ==
    TypeInv /\ SoundInv /\ IdInv /\ ForgetInv /\ OnceInv /\ [Next]_vars => OnceInv'
<1> SUFFICES ASSUME TypeInv, SoundInv, IdInv, ForgetInv, OnceInv, [Next]_vars, Clean'
             PROVE  Once'
  BY DEF OnceInv
<1>0. setup' = setup
  BY NextView
<1>1. faults \subseteq faults'
  BY NextView DEF Rests, Publishes, Delivers, Checks, Marks, Fails, Parks, Settles, Handles,
                  Leaves, Retries, Acks, Crashes, Overlaps, Errs, Redelivery, Fault
<1>2. Clean /\ Once
  BY <1>0, <1>1, CleanBefore DEF OnceInv
<1>3. CASE Rests
  BY <1>0, <1>2, <1>3 DEF Rests, Once, DueInQueue, DueAtWorkers, Open, NoneLate, MarkedFirst, Due
<1>4. CASE Publishes
  <2>1. MarkedFirst'
    BY <1>0, <1>2, <1>4 DEF Publishes, Once, MarkedFirst
  <2>2. \A w \in Workers : Due(w)' => Due(w) /\ slot'[w].env = slot[w].env
    BY <1>4 DEF Publishes, Due
  <2> QED
    BY <1>0, <1>2, <1>4, <2>1, <2>2, SendsOnce DEF Publishes
<1>5. ASSUME NEW w \in Workers, NEW e \in queue, Delivers(w, e) PROVE Once'
  BY <1>0, <1>2, <1>5, DeliversOnce
<1>6. ASSUME NEW w \in Workers, Checks(w) PROVE Once'
  <2>1. slot[w].env.id \in marks => "late" \in faults
    BY <1>2, <1>6 DEF Checks, Once, NoneLate
  <2>2. \A v \in Workers : Due(v)' => Due(v) /\ slot'[v].env = slot[v].env
    BY <1>6, <2>1 DEF Checks, Moves, Due
  <2>3. NoneLate'
    BY <1>2, <1>6 DEF Checks, Moves, Once, NoneLate
  <2>4. MarkedFirst'
    BY <1>0, <1>2, <1>6 DEF Checks, Moves, Once, MarkedFirst
  <2> QED
    BY <1>0, <1>2, <1>6, <2>2, <2>3, <2>4, QuietOnce DEF Checks
<1>7. ASSUME NEW w \in Workers, Marks(w) PROVE Once'
  BY <1>0, <1>2, <1>7, MarksOnce
<1>8. ASSUME NEW w \in Workers, Fails(w) \/ Parks(w) PROVE Once'
  <2>0. Fails(w)
    BY <1>2, <1>8 DEF Clean, Parks
  <2>1. \A v \in Workers : Due(v)' => Due(v) /\ slot'[v].env = slot[v].env
    BY <2>0 DEF Fails, Moves, Due
  <2>2. NoneLate' /\ MarkedFirst'
    BY <1>0, <1>2, <2>0 DEF Fails, Moves, Once, NoneLate, MarkedFirst
  <2> QED
    BY <1>0, <1>2, <2>0, <2>1, <2>2, QuietOnce DEF Fails
<1>9. ASSUME NEW w \in Workers, Settles(w) PROVE Once'
  BY <1>0, <1>2, <1>9, SettlesOnce
<1>10. ASSUME NEW w \in Workers, Handles(w) PROVE Once'
  <2>1. \A v \in Workers : Due(v)' => Due(v) /\ slot'[v].env = slot[v].env
    BY <1>10 DEF Handles, Moves, Due
  <2>2. \A v \in Workers : slot'[v].pc = "loaded" => /\ slot[v].pc = "loaded"
                                                  /\ slot'[v].env = slot[v].env
    BY <1>10 DEF Handles, Moves
  <2>3. MarkedFirst'
    BY <1>0, <1>2, <1>10 DEF Handles, Moves, Once, MarkedFirst
  <2>4. CASE queue' = queue
    <3>1. NoneLate'
      BY <1>2, <1>10, <2>2, <2>4 DEF Handles, Once, NoneLate
    <3> QED
      BY <1>0, <1>2, <1>10, <2>1, <2>3, <2>4, <3>1, QuietOnce DEF Handles
  <2>5. CASE \E f : f.id \in FreeIds /\ f.origin = f.id /\ queue' = queue \cup {f}
    BY <1>0, <1>2, <1>10, <2>1, <2>2, <2>3, <2>5, SendsOnce DEF Handles
  <2> QED
    BY <1>10, <2>4, <2>5 DEF Handles
<1>11. ASSUME NEW w \in Workers, Leaves(w) PROVE Once'
  BY <1>0, <1>2, <1>11, LeavesOnce
<1>12. ASSUME NEW w \in Workers, Retries(w) PROVE Once'
  BY <1>0, <1>2, <1>12, RetriesOnce
<1>13. ASSUME NEW w \in Workers, Acks(w) PROVE Once'
  BY <1>0, <1>2, <1>13, AcksOnce
<1>14. ASSUME NEW w \in Workers, Crashes(w) PROVE Once'
  BY <1>0, <1>2, <1>14, CrashesOnce
<1>15. ASSUME NEW w \in Workers, NEW u \in Workers, Overlaps(w, u) PROVE Once'
  BY <1>0, <1>2, <1>15, OverlapsOnce
<1>16. ASSUME NEW w \in Workers, Errs(w) PROVE Once'
  BY <1>0, <1>2, <1>16, ErrsOnce
<1> QED
  BY <1>3, <1>4, <1>5, <1>6, <1>7, <1>8, <1>9, <1>10, <1>11, <1>12, <1>13, <1>14, <1>15, <1>16,
     NextView

(* At most once behind the middleware, whatever the number of workers, messages,
   redeliveries and retries, but for the faults the marks cannot know of. *)
THEOREM MessagesAreProcessedOnce == Spec => []ProcessedOnce
<1>1. Init => OnceInv
  BY InitOnce
<1>2. TypeInv /\ SoundInv /\ IdInv /\ ForgetInv /\ OnceInv /\ [Next]_vars => OnceInv'
  BY NextOnce
<1>3. TypeInv /\ OnceInv => ProcessedOnce
  BY DEF TypeInv, GhostsTyped, OnceInv, Once, Clean, ProcessedOnce
<1> QED
  BY <1>1, <1>2, <1>3, EnvelopesInvariant, PTL DEF Spec

-----------------------------------------------------------------------------

(* A worker that has the message handles it or hands it back. *)
Serves(x) ==
    \/ x.pc \in {"loaded", "inside", "saving"} /\ x.held # NoSaga
    \/ x.pc \in {"failed", "refused"}

(* A message the saga waits for: an envelope that will be handled. *)
Witness(e) ==
    /\ e \in InFlight /\ e.valid /\ e.id \notin marks
    /\ \A v \in Workers : slot[v].env = e => Serves(slot[v])

Expected(wait) ==
    (\E e \in InFlight : Witness(e) /\ e.message.type = wait[2]) \/ wait[2] \in dlq

(* Somebody is about to save a state that waits. *)
Saves(x, wait) ==
    /\ x.pc = "saving" /\ ~ x.stale
    /\ Result(x.env.message, x.held).state.status = wait[1]

Awaited(wait) ==
    \/ row # NoSaga /\ row.status = wait[1]
    \/ \E w \in Workers : Saves(slot[w], wait)

(* OwnMessagesArrive alone is not inductive: the message must be there before the
   state that waits for it is saved, and whoever has it must not be able to let
   it go. *)
ArriveInv == \A wait \in Waits : Awaited(wait) => Expected(wait)

(* Where a state waits, or is about to, the saga is there and not over. *)
LEMMA AwaitedIsOpen ==
    ASSUME SoundInv, Single, NEW wait \in Waits, Awaited(wait)
    PROVE  row # NoSaga /\ ~ row.isCompleted
<1>1. CASE row # NoSaga /\ row.status = wait[1]
  BY <1>1 DEF SoundInv, Sound, Over, Waits
<1>2. CASE \E w \in Workers : Saves(slot[w], wait)
  <2>1. PICK w \in Workers : slot[w].pc = "saving" /\ ~ slot[w].stale
    BY <1>2 DEF Saves
  <2>2. slot[w].held # NoSaga
    BY <2>1 DEF SoundInv, HeldSound
  <2> QED
    BY <2>1, <2>2 DEF Single, HeldFresh
<1> QED
  BY <1>1, <1>2 DEF Awaited

(* Only a state of the loan saga waits, and its bus is subscribed to what it
   waits for. *)
LEMMA WaitsAreHandled ==
    ASSUME NEW wait \in Waits, NEW saga, NEW s \in StatesOf(saga), s.status = wait[1]
    PROVE  wait[2] \in HandledTypes(saga) /\ Plain(wait[2]) \in Message
<1>1. wait[1] \notin OrderStatus
  BY DEF Waits, OrderStatus
<1>2. saga # "order"
  BY <1>1 DEF StatesOf, OrderSagaState
<1>3. /\ wait[2] \in LoanMessage
      /\ wait[2] \in LoanHandled
  BY DEF Waits, LoanHandled, LoanMessage, OfferMessages, DocumentMessages
<1> QED
  BY <1>2, <1>3, PlainMessage DEF HandledTypes

(* The order saga's states do not wait, so it does not matter how many instances of
   it there are. *)
LEMMA OrdersWaitForNothing ==
    ASSUME TypeInv, SoundInv, setup.saga # "loan"
    PROVE  ArriveInv
<1>1. setup.saga = "order"
  BY SetupTyped DEF TypeInv
<1>2. \A s \in StatesOf(setup.saga), wait \in Waits : s.status # wait[1]
  BY <1>1 DEF StatesOf, OrderSagaState, OrderStatus, Waits
<1>3. ASSUME NEW w \in Workers, slot[w].pc = "saving"
      PROVE  Result(slot[w].env.message, slot[w].held).state \in StatesOf(setup.saga)
  BY <1>3, HeldResult DEF SoundInv, HeldSound
<1>4. \A wait \in Waits : ~ Awaited(wait)
  BY <1>2, <1>3 DEF Awaited, Saves, TypeInv
<1> QED
  BY <1>4 DEF ArriveInv

(* No state waits to begin with. *)
LEMMA InitArrive == Init => ArriveInv
BY DEF Init, Idle, ArriveInv, Awaited, Saves

(* A step of one worker, to anything but a save, in which nothing leaves. *)
LEMMA OneSlotArrives ==
    ASSUME TypeInv, SoundInv, Single, ArriveInv, NEW w \in Workers, NEW x,
           slot' = [slot EXCEPT ![w] = x], row' = row, setup' = setup, dlq \subseteq dlq',
           InFlight \subseteq InFlight', marks' \subseteq marks, x.pc # "saving",
           row # NoSaga /\ ~ row.isCompleted =>
               \A e : Witness(e) /\ x.env = e => Serves(x)
    PROVE  ArriveInv'
<1>1. \A v \in Workers : slot'[v] = IF v = w THEN x ELSE slot[v]
  BY DEF TypeInv, SlotsTyped
<1>2. ASSUME NEW wait \in Waits, Awaited(wait)'
      PROVE  Awaited(wait)
  BY <1>1, <1>2 DEF Awaited, Saves
<1>3. ASSUME NEW e, Witness(e), row # NoSaga /\ ~ row.isCompleted
      PROVE  Witness(e)'
  BY <1>1, <1>3 DEF Witness
<1>4. ASSUME NEW wait \in Waits, Awaited(wait), Expected(wait)
      PROVE  Expected(wait)'
  BY <1>3, <1>4, AwaitedIsOpen DEF Expected
<1> QED
  BY <1>2, <1>4 DEF ArriveInv

(* A step that leaves every worker's copy as it is. *)
LEMMA NoSlotArrives ==
    ASSUME ArriveInv, UNCHANGED <<slot, row, setup, dlq>>, InFlight \subseteq InFlight',
           marks' \subseteq marks
    PROVE  ArriveInv'
<1>1. ASSUME NEW e, Witness(e) PROVE Witness(e)'
  BY <1>1 DEF Witness
<1>2. \A wait : Expected(wait) => Expected(wait)'
  BY <1>1 DEF Expected
<1> QED
  BY <1>2 DEF ArriveInv, Awaited

(* The saga is created: it does not wait, and nobody is about to save. *)
LEMMA CreateArrives ==
    ASSUME TypeInv, SoundInv, Single, NEW w \in Workers, Create(w), row = NoSaga
    PROVE  ArriveInv'
<1>1. row' = Initial(setup.saga, setup.application) /\ slot' = [slot EXCEPT ![w] = Created(w)]
  BY CreatedSlot
<1>2. row'.status \in {"pending", "submitted"}
  BY <1>1 DEF Initial, OrderInitial, LoanInitial
<1>3. \A v \in Workers : slot[v].pc # "saving"
  BY DEF Single, HeldFresh, SoundInv, HeldSound
<1>4. \A v \in Workers : slot'[v].pc = slot[v].pc
  BY <1>1 DEF Created, TypeInv, SlotsTyped
<1> QED
  BY <1>2, <1>3, <1>4 DEF ArriveInv, Awaited, Saves, Waits

(* The handler publishes what the state it makes will wait for, unless the state it
   has loaded waited already; and it publishes before it saves. *)
LEMMA HandleArrives ==
    ASSUME TypeInv, SoundInv, Single, ArriveInv, NEW w \in Workers, HandleMessage(w)
    PROVE  ArriveInv'
<1> DEFINE sends == Result(slot[w].env.message, slot[w].held).sends
<1>0. /\ slot[w].pc = "inside" /\ slot[w].held # NoSaga
      /\ slot' = [slot EXCEPT ![w] = [slot[w] EXCEPT !.pc = "saving"]]
      /\ UNCHANGED <<setup, row, marks, dlq>>
  BY DEF HandleMessage, ghosts
<1>1. PICK i \in FreeIds : queue' = queue \cup {Envelope(m, TRUE, i) : m \in Own(sends)}
  BY DEF HandleMessage
<1>2. \A v \in Workers : /\ slot'[v].env = slot[v].env /\ slot'[v].held = slot[v].held
                         /\ slot'[v].stale = slot[v].stale
                         /\ slot'[v].pc = IF v = w THEN "saving" ELSE slot[v].pc
  BY <1>0 DEF TypeInv, SlotsTyped, SlotsOf
<1> DEFINE new == {Envelope(m, TRUE, i) : m \in Own(sends)}
<1>3. InFlight' = InFlight \cup new
  <2>1. queue' = queue \cup new
    BY <1>1
  <2> HIDE DEF new
  <2> QED
    BY <1>2, <2>1 DEF InFlight
<1>4. ASSUME NEW e, Witness(e) PROVE Witness(e)'
  BY <1>0, <1>2, <1>3, <1>4 DEF Witness, Serves
<1>5. \A wait : Expected(wait) => Expected(wait)'
  BY <1>0, <1>4 DEF Expected, Witness
<1>6. ASSUME NEW wait \in Waits, Plain(wait[2]) \in Own(sends)
      PROVE  Expected(wait)'
  <2> DEFINE e == Envelope(Plain(wait[2]), TRUE, i)
  <2>1. /\ e.id = i /\ e.valid = TRUE /\ e.message.type = wait[2]
    BY DEF Envelope, Plain
  <2>2. e \in InFlight'
    BY <1>3, <1>6
  <2>3. e.id \notin marks /\ e \notin InFlight
    BY <2>1, FreeIsNew
  <2>4. e # NoEnvelope
    <3>1. Plain(wait[2]) \in Message /\ Plain(wait[2]).type \in HandledTypes(setup.saga)
      BY <1>0, <1>6, HeldResult DEF Own
    <3>2. e \in Deliverable(setup.saga)
      BY <3>1, EnvelopeTyped DEF FreeIds
    <3> QED
      BY <3>2, NothingIsNothing
  <2> HIDE DEF e
  <2>5. \A v \in Workers : slot'[v].env # e
    BY <1>2, <2>3, <2>4, FlightMember
  <2>6. \A f : f = e => Witness(f)'
    BY <1>0, <2>1, <2>2, <2>3, <2>5 DEF Witness
  <2> QED
    BY <2>1, <2>2, <2>6 DEF Expected
<1>7. ASSUME NEW wait \in Waits, Saves(slot'[w], wait)
      PROVE  Expected(wait)'
  <2>1. /\ ~ slot[w].stale
        /\ Result(slot[w].env.message, slot[w].held).state.status = wait[1]
    BY <1>2, <1>7 DEF Saves
  <2>2. \/ slot[w].held.status = wait[1]
        \/ Plain(wait[2]) \in sends
    BY <1>0, <2>1, HeldResult
  <2>3. CASE slot[w].held.status = wait[1]
    <3>1. row # NoSaga /\ row.status = wait[1]
      BY <1>0, <2>1, <2>3 DEF Single, HeldFresh
    <3> QED
      BY <1>5, <1>7, <3>1 DEF ArriveInv, Awaited
  <2>4. CASE Plain(wait[2]) \in sends
    <3>1. Result(slot[w].env.message, slot[w].held).state \in StatesOf(setup.saga)
      BY <1>0, HeldResult
    <3>2. wait[2] \in HandledTypes(setup.saga)
      BY <2>1, <3>1, WaitsAreHandled
    <3>3. Plain(wait[2]) \in Own(sends)
      BY <2>4, <3>2 DEF Own, Plain
    <3> QED
      BY <1>6, <3>3
  <2> QED
    BY <2>2, <2>3, <2>4
<1>8. ASSUME NEW wait \in Waits, Awaited(wait)'
      PROVE  Expected(wait)'
  <2>1. CASE row # NoSaga /\ row.status = wait[1]
    BY <1>5, <1>8, <2>1 DEF ArriveInv, Awaited
  <2>2. CASE \E v \in Workers : Saves(slot'[v], wait)
    <3>1. PICK v \in Workers : Saves(slot'[v], wait)
      BY <2>2
    <3>2. CASE v # w
      <4>1. Saves(slot[v], wait)
        BY <1>2, <3>1, <3>2 DEF Saves
      <4> QED
        BY <1>5, <1>8, <4>1 DEF ArriveInv, Awaited
    <3> QED
      BY <1>7, <1>8, <3>1, <3>2
  <2> QED
    BY <1>0, <1>8, <2>1, <2>2 DEF Awaited, Saves
<1> QED
  BY <1>0, <1>8 DEF ArriveInv

(* A save: whoever else is about to save will lose, so a state that waits is the one
   that is saved; and its message is not the one that was handled. *)
LEMMA SaveArrives ==
    ASSUME TypeInv, SoundInv, Numbered, Alone, ArriveInv, NEW w \in Workers, Save(w)
    PROVE  ArriveInv'
<1> DEFINE saved == Result(slot[w].env.message, slot[w].held).state
<1>2. slot[w].pc = "saving" /\ ~ slot[w].stale /\ slot[w].held # NoSaga
  BY DEF Save, SoundInv, HeldSound
<1>0. \A v \in Workers : slot[v].held # NoSaga => slot[v].of = 1 /\ instances = 1
  BY DEF Numbered, Numbers, Alone, TypeInv, SlotsTyped, SlotsOf
<1>1. /\ slot[w].pc = "saving" /\ ~ slot[w].stale
      /\ row' = Result(slot[w].env.message, slot[w].held).state
      /\ UNCHANGED <<setup, queue, marks, dlq>>
  BY <1>0, <1>2 DEF Save
<1>3. PICK label \in {"arming", "returned", "done"} :
         slot' = [v \in Workers |->
                     IF v = w THEN Past(w, label, Counts(w, saved))
                     ELSE [slot[v] EXCEPT !.stale = @ \/ slot[v].of = slot[w].of]]
  BY DEF Save, Back
<1>4. slot'[w].pc = label /\ slot'[w].env = slot[w].env
  BY <1>3, PastShape
<1>5. \A v \in Workers : v # w =>
         /\ slot'[v].pc = slot[v].pc /\ slot'[v].env = slot[v].env
         /\ slot'[v].held = slot[v].held
         /\ slot[v].held # NoSaga => slot'[v].stale
  <2>1. \A v \in Workers : slot[v] \in SlotsOf(setup.saga)
    BY DEF TypeInv, SlotsTyped
  <2> QED
    BY <1>0, <1>2, <1>3, <2>1 DEF SlotsOf
<1>6. InFlight' = InFlight
  BY <1>1, <1>4, <1>5, FlightMoves
<1>7. ASSUME NEW wait \in Waits, Awaited(wait)'
      PROVE  Expected(wait)'
  <2>1. \A v \in Workers : ~ Saves(slot'[v], wait)
    BY <1>4, <1>5 DEF Saves, SoundInv, HeldSound
  <2>2. row'.status = wait[1]
    BY <1>7, <2>1 DEF Awaited, Saves
  <2>3. Expected(wait)
    BY <1>1, <1>7, <2>2 DEF ArriveInv, Awaited, Saves
  <2>4. slot[w].env.message.type # wait[2]
    BY <1>1, <1>2, <2>2, HeldResult
  <2>5. ASSUME NEW e, Witness(e), e.message.type = wait[2] PROVE Witness(e)'
    BY <1>1, <1>4, <1>5, <1>6, <2>4, <2>5 DEF Witness, Serves
  <2> QED
    BY <1>1, <1>6, <2>3, <2>5 DEF Expected
<1> QED
  BY <1>1, <1>7 DEF ArriveInv

(* On the way back only the mark of a message that has been handled is set. *)
LEMMA LeaveArrives ==
    ASSUME TypeInv, SoundInv, IdInv, ArriveInv, NEW w \in Workers, Leave(w)
    PROVE  ArriveInv'
<1>1. /\ slot[w].pc = "returned" /\ slot' = [slot EXCEPT ![w] = Past(w, "done", {})]
      /\ UNCHANGED <<setup, row, queue, dlq>>
      /\ marks' \subseteq marks \cup {slot[w].env.id}
  BY DEF Leave, ghosts
<1>2. /\ slot'[w].pc = "done" /\ slot'[w].env = slot[w].env
      /\ \A v \in Workers : v # w => slot'[v] = slot[v]
  BY <1>1, PastShape DEF TypeInv, SlotsTyped
<1>3. InFlight' = InFlight
  BY <1>1, <1>2, FlightMoves
<1>4. slot[w].env \in InFlight
  BY <1>1, BusyFlight
<1>5. ASSUME NEW e, Witness(e) PROVE Witness(e)'
  <2>1. e # slot[w].env
    BY <1>1, <1>5 DEF Witness, Serves
  <2>2. e.id \notin marks'
    BY <1>1, <1>4, <1>5, <2>1 DEF Witness, IdInv, IdsUnique
  <2> QED
    BY <1>2, <1>3, <1>5, <2>1, <2>2 DEF Witness
<1>6. \A wait : Expected(wait) => Expected(wait)'
  BY <1>1, <1>3, <1>5 DEF Expected
<1>7. \A wait : Awaited(wait)' => Awaited(wait)
  BY <1>1, <1>2 DEF Awaited, Saves
<1> QED
  BY <1>1, <1>6, <1>7 DEF ArriveInv

(* A failed message comes back under a new id, or becomes a dead letter. *)
LEMMA RetryArrives ==
    ASSUME TypeInv, SoundInv, ArriveInv, NEW w \in Workers, Retry(w)
    PROVE  ArriveInv'
<1>1. /\ slot[w].pc \in {"failed", "refused"}
      /\ slot' = [slot EXCEPT ![w] = Past(w, "done", {})]
      /\ UNCHANGED <<setup, row, marks>>
  BY DEF Retry
<1>2. /\ slot'[w].pc = "done" /\ slot'[w].env = slot[w].env
      /\ \A v \in Workers : v # w => slot'[v] = slot[v]
  BY <1>1, PastShape DEF TypeInv, SlotsTyped
<1>3. InFlight \subseteq InFlight' /\ dlq \subseteq dlq'
  <2>1. queue \subseteq queue' /\ dlq \subseteq dlq'
    BY DEF Retry, DeadLetter
  <2> QED
    BY <1>2, <2>1 DEF InFlight
<1>4. ASSUME NEW e, Witness(e), e # slot[w].env PROVE Witness(e)'
  BY <1>1, <1>2, <1>3, <1>4 DEF Witness
<1>5. ASSUME NEW wait \in Waits, Witness(slot[w].env),
             slot[w].env.message.type = wait[2]
      PROVE  Expected(wait)'
  <2> DEFINE e == slot[w].env
  <2>1. CASE slot[w].pc = "failed" /\ e.attempt < MaxAttempts
    <3>1. PICK i \in FreeIds : queue' = queue \cup {[e EXCEPT !.id = i, !.attempt = @ + 1]}
      BY <2>1 DEF Retry
    <3> DEFINE f == [e EXCEPT !.id = i, !.attempt = @ + 1]
    <3>2. e \in Deliverable(setup.saga)
      BY <1>1 DEF TypeInv, SlotsTyped, SlotsOf, Placed
    <3>3. f.id = i /\ f.message = e.message /\ f.valid = e.valid
      BY <3>2 DEF Deliverable, Envelopes
    <3>4. f # NoEnvelope
      <4>1. f \in Deliverable(setup.saga)
        BY <2>1, <3>2, RetryTyped DEF FreeIds
      <4> QED
        BY <4>1, NothingIsNothing
    <3> HIDE DEF f
    <3>5. f.id \notin marks /\ f \notin InFlight
      BY <3>3, FreeIsNew
    <3>6. f \in InFlight'
      BY <3>1 DEF f, InFlight
    <3>7. \A v \in Workers : slot'[v].env # f
      BY <1>2, <3>4, <3>5, FlightMember
    <3>8. \A g : g = f => Witness(g)'
      BY <1>1, <1>5, <3>3, <3>5, <3>6, <3>7 DEF Witness
    <3> QED
      BY <1>5, <3>3, <3>6, <3>8 DEF Expected
  <2>2. CASE ~ (slot[w].pc = "failed" /\ e.attempt < MaxAttempts)
    BY <1>5, <2>2 DEF Retry, DeadLetter, Expected
  <2> QED
    BY <2>1, <2>2
<1>6. \A wait \in Waits : Expected(wait) => Expected(wait)'
  BY <1>3, <1>4, <1>5 DEF Expected
<1>7. \A wait : Awaited(wait)' => Awaited(wait)
  BY <1>1, <1>2 DEF Awaited, Saves
<1> QED
  BY <1>1, <1>6, <1>7 DEF ArriveInv

(* What is acknowledged is no message that will be handled. *)
LEMMA AckArrives ==
    ASSUME TypeInv, SoundInv, ArriveInv, NEW w \in Workers, Ack(w)
    PROVE  ArriveInv'
<1>1. /\ slot[w].pc \in {"done", "skipped"} /\ queue' = queue \ {slot[w].env}
      /\ slot' = [v \in Workers |->
                      IF v = w THEN Idle
                      ELSE [slot[v] EXCEPT !.leased = @ /\ slot[v].env # slot[w].env]]
      /\ marks' \subseteq marks
      /\ UNCHANGED <<setup, row, dlq>>
  BY DEF Ack
<1>2. slot'[w].env = NoEnvelope /\ slot'[w].pc = "idle"
  BY <1>1 DEF Idle
<1>3. \A v \in Workers : v # w =>
         /\ slot'[v].pc = slot[v].pc /\ slot'[v].env = slot[v].env
         /\ slot'[v].held = slot[v].held /\ slot'[v].stale = slot[v].stale
  <2>1. \A v \in Workers : slot[v] \in SlotsOf(setup.saga)
    BY DEF TypeInv, SlotsTyped
  <2> QED
    BY <1>1, <2>1 DEF SlotsOf
<1>4. InFlight \ {slot[w].env} \subseteq InFlight'
  BY <1>1, <1>3 DEF InFlight
<1>5. NoEnvelope \notin InFlight
  BY NothingIsNothing DEF TypeInv, InFlight
<1>6. ASSUME NEW e, Witness(e) PROVE Witness(e)'
  <2>1. e # slot[w].env /\ e # NoEnvelope
    BY <1>1, <1>5, <1>6 DEF Witness, Serves
  <2> QED
    BY <1>1, <1>2, <1>3, <1>4, <1>6, <2>1 DEF Witness, Serves
<1>7. \A wait : Expected(wait) => Expected(wait)'
  BY <1>1, <1>6 DEF Expected, Witness
<1>8. \A wait : Awaited(wait)' => Awaited(wait)
  BY <1>1, <1>2, <1>3 DEF Awaited, Saves
<1> QED
  BY <1>1, <1>7, <1>8 DEF ArriveInv

(* Every step of the loan saga leaves a message that is waited for on its way. *)
LEMMA NextArrive ==
    TypeInv /\ SoundInv /\ CountInv /\ IdInv /\ ForgetInv /\ ArriveInv /\ [Next]_vars
        /\ setup.saga = "loan" => ArriveInv'
<1> SUFFICES ASSUME TypeInv, SoundInv, CountInv, IdInv, ForgetInv, ArriveInv, [Next]_vars,
                    setup.saga = "loan"
             PROVE  ArriveInv'
  OBVIOUS
<1>0. setup' = setup
  BY NextView
<1>1. setup.unique /\ setup.idempotency = "none"
  BY LoanSetupAssumption DEF TypeInv
<1>2. Numbered /\ Alone /\ Single
  BY <1>1 DEF CountInv, Numbered
<1>3. QED
  <2>0. NoEnvelope \notin InFlight
    BY NothingIsNothing DEF TypeInv, InFlight
  <2>1. CASE UNCHANGED vars
    <3>1. InFlight' = InFlight
      BY <2>1 DEF vars, InFlight
    <3> QED
      BY <2>1, <3>1, NoSlotArrives DEF vars
  <2>2. CASE Reply
    <3>1. queue \subseteq queue' /\ slot' = slot
      BY <2>2 DEF Reply
    <3>2. InFlight \subseteq InFlight'
      BY <3>1 DEF InFlight
    <3> QED
      BY <2>2, <3>2, NoSlotArrives DEF Reply, ghosts
  <2>3. ASSUME NEW w \in Workers, NEW e \in queue, Deliver(w, e) PROVE ArriveInv'
    <3>1. InFlight' = InFlight
      <4>1. Delivers(w, e)
        BY <2>3, HoldingTakes DEF Deliver, Delivers, ghosts, TypeInv
      <4> QED
        BY <4>1, FlightDelivers
    <3>2. /\ Holding(e).pc \in {"loaded", "inside"} /\ Holding(e).held = row
      BY HoldingShape
    <3> QED
      BY <1>2, <2>3, <3>1, <3>2, OneSlotArrives DEF Deliver, ghosts, Serves
  <2>4. ASSUME NEW w \in Workers, NEW v \in Workers, Overlap(w, v) PROVE ArriveInv'
    <3>1. InFlight' = InFlight
      <4>1. Overlaps(w, v)
        BY <2>4, HoldingTakes DEF Overlap, Overlaps, ghosts, TypeInv
      <4> QED
        BY <4>1, FlightOverlaps
    <3>2. /\ Holding(slot[v].env).pc \in {"loaded", "inside"}
          /\ Holding(slot[v].env).held = row
      BY HoldingShape
    <3>3. marks' \subseteq marks
      BY <2>4 DEF Overlap, Redelivery
    <3> QED
      BY <1>2, <2>4, <3>1, <3>2, <3>3, OneSlotArrives DEF Overlap, ghosts, Serves
  <2>5. ASSUME NEW w \in Workers, NEW label \in Labels \ {"saving"}, NEW x,
               slot' = [slot EXCEPT ![w] = x], x.pc = label, x.env = slot[w].env,
               queue' = queue, row' = row, marks' = marks, dlq \subseteq dlq',
               row # NoSaga /\ ~ row.isCompleted /\ Witness(slot[w].env) => Serves(x)
        PROVE  ArriveInv'
    <3>1. \A v \in Workers : slot'[v].env = slot[v].env
      BY <2>5 DEF TypeInv, SlotsTyped
    <3>2. InFlight' = InFlight
      BY <2>5, <3>1, FlightMoves
    <3> QED
      BY <1>0, <1>2, <2>5, <3>2, OneSlotArrives
  <2>6. ASSUME NEW w \in Workers, NEW how \in {"failed", "refused"},
               slot' = [slot EXCEPT ![w] = Past(w, how, {})], UNCHANGED <<queue, row, marks, dlq>>
        PROVE  ArriveInv'
    <3>1. Past(w, how, {}).pc = how /\ Past(w, how, {}).env = slot[w].env
      BY PastShape
    <3> QED
      BY <2>5, <2>6, <3>1 DEF Labels, Serves
  <2>7. ASSUME NEW w \in Workers, CheckMark(w) PROVE ArriveInv'
    <3>1. CASE slot[w].env.id \in marks /\ setup.onDuplicate = "throw"
      BY <2>6, <2>7, <3>1 DEF CheckMark, Throws, ghosts
    <3>2. CASE slot[w].env.id \in marks /\ setup.onDuplicate # "throw"
      <4>1. /\ Past(w, "skipped", {}).pc = "skipped"
            /\ Past(w, "skipped", {}).env = slot[w].env
        BY PastShape
      <4>2. ~ Witness(slot[w].env)
        BY <3>2 DEF Witness
      <4> QED
        BY <2>5, <2>7, <3>2, <4>1, <4>2 DEF CheckMark, ghosts, Labels
    <3>3. CASE slot[w].env.id \notin marks
      <4> DEFINE x == [slot[w] EXCEPT !.pc = "inside"]
      <4>1. slot' = [slot EXCEPT ![w] = x]
        BY <1>1, <2>7, <3>3 DEF CheckMark
      <4>2. x.pc = "inside" /\ x.env = slot[w].env /\ x.held = slot[w].held
        BY DEF TypeInv, SlotsTyped, SlotsOf
      <4>3. slot[w].pc = "loaded"
        BY <2>7 DEF CheckMark
      <4>4. Witness(slot[w].env) => Serves(x)
        BY <4>2, <4>3 DEF Witness, Serves
      <4> HIDE DEF x
      <4> QED
        BY <2>5, <2>7, <4>1, <4>2, <4>4 DEF CheckMark, ghosts, Labels
    <3> QED
      BY <3>1, <3>2, <3>3
  <2>8. ASSUME NEW w \in Workers, Returns(w), ~ (/\ row # NoSaga /\ ~ row.isCompleted
                                                 /\ Witness(slot[w].env)),
               UNCHANGED <<queue, row, marks>>, dlq \subseteq dlq'
        PROVE  ArriveInv'
    <3> DEFINE x == Past(w, Back, slot[w].counts)
    <3>1. slot' = [slot EXCEPT ![w] = x] /\ Back \in {"returned", "done"}
      BY <2>8 DEF Returns, Back
    <3>2. x.pc = Back /\ x.env = slot[w].env
      BY PastShape
    <3> HIDE DEF x
    <3> QED
      BY <2>5, <2>8, <3>1, <3>2 DEF Labels
  <2>9. ASSUME NEW w \in Workers, Invalid(w) PROVE ArriveInv'
    <3>1. ~ Witness(slot[w].env)
      BY <2>9 DEF Invalid, Witness
    <3>2. UNCHANGED <<queue, row, marks>> /\ dlq \subseteq dlq'
      BY <2>9 DEF Invalid, DeadLetter
    <3>3. CASE setup.onInvalid = "throw"
      BY <2>6, <2>9, <3>2, <3>3 DEF Invalid, Throws
    <3>4. CASE setup.onInvalid # "throw"
      BY <2>8, <2>9, <3>1, <3>2, <3>4 DEF Invalid
    <3> QED
      BY <3>3, <3>4
  <2>10. ASSUME NEW w \in Workers, Ignore(w) PROVE ArriveInv'
    <3>1. row # NoSaga /\ ~ row.isCompleted => ~ Witness(slot[w].env)
      BY <1>2, <2>10 DEF Ignore, Witness, Serves, Single, HeldFresh
    <3> QED
      BY <2>8, <2>10, <3>1 DEF Ignore
  <2>11. ASSUME NEW w \in Workers, Create(w) PROVE ArriveInv'
    <3>1. CASE row # NoSaga
      BY <1>1, <2>6, <2>11, <3>1 DEF Create, Throws, ghosts
    <3> QED
      BY <1>2, <2>11, <3>1, CreateArrives
  <2>12. ASSUME NEW w \in Workers, Loses(w) \/ Error(w) PROVE ArriveInv'
    <3>1. PICK how \in {"failed", "refused"} : slot' = [slot EXCEPT ![w] = Past(w, how, {})]
      BY <2>12 DEF Loses, Error, Throws
    <3> QED
      BY <2>6, <2>12, <3>1 DEF Loses, Error, ghosts
  <2>13. ASSUME NEW w \in Workers, Crash(w) PROVE ArriveInv'
    <3>1. Crashes(w)
      BY <2>13 DEF Crash, Crashes, Drops, TypeInv, SlotsTyped, Idle, ghosts
    <3>2. InFlight' = InFlight
      BY <3>1, FlightCrashes
    <3>3. Idle.env = NoEnvelope /\ Idle.pc = "idle"
      BY DEF Idle
    <3>4. marks' \subseteq marks
      BY <2>13 DEF Crash, Redelivery
    <3>5. \A e : Witness(e) => Idle.env # e
      BY <2>0, <3>3 DEF Witness
    <3> QED
      BY <1>2, <2>13, <3>2, <3>3, <3>4, <3>5, OneSlotArrives DEF Crash, ghosts
  <2>14. ASSUME NEW w \in Workers, MarkBefore(w) PROVE ArriveInv'
    BY <1>1, <2>14 DEF MarkBefore, ForgetInv, Labelled
  <2>15. ASSUME NEW w \in Workers, Arm(w) PROVE ArriveInv'
    <3>1. ~ Witness(slot[w].env)
      BY <2>15 DEF Arm, Witness, Serves
    <3> QED
      BY <2>8, <2>15, <3>1 DEF Arm
  <2> QED
    BY <1>2, <2>1, <2>2, <2>3, <2>4, <2>7, <2>9, <2>10, <2>11, <2>12, <2>13, <2>14, <2>15,
       HandleArrives, SaveArrives, LeaveArrives, RetryArrives, AckArrives DEF Next, Step

(* A saga that waits for a message it has published itself gets it, whatever the
   number of workers, faults and attempts, unless it is dead-lettered. *)
THEOREM OwnMessagesDoArrive == Spec => []OwnMessagesArrive
<1>1. ArriveInv => OwnMessagesArrive
  BY DEF ArriveInv, OwnMessagesArrive, Awaited, Expected
<1>2. Init => ArriveInv
  BY InitArrive
<1>3. TypeInv /\ SoundInv /\ CountInv /\ IdInv /\ ForgetInv /\ ArriveInv /\ [Next]_vars
         /\ setup.saga = "loan" => ArriveInv' /\ (setup.saga = "loan")'
  BY NextArrive, NextView
<1>4. TypeInv /\ SoundInv /\ ~ (setup.saga = "loan") => ArriveInv
  BY OrdersWaitForNothing
<1>5. TypeInv /\ SoundInv /\ [Next]_vars /\ ~ (setup.saga = "loan") => ~ (setup.saga = "loan")'
  BY NextView
<1> QED
  BY <1>1, <1>2, <1>3, <1>4, <1>5, EnvelopesInvariant, PTL DEF Spec

=============================================================================
