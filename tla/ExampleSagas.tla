---------------------------- MODULE ExampleSagas ----------------------------
(***************************************************************************)
(* The two sagas the repository ships as examples: the order fulfilment    *)
(* saga and the loan application saga.  They are pure: an initial state    *)
(* and, for every message, the handler that takes the state to the next    *)
(* one and the messages it publishes.  ExampleBus runs them.               *)
(*                                                                         *)
(* A state keeps its status, whether it is completed, what was applied for *)
(* and the names of the optional members it has.  A message is its type    *)
(* and, where a handler looks at its content, the detail it looks at.      *)
(***************************************************************************)
EXTENDS FiniteSets

(* Message types, loan.ts section by section; Requests leave the system and *)
(* Answers, sooner or later, come back.                                     *)
SubmissionMessages   == {"LoanApplicationSubmitted"}
IdentityMessages     == {"IdentityVerificationRequested", "IdentityVerified",
                         "IdentityVerificationFailed"}
CreditMessages       == {"CreditCheckRequested", "CreditCheckCompleted", "CreditCheckFailed"}
EmploymentMessages   == {"EmploymentVerificationRequested", "EmploymentVerified",
                         "EmploymentVerificationFailed"}
DocumentMessages     == {"DocumentsRequested", "DocumentsReceived", "DocumentsVerified",
                         "DocumentVerificationFailed"}
AppraisalMessages    == {"AppraisalRequested", "AppraisalCompleted", "AppraisalFailed"}
UnderwritingMessages == {"UnderwritingRequested", "UnderwritingApproved",
                         "UnderwritingDenied", "UnderwritingPendingReview"}
OfferMessages        == {"FinalApprovalRequested", "LoanApproved", "LoanOfferSent",
                         "LoanOfferAccepted", "LoanOfferDeclined", "LoanOfferExpired"}
DisbursementMessages == {"DisbursementRequested", "DisbursementCompleted",
                         "DisbursementFailed"}
StatusMessages       == {"ApplicationStatusUpdated", "ApplicationCancelled",
                         "ApplicationCompleted"}

LoanMessage ==
    UNION { SubmissionMessages, IdentityMessages, CreditMessages, EmploymentMessages,
            DocumentMessages, AppraisalMessages, UnderwritingMessages, OfferMessages,
            DisbursementMessages, StatusMessages }

OrderMessage ==
    {"OrderSubmitted", "PaymentRequested", "PaymentCaptured", "PaymentFailed",
     "InventoryReserveRequested", "InventoryReserved", "InventoryReservationFailed",
     "ShipmentRequested", "ShipmentCreated", "OrderCancelled", "OrderCompleted"}

Plain(type) == [type |-> type, detail |-> "none"]

Message ==
    [ type   : LoanMessage \cup OrderMessage,
      detail : {"none", "low score", "rejected"} ]

LoanApplicationStatus ==
    {"submitted",
     "identity_verification_pending", "identity_verified", "identity_verification_failed",
     "credit_check_pending", "credit_check_completed", "credit_check_failed",
     "employment_verification_pending", "employment_verified",
     "employment_verification_failed",
     "documents_requested", "documents_received", "documents_verified",
     "documents_verification_failed",
     "appraisal_pending", "appraisal_completed", "appraisal_failed",
     "underwriting_pending", "underwriting_approved", "underwriting_denied",
     "underwriting_review", "final_approval_pending", "approved",
     "offer_sent", "offer_accepted", "offer_declined", "offer_expired",
     "disbursement_pending", "disbursement_completed", "disbursement_failed",
     "completed", "cancelled", "denied"}

OrderStatus ==
    {"pending", "payment_requested", "paid", "inventory_requested", "reserved",
     "shipment_requested", "shipped", "cancelled"}

(* What the applicant submitted: the loan type, and two optional members. *)
Applications == [mortgage : BOOLEAN, propertyInfo : BOOLEAN, employed : BOOLEAN]

Appraised(application) == application.mortgage /\ application.propertyInfo

LoanApplicationSagaState ==
    [ status      : LoanApplicationStatus,
      isCompleted : BOOLEAN,
      application : Applications,
      has : SUBSET {"identityVerification", "creditCheck", "employmentVerification",
                    "documents", "appraisal", "underwriting", "loan", "offerExpiresAt",
                    "eSignatureId", "disbursement", "cancellation"} ]

OrderSagaState ==
    [ status      : OrderStatus,
      isCompleted : BOOLEAN,
      application : Applications,
      has : SUBSET {"transactionId", "reservationId", "trackingNumber", "cancelReason"} ]

-----------------------------------------------------------------------------

(* A handler result: the new state, and what was handed to ctx.publish.  The
   handler of a message is there when its guard accepts the state. *)
When(guard, result) == IF guard THEN {result} ELSE {}

Goes(s, status, gained, sends) ==
    [state |-> [s EXCEPT !.status = status, !.has = @ \cup gained], sends |-> sends]

Ends(s, status, gained, sends) ==
    [Goes(s, status, gained, sends) EXCEPT !.state.isCompleted = TRUE]

(* --- the loan application saga --- *)

LoanInitial(application) ==
    [status |-> "submitted", isCompleted |-> FALSE, application |-> application,
     has |-> {}]

LoanApplicationSubmitted(s) ==
    When(s.status = "submitted",
         Goes(s, "identity_verification_pending", {},
              {Plain("IdentityVerificationRequested")}))

(* ctx.setTimeout, for the whole application; no saga here handles the message. *)
SetsTimeout(m, s) == m.type = "LoanApplicationSubmitted" /\ s.status = "submitted"

IdentityVerified(s) ==
    When(s.status = "identity_verification_pending",
         Goes(s, "credit_check_pending", {"identityVerification"},
              {Plain("CreditCheckRequested")}))

IdentityVerificationFailed(s) ==
    When(s.status = "identity_verification_pending",
         Ends(s, "cancelled", {"cancellation"}, {Plain("ApplicationCancelled")}))

(* A score below 580 ends the application; the denial it publishes finds it
   completed.  Only the employed have an employer to ask. *)
CreditCheckCompleted(m, s) ==
    When(s.status = "credit_check_pending",
         IF m.detail = "low score"
         THEN Ends(s, "denied", {"creditCheck"}, {Plain("UnderwritingDenied")})
         ELSE IF s.application.employed
         THEN Goes(s, "employment_verification_pending", {"creditCheck"},
                   {Plain("EmploymentVerificationRequested")})
         ELSE Goes(s, "documents_requested", {"creditCheck"},
                   {Plain("DocumentsRequested")}))

CreditCheckFailed(s) ==
    When(s.status = "credit_check_pending",
         Ends(s, "cancelled", {"cancellation"}, {Plain("ApplicationCancelled")}))

EmploymentVerified(s) ==
    When(s.status = "employment_verification_pending",
         Goes(s, "documents_requested", {"employmentVerification"},
              {Plain("DocumentsRequested")}))

(* More documents are asked for instead. *)
EmploymentVerificationFailed(s) ==
    When(s.status = "employment_verification_pending",
         Goes(s, "documents_requested", {}, {Plain("DocumentsRequested")}))

(* What was received is not compared with what was requested. *)
DocumentsReceived(s) ==
    When(s.status = "documents_requested",
         Goes(s, "documents_received", {"documents"}, {}))

(* Mutant: every application is taken for one without a property. *)
DocumentsVerifiedUnappraised(m, s) ==
    When(s.status = "documents_received",
         IF m.detail = "rejected"
         THEN Goes(s, "documents_verification_failed", {},
                   {Plain("DocumentVerificationFailed")})
         ELSE Goes(s, "underwriting_pending", {}, {Plain("UnderwritingRequested")}))

DocumentsVerified(m, s) ==
    When(s.status = "documents_received",
         IF m.detail = "rejected"
         THEN Goes(s, "documents_verification_failed", {},
                   {Plain("DocumentVerificationFailed")})
         ELSE IF Appraised(s.application)
         THEN Goes(s, "appraisal_pending", {}, {Plain("AppraisalRequested")})
         ELSE Goes(s, "underwriting_pending", {}, {Plain("UnderwritingRequested")}))

DocumentVerificationFailed(s) ==
    When(s.status \in {"documents_received", "documents_verification_failed"},
         Goes(s, "documents_requested", {}, {Plain("DocumentsRequested")}))

AppraisalCompleted(s) ==
    When(s.status = "appraisal_pending",
         Goes(s, "underwriting_pending", {"appraisal"}, {Plain("UnderwritingRequested")}))

AppraisalFailed(s) ==
    When(s.status = "appraisal_pending",
         Ends(s, "cancelled", {"cancellation"}, {Plain("ApplicationCancelled")}))

UnderwritingApproved(s) ==
    When(s.status \in {"underwriting_pending", "underwriting_review"},
         Goes(s, "approved", {"underwriting", "loan"}, {Plain("LoanApproved")}))

UnderwritingDenied(s) ==
    When(s.status \in {"underwriting_pending", "underwriting_review"},
         Ends(s, "denied", {"underwriting"}, {}))

UnderwritingPendingReview(s) ==
    When(s.status = "underwriting_pending", Goes(s, "underwriting_review", {}, {}))

LoanApproved(s) ==
    When(s.status = "approved",
         Goes(s, "offer_sent", {"offerExpiresAt"}, {Plain("LoanOfferSent")}))

LoanOfferAccepted(s) ==
    When(s.status = "offer_sent",
         Goes(s, "disbursement_pending", {"eSignatureId"}, {Plain("DisbursementRequested")}))

LoanOfferDeclined(s) ==
    When(s.status = "offer_sent", Ends(s, "offer_declined", {"cancellation"}, {}))

LoanOfferExpired(s) ==
    When(s.status = "offer_sent", Ends(s, "offer_expired", {"cancellation"}, {}))

DisbursementCompleted(s) ==
    When(s.status = "disbursement_pending",
         Ends(s, "completed", {"disbursement"}, {Plain("ApplicationCompleted")}))

(* "Retrying" is written into the history; no new request is published. *)
DisbursementFailed(s) ==
    When(s.status = "disbursement_pending", Goes(s, s.status, {}, {}))

ApplicationCancelled(s) ==
    When(s.status \notin {"completed", "cancelled", "denied",
                          "offer_declined", "offer_expired"},
         Ends(s, "cancelled", {"cancellation"}, {}))

(* --- the order saga --- *)

OrderInitial(application) ==
    [status |-> "pending", isCompleted |-> FALSE, application |-> application,
     has |-> {}]

OrderSubmitted(s) ==
    When(s.status = "pending",
         Goes(s, "payment_requested", {}, {Plain("PaymentRequested")}))

PaymentCaptured(s) ==
    When(s.status = "payment_requested",
         Goes(s, "inventory_requested", {"transactionId"},
              {Plain("InventoryReserveRequested")}))

PaymentFailed(s) ==
    When(s.status = "payment_requested",
         Ends(s, "cancelled", {"cancelReason"}, {Plain("OrderCancelled")}))

InventoryReserved(s) ==
    When(s.status = "inventory_requested",
         Goes(s, "shipment_requested", {"reservationId"}, {Plain("ShipmentRequested")}))

InventoryReservationFailed(s) ==
    When(s.status = "inventory_requested",
         Ends(s, "cancelled", {"cancelReason"}, {Plain("OrderCancelled")}))

ShipmentCreated(s) ==
    When(s.status = "shipment_requested",
         Ends(s, "shipped", {"trackingNumber"}, {Plain("OrderCompleted")}))

OrderCancelled(s) ==
    When(s.status \notin {"cancelled", "shipped"},
         Ends(s, "cancelled", {"cancelReason"}, {}))

-----------------------------------------------------------------------------

(* definition.handle: the results of the message's handler, none where no guard
   accepts the state. *)
Results(m, s) ==
    CASE m.type = "LoanApplicationSubmitted"     -> LoanApplicationSubmitted(s)
      [] m.type = "IdentityVerified"             -> IdentityVerified(s)
      [] m.type = "IdentityVerificationFailed"   -> IdentityVerificationFailed(s)
      [] m.type = "CreditCheckCompleted"         -> CreditCheckCompleted(m, s)
      [] m.type = "CreditCheckFailed"            -> CreditCheckFailed(s)
      [] m.type = "EmploymentVerified"           -> EmploymentVerified(s)
      [] m.type = "EmploymentVerificationFailed" -> EmploymentVerificationFailed(s)
      [] m.type = "DocumentsReceived"            -> DocumentsReceived(s)
      [] m.type = "DocumentsVerified"            -> DocumentsVerified(m, s)
      [] m.type = "DocumentVerificationFailed"   -> DocumentVerificationFailed(s)
      [] m.type = "AppraisalCompleted"           -> AppraisalCompleted(s)
      [] m.type = "AppraisalFailed"              -> AppraisalFailed(s)
      [] m.type = "UnderwritingApproved"         -> UnderwritingApproved(s)
      [] m.type = "UnderwritingDenied"           -> UnderwritingDenied(s)
      [] m.type = "UnderwritingPendingReview"    -> UnderwritingPendingReview(s)
      [] m.type = "LoanApproved"                 -> LoanApproved(s)
      [] m.type = "LoanOfferAccepted"            -> LoanOfferAccepted(s)
      [] m.type = "LoanOfferDeclined"            -> LoanOfferDeclined(s)
      [] m.type = "LoanOfferExpired"             -> LoanOfferExpired(s)
      [] m.type = "DisbursementCompleted"        -> DisbursementCompleted(s)
      [] m.type = "DisbursementFailed"           -> DisbursementFailed(s)
      [] m.type = "ApplicationCancelled"         -> ApplicationCancelled(s)
      [] m.type = "OrderSubmitted"               -> OrderSubmitted(s)
      [] m.type = "PaymentCaptured"              -> PaymentCaptured(s)
      [] m.type = "PaymentFailed"                -> PaymentFailed(s)
      [] m.type = "InventoryReserved"            -> InventoryReserved(s)
      [] m.type = "InventoryReservationFailed"   -> InventoryReservationFailed(s)
      [] m.type = "ShipmentCreated"              -> ShipmentCreated(s)
      [] m.type = "OrderCancelled"               -> OrderCancelled(s)
      [] OTHER                                   -> {}

(* The message types the sagas register handlers for: their subscriptions. *)
OrderHandled ==
    OrderMessage \ {"PaymentRequested", "InventoryReserveRequested", "ShipmentRequested",
                    "OrderCompleted"}

LoanHandled ==
    LoanMessage \ {"IdentityVerificationRequested", "CreditCheckRequested",
                   "EmploymentVerificationRequested", "DocumentsRequested",
                   "AppraisalRequested", "UnderwritingRequested", "FinalApprovalRequested",
                   "LoanOfferSent", "DisbursementRequested", "ApplicationStatusUpdated",
                   "ApplicationCompleted"}

HandledTypes(saga) == IF saga = "order" THEN OrderHandled ELSE LoanHandled

StartsWith(saga) == IF saga = "order" THEN "OrderSubmitted" ELSE "LoanApplicationSubmitted"

Initial(saga, application) ==
    IF saga = "order" THEN OrderInitial(application) ELSE LoanInitial(application)

=============================================================================
