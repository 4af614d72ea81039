----------------------------- MODULE MCExamples -----------------------------
EXTENDS ExampleBus, TLC

CONSTANTS w1, w2, i1, i2, i3

Symmetry == Permutations({w1, w2}) \cup Permutations({i1, i2, i3})

(* A mortgage, and another that says nothing of the property; the middleware of the
   example application over its in-memory store, and its variants. *)
MCSetups ==
    LET Applied(mortgage, propertyInfo, employed) ==
            [mortgage |-> mortgage, propertyInfo |-> propertyInfo, employed |-> employed]
        Order(unique, idempotency, onDuplicate, onInvalid) ==
            [saga |-> "order", application |-> Applied(FALSE, FALSE, FALSE),
             unique |-> unique, idempotency |-> idempotency,
             onDuplicate |-> onDuplicate, onInvalid |-> onInvalid]
        Loan(application) ==
            [saga |-> "loan", application |-> application, unique |-> TRUE,
             idempotency |-> "none", onDuplicate |-> "skip", onInvalid |-> "none"]
    IN {Order(FALSE, "after", "skip", "dlq"), Order(TRUE, "before", "skip", "throw"),
        Order(FALSE, "after", "throw", "skip"), Order(TRUE, "before", "skip", "skip"),
        Loan(Applied(TRUE, TRUE, FALSE)), Loan(Applied(TRUE, FALSE, TRUE))}

(* What the simulation pages and the submission of an application publish, and
   the other messages the handlers are there for. *)
OrderReplies == {Plain(t) : t \in OrderHandled}

LoanReplies ==
    {Plain(t) : t \in LoanHandled \ {"LoanApproved"}}
    \cup {[type |-> "CreditCheckCompleted", detail |-> "low score"],
          [type |-> "DocumentsVerified", detail |-> "rejected"]}

MCReplies(saga) == IF saga = "order" THEN OrderReplies ELSE LoanReplies

(* Messages race in the longer one of the loan applications and in two of the
   middleware's variants; where they come one at a time there are two faults
   instead.  The shorter loan application sees none. *)
Short(s) == s.saga = "loan" /\ ~ Appraised(s.application)

Faulty(s) == s.onDuplicate = "throw" \/ s.onInvalid = "skip"

MCMaxOpen(s)   == IF Short(s) \/ Faulty(s) THEN 1 ELSE 2
MCMaxFaults(s) == IF Short(s) THEN 0 ELSE IF Faulty(s) THEN 2 ELSE 1

(* Bound: of the messages the saga no longer has a handler for, these are the
   ones that are still waiting to be delivered. *)
Late ==
    {"OrderSubmitted", "OrderCancelled", "DocumentVerificationFailed",
     "UnderwritingApproved", "UnderwritingDenied", "LoanApproved", "ApplicationCancelled"}

FewLate ==
    \A e \in queue : row = NoSaga \/ Accepted(e.message) \/ e.message.type \in Late
=============================================================================
