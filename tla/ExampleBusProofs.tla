-------------------------- MODULE ExampleBusProofs --------------------------
(***************************************************************************)
(* Proofs about the example sagas: whatever arrives in whatever order, and *)
(* however many workers race for it, no step of the business is skipped.   *)
(* The argument has two halves.  Every handler, for whatever message, takes *)
(* a sound state to a sound state; and the runtime saves nothing but what  *)
(* a handler made of a state it has loaded.  That the row may have changed *)
(* in between is of no importance to this property.                        *)
(***************************************************************************)
EXTENDS ExampleBus, TLAPS

(* Statuses from which on a member must be there. *)
FromCredit == {"credit_check_pending", "employment_verification_pending",
               "documents_requested", "documents_received", "documents_verification_failed",
               "appraisal_pending", "underwriting_pending", "underwriting_review",
               "approved", "offer_sent", "disbursement_pending", "completed"}
FromEmployment  == FromCredit \ {"credit_check_pending"}
FromDocuments   == FromEmployment \ {"employment_verification_pending", "documents_requested"}
FromUnderwriting == {"underwriting_pending", "underwriting_review", "approved", "offer_sent",
                     "disbursement_pending", "completed"}
FromApproval    == {"approved", "offer_sent", "disbursement_pending", "completed"}

Over == {"completed", "denied", "cancelled", "offer_declined", "offer_expired", "shipped"}

Statuses == LoanApplicationStatus \cup OrderStatus

Members ==
    {"identityVerification", "creditCheck", "employmentVerification", "documents",
     "appraisal", "underwriting", "loan", "offerExpiresAt", "eSignatureId", "disbursement",
     "cancellation", "transactionId", "reservationId", "trackingNumber", "cancelReason"}

States == [ status : Statuses, isCompleted : BOOLEAN, application : Applications,
            has : SUBSET Members ]

(* What is on record of an application, or an order, that is in a status. *)
LoanRecord(status, application, has) ==
    /\ status \in FromCredit => "identityVerification" \in has
    /\ status \in FromEmployment => "creditCheck" \in has
    /\ status \in FromDocuments => "documents" \in has
    /\ status \in FromUnderwriting /\ Appraised(application) => "appraisal" \in has
    /\ status \in FromApproval => "underwriting" \in has /\ "loan" \in has
    /\ status \in FromApproval \ {"approved"} => "offerExpiresAt" \in has
    /\ status \in {"disbursement_pending", "completed"} => "eSignatureId" \in has
    /\ status = "completed" => "disbursement" \in has

OrderRecord(status, has) ==
    /\ status \in {"inventory_requested", "shipment_requested", "shipped"} =>
          "transactionId" \in has
    /\ status \in {"shipment_requested", "shipped"} => "reservationId" \in has
    /\ status = "shipped" => "trackingNumber" \in has

OnRecord(status, application, has) ==
    LoanRecord(status, application, has) /\ OrderRecord(status, has)

Sound(s) ==
    /\ s \in States
    /\ OnRecord(s.status, s.application, s.has)
    /\ s.isCompleted <=> s.status \in Over

-----------------------------------------------------------------------------

(* A step to a status that asks for no more than what is on record by then. *)
LEMMA GoesSound ==
    ASSUME NEW s \in States, NEW status \in Statuses, NEW gained \in SUBSET Members, NEW sends,
           OnRecord(status, s.application, s.has \cup gained),
           s.isCompleted <=> status \in Over
    PROVE  Sound(Goes(s, status, gained, sends).state)
<1>1. Goes(s, status, gained, sends).state
         = [s EXCEPT !.status = status, !.has = @ \cup gained]
  BY DEF Goes
<1> DEFINE t == [s EXCEPT !.status = status, !.has = @ \cup gained]
<1>2. /\ t \in States
      /\ t.status = status
      /\ t.has = s.has \cup gained
      /\ t.application = s.application
      /\ t.isCompleted = s.isCompleted
  BY DEF States
<1> QED
  BY <1>1, <1>2 DEF Sound

(* The last step: complete(). *)
LEMMA EndsSound ==
    ASSUME NEW s \in States, NEW status \in Over, NEW gained \in SUBSET Members, NEW sends,
           OnRecord(status, s.application, s.has \cup gained)
    PROVE  Sound(Ends(s, status, gained, sends).state)
<1> DEFINE t == [s EXCEPT !.status = status, !.has = @ \cup gained]
           u == [t EXCEPT !.isCompleted = TRUE]
<1>0. status \in Statuses
  BY DEF Over, Statuses, LoanApplicationStatus, OrderStatus
<1>1. Ends(s, status, gained, sends).state = u
  BY DEF Ends, Goes
<1>2. /\ t \in States
      /\ t.status = status
      /\ t.has = s.has \cup gained
      /\ t.application = s.application
  BY <1>0 DEF States
<1> HIDE DEF t
<1>3. /\ u \in States
      /\ u.status = status
      /\ u.has = s.has \cup gained
      /\ u.application = s.application
      /\ u.isCompleted = TRUE
  BY <1>2 DEF States
<1> QED
  BY <1>1, <1>3 DEF Sound

(* The handlers of the loan saga keep a state sound. *)
LEMMA LoanHandlersSound ==
    ASSUME NEW s, Sound(s), NEW m, NEW r,
           \/ r \in LoanApplicationSubmitted(s)
           \/ r \in IdentityVerified(s)
           \/ r \in IdentityVerificationFailed(s)
           \/ r \in CreditCheckCompleted(m, s)
           \/ r \in CreditCheckFailed(s)
           \/ r \in EmploymentVerified(s)
           \/ r \in EmploymentVerificationFailed(s)
           \/ r \in DocumentsReceived(s)
           \/ r \in DocumentsVerified(m, s)
           \/ r \in DocumentVerificationFailed(s)
           \/ r \in AppraisalCompleted(s)
           \/ r \in AppraisalFailed(s)
           \/ r \in UnderwritingApproved(s)
           \/ r \in UnderwritingDenied(s)
           \/ r \in UnderwritingPendingReview(s)
           \/ r \in LoanApproved(s)
           \/ r \in LoanOfferAccepted(s)
           \/ r \in LoanOfferDeclined(s)
           \/ r \in LoanOfferExpired(s)
           \/ r \in DisbursementCompleted(s)
           \/ r \in DisbursementFailed(s)
           \/ r \in ApplicationCancelled(s)
    PROVE  Sound(r.state)
<1> DEFINE To(status, gained) == \A sends : Sound(Goes(s, status, gained, sends).state)
           End(status, gained) == \A sends : Sound(Ends(s, status, gained, sends).state)
<1> USE DEF OnRecord, LoanRecord, OrderRecord, FromCredit, FromEmployment, FromDocuments,
            FromUnderwriting, FromApproval, Over, Statuses, LoanApplicationStatus,
            OrderStatus, Members
<1>1. s \in States /\ OnRecord(s.status, s.application, s.has)
        /\ (s.isCompleted <=> s.status \in Over)
  BY DEF Sound
<1>2. \A status \in Over \ {"completed", "shipped"}, gained \in SUBSET Members : End(status, gained)
  BY <1>1, EndsSound
<1>3. s.status = "submitted" => To("identity_verification_pending", {})
  BY <1>1, GoesSound
<1>4. s.status = "identity_verification_pending" =>
           To("credit_check_pending", {"identityVerification"})
  BY <1>1, GoesSound
<1>5. s.status = "credit_check_pending" =>
           To("employment_verification_pending", {"creditCheck"})
  BY <1>1, GoesSound
<1>6. s.status = "credit_check_pending" => To("documents_requested", {"creditCheck"})
  BY <1>1, GoesSound
<1>7. s.status = "employment_verification_pending" =>
           To("documents_requested", {"employmentVerification"})
  BY <1>1, GoesSound
<1>8. s.status = "employment_verification_pending" => To("documents_requested", {})
  BY <1>1, GoesSound
<1>9. s.status = "documents_requested" => To("documents_received", {"documents"})
  BY <1>1, GoesSound
<1>10. s.status = "documents_received" => To("documents_verification_failed", {})
  BY <1>1, GoesSound
<1>11. s.status = "documents_received" => To("appraisal_pending", {})
  BY <1>1, GoesSound
<1>12. s.status = "documents_received" /\ ~ Appraised(s.application) =>
           To("underwriting_pending", {})
  BY <1>1, GoesSound
<1>13. s.status \in {"documents_received", "documents_verification_failed"} =>
           To("documents_requested", {})
  BY <1>1, GoesSound
<1>14. s.status = "appraisal_pending" => To("underwriting_pending", {"appraisal"})
  BY <1>1, GoesSound
<1>15. s.status \in {"underwriting_pending", "underwriting_review"} =>
           To("approved", {"underwriting", "loan"})
  BY <1>1, GoesSound
<1>16. s.status = "underwriting_pending" => To("underwriting_review", {})
  BY <1>1, GoesSound
<1>17. s.status = "approved" => To("offer_sent", {"offerExpiresAt"})
  BY <1>1, GoesSound
<1>18. s.status = "offer_sent" => To("disbursement_pending", {"eSignatureId"})
  BY <1>1, GoesSound
<1>19. s.status = "disbursement_pending" => End("completed", {"disbursement"})
  BY <1>1, EndsSound
<1>20. s.status = "disbursement_pending" => To("disbursement_pending", {})
  BY <1>1, GoesSound
<1> HIDE DEF OnRecord, LoanRecord, OrderRecord, FromCredit, FromEmployment, FromDocuments,
             FromUnderwriting, FromApproval, Over, Statuses, LoanApplicationStatus,
             OrderStatus, Members
<1>21. CASE r \in LoanApplicationSubmitted(s)
  BY <1>3, <1>21 DEF LoanApplicationSubmitted, When
<1>22. CASE r \in IdentityVerified(s)
  BY <1>4, <1>22 DEF IdentityVerified, When
<1>23. CASE r \in IdentityVerificationFailed(s)
  BY <1>2, <1>23 DEF IdentityVerificationFailed, When, Over, Members
<1>24. CASE r \in CreditCheckCompleted(m, s)
  BY <1>2, <1>5, <1>6, <1>24 DEF CreditCheckCompleted, When, Over, Members
<1>25. CASE r \in CreditCheckFailed(s)
  BY <1>2, <1>25 DEF CreditCheckFailed, When, Over, Members
<1>26. CASE r \in EmploymentVerified(s)
  BY <1>7, <1>26 DEF EmploymentVerified, When
<1>27. CASE r \in EmploymentVerificationFailed(s)
  BY <1>8, <1>27 DEF EmploymentVerificationFailed, When
<1>28. CASE r \in DocumentsReceived(s)
  BY <1>9, <1>28 DEF DocumentsReceived, When
<1>29. CASE r \in DocumentsVerified(m, s)
  BY <1>10, <1>11, <1>12, <1>29 DEF DocumentsVerified, When
<1>30. CASE r \in DocumentVerificationFailed(s)
  BY <1>13, <1>30 DEF DocumentVerificationFailed, When
<1>31. CASE r \in AppraisalCompleted(s)
  BY <1>14, <1>31 DEF AppraisalCompleted, When
<1>32. CASE r \in AppraisalFailed(s)
  BY <1>2, <1>32 DEF AppraisalFailed, When, Over, Members
<1>33. CASE r \in UnderwritingApproved(s)
  BY <1>15, <1>33 DEF UnderwritingApproved, When
<1>34. CASE r \in UnderwritingDenied(s)
  BY <1>2, <1>34 DEF UnderwritingDenied, When, Over, Members
<1>35. CASE r \in UnderwritingPendingReview(s)
  BY <1>16, <1>35 DEF UnderwritingPendingReview, When
<1>36. CASE r \in LoanApproved(s)
  BY <1>17, <1>36 DEF LoanApproved, When
<1>37. CASE r \in LoanOfferAccepted(s)
  BY <1>18, <1>37 DEF LoanOfferAccepted, When
<1>38. CASE r \in LoanOfferDeclined(s)
  BY <1>2, <1>38 DEF LoanOfferDeclined, When, Over, Members
<1>39. CASE r \in LoanOfferExpired(s)
  BY <1>2, <1>39 DEF LoanOfferExpired, When, Over, Members
<1>40. CASE r \in DisbursementCompleted(s)
  BY <1>19, <1>40 DEF DisbursementCompleted, When
<1>41. CASE r \in DisbursementFailed(s)
  BY <1>20, <1>41 DEF DisbursementFailed, When
<1>42. CASE r \in ApplicationCancelled(s)
  BY <1>2, <1>42 DEF ApplicationCancelled, When, Over, Members
<1> QED
  BY <1>21, <1>22, <1>23, <1>24, <1>25, <1>26, <1>27, <1>28, <1>29, <1>30, <1>31, <1>32,
     <1>33, <1>34, <1>35, <1>36, <1>37, <1>38, <1>39, <1>40, <1>41, <1>42

(* And so do those of the order saga. *)
LEMMA OrderHandlersSound ==
    ASSUME NEW s, Sound(s), NEW m, NEW r,
           \/ r \in OrderSubmitted(s)
           \/ r \in PaymentCaptured(s)
           \/ r \in PaymentFailed(s)
           \/ r \in InventoryReserved(s)
           \/ r \in InventoryReservationFailed(s)
           \/ r \in ShipmentCreated(s)
           \/ r \in OrderCancelled(s)
    PROVE  Sound(r.state)
<1> DEFINE To(status, gained) == \A sends : Sound(Goes(s, status, gained, sends).state)
           End(status, gained) == \A sends : Sound(Ends(s, status, gained, sends).state)
<1> USE DEF OnRecord, LoanRecord, OrderRecord, FromCredit, FromEmployment, FromDocuments,
            FromUnderwriting, FromApproval, Over, Statuses, LoanApplicationStatus,
            OrderStatus, Members
<1>1. s \in States /\ OnRecord(s.status, s.application, s.has)
        /\ (s.isCompleted <=> s.status \in Over)
  BY DEF Sound
<1>2. \A status \in Over \ {"completed", "shipped"}, gained \in SUBSET Members : End(status, gained)
  BY <1>1, EndsSound
<1>3. s.status = "pending" => To("payment_requested", {})
  BY <1>1, GoesSound
<1>4. s.status = "payment_requested" => To("inventory_requested", {"transactionId"})
  BY <1>1, GoesSound
<1>5. s.status = "inventory_requested" => To("shipment_requested", {"reservationId"})
  BY <1>1, GoesSound
<1>6. s.status = "shipment_requested" => End("shipped", {"trackingNumber"})
  BY <1>1, EndsSound
<1> HIDE DEF OnRecord, LoanRecord, OrderRecord, FromCredit, FromEmployment, FromDocuments,
             FromUnderwriting, FromApproval, Over, Statuses, LoanApplicationStatus,
             OrderStatus, Members
<1>7. CASE r \in OrderSubmitted(s)
  BY <1>3, <1>7 DEF OrderSubmitted, When
<1>8. CASE r \in PaymentCaptured(s)
  BY <1>4, <1>8 DEF PaymentCaptured, When
<1>9. CASE r \in PaymentFailed(s)
  BY <1>2, <1>9 DEF PaymentFailed, When, Over, Members
<1>10. CASE r \in InventoryReserved(s)
  BY <1>5, <1>10 DEF InventoryReserved, When
<1>11. CASE r \in InventoryReservationFailed(s)
  BY <1>2, <1>11 DEF InventoryReservationFailed, When, Over, Members
<1>12. CASE r \in ShipmentCreated(s)
  BY <1>6, <1>12 DEF ShipmentCreated, When
<1>13. CASE r \in OrderCancelled(s)
  BY <1>2, <1>13 DEF OrderCancelled, When, Over, Members
<1> QED
  BY <1>7, <1>8, <1>9, <1>10, <1>11, <1>12, <1>13

(* What the orchestrator saves after definition.handle is sound: the result of a
   handler, or the state as it was where no handler is there for it. *)
LEMMA ResultSound ==
    ASSUME NEW m, NEW s, Sound(s)
    PROVE  Sound(Result(m, s).state)
<1>1. ASSUME NEW r \in Results(m, s)
      PROVE  Sound(r.state)
  BY <1>1, LoanHandlersSound, OrderHandlersSound DEF Results
<1>2. CASE Results(m, s) = {}
  BY <1>2 DEF Result
<1>3. CASE Results(m, s) # {}
  <2>1. Result(m, s) \in Results(m, s)
    BY <1>3 DEF Result
  <2> QED
    BY <2>1, <1>1
<1> QED
  BY <1>2, <1>3

(* The factories make sound states. *)
LEMMA InitialSound ==
    ASSUME NEW saga, NEW application \in Applications
    PROVE  Sound(Initial(saga, application))
BY DEF Initial, OrderInitial, LoanInitial, Sound, States, Statuses, LoanApplicationStatus,
       OrderStatus, OnRecord, LoanRecord, OrderRecord, FromCredit, FromEmployment,
       FromDocuments, FromUnderwriting, FromApproval, Over

-----------------------------------------------------------------------------

SlotShape(x) ==
    x = [pc |-> x.pc, env |-> x.env, held |-> x.held, stale |-> x.stale, isNew |-> x.isNew,
         of |-> x.of, leased |-> x.leased, counts |-> x.counts]

HeldSound(x) ==
    /\ SlotShape(x)
    /\ x.held # NoSaga => Sound(x.held)
    /\ x.pc = "saving" => x.held # NoSaga

(* The row and every copy of it a worker holds are sound, and a worker about to
   save holds one.  StepsNotSkipped alone is not inductive: it says nothing of
   the copies, nor of the statuses on the way. *)
SoundInv ==
    /\ setup.application \in Applications
    /\ row # NoSaga => Sound(row)
    /\ slot = [w \in Workers |-> slot[w]]
    /\ \A w \in Workers : HeldSound(slot[w])

(* It holds before the first message. *)
LEMMA InitSound == Init => SoundInv
<1> SUFFICES ASSUME Init PROVE SoundInv
  OBVIOUS
<1>1. setup.application \in Applications
  <2>1. setup \in [ saga : {"order", "loan"}, application : Applications,
                    unique : BOOLEAN, idempotency : {"none", "before", "after"},
                    onDuplicate : {"skip", "throw"},
                    onInvalid : {"none", "throw", "skip", "dlq"} ]
    BY ExampleBusAssumption DEF Init
  <2> QED
    BY <2>1
<1>2. slot = [w \in Workers |-> slot[w]]
  BY DEF Init
<1>3. HeldSound(Idle)
  BY DEF HeldSound, SlotShape, Idle
<1>4. \A w \in Workers : HeldSound(slot[w])
  BY <1>3 DEF Init
<1> QED
  BY <1>1, <1>2, <1>4 DEF SoundInv, Init

(* A worker that drops what it held. *)
LEMMA PastSound ==
    ASSUME NEW w \in Workers, NEW label, NEW counts, label # "saving"
    PROVE  HeldSound(Past(w, label, counts))
<1>1. Idle \in [pc : {"idle"}, env : {NoEnvelope}, held : {NoSaga}, stale : {FALSE},
                isNew : {FALSE}, of : {0}, leased : {FALSE}, counts : {{}}]
  BY DEF Idle
<1>2. Past(w, label, counts) \in
         [pc : {label}, env : {slot[w].env}, held : {NoSaga}, stale : {FALSE},
          isNew : {FALSE}, of : {0}, leased : {slot[w].leased}, counts : {counts}]
  BY <1>1 DEF Past
<1> QED
  BY <1>2 DEF HeldSound, SlotShape

(* A worker that goes on to another step with what it holds. *)
LEMMA GoOnSound ==
    ASSUME NEW x, HeldSound(x), NEW label, label = "saving" => x.held # NoSaga
    PROVE  HeldSound([x EXCEPT !.pc = label])
BY DEF HeldSound, SlotShape

(* A worker whose held row is the saved one, or none. *)
LEMMA HoldingSound ==
    ASSUME SoundInv, NEW e
    PROVE  HeldSound(Holding(e))
<1>1. Idle \in [pc : {"idle"}, env : {NoEnvelope}, held : {NoSaga}, stale : {FALSE},
                isNew : {FALSE}, of : {0}, leased : {FALSE}, counts : {{}}]
  BY DEF Idle
<1>2. Holding(e) \in
         [pc : {"inside", "loaded"}, env : {e}, held : {row}, stale : {FALSE},
          isNew : BOOLEAN, of : {instances}, leased : {TRUE}, counts : {{}}]
  BY <1>1 DEF Holding
<1> QED
  BY <1>2 DEF SoundInv, HeldSound, SlotShape

(* One worker's slot changes, the others keep theirs. *)
LEMMA OneSlotSound ==
    ASSUME SoundInv, NEW w \in Workers, NEW x, HeldSound(x), slot' = [slot EXCEPT ![w] = x],
           setup' = setup, row' = row
    PROVE  SoundInv'
<1>1. slot' = [v \in Workers |-> IF v = w THEN x ELSE slot[v]]
  BY DEF SoundInv
<1>2. \A v \in Workers : HeldSound(slot[v])
  BY DEF SoundInv
<1> HIDE DEF HeldSound
<1>3. \A v \in Workers : HeldSound(slot'[v])
  BY <1>1, <1>2
<1> QED
  BY <1>1, <1>3 DEF SoundInv, HeldSound, SlotShape

(* Every action of the runtime keeps it. *)
LEMMA NextSound == SoundInv /\ [Next]_vars => SoundInv'
<1> SUFFICES ASSUME SoundInv, [Next]_vars PROVE SoundInv'
  OBVIOUS
<1>1. CASE UNCHANGED vars
  BY <1>1 DEF vars, SoundInv, HeldSound, SlotShape
<1>2. CASE Reply
  BY <1>2 DEF Reply, SoundInv, HeldSound, SlotShape
<1>3. ASSUME NEW w \in Workers, NEW e, Deliver(w, e) PROVE SoundInv'
  BY <1>3, HoldingSound, OneSlotSound DEF Deliver
<1>4. ASSUME NEW w \in Workers, CheckMark(w) PROVE SoundInv'
  <2>1. \E x : HeldSound(x) /\ slot' = [slot EXCEPT ![w] = x]
    BY <1>4, PastSound, GoOnSound DEF CheckMark, Throws, SoundInv
  <2> QED
    BY <2>1, <1>4, OneSlotSound DEF CheckMark
<1>5. ASSUME NEW w \in Workers, MarkBefore(w) PROVE SoundInv'
  <2>1. HeldSound([slot[w] EXCEPT !.pc = "inside"])
    BY GoOnSound DEF SoundInv
  <2> QED
    BY <2>1, <1>5, OneSlotSound DEF MarkBefore
<1>6. ASSUME NEW w \in Workers, Invalid(w) \/ Ignore(w) \/ Arm(w) PROVE SoundInv'
  BY <1>6, PastSound, OneSlotSound DEF Invalid, Ignore, Arm, Throws, Returns, Back
<1>7. ASSUME NEW w \in Workers, Leave(w) \/ Retry(w) PROVE SoundInv'
  BY <1>7, PastSound, OneSlotSound DEF Leave, Retry
<1>8. ASSUME NEW w \in Workers, Loses(w) \/ Error(w) PROVE SoundInv'
  BY <1>8, PastSound, OneSlotSound DEF Loses, Error, Throws
<1>9. ASSUME NEW w \in Workers, Create(w) PROVE SoundInv'
  <2> DEFINE first == Initial(setup.saga, setup.application)
  <2>1. Sound(first)
    BY InitialSound DEF SoundInv
  <2> HIDE DEF first
  <2> DEFINE x == [slot[w] EXCEPT !.held = first, !.of = instances']
  <2>2. CASE row = NoSaga \/ ~ setup.unique
    <3>1. row' = first /\ slot' = [slot EXCEPT ![w] = x]
      BY <1>9, <2>2 DEF Create, first
    <3>2. slot[w].pc = "inside"
      BY <1>9 DEF Create
    <3>3. HeldSound(x)
      <4> DEFINE t == [slot[w] EXCEPT !.held = first]
      <4>1. SlotShape(slot[w])
        BY DEF SoundInv, HeldSound
      <4>2. SlotShape(t) /\ t.held = first /\ t.pc = slot[w].pc
        BY <4>1 DEF SlotShape
      <4>3. x = [t EXCEPT !.of = instances']
        OBVIOUS
      <4> HIDE DEF t, x
      <4>4. SlotShape(x) /\ x.held = first /\ x.pc = slot[w].pc
        BY <4>2, <4>3 DEF SlotShape
      <4> QED
        BY <2>1, <3>2, <4>4 DEF HeldSound
    <3>4. slot' = [v \in Workers |-> IF v = w THEN x ELSE slot[v]]
      BY <3>1 DEF SoundInv
    <3>5. \A v \in Workers : HeldSound(slot[v])
      BY DEF SoundInv
    <3> HIDE DEF x, HeldSound
    <3>6. \A v \in Workers : HeldSound(slot'[v])
      BY <3>3, <3>4, <3>5
    <3> QED
      BY <2>1, <3>1, <3>4, <3>6, <1>9 DEF SoundInv, Create
  <2>3. CASE ~ (row = NoSaga \/ ~ setup.unique)
    BY <1>9, <2>3, PastSound, OneSlotSound DEF Create, Throws
  <2> QED
    BY <2>2, <2>3
<1>10. ASSUME NEW w \in Workers, HandleMessage(w) PROVE SoundInv'
  <2>1. HeldSound([slot[w] EXCEPT !.pc = "saving"])
    BY <1>10, GoOnSound DEF SoundInv, HandleMessage
  <2> QED
    BY <2>1, <1>10, OneSlotSound DEF HandleMessage
<1>11. ASSUME NEW w \in Workers, Save(w) PROVE SoundInv'
  <2> DEFINE saved == Result(slot[w].env.message, slot[w].held).state
  <2>1. Sound(slot[w].held)
    BY <1>11 DEF Save, SoundInv, HeldSound
  <2>2. row' # NoSaga => Sound(row')
    <3>1. row' \in {saved, row}
      BY <1>11 DEF Save
    <3> QED
      BY <3>1, <2>1, ResultSound DEF SoundInv
  <2> DEFINE Staled(v) == [slot[v] EXCEPT !.stale = @ \/ slot[v].of = slot[w].of]
  <2>3. PICK label \in {"arming", "returned", "done"} :
           slot' = [v \in Workers |-> IF v = w THEN Past(w, label, Counts(w, saved)) ELSE Staled(v)]
    BY <1>11 DEF Save, Back
  <2>4. \A v \in Workers : HeldSound(Staled(v))
    BY DEF SoundInv, HeldSound, SlotShape
  <2>5. HeldSound(Past(w, label, Counts(w, saved)))
    BY PastSound
  <2> HIDE DEF HeldSound, Staled, saved
  <2>6. \A v \in Workers : HeldSound(slot'[v])
    BY <2>3, <2>4, <2>5
  <2> QED
    BY <2>2, <2>3, <2>6, <1>11 DEF SoundInv, Save
<1>12. ASSUME NEW w \in Workers, Ack(w) PROVE SoundInv'
  <2>1. slot' = [v \in Workers |->
                    IF v = w THEN Idle
                    ELSE [slot[v] EXCEPT !.leased = @ /\ slot[v].env # slot[w].env]]
    BY <1>12 DEF Ack
  <2>2. HeldSound(Idle)
    BY DEF HeldSound, SlotShape, Idle
  <2>3. \A v \in Workers :
           HeldSound([slot[v] EXCEPT !.leased = @ /\ slot[v].env # slot[w].env])
    BY DEF SoundInv, HeldSound, SlotShape
  <2>4. \A v \in Workers : HeldSound(slot'[v])
    BY <2>1, <2>2, <2>3
  <2> QED
    BY <2>1, <2>4, <1>12 DEF SoundInv, Ack
<1>13. ASSUME NEW w \in Workers, Crash(w) PROVE SoundInv'
  <2>1. HeldSound(Idle)
    BY DEF HeldSound, SlotShape, Idle
  <2> QED
    BY <2>1, <1>13, OneSlotSound DEF Crash
<1>14. ASSUME NEW w \in Workers, NEW v \in Workers, Overlap(w, v) PROVE SoundInv'
  BY <1>14, HoldingSound, OneSlotSound DEF Overlap
<1> QED
  BY <1>1, <1>2, <1>3, <1>4, <1>5, <1>6, <1>7, <1>8, <1>9, <1>10, <1>11, <1>12, <1>13, <1>14
     DEF Next, Step

-----------------------------------------------------------------------------

(* Every row that is ever saved, and every copy of it, has on record what its
   status stands for: the whole of the business flow, for any number of workers,
   any messages, duplicates, middleware and faults. *)
THEOREM EveryStateSound == Spec => []SoundInv
BY InitSound, NextSound, PTL DEF Spec

(* A loan that is paid out, and an order that is shipped, has been through every
   step the flow asks for, and a saga is completed in the statuses that end it and
   in no other. *)
THEOREM NoStepSkipped == Spec => []StepsNotSkipped
<1>1. SoundInv => StepsNotSkipped
  BY DEF SoundInv, StepsNotSkipped, Sound, OnRecord, LoanRecord, OrderRecord, FromCredit,
         FromEmployment, FromDocuments, FromUnderwriting, FromApproval, Over
<1> QED
  BY <1>1, EveryStateSound, PTL
=============================================================================
