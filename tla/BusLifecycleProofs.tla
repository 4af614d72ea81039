------------------------- MODULE BusLifecycleProofs -------------------------
(***************************************************************************)
(* Proofs about the in-memory transport and the bus that starts and stops  *)
(* over it, for any number of callers, endpoints, messages, subscriptions  *)
(* and starts and for any concurrency: the semaphores account for every    *)
(* handler, a started bus has subscribed everything its sagas handle, and  *)
(* a bus that was started once keeps to its concurrency.                   *)
(***************************************************************************)
EXTENDS BusLifecycle, FiniteSetTheorems, SequenceTheorems, TLAPS

-----------------------------------------------------------------------------
(* The transport. *)

(* A subscription has taken the message, and has not dealt with it yet. *)
Holds(sub, m) ==
    m \in sub.running \/ \E k \in DOMAIN sub.waiting : sub.waiting[k] = m

(* A semaphore with n permits in all accounts for its handlers, which are distinct. *)
Sound(sub, n) ==
    /\ sub \in Subscription
    /\ IsFiniteSet(sub.running)
    /\ sub.permits + Cardinality(sub.running) = n
    /\ sub.waiting # << >> => sub.permits = 0
    /\ \A k, l \in DOMAIN sub.waiting : k # l => sub.waiting[k] # sub.waiting[l]
    /\ \A k \in DOMAIN sub.waiting : sub.waiting[k] \notin sub.running

(* A message is still on its way to the subscriptions. *)
Coming(m) ==
    \/ m \in unpublished
    \/ \E k \in DOMAIN immediates : immediates[k].message = m
    \/ \E parcel \in timers : parcel.message = m

(* A published message is in one parcel. *)
OneParcel ==
    /\ \A k \in DOMAIN immediates : immediates[k].message \notin unpublished
    /\ \A parcel \in timers : parcel.message \notin unpublished
    /\ \A k, l \in DOMAIN immediates :
          k # l => immediates[k].message # immediates[l].message
    /\ \A k \in DOMAIN immediates, parcel \in timers :
          immediates[k].message # parcel.message
    /\ \A p, q \in timers : p.message = q.message => p = q

(* A subscription holds only what has arrived. *)
HoldsArrived ==
    \A e \in Endpoints : \A i \in DOMAIN subscriptions[e] :
        \A m \in Messages : Holds(subscriptions[e][i], m) => ~ Coming(m)

(* Every semaphore is sound. *)
AllSound ==
    \A e \in Endpoints : \A i \in DOMAIN subscriptions[e] :
        Sound(subscriptions[e][i], Concurrency[e])

(* The inductive invariant of the transport: a handler is counted once because a
   message comes to a subscription once. *)
TransportInv == TransportTypeOK /\ OneParcel /\ HoldsArrived /\ AllSound

(* A new message takes a permit or waits for one: the semaphore stays sound. *)
LEMMA AcquireKeeps ==
    ASSUME NEW n \in Nat, NEW m \in Messages, NEW sub, Sound(sub, n), ~ Holds(sub, m)
    PROVE  /\ Sound(Acquire(sub, m), n)
           /\ \A x : Holds(Acquire(sub, m), x) => Holds(sub, x) \/ x = m
<1>0. /\ sub \in Subscription /\ sub.permits \in Nat /\ sub.running \subseteq Messages
      /\ sub.waiting \in Seq(Messages)
      /\ sub = [permits |-> sub.permits, waiting |-> sub.waiting, running |-> sub.running]
  BY DEF Sound, Subscription
<1>1. CASE sub.permits > 0
  <2>1. Acquire(sub, m) = [permits |-> sub.permits - 1, waiting |-> sub.waiting,
                           running |-> sub.running \cup {m}]
    BY <1>0, <1>1 DEF Acquire, Subscription
  <2>2. sub.waiting = << >>
    BY <1>0, <1>1 DEF Sound
  <2>3. /\ IsFiniteSet(sub.running \cup {m})
        /\ Cardinality(sub.running \cup {m}) = Cardinality(sub.running) + 1
    BY FS_AddElement DEF Sound, Holds
  <2>4. Cardinality(sub.running) \in Nat
    BY FS_CardinalityType DEF Sound
  <2>. QED
    BY <1>0, <1>1, <2>1, <2>2, <2>3, <2>4 DEF Sound, Subscription, Holds
<1>2. CASE ~ (sub.permits > 0)
  <2>1. Acquire(sub, m) = [permits |-> sub.permits, waiting |-> Append(sub.waiting, m),
                           running |-> sub.running]
    BY <1>0, <1>2 DEF Acquire, Subscription
  <2>2. /\ Append(sub.waiting, m) \in Seq(Messages)
        /\ DOMAIN sub.waiting = 1 .. Len(sub.waiting)
        /\ DOMAIN Append(sub.waiting, m) = 1 .. (Len(sub.waiting) + 1)
        /\ Len(sub.waiting) \in Nat
        /\ \A k \in 1 .. Len(sub.waiting) : Append(sub.waiting, m)[k] = sub.waiting[k]
        /\ Append(sub.waiting, m)[Len(sub.waiting) + 1] = m
    BY <1>0, AppendProperties, LenProperties
  <2>3. sub.permits = 0
    BY <1>0, <1>2
  <2>4. \A k \in DOMAIN sub.waiting : sub.waiting[k] # m
    BY DEF Holds
  <2>. QED
    BY <1>0, <2>1, <2>2, <2>3, <2>4 DEF Sound, Subscription, Holds
<1>. QED
  BY <1>1, <1>2

(* A handler that ends passes its permit on or gives it back: the semaphore stays
   sound, and takes up nothing new. *)
LEMMA ReleaseKeeps ==
    ASSUME NEW n \in Nat, NEW sub, Sound(sub, n), NEW m \in sub.running
    PROVE  /\ Sound(Release(sub, m), n)
           /\ \A x : Holds(Release(sub, m), x) => Holds(sub, x)
<1>0. /\ sub \in Subscription /\ sub.permits \in Nat /\ sub.running \subseteq Messages
      /\ sub.waiting \in Seq(Messages)
      /\ sub = [permits |-> sub.permits, waiting |-> sub.waiting, running |-> sub.running]
  BY DEF Sound, Subscription
<1>a. /\ IsFiniteSet(sub.running \ {m})
      /\ Cardinality(sub.running \ {m}) = Cardinality(sub.running) - 1
      /\ Cardinality(sub.running) \in Nat
  BY FS_RemoveElement, FS_CardinalityType DEF Sound
<1>1. CASE sub.waiting # << >>
  <2>. DEFINE w == Head(sub.waiting)
  <2>1. Release(sub, m) = [permits |-> sub.permits, waiting |-> Tail(sub.waiting),
                           running |-> (sub.running \ {m}) \cup {w}]
    BY <1>0, <1>1 DEF Release
  <2>2. /\ w \in Messages
        /\ w = sub.waiting[1]
        /\ Tail(sub.waiting) \in Seq(Messages)
        /\ DOMAIN sub.waiting = 1 .. Len(sub.waiting)
        /\ Len(sub.waiting) \in Nat \ {0}
        /\ DOMAIN Tail(sub.waiting) = 1 .. (Len(sub.waiting) - 1)
        /\ \A k \in 1 .. (Len(sub.waiting) - 1) : Tail(sub.waiting)[k] = sub.waiting[k + 1]
    BY <1>0, <1>1, HeadTailProperties, LenProperties, EmptySeq
  <2>3. w \notin sub.running
    BY <2>2 DEF Sound
  <2>4. /\ IsFiniteSet((sub.running \ {m}) \cup {w})
        /\ Cardinality((sub.running \ {m}) \cup {w}) = Cardinality(sub.running \ {m}) + 1
    BY <1>a, <2>3, FS_AddElement
  <2>. HIDE DEF w
  <2>. DEFINE freed == Release(sub, m)
  <2>5. /\ freed \in Subscription
        /\ freed.permits = sub.permits
        /\ freed.waiting = Tail(sub.waiting)
        /\ freed.running = (sub.running \ {m}) \cup {w}
    BY <1>0, <2>1, <2>2 DEF Subscription
  <2>. HIDE DEF freed
  <2>6. /\ IsFiniteSet(freed.running)
        /\ freed.permits + Cardinality(freed.running) = n
    BY <1>0, <1>a, <2>4, <2>5 DEF Sound
  <2>7. freed.permits = 0
    BY <1>1, <2>5 DEF Sound
  <2>8. /\ \A k, l \in DOMAIN freed.waiting : k # l => freed.waiting[k] # freed.waiting[l]
        /\ \A k \in DOMAIN freed.waiting : freed.waiting[k] \notin freed.running
    <3>1. /\ DOMAIN freed.waiting = 1 .. (Len(sub.waiting) - 1)
          /\ \A k \in DOMAIN freed.waiting :
                /\ freed.waiting[k] = sub.waiting[k + 1]
                /\ k + 1 \in DOMAIN sub.waiting
                /\ k + 1 # 1
      BY <2>2, <2>5
    <3>2. 1 \in DOMAIN sub.waiting
      BY <2>2
    <3>3. \A k, l \in DOMAIN freed.waiting : k # l => k + 1 # l + 1
      BY <2>2, <3>1
    <3>. QED
      BY <2>2, <2>5, <3>1, <3>2, <3>3 DEF Sound
  <2>9. Sound(freed, n)
    BY <2>5, <2>6, <2>7, <2>8 DEF Sound
  <2>10. \A x : Holds(freed, x) => Holds(sub, x)
    <3>1. 1 \in DOMAIN sub.waiting
      BY <2>2
    <3>2. \A k \in DOMAIN freed.waiting :
             k + 1 \in DOMAIN sub.waiting /\ freed.waiting[k] = sub.waiting[k + 1]
      BY <2>2, <2>5
    <3>. QED
      BY <2>2, <2>5, <3>1, <3>2 DEF Holds
  <2>. QED
    BY <2>9, <2>10 DEF freed
<1>2. CASE sub.waiting = << >>
  <2>1. Release(sub, m) = [permits |-> sub.permits + 1, waiting |-> sub.waiting,
                           running |-> sub.running \ {m}]
    BY <1>0, <1>2 DEF Release, Subscription
  <2>. QED
    BY <1>0, <1>2, <1>a, <2>1 DEF Sound, Subscription, Holds
<1>. QED
  BY <1>1, <1>2

(* A delivery reaches every subscription of the endpoint and leaves the semaphores
   sound. *)
LEMMA DeliverKeeps ==
    ASSUME TransportTypeOK, AllSound, HoldsArrived,
           NEW parcel \in Parcels, Coming(parcel.message), DeliverToSubscribers(parcel)
    PROVE  /\ subscriptions' \in [Endpoints -> Seq(Subscription)]
           /\ AllSound'
           /\ \A e \in Endpoints : Len(subscriptions'[e]) = Len(subscriptions[e])
           /\ \A e \in Endpoints : \A i \in DOMAIN subscriptions'[e] :
                 /\ i \in DOMAIN subscriptions[e]
                 /\ \A x : Holds(subscriptions'[e][i], x) =>
                       Holds(subscriptions[e][i], x) \/ x = parcel.message
<1>. DEFINE m == parcel.message
            at0 == parcel.endpoint
            given == [i \in DOMAIN subscriptions[at0] |-> Acquire(subscriptions[at0][i], m)]
<1>0. m \in Messages /\ at0 \in Endpoints
  BY DEF Parcels
<1>1. CASE ~ started
  <2>1. subscriptions' = subscriptions
    BY <1>1 DEF DeliverToSubscribers
  <2>. QED
    BY <2>1 DEF TransportTypeOK, AllSound
<1>2. CASE started
  <2>1. subscriptions' = [subscriptions EXCEPT ![at0] = given]
    BY <1>2 DEF DeliverToSubscribers
  <2>2. \A i \in DOMAIN subscriptions[at0] :
           /\ Sound(Acquire(subscriptions[at0][i], m), Concurrency[at0])
           /\ \A x : Holds(Acquire(subscriptions[at0][i], m), x) =>
                        Holds(subscriptions[at0][i], x) \/ x = m
    <3>1. Concurrency[at0] \in Nat
      BY <1>0, TransportAssumption
    <3>. QED
      BY <1>0, <3>1, AcquireKeeps DEF AllSound, HoldsArrived
  <2>3. subscriptions[at0] \in Seq(Subscription)
    BY <1>0 DEF TransportTypeOK
  <2>4. /\ Len(subscriptions[at0]) \in Nat
        /\ DOMAIN subscriptions[at0] = 1 .. Len(subscriptions[at0])
    BY <2>3, LenProperties
  <2>5. given \in [1 .. Len(subscriptions[at0]) -> Subscription]
    BY <2>2, <2>4 DEF Sound
  <2>6. given \in Seq(Subscription)
    BY <2>4, <2>5, SeqDef
  <2>7. Len(given) = Len(subscriptions[at0])
    BY <2>4, <2>5, <2>6, LenProperties
  <2>8. /\ subscriptions \in [Endpoints -> Seq(Subscription)]
        /\ subscriptions'[at0] = given
        /\ \A e \in Endpoints : e # at0 => subscriptions'[e] = subscriptions[e]
    BY <1>0, <2>1 DEF TransportTypeOK
  <2>9. /\ DOMAIN given = DOMAIN subscriptions[at0]
        /\ \A i \in DOMAIN given : given[i] = Acquire(subscriptions[at0][i], m)
    OBVIOUS
  <2>. HIDE DEF given, m, at0
  <2>10. subscriptions' \in [Endpoints -> Seq(Subscription)]
    BY <2>1, <2>6, <2>8
  <2>11. \A e \in Endpoints : Len(subscriptions'[e]) = Len(subscriptions[e])
    BY <2>7, <2>8
  <2>12. ASSUME NEW e \in Endpoints, NEW i \in DOMAIN subscriptions'[e]
         PROVE  /\ Sound(subscriptions'[e][i], Concurrency[e])
                /\ i \in DOMAIN subscriptions[e]
                /\ \A x : Holds(subscriptions'[e][i], x) =>
                             Holds(subscriptions[e][i], x) \/ x = m
    <3>1. CASE e = at0
      BY <2>2, <2>8, <2>9, <3>1
    <3>2. CASE e # at0
      BY <2>8, <3>2 DEF AllSound
    <3>. QED
      BY <3>1, <3>2
  <2>. QED
    BY <2>10, <2>11, <2>12 DEF AllSound, m
<1>. QED
  BY <1>1, <1>2

(* The transport starts with nothing published and nobody subscribed. *)
LEMMA TransportInvInit == TransportInit => TransportInv
<1>. SUFFICES ASSUME TransportInit PROVE TransportInv
  OBVIOUS
<1>1. TransportTypeOK
  BY EmptySeq DEF TransportInit, TransportTypeOK
<1>2. \A e \in Endpoints : DOMAIN subscriptions[e] = {}
  BY EmptySeq DEF TransportInit
<1>3. DOMAIN immediates = {}
  BY DEF TransportInit
<1>. QED
  BY <1>1, <1>2, <1>3 DEF TransportInit, TransportInv, OneParcel, HoldsArrived, AllSound

(* Subscribing adds a sound semaphore with nothing in it. *)
LEMMA SubscribeKeeps ==
    ASSUME TransportInv, NEW e \in Endpoints, Subscribe(e)
    PROVE  /\ TransportInv'
           /\ subscriptions'[e] # << >>
           /\ Len(subscriptions'[e]) = Len(subscriptions[e]) + 1
           /\ \A f \in Endpoints \ {e} : subscriptions'[f] = subscriptions[f]
<1>. DEFINE fresh == [permits |-> Concurrency[e], waiting |-> << >>, running |-> {}]
            more == Append(subscriptions[e], fresh)
<1>1. subscriptions[e] \in Seq(Subscription)
  BY DEF TransportInv, TransportTypeOK
<1>2. Concurrency[e] \in Nat
  BY TransportAssumption
<1>3. fresh \in Subscription /\ Sound(fresh, Concurrency[e]) /\ \A x : ~ Holds(fresh, x)
  <2>1. fresh \in Subscription
    BY <1>2, EmptySeq DEF Subscription
  <2>. QED
    BY <1>2, <2>1, FS_EmptySet DEF Sound, Holds
<1>4. subscriptions' = [subscriptions EXCEPT ![e] = more]
  BY DEF Subscribe
<1>. HIDE DEF fresh
<1>5. /\ more \in Seq(Subscription) /\ more # << >>
      /\ Len(more) = Len(subscriptions[e]) + 1
      /\ Len(subscriptions[e]) \in Nat
      /\ DOMAIN subscriptions[e] = 1 .. Len(subscriptions[e])
      /\ DOMAIN more = 1 .. (Len(subscriptions[e]) + 1)
      /\ \A i \in 1 .. Len(subscriptions[e]) : more[i] = subscriptions[e][i]
      /\ more[Len(subscriptions[e]) + 1] = fresh
  BY <1>1, <1>3, AppendProperties, LenProperties
<1>. HIDE DEF more
<1>6. /\ subscriptions' \in [Endpoints -> Seq(Subscription)]
      /\ subscriptions'[e] = more
      /\ \A f \in Endpoints \ {e} : subscriptions'[f] = subscriptions[f]
  BY <1>4, <1>5 DEF TransportInv, TransportTypeOK
<1>7. TransportTypeOK' /\ OneParcel'
  BY <1>6 DEF TransportInv, TransportTypeOK, OneParcel, Subscribe
<1>8. ASSUME NEW f \in Endpoints, NEW i \in DOMAIN subscriptions'[f]
      PROVE  /\ Sound(subscriptions'[f][i], Concurrency[f])
             /\ \A m \in Messages : Holds(subscriptions'[f][i], m) => ~ Coming(m)
  <2>1. CASE f = e /\ i = Len(subscriptions[e]) + 1
    BY <1>3, <1>5, <1>6, <2>1
  <2>2. CASE f = e /\ i # Len(subscriptions[e]) + 1
    <3>1. i \in DOMAIN subscriptions[e] /\ subscriptions'[f][i] = subscriptions[e][i]
      BY <1>5, <1>6, <2>2
    <3>. QED
      BY <2>2, <3>1 DEF TransportInv, AllSound, HoldsArrived
  <2>3. CASE f # e
    BY <1>6, <2>3 DEF TransportInv, AllSound, HoldsArrived
  <2>. QED
    BY <2>1, <2>2, <2>3
<1>9. \A m : Coming(m)' => Coming(m)
  BY DEF Subscribe, Coming
<1>. QED
  BY <1>5, <1>6, <1>7, <1>8, <1>9 DEF TransportInv, AllSound, HoldsArrived

(* A message published is in one parcel from then on. *)
LEMMA PublishKeeps ==
    ASSUME TransportInv, NEW m \in Messages, NEW e \in Endpoints, NEW delayed \in BOOLEAN,
           Publish(m, e, delayed)
    PROVE  TransportInv'
<1>. DEFINE parcel == [endpoint |-> e, message |-> m]
<1>1. parcel \in Parcels /\ parcel.message = m
  BY DEF Parcels
<1>. HIDE DEF parcel
<1>2. /\ m \in unpublished
      /\ unpublished' = unpublished \ {m}
      /\ UNCHANGED <<started, subscriptions>>
      /\ \/ timers' = timers \cup {parcel} /\ immediates' = immediates
         \/ immediates' = Append(immediates, parcel) /\ timers' = timers
  BY DEF Publish, parcel
<1>3. /\ Len(immediates) \in Nat /\ immediates \in Seq(Parcels)
      /\ DOMAIN immediates = 1 .. Len(immediates)
  BY LenProperties DEF TransportInv, TransportTypeOK
<1>4. CASE timers' = timers \cup {parcel} /\ immediates' = immediates
  <2>1. TransportTypeOK'
    BY <1>1, <1>2, <1>4 DEF TransportInv, TransportTypeOK
  <2>2. OneParcel'
    BY <1>1, <1>2, <1>4 DEF TransportInv, OneParcel
  <2>3. \A x : Coming(x)' => Coming(x)
    BY <1>1, <1>2, <1>4 DEF Coming
  <2>. QED
    BY <1>2, <2>1, <2>2, <2>3 DEF TransportInv, HoldsArrived, AllSound
<1>5. CASE immediates' = Append(immediates, parcel) /\ timers' = timers
  <2>1. /\ immediates' \in Seq(Parcels)
        /\ DOMAIN immediates' = 1 .. (Len(immediates) + 1)
        /\ \A k \in 1 .. Len(immediates) : immediates'[k] = immediates[k]
        /\ immediates'[Len(immediates) + 1] = parcel
    BY <1>1, <1>3, <1>5, AppendProperties, LenProperties
  <2>2. \A k \in DOMAIN immediates' :
           \/ k \in DOMAIN immediates /\ immediates'[k] = immediates[k]
           \/ k = Len(immediates) + 1 /\ immediates'[k].message = m
    BY <1>1, <1>3, <2>1
  <2>3. TransportTypeOK'
    BY <1>2, <1>5, <2>1 DEF TransportInv, TransportTypeOK
  <2>4. OneParcel'
    <3>1. \A k \in DOMAIN immediates : immediates[k].message # m
      BY <1>2 DEF TransportInv, OneParcel
    <3>2. \A p \in timers : p.message # m
      BY <1>2 DEF TransportInv, OneParcel
    <3>3. \A k \in DOMAIN immediates' : immediates'[k].message \notin unpublished'
      BY <1>2, <2>2, <3>1 DEF TransportInv, OneParcel
    <3>4. \A k, l \in DOMAIN immediates' :
             k # l => immediates'[k].message # immediates'[l].message
      BY <2>2, <3>1 DEF TransportInv, OneParcel
    <3>5. \A k \in DOMAIN immediates', p \in timers : immediates'[k].message # p.message
      BY <2>2, <3>2 DEF TransportInv, OneParcel
    <3>. QED
      BY <1>2, <1>5, <3>3, <3>4, <3>5 DEF TransportInv, OneParcel
  <2>5. \A x : Coming(x)' => Coming(x)
    <3>1. \A k \in DOMAIN immediates' : Coming(immediates'[k].message)
      BY <1>2, <2>2 DEF Coming
    <3>. QED
      BY <1>2, <1>5, <3>1 DEF Coming
  <2>. QED
    BY <1>2, <2>3, <2>4, <2>5 DEF TransportInv, HoldsArrived, AllSound
<1>. QED
  BY <1>2, <1>4, <1>5

(* A callback takes its parcel out before it delivers, so that the message comes to
   a subscription once. *)
LEMMA CallbackKeeps ==
    ASSUME TransportInv,
           ImmediateRuns \/ \E parcel \in timers : TimerFires(parcel)
    PROVE  /\ TransportInv'
           /\ \A e \in Endpoints : Len(subscriptions'[e]) = Len(subscriptions[e])
<1>0. /\ Len(immediates) \in Nat /\ immediates \in Seq(Parcels)
      /\ DOMAIN immediates = 1 .. Len(immediates)
  BY LenProperties DEF TransportInv, TransportTypeOK
<1>1. PICK parcel \in Parcels :
         /\ Coming(parcel.message)
         /\ DeliverToSubscribers(parcel)
         /\ UNCHANGED <<started, unpublished>>
         /\ immediates' \in Seq(Parcels) /\ timers' \subseteq Parcels
         /\ OneParcel'
         /\ ~ Coming(parcel.message)'
         /\ \A x : Coming(x)' => Coming(x)
  <2>1. CASE ImmediateRuns
    <3>1. /\ immediates # << >>
          /\ immediates' = Tail(immediates)
          /\ DeliverToSubscribers(Head(immediates))
          /\ UNCHANGED <<started, timers, unpublished>>
      BY <2>1 DEF ImmediateRuns
    <3>2. /\ immediates[1] = Head(immediates)
          /\ Head(immediates) \in Parcels
          /\ 1 \in DOMAIN immediates
          /\ immediates' \in Seq(Parcels)
          /\ \A k \in DOMAIN immediates' :
                k + 1 \in DOMAIN immediates /\ immediates'[k] = immediates[k + 1] /\ k + 1 # 1
          /\ \A k, l \in DOMAIN immediates' : k # l => k + 1 # l + 1
      <4>1. /\ Tail(immediates) \in Seq(Parcels)
            /\ Len(Tail(immediates)) = Len(immediates) - 1
            /\ Len(immediates) # 0
            /\ \A k \in 1 .. Len(Tail(immediates)) : Tail(immediates)[k] = immediates[k + 1]
            /\ Head(immediates) \in Parcels
        BY <1>0, <3>1, HeadTailProperties, EmptySeq
      <4>2. DOMAIN Tail(immediates) = 1 .. (Len(immediates) - 1)
        BY <4>1, LenProperties
      <4>. QED
        BY <1>0, <3>1, <4>1, <4>2
    <3>a. PICK first \in Parcels : first = Head(immediates)
      BY <3>2
    <3>3. Coming(first.message)
      BY <3>a, <3>2 DEF Coming
    <3>4. \A k \in DOMAIN immediates' : immediates'[k].message # first.message
      BY <3>a, <3>2 DEF TransportInv, OneParcel
    <3>5. /\ first.message \notin unpublished
          /\ \A parcel \in timers : parcel.message # first.message
      BY <3>a, <3>2 DEF TransportInv, OneParcel
    <3>6. ~ Coming(first.message)'
      BY <3>1, <3>4, <3>5 DEF Coming
    <3>7. OneParcel'
      <4>1. \A k, l \in DOMAIN immediates' :
               k # l => immediates'[k].message # immediates'[l].message
        BY <3>2 DEF TransportInv, OneParcel
      <4>2. \A k \in DOMAIN immediates' :
               /\ immediates'[k].message \notin unpublished
               /\ \A parcel \in timers : immediates'[k].message # parcel.message
        BY <3>2 DEF TransportInv, OneParcel
      <4>. QED
        BY <3>1, <4>1, <4>2 DEF TransportInv, OneParcel
    <3>8. \A x : Coming(x)' => Coming(x)
      BY <3>1, <3>2 DEF Coming
    <3>9. timers' \subseteq Parcels
      BY <3>1 DEF TransportInv, TransportTypeOK
    <3>10. DeliverToSubscribers(first)
      BY <3>1, <3>a
    <3>. QED
      BY <3>1, <3>2, <3>3, <3>6, <3>7, <3>8, <3>9, <3>10
  <2>2. ASSUME NEW p \in timers, TimerFires(p)
        PROVE  /\ p \in Parcels
               /\ Coming(p.message)
               /\ DeliverToSubscribers(p)
               /\ UNCHANGED <<started, unpublished>>
               /\ immediates' \in Seq(Parcels) /\ timers' \subseteq Parcels
               /\ OneParcel'
               /\ ~ Coming(p.message)'
               /\ \A x : Coming(x)' => Coming(x)
    <3>1. /\ timers' = timers \ {p}
          /\ DeliverToSubscribers(p)
          /\ UNCHANGED <<started, immediates, unpublished>>
      BY <2>2 DEF TimerFires
    <3>2. p \in Parcels
      BY DEF TransportInv, TransportTypeOK
    <3>3. OneParcel' /\ ~ Coming(p.message)'
      BY <3>1 DEF TransportInv, OneParcel, Coming
    <3>4. Coming(p.message) /\ \A x : Coming(x)' => Coming(x)
      BY <3>1 DEF Coming
    <3>. QED
      BY <3>1, <3>2, <3>3, <3>4 DEF TransportInv, TransportTypeOK
  <2>. QED
    BY <2>1, <2>2
<1>2. /\ subscriptions' \in [Endpoints -> Seq(Subscription)]
      /\ AllSound'
      /\ \A e \in Endpoints : Len(subscriptions'[e]) = Len(subscriptions[e])
      /\ \A e \in Endpoints : \A i \in DOMAIN subscriptions'[e] :
            /\ i \in DOMAIN subscriptions[e]
            /\ \A x : Holds(subscriptions'[e][i], x) =>
                  Holds(subscriptions[e][i], x) \/ x = parcel.message
  BY <1>1, DeliverKeeps DEF TransportInv
<1>3. TransportTypeOK'
  BY <1>1, <1>2 DEF TransportInv, TransportTypeOK
<1>4. HoldsArrived'
  BY <1>1, <1>2 DEF TransportInv, HoldsArrived
<1>. QED
  BY <1>1, <1>2, <1>3, <1>4 DEF TransportInv

(* A handler that ends leaves the semaphores sound. *)
LEMMA HandlerEndsKeeps ==
    ASSUME TransportInv, NEW e \in Endpoints, NEW i \in DOMAIN subscriptions[e], NEW m,
           HandlerEnds(e, i, m)
    PROVE  /\ TransportInv'
           /\ \A f \in Endpoints : Len(subscriptions'[f]) = Len(subscriptions[f])
<1>. DEFINE rest == Release(subscriptions[e][i], m)
            less == [subscriptions[e] EXCEPT ![i] = rest]
<1>1. subscriptions[e] \in Seq(Subscription) /\ subscriptions \in [Endpoints -> Seq(Subscription)]
  BY DEF TransportInv, TransportTypeOK
<1>2. /\ Len(subscriptions[e]) \in Nat
      /\ DOMAIN subscriptions[e] = 1 .. Len(subscriptions[e])
  BY <1>1, LenProperties
<1>3. /\ m \in subscriptions[e][i].running
      /\ subscriptions' = [subscriptions EXCEPT ![e] = less]
      /\ UNCHANGED <<started, immediates, timers, unpublished>>
  BY DEF HandlerEnds
<1>4. /\ Sound(rest, Concurrency[e]) /\ \A x : Holds(rest, x) => Holds(subscriptions[e][i], x)
  <2>1. Concurrency[e] \in Nat /\ Sound(subscriptions[e][i], Concurrency[e])
    BY TransportAssumption DEF TransportInv, AllSound
  <2>. QED
    BY <1>3, <2>1, ReleaseKeeps
<1>5. rest \in Subscription
  BY <1>4 DEF Sound
<1>. HIDE DEF rest
<1>6. /\ less \in Seq(Subscription)
      /\ Len(less) = Len(subscriptions[e])
      /\ DOMAIN less = DOMAIN subscriptions[e]
      /\ \A j \in DOMAIN subscriptions[e] :
            less[j] = IF j = i THEN rest ELSE subscriptions[e][j]
  BY <1>1, <1>2, <1>5, ExceptSeq
<1>. HIDE DEF less
<1>7. /\ subscriptions' \in [Endpoints -> Seq(Subscription)]
      /\ subscriptions'[e] = less
      /\ \A f \in Endpoints : f # e => subscriptions'[f] = subscriptions[f]
  BY <1>1, <1>3, <1>6
<1>8. ASSUME NEW f \in Endpoints, NEW j \in DOMAIN subscriptions'[f]
      PROVE  /\ Sound(subscriptions'[f][j], Concurrency[f])
             /\ j \in DOMAIN subscriptions[f]
             /\ \A x : Holds(subscriptions'[f][j], x) => Holds(subscriptions[f][j], x)
  BY <1>4, <1>6, <1>7 DEF TransportInv, AllSound
<1>9. /\ OneParcel' /\ \A x : Coming(x)' => Coming(x)
  BY <1>3 DEF TransportInv, OneParcel, Coming
<1>10. TransportTypeOK'
  BY <1>3, <1>7 DEF TransportInv, TransportTypeOK
<1>11. AllSound' /\ HoldsArrived'
  BY <1>8, <1>9 DEF TransportInv, AllSound, HoldsArrived
<1>. QED
  BY <1>6, <1>7, <1>9, <1>10, <1>11 DEF TransportInv

(* What anybody may do to the transport leaves it in order. *)
LEMMA TransportInvStep ==
    ASSUME TransportInv, [TransportNext]_transportVars
    PROVE  TransportInv'
<1>1. CASE UNCHANGED transportVars
  BY <1>1 DEF transportVars, TransportInv, TransportTypeOK, OneParcel, HoldsArrived, AllSound,
              Coming
<1>2. CASE Start
  BY <1>2 DEF Start, TransportInv, TransportTypeOK, OneParcel, HoldsArrived, AllSound, Coming
<1>3. CASE Stop
  <2>1. TransportTypeOK' /\ OneParcel' /\ AllSound'
    BY <1>3 DEF Stop, TransportInv, TransportTypeOK, OneParcel, AllSound
  <2>2. \A x : Coming(x)' => Coming(x)
    BY <1>3 DEF Stop, Coming
  <2>. QED
    BY <1>3, <2>1, <2>2 DEF Stop, TransportInv, HoldsArrived
<1>4. ASSUME NEW e \in Endpoints, Subscribe(e) PROVE TransportInv'
  BY <1>4, SubscribeKeeps
<1>5. CASE Publishes
  BY <1>5, PublishKeeps DEF Publishes, TransportInv, TransportTypeOK
<1>6. CASE EventLoop
  BY <1>6, CallbackKeeps, HandlerEndsKeeps DEF EventLoop
<1>. QED
  BY <1>1, <1>2, <1>3, <1>4, <1>5, <1>6 DEF TransportNext

(* Whoever starts, stops, subscribes and publishes, in whatever order: the transport's
   invariant holds. *)
THEOREM TransportInvariant == TransportSpec => []TransportInv
<1>1. TransportInit => TransportInv
  BY TransportInvInit
<1>2. TransportInv /\ [TransportNext]_transportVars => TransportInv'
  BY TransportInvStep
<1>. QED
  BY <1>1, <1>2, PTL DEF TransportSpec

(* Sound semaphores are what SemaphoreSound says. *)
LEMMA SoundIsSound == TransportInv => SemaphoreSound
<1>. QED
  BY DEF TransportInv, AllSound, Sound, SemaphoreSound, Sub

-----------------------------------------------------------------------------
(* The bus over the transport. *)

(* A caller in the loop has subscribed everything the loop has passed. *)
StartingHasSubscribed ==
    \A c \in Callers : at[c] = "starting" =>
        \A j \in 1 .. position[c] : subscriptions[HandledEndpoints[j]] # << >>

(* Of a bus nobody has started twice: each endpoint is subscribed once at most, and
   by the one caller that is or was in the loop. *)
StartedOnce ==
    /\ \A e \in Endpoints : Len(subscriptions[e]) <= 1
    /\ starts = 0 => \A e \in Endpoints : subscriptions[e] = << >>
    /\ \A c, d \in Callers : at[c] = "starting" /\ at[d] = "starting" => c = d
    /\ \A c \in Callers : at[c] = "starting" =>
          /\ starts = 1
          /\ \A e \in Endpoints : subscriptions[e] # << >> =>
                \E j \in 1 .. position[c] : HandledEndpoints[j] = e

(* The inductive invariant of the bus's lifecycle. *)
LifecycleInv ==
    /\ TransportInv
    /\ LifecycleTypeOK
    /\ StartingHasSubscribed
    /\ StartedMeansSubscribed
    /\ starts <= 1 => StartedOnce

(* A set of natural numbers that is not empty has a least one, which Min names. *)
LEMMA MinIsLeast ==
    ASSUME NEW S, S \subseteq Nat, S # {}
    PROVE  Min(S) \in S /\ \A y \in S : Min(S) <= y
<1>1. PICK x \in S : \A y \in S : ~ (<<y, x>> \in OpToRel(<, Nat))
  BY WFMin, NatLessThanWellFounded
<1>2. \A y \in S : ~ (y < x)
  BY <1>1 DEF OpToRel
<1>3. \A y \in S : x <= y
  BY <1>2
<1>. QED
  BY <1>3 DEF Min

(* Every step of the bus is one its transport may take, or none. *)
LEMMA LifecycleStepIsTransportStep ==
    ASSUME LifecycleNext
    PROVE  [TransportNext]_transportVars
<1>1. Handled \subseteq Endpoints
  <2>1. DOMAIN HandledEndpoints = 1 .. Len(HandledEndpoints)
    BY LifecycleAssumption, LenProperties
  <2>. QED
    BY <2>1, LifecycleAssumption, ElementOfSeq DEF Handled
<1>2. ASSUME NEW c \in Callers, BusStart(c) PROVE TransportNext
  BY <1>2 DEF BusStart, TransportNext
<1>3. ASSUME NEW c \in Callers, BusSubscribe(c) PROVE TransportNext
  <2>1. Min(Remaining(c)) \in DOMAIN HandledEndpoints
    <3>1. Remaining(c) \subseteq Nat
      BY LifecycleAssumption, LenProperties DEF Remaining
    <3>. QED
      BY <1>3, <3>1, MinIsLeast DEF BusSubscribe, Remaining
  <2>2. HandledEndpoints[Min(Remaining(c))] \in Endpoints
    BY <1>1, <2>1 DEF Handled
  <2>. QED
    BY <1>3, <2>2 DEF BusSubscribe, TransportNext
<1>4. ASSUME NEW c \in Callers, BusIsStarted(c) \/ BusIsStopped(c)
      PROVE  UNCHANGED transportVars
  BY <1>4 DEF BusIsStarted, BusIsStopped
<1>5. ASSUME NEW c \in Callers, BusStop(c) PROVE TransportNext
  BY <1>5 DEF BusStop, TransportNext
<1>6. CASE BusPublish
  BY <1>1, <1>6 DEF BusPublish, Publishes, TransportNext
<1>7. CASE Callback
  BY <1>7 DEF Callback, EventLoop, TransportNext
<1>8. ASSUME NEW e \in Endpoints, NEW i \in 1 .. MaxSubscriptions, NEW m \in Messages,
             BusHandlerEnds(e, i, m)
      PROVE  TransportNext
  BY <1>8 DEF BusHandlerEnds, HandlerEnds, EventLoop, TransportNext
<1>. QED
  BY <1>2, <1>3, <1>4, <1>5, <1>6, <1>7, <1>8 DEF LifecycleNext, CallerStep

(* The bus uses its transport only through the transport's own operations: what is
   proved of the transport holds of it under the bus. *)
THEOREM BusUsesTransport == LifecycleSpec => TransportSpec
<1>1. LifecycleInit => TransportInit
  BY DEF LifecycleInit
<1>2. [LifecycleNext]_allVars => [TransportNext]_transportVars
  <2>1. CASE UNCHANGED allVars
    BY <2>1 DEF allVars
  <2>. QED
    BY <2>1, LifecycleStepIsTransportStep
<1>. QED
  BY <1>1, <1>2, PTL DEF LifecycleSpec, TransportSpec

(* Every semaphore accounts for its handlers, whoever uses the transport and under the
   bus: permits and running handlers make up the concurrency, and nobody waits beside
   a free permit. *)
THEOREM SemaphoresAreSound ==
    /\ TransportSpec => []SemaphoreSound
    /\ LifecycleSpec => []SemaphoreSound
<1>. QED
  BY TransportInvariant, SoundIsSound, BusUsesTransport, PTL

(* A subscription once made stays: stop does not take it away. *)
LEMMA SubscriptionsStay ==
    ASSUME TransportInv, [TransportNext]_transportVars, NEW e \in Endpoints
    PROVE  subscriptions[e] # << >> => subscriptions'[e] # << >>
<1>0. /\ subscriptions[e] \in Seq(Subscription)
      /\ TransportTypeOK
  BY DEF TransportInv, TransportTypeOK
<1>0a. TransportInv'
  BY TransportInvStep
<1>0b. subscriptions'[e] \in Seq(Subscription)
  BY <1>0a DEF TransportInv, TransportTypeOK
<1>1. CASE UNCHANGED subscriptions
  BY <1>1
<1>2. ASSUME NEW f \in Endpoints, Subscribe(f)
      PROVE  subscriptions[e] # << >> => subscriptions'[e] # << >>
  BY <1>2, SubscribeKeeps
<1>3. ASSUME EventLoop PROVE Len(subscriptions'[e]) = Len(subscriptions[e])
  BY <1>3, CallbackKeeps, HandlerEndsKeeps DEF EventLoop
<1>4. subscriptions[e] # << >> => Len(subscriptions[e]) # 0
  BY <1>0, EmptySeq
<1>5. EventLoop => (subscriptions[e] # << >> => subscriptions'[e] # << >>)
  BY <1>3, <1>4, EmptySeq
<1>. QED
  BY <1>1, <1>2, <1>5 DEF TransportNext, transportVars, Start, Stop, Publishes, Publish

(* The bus starts with nobody in the loop. *)
LEMMA LifecycleInvInit == LifecycleInit => LifecycleInv
<1>. SUFFICES ASSUME LifecycleInit PROVE LifecycleInv
  OBVIOUS
<1>1. TransportInv
  BY TransportInvInit DEF LifecycleInit
<1>2. Len(HandledEndpoints) \in Nat /\ MaxStarts \in Nat
  BY LifecycleAssumption, LenProperties
<1>3. LifecycleTypeOK
  <2>1. position \in [Callers -> 0 .. Len(HandledEndpoints)]
    BY <1>2 DEF LifecycleInit
  <2>2. starts \in 0 .. MaxStarts
    BY <1>2 DEF LifecycleInit
  <2>. QED
    BY <1>1, <2>1, <2>2 DEF LifecycleInit, LifecycleTypeOK, TransportInv
<1>4. \A e \in Endpoints : subscriptions[e] = << >> /\ Len(subscriptions[e]) = 0
  BY EmptySeq DEF LifecycleInit, TransportInit
<1>. QED
  BY <1>1, <1>3, <1>4 DEF LifecycleInit, LifecycleInv, StartingHasSubscribed, StartedOnce,
                           StartedMeansSubscribed

(* While the loop goes on it subscribes the next endpoint it has not seen, and passes
   over none. *)
LEMMA NextToSubscribe ==
    ASSUME LifecycleTypeOK, NEW c \in Callers, Remaining(c) # {}, NEW k, k = Min(Remaining(c))
    PROVE  /\ k \in 1 .. Len(HandledEndpoints)
           /\ k > position[c]
           /\ HandledEndpoints[k] \in Endpoints
           /\ \A j \in 1 .. position[c] : HandledEndpoints[j] # HandledEndpoints[k]
           /\ \A i \in 1 .. k - 1 : i > position[c] =>
                 \E j \in 1 .. position[c] : HandledEndpoints[j] = HandledEndpoints[i]
<1>1. /\ DOMAIN HandledEndpoints = 1 .. Len(HandledEndpoints)
      /\ Len(HandledEndpoints) \in Nat
      /\ \A i \in 1 .. Len(HandledEndpoints) : HandledEndpoints[i] \in Endpoints
  BY LifecycleAssumption, LenProperties, ElementOfSeq
<1>2. position[c] \in 0 .. Len(HandledEndpoints)
  BY DEF LifecycleTypeOK
<1>3. Remaining(c) \subseteq Nat
  BY <1>1 DEF Remaining
<1>4. k \in Remaining(c) /\ \A y \in Remaining(c) : k <= y
  BY <1>3, MinIsLeast
<1>5. ASSUME NEW i \in 1 .. k - 1, i > position[c]
      PROVE  \E j \in 1 .. position[c] : HandledEndpoints[j] = HandledEndpoints[i]
  <2>1. i \notin Remaining(c)
    BY <1>3, <1>4
  <2>2. i \in DOMAIN HandledEndpoints
    BY <1>1, <1>4 DEF Remaining
  <2>. QED
    BY <1>5, <2>1, <2>2 DEF Remaining
<1>. QED
  BY <1>1, <1>4, <1>5 DEF Remaining

(* start, subscribe by subscribe, keeps the invariant. *)
LEMMA BusSubscribeKeeps ==
    ASSUME LifecycleInv, NEW c \in Callers, BusSubscribe(c)
    PROVE  LifecycleInv'
<1>. DEFINE least == Min(Remaining(c))
<1>a. PICK k : k = least
  OBVIOUS
<1>1. /\ at[c] = "starting"
      /\ Remaining(c) # {}
      /\ Subscribe(HandledEndpoints[k])
      /\ position' = [position EXCEPT ![c] = k]
      /\ UNCHANGED <<busStarted, at, starts, accepted, handled>>
  BY <1>a DEF BusSubscribe
<1>2. /\ k \in 1 .. Len(HandledEndpoints)
      /\ k > position[c]
      /\ HandledEndpoints[k] \in Endpoints
      /\ \A j \in 1 .. position[c] : HandledEndpoints[j] # HandledEndpoints[k]
      /\ \A i \in 1 .. k - 1 : i > position[c] =>
            \E j \in 1 .. position[c] : HandledEndpoints[j] = HandledEndpoints[i]
  BY <1>a, <1>1, NextToSubscribe DEF LifecycleInv
<1>. HIDE DEF least
<1>b. PICK e \in Endpoints : e = HandledEndpoints[k]
  BY <1>2
<1>3. /\ TransportInv'
      /\ subscriptions'[e] # << >>
      /\ Len(subscriptions'[e]) = Len(subscriptions[e]) + 1
      /\ \A f \in Endpoints \ {e} : subscriptions'[f] = subscriptions[f]
  BY <1>b, <1>1, SubscribeKeeps DEF LifecycleInv
<1>4. /\ position'[c] = k
      /\ \A d \in Callers : d # c => position'[d] = position[d]
      /\ \A d \in Callers : position[d] \in 0 .. Len(HandledEndpoints)
      /\ LifecycleTypeOK'
  <2>1. position \in [Callers -> 0 .. Len(HandledEndpoints)]
    BY DEF LifecycleInv, LifecycleTypeOK
  <2>2. Len(HandledEndpoints) \in Nat
    BY LifecycleAssumption, LenProperties
  <2>3. position' \in [Callers -> 0 .. Len(HandledEndpoints)]
    BY <1>1, <1>2, <2>1, <2>2
  <2>. QED
    BY <1>1, <1>3, <2>1, <2>3 DEF LifecycleInv, LifecycleTypeOK, TransportInv
<1>5. \A f \in Endpoints : subscriptions[f] # << >> => subscriptions'[f] # << >>
  BY <1>3
<1>5a. \A i \in 1 .. Len(HandledEndpoints) : HandledEndpoints[i] \in Endpoints
  BY LifecycleAssumption, ElementOfSeq
<1>6. StartingHasSubscribed'
  <2>. SUFFICES ASSUME NEW d \in Callers, at'[d] = "starting", NEW j \in 1 .. position'[d]
                PROVE  subscriptions'[HandledEndpoints[j]] # << >>
    BY DEF StartingHasSubscribed
  <2>0. at[d] = "starting" /\ j \in 1 .. Len(HandledEndpoints)
    BY <1>1, <1>2, <1>4
  <2>1. CASE j \in 1 .. position[d]
    BY <1>5, <1>5a, <2>0, <2>1 DEF LifecycleInv, StartingHasSubscribed
  <2>2. CASE j \notin 1 .. position[d]
    <3>1. d = c /\ j > position[c] /\ j <= k
      BY <1>2, <1>4, <2>0, <2>2
    <3>2. CASE j = k
      BY <1>b, <1>3, <3>2
    <3>3. CASE j # k
      <4>1. PICK i \in 1 .. position[c] : HandledEndpoints[i] = HandledEndpoints[j]
        BY <1>2, <3>1, <3>3
      <4>2. subscriptions[HandledEndpoints[i]] # << >>
        BY <1>1 DEF LifecycleInv, StartingHasSubscribed
      <4>. QED
        BY <1>5, <1>5a, <2>0, <4>1, <4>2
    <3>. QED
      BY <3>2, <3>3
  <2>. QED
    BY <2>1, <2>2
<1>7. StartedMeansSubscribed'
  <2>1. Handled \subseteq Endpoints
    BY <1>5a, LifecycleAssumption, LenProperties DEF Handled
  <2>. QED
    BY <1>1, <1>5, <2>1 DEF LifecycleInv, StartedMeansSubscribed
<1>8. ASSUME starts' <= 1 PROVE StartedOnce'
  <2>0. StartedOnce /\ starts = 1
    BY <1>1, <1>8 DEF LifecycleInv, StartedOnce
  <2>1. subscriptions[e] = << >>
    BY <1>1, <1>b, <1>2, <2>0 DEF StartedOnce
  <2>2. Len(subscriptions'[e]) = 1
    BY <1>3, <2>1, EmptySeq
  <2>3. \A f \in Endpoints : Len(subscriptions'[f]) <= 1
    <3>1. \A f \in Endpoints \ {e} : Len(subscriptions'[f]) <= 1
      BY <1>3, <2>0 DEF StartedOnce
    <3>2. Len(subscriptions'[e]) <= 1
      BY <2>2
    <3>. QED
      BY <3>1, <3>2
  <2>4. ASSUME NEW d \in Callers, at'[d] = "starting", NEW f \in Endpoints,
               subscriptions'[f] # << >>
        PROVE  \E j \in 1 .. position'[d] : HandledEndpoints[j] = f
    <3>1. d = c
      BY <1>1, <2>0, <2>4 DEF StartedOnce
    <3>2. CASE f = e
      BY <1>b, <1>2, <1>4, <3>1, <3>2
    <3>3. CASE f # e
      <4>1. PICK j \in 1 .. position[c] : HandledEndpoints[j] = f
        BY <1>1, <1>3, <2>0, <2>4, <3>3 DEF StartedOnce
      <4>2. j \in 1 .. position'[d]
        BY <1>2, <1>4, <3>1
      <4>. QED
        BY <4>1, <4>2
    <3>. QED
      BY <3>2, <3>3
  <2>. QED
    BY <1>1, <2>0, <2>3, <2>4 DEF StartedOnce
<1>. QED
  BY <1>3, <1>4, <1>6, <1>7, <1>8 DEF LifecycleInv

(* A step that leaves the callers where they are and every endpoint with as many
   subscriptions as before keeps the bus's part of the invariant. *)
LEMMA SameSubscriptionsKeep ==
    ASSUME LifecycleInv, TransportInv',
           UNCHANGED <<busStarted, at, position, starts>>,
           \A e \in Endpoints : Len(subscriptions'[e]) = Len(subscriptions[e])
    PROVE  /\ StartingHasSubscribed'
           /\ StartedMeansSubscribed'
           /\ starts' <= 1 => StartedOnce'
<1>0. \A e \in Endpoints :
         subscriptions[e] \in Seq(Subscription) /\ subscriptions'[e] \in Seq(Subscription)
  BY DEF LifecycleInv, TransportInv, TransportTypeOK
<1>1. \A e \in Endpoints : subscriptions'[e] = << >> <=> subscriptions[e] = << >>
  BY <1>0, EmptySeq
<1>2. /\ \A i \in 1 .. Len(HandledEndpoints) : HandledEndpoints[i] \in Endpoints
      /\ Len(HandledEndpoints) \in Nat
      /\ Handled \subseteq Endpoints
  BY LifecycleAssumption, ElementOfSeq, LenProperties DEF Handled
<1>3. \A c \in Callers : \A j \in 1 .. position[c] : HandledEndpoints[j] \in Endpoints
  <2>1. \A c \in Callers : position[c] \in 0 .. Len(HandledEndpoints)
    BY DEF LifecycleInv, LifecycleTypeOK
  <2>. QED
    BY <1>2, <2>1
<1>4. StartingHasSubscribed'
  BY <1>1, <1>3 DEF LifecycleInv, StartingHasSubscribed
<1>5. StartedMeansSubscribed'
  BY <1>1, <1>2 DEF LifecycleInv, StartedMeansSubscribed
<1>6. starts' <= 1 => StartedOnce'
  BY <1>1 DEF LifecycleInv, StartedOnce
<1>. QED
  BY <1>4, <1>5, <1>6

(* Every step of the bus keeps the invariant. *)
LEMMA LifecycleInvStep ==
    ASSUME LifecycleInv, [LifecycleNext]_allVars
    PROVE  LifecycleInv'
<1>0. TransportInv'
  <2>1. [TransportNext]_transportVars
    BY LifecycleStepIsTransportStep DEF allVars
  <2>. QED
    BY <2>1, TransportInvStep DEF LifecycleInv
<1>0a. /\ MaxStarts \in Nat
       /\ Len(HandledEndpoints) \in Nat
       /\ DOMAIN HandledEndpoints = 1 .. Len(HandledEndpoints)
       /\ \A c \in Callers : position[c] \in 0 .. Len(HandledEndpoints)
  BY LifecycleAssumption, LenProperties DEF LifecycleInv, LifecycleTypeOK
<1>1. ASSUME UNCHANGED allVars PROVE LifecycleInv'
  <2>1. LifecycleTypeOK'
    BY <1>0, <1>1 DEF allVars, lifecycleVars, LifecycleInv, LifecycleTypeOK, TransportInv
  <2>. QED
    BY <1>0, <1>1, <2>1, SameSubscriptionsKeep
       DEF allVars, transportVars, lifecycleVars, LifecycleInv
<1>2. ASSUME NEW c \in Callers, BusStart(c) PROVE LifecycleInv'
  <2>0. /\ UNCHANGED <<subscriptions, busStarted, accepted, handled>>
        /\ ~ busStarted /\ starts < MaxStarts /\ starts' = starts + 1
        /\ at' = [at EXCEPT ![c] = "starting"]
        /\ position' = [position EXCEPT ![c] = 0]
    BY <1>2 DEF BusStart, Start
  <2>1. LifecycleTypeOK'
    BY <1>0, <1>0a, <2>0 DEF LifecycleInv, LifecycleTypeOK, TransportInv
  <2>2. StartingHasSubscribed'
    BY <2>0 DEF LifecycleInv, StartingHasSubscribed, LifecycleTypeOK
  <2>3. StartedMeansSubscribed'
    BY <2>0 DEF LifecycleInv, StartedMeansSubscribed
  <2>4. ASSUME starts' <= 1 PROVE StartedOnce'
    <3>1. starts = 0 /\ StartedOnce
      BY <2>0, <2>4 DEF LifecycleInv, LifecycleTypeOK
    <3>2. \A d \in Callers : at'[d] = "starting" => d = c
      BY <2>0, <3>1 DEF LifecycleInv, LifecycleTypeOK, StartedOnce
    <3>3. \A e \in Endpoints : subscriptions'[e] = << >>
      BY <2>0, <3>1 DEF StartedOnce
    <3>. QED
      BY <2>0, <3>1, <3>2, <3>3 DEF StartedOnce
  <2>. QED
    BY <1>0, <2>1, <2>2, <2>3, <2>4 DEF LifecycleInv
<1>3. ASSUME NEW c \in Callers, BusSubscribe(c) PROVE LifecycleInv'
  BY <1>3, BusSubscribeKeeps
<1>4. ASSUME NEW c \in Callers, BusIsStarted(c) PROVE LifecycleInv'
  <2>0. /\ UNCHANGED <<subscriptions, position, starts, accepted, handled>>
        /\ at[c] = "starting" /\ Remaining(c) = {}
        /\ busStarted' = TRUE
        /\ at' = [at EXCEPT ![c] = "out"]
    BY <1>4 DEF BusIsStarted, transportVars
  <2>1. LifecycleTypeOK'
    BY <1>0, <2>0 DEF LifecycleInv, LifecycleTypeOK, TransportInv
  <2>2. \A d \in Callers : at'[d] = "starting" => at[d] = "starting"
    BY <2>0 DEF LifecycleInv, LifecycleTypeOK
  <2>3. StartingHasSubscribed'
    BY <2>0, <2>2 DEF LifecycleInv, StartingHasSubscribed
  <2>4. ASSUME NEW k \in DOMAIN HandledEndpoints
        PROVE  subscriptions[HandledEndpoints[k]] # << >>
    <3>1. CASE k > position[c]
      <4>1. PICK j \in 1 .. position[c] : HandledEndpoints[j] = HandledEndpoints[k]
        BY <2>0, <3>1 DEF Remaining
      <4>. QED
        BY <2>0, <4>1 DEF LifecycleInv, StartingHasSubscribed
    <3>2. CASE ~ (k > position[c])
      <4>1. k \in 1 .. position[c]
        BY <1>0a, <3>2
      <4>. QED
        BY <2>0, <4>1 DEF LifecycleInv, StartingHasSubscribed
    <3>. QED
      BY <3>1, <3>2
  <2>5. StartedMeansSubscribed'
    BY <2>0, <2>4 DEF StartedMeansSubscribed, Handled
  <2>6. starts' <= 1 => StartedOnce'
    BY <2>0, <2>2 DEF LifecycleInv, StartedOnce
  <2>. QED
    BY <1>0, <2>1, <2>3, <2>5, <2>6 DEF LifecycleInv
<1>5. ASSUME NEW c \in Callers, BusIsStopped(c) \/ BusStop(c) PROVE LifecycleInv'
  <2>0. /\ UNCHANGED <<subscriptions, position, starts, handled>>
        /\ accepted' \subseteq accepted
        /\ busStarted' \in {busStarted, FALSE}
        /\ at' \in {[at EXCEPT ![c] = "out"], [at EXCEPT ![c] = "stopping"]}
    BY <1>5 DEF BusIsStopped, BusStop, Stop, transportVars
  <2>1. LifecycleTypeOK'
    BY <1>0, <2>0 DEF LifecycleInv, LifecycleTypeOK, TransportInv
  <2>2. \A d \in Callers : at'[d] = "starting" => at[d] = "starting"
    BY <2>0 DEF LifecycleInv, LifecycleTypeOK
  <2>3. StartingHasSubscribed' /\ StartedMeansSubscribed'
    <3>1. StartingHasSubscribed'
      BY <2>0, <2>2 DEF LifecycleInv, StartingHasSubscribed
    <3>2. busStarted' => busStarted
      BY <2>0
    <3>. QED
      BY <2>0, <3>1, <3>2 DEF LifecycleInv, StartedMeansSubscribed
  <2>4. starts' <= 1 => StartedOnce'
    BY <2>0, <2>2 DEF LifecycleInv, StartedOnce
  <2>. QED
    BY <1>0, <2>1, <2>3, <2>4 DEF LifecycleInv
<1>6. ASSUME BusPublish PROVE LifecycleInv'
  <2>0. /\ UNCHANGED <<subscriptions, busStarted, at, position, starts, handled>>
        /\ accepted' \subseteq accepted \cup unpublished
    BY <1>6 DEF BusPublish, Publish
  <2>1. LifecycleTypeOK'
    BY <1>0, <2>0 DEF LifecycleInv, LifecycleTypeOK, TransportInv, TransportTypeOK
  <2>. QED
    BY <1>0, <2>0, <2>1, SameSubscriptionsKeep DEF LifecycleInv
<1>7. ASSUME Callback PROVE LifecycleInv'
  <2>0. UNCHANGED lifecycleVars
    BY <1>7 DEF Callback
  <2>1. LifecycleTypeOK'
    BY <1>0, <2>0 DEF lifecycleVars, LifecycleInv, LifecycleTypeOK, TransportInv
  <2>2. \A e \in Endpoints : Len(subscriptions'[e]) = Len(subscriptions[e])
    BY <1>7, CallbackKeeps DEF Callback, LifecycleInv
  <2>. QED
    BY <1>0, <2>0, <2>1, <2>2, SameSubscriptionsKeep DEF lifecycleVars, LifecycleInv
<1>8. ASSUME NEW e \in Endpoints, NEW i \in 1 .. MaxSubscriptions, NEW m \in Messages,
             BusHandlerEnds(e, i, m)
      PROVE  LifecycleInv'
  <2>0. /\ UNCHANGED <<busStarted, at, position, starts, accepted>>
        /\ handled' = handled \cup {m}
        /\ i \in DOMAIN subscriptions[e] /\ HandlerEnds(e, i, m)
    BY <1>8 DEF BusHandlerEnds
  <2>1. LifecycleTypeOK'
    BY <1>0, <2>0 DEF LifecycleInv, LifecycleTypeOK, TransportInv
  <2>2. \A f \in Endpoints : Len(subscriptions'[f]) = Len(subscriptions[f])
    BY <2>0, HandlerEndsKeeps DEF LifecycleInv
  <2>. QED
    BY <1>0, <2>0, <2>1, <2>2, SameSubscriptionsKeep DEF LifecycleInv
<1>. QED
  BY <1>1, <1>2, <1>3, <1>4, <1>5, <1>6, <1>7, <1>8 DEF LifecycleNext, CallerStep

(* Whatever callers start and stop the bus, at the same time too, and whatever comes
   in meanwhile: the lifecycle's invariant holds. *)
THEOREM LifecycleInvariant == LifecycleSpec => []LifecycleInv
<1>1. LifecycleInit => LifecycleInv
  BY LifecycleInvInit
<1>2. LifecycleInv /\ [LifecycleNext]_allVars => LifecycleInv'
  BY LifecycleInvStep
<1>. QED
  BY <1>1, <1>2, PTL DEF LifecycleSpec

(* The variables of bus and transport keep their types: no semaphore ever counts
   below zero, and no loop runs past its end. *)
THEOREM LifecycleTypes == LifecycleSpec => []LifecycleTypeOK
<1>1. LifecycleInv => LifecycleTypeOK
  BY DEF LifecycleInv
<1>. QED
  BY <1>1, LifecycleInvariant, PTL

(* When the started flag is set, every message type a saga handles is subscribed, even
   if start and stop calls overlap: the loop passes over a type only when it has
   subscribed it, and stop takes no subscription away. *)
THEOREM StartedBusIsSubscribed == LifecycleSpec => []StartedMeansSubscribed
<1>1. LifecycleInv => StartedMeansSubscribed
  BY DEF LifecycleInv
<1>. QED
  BY <1>1, LifecycleInvariant, PTL

(* The handlers of an endpoint with one subscription at most are those of its one
   semaphore. *)
LEMMA OneSubscriptionIsLimited ==
    ASSUME TransportInv, NEW e \in Endpoints, Len(subscriptions[e]) <= 1
    PROVE  Cardinality(InProgress(e)) <= Concurrency[e]
<1>0. /\ Concurrency[e] \in Nat
      /\ subscriptions[e] \in Seq(Subscription)
      /\ DOMAIN subscriptions[e] = 1 .. Len(subscriptions[e])
      /\ Len(subscriptions[e]) \in Nat
  BY TransportAssumption, LenProperties DEF TransportInv, TransportTypeOK
<1>1. CASE Len(subscriptions[e]) = 0
  <2>1. InProgress(e) = {}
    BY <1>0, <1>1 DEF InProgress
  <2>. QED
    BY <1>0, <2>1, FS_EmptySet
<1>2. CASE Len(subscriptions[e]) = 1
  <2>. DEFINE running == subscriptions[e][1].running
              f == [h \in InProgress(e) |-> h[2]]
  <2>1. \A h \in InProgress(e) : h = <<1, h[2]>> /\ h[2] \in running
    BY <1>0, <1>2 DEF InProgress, Sub
  <2>2. f \in Injection(InProgress(e), running)
    <3>1. f \in [InProgress(e) -> running]
      BY <2>1
    <3>2. \A a, b \in DOMAIN f : f[a] = f[b] => a = b
      BY <2>1
    <3>. QED
      BY <3>1, <3>2 DEF Injection, IsInjective
  <2>3. /\ IsFiniteSet(running)
        /\ subscriptions[e][1].permits \in Nat
        /\ subscriptions[e][1].permits + Cardinality(running) = Concurrency[e]
    BY <1>0, <1>2 DEF TransportInv, AllSound, Sound, Subscription
  <2>. HIDE DEF f, running
  <2>4. IsFiniteSet(InProgress(e)) /\ Cardinality(InProgress(e)) <= Cardinality(running)
    BY <2>2, <2>3, FS_Injection
  <2>5. Cardinality(InProgress(e)) \in Nat /\ Cardinality(running) \in Nat
    BY <2>3, <2>4, FS_CardinalityType
  <2>. QED
    BY <1>0, <2>3, <2>4, <2>5
<1>3. Len(subscriptions[e]) = 0 \/ Len(subscriptions[e]) = 1
  <2>1. PICK n \in Nat : n = Len(subscriptions[e])
    BY <1>0
  <2>2. n <= 1
    BY <2>1
  <2>3. n = 0 \/ n = 1
    BY <2>2
  <2>. QED
    BY <2>1, <2>3
<1>. QED
  BY <1>1, <1>2, <1>3

(* A bus started once, by one caller, runs no more handlers of an endpoint at a time
   than the concurrency it asked for. *)
THEOREM StartedOnceStaysLimited == LifecycleSpec => []StartedOnceIsLimited
<1>1. LifecycleInv => StartedOnceIsLimited
  BY OneSubscriptionIsLimited
     DEF LifecycleInv, StartedOnce, StartedOnceIsLimited, ConcurrencyLimited
<1>. QED
  BY <1>1, LifecycleInvariant, PTL

=============================================================================
