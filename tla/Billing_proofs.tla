--------------------------- MODULE Billing_proofs ---------------------------
(***************************************************************************)
(* Proofs about Billing: the inductive invariant and the safety properties *)
(* of the runs, for any number of payments, webhooks and readers.          *)
(***************************************************************************)
EXTENDS Billing, TLAPS

USE BillingAssumption

-----------------------------------------------------------------------------
(* Types *)

LEMMA NoHookTyped == NoHook \in [pay : Payments, at : Nat]
BY DEF NoHook

LEMMA AnsweredTyped ==
  ASSUME TypeOK, NEW h \in Handlers, Answered(h)
  PROVE  /\ pc' \in [Handlers -> {"idle", "marking", "claiming", "reading", "upserting",
                                  "updating"}]
         /\ hook' \in [Handlers -> [pay : Payments, at : Nat]]
         /\ base' \in [Handlers -> Nat]
BY NoHookTyped DEF Answered, TypeOK

LEMMA NextExpiryTyped ==
  ASSUME TypeOK, NEW h \in Handlers
  PROVE  /\ NextExpiry(h) \in Nat
         /\ NextExpiry(h) >= base[h] + Days[hook[h].pay]
<1>1. base[h] \in Nat /\ hook[h].at \in Nat /\ Days[hook[h].pay] \in Nat
  BY DEF TypeOK
<1> QED
  BY <1>1 DEF NextExpiry, Later

LEMMA WebhookTyped ==
  ASSUME TypeOK, NEW h \in Handlers, WebhookStep(h)
  PROVE  TypeOK'
<1> USE DEF TypeOK, paymentVars, lockVars, history
<1>1. CASE MarkFailed(h)
  BY <1>1, AnsweredTyped DEF MarkFailed
<1>2. CASE Claim(h)
  <2>1. CASE status[hook[h].pay] = "paid"
    BY <1>2, <2>1, AnsweredTyped DEF Claim
  <2>2. CASE status[hook[h].pay] # "paid"
    <3>1. /\ claimer' = [claimer EXCEPT ![hook[h].pay] = h]
          /\ pc' = [pc EXCEPT ![h] = "reading"]
          /\ UNCHANGED <<hook, base>>
      BY <1>2, <2>2 DEF Claim
    <3>2. /\ claimer' \in [Payments -> Handlers \cup {Nobody}]
          /\ pc' \in [Handlers -> {"idle", "marking", "claiming", "reading", "upserting",
                                   "updating"}]
      BY <3>1
    <3>3. UNCHANGED <<status, ready, sent, paidSince, sub, user, reader, extender, expirer,
                      now, faults, credits, outdated, raced>>
      BY <1>2 DEF Claim
    <3> QED
      BY <3>1, <3>2, <3>3
  <2> QED
    BY <2>1, <2>2
<1>3. CASE ReadSubscription(h)
  BY <1>3 DEF ReadSubscription
<1>4. CASE UpsertSubscription(h)
  BY <1>4 DEF UpsertSubscription
<1>5. CASE Activate(h)
  <2>1. raced' \in BOOLEAN
    BY <1>5 DEF Activate
  <2>2. /\ status' \in [Payments -> {"none", "pending", "failed", "paid"}]
        /\ sub' \in [status : {"none", "active", "expired"}, expires : Nat]
        /\ user' \in [plan : {"free", "pro"}, expires : Nat]
    BY <1>5, NextExpiryTyped DEF Activate
  <2>3. /\ claimer' \in [Payments -> Handlers \cup {Nobody}]
        /\ extender' \in Handlers \cup {Nobody}
        /\ outdated' \subseteq Handlers
    BY <1>5 DEF Activate
  <2>4. credits' \in [Payments -> Nat]
    BY <1>5 DEF Activate
  <2> QED
    BY <1>5, <2>1, <2>2, <2>3, <2>4, AnsweredTyped DEF Activate
<1>6. CASE Abort(h)
  BY <1>6, AnsweredTyped DEF Abort
<1> QED
  BY <1>1, <1>2, <1>3, <1>4, <1>5, <1>6 DEF WebhookStep

LEMMA NextTyped == TypeOK /\ [Next]_vars => TypeOK'
<1> SUFFICES ASSUME TypeOK, [Next]_vars
             PROVE  TypeOK'
  OBVIOUS
<1> USE DEF paymentVars, lockVars, handlerVars, history, others, readerFrame
<1>1. CASE Checkout
  BY <1>1 DEF Checkout, CreatePayment, CheckoutReady, CustomerPays, PaymentFails, TypeOK
<1>2. ASSUME NEW h \in Handlers, NEW p \in Payments, NEW s \in {"paid", "failed"},
             Receive(h, p, s)
      PROVE  TypeOK'
  BY <1>2 DEF Receive, TypeOK
<1>3. ASSUME NEW h \in Handlers, WebhookStep(h)
      PROVE  TypeOK'
  BY <1>3, WebhookTyped
<1>4. ASSUME NEW r \in Readers, FindStale(r) \/ ReaderStep(r)
      PROVE  TypeOK'
  BY <1>4 DEF FindStale, ReaderStep, ExpireUser, ExpireSubscription, AbortExpiry, TypeOK
<1>5. CASE Tick
  BY <1>5 DEF Tick, TypeOK
<1>6. CASE UNCHANGED vars
  BY <1>6 DEF vars, TypeOK
<1> QED
  BY <1>1, <1>2, <1>3, <1>4, <1>5, <1>6 DEF Next

LEMMA InitTyped == Init => TypeOK
<1> SUFFICES ASSUME Init
             PROVE  TypeOK
  OBVIOUS
<1>1. raced \in BOOLEAN
  BY DEF Init
<1>2. hook \in [Handlers -> [pay : Payments, at : Nat]]
  BY NoHookTyped DEF Init
<1> QED
  BY <1>1, <1>2 DEF Init, TypeOK

-----------------------------------------------------------------------------
(* The inductive invariant *)

LEMMA LocksKept == TypeOK /\ LocksHeld /\ [Next]_vars => LocksHeld'
<1> SUFFICES ASSUME TypeOK, LocksHeld, [Next]_vars
             PROVE  LocksHeld'
  OBVIOUS
<1> USE DEF TypeOK, LocksHeld, paymentVars, lockVars, handlerVars, history, others,
            readerFrame
<1>1. CASE Checkout
  BY <1>1 DEF Checkout, CreatePayment, CheckoutReady, CustomerPays, PaymentFails
<1>2. ASSUME NEW h \in Handlers, NEW p \in Payments, NEW s \in {"paid", "failed"},
             Receive(h, p, s)
      PROVE  LocksHeld'
  BY <1>2 DEF Receive
<1>3. ASSUME NEW h \in Handlers, WebhookStep(h)
      PROVE  LocksHeld'
  <2>1. CASE MarkFailed(h)
    BY <2>1 DEF MarkFailed, Answered
  <2>2. CASE Claim(h)
    <3>1. /\ UNCHANGED <<status, reader, extender, expirer>>
          /\ pc[h] = "claiming" /\ claimer[hook[h].pay] = Nobody
      BY <2>2 DEF Claim
    <3>2. CASE status[hook[h].pay] = "paid"
      <4>1. Answered(h) /\ UNCHANGED claimer
        BY <2>2, <3>2 DEF Claim
      <4> QED
        BY <3>1, <4>1 DEF Answered
    <3>3. CASE status[hook[h].pay] # "paid"
      <4>1. /\ claimer' = [claimer EXCEPT ![hook[h].pay] = h]
            /\ pc' = [pc EXCEPT ![h] = "reading"]
            /\ UNCHANGED hook
        BY <2>2, <3>3 DEF Claim
      <4> QED
        BY <3>1, <3>3, <4>1
    <3> QED
      BY <3>2, <3>3
  <2>3. CASE ReadSubscription(h)
    BY <2>3 DEF ReadSubscription
  <2>4. CASE UpsertSubscription(h)
    BY <2>4 DEF UpsertSubscription
  <2>5. CASE Activate(h)
    BY <2>5 DEF Activate, Answered
  <2>6. CASE Abort(h)
    BY <2>6 DEF Abort, Answered
  <2> QED
    BY <1>3, <2>1, <2>2, <2>3, <2>4, <2>5, <2>6 DEF WebhookStep
<1>4. ASSUME NEW r \in Readers, FindStale(r) \/ ReaderStep(r)
      PROVE  LocksHeld'
  BY <1>4 DEF FindStale, ReaderStep, ExpireUser, ExpireSubscription, AbortExpiry
<1>5. CASE Tick \/ UNCHANGED vars
  BY <1>5 DEF Tick, vars
<1> QED
  BY <1>1, <1>2, <1>3, <1>4, <1>5 DEF Next

LEMMA BaseKept == TypeOK /\ LocksHeld /\ BaseCurrent /\ [Next]_vars => BaseCurrent'
<1> SUFFICES ASSUME TypeOK, LocksHeld, BaseCurrent, [Next]_vars,
                    NEW g \in Handlers,
                    pc'[g] \in {"upserting", "updating"}, g \notin outdated'
             PROVE  base'[g] = sub'.expires
  BY DEF BaseCurrent
<1> USE DEF TypeOK, BaseCurrent, paymentVars, lockVars, handlerVars, history, others,
            readerFrame
<1>1. CASE Checkout \/ Tick \/ UNCHANGED vars
  BY <1>1 DEF Checkout, CreatePayment, CheckoutReady, CustomerPays, PaymentFails, Tick, vars
<1>2. ASSUME NEW h \in Handlers, NEW p \in Payments, NEW s \in {"paid", "failed"},
             Receive(h, p, s)
      PROVE  base'[g] = sub'.expires
  BY <1>2 DEF Receive
<1>3. ASSUME NEW h \in Handlers, WebhookStep(h), ~Activate(h)
      PROVE  base'[g] = sub'.expires
  BY <1>3 DEF WebhookStep, MarkFailed, Claim, ReadSubscription, UpsertSubscription, Abort,
     Answered
<1>4. ASSUME NEW h \in Handlers, Activate(h)
      PROVE  base'[g] = sub'.expires
  <2>1. g # h /\ pc[g] = "updating"
    BY <1>4 DEF Activate, Answered
  <2> QED
    BY <1>4, <2>1 DEF Activate, LocksHeld
<1>5. ASSUME NEW r \in Readers, FindStale(r) \/ ReaderStep(r)
      PROVE  base'[g] = sub'.expires
  BY <1>5 DEF FindStale, ReaderStep, ExpireUser, ExpireSubscription, AbortExpiry
<1> QED
  BY <1>1, <1>2, <1>3, <1>4, <1>5 DEF Next

LEMMA CreditsKept == TypeOK /\ LocksHeld /\ CreditedOnce /\ [Next]_vars => CreditedOnce'
<1> SUFFICES ASSUME TypeOK, LocksHeld, CreditedOnce, [Next]_vars
             PROVE  CreditedOnce'
  OBVIOUS
<1> USE DEF TypeOK, CreditedOnce, paymentVars, lockVars, handlerVars, history, others,
            readerFrame
<1>1. CASE Checkout \/ Tick \/ UNCHANGED vars
  BY <1>1 DEF Checkout, CreatePayment, CheckoutReady, CustomerPays, PaymentFails, Tick, vars
<1>2. ASSUME NEW h \in Handlers, NEW p \in Payments, NEW s \in {"paid", "failed"},
             Receive(h, p, s)
      PROVE  CreditedOnce'
  BY <1>2 DEF Receive
<1>3. ASSUME NEW h \in Handlers, WebhookStep(h), ~Activate(h)
      PROVE  CreditedOnce'
  BY <1>3 DEF WebhookStep, MarkFailed, Claim, ReadSubscription, UpsertSubscription, Abort
<1>4. ASSUME NEW h \in Handlers, Activate(h)
      PROVE  CreditedOnce'
  <2>1. status[hook[h].pay] # "paid"
    BY <1>4 DEF Activate, LocksHeld
  <2> QED
    BY <1>4, <2>1 DEF Activate
<1>5. ASSUME NEW r \in Readers, FindStale(r) \/ ReaderStep(r)
      PROVE  CreditedOnce'
  BY <1>5 DEF FindStale, ReaderStep, ExpireUser, ExpireSubscription, AbortExpiry
<1> QED
  BY <1>1, <1>2, <1>3, <1>4, <1>5 DEF Next

\* Only two actions write the subscription and the user.
LEMMA RowsFrame ==
  ASSUME [Next]_vars, \A h \in Handlers : ~Activate(h), \A r \in Readers : ~ExpireSubscription(r)
  PROVE  /\ UNCHANGED <<sub, user>>
         /\ raced' = raced
<1> USE DEF paymentVars, lockVars, handlerVars, history, others, readerFrame
<1>1. CASE Checkout \/ Tick \/ UNCHANGED vars
  BY <1>1 DEF Checkout, CreatePayment, CheckoutReady, CustomerPays, PaymentFails, Tick, vars
<1>2. ASSUME NEW h \in Handlers, NEW p \in Payments, NEW s \in {"paid", "failed"},
             Receive(h, p, s)
      PROVE  UNCHANGED <<sub, user, raced>>
  BY <1>2 DEF Receive
<1>3. ASSUME NEW h \in Handlers, WebhookStep(h)
      PROVE  UNCHANGED <<sub, user, raced>>
  BY <1>3 DEF WebhookStep, MarkFailed, Claim, ReadSubscription, UpsertSubscription, Abort
<1>4. ASSUME NEW r \in Readers, FindStale(r) \/ ReaderStep(r)
      PROVE  UNCHANGED <<sub, user, raced>>
  BY <1>4 DEF FindStale, ReaderStep, ExpireUser, AbortExpiry
<1> QED
  BY <1>1, <1>2, <1>3, <1>4 DEF Next

LEMMA ClockGrows == TypeOK /\ [Next]_vars => now' \in Nat /\ now <= now'
<1> SUFFICES ASSUME TypeOK, [Next]_vars
             PROVE  now' = now \/ now' = now + 1
  BY DEF TypeOK
<1> USE DEF paymentVars, lockVars, handlerVars, history, others, readerFrame
<1>1. CASE Checkout \/ Tick \/ UNCHANGED vars
  BY <1>1 DEF Checkout, CreatePayment, CheckoutReady, CustomerPays, PaymentFails, Tick, vars
<1>2. CASE ~(Checkout \/ Tick \/ UNCHANGED vars)
  BY <1>2 DEF Next, Receive, WebhookStep, MarkFailed, Claim, ReadSubscription,
     UpsertSubscription, Activate, Abort, FindStale, ReaderStep, ExpireUser,
     ExpireSubscription, AbortExpiry
<1> QED
  BY <1>1, <1>2

LEMMA ExpiredKept == TypeOK /\ ExpiredIsOver /\ [Next]_vars => ExpiredIsOver'
<1> SUFFICES ASSUME TypeOK, ExpiredIsOver, [Next]_vars
             PROVE  ExpiredIsOver'
  OBVIOUS
<1>1. now' \in Nat /\ now <= now' /\ TypeOK'
  BY ClockGrows, NextTyped
<1>2. ASSUME NEW h \in Handlers, Activate(h)
      PROVE  ExpiredIsOver'
  BY <1>2 DEF Activate, ExpiredIsOver
<1>3. ASSUME NEW r \in Readers, ExpireSubscription(r)
      PROVE  ExpiredIsOver'
  BY <1>1, <1>3 DEF ExpireSubscription, ExpiredIsOver, TypeOK, readerFrame
<1>4. CASE UNCHANGED sub
  BY <1>1, <1>4 DEF ExpiredIsOver, TypeOK
<1> QED
  BY <1>2, <1>3, <1>4, RowsFrame

LEMMA FollowsKept == TypeOK /\ UserFollows /\ [Next]_vars => UserFollows'
<1> SUFFICES ASSUME TypeOK, UserFollows, [Next]_vars
             PROVE  UserFollows'
  OBVIOUS
<1> USE DEF paymentVars, lockVars, handlerVars, history, others, readerFrame
<1>1. now' \in Nat /\ now <= now' /\ now \in Nat /\ sub.expires \in Nat
  BY ClockGrows DEF TypeOK
<1>2. ASSUME NEW h \in Handlers, Activate(h)
      PROVE  UserFollows'
  BY <1>2 DEF Activate, UserFollows
<1>3. ASSUME NEW r \in Readers, ExpireSubscription(r)
      PROVE  UserFollows'
  <2>1. sub'.expires = sub.expires /\ user'.expires = user.expires
    BY <1>3 DEF ExpireSubscription, TypeOK
  <2>2. \A s \in Readers : reader'[s] # "idle" => reader[s] # "idle"
    BY <1>3 DEF ExpireSubscription, TypeOK
  <2>3. raced' = raced /\ now' = now
    BY <1>3 DEF ExpireSubscription
  <2> QED
    BY <2>1, <2>2, <2>3 DEF UserFollows
<1>4. ASSUME NEW r \in Readers, FindStale(r) \/ ExpireUser(r) \/ AbortExpiry(r)
      PROVE  UserFollows'
  <2>1. UNCHANGED <<sub, user, now>> /\ raced' = raced
    BY <1>4 DEF FindStale, ExpireUser, AbortExpiry
  <2>2. \A s \in Readers : reader'[s] # "idle" => reader[s] # "idle" \/ sub.expires <= now
    BY <1>4 DEF FindStale, ExpireUser, AbortExpiry, TypeOK, UserFollows
  <2> QED
    BY <2>1, <2>2 DEF UserFollows
<1>5. CASE ~\E r \in Readers : FindStale(r) \/ ReaderStep(r)
  <2>1. CASE ~\E h \in Handlers : Activate(h)
    <3>1. UNCHANGED reader
      BY <1>5, <2>1 DEF Next, Checkout, CreatePayment, CheckoutReady, CustomerPays,
         PaymentFails, Receive, WebhookStep, MarkFailed, Claim, ReadSubscription,
         UpsertSubscription, Abort, Tick, vars
    <3>2. UNCHANGED <<sub, user>> /\ raced' = raced
      BY <1>5, <2>1, RowsFrame DEF ReaderStep
    <3> QED
      BY <1>1, <3>1, <3>2 DEF UserFollows
  <2> QED
    BY <1>2, <2>1
<1> QED
  BY <1>3, <1>4, <1>5 DEF ReaderStep

LEMMA ActiveKept == TypeOK /\ UserFollows /\ ActiveIsPro /\ [Next]_vars => ActiveIsPro'
<1> SUFFICES ASSUME TypeOK, UserFollows, ActiveIsPro, [Next]_vars
             PROVE  ActiveIsPro'
  OBVIOUS
<1>1. now' \in Nat /\ now <= now' /\ now \in Nat /\ sub.expires \in Nat
  BY ClockGrows DEF TypeOK
<1>2. ASSUME NEW h \in Handlers, Activate(h)
      PROVE  ActiveIsPro'
  BY <1>2 DEF Activate, ActiveIsPro
<1>3. ASSUME NEW r \in Readers, ExpireSubscription(r)
      PROVE  ActiveIsPro'
  <2>1. reader[r] # "idle" /\ sub'.expires = sub.expires /\ raced' = raced /\ now' = now
    BY <1>3 DEF ExpireSubscription, TypeOK, readerFrame
  <2>2. CASE raced
    BY <2>1, <2>2 DEF ActiveIsPro
  <2>3. CASE ~raced
    <3>1. sub.expires <= now
      BY <2>1, <2>3 DEF UserFollows
    <3> QED
      BY <1>1, <2>1, <3>1 DEF ActiveIsPro
  <2> QED
    BY <2>2, <2>3
<1>4. CASE UNCHANGED <<sub, user>> /\ raced' = raced
  <2>1. sub.expires > now' => sub.expires > now
    BY <1>1
  <2> QED
    BY <1>4, <2>1 DEF ActiveIsPro
<1> QED
  BY <1>2, <1>3, <1>4, RowsFrame

LEMMA InitIInv == Init => IInv
<1> SUFFICES ASSUME Init
             PROVE  IInv
  OBVIOUS
<1>1. LocksHeld /\ BaseCurrent
  BY DEF Init, LocksHeld, BaseCurrent
<1>2. UserFollows
  BY DEF Init, UserFollows
<1>3. CreditedOnce /\ ExpiredIsOver
  BY DEF Init, CreditedOnce, ExpiredIsOver
<1>4. ActiveIsPro
  BY DEF Init, ActiveIsPro
<1> QED
  BY <1>1, <1>2, <1>3, <1>4 DEF IInv

LEMMA Inductive == Spec => [](TypeOK /\ IInv)
<1>1. Init => TypeOK /\ IInv
  BY InitTyped, InitIInv
<1>2. TypeOK /\ IInv /\ [Next]_vars => TypeOK' /\ IInv'
  BY NextTyped, LocksKept, BaseKept, FollowsKept, CreditsKept, ExpiredKept, ActiveKept
  DEF IInv
<1> QED
  BY <1>1, <1>2, PTL DEF Spec

-----------------------------------------------------------------------------
(* The theorems *)

\* The rows, the locks and the requests under way have the values the model gives them.
THEOREM TypeCorrect == Spec => []TypeOK
BY Inductive, PTL

\* However many notifications of a payment are handled at once, on however many servers,
\* exactly one of them activates it, and only a committed one marks it paid.
THEOREM EachPaymentCreditedOnce == Spec => []CreditedOnce
<1>1. IInv => CreditedOnce
  BY DEF IInv
<1> QED
  BY <1>1, Inductive, PTL

\* A subscription that a profile request marked expired is over; a customer with an active
\* one loses the Pro plan only when an activation was committed while a profile request
\* acted on what it had read.
THEOREM PlanIsRight == Spec => []PlanFollowsSubscription
<1>1. IInv => PlanFollowsSubscription
  BY DEF IInv, PlanFollowsSubscription
<1> QED
  BY <1>1, Inductive, PTL

\* No notification undoes a payment that is paid.
THEOREM PaidForGood == Spec => PaidStays
<1>1. TypeOK /\ [Next]_vars => [\A p \in Payments : status[p] = "paid" => status'[p] = "paid"]_vars
  <2> SUFFICES ASSUME TypeOK, Next, NEW p \in Payments, status[p] = "paid"
               PROVE  status'[p] = "paid"
    OBVIOUS
  <2> USE DEF TypeOK, paymentVars, others, readerFrame
  <2>1. CASE Checkout \/ Tick
    BY <2>1 DEF Checkout, CreatePayment, CheckoutReady, CustomerPays, PaymentFails, Tick
  <2>2. CASE ~(Checkout \/ Tick)
    BY <2>2 DEF Next, Receive, WebhookStep, MarkFailed, Claim, ReadSubscription,
       UpsertSubscription, Activate, Abort, FindStale, ReaderStep, ExpireUser,
       ExpireSubscription, AbortExpiry
  <2> QED
    BY <2>1, <2>2
<1> QED
  BY <1>1, Inductive, PTL DEF Spec, PaidStays

\* The days of a payment are added to what is left, but for an activation whose reading of
\* the subscription another one overtook.
THEOREM ActivationsAddUp == Spec => ActivationExtends
<1>1. TypeOK /\ IInv /\ [Next]_vars =>
        [\A h \in Handlers : Activate(h) /\ h \notin outdated =>
           sub'.expires >= sub.expires + Days[hook[h].pay]]_vars
  <2> SUFFICES ASSUME TypeOK, IInv, NEW h \in Handlers, Activate(h), h \notin outdated
               PROVE  sub'.expires >= sub.expires + Days[hook[h].pay]
    OBVIOUS
  <2>1. base[h] = sub.expires /\ sub'.expires = NextExpiry(h)
    BY DEF IInv, BaseCurrent, Activate
  <2> QED
    BY <2>1, NextExpiryTyped
<1> QED
  BY <1>1, Inductive, PTL DEF Spec, ActivationExtends
=============================================================================
