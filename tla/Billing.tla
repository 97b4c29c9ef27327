------------------------------ MODULE Billing ------------------------------
(***************************************************************************)
(* Payments and the Pro plan of one user: BillingService.createCheckout    *)
(* and handleProviderWebhook, and the expiry in UsersService.findById.     *)
(*                                                                         *)
(* A handler is one webhook request, a reader one profile request; both    *)
(* may run on any server.  They meet in PostgreSQL at READ COMMITTED: a    *)
(* statement sees what is committed, an UPDATE waits for the transaction   *)
(* that holds its row and tests its WHERE again on what that one left, and *)
(* the writes of a transaction appear together.  Rows of different users   *)
(* share nothing, so one user is enough.                                   *)
(***************************************************************************)
EXTENDS Naturals

CONSTANTS
  Payments,   \* checkouts the user ever starts
  MoMo,       \* those at MoMo, the others are at ZaloPay
  Handlers,   \* webhook requests that may be under way at once
  Readers,    \* profile requests that may be under way at once
  Nobody,     \* no holder of a row lock
  Days,       \* Days[p]: durationDays of the plan of payment p, in clock units
  MaxFaults,  \* bound: transactions that fail
  MaxClock    \* bound: clock units that pass

ASSUME BillingAssumption ==
  /\ Payments # {} /\ MoMo \subseteq Payments
  /\ Days \in [Payments -> Nat \ {0}]
  /\ Nobody \notin Handlers \cup Readers
  /\ MaxFaults \in Nat /\ MaxClock \in Nat

VARIABLES
  status,    \* status[p] of the payment row, "none" before it exists
  ready,     \* payments whose checkout was answered: the provider's order id is stored
  sent,      \* sent[p]: the notifications the provider sends, and sends again
  paidSince, \* paidSince[p]: when the customer paid
  sub,       \* the billingSubscription row, "none" before it exists
  user,      \* plan and planExpiresAt of the user row
  pc,        \* pc[h]: the statement webhook h is at
  hook,      \* hook[h]: its payment and paidAt
  base,      \* base[h]: expiresAt of the subscription as h has read it
  reader,    \* reader[r]: where findById is
  claimer,   \* claimer[p]: the handler that holds the row of payment p
  extender,  \* the handler that holds the subscription row
  expirer,   \* the reader that holds the user row
  now,       \* the clock
  faults,    \* transactions that failed
  credits,   \* history: credits[p]: committed activations of payment p
  outdated,  \* history: handlers whose base was overtaken by another activation
  raced      \* history: an activation was committed while a reader acted on its read

paymentVars == <<status, ready, sent, paidSince>>
lockVars == <<claimer, extender, expirer>>
handlerVars == <<pc, hook, base>>
history == <<credits, outdated, raced>>
vars == <<paymentVars, sub, user, handlerVars, reader, lockVars, now, faults, history>>

Later(a, b) == IF a > b THEN a ELSE b
NoHook == [pay |-> CHOOSE p \in Payments : TRUE, at |-> 0]

\* What the rows, the locks and the requests may hold (BillingService).
TypeOK ==
  /\ status \in [Payments -> {"none", "pending", "failed", "paid"}]
  /\ ready \subseteq Payments
  /\ sent \in [Payments -> SUBSET {"paid", "failed"}]
  /\ paidSince \in [Payments -> Nat]
  /\ sub \in [status : {"none", "active", "expired"}, expires : Nat]
  /\ user \in [plan : {"free", "pro"}, expires : Nat]
  /\ pc \in [Handlers -> {"idle", "marking", "claiming", "reading", "upserting", "updating"}]
  /\ hook \in [Handlers -> [pay : Payments, at : Nat]]
  /\ base \in [Handlers -> Nat]
  /\ reader \in [Readers -> {"idle", "stale", "expiring"}]
  /\ claimer \in [Payments -> Handlers \cup {Nobody}]
  /\ extender \in Handlers \cup {Nobody}
  /\ expirer \in Readers \cup {Nobody}
  /\ now \in Nat /\ faults \in Nat
  /\ credits \in [Payments -> Nat]
  /\ outdated \subseteq Handlers
  /\ raced \in BOOLEAN

Init ==
  /\ status = [p \in Payments |-> "none"]
  /\ ready = {}
  /\ sent = [p \in Payments |-> {}]
  /\ paidSince = [p \in Payments |-> 0]
  /\ sub = [status |-> "none", expires |-> 0]
  /\ user = [plan |-> "free", expires |-> 0]
  /\ pc = [h \in Handlers |-> "idle"]
  /\ hook = [h \in Handlers |-> NoHook]
  /\ base = [h \in Handlers |-> 0]
  /\ reader = [r \in Readers |-> "idle"]
  /\ claimer = [p \in Payments |-> Nobody]
  /\ extender = Nobody /\ expirer = Nobody
  /\ now = 1 /\ faults = 0
  /\ credits = [p \in Payments |-> 0]
  /\ outdated = {} /\ raced = FALSE

-----------------------------------------------------------------------------
(* createCheckout, and what happens at the provider *)

others == <<sub, user, handlerVars, reader, lockVars, now, faults, history>>

\* The payment row is created, pending, before the provider is called.
CreatePayment(p) ==
  /\ status[p] = "none"
  /\ status' = [status EXCEPT ![p] = "pending"]
  /\ UNCHANGED <<ready, sent, paidSince, others>>

\* The provider accepts and its order id is stored: the customer gets the URL.  When
\* either fails the payment stays pending.
CheckoutReady(p) ==
  /\ status[p] # "none" /\ p \notin ready
  /\ ready' = ready \cup {p}
  /\ UNCHANGED <<status, sent, paidSince, others>>

\* The customer pays.
CustomerPays(p) ==
  /\ p \in ready /\ "paid" \notin sent[p]
  /\ sent' = [sent EXCEPT ![p] = @ \cup {"paid"}]
  /\ paidSince' = [paidSince EXCEPT ![p] = now]
  /\ UNCHANGED <<status, ready, others>>

\* An attempt fails, or the order expires.  ZaloPay only calls back on success.
PaymentFails(p) ==
  /\ p \in MoMo /\ status[p] # "none" /\ sent[p] = {}
  /\ sent' = [sent EXCEPT ![p] = {"failed"}]
  /\ UNCHANGED <<status, ready, paidSince, others>>

-----------------------------------------------------------------------------
(* handleProviderWebhook *)

\* A notification arrives, for the first time or again, is verified, and its payment is
\* found and not paid yet.  paidAt is the arrival at MoMo's adapter and the provider's
\* own time at ZaloPay's.  (A forged or unknown one, a wrong amount, an unknown plan or
\* a paid payment are answered at once, with nothing changed.)
Receive(h, p, s) ==
  /\ pc[h] = "idle"
  /\ s \in sent[p] /\ status[p] # "paid"
  /\ pc' = [pc EXCEPT ![h] = IF s = "paid" THEN "claiming" ELSE "marking"]
  /\ hook' = [hook EXCEPT ![h] = [pay |-> p,
                                  at |-> IF p \in MoMo THEN now ELSE paidSince[p]]]
  /\ UNCHANGED <<paymentVars, sub, user, base, reader, lockVars, now, faults, history>>

Answered(h) ==
  /\ pc' = [pc EXCEPT ![h] = "idle"]
  /\ hook' = [hook EXCEPT ![h] = NoHook]
  /\ base' = [base EXCEPT ![h] = 0]

\* Mutant: the update of a payment that is not paid does not test its status again.
MarkAnyway(h) ==
  LET p == hook[h].pay IN
  /\ pc[h] = "marking" /\ claimer[p] = Nobody
  /\ status' = [status EXCEPT ![p] = "failed"]
  /\ Answered(h)
  /\ UNCHANGED <<ready, sent, paidSince, sub, user, reader, lockVars, now, faults, history>>

\* The notification of a failure: the payment is marked unless it has been paid.
MarkFailed(h) ==
  LET p == hook[h].pay IN
  /\ pc[h] = "marking" /\ claimer[p] = Nobody
  /\ status' = [status EXCEPT ![p] = IF @ = "paid" THEN @ ELSE "failed"]
  /\ Answered(h)
  /\ UNCHANGED <<ready, sent, paidSince, sub, user, reader, lockVars, now, faults, history>>

\* Mutant: the status read before the transaction is trusted.
ClaimAnyway(h) ==
  LET p == hook[h].pay IN
  /\ pc[h] = "claiming" /\ claimer[p] = Nobody
  /\ claimer' = [claimer EXCEPT ![p] = h]
  /\ pc' = [pc EXCEPT ![h] = "reading"]
  /\ UNCHANGED <<paymentVars, sub, user, hook, base, reader, extender, expirer, now, faults,
                 history>>

\* The transaction claims the payment, or finds it paid by another webhook.
Claim(h) ==
  LET p == hook[h].pay IN
  /\ pc[h] = "claiming" /\ claimer[p] = Nobody
  /\ \/ /\ status[p] # "paid"
        /\ claimer' = [claimer EXCEPT ![p] = h]
        /\ pc' = [pc EXCEPT ![h] = "reading"]
        /\ UNCHANGED <<hook, base>>
     \/ /\ status[p] = "paid"
        /\ Answered(h)
        /\ UNCHANGED claimer
  /\ UNCHANGED <<paymentVars, sub, user, reader, extender, expirer, now, faults, history>>

\* It reads the subscription, which locks nothing.
ReadSubscription(h) ==
  /\ pc[h] = "reading"
  /\ base' = [base EXCEPT ![h] = sub.expires]
  /\ pc' = [pc EXCEPT ![h] = "upserting"]
  /\ UNCHANGED <<paymentVars, sub, user, hook, reader, lockVars, now, faults, history>>

\* It writes the subscription row, once nobody else holds it.
UpsertSubscription(h) ==
  /\ pc[h] = "upserting" /\ extender = Nobody
  /\ extender' = h
  /\ pc' = [pc EXCEPT ![h] = "updating"]
  /\ UNCHANGED <<paymentVars, sub, user, hook, base, reader, claimer, expirer, now, faults,
                 history>>

\* Mutant: the pass starts when it was paid, whatever is left of the one before.
NextExpiryFromPayment(h) == hook[h].at + Days[hook[h].pay]

\* nextExpiresAt: from the end of the current subscription, as h has read it, or from
\* the payment.
NextExpiry(h) == Later(base[h], hook[h].at) + Days[hook[h].pay]

\* It writes the user row, once no reader holds it, and commits.
Activate(h) ==
  LET p == hook[h].pay IN
  /\ pc[h] = "updating" /\ expirer = Nobody
  /\ status' = [status EXCEPT ![p] = "paid"]
  /\ sub' = [status |-> "active", expires |-> NextExpiry(h)]
  /\ user' = [plan |-> "pro", expires |-> NextExpiry(h)]
  /\ claimer' = [claimer EXCEPT ![p] = Nobody]
  /\ extender' = Nobody
  /\ Answered(h)
  /\ credits' = [credits EXCEPT ![p] = @ + 1]
  /\ outdated' = (outdated \ {h}) \cup {g \in Handlers \ {h} : pc[g] = "upserting"}
  /\ raced' = (raced \/ \E r \in Readers : reader[r] # "idle")
  /\ UNCHANGED <<ready, sent, paidSince, reader, expirer, now, faults>>

\* A webhook and a profile request wait for each other's row.
Deadlocked(h) ==
  /\ pc[h] = "updating" /\ expirer # Nobody
  /\ sub.status = "active" /\ sub.expires <= now

\* Mutant: the row of the payment stays locked.
AbortKeepsClaim(h) ==
  /\ pc[h] \in {"claiming", "reading", "upserting", "updating"}
  /\ \/ Deadlocked(h) /\ UNCHANGED faults
     \/ faults < MaxFaults /\ faults' = faults + 1
  /\ extender' = IF extender = h THEN Nobody ELSE extender
  /\ Answered(h)
  /\ outdated' = outdated \ {h}
  /\ UNCHANGED <<paymentVars, sub, user, reader, claimer, expirer, now, credits, raced>>

\* The transaction is rolled back: a statement or the commit fails, it times out, its
\* server dies, or PostgreSQL ends a deadlock with it.  The webhook gets no success.
Abort(h) ==
  /\ pc[h] \in {"claiming", "reading", "upserting", "updating"}
  /\ \/ Deadlocked(h) /\ UNCHANGED faults
     \/ faults < MaxFaults /\ faults' = faults + 1
  /\ claimer' = [p \in Payments |-> IF claimer[p] = h THEN Nobody ELSE claimer[p]]
  /\ extender' = IF extender = h THEN Nobody ELSE extender
  /\ Answered(h)
  /\ outdated' = outdated \ {h}
  /\ UNCHANGED <<paymentVars, sub, user, reader, expirer, now, credits, raced>>

-----------------------------------------------------------------------------
(* findById *)

readerFrame == <<paymentVars, handlerVars, claimer, extender, now, credits, outdated, raced>>

\* Mutant: the comparison with the clock is turned round.
FindFresh(r) ==
  /\ reader[r] = "idle"
  /\ user.plan = "pro" /\ user.expires >= now
  /\ reader' = [reader EXCEPT ![r] = "stale"]
  /\ UNCHANGED <<sub, user, expirer, faults, readerFrame>>

\* The user row is read, and its plan is over.  (Otherwise it is returned as it is.)
FindStale(r) ==
  /\ reader[r] = "idle"
  /\ user.plan = "pro" /\ user.expires <= now
  /\ reader' = [reader EXCEPT ![r] = "stale"]
  /\ UNCHANGED <<sub, user, expirer, faults, readerFrame>>

\* The transaction updates the user by id, whatever the row holds by now.
ExpireUser(r) ==
  /\ reader[r] = "stale" /\ expirer = Nobody
  /\ expirer' = r
  /\ reader' = [reader EXCEPT ![r] = "expiring"]
  /\ UNCHANGED <<sub, user, faults, readerFrame>>

\* Mutant: the subscription is expired by user id too.
ExpireAnySubscription(r) ==
  /\ reader[r] = "expiring" /\ extender = Nobody
  /\ user' = [user EXCEPT !.plan = "free"]
  /\ sub' = [sub EXCEPT !.status = IF @ = "active" THEN "expired" ELSE @]
  /\ expirer' = Nobody
  /\ reader' = [reader EXCEPT ![r] = "idle"]
  /\ UNCHANGED <<faults, readerFrame>>

\* It updates the subscription if that is active and over, which waits for a webhook
\* that holds it, and commits.
ExpireSubscription(r) ==
  /\ reader[r] = "expiring"
  /\ \/ /\ sub.status = "active" /\ sub.expires <= now
        /\ extender = Nobody
        /\ sub' = [sub EXCEPT !.status = "expired"]
     \/ /\ ~(sub.status = "active" /\ sub.expires <= now)
        /\ UNCHANGED sub
  /\ user' = [user EXCEPT !.plan = "free"]
  /\ expirer' = Nobody
  /\ reader' = [reader EXCEPT ![r] = "idle"]
  /\ UNCHANGED <<faults, readerFrame>>

\* The transaction of the profile request is rolled back.
AbortExpiry(r) ==
  /\ reader[r] # "idle"
  /\ \/ expirer = r /\ (\E h \in Handlers : Deadlocked(h)) /\ UNCHANGED faults
     \/ faults < MaxFaults /\ faults' = faults + 1
  /\ expirer' = IF expirer = r THEN Nobody ELSE expirer
  /\ reader' = [reader EXCEPT ![r] = "idle"]
  /\ UNCHANGED <<sub, user, readerFrame>>

Tick ==
  /\ now < MaxClock
  /\ now' = now + 1
  /\ UNCHANGED <<paymentVars, sub, user, handlerVars, reader, lockVars, faults, history>>

-----------------------------------------------------------------------------
(* Specification *)

Checkout == \E p \in Payments : CreatePayment(p) \/ CheckoutReady(p) \/ CustomerPays(p)
                                  \/ PaymentFails(p)

WebhookStep(h) == MarkFailed(h) \/ Claim(h) \/ ReadSubscription(h) \/ UpsertSubscription(h)
                    \/ Activate(h) \/ Abort(h)

ReaderStep(r) == ExpireUser(r) \/ ExpireSubscription(r) \/ AbortExpiry(r)

Next ==
  \/ Checkout
  \/ \E h \in Handlers, p \in Payments, s \in {"paid", "failed"} : Receive(h, p, s)
  \/ \E h \in Handlers : WebhookStep(h)
  \/ \E r \in Readers : FindStale(r) \/ ReaderStep(r)
  \/ Tick

Spec == Init /\ [][Next]_vars

\* Requests under way go on, PostgreSQL grants a row to its waiters in turn, and a
\* provider repeats the notification of a payment until it is answered with success.
\* (Strong fairness there, because the handlers of the model may be busy when it does.)
Fairness ==
  /\ \A h \in Handlers : /\ WF_vars(WebhookStep(h))
                         /\ SF_vars(Claim(h)) /\ SF_vars(UpsertSubscription(h))
                         /\ SF_vars(Activate(h))
  /\ \A r \in Readers : /\ WF_vars(ReaderStep(r))
                        /\ SF_vars(ExpireUser(r)) /\ SF_vars(ExpireSubscription(r))
  /\ \A p \in Payments : SF_vars(\E h \in Handlers : Receive(h, p, "paid"))

FairSpec == Spec /\ Fairness

-----------------------------------------------------------------------------
(* Properties *)

\* A payment is paid exactly if one activation of it was committed, however often and in
\* whatever order its notifications arrive, at however many servers, and whatever is
\* rolled back (handleProviderWebhook: "does not extend a subscription twice").
CreditedOnce == \A p \in Payments : credits[p] = IF status[p] = "paid" THEN 1 ELSE 0

\* A paid payment stays paid: a late notification of a failed attempt does not undo it.
PaidStays == [][\A p \in Payments : status[p] = "paid" => status'[p] = "paid"]_vars

\* An activation adds the days of its plan to what the user had left, unless another
\* payment was activated since it read the subscription.
ActivationExtends ==
  [][\A h \in Handlers : Activate(h) /\ h \notin outdated =>
        sub'.expires >= sub.expires + Days[hook[h].pay]]_vars

\* A subscription marked expired is over, also when a webhook renews it at the moment a
\* profile is loaded (findById tests expiresAt again in its update).
ExpiredIsOver == sub.status = "expired" => sub.expires <= now

\* Who has an active subscription has the Pro plan, unless an activation was committed
\* between the two reads and writes of a profile request.
ActiveIsPro == sub.status = "active" /\ sub.expires > now /\ ~raced => user.plan = "pro"

\* The plan of a customer follows the subscription: what is marked expired is over, and an
\* active one gives Pro, whichever webhook and profile request meet.
PlanFollowsSubscription == ExpiredIsOver /\ ActiveIsPro

\* What the customer has paid is activated in the end, whatever deadlocks and failures
\* roll back on the way.
PaymentActivates == \A p \in Payments : "paid" \in sent[p] ~> status[p] = "paid"

-----------------------------------------------------------------------------
(* The inductive invariant behind them *)

\* Row locks are held by whom the program counters say, one transaction per payment, and
\* a claimed payment is not paid.
LocksHeld ==
  /\ \A h \in Handlers : pc[h] \in {"reading", "upserting", "updating"} =>
                           claimer[hook[h].pay] = h
  /\ \A p \in Payments : claimer[p] # Nobody =>
       /\ claimer[p] \in Handlers
       /\ pc[claimer[p]] \in {"reading", "upserting", "updating"}
       /\ hook[claimer[p]].pay = p
       /\ status[p] # "paid"
  /\ \A h \in Handlers : pc[h] = "updating" <=> extender = h
  /\ \A r \in Readers : reader[r] = "expiring" <=> expirer = r

\* What a handler has read is still there, unless it was overtaken.
BaseCurrent ==
  \A h \in Handlers : pc[h] \in {"upserting", "updating"} /\ h \notin outdated =>
                        base[h] = sub.expires

\* The user row follows the subscription, and a reader that nobody overtook has read a
\* plan that is over.
UserFollows ==
  /\ user.expires = sub.expires
  /\ ~raced => \A r \in Readers : reader[r] # "idle" => sub.expires <= now

IInv == LocksHeld /\ BaseCurrent /\ UserFollows /\ CreditedOnce /\ ExpiredIsOver /\ ActiveIsPro
=============================================================================
