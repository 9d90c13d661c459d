----------------------------- MODULE Subscription -----------------------------
(***************************************************************************)
(* Paying for access: createSubscription and cancelSubscription of         *)
(* src/api/subscription/service.ts and the Stripe webhook of               *)
(* src/api/subscription/webhook.ts, around a Stripe that charges, changes   *)
(* its mind and reports it.                                                *)
(*                                                                         *)
(* A Stripe subscription is named by the call that created it.  Events are *)
(* delivered at least once, in any order and to any number of handlers at  *)
(* a time; a handler may fail after it has recorded its event.  A call of   *)
(* createSubscription or cancelSubscription may stop anywhere.              *)
(***************************************************************************)
EXTENDS Naturals, FiniteSets

CONSTANTS
  Users,
  Purchases,   \* calls of createSubscription
  Cancels,     \* calls of cancelSubscription
  UserOf,      \* whose call it is
  WithPromo,   \* the purchases that name the one promo code
  MaxUses,     \* its maxUses
  Deliveries,  \* webhook requests in progress at a time
  MaxEvents    \* bound on the events that Stripe emits

ASSUME SubscriptionAssumption ==
  /\ UserOf \in [Purchases \cup Cancels -> Users]
  /\ WithPromo \subseteq Purchases
  /\ MaxUses \in Nat /\ MaxEvents \in Nat

VARIABLES
  rows,        \* the table Subscription
  setups,      \* the users with a setup session in Redis (SETUP_KEY)
  usesCount,   \* of the promo code
  blind,       \* history: the purchases that read it with a use not yet counted
  purchase,    \* each call of createSubscription: its step or answer
  cancel,      \* each call of cancelSubscription: its step or answer
  stripe,      \* Stripe: the status of each subscription, or "none"
  ending,      \* Stripe: the subscriptions with cancel_at_period_end
  emitted,     \* Stripe: the events it has sent
  recorded,    \* the table StripeWebhookEvent
  delivery,    \* each webhook request: its step and its event
  handled      \* history: the events whose handling ran to its end

serviceVars == <<rows, setups, usesCount, blind, purchase, cancel>>
stripeVars == <<stripe, ending, emitted>>
webhookVars == <<recorded, delivery, handled>>
subscriptionVars == <<serviceVars, stripeVars, webhookVars>>

\* "paused" stands for every status that the code does not name.
StripeStatuses == {"trialing", "active", "past_due", "unpaid", "canceled",
                   "incomplete", "incomplete_expired", "paused"}
Statuses == {"TRIALLING", "ACTIVE", "PAST_DUE", "CANCELLED", "EXPIRED"}
ActiveStatuses == {"ACTIVE", "TRIALLING", "PAST_DUE"}
Ended == {"canceled", "incomplete_expired"}

\* Mutant: an unconfirmed first payment already gives access.
MapStatusTrusting(s) ==
  CASE s \in {"active", "incomplete"} -> "ACTIVE"
    [] s = "trialing" -> "TRIALLING"
    [] s \in {"past_due", "unpaid"} -> "PAST_DUE"
    [] s = "canceled" -> "CANCELLED"
    [] OTHER -> "EXPIRED"

\* mapStripeStatus and stripeStatusToLocal, which agree: what they do not name
\* has expired.
MapStatus(s) ==
  CASE s = "active" -> "ACTIVE"
    [] s = "trialing" -> "TRIALLING"
    [] s \in {"past_due", "unpaid", "incomplete"} -> "PAST_DUE"
    [] s = "canceled" -> "CANCELLED"
    [] OTHER -> "EXPIRED"

EventTypes == {"created", "updated", "deleted", "paid", "failed"}
Events == [sub: Purchases, n: 1 .. MaxEvents, type: EventTypes, status: StripeStatuses]
Rows == [user: Users, sub: Purchases, status: Statuses, cancelling: BOOLEAN]

PurchaseSteps == {"idle", "existing", "promo", "charge", "persist", "cleanup", "count",
                  "CREATED", "PAYMENT_METHOD_REQUIRED", "SUBSCRIPTION_ALREADY_ACTIVE",
                  "PROMO_CODE_EXHAUSTED", "REFUSED", "STRIPE_ERROR", "INTERNAL_ERROR"}
CancelSteps == {"idle", "stripe", "mark", "CANCELLING", "NOT_CANCELLABLE", "STRIPE_ERROR"}

TypeOK ==
  /\ rows \subseteq Rows
  /\ \A x, y \in rows : (x.user = y.user \/ x.sub = y.sub) => x = y
  /\ setups \subseteq Users
  /\ usesCount \in Nat /\ blind \subseteq Purchases
  /\ purchase \in [Purchases -> PurchaseSteps]
  /\ cancel \in [Cancels -> CancelSteps]
  /\ stripe \in [Purchases -> StripeStatuses \cup {"none"}]
  /\ ending \subseteq Purchases
  /\ emitted \subseteq Events
  /\ handled \subseteq recorded /\ recorded \subseteq emitted
  /\ \A d \in Deliveries : delivery[d].step = "handle" => delivery[d].event \in recorded

Init ==
  /\ rows = {} /\ setups = {} /\ usesCount = 0 /\ blind = {}
  /\ purchase = [p \in Purchases |-> "idle"]
  /\ cancel = [c \in Cancels |-> "idle"]
  /\ stripe = [p \in Purchases |-> "none"]
  /\ ending = {} /\ emitted = {}
  /\ recorded = {} /\ handled = {}
  /\ delivery = [d \in Deliveries |-> [step |-> "idle"]]

RowOf(u) == {x \in rows : x.user = u}
UserActive(u) == \E x \in RowOf(u) : x.status \in ActiveStatuses

-----------------------------------------------------------------------------
(* Stripe, as the code meets it.                                            *)

Emit(p, type, st) ==
  /\ Cardinality(emitted) < MaxEvents
  /\ emitted' = emitted \cup
       {[sub |-> p, n |-> Cardinality(emitted) + 1, type |-> type, status |-> st]}

Moves ==
  [incomplete |-> {"active", "incomplete_expired"},
   trialing |-> {"active", "past_due", "paused"}, paused |-> {"active"},
   active |-> {"past_due"}, past_due |-> {"active", "unpaid"}, unpaid |-> {"active"},
   canceled |-> {}, incomplete_expired |-> {}]

StripeMoves(p) ==
  /\ stripe[p] # "none"
  /\ \E st \in Moves[stripe[p]] :
       /\ stripe' = [stripe EXCEPT ![p] = st]
       /\ Emit(p, "updated", st)
  /\ UNCHANGED <<ending, serviceVars, webhookVars>>

\* At the end of a cancelled period, after failed payments, or by hand.
StripeEnds(p) ==
  /\ stripe[p] \notin Ended \cup {"none"}
  /\ stripe' = [stripe EXCEPT ![p] = "canceled"]
  /\ Emit(p, "deleted", "canceled")
  /\ UNCHANGED <<ending, serviceVars, webhookVars>>

\* An invoice is paid or not: a renewal, or an attempt that the status follows.
StripeInvoices(p) ==
  /\ stripe[p] \notin Ended \cup {"none"}
  /\ \/ stripe[p] = "active" /\ Emit(p, "paid", "active")
     \/ Emit(p, "failed", stripe[p])
  /\ UNCHANGED <<stripe, ending, serviceVars, webhookVars>>

-----------------------------------------------------------------------------
(* createSetupIntent and createSubscription                                *)

CreateSetupIntent(u) ==
  /\ u \notin setups
  /\ setups' = setups \cup {u}
  /\ UNCHANGED <<rows, usesCount, blind, purchase, cancel, stripeVars, webhookVars>>

\* SETUP_TTL runs out.
SetupExpires(u) ==
  /\ u \in setups
  /\ setups' = setups \ {u}
  /\ UNCHANGED <<rows, usesCount, blind, purchase, cancel, stripeVars, webhookVars>>

Goto(p, s) == purchase' = [purchase EXCEPT ![p] = s]

ReadSetup(p) ==
  /\ purchase[p] = "idle"
  /\ IF UserOf[p] \in setups THEN Goto(p, "existing") ELSE Goto(p, "PAYMENT_METHOD_REQUIRED")
  /\ UNCHANGED <<rows, setups, usesCount, blind, cancel, stripeVars, webhookVars>>

\* Guard: no existing active subscription; then the plan, which may be inactive.
CheckExisting(p) ==
  /\ purchase[p] = "existing"
  /\ IF UserActive(UserOf[p])
       THEN Goto(p, "SUBSCRIPTION_ALREADY_ACTIVE")
       ELSE Goto(p, IF p \in WithPromo THEN "promo" ELSE "charge") \/ Goto(p, "REFUSED")
  /\ UNCHANGED <<rows, setups, usesCount, blind, cancel, stripeVars, webhookVars>>

\* The purchases with the code that have passed its check and may still use it.
Uncounted ==
  {p \in WithPromo : purchase[p] \in {"charge", "persist", "cleanup", "count"}}

CheckPromo(p) ==
  /\ purchase[p] = "promo"
  /\ \/ Goto(p, "REFUSED") /\ UNCHANGED blind
     \/ usesCount >= MaxUses /\ Goto(p, "PROMO_CODE_EXHAUSTED") /\ UNCHANGED blind
     \/ /\ usesCount < MaxUses
        /\ Goto(p, "charge")
        /\ blind' = IF Uncounted = {} THEN blind ELSE blind \cup {p}
  /\ UNCHANGED <<rows, setups, usesCount, cancel, stripeVars, webhookVars>>

\* paymentMethods.attach and subscriptions.create: refused, or done; a done one
\* may still end in STRIPE_ERROR (its answer is lost, or has no item).
Charge(p) ==
  /\ purchase[p] = "charge"
  /\ \/ Goto(p, "STRIPE_ERROR") /\ UNCHANGED <<stripe, emitted>>
     \/ \E st \in {"active", "trialing", "incomplete"} :
          /\ Goto(p, "persist") \/ Goto(p, "STRIPE_ERROR")
          /\ stripe' = [stripe EXCEPT ![p] = st]
          /\ Emit(p, "created", st)
  /\ UNCHANGED <<rows, setups, usesCount, blind, cancel, ending, webhookVars>>

\* Stripe's answer to Charge: the status it carried is that of the created event.
Answered(p) == (CHOOSE e \in emitted : e.sub = p /\ e.type = "created").status

\* Mutant: an upsert keyed by the Stripe subscription, without the unique userId.
PersistBySub(p) ==
  /\ purchase[p] = "persist"
  /\ rows' = rows \cup {[user |-> UserOf[p], sub |-> p, cancelling |-> FALSE,
                         status |-> MapStatus(Answered(p))]}
  /\ Goto(p, "cleanup")
  /\ UNCHANGED <<setups, usesCount, blind, cancel, stripeVars, webhookVars>>

\* subscription.create: userId is unique, a user with any row gets P2002.
Persist(p) ==
  /\ purchase[p] = "persist"
  /\ IF RowOf(UserOf[p]) # {}
       THEN Goto(p, "INTERNAL_ERROR") /\ UNCHANGED rows
       ELSE /\ rows' = rows \cup {[user |-> UserOf[p], sub |-> p, cancelling |-> FALSE,
                                   status |-> MapStatus(Answered(p))]}
            /\ Goto(p, "cleanup")
  /\ UNCHANGED <<setups, usesCount, blind, cancel, stripeVars, webhookVars>>

\* Mutant: the use of the promo code is not counted.
CleanupUncounted(p) ==
  /\ purchase[p] = "cleanup"
  /\ setups' = setups \ {UserOf[p]}
  /\ Goto(p, "CREATED")
  /\ UNCHANGED <<rows, usesCount, blind, cancel, stripeVars, webhookVars>>

\* The setup session is used up.
Cleanup(p) ==
  /\ purchase[p] = "cleanup"
  /\ setups' = setups \ {UserOf[p]}
  /\ Goto(p, IF p \in WithPromo THEN "count" ELSE "CREATED")
  /\ UNCHANGED <<rows, usesCount, blind, cancel, stripeVars, webhookVars>>

\* usesCount: { increment: 1 }
CountPromo(p) ==
  /\ purchase[p] = "count"
  /\ usesCount' = usesCount + 1
  /\ Goto(p, "CREATED")
  /\ UNCHANGED <<rows, setups, blind, cancel, stripeVars, webhookVars>>

\* The call ends in an error, or with its process, once Stripe has answered.
Stop(p) ==
  /\ purchase[p] \in {"persist", "cleanup", "count"}
  /\ Goto(p, "INTERNAL_ERROR")
  /\ UNCHANGED <<rows, setups, usesCount, blind, cancel, stripeVars, webhookVars>>

-----------------------------------------------------------------------------
(* cancelSubscription                                                       *)

CancelGoes(c, s) == cancel' = [cancel EXCEPT ![c] = s]

ReadRow(c) ==
  /\ cancel[c] = "idle"
  /\ IF UserActive(UserOf[c]) THEN CancelGoes(c, "stripe") ELSE CancelGoes(c, "NOT_CANCELLABLE")
  /\ UNCHANGED <<rows, setups, usesCount, blind, purchase, stripeVars, webhookVars>>

\* Mutant: a failed call to Stripe is only logged.
TellStripeAnyway(c) ==
  /\ cancel[c] = "stripe"
  /\ CancelGoes(c, "mark")
  /\ UNCHANGED <<rows, setups, usesCount, blind, purchase, stripeVars, webhookVars>>

\* subscriptions.update({ cancel_at_period_end: true }): refused, lost, or done.
TellStripe(c) ==
  /\ cancel[c] = "stripe"
  /\ \E x \in RowOf(UserOf[c]) :
       \/ CancelGoes(c, "STRIPE_ERROR") /\ UNCHANGED ending
       \/ /\ stripe[x.sub] \notin Ended
          /\ CancelGoes(c, "mark") \/ CancelGoes(c, "STRIPE_ERROR")
          /\ ending' = ending \cup {x.sub}
  /\ UNCHANGED <<rows, setups, usesCount, blind, purchase, stripe, emitted, webhookVars>>

MarkRow(c) ==
  /\ cancel[c] = "mark"
  /\ rows' = {IF x.user = UserOf[c] THEN [x EXCEPT !.cancelling = TRUE] ELSE x : x \in rows}
  /\ CancelGoes(c, "CANCELLING")
  /\ UNCHANGED <<setups, usesCount, blind, purchase, stripeVars, webhookVars>>

-----------------------------------------------------------------------------
(* The webhook                                                              *)

\* Mutant: an event is looked up among those already handled.
ReceiveUnrecorded(d) ==
  /\ delivery[d].step = "idle"
  /\ \E e \in emitted :
       /\ e \notin handled
       /\ delivery' = [delivery EXCEPT ![d] = [step |-> "handle", event |-> e]]
       /\ recorded' = recorded \cup {e}
  /\ UNCHANGED <<serviceVars, stripeVars, handled>>

\* Any event, any number of times: a recorded one is acknowledged at once.
Receive(d) ==
  /\ delivery[d].step = "idle"
  /\ \E e \in emitted :
       \/ /\ e \in recorded
          /\ UNCHANGED <<delivery, recorded>>
       \/ /\ e \notin recorded
          /\ recorded' = recorded \cup {e}
          /\ delivery' = [delivery EXCEPT ![d] = [step |-> "handle", event |-> e]]
  /\ UNCHANGED <<serviceVars, stripeVars, handled>>

\* What each type of event says of the status of its subscription's row; the
\* others leave it alone.
Statement(e) ==
  CASE e.type = "updated" -> MapStatus(e.status)
    [] e.type = "deleted" -> "CANCELLED"
    [] e.type = "failed" -> "PAST_DUE"

AfterEvent(x, e) ==
  IF e.sub = x.sub /\ e.type \in {"updated", "deleted", "failed"}
    THEN [x EXCEPT !.status = Statement(e)] ELSE x

\* The switch: find the row, write what the event says of it, answer 200.  The
\* read needs no step of its own: rows are never deleted and nothing read is
\* written back.  A "paid" event resets the voucher cycle, see Renewal.
Handle(d) ==
  LET e == delivery[d].event IN
  /\ delivery[d].step = "handle"
  /\ rows' = {AfterEvent(x, e) : x \in rows}
  /\ handled' = handled \cup {e}
  /\ delivery' = [delivery EXCEPT ![d] = [step |-> "idle"]]
  /\ UNCHANGED <<setups, usesCount, blind, purchase, cancel, stripeVars, recorded>>

\* The process dies, or the database fails: Stripe is not answered.
Fail(d) ==
  /\ delivery[d].step = "handle"
  /\ delivery' = [delivery EXCEPT ![d] = [step |-> "idle"]]
  /\ UNCHANGED <<serviceVars, stripeVars, recorded, handled>>

CreateSubscription(p) ==
  \/ ReadSetup(p) \/ CheckExisting(p) \/ CheckPromo(p) \/ Charge(p)
  \/ Persist(p) \/ Cleanup(p) \/ CountPromo(p) \/ Stop(p)

CancelSubscription(c) == ReadRow(c) \/ TellStripe(c) \/ MarkRow(c)

Webhook(d) == Receive(d) \/ Handle(d) \/ Fail(d)

Stripe(p) == StripeMoves(p) \/ StripeEnds(p) \/ StripeInvoices(p)

Next ==
  \/ \E u \in Users : CreateSetupIntent(u) \/ SetupExpires(u)
  \/ \E p \in Purchases : CreateSubscription(p) \/ Stripe(p)
  \/ \E c \in Cancels : CancelSubscription(c)
  \/ \E d \in Deliveries : Webhook(d)

Spec == Init /\ [][Next]_subscriptionVars

-----------------------------------------------------------------------------
(* Properties.                                                              *)

\* However often and concurrently an event is delivered, at most one handler is
\* at work on it, and none is once it has been handled (the stripeEventId guard).
HandledOnce ==
  \A d \in Deliveries : delivery[d].step = "handle" =>
    /\ delivery[d].event \notin handled
    /\ \A d2 \in Deliveries \ {d} :
         delivery[d2].step = "handle" => delivery[d2].event # delivery[d].event

\* A row's status is never invented: Stripe gave it to that subscription at some
\* time, or a payment of it failed.  In particular vouchers are never redeemable
\* on a first payment that was not confirmed, and access ends only when Stripe
\* says so, not when the user asks to cancel.  A row is EXPIRED for any status
\* that mapStripeStatus does not name: Stripe may only have paused it.
Told(s) == {e.status : e \in {f \in emitted : f.sub = s}}

StatusWasReported ==
  \A x \in rows :
    /\ x.status = "ACTIVE" => "active" \in Told(x.sub)
    /\ x.status = "TRIALLING" => "trialing" \in Told(x.sub)
    /\ x.status = "CANCELLED" => "canceled" \in Told(x.sub)
    /\ x.status = "EXPIRED" => {"incomplete_expired", "paused"} \cap Told(x.sub) # {}
    /\ x.status = "PAST_DUE" =>
         \/ {"past_due", "unpaid", "incomplete"} \cap Told(x.sub) # {}
         \/ \E e \in emitted : e.sub = x.sub /\ e.type = "failed"

\* A row shown as cancelling really ends at Stripe: nobody is told so while the
\* subscription goes on being charged.
CancellingReachedStripe ==
  \A x \in rows : x.cancelling => x.sub \in ending

\* More subscriptions are bought with the promo code than its maxUses only by
\* purchases that read its count while another was between its own check and its
\* increment, and by those whose use was never counted, because they stopped after
\* their row was written.  A use is counted once: the limit never refuses early.
Lost ==
  {p \in WithPromo : purchase[p] = "INTERNAL_ERROR" /\ \E x \in rows : x.sub = p}

PromoLimit ==
  LET sold == Cardinality({x \in rows : x.sub \in WithPromo}) IN
  /\ sold <= MaxUses + Cardinality(blind) + Cardinality(Lost)
  /\ usesCount + Cardinality(Lost) <= sold

\* "If it already exists, this event was already processed" (webhook.ts): an event
\* with a record, whose redelivery is only acknowledged, has been handled or is
\* being handled.
RecordedIsProcessed ==
  \A e \in recorded :
    e \in handled \/ \E d \in Deliveries : /\ delivery[d].step = "handle"
                                          /\ delivery[d].event = e
=============================================================================
