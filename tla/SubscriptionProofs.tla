-------------------------- MODULE SubscriptionProofs --------------------------
(* What is proved of Subscription for every value of its constants.         *)
EXTENDS Subscription, FiniteSetTheorems, TLAPS

-----------------------------------------------------------------------------
(* The inductive invariant.                                                 *)

\* A request being handled holds an event that is recorded.
DeliveryType ==
  delivery \in [Deliveries -> [step: {"idle"}] \cup [step: {"handle"}, event: recorded]]

EventInv ==
  /\ IsFiniteSet(emitted)
  /\ \A e \in emitted : e.type = "deleted" => e.status = "canceled"

\* A purchase on its way to its row has been reported as created.
CreatedInv ==
  \A p \in Purchases : purchase[p] = "persist" =>
    \E e \in emitted : e.sub = p /\ e.type = "created"

\* A row exists only for a purchase that has written it.
Written == {"cleanup", "count", "CREATED", "INTERNAL_ERROR"}
WrittenInv == \A x \in rows : purchase[x.sub] \in Written

\* When a cancellation is about to mark the user's row, there is one, and Stripe
\* was told to end its subscription.
MarkInv ==
  \A c \in Cancels : cancel[c] = "mark" =>
    /\ RowOf(UserOf[c]) # {}
    /\ \A x \in RowOf(UserOf[c]) : x.sub \in ending

\* What Stripe has told of x is enough for its status.
Reported(x) ==
  /\ x.status = "ACTIVE" => "active" \in Told(x.sub)
  /\ x.status = "TRIALLING" => "trialing" \in Told(x.sub)
  /\ x.status = "CANCELLED" => "canceled" \in Told(x.sub)
  /\ x.status = "EXPIRED" => {"incomplete_expired", "paused"} \cap Told(x.sub) # {}
  /\ x.status = "PAST_DUE" =>
       \/ {"past_due", "unpaid", "incomplete"} \cap Told(x.sub) # {}
       \/ \E e \in emitted : e.sub = x.sub /\ e.type = "failed"

Inv ==
  /\ TypeOK /\ DeliveryType /\ EventInv /\ CreatedInv /\ WrittenInv /\ MarkInv
  /\ HandledOnce /\ StatusWasReported /\ CancellingReachedStripe

LEMMA ReportedIsStatus == StatusWasReported <=> \A x \in rows : Reported(x)
BY DEF StatusWasReported, Reported

-----------------------------------------------------------------------------
(* Lemmas on what the steps are made of.                                    *)

\* What stands behind each status that mapStripeStatus gives.
LEMMA MapStatusMeans ==
  ASSUME NEW st \in StripeStatuses
  PROVE  /\ MapStatus(st) \in Statuses
         /\ MapStatus(st) = "ACTIVE" => st = "active"
         /\ MapStatus(st) = "TRIALLING" => st = "trialing"
         /\ MapStatus(st) = "CANCELLED" => st = "canceled"
         /\ MapStatus(st) = "EXPIRED" => st \in {"incomplete_expired", "paused"}
         /\ MapStatus(st) = "PAST_DUE" => st \in {"past_due", "unpaid", "incomplete"}
BY DEF MapStatus, StripeStatuses, Statuses

\* Emitting an event keeps the events well formed.
LEMMA EmitKeeps ==
  ASSUME Inv, NEW p \in Purchases, NEW type \in EventTypes, NEW st \in StripeStatuses,
         type = "deleted" => st = "canceled", Emit(p, type, st)
  PROVE  /\ emitted \subseteq emitted' /\ emitted' \subseteq Events /\ EventInv'
         /\ \E e \in emitted' : e.sub = p /\ e.type = type
<1> DEFINE e == [sub |-> p, n |-> Cardinality(emitted) + 1, type |-> type, status |-> st]
<1>1. Cardinality(emitted) \in Nat /\ Cardinality(emitted) + 1 \in 1 .. MaxEvents
  BY FS_CardinalityType, SubscriptionAssumption DEF Inv, EventInv, Emit
<1>2. e \in Events
  BY <1>1 DEF Events
<1>3. emitted' = emitted \cup {e}
  BY DEF Emit
<1>4. IsFiniteSet(emitted')
  BY <1>3, FS_AddElement, ZenonT(40) DEF Inv, EventInv
<1> QED
  BY <1>2, <1>3, <1>4 DEF Inv, EventInv, TypeOK

\* What was told stays told.
LEMMA ToldGrows ==
  ASSUME emitted \subseteq emitted', NEW x, Reported(x)
  PROVE  Reported(x)'
<1>1. Told(x.sub) \subseteq Told(x.sub)'
  BY DEF Told
<1> QED
  BY <1>1 DEF Reported

\* Steps that leave the rows, and what handlers hold, alone.
LEMMA RowsUntouched ==
  ASSUME Inv, UNCHANGED <<rows, recorded, delivery, handled>>,
         emitted \subseteq emitted', ending \subseteq ending'
  PROVE  /\ DeliveryType' /\ HandledOnce' /\ StatusWasReported'
         /\ CancellingReachedStripe'
<1>1. StatusWasReported'
  BY ToldGrows, ReportedIsStatus DEF Inv, StatusWasReported, Reported, Told
<1> QED
  BY <1>1 DEF Inv, DeliveryType, HandledOnce, CancellingReachedStripe

\* A report about a subscription gives its row a status that was reported.
LEMMA AfterEventReported ==
  ASSUME Inv, NEW x \in rows, NEW e \in emitted
  PROVE  /\ AfterEvent(x, e) \in Rows
         /\ AfterEvent(x, e).user = x.user /\ AfterEvent(x, e).sub = x.sub
         /\ AfterEvent(x, e).cancelling = x.cancelling
         /\ Reported(AfterEvent(x, e))
<1>1. x \in Rows /\ Reported(x) /\ e \in Events
  BY ReportedIsStatus DEF Inv, TypeOK
<1>2. CASE ~(e.sub = x.sub /\ e.type \in {"updated", "deleted", "failed"})
  BY <1>1, <1>2 DEF AfterEvent
<1>3. CASE e.sub = x.sub /\ e.type \in {"updated", "deleted", "failed"}
  <2> DEFINE y == [x EXCEPT !.status = Statement(e)]
  <2>1. AfterEvent(x, e) = y
    BY <1>3 DEF AfterEvent
  <2>2. e.status \in StripeStatuses /\ e.status \in Told(x.sub)
    BY <1>1, <1>3 DEF Events, Told
  <2>3. CASE e.type = "updated"
    <3>1. Statement(e) = MapStatus(e.status)
      BY <2>3 DEF Statement
    <3> QED
      BY <1>1, <2>1, <2>2, <3>1, MapStatusMeans DEF Rows, Reported
  <2>4. CASE e.type = "deleted"
    <3>1. Statement(e) = "CANCELLED" /\ e.status = "canceled"
      BY <2>4 DEF Statement, Inv, EventInv
    <3> QED
      BY <1>1, <2>1, <2>2, <3>1 DEF Rows, Reported, Statuses
  <2>5. CASE e.type = "failed"
    <3>1. Statement(e) = "PAST_DUE"
      BY <2>5 DEF Statement
    <3> QED
      BY <1>1, <1>3, <2>1, <2>5, <3>1 DEF Rows, Reported, Statuses
  <2> QED
    BY <1>3, <2>3, <2>4, <2>5
<1> QED
  BY <1>2, <1>3

-----------------------------------------------------------------------------
(* Each step keeps the invariant.                                           *)

LEMMA StripeKeeps ==
  ASSUME Inv, NEW p \in Purchases, Stripe(p)
  PROVE  Inv'
<1>1. UNCHANGED <<serviceVars, webhookVars, ending>>
  BY DEF Stripe, StripeMoves, StripeEnds, StripeInvoices
<1>2. PICK type \in EventTypes, st \in StripeStatuses :
        /\ type = "deleted" => st = "canceled"
        /\ Emit(p, type, st)
        /\ stripe' = stripe \/ stripe' = [stripe EXCEPT ![p] = st]
  <2>1. CASE StripeMoves(p)
    <3>1. PICK st \in Moves[stripe[p]] :
            stripe' = [stripe EXCEPT ![p] = st] /\ Emit(p, "updated", st)
      BY <2>1 DEF StripeMoves
    <3>2. stripe[p] \in StripeStatuses
      BY <2>1 DEF StripeMoves, Inv, TypeOK
    <3>3. st \in StripeStatuses
      BY <3>2 DEF Moves, StripeStatuses
    <3> QED
      BY <3>1, <3>3 DEF EventTypes
  <2>2. CASE StripeEnds(p)
    BY <2>2 DEF StripeEnds, EventTypes, StripeStatuses
  <2>3. CASE StripeInvoices(p)
    <3>1. stripe[p] \in StripeStatuses
      BY <2>3 DEF StripeInvoices, Inv, TypeOK
    <3> QED
      BY <2>3, <3>1 DEF StripeInvoices, EventTypes, StripeStatuses
  <2> QED
    BY <2>1, <2>2, <2>3 DEF Stripe
<1>3. emitted \subseteq emitted' /\ emitted' \subseteq Events /\ EventInv'
  BY <1>2, EmitKeeps
<1>4. TypeOK'
  BY <1>1, <1>2, <1>3 DEF Inv, TypeOK, serviceVars, webhookVars
<1>5. CreatedInv' /\ WrittenInv' /\ MarkInv'
  BY <1>1, <1>3 DEF Inv, CreatedInv, WrittenInv, MarkInv, RowOf, serviceVars
<1>6. DeliveryType' /\ HandledOnce' /\ StatusWasReported' /\ CancellingReachedStripe'
  BY <1>1, <1>3, RowsUntouched DEF serviceVars, webhookVars
<1> QED
  BY <1>3, <1>4, <1>5, <1>6 DEF Inv

\* A call neither starts to persist nor unwrites its row.
CallMoves(s, t) == (t = "persist" => s = "persist") /\ (s \in Written => t \in Written)

\* The steps that only move a call along, or touch the setup sessions and the count.
LEMMA CallKeeps ==
  ASSUME Inv, UNCHANGED <<rows, stripeVars, webhookVars>>,
         setups' \subseteq Users, usesCount' \in Nat, blind' \subseteq Purchases,
         purchase' \in [Purchases -> PurchaseSteps],
         \A p \in Purchases : CallMoves(purchase[p], purchase'[p]),
         cancel' \in [Cancels -> CancelSteps],
         \A c \in Cancels : cancel'[c] = "mark" => cancel[c] = "mark"
  PROVE  Inv'
<1>1. TypeOK'
  BY DEF Inv, TypeOK, stripeVars, webhookVars
<1>2. EventInv' /\ CreatedInv' /\ MarkInv'
  BY DEF Inv, EventInv, CreatedInv, MarkInv, RowOf, stripeVars, CallMoves
<1>4. WrittenInv'
  BY DEF Inv, TypeOK, Rows, WrittenInv, CallMoves
<1>3. DeliveryType' /\ HandledOnce' /\ StatusWasReported' /\ CancellingReachedStripe'
  BY RowsUntouched DEF stripeVars, webhookVars
<1> QED
  BY <1>1, <1>2, <1>3, <1>4 DEF Inv

LEMMA QuietCallsKeep ==
  ASSUME Inv,
         \/ \E u \in Users : CreateSetupIntent(u) \/ SetupExpires(u)
         \/ \E p \in Purchases : \/ ReadSetup(p) \/ CheckExisting(p) \/ CheckPromo(p)
                                 \/ Cleanup(p) \/ CountPromo(p) \/ Stop(p)
         \/ \E c \in Cancels : ReadRow(c)
  PROVE  Inv'
<1> USE DEF Inv, TypeOK
<1>1. ASSUME NEW u \in Users, CreateSetupIntent(u) \/ SetupExpires(u) PROVE Inv'
  <2>1. setups' \subseteq Users /\ UNCHANGED <<rows, usesCount, blind, purchase,
                                               cancel, stripeVars, webhookVars>>
    BY <1>1 DEF CreateSetupIntent, SetupExpires
  <2> QED
    BY <2>1, CallKeeps DEF CallMoves
<1>2. ASSUME NEW p \in Purchases, NEW s \in PurchaseSteps, Goto(p, s),
             CallMoves(purchase[p], s)
      PROVE  /\ purchase' \in [Purchases -> PurchaseSteps]
             /\ \A q \in Purchases : CallMoves(purchase[q], purchase'[q])
  BY <1>2 DEF Goto, CallMoves
<1>3. ASSUME NEW p \in Purchases,
             \/ ReadSetup(p) \/ CheckExisting(p) \/ CheckPromo(p)
             \/ Cleanup(p) \/ CountPromo(p) \/ Stop(p)
      PROVE  Inv'
  <2>1. UNCHANGED <<rows, cancel, stripeVars, webhookVars>>
    BY <1>3 DEF ReadSetup, CheckExisting, CheckPromo, Cleanup, CountPromo, Stop
  <2>2. setups' \subseteq Users /\ usesCount' \in Nat
    BY <1>3 DEF ReadSetup, CheckExisting, CheckPromo, Cleanup, CountPromo, Stop
  <2>5. blind' \subseteq Purchases
    BY <1>3 DEF ReadSetup, CheckExisting, CheckPromo, Cleanup, CountPromo, Stop
  <2>3. \E s \in PurchaseSteps : Goto(p, s) /\ CallMoves(purchase[p], s)
    BY <1>3 DEF ReadSetup, CheckExisting, CheckPromo, Cleanup, CountPromo, Stop,
       PurchaseSteps, CallMoves, Written
  <2>4. /\ purchase' \in [Purchases -> PurchaseSteps]
        /\ \A q \in Purchases : CallMoves(purchase[q], purchase'[q])
    BY <1>2, <2>3
  <2> QED
    BY <2>1, <2>2, <2>4, <2>5, CallKeeps
<1>4. ASSUME NEW c \in Cancels, ReadRow(c) PROVE Inv'
  <2>1. UNCHANGED <<rows, setups, usesCount, blind, purchase, stripeVars, webhookVars>>
    BY <1>4 DEF ReadRow
  <2>2. /\ cancel' \in [Cancels -> CancelSteps]
        /\ \A b \in Cancels : cancel'[b] = "mark" => cancel[b] = "mark"
    BY <1>4 DEF ReadRow, CancelGoes, CancelSteps
  <2> QED
    BY <2>1, <2>2, CallKeeps DEF CallMoves
<1> QED
  BY <1>1, <1>3, <1>4

LEMMA ChargeKeeps ==
  ASSUME Inv, NEW p \in Purchases, Charge(p)
  PROVE  Inv'
<1>1. UNCHANGED <<rows, setups, usesCount, blind, cancel, ending, webhookVars>>
  BY DEF Charge
<1>2. CASE Goto(p, "STRIPE_ERROR") /\ UNCHANGED <<stripe, emitted>>
  <2>1. /\ purchase' \in [Purchases -> PurchaseSteps]
        /\ \A q \in Purchases : CallMoves(purchase[q], purchase'[q])
    BY <1>2 DEF Charge, Goto, PurchaseSteps, Inv, TypeOK, CallMoves, Written
  <2>2. /\ setups' \subseteq Users /\ usesCount' \in Nat /\ blind' \subseteq Purchases
        /\ cancel' \in [Cancels -> CancelSteps]
    BY <1>1 DEF Inv, TypeOK
  <2> QED
    BY <1>1, <1>2, <2>1, <2>2, CallKeeps DEF stripeVars
<1>3. ASSUME NEW st \in {"active", "trialing", "incomplete"},
             Goto(p, "persist") \/ Goto(p, "STRIPE_ERROR"),
             stripe' = [stripe EXCEPT ![p] = st], Emit(p, "created", st)
      PROVE  Inv'
  <2>1. /\ emitted \subseteq emitted' /\ emitted' \subseteq Events /\ EventInv'
        /\ \E e \in emitted' : e.sub = p /\ e.type = "created"
    BY <1>3, EmitKeeps DEF EventTypes, StripeStatuses
  <2>2. /\ purchase' \in [Purchases -> PurchaseSteps]
        /\ \A q \in Purchases \ {p} : purchase'[q] = purchase[q]
    BY <1>3 DEF Goto, PurchaseSteps, Inv, TypeOK
  <2>3. TypeOK'
    BY <1>1, <1>3, <2>1, <2>2 DEF Inv, TypeOK, webhookVars, StripeStatuses
  <2>4. CreatedInv' /\ MarkInv'
    BY <1>1, <2>1, <2>2 DEF Inv, CreatedInv, MarkInv, RowOf
  <2>6. WrittenInv'
    BY <1>1, <2>2 DEF Charge, Inv, TypeOK, Rows, WrittenInv, Written
  <2>5. DeliveryType' /\ HandledOnce' /\ StatusWasReported' /\ CancellingReachedStripe'
    BY <1>1, <2>1, RowsUntouched DEF webhookVars
  <2> QED
    BY <2>1, <2>3, <2>4, <2>5, <2>6 DEF Inv
<1> QED
  BY <1>2, <1>3 DEF Charge

LEMMA PersistKeeps ==
  ASSUME Inv, NEW p \in Purchases, Persist(p)
  PROVE  Inv'
<1>1. UNCHANGED <<setups, usesCount, blind, cancel, stripeVars, webhookVars>>
  BY DEF Persist
<1> DEFINE u == UserOf[p]
           st == Answered(p)
           x == [user |-> u, sub |-> p, cancelling |-> FALSE, status |-> MapStatus(st)]
<1>2. CASE Goto(p, "INTERNAL_ERROR") /\ rows' = rows
  <2>1. /\ purchase' \in [Purchases -> PurchaseSteps]
        /\ \A q \in Purchases : CallMoves(purchase[q], purchase'[q])
    BY <1>2 DEF Persist, Goto, PurchaseSteps, Inv, TypeOK, CallMoves, Written
  <2>2. /\ setups' \subseteq Users /\ usesCount' \in Nat /\ blind' \subseteq Purchases
        /\ cancel' \in [Cancels -> CancelSteps]
    BY <1>1 DEF Inv, TypeOK
  <2> QED
    BY <1>1, <1>2, <2>1, <2>2, CallKeeps
<1>3. CASE RowOf(u) = {} /\ rows' = rows \cup {x} /\ Goto(p, "cleanup")
  <2>1. PICK e \in emitted : e.sub = p /\ e.type = "created" /\ st = e.status
    BY DEF Inv, CreatedInv, Answered, Persist
  <2>2. st \in StripeStatuses /\ st \in Told(p)
    BY <2>1 DEF Inv, TypeOK, Events, Told
  <2>3. x \in Rows /\ Reported(x)
    BY <2>2, MapStatusMeans, SubscriptionAssumption DEF Rows, Reported
  <2>4. \A y \in rows : y.user # u /\ y.sub # p
    BY <1>3 DEF RowOf, Persist, Inv, WrittenInv, Written
  <2>5. /\ purchase' \in [Purchases -> PurchaseSteps]
        /\ \A q \in Purchases \ {p} : purchase'[q] = purchase[q]
        /\ purchase'[p] = "cleanup"
    BY <1>3 DEF Goto, PurchaseSteps, Inv, TypeOK
  <2>6. TypeOK'
    <3>1. x.user = u /\ x.sub = p
      OBVIOUS
    <3> HIDE DEF x
    <3>2. rows' \subseteq Rows /\ \A y, z \in rows' : (y.user = z.user \/ y.sub = z.sub) => y = z
      BY <1>3, <2>3, <2>4, <3>1 DEF Inv, TypeOK
    <3> QED
      BY <1>1, <2>5, <3>2 DEF Inv, TypeOK, stripeVars, webhookVars
  <2>7. WrittenInv' /\ CreatedInv'
    BY <1>1, <1>3, <2>4, <2>5 DEF Inv, TypeOK, Rows, WrittenInv, CreatedInv, Written, stripeVars
  <2>8. MarkInv'
    BY <1>1, <1>3 DEF Inv, MarkInv, RowOf, stripeVars
  <2>9. StatusWasReported'
    BY <1>1, <1>3, <2>3, ReportedIsStatus
       DEF Inv, StatusWasReported, Reported, Told, stripeVars
  <2>10. CancellingReachedStripe'
    BY <1>1, <1>3 DEF Inv, CancellingReachedStripe, stripeVars
  <2> QED
    BY <1>1, <2>6, <2>7, <2>8, <2>9, <2>10
       DEF Inv, EventInv, DeliveryType, HandledOnce, stripeVars, webhookVars
<1> QED
  BY <1>2, <1>3 DEF Persist

\* The row that Stripe is told about is the user's only one.
LEMMA TellKeeps ==
  ASSUME Inv, NEW c \in Cancels, TellStripe(c)
  PROVE  Inv'
<1>1. UNCHANGED <<rows, setups, usesCount, blind, purchase, stripe, emitted, webhookVars>>
  BY DEF TellStripe
<1>2. PICK x \in RowOf(UserOf[c]) :
        \/ CancelGoes(c, "STRIPE_ERROR") /\ UNCHANGED ending
        \/ /\ CancelGoes(c, "mark") \/ CancelGoes(c, "STRIPE_ERROR")
           /\ ending' = ending \cup {x.sub}
  BY DEF TellStripe
<1>3. x \in Rows /\ RowOf(UserOf[c]) = {x}
  BY <1>2 DEF RowOf, Inv, TypeOK
<1>4. /\ ending \subseteq ending' /\ ending' \subseteq Purchases
      /\ cancel' \in [Cancels -> CancelSteps]
      /\ \A b \in Cancels \ {c} : cancel'[b] = cancel[b]
      /\ cancel'[c] = "mark" => x.sub \in ending'
  BY <1>2, <1>3 DEF CancelGoes, CancelSteps, Inv, TypeOK, Rows
<1>5. TypeOK'
  BY <1>1, <1>4 DEF Inv, TypeOK, webhookVars
<1>6. MarkInv'
  <2> SUFFICES ASSUME NEW b \in Cancels, cancel'[b] = "mark"
               PROVE  /\ RowOf(UserOf[b]) # {}
                      /\ \A y \in RowOf(UserOf[b]) : y.sub \in ending'
    BY <1>1 DEF MarkInv, RowOf
  <2>1. CASE b = c
    BY <1>3, <1>4, <2>1
  <2>2. CASE b # c
    BY <1>4, <2>2 DEF Inv, MarkInv
  <2> QED
    BY <2>1, <2>2
<1>7. EventInv' /\ CreatedInv' /\ WrittenInv'
  BY <1>1 DEF Inv, EventInv, CreatedInv, WrittenInv
<1>8. DeliveryType' /\ HandledOnce' /\ StatusWasReported' /\ CancellingReachedStripe'
  BY <1>1, <1>4, RowsUntouched DEF webhookVars
<1> QED
  BY <1>5, <1>6, <1>7, <1>8 DEF Inv

LEMMA MarkKeeps ==
  ASSUME Inv, NEW c \in Cancels, MarkRow(c)
  PROVE  Inv'
<1> DEFINE Marked(x) == IF x.user = UserOf[c] THEN [x EXCEPT !.cancelling = TRUE] ELSE x
<1>1. /\ UNCHANGED <<setups, usesCount, blind, purchase, stripeVars, webhookVars>>
      /\ rows' = {Marked(x) : x \in rows}
  BY DEF MarkRow
<1>2. \A x \in rows : /\ Marked(x) \in Rows
                      /\ Marked(x).user = x.user /\ Marked(x).sub = x.sub
                      /\ Marked(x).status = x.status
                      /\ Marked(x).cancelling => x.cancelling \/ x.user = UserOf[c]
  BY DEF Inv, TypeOK, Rows
<1>3. /\ cancel' \in [Cancels -> CancelSteps]
      /\ \A b \in Cancels : cancel'[b] = "mark" => cancel[b] = "mark"
  BY DEF MarkRow, CancelGoes, CancelSteps, Inv, TypeOK
<1> HIDE DEF Marked
<1>4. rows' \subseteq Rows /\ \A x, y \in rows' : (x.user = y.user \/ x.sub = y.sub) => x = y
  BY <1>1, <1>2 DEF Inv, TypeOK
<1>5. TypeOK'
  BY <1>1, <1>3, <1>4 DEF Inv, TypeOK, stripeVars, webhookVars
<1>6. MarkInv'
  BY <1>1, <1>2, <1>3 DEF Inv, MarkInv, RowOf, stripeVars
<1>7. EventInv' /\ CreatedInv' /\ WrittenInv' /\ DeliveryType' /\ HandledOnce'
  BY <1>1, <1>2 DEF Inv, EventInv, CreatedInv, WrittenInv, DeliveryType, HandledOnce,
     stripeVars, webhookVars
<1>8. StatusWasReported'
  <2> SUFFICES ASSUME NEW x \in rows PROVE Reported(Marked(x))'
    BY <1>1 DEF StatusWasReported, Reported
  <2>1. Reported(x)
    BY ReportedIsStatus DEF Inv
  <2> QED
    BY <1>1, <1>2, <2>1 DEF Reported, Told, stripeVars
<1>9. CancellingReachedStripe'
  <2> SUFFICES ASSUME NEW x \in rows, Marked(x).cancelling PROVE x.sub \in ending
    BY <1>1, <1>2 DEF CancellingReachedStripe, stripeVars
  <2>1. CASE x.cancelling
    BY <2>1 DEF Inv, CancellingReachedStripe
  <2>2. CASE x.user = UserOf[c]
    BY <2>2 DEF Inv, MarkInv, MarkRow, RowOf
  <2> QED
    BY <1>2, <2>1, <2>2
<1> QED
  BY <1>5, <1>6, <1>7, <1>8, <1>9 DEF Inv

-----------------------------------------------------------------------------

\* The webhook: recording decides who handles an event.
LEMMA ReceiveKeeps ==
  ASSUME Inv, NEW d \in Deliveries, Receive(d)
  PROVE  Inv'
<1>1. UNCHANGED <<serviceVars, stripeVars, handled>>
  BY DEF Receive
<1>2. PICK e \in emitted :
        \/ e \in recorded /\ UNCHANGED <<delivery, recorded>>
        \/ /\ e \notin recorded /\ recorded' = recorded \cup {e}
           /\ delivery' = [delivery EXCEPT ![d] = [step |-> "handle", event |-> e]]
  BY DEF Receive
<1>3. DeliveryType'
  BY <1>2 DEF Inv, DeliveryType
<1>4. TypeOK' /\ HandledOnce'
  <2>1. CASE UNCHANGED <<delivery, recorded>>
    BY <1>1, <1>2, <2>1 DEF Inv, TypeOK, HandledOnce, serviceVars, stripeVars
  <2>2. CASE /\ e \notin recorded /\ recorded' = recorded \cup {e}
             /\ delivery' = [delivery EXCEPT ![d] = [step |-> "handle", event |-> e]]
    <3>1. /\ delivery'[d] = [step |-> "handle", event |-> e]
          /\ \A b \in Deliveries \ {d} : delivery'[b] = delivery[b]
      BY <2>2 DEF Inv, DeliveryType
    <3>2. \A b \in Deliveries \ {d} :
            delivery[b].step = "handle" => delivery[b].event # e
      BY <2>2 DEF Inv, TypeOK
    <3>3. e \notin handled'
      BY <1>1, <2>2 DEF Inv, TypeOK
    <3>4. HandledOnce'
      BY <1>1, <3>1, <3>2, <3>3 DEF Inv, HandledOnce
    <3>5. \A b \in Deliveries : delivery'[b].step = "handle" => delivery'[b].event \in recorded'
      BY <2>2, <3>1 DEF Inv, TypeOK
    <3>6. TypeOK'
      BY <1>1, <2>2, <3>5 DEF Inv, TypeOK, serviceVars, stripeVars
    <3> QED
      BY <3>4, <3>6
  <2> QED
    BY <1>2, <2>1, <2>2
<1>5. EventInv' /\ CreatedInv' /\ WrittenInv' /\ MarkInv' /\ StatusWasReported'
        /\ CancellingReachedStripe'
  BY <1>1 DEF Inv, EventInv, CreatedInv, WrittenInv, MarkInv, RowOf, StatusWasReported,
     Told, CancellingReachedStripe, serviceVars, stripeVars
<1> QED
  BY <1>3, <1>4, <1>5 DEF Inv

\* A request leaves its event, handled or not.
LEMMA DeliveryEnds ==
  ASSUME Inv, NEW d \in Deliveries, delivery[d].step = "handle",
         delivery' = [delivery EXCEPT ![d] = [step |-> "idle"]],
         recorded' = recorded, handled' \subseteq handled \cup {delivery[d].event}
  PROVE  /\ DeliveryType' /\ HandledOnce'
         /\ \A b \in Deliveries : delivery'[b].step = "handle" => delivery'[b].event \in recorded'
<1>1. /\ delivery'[d].step = "idle"
      /\ \A b \in Deliveries \ {d} : delivery'[b] = delivery[b]
  BY DEF Inv, DeliveryType
<1>2. DeliveryType'
  BY DEF Inv, DeliveryType
<1>3. HandledOnce'
  BY <1>1 DEF Inv, HandledOnce
<1> QED
  BY <1>1, <1>2, <1>3 DEF Inv, TypeOK

LEMMA HandleKeeps ==
  ASSUME Inv, NEW d \in Deliveries, Handle(d)
  PROVE  Inv'
<1> DEFINE e == delivery[d].event
<1>1. /\ UNCHANGED <<setups, usesCount, blind, purchase, cancel, stripeVars, recorded>>
      /\ rows' = {AfterEvent(x, e) : x \in rows}
      /\ handled' = handled \cup {e}
  BY DEF Handle
<1>2. e \in recorded /\ e \in emitted
  BY DEF Handle, Inv, TypeOK
<1>3. \A x \in rows : /\ AfterEvent(x, e) \in Rows
                      /\ AfterEvent(x, e).user = x.user /\ AfterEvent(x, e).sub = x.sub
                      /\ AfterEvent(x, e).cancelling = x.cancelling
                      /\ Reported(AfterEvent(x, e))
  BY <1>2, AfterEventReported
<1>4. /\ DeliveryType' /\ HandledOnce'
      /\ \A b \in Deliveries : delivery'[b].step = "handle" => delivery'[b].event \in recorded'
  BY <1>1, DeliveryEnds DEF Handle
<1>5. rows' \subseteq Rows /\ \A x, y \in rows' : (x.user = y.user \/ x.sub = y.sub) => x = y
  BY <1>1, <1>3 DEF Inv, TypeOK
<1>6. TypeOK'
  BY <1>1, <1>2, <1>4, <1>5 DEF Inv, TypeOK, stripeVars
<1>7. EventInv' /\ CreatedInv' /\ WrittenInv' /\ MarkInv' /\ CancellingReachedStripe'
  BY <1>1, <1>3 DEF Inv, EventInv, CreatedInv, WrittenInv, MarkInv, RowOf,
     CancellingReachedStripe, stripeVars
<1>8. StatusWasReported'
  <2> SUFFICES ASSUME NEW y \in rows' PROVE Reported(y)'
    BY DEF StatusWasReported, Reported
  <2>1. Reported(y)
    BY <1>1, <1>3
  <2>2. UNCHANGED emitted
    BY <1>1 DEF stripeVars
  <2> QED
    BY <2>1, <2>2, ToldGrows
<1> QED
  BY <1>4, <1>6, <1>7, <1>8 DEF Inv

LEMMA FailKeeps ==
  ASSUME Inv, NEW d \in Deliveries, Fail(d)
  PROVE  Inv'
<1>1. UNCHANGED <<serviceVars, stripeVars, recorded, handled>>
  BY DEF Fail
<1>2. /\ DeliveryType' /\ HandledOnce'
      /\ \A b \in Deliveries : delivery'[b].step = "handle" => delivery'[b].event \in recorded'
  BY <1>1, DeliveryEnds DEF Fail
<1>3. TypeOK'
  BY <1>1, <1>2 DEF Inv, TypeOK, serviceVars, stripeVars
<1> QED
  BY <1>1, <1>2, <1>3 DEF Inv, EventInv, CreatedInv, WrittenInv, MarkInv, RowOf,
     StatusWasReported, Told, CancellingReachedStripe, serviceVars, stripeVars

-----------------------------------------------------------------------------
(* The theorems.                                                            *)

LEMMA InvInit == Init => Inv
<1> SUFFICES ASSUME Init PROVE Inv
  OBVIOUS
<1>1. TypeOK
  BY DEF Init, TypeOK, PurchaseSteps, CancelSteps
<1>2. DeliveryType /\ HandledOnce
  BY DEF Init, DeliveryType, HandledOnce
<1>3. EventInv /\ CreatedInv /\ WrittenInv /\ MarkInv
  BY FS_EmptySet DEF Init, EventInv, CreatedInv, WrittenInv, MarkInv
<1>4. StatusWasReported /\ CancellingReachedStripe
  BY DEF Init, StatusWasReported, CancellingReachedStripe
<1> QED
  BY <1>1, <1>2, <1>3, <1>4 DEF Inv

LEMMA InvStep == Inv /\ [Next]_subscriptionVars => Inv'
<1> SUFFICES ASSUME Inv, [Next]_subscriptionVars PROVE Inv'
  OBVIOUS
<1>1. CASE UNCHANGED subscriptionVars
  <2>1. UNCHANGED <<rows, stripeVars, webhookVars, setups, usesCount, blind, purchase, cancel>>
    BY <1>1 DEF subscriptionVars, serviceVars
  <2> QED
    BY <2>1, CallKeeps DEF Inv, TypeOK, CallMoves
<1>2. ASSUME NEW u \in Users, CreateSetupIntent(u) \/ SetupExpires(u) PROVE Inv'
  BY <1>2, QuietCallsKeep
<1>3. ASSUME NEW p \in Purchases, CreateSubscription(p) PROVE Inv'
  BY <1>3, QuietCallsKeep, ChargeKeeps, PersistKeeps DEF CreateSubscription
<1>4. ASSUME NEW p \in Purchases, Stripe(p) PROVE Inv'
  BY <1>4, StripeKeeps
<1>5. ASSUME NEW c \in Cancels, CancelSubscription(c) PROVE Inv'
  BY <1>5, QuietCallsKeep, TellKeeps, MarkKeeps DEF CancelSubscription
<1>6. ASSUME NEW d \in Deliveries, Webhook(d) PROVE Inv'
  BY <1>6, ReceiveKeeps, HandleKeeps, FailKeeps DEF Webhook
<1> QED
  BY <1>1, <1>2, <1>3, <1>4, <1>5, <1>6 DEF Next

LEMMA InvHolds == Spec => []Inv
BY InvInit, InvStep, PTL DEF Spec

\* The tables and the calls stay well typed; no user has two rows.
THEOREM TypeCorrect == Spec => []TypeOK
BY InvHolds, PTL DEF Inv

\* No webhook event is ever handled twice, by any number of concurrent deliveries.
THEOREM HandledOnceHolds == Spec => []HandledOnce
BY InvHolds, PTL DEF Inv

\* The status that the redemption guard reads was Stripe's at some time.
THEOREM StatusWasReportedHolds == Spec => []StatusWasReported
BY InvHolds, PTL DEF Inv

\* A row shown as cancelling really ends at Stripe.
THEOREM CancellingReachedStripeHolds == Spec => []CancellingReachedStripe
BY InvHolds, PTL DEF Inv

-----------------------------------------------------------------------------
(* The limit of the promo code.                                             *)

\* The purchases whose use of the code is still to be counted, those that have a
\* row (as a user's row is unique, so is the row of a purchase), and those that
\* have one or may still get it.
ToCount == {p \in WithPromo : purchase[p] \in {"cleanup", "count"}}
WithRow == {p \in WithPromo : \E x \in rows : x.sub = p}
Takers == WithRow \cup Uncounted

\* The count is that of the rows whose use is neither lost nor still to come; the
\* takers exceed the limit by the blind and the lost.
PromoInv ==
  /\ IsFiniteSet(Takers) /\ IsFiniteSet(blind)
  /\ ToCount \subseteq WithRow
  /\ usesCount + Cardinality(ToCount) + Cardinality(Lost) = Cardinality(WithRow)
  /\ Cardinality(Takers) <= MaxUses + Cardinality(blind) + Cardinality(Lost)
  /\ \A p \in Purchases : /\ purchase[p] \in {"promo", "count"} => p \in WithPromo
                          /\ purchase[p] \in {"idle", "existing", "promo"} => p \notin blind

LEMMA LostIs == Lost = {p \in WithRow : purchase[p] = "INTERNAL_ERROR"}
BY DEF Lost, WithRow

\* There are as many rows with the code as purchases that have one.
LEMMA RowsAreSubs ==
  ASSUME TypeOK, IsFiniteSet(WithRow)
  PROVE  Cardinality({x \in rows : x.sub \in WithPromo}) = Cardinality(WithRow)
<1> DEFINE PromoRows == {x \in rows : x.sub \in WithPromo}
           f == [p \in WithRow |-> CHOOSE x \in rows : x.sub = p]
<1>1. \A p \in WithRow : f[p] \in PromoRows /\ f[p].sub = p
  <2> TAKE p \in WithRow
  <2>1. PICK x \in rows : x.sub = p
    BY DEF WithRow
  <2>2. f[p] \in rows /\ f[p].sub = p
    BY <2>1
  <2> QED
    BY <2>2 DEF WithRow
<1>2. \A x \in PromoRows : x.sub \in WithRow /\ f[x.sub] = x
  <2> TAKE x \in PromoRows
  <2>1. x.sub \in WithRow
    BY DEF WithRow
  <2>2. f[x.sub] \in rows /\ f[x.sub].sub = x.sub
    BY <2>1, <1>1
  <2> QED
    BY <2>1, <2>2 DEF TypeOK
<1>3. f \in [WithRow -> PromoRows]
  BY <1>1
<1> HIDE DEF f, PromoRows
<1>4. f \in Bijection(WithRow, PromoRows)
  BY <1>1, <1>2, <1>3 DEF Bijection, Injection, Surjection, IsInjective
<1>5. ExistsBijection(WithRow, PromoRows)
  BY <1>4 DEF ExistsBijection
<1> QED
  BY <1>5, FS_Bijection DEF PromoRows

\* The sizes that PromoInv speaks of are numbers.
LEMMA PromoSizes ==
  ASSUME PromoInv, TypeOK
  PROVE  /\ IsFiniteSet(ToCount) /\ IsFiniteSet(WithRow) /\ IsFiniteSet(Lost)
         /\ Cardinality(ToCount) \in Nat /\ Cardinality(WithRow) \in Nat
         /\ Cardinality(Lost) \in Nat /\ Cardinality(Takers) \in Nat
         /\ Cardinality(blind) \in Nat /\ usesCount \in Nat /\ MaxUses \in Nat
         /\ Cardinality(WithRow) <= Cardinality(Takers)
<1>1. ToCount \in SUBSET Takers /\ WithRow \in SUBSET Takers /\ Lost \in SUBSET Takers
  BY LostIs DEF PromoInv, Takers
<1>2. IsFiniteSet(ToCount) /\ IsFiniteSet(WithRow) /\ IsFiniteSet(Lost)
  BY <1>1, FS_Subset DEF PromoInv
<1> QED
  BY <1>1, <1>2, FS_Subset, FS_CardinalityType, SubscriptionAssumption DEF PromoInv, TypeOK

LEMMA PromoLimits == Inv /\ PromoInv => PromoLimit
<1> SUFFICES ASSUME Inv, PromoInv PROVE PromoLimit
  OBVIOUS
<1>1. Cardinality({x \in rows : x.sub \in WithPromo}) = Cardinality(WithRow)
  BY RowsAreSubs, PromoSizes DEF Inv
<1> QED
  BY <1>1, PromoSizes DEF Inv, PromoInv, PromoLimit

\* A call takes a step, and the others stay where they are.
LEMMA OneMoves ==
  ASSUME Inv, NEW p \in Purchases, NEW s, Goto(p, s)
  PROVE  /\ purchase'[p] = s
         /\ \A q \in Purchases : q # p => purchase'[q] = purchase[q]
BY DEF Goto, Inv, TypeOK

\* A step that gives no purchase a row and counts or loses none.
LEMMA PromoUntouched ==
  ASSUME PromoInv, TypeOK, UNCHANGED <<usesCount, blind>>,
         \A p \in WithPromo : (\E x \in rows : x.sub = p) <=> (\E x \in rows' : x.sub = p),
         Uncounted' \subseteq Uncounted, ToCount' = ToCount, Lost' = Lost,
         \A p \in Purchases :
           /\ purchase'[p] \in {"promo", "count"} => p \in WithPromo
           /\ purchase'[p] \in {"idle", "existing", "promo"} => p \notin blind
  PROVE  PromoInv'
<1>1. WithRow' = WithRow
  BY DEF WithRow
<1>2. Takers' \in SUBSET Takers
  BY <1>1 DEF Takers
<1>3. /\ IsFiniteSet(Takers') /\ Cardinality(Takers') <= Cardinality(Takers)
      /\ Cardinality(Takers') \in Nat
  BY <1>2, FS_Subset, FS_CardinalityType DEF PromoInv
<1> QED
  BY <1>1, <1>3, PromoSizes DEF PromoInv

\* Who passes the check sees the limit kept, or is blind.
LEMMA CheckLimits ==
  ASSUME Inv, PromoInv, NEW p \in Purchases, CheckPromo(p)
  PROVE  PromoInv'
<1>1. p \in WithPromo /\ purchase[p] = "promo" /\ p \notin blind
  BY DEF CheckPromo, PromoInv
<1>2. p \notin Uncounted /\ p \notin WithRow /\ UNCHANGED <<rows, usesCount>>
  BY <1>1 DEF CheckPromo, Uncounted, WithRow, Inv, WrittenInv, Written
<1>3. ASSUME NEW s \in {"REFUSED", "PROMO_CODE_EXHAUSTED"}, Goto(p, s), UNCHANGED blind
      PROVE  PromoInv'
  <2>1. /\ purchase'[p] = s
        /\ \A q \in Purchases : q # p => purchase'[q] = purchase[q]
    BY <1>3, OneMoves
  <2>2. Uncounted' = Uncounted /\ ToCount' = ToCount /\ Lost' = Lost
    BY <1>1, <1>2, <2>1, SubscriptionAssumption DEF Uncounted, ToCount, Lost
  <2> QED
    BY <1>2, <1>3, <2>1, <2>2, PromoUntouched DEF PromoInv, Inv
<1>4. ASSUME usesCount < MaxUses, Goto(p, "charge"),
             blind' = IF Uncounted = {} THEN blind ELSE blind \cup {p}
      PROVE  PromoInv'
  <2>1. /\ purchase'[p] = "charge"
        /\ \A q \in Purchases : q # p => purchase'[q] = purchase[q]
    BY <1>4, OneMoves
  <2>2. WithRow' = WithRow /\ ToCount' = ToCount /\ Lost' = Lost
    BY <1>1, <1>2, <2>1, SubscriptionAssumption DEF WithRow, ToCount, Lost
  <2>3. Uncounted' = Uncounted \cup {p}
    BY <1>1, <2>1, SubscriptionAssumption DEF Uncounted
  <2>4. Takers' = Takers \cup {p} /\ p \notin Takers
    BY <1>2, <2>2, <2>3 DEF Takers
  <2>5. IsFiniteSet(Takers') /\ Cardinality(Takers') = Cardinality(Takers) + 1
    BY <2>4, FS_AddElement DEF PromoInv
  <2>6. CASE Uncounted = {}
    <3>1. ToCount = {} /\ Takers = WithRow
      BY <2>6 DEF ToCount, Uncounted, Takers
    <3>2. Cardinality(Takers') <= MaxUses + Cardinality(blind) + Cardinality(Lost)
      BY <1>4, <2>5, <3>1, PromoSizes, FS_EmptySet DEF PromoInv, Inv
    <3> QED
      BY <1>1, <1>2, <1>4, <2>1, <2>2, <2>5, <2>6, <3>2 DEF PromoInv
  <2>7. CASE Uncounted # {}
    <3>1. /\ blind' = blind \cup {p} /\ IsFiniteSet(blind')
          /\ Cardinality(blind') = Cardinality(blind) + 1
      BY <1>1, <1>4, <2>7, FS_AddElement DEF PromoInv
    <3>2. Cardinality(Takers') <= MaxUses + Cardinality(blind') + Cardinality(Lost)
      BY <2>5, <3>1, PromoSizes DEF PromoInv, Inv
    <3> QED
      BY <1>1, <1>2, <2>1, <2>2, <2>5, <3>1, <3>2 DEF PromoInv
  <2> QED
    BY <2>6, <2>7
<1> QED
  BY <1>3, <1>4 DEF CheckPromo

\* The steps of a call that neither write its row nor count its use.
LEMMA CallLimits ==
  ASSUME Inv, PromoInv, NEW p \in Purchases,
         ReadSetup(p) \/ CheckExisting(p) \/ Charge(p) \/ Cleanup(p)
  PROVE  PromoInv'
<1>1. UNCHANGED <<rows, usesCount, blind>>
  BY DEF ReadSetup, CheckExisting, Charge, Cleanup
<1>2. PICK s \in PurchaseSteps :
        /\ Goto(p, s)
        /\ s \in {"cleanup", "count"} <=> purchase[p] = "cleanup" /\ p \in WithPromo
        /\ purchase[p] # "count" /\ purchase[p] # "INTERNAL_ERROR" /\ s # "INTERNAL_ERROR"
        /\ s \in {"charge", "persist"} => purchase[p] = "charge" \/ p \notin WithPromo
        /\ s \in {"promo", "count"} => p \in WithPromo
        /\ s \in {"idle", "existing", "promo"} => purchase[p] \in {"idle", "existing"}
  BY DEF ReadSetup, CheckExisting, Charge, Cleanup, PurchaseSteps
<1>3. /\ purchase'[p] = s
      /\ \A q \in Purchases : q # p => purchase'[q] = purchase[q]
  BY <1>2, OneMoves
<1>4. ToCount' = ToCount /\ Lost' = Lost
  BY <1>1, <1>2, <1>3, SubscriptionAssumption DEF ToCount, Lost
<1>5. Uncounted' \subseteq Uncounted
  BY <1>2, <1>3, SubscriptionAssumption DEF Uncounted
<1> QED
  BY <1>1, <1>2, <1>3, <1>4, <1>5, PromoUntouched DEF PromoInv, Inv

\* A new row of a purchase with the code is one more, and one more to count.
LEMMA PersistLimits ==
  ASSUME Inv, PromoInv, NEW p \in Purchases, Persist(p)
  PROVE  PromoInv'
<1>1. UNCHANGED <<usesCount, blind>> /\ purchase[p] = "persist"
  BY DEF Persist
<1>2. p \notin ToCount /\ \A x \in rows : x.sub # p
  BY <1>1 DEF ToCount, Inv, WrittenInv, Written
<1>3. ASSUME Goto(p, "INTERNAL_ERROR"), UNCHANGED rows PROVE PromoInv'
  <2>1. /\ purchase'[p] = "INTERNAL_ERROR"
        /\ \A q \in Purchases : q # p => purchase'[q] = purchase[q]
    BY <1>3, OneMoves
  <2>2. Uncounted' \subseteq Uncounted /\ ToCount' = ToCount /\ Lost' = Lost
    BY <1>1, <1>2, <1>3, <2>1, SubscriptionAssumption DEF Uncounted, ToCount, Lost
  <2> QED
    BY <1>1, <1>3, <2>1, <2>2, PromoUntouched DEF PromoInv, Inv
<1>4. ASSUME NEW x, x.sub = p, rows' = rows \cup {x}, Goto(p, "cleanup") PROVE PromoInv'
  <2>1. /\ purchase'[p] = "cleanup"
        /\ \A q \in Purchases : q # p => purchase'[q] = purchase[q]
    BY <1>4, OneMoves
  <2>2. Uncounted' = Uncounted
    BY <1>1, <2>1, SubscriptionAssumption DEF Uncounted
  <2>3. \A q \in Purchases : (\E y \in rows' : y.sub = q) <=> q = p \/ \E y \in rows : y.sub = q
    BY <1>4
  <2>4. Lost' = Lost
    BY <1>1, <1>2, <2>1, <2>3, SubscriptionAssumption DEF Lost
  <2>5. CASE p \in WithPromo
    <3>1. ToCount' = ToCount \cup {p}
      BY <2>1, <2>5, SubscriptionAssumption DEF ToCount
    <3>2. WithRow' = WithRow \cup {p} /\ p \notin WithRow
      BY <1>2, <2>3, <2>5, SubscriptionAssumption DEF WithRow
    <3>3. Takers' = Takers
      BY <1>1, <2>2, <2>5, <3>2 DEF Takers, Uncounted
    <3>4. /\ Cardinality(ToCount') = Cardinality(ToCount) + 1
          /\ Cardinality(WithRow') = Cardinality(WithRow) + 1
      BY <1>2, <3>1, <3>2, FS_AddElement, PromoSizes DEF Inv
    <3>5. ToCount' \subseteq WithRow'
      BY <3>1, <3>2 DEF PromoInv
    <3>6. usesCount' + Cardinality(ToCount') + Cardinality(Lost') = Cardinality(WithRow')
      BY <1>1, <2>4, <3>4, PromoSizes DEF PromoInv, Inv
    <3> QED
      BY <1>1, <2>1, <2>4, <3>3, <3>5, <3>6 DEF PromoInv
  <2>6. CASE p \notin WithPromo
    <3>1. ToCount' = ToCount
      BY <2>1, <2>6, SubscriptionAssumption DEF ToCount
    <3>2. \A q \in WithPromo : (\E y \in rows : y.sub = q) <=> (\E y \in rows' : y.sub = q)
      BY <2>3, <2>6, SubscriptionAssumption
    <3> QED
      BY <1>1, <2>1, <2>2, <2>4, <3>1, <3>2, PromoUntouched DEF PromoInv, Inv
  <2> QED
    BY <2>5, <2>6
<1>5. CASE RowOf(UserOf[p]) # {}
  BY <1>3, <1>5 DEF Persist
<1>6. CASE RowOf(UserOf[p]) = {}
  <2> DEFINE x == [user |-> UserOf[p], sub |-> p, cancelling |-> FALSE,
                   status |-> MapStatus(Answered(p))]
  <2>1. rows' = rows \cup {x} /\ Goto(p, "cleanup") /\ x.sub = p
    BY <1>6 DEF Persist
  <2> QED
    BY <1>4, <2>1
<1> QED
  BY <1>5, <1>6

\* The increment takes the purchase out of those to be counted.
LEMMA CountLimits ==
  ASSUME Inv, PromoInv, NEW p \in Purchases, CountPromo(p)
  PROVE  PromoInv'
<1>1. /\ purchase[p] = "count" /\ purchase'[p] = "CREATED"
      /\ \A q \in Purchases : q # p => purchase'[q] = purchase[q]
  BY OneMoves DEF CountPromo
<1>2. UNCHANGED <<rows, blind>> /\ usesCount' = usesCount + 1
  BY DEF CountPromo
<1>3. p \in ToCount /\ p \in WithRow
  BY <1>1 DEF PromoInv, ToCount
<1>4. ToCount' = ToCount \ {p} /\ WithRow' = WithRow /\ Lost' = Lost
  BY <1>1, <1>2, SubscriptionAssumption DEF ToCount, WithRow, Lost
<1>5. Uncounted' = Uncounted \ {p}
  BY <1>1, SubscriptionAssumption DEF Uncounted
<1>6. Takers' = Takers
  BY <1>3, <1>4, <1>5 DEF Takers
<1>7. Cardinality(ToCount') = Cardinality(ToCount) - 1
  BY <1>3, <1>4, FS_RemoveElement, PromoSizes DEF Inv
<1>8. usesCount' + Cardinality(ToCount') + Cardinality(Lost') = Cardinality(WithRow')
  BY <1>2, <1>4, <1>7, PromoSizes DEF PromoInv, Inv
<1> QED
  BY <1>1, <1>2, <1>4, <1>6, <1>8 DEF PromoInv

\* A call that stops before its use is counted has lost it.
LEMMA StopLimits ==
  ASSUME Inv, PromoInv, NEW p \in Purchases, Stop(p)
  PROVE  PromoInv'
<1>1. /\ purchase[p] \in {"persist", "cleanup", "count"}
      /\ purchase'[p] = "INTERNAL_ERROR"
      /\ \A q \in Purchases : q # p => purchase'[q] = purchase[q]
  BY OneMoves DEF Stop
<1>2. UNCHANGED <<rows, usesCount, blind>>
  BY DEF Stop
<1>3. Uncounted' \subseteq Uncounted /\ WithRow' = WithRow
  BY <1>1, <1>2, SubscriptionAssumption DEF Uncounted, WithRow
<1>4. CASE p \in ToCount
  <2>1. p \in WithRow /\ p \notin Lost
    BY <1>1, <1>4 DEF PromoInv, Lost
  <2>2. ToCount' = ToCount \ {p}
    BY <1>1, SubscriptionAssumption DEF ToCount
  <2>3. Lost' = Lost \cup {p}
    BY <1>1, <1>2, <2>1, SubscriptionAssumption DEF Lost, WithRow
  <2>4. Uncounted' = Uncounted \ {p}
    BY <1>1, SubscriptionAssumption DEF Uncounted
  <2>5. Takers' = Takers
    BY <1>3, <2>1, <2>4 DEF Takers
  <2>6. /\ Cardinality(ToCount') = Cardinality(ToCount) - 1
        /\ Cardinality(Lost') = Cardinality(Lost) + 1
    BY <1>4, <2>1, <2>2, <2>3, FS_AddElement, FS_RemoveElement, PromoSizes DEF Inv
  <2>7. /\ usesCount' + Cardinality(ToCount') + Cardinality(Lost') = Cardinality(WithRow')
        /\ Cardinality(Takers') <= MaxUses + Cardinality(blind') + Cardinality(Lost')
    BY <1>2, <1>3, <2>5, <2>6, PromoSizes DEF PromoInv, Inv
  <2>8. ToCount' \subseteq WithRow'
    BY <1>3, <2>2 DEF PromoInv
  <2> QED
    BY <1>1, <1>2, <2>5, <2>7, <2>8 DEF PromoInv
<1>5. CASE p \notin ToCount
  <2>1. p \in WithPromo => purchase[p] = "persist"
    BY <1>1, <1>5 DEF ToCount
  <2>2. p \notin WithRow
    BY <2>1 DEF WithRow, Inv, WrittenInv, Written
  <2>3. ToCount' = ToCount
    BY <1>1, <1>5, SubscriptionAssumption DEF ToCount
  <2>4. Lost' = Lost
    BY <1>1, <1>2, <2>2, SubscriptionAssumption DEF Lost, WithRow
  <2> QED
    BY <1>1, <1>2, <1>3, <2>3, <2>4, PromoUntouched DEF PromoInv, Inv
<1> QED
  BY <1>4, <1>5

\* Steps that leave every purchase, its row and its use alone.
LEMMA OthersLimit ==
  ASSUME Inv, PromoInv, UNCHANGED <<usesCount, blind, purchase>>,
         \A p \in WithPromo : (\E x \in rows : x.sub = p) <=> (\E x \in rows' : x.sub = p)
  PROVE  PromoInv'
<1>1. Uncounted' = Uncounted /\ ToCount' = ToCount /\ Lost' = Lost
  BY DEF Uncounted, ToCount, Lost
<1> QED
  BY <1>1, PromoUntouched DEF PromoInv, Inv

LEMMA PromoStep == Inv /\ PromoInv /\ [Next]_subscriptionVars => PromoInv'
<1> SUFFICES ASSUME Inv, PromoInv, [Next]_subscriptionVars PROVE PromoInv'
  OBVIOUS
<1>1. ASSUME UNCHANGED <<rows, usesCount, blind, purchase>> PROVE PromoInv'
  BY <1>1, OthersLimit
<1>2. ASSUME NEW p \in Purchases, CreateSubscription(p) PROVE PromoInv'
  BY <1>2, CallLimits, CheckLimits, PersistLimits, CountLimits, StopLimits
     DEF CreateSubscription
<1>3. ASSUME NEW c \in Cancels, CancelSubscription(c) PROVE PromoInv'
  <2>1. CASE ReadRow(c) \/ TellStripe(c)
    BY <1>1, <2>1 DEF ReadRow, TellStripe
  <2>2. CASE MarkRow(c)
    <3> DEFINE Marked(x) == IF x.user = UserOf[c] THEN [x EXCEPT !.cancelling = TRUE] ELSE x
    <3>1. rows' = {Marked(x) : x \in rows} /\ UNCHANGED <<usesCount, blind, purchase>>
      BY <2>2 DEF MarkRow
    <3>2. \A x \in rows : Marked(x).sub = x.sub
      BY DEF Inv, TypeOK, Rows
    <3> HIDE DEF Marked
    <3> QED
      BY <3>1, <3>2, OthersLimit
  <2> QED
    BY <1>3, <2>1, <2>2 DEF CancelSubscription
<1>4. ASSUME NEW d \in Deliveries, Webhook(d) PROVE PromoInv'
  <2>1. CASE Receive(d) \/ Fail(d)
    BY <1>1, <2>1 DEF Receive, Fail, serviceVars
  <2>2. CASE Handle(d)
    <3> DEFINE e == delivery[d].event
    <3>1. rows' = {AfterEvent(x, e) : x \in rows} /\ UNCHANGED <<usesCount, blind, purchase>>
      BY <2>2 DEF Handle
    <3>2. \A x \in rows : AfterEvent(x, e).sub = x.sub
      BY DEF AfterEvent, Inv, TypeOK, Rows
    <3> QED
      BY <3>1, <3>2, OthersLimit
  <2> QED
    BY <1>4, <2>1, <2>2 DEF Webhook
<1>5. CASE \/ UNCHANGED subscriptionVars
           \/ \E u \in Users : CreateSetupIntent(u) \/ SetupExpires(u)
           \/ \E p \in Purchases : Stripe(p)
  BY <1>1, <1>5 DEF subscriptionVars, serviceVars, CreateSetupIntent, SetupExpires,
     Stripe, StripeMoves, StripeEnds, StripeInvoices
<1> QED
  BY <1>2, <1>3, <1>4, <1>5 DEF Next

\* The promo code is sold beyond its limit only to purchases that overlapped the
\* check of another, and to those whose use was lost; it is never counted twice.
THEOREM PromoLimitHolds == Spec => []PromoLimit
<1>1. Init => PromoInv
  <2> SUFFICES ASSUME Init PROVE PromoInv
    OBVIOUS
  <2>1. ToCount = {} /\ WithRow = {} /\ Uncounted = {} /\ Lost = {}
    BY SubscriptionAssumption DEF Init, ToCount, WithRow, Uncounted, Lost
  <2> QED
    BY <2>1, FS_EmptySet, SubscriptionAssumption DEF Init, PromoInv, Takers
<1> QED
  BY <1>1, PromoStep, PromoLimits, InvHolds, PTL DEF Spec
=============================================================================
