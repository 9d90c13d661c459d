------------------------------- MODULE Renewal -------------------------------
(***************************************************************************)
(* The voucher cycle seen from billing, composed with Redemption: Stripe    *)
(* charges a renewal during the cycle it pays for, and its webhook          *)
(* (invoice.payment_succeeded of src/api/subscription/webhook.ts) calls     *)
(* resetVoucherCycleForUser when it arrives, at any later time or never.    *)
(***************************************************************************)
EXTENDS Redemption

VARIABLES
  billed,      \* the renewals charged: a user and the cycle it pays for
  undelivered  \* those whose event was not handled yet

billingVars == <<billed, undelivered>>
renewalVars == <<vars, billingVars>>

Renewals == {<<u, c>> : u \in Users, c \in Instants}

RenewalInit == Init /\ billed = {} /\ undelivered = {}

\* The first cycle is paid by the subscription_create invoice, which is ignored.
Renew(u) ==
  LET c == CycleStart[u][clock] IN
  /\ c # CycleStart[u][0] /\ <<u, c>> \notin billed
  /\ billed' = billed \cup {<<u, c>>}
  /\ undelivered' = undelivered \cup {<<u, c>>}
  /\ UNCHANGED vars

\* resetVoucherCycleForUser: an updateMany, of no row if none is redeemed.
Resets(u) ==
  \/ ResetVoucherCycle(u)
  \/ (\A v \in Vouchers : ~cycleState[<<u, v>>].redeemed) /\ UNCHANGED vars

\* Mutant: every delivery of the event resets, not the first alone.
RenewalEventRepeated(n) == n \in undelivered /\ Resets(n[1]) /\ UNCHANGED billingVars

\* The webhook of a renewal, handled once (see Subscription, HandledOnce).
RenewalEvent(n) ==
  /\ n \in undelivered
  /\ Resets(n[1])
  /\ undelivered' = undelivered \ {n}
  /\ UNCHANGED billed

BillingTime == Tick /\ UNCHANGED billingVars
RedeemBilled(r) == CreateRedemption(r) /\ UNCHANGED billingVars

RenewalNext ==
  \/ BillingTime
  \/ \E u \in Users : Renew(u)
  \/ \E n \in Renewals : RenewalEvent(n)
  \/ \E r \in Requests : RedeemBilled(r)

RenewalSpec == RenewalInit /\ [][RenewalNext]_renewalVars

-----------------------------------------------------------------------------
(* Properties.                                                              *)

Delivered(u) == {n \in billed \ undelivered : n[1] = u}

\* A user uses a voucher in a cycle at most once, and once more per renewal whose
\* event has reset the flag: no use is had without a payment.
UsesArePaidFor ==
  \A u \in Users, v \in Vouchers : Kind[v] = "CYCLE" =>
    \A c \in Instants :
      Cardinality(InCycle(u, v, c)) <= 1 + Cardinality(Delivered(u))

\* "One redemption per user per voucher per billing cycle" (the redemption design).
OncePerBillingCycle ==
  \A u \in Users, v \in Vouchers : Kind[v] = "CYCLE" =>
    \A c \in Instants : Cardinality(InCycle(u, v, c)) <= 1
=============================================================================
