---------------------------- MODULE MCSubscription ----------------------------
(* Two handlers, and one of two stories: two purchases and a cancellation of *)
(* one user, or a purchase with the promo code by each of two users.         *)
EXTENDS Subscription, TLC

CONSTANTS u1, u2, p1, p2, p3, p4, c1, d1, d2

TwoUsers == [x \in Purchases \cup Cancels |-> IF x = p4 THEN u2 ELSE u1]
\* Neither the handlers nor the purchases of the first story are told apart; all
\* properties are safety properties.
CallsAlike == Permutations(Deliveries) \cup Permutations({p1, p2})

\* A call that is not made is one that was refused before it did anything.
NotMade(calls) ==
  /\ \A p \in Purchases : purchase[p] = IF p \in calls THEN "REFUSED" ELSE "idle"
  /\ \A c \in Cancels : cancel[c] = IF c \in calls THEN "NOT_CANCELLABLE" ELSE "idle"

MCInit ==
  /\ rows = {} /\ setups = {} /\ usesCount = 0 /\ blind = {}
  /\ purchase \in [Purchases -> {"idle", "REFUSED"}]
  /\ cancel \in [Cancels -> {"idle", "NOT_CANCELLABLE"}]
  /\ NotMade({p3, p4}) \/ NotMade({p1, p2, c1})
  /\ stripe = [p \in Purchases |-> "none"]
  /\ ending = {} /\ emitted = {}
  /\ recorded = {} /\ handled = {}
  /\ delivery = [d \in Deliveries |-> [step |-> "idle"]]

\* A setup session that no purchase is left to read is not opened.
SetupIsUsed ==
  setups' \subseteq setups \cup {UserOf[p] : p \in {q \in Purchases : purchase[q] = "idle"}}

\* Of the second story's subscriptions Stripe only reports that they were created.
SecondIsQuiet == \A e \in emitted' : e.sub \in WithPromo => e.type = "created"

MCSpec == MCInit /\ [][Next]_subscriptionVars
=============================================================================
