-------------------------- MODULE CompositionProofs --------------------------
(* The components around createRedemption, for every value of the constants:*)
(* validation, suspension and its sweep (Validation), and renewals and      *)
(* their events (Renewal).  Each implements Redemption, and so has every    *)
(* safety property proved there.                                            *)
EXTENDS Validation, Renewal, RedemptionProofs

-----------------------------------------------------------------------------
(* Validation and suspension.                                               *)

\* A sweep only visits rows that exist: what Reset does to the cycle state is
\* then a RefundCycle of Redemption.
Sweeps ==
  [step: SweepSteps \ {"reset"}, todo: SUBSET redemptions]
    \cup [step: {"reset"}, todo: SUBSET redemptions, row: redemptions]

SweepInv == TypeOK /\ sweep \in [Admins -> Sweeps]

\* Rows of VoucherRedemption are never deleted.
LEMMA RowsStay ==
  ASSUME [Next]_vars
  PROVE  redemptions \subseteq redemptions'
<1>1. CASE UNCHANGED vars
  BY <1>1 DEF vars
<1>2. CASE Tick \/ \E S \in SUBSET Volatile : EligibilityChanges(S)
  BY <1>2 DEF Tick, EligibilityChanges
<1>3. CASE (\E u \in Users : ResetVoucherCycle(u))
             \/ \E u \in Users, v \in Vouchers : RefundCycle(u, v)
  BY <1>3 DEF ResetVoucherCycle, RefundCycle
<1>4. ASSUME NEW r \in Requests, CreateRedemption(r)
      PROVE  redemptions \subseteq redemptions'
  BY <1>4 DEF CreateRedemption, ReadVoucher, ReadBranch, ReadSubscription,
     ReadHistory, PassPin, Claim, ClaimReusable, ClaimTimeLimited, ClaimCycle,
     CreateCycleRow, RetryClaim, InsertRedemption
<1> QED
  BY <1>1, <1>2, <1>3, <1>4 DEF Next, Environment

-----------------------------------------------------------------------------
(* Every step of the composition is a step of Redemption, or a stutter.     *)

\* A suspension takes the merchant's vouchers out of eligibility, or does nothing.
LEMMA SuspendToggles ==
  ASSUME NEW a \in Admins, Suspend(a)
  PROVE  [Next]_vars
<1>1. CASE MerchantActive
  <2> DEFINE S == eligible \cap Vouchers
  <2>1. S \in SUBSET Volatile
    BY StaffAssumption
  <2>2. eligible' = (eligible \ S) \cup (S \ eligible)
    BY <1>1 DEF Suspend
  <2> QED
    BY <1>1, <2>1, <2>2 DEF Suspend, EligibilityChanges, Next, Environment
<1>2. CASE ~MerchantActive
  BY <1>2 DEF Suspend, vars
<1> QED
  BY <1>1, <1>2

\* The row that a sweep resets is the row of a user and a voucher.
LEMMA ResetRefunds ==
  ASSUME SweepInv, NEW a \in Admins, Reset(a)
  PROVE  [Next]_vars
<1> DEFINE x == sweep[a].row
<1>1. x \in redemptions
  BY DEF SweepInv, Sweeps, Reset
<1>2. x.user \in Users /\ x.voucher \in Vouchers
  BY <1>1 DEF SweepInv, TypeOK, RedemptionRow
<1>3. RefundCycle(x.user, x.voucher) \/ UNCHANGED vars
  BY DEF Reset
<1> QED
  BY <1>2, <1>3 DEF Next, Environment

LEMMA StepImplements == SweepInv /\ [ValidationNext]_allVars => [Next]_vars
<1> SUFFICES ASSUME SweepInv, [ValidationNext]_allVars PROVE [Next]_vars
  OBVIOUS
<1>1. CASE UNCHANGED allVars
  BY <1>1 DEF allVars
<1>2. CASE TimePasses
  BY <1>2 DEF TimePasses, Next, Environment
<1>3. CASE BranchChanges
  <2>1. PICK S \in SUBSET (Volatile \cap Branches) : EligibilityChanges(S)
    BY <1>3 DEF BranchChanges
  <2> QED
    BY <2>1 DEF Next, Environment
<1>4. CASE Reactivate
  <2> DEFINE S == Vouchers \ eligible
  <2>1. S \in SUBSET Volatile /\ eligible' = (eligible \ S) \cup (S \ eligible)
    BY <1>4, StaffAssumption DEF Reactivate
  <2> QED
    BY <1>4, <2>1 DEF Reactivate, EligibilityChanges, Next, Environment
<1>5. ASSUME NEW r \in Requests, Redeem(r) PROVE [Next]_vars
  BY <1>5 DEF Redeem, Next
<1>6. ASSUME NEW s \in Staff, ReadCode(s) \/ MarkValidated(s) PROVE [Next]_vars
  BY <1>6 DEF ReadCode, MarkValidated
<1>7. ASSUME NEW a \in Admins, ListInFlight(a) \/ Visit(a) PROVE [Next]_vars
  BY <1>7 DEF ListInFlight, Visit
<1>8. ASSUME NEW a \in Admins, Suspend(a) PROVE [Next]_vars
  BY <1>8, SuspendToggles
<1>9. ASSUME NEW a \in Admins, Reset(a) PROVE [Next]_vars
  BY <1>9, ResetRefunds
<1> QED
  BY <1>1, <1>2, <1>3, <1>4, <1>5, <1>6, <1>7, <1>8, <1>9 DEF ValidationNext

-----------------------------------------------------------------------------
(* The sweeps' invariant.                                                   *)

LEMMA SweepStep == SweepInv /\ [ValidationNext]_allVars => SweepInv'
<1> SUFFICES ASSUME SweepInv, [ValidationNext]_allVars PROVE SweepInv'
  OBVIOUS
<1>1. TypeOK' /\ redemptions \subseteq redemptions'
  BY StepImplements, TypeStep, RowsStay DEF SweepInv
<1>2. ASSUME NEW f \in [Admins -> Sweeps] PROVE f \in [Admins -> Sweeps']
  BY <1>1 DEF Sweeps
<1>3. CASE sweep' = sweep
  BY <1>1, <1>2, <1>3 DEF SweepInv
<1>4. ASSUME NEW a \in Admins, NEW s \in SweepSteps \ {"reset"},
             NEW todo \in SUBSET redemptions, SweepGoes(a, s, todo)
      PROVE  SweepInv'
  <2>1. [step |-> s, todo |-> todo] \in Sweeps
    BY DEF Sweeps
  <2> QED
    BY <1>1, <1>2, <1>4, <2>1 DEF SweepGoes, SweepInv
<1>5. ASSUME NEW a \in Admins, Suspend(a) PROVE SweepInv'
  BY <1>4, <1>5 DEF Suspend, SweepSteps
<1>6. ASSUME NEW a \in Admins, ListInFlight(a) PROVE SweepInv'
  <2>1. InFlight \in SUBSET redemptions
    BY DEF InFlight
  <2> QED
    BY <1>4, <1>6, <2>1 DEF ListInFlight, SweepSteps
<1>7. ASSUME NEW a \in Admins, Visit(a) PROVE SweepInv'
  <2>1. sweep[a].todo \subseteq redemptions
    BY DEF SweepInv, Sweeps
  <2>2. CASE SweepGoes(a, "swept", {})
    BY <1>4, <2>2 DEF SweepSteps
  <2>3. ASSUME NEW x \in sweep[a].todo, SweepGoes(a, "visit", sweep[a].todo \ {x})
        PROVE  SweepInv'
    BY <1>4, <2>1, <2>3 DEF SweepSteps
  <2>4. ASSUME NEW x \in sweep[a].todo,
               sweep' = [sweep EXCEPT ![a] =
                 [step |-> "reset", todo |-> sweep[a].todo \ {x}, row |-> x]]
        PROVE  SweepInv'
    <3>1. [step |-> "reset", todo |-> sweep[a].todo \ {x}, row |-> x] \in Sweeps
      BY <2>1 DEF Sweeps
    <3> QED
      BY <1>1, <1>2, <2>4, <3>1 DEF SweepInv
  <2> QED
    BY <1>7, <2>2, <2>3, <2>4 DEF Visit
<1>8. ASSUME NEW a \in Admins, Reset(a) PROVE SweepInv'
  <2>1. sweep[a].todo \subseteq redemptions
    BY DEF SweepInv, Sweeps
  <2> QED
    BY <1>4, <1>8, <2>1 DEF Reset, SweepSteps
<1> QED
  BY <1>3, <1>5, <1>6, <1>7, <1>8 DEF ValidationNext, allVars, validationVars,
     TimePasses, Reactivate, BranchChanges, Redeem, ReadCode, MarkValidated

LEMMA SweepInit == ValidationInit => SweepInv
<1> SUFFICES ASSUME ValidationInit PROVE SweepInv
  OBVIOUS
<1>1. TypeOK
  BY NatAssumption DEF ValidationInit, Init, TypeOK, Instants, CycleRow, Steps
<1>2. [step |-> "idle", todo |-> {}] \in Sweeps
  BY DEF Sweeps, SweepSteps
<1> QED
  BY <1>1, <1>2 DEF SweepInv, ValidationInit

\* Whatever staff and admins do, the requests of createRedemption meet only rows
\* that Redemption lets them meet: suspension, reactivation and the refund sweep
\* refine its environment.
THEOREM ValidationImplements == ValidationSpec => ImplementsRedemption
<1>1. ValidationInit => Init
  BY DEF ValidationInit
<1>2. ValidationSpec => []SweepInv
  BY SweepInit, SweepStep, PTL DEF ValidationSpec
<1> QED
  BY <1>1, <1>2, StepImplements, PTL DEF ValidationSpec, Spec, ImplementsRedemption

\* One use per cycle, beyond those given back by a refund, also holds while staff
\* validate codes and admins suspend and reactivate the merchant.
THEOREM OncePerCycleUnderSuspension == ValidationSpec => []OncePerCycle
BY ValidationImplements, OncePerCycleHolds, PTL DEF ImplementsRedemption

\* So does all that the customer is promised: the composition implements Entitlement
\* (redemption/service.ts createRedemption, admin/merchants/service.ts refundInflightCycles).
THEOREM SuspensionKeepsPromise == ValidationSpec => KeepsPromise
BY ValidationImplements, RedemptionKeepsPromise, PTL DEF ImplementsRedemption

-----------------------------------------------------------------------------
(* A sweep that ran to its end has freed whoever it found.                  *)

\* A use that no sweep has cleared since it was made still holds its user's flag, in
\* its cycle or a later one.
StandingInv ==
  \A x \in redemptions : Kind[x.voucher] = "CYCLE" /\ x.code \notin cleared =>
    /\ cycleState[<<x.user, x.voucher>>].redeemed
    /\ CycleStart[x.user][x.at] <= cycleState[<<x.user, x.voucher>>].start

ClearingInv == StandingInv /\ ClearedBetweenUses

\* What a step of the composition does to the uses and their flags.
LEMMA ClearingCases ==
  ASSUME SweepInv, StageInv, [ValidationNext]_allVars
  PROVE  \/ UNCHANGED <<redemptions, cycleState, cleared>>
         \/ \E r \in Requests : ClaimOf(r) /\ UNCHANGED cleared
         \/ \E x \in redemptions : RefundCycle(x.user, x.voucher) /\ ClearedWith(x)
<1> DEFINE Same == UNCHANGED <<redemptions, cycleState, cleared>>
<1>1. CASE UNCHANGED allVars
  BY <1>1 DEF allVars, vars, validationVars
<1>2. CASE TimePasses \/ BranchChanges \/ Reactivate
  BY <1>2 DEF TimePasses, Tick, BranchChanges, EligibilityChanges, Reactivate, validationVars
<1>3. ASSUME NEW r \in Requests, Redeem(r)
      PROVE  Same \/ (ClaimOf(r) /\ UNCHANGED cleared)
  BY <1>3, RequestStep DEF Redeem, validationVars
<1>4. ASSUME NEW s \in Staff, ReadCode(s) \/ MarkValidated(s) PROVE Same
  BY <1>4 DEF ReadCode, MarkValidated, vars
<1>5. ASSUME NEW a \in Admins, Suspend(a) \/ ListInFlight(a) \/ Visit(a) PROVE Same
  BY <1>5 DEF Suspend, ListInFlight, Visit, vars
<1>6. ASSUME NEW a \in Admins, Reset(a)
      PROVE  Same \/ \E x \in redemptions : RefundCycle(x.user, x.voucher) /\ ClearedWith(x)
  <2>1. sweep[a].row \in redemptions
    BY <1>6 DEF SweepInv, Sweeps, Reset
  <2> QED
    BY <1>6, <2>1 DEF Reset, vars
<1> QED
  BY <1>1, <1>2, <1>3, <1>4, <1>5, <1>6 DEF ValidationNext

\* A claim finds no standing use of its cycle, and its own is then the standing one.
LEMMA ClaimStands ==
  ASSUME Inv, ClearingInv, NEW r \in Requests, ClaimOf(r), UNCHANGED cleared
  PROVE  ClearingInv'
<1> DEFINE p == <<ask[r].user, ask[r].voucher>>
           n == NewRow(r)
<1>1. /\ n.user = ask[r].user /\ n.voucher = ask[r].voucher /\ n.at = at[r]
      /\ p \in Users \X Vouchers
  BY NewRowFields DEF Inv
<1>2. redemptions' = redemptions \cup {n}
  BY DEF ClaimOf
<1>3. ASSUME NEW x \in redemptions
      PROVE  /\ <<x.user, x.voucher>> \in Users \X Vouchers
             /\ CycleStart[x.user][x.at] \in Int
             /\ cycleState[<<x.user, x.voucher>>].start \in Int
  BY CycleStartType DEF Inv, TypeOK, RedemptionRow, CycleRow, Instants
<1>4. ASSUME Kind[ask[r].voucher] = "CYCLE"
      PROVE  /\ cycleState' = [cycleState EXCEPT ![p] =
                   [exists |-> TRUE, start |-> StartOfCycle(r), redeemed |-> TRUE]]
             /\ ~cycleState[p].redeemed \/ cycleState[p].start < StartOfCycle(r)
             /\ StartOfCycle(r) \in Int /\ StartOfCycle(r) = CycleStart[n.user][n.at]
  <2>1. StartOfCycle(r) \in Instants
    BY CycleStartType DEF StartOfCycle, Inv, TypeOK, Asks
  <2>2. SetClaimed(r) /\ (Reclaimable(r) \/ ~Row(r).exists)
    BY <1>4 DEF ClaimOf
  <2> QED
    BY <1>1, <2>1, <2>2 DEF SetClaimed, Reclaimable, Row, Inv, RowInv, Instants, StartOfCycle
<1>5. ASSUME NEW x \in redemptions, Kind[x.voucher] = "CYCLE", x.code \notin cleared,
             x.user = n.user, x.voucher = n.voucher
      PROVE  CycleStart[x.user][x.at] < StartOfCycle(r)
  BY <1>1, <1>3, <1>4, <1>5 DEF ClearingInv, StandingInv
<1>6. StandingInv'
  <2> SUFFICES ASSUME NEW x \in redemptions', Kind[x.voucher] = "CYCLE", x.code \notin cleared
               PROVE  /\ cycleState'[<<x.user, x.voucher>>].redeemed
                      /\ CycleStart[x.user][x.at] <= cycleState'[<<x.user, x.voucher>>].start
    BY DEF StandingInv
  <2>1. CASE x = n
    BY <1>1, <1>4, <2>1 DEF Inv, TypeOK
  <2>2. CASE x \in redemptions /\ <<x.user, x.voucher>> = p
    BY <1>1, <1>3, <1>4, <1>5, <2>2 DEF Inv, TypeOK
  <2>3. CASE x \in redemptions /\ <<x.user, x.voucher>> # p
    <3>1. cycleState'[<<x.user, x.voucher>>] = cycleState[<<x.user, x.voucher>>]
      BY <1>3, <1>4, <2>3, ParameterAssumption, <1>1 DEF ClaimOf, Inv, TypeOK
    <3> QED
      BY <2>3, <3>1 DEF ClearingInv, StandingInv
  <2> QED
    BY <1>2, <2>1, <2>2, <2>3
<1>7. ClearedBetweenUses'
  <2> SUFFICES ASSUME NEW x \in redemptions', NEW y \in redemptions', x # y, SamePair(x, y),
                      Kind[x.voucher] = "CYCLE",
                      CycleStart[x.user][x.at] = CycleStart[x.user][y.at],
                      x.code \notin cleared, y.code \notin cleared
               PROVE  FALSE
    BY DEF ClearedBetweenUses
  <2>1. CASE x \in redemptions /\ y \in redemptions
    BY <2>1 DEF ClearingInv, ClearedBetweenUses
  <2>2. CASE x = n /\ y \in redemptions
    BY <1>1, <1>3, <1>4, <1>5, <2>2 DEF SamePair
  <2>3. CASE y = n /\ x \in redemptions
    BY <1>1, <1>3, <1>4, <1>5, <2>3 DEF SamePair
  <2> QED
    BY <1>2, <2>1, <2>2, <2>3
<1> QED
  BY <1>6, <1>7 DEF ClearingInv

\* A clearing leaves no use of its user and voucher standing.
LEMMA ClearingClears ==
  ASSUME Inv, ClearingInv, NEW x \in redemptions, RefundCycle(x.user, x.voucher), ClearedWith(x)
  PROVE  ClearingInv'
<1>1. redemptions' = redemptions /\ cleared \subseteq cleared'
  BY DEF RefundCycle, ClearedWith
<1>2. ASSUME NEW y \in redemptions, y.code \notin cleared'
      PROVE  cycleState'[<<y.user, y.voucher>>] = cycleState[<<y.user, y.voucher>>]
  <2>1. ~SamePair(x, y)
    BY <1>2 DEF ClearedWith, UsesLike
  <2>2. <<y.user, y.voucher>> # <<x.user, x.voucher>> /\ <<y.user, y.voucher>> \in Users \X Vouchers
    BY <2>1 DEF SamePair, Inv, TypeOK, RedemptionRow
  <2> QED
    BY <2>2 DEF RefundCycle, Inv, TypeOK
<1>3. StandingInv'
  BY <1>1, <1>2 DEF ClearingInv, StandingInv
<1>4. ClearedBetweenUses'
  BY <1>1 DEF ClearingInv, ClearedBetweenUses, SamePair
<1> QED
  BY <1>3, <1>4 DEF ClearingInv

LEMMA ClearingStep == Inv /\ SweepInv /\ ClearingInv /\ [ValidationNext]_allVars => ClearingInv'
<1> SUFFICES ASSUME Inv, SweepInv, ClearingInv, [ValidationNext]_allVars PROVE ClearingInv'
  OBVIOUS
<1>1. CASE UNCHANGED <<redemptions, cycleState, cleared>>
  BY <1>1 DEF ClearingInv, StandingInv, ClearedBetweenUses, SamePair
<1> QED
  BY <1>1, ClearingCases, ClaimStands, ClearingClears DEF Inv

\* What a sweep owes each row that it found.
Freed(x) ==
  \/ Superseded(x)
  \/ x.code \in cleared

\* A sweep has freed every row that it found and need not visit any more.
Reached(a) ==
  /\ \A x \in listed[a] : x \in redemptions /\ Kind[x.voucher] = "CYCLE"
  /\ sweep[a].todo \subseteq listed[a]
  /\ sweep[a].step = "swept" => sweep[a].todo = {}
  /\ sweep[a].step \in {"visit", "swept"} =>
       \A x \in listed[a] \ sweep[a].todo : Freed(x)
  /\ sweep[a].step = "reset" =>
       /\ sweep[a].row \in listed[a]
       /\ \A x \in listed[a] \ (sweep[a].todo \cup {sweep[a].row}) : Freed(x)

ReachInv ==
  /\ DOMAIN listed = Admins
  /\ \A a \in Admins : Reached(a)

\* Nobody is taken back what a sweep gave.
LEMMA FreedStays ==
  ASSUME [Next]_vars, cleared \subseteq cleared', NEW x \in redemptions, Freed(x)
  PROVE  Freed(x)'
<1>1. Superseded(x) => Superseded(x)'
  BY RowsStay DEF Superseded, SamePair
<1> QED
  BY <1>1 DEF Freed

\* A step that does not move a sweep leaves it what it has reached.
LEMMA ReachStays ==
  ASSUME [Next]_vars, cleared \subseteq cleared', NEW a \in Admins, Reached(a),
         listed'[a] = listed[a], sweep'[a] = sweep[a]
  PROVE  Reached(a)'
<1>1. \A x \in listed[a] : x \in redemptions /\ x \in redemptions' /\ Kind[x.voucher] = "CYCLE"
  BY RowsStay DEF Reached
<1>2. \A x \in listed[a] : Freed(x) => Freed(x)'
  BY <1>1, FreedStays
<1> QED
  BY <1>1, <1>2 DEF Reached

\* A row is skipped if a newer redemption owns its flag, else it is at hand.
LEMMA VisitReaches ==
  ASSUME SweepInv, NEW a \in Admins, Reached(a), Visit(a)
  PROVE  Reached(a)'
<1>1. /\ UNCHANGED <<vars, listed, cleared>> /\ sweep[a].step = "visit"
      /\ \A x \in listed[a] : Freed(x)' <=> Freed(x)
  BY DEF Visit, Freed, Superseded, vars
<1>2. CASE sweep[a].todo = {} /\ SweepGoes(a, "swept", {})
  <2>1. sweep'[a] = [step |-> "swept", todo |-> {}]
    BY <1>2 DEF SweepGoes, SweepInv
  <2> QED
    BY <1>1, <1>2, <2>1 DEF Reached, vars
<1>3. ASSUME NEW x \in sweep[a].todo, Superseded(x),
             SweepGoes(a, "visit", sweep[a].todo \ {x})
      PROVE  Reached(a)'
  <2>1. sweep'[a] = [step |-> "visit", todo |-> sweep[a].todo \ {x}]
    BY <1>3 DEF SweepGoes, SweepInv
  <2>2. Freed(x)
    BY <1>3 DEF Freed
  <2> QED
    BY <1>1, <1>3, <2>1, <2>2 DEF Reached, vars
<1>4. ASSUME NEW x \in sweep[a].todo,
             sweep' = [sweep EXCEPT ![a] =
               [step |-> "reset", todo |-> sweep[a].todo \ {x}, row |-> x]]
      PROVE  Reached(a)'
  <2>1. sweep'[a] = [step |-> "reset", todo |-> sweep[a].todo \ {x}, row |-> x]
    BY <1>4 DEF SweepInv
  <2> QED
    BY <1>1, <1>4, <2>1 DEF Reached, vars
<1> QED
  BY <1>2, <1>3, <1>4 DEF Visit

\* The row at hand is freed by the reset, or its flag was cleared before it.
LEMMA ResetReaches ==
  ASSUME SweepInv, StandingInv, [Next]_vars, NEW a \in Admins, Reached(a), Reset(a)
  PROVE  Reached(a)'
<1>0. PICK x : x = sweep[a].row
  OBVIOUS
<1>1. /\ listed' = listed /\ sweep[a].step = "reset"
      /\ sweep'[a] = [step |-> "visit", todo |-> sweep[a].todo]
  BY DEF Reset, SweepGoes, SweepInv
<1>2. cleared \subseteq cleared'
  BY DEF Reset, ClearedWith
<1>3. \A y \in listed[a] : y \in redemptions /\ y \in redemptions' /\ Kind[y.voucher] = "CYCLE"
  BY RowsStay DEF Reached
<1>4. \A y \in listed[a] : Freed(y) => Freed(y)'
  BY <1>2, <1>3, FreedStays
<1>5. x \in listed[a]
  BY <1>0, <1>1 DEF Reached
<1>6. Freed(x)'
  <2>1. CASE x.code \in cleared'
    BY <2>1 DEF Freed
  <2>2. CASE ~cycleState[<<x.user, x.voucher>>].redeemed
    <3>1. Freed(x)
      BY <1>3, <1>5, <2>2 DEF StandingInv, Freed
    <3> QED
      BY <1>4, <1>5, <3>1
  <2> QED
    BY <1>0, <1>3, <1>5, <2>1, <2>2 DEF Reset, ClearedWith, UsesLike, SamePair
<1> QED
  BY <1>0, <1>1, <1>3, <1>4, <1>5, <1>6 DEF Reached

LEMMA ReachStep ==
  ASSUME SweepInv, StandingInv, ReachInv, [ValidationNext]_allVars
  PROVE  ReachInv'
<1>1. [Next]_vars
  BY StepImplements
<1>2. cleared \subseteq cleared' /\ DOMAIN listed' = Admins
  BY DEF ReachInv, ValidationNext, allVars, validationVars, TimePasses, Reactivate,
     BranchChanges, Redeem, ReadCode, MarkValidated, Suspend, ListInFlight, Visit, Reset,
     ClearedWith
<1>3. ASSUME UNCHANGED <<sweep, listed>> PROVE ReachInv'
  BY <1>1, <1>2, <1>3, ReachStays DEF ReachInv
<1>4. ASSUME NEW a \in Admins, Suspend(a) \/ ListInFlight(a) \/ Visit(a) \/ Reset(a),
             NEW b \in Admins \ {a}
      PROVE  sweep'[b] = sweep[b] /\ listed'[b] = listed[b]
  BY <1>4 DEF Suspend, ListInFlight, Visit, Reset, SweepGoes, SweepInv, ReachInv
<1>5. ASSUME NEW a \in Admins, Suspend(a) \/ ListInFlight(a) \/ Visit(a) \/ Reset(a),
             Reached(a)'
      PROVE  ReachInv'
  BY <1>1, <1>2, <1>4, <1>5, ReachStays DEF ReachInv
<1>6. ASSUME NEW a \in Admins, Suspend(a) PROVE Reached(a)'
  <2>1. /\ sweep'[a].todo = {} /\ sweep'[a].step \in {"list", "ALREADY_SUSPENDED"}
        /\ UNCHANGED <<listed, redemptions>>
    BY <1>6 DEF Suspend, SweepGoes, SweepInv
  <2> QED
    BY <2>1 DEF ReachInv, Reached
<1>7. ASSUME NEW a \in Admins, ListInFlight(a) PROVE Reached(a)'
  <2>1. /\ sweep'[a] = [step |-> "visit", todo |-> InFlight] /\ listed'[a] = InFlight
        /\ redemptions' = redemptions
    BY <1>7 DEF ListInFlight, SweepGoes, SweepInv, ReachInv, vars
  <2> QED
    BY <2>1 DEF Reached, InFlight
<1>8. ASSUME NEW a \in Admins, Visit(a) \/ Reset(a) PROVE Reached(a)'
  BY <1>1, <1>8, VisitReaches, ResetReaches DEF ReachInv
<1> QED
  BY <1>3, <1>5, <1>6, <1>7, <1>8 DEF ValidationNext, allVars, validationVars,
     TimePasses, Reactivate, BranchChanges, Redeem, ReadCode, MarkValidated

LEMMA ClearingHolds == ValidationSpec => [](SweepInv /\ Inv /\ ClearingInv)
<1>1. ValidationInit => ClearingInv
  BY DEF ValidationInit, Init, ClearingInv, StandingInv, ClearedBetweenUses
<1>2. ValidationSpec => []SweepInv
  BY SweepInit, SweepStep, PTL DEF ValidationSpec
<1>3. ValidationSpec => []Inv
  BY ValidationImplements, InvHolds, PTL DEF ImplementsRedemption
<1> QED
  BY <1>1, <1>2, <1>3, ClearingStep, PTL DEF ValidationSpec

\* Of two uses in one cycle, a sweep cleared the flag of one after it was made: for any
\* number of requests, sweeps and members of staff (redemption/service.ts claimWhere,
\* admin/merchants/service.ts refundInflightCycles).
THEOREM ClearedBetweenUsesHolds == ValidationSpec => []ClearedBetweenUses
<1>1. ClearingInv => ClearedBetweenUses
  BY DEF ClearingInv
<1> QED
  BY <1>1, ClearingHolds, PTL

\* A sweep that ran to its end has given every use it found in flight back after that
\* use was made, or a later one owns the flag, while its customers go on redeeming and
\* are swept by other suspensions.
THEOREM SweepReachesAllHolds == ValidationSpec => []SweepReachesAll
<1>1. ValidationInit => ReachInv
  BY DEF ValidationInit, ReachInv, Reached
<1>2. SweepInv /\ ClearingInv /\ ReachInv /\ [ValidationNext]_allVars => ReachInv'
  BY ReachStep DEF ClearingInv
<1>3. ReachInv => SweepReachesAll
  BY DEF ReachInv, Reached, Freed, Superseded, SweepReachesAll
<1> QED
  BY <1>1, <1>2, <1>3, ClearingHolds, PTL DEF ValidationSpec

-----------------------------------------------------------------------------
(* Renewals.                                                                *)

\* Every clearing of a flag is paid for by a renewal whose event was handled.
ResetsArePaid ==
  \A u \in Users, v \in Vouchers : restored[<<u, v>>] <= Cardinality(Delivered(u))

BillingInv ==
  /\ TypeOK
  /\ billed \subseteq Renewals /\ undelivered \subseteq billed
  /\ IsFiniteSet(billed)
  /\ ResetsArePaid

LEMMA DeliveredFinite ==
  ASSUME BillingInv, NEW u \in Users
  PROVE  IsFiniteSet(Delivered(u)) /\ Cardinality(Delivered(u)) \in Nat
<1>1. Delivered(u) \subseteq billed
  BY DEF Delivered
<1> QED
  BY <1>1, FS_Subset, FS_CardinalityType DEF BillingInv

LEMMA ResetCases ==
  ASSUME NEW u \in Users, Resets(u)
  PROVE  ResetVoucherCycle(u) \/ UNCHANGED vars
BY DEF Resets

\* Every step of the composition is a step of Redemption, or a stutter.
LEMMA StepIsAllowedFor == BillingInv /\ [RenewalNext]_renewalVars => [Next]_vars
<1> SUFFICES ASSUME BillingInv, [RenewalNext]_renewalVars PROVE [Next]_vars
  OBVIOUS
<1>1. CASE UNCHANGED renewalVars
  BY <1>1 DEF renewalVars
<1>2. CASE BillingTime
  BY <1>2 DEF BillingTime, Next, Environment
<1>3. ASSUME NEW u \in Users, Renew(u) PROVE [Next]_vars
  BY <1>3 DEF Renew
<1>4. ASSUME NEW n \in Renewals, RenewalEvent(n) PROVE [Next]_vars
  <2>1. n[1] \in Users
    BY DEF Renewals
  <2> QED
    BY <1>4, <2>1, ResetCases DEF RenewalEvent, Next, Environment
<1>5. ASSUME NEW r \in Requests, RedeemBilled(r) PROVE [Next]_vars
  BY <1>5 DEF RedeemBilled, Next
<1> QED
  BY <1>1, <1>2, <1>3, <1>4, <1>5 DEF RenewalNext

\* createRedemption never clears a flag.
LEMMA RequestsRestoreNothing ==
  ASSUME NEW r \in Requests, CreateRedemption(r)
  PROVE  restored' = restored
BY DEF CreateRedemption, ReadVoucher, ReadBranch, ReadSubscription, ReadHistory,
   PassPin, Claim, ClaimReusable, ClaimTimeLimited, ClaimCycle, CreateCycleRow, RetryClaim

\* Handling a renewal's event adds it to what its user was granted, and clears
\* each of the user's flags at most once.
LEMMA EventPays ==
  ASSUME BillingInv, NEW n \in Renewals, RenewalEvent(n)
  PROVE  ResetsArePaid'
<1>1. n[1] \in Users /\ n \in billed /\ n \notin Delivered(n[1])
  BY DEF Renewals, RenewalEvent, BillingInv, Delivered
<1>2. Delivered(n[1])' = Delivered(n[1]) \cup {n}
  BY <1>1 DEF RenewalEvent, Delivered, BillingInv
<1>3. \A u \in Users : u # n[1] => Delivered(u)' = Delivered(u)
  BY DEF RenewalEvent, Delivered
<1>4. Cardinality(Delivered(n[1])') = Cardinality(Delivered(n[1])) + 1
  BY <1>1, <1>2, DeliveredFinite, FS_AddElement
<1>5. ASSUME NEW u \in Users, NEW v \in Vouchers
      PROVE  /\ restored[<<u, v>>] \in Nat
             /\ restored'[<<u, v>>] = restored[<<u, v>>]
                  \/ (u = n[1] /\ restored'[<<u, v>>] = restored[<<u, v>>] + 1)
  <2>1. <<u, v>> \in Users \X Vouchers /\ restored[<<u, v>>] \in Nat
    BY NatAssumption DEF BillingInv, TypeOK
  <2>2. CASE ResetVoucherCycle(n[1])
    BY <2>1, <2>2 DEF ResetVoucherCycle
  <2>3. CASE UNCHANGED vars
    BY <2>1, <2>3 DEF vars
  <2> QED
    BY <1>1, <2>1, <2>2, <2>3, ResetCases DEF RenewalEvent
<1> SUFFICES ASSUME NEW u \in Users, NEW v \in Vouchers
             PROVE  restored'[<<u, v>>] <= Cardinality(Delivered(u)')
  BY DEF ResetsArePaid
<1>6. restored[<<u, v>>] <= Cardinality(Delivered(u)) /\ Cardinality(Delivered(u)) \in Nat
  BY DeliveredFinite DEF BillingInv, ResetsArePaid
<1> QED
  BY <1>3, <1>4, <1>5, <1>6

LEMMA BillingStep == BillingInv /\ [RenewalNext]_renewalVars => BillingInv'
<1> SUFFICES ASSUME BillingInv, [RenewalNext]_renewalVars PROVE BillingInv'
  OBVIOUS
<1>1. TypeOK'
  BY StepIsAllowedFor, TypeStep DEF BillingInv
<1>2. CASE UNCHANGED <<restored, billed, undelivered>>
  BY <1>1, <1>2 DEF BillingInv, ResetsArePaid, Delivered
<1>3. ASSUME NEW u \in Users, Renew(u) PROVE BillingInv'
  <2> DEFINE m == <<u, CycleStart[u][clock]>>
  <2>1. m \in Renewals /\ m \notin billed
    BY <1>3, CycleStartType DEF Renew, Renewals, BillingInv, TypeOK
  <2>2. billed' = billed \cup {m} /\ undelivered' = undelivered \cup {m}
    BY <1>3 DEF Renew
  <2>3. \A w \in Users : Delivered(w)' = Delivered(w)
    BY <2>1, <2>2 DEF Delivered, BillingInv
  <2>4. IsFiniteSet(billed')
    BY <2>2, FS_AddElement DEF BillingInv
  <2>5. restored' = restored
    BY <1>3 DEF Renew, vars
  <2> QED
    BY <1>1, <2>1, <2>2, <2>3, <2>4, <2>5 DEF BillingInv, ResetsArePaid
<1>4. ASSUME NEW n \in Renewals, RenewalEvent(n) PROVE BillingInv'
  BY <1>1, <1>4, EventPays DEF RenewalEvent, BillingInv
<1>5. ASSUME NEW r \in Requests, RedeemBilled(r)
      PROVE  UNCHANGED <<restored, billed, undelivered>>
  BY <1>5, RequestsRestoreNothing DEF RedeemBilled, billingVars
<1>6. CASE BillingTime
  BY <1>2, <1>6 DEF BillingTime, Tick, billingVars
<1>7. CASE UNCHANGED renewalVars
  BY <1>2, <1>7 DEF renewalVars, vars, billingVars
<1> QED
  BY <1>2, <1>3, <1>4, <1>5, <1>6, <1>7 DEF RenewalNext

LEMMA BillingInit == RenewalInit => BillingInv
<1> SUFFICES ASSUME RenewalInit PROVE BillingInv
  OBVIOUS
<1>1. TypeOK
  BY NatAssumption DEF RenewalInit, Init, TypeOK, Instants, CycleRow, Steps
<1>2. \A u \in Users : Delivered(u) = {}
  BY DEF RenewalInit, Delivered
<1>3. ASSUME NEW u \in Users, NEW v \in Vouchers
      PROVE  restored[<<u, v>>] <= Cardinality(Delivered(u))
  <2>1. Cardinality(Delivered(u)) = 0
    BY <1>2, FS_EmptySet
  <2>2. restored[<<u, v>>] = 0
    BY DEF RenewalInit, Init
  <2> QED
    BY <2>1, <2>2
<1> QED
  BY <1>1, <1>3, FS_EmptySet DEF BillingInv, RenewalInit, ResetsArePaid

\* Renewals and their events only do to the cycle rows what Redemption lets its
\* environment do, so what is proved of createRedemption holds around billing.
LEMMA RenewalImplements == RenewalSpec => Spec
<1>1. RenewalInit => Init
  BY DEF RenewalInit
<1> QED
  BY <1>1, BillingInit, BillingStep, StepIsAllowedFor, PTL DEF RenewalSpec, Spec

\* The promise to the customer holds around billing too: with the resets of the
\* renewals, createRedemption implements Entitlement (subscription/webhook.ts).
THEOREM RenewalKeepsPromise == RenewalSpec => KeepsPromise
BY RenewalImplements, RedemptionKeepsPromise, PTL

\* No use without a payment: once per cycle, and once more per renewal event.
THEOREM UsesArePaidForHolds == RenewalSpec => []UsesArePaidFor
<1>1. RenewalSpec => []BillingInv
  BY BillingInit, BillingStep, PTL DEF RenewalSpec
<1>2. RenewalSpec => []Inv
  BY RenewalImplements, InvHolds, PTL DEF Spec
<1>3. BillingInv /\ Inv /\ OncePerCycle => UsesArePaidFor
  <2> SUFFICES ASSUME BillingInv, Inv, OncePerCycle,
                      NEW u \in Users, NEW v \in Vouchers, Kind[v] = "CYCLE",
                      NEW c \in Instants
               PROVE  Cardinality(InCycle(u, v, c)) <= 1 + Cardinality(Delivered(u))
    BY DEF UsesArePaidFor
  <2>1. Cardinality(InCycle(u, v, c)) <= 1 + restored[<<u, v>>]
    BY DEF OncePerCycle
  <2>2. restored[<<u, v>>] <= Cardinality(Delivered(u))
    BY DEF BillingInv, ResetsArePaid
  <2>3. restored[<<u, v>>] \in Nat /\ Cardinality(Delivered(u)) \in Nat
    BY DeliveredFinite, NatAssumption DEF BillingInv, TypeOK
  <2>4. Cardinality(InCycle(u, v, c)) \in Nat
    BY FS_Subset, FS_CardinalityType DEF Inv, InCycle
  <2> QED
    BY <2>1, <2>2, <2>3, <2>4
<1> QED
  BY <1>1, <1>2, <1>3, RenewalImplements, OncePerCycleHolds, PTL DEF Spec
=============================================================================
