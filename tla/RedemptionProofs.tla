--------------------------- MODULE RedemptionProofs ---------------------------
(* What is proved of Redemption for every value of its constants.          *)
EXTENDS Redemption, FiniteSetTheorems, TLAPS

\* Every step of createRedemption, for the case splits below.
LEMMA NextCases ==
  ASSUME Next
  PROVE  \/ Tick
         \/ \E S \in SUBSET Volatile : EligibilityChanges(S)
         \/ \E u \in Users : ResetVoucherCycle(u)
         \/ \E u \in Users, v \in Vouchers : RefundCycle(u, v)
         \/ \E r \in Requests : \/ ReadVoucher(r) \/ ReadBranch(r)
                                \/ ReadSubscription(r) \/ ReadHistory(r)
                                \/ PassPin(r) \/ ClaimReusable(r)
                                \/ ClaimTimeLimited(r) \/ ClaimCycle(r)
                                \/ CreateCycleRow(r) \/ RetryClaim(r)
BY DEF Next, Environment, CreateRedemption, Claim

-----------------------------------------------------------------------------
(* Types.                                                                   *)

LEMMA CycleStartType ==
  ASSUME NEW u \in Users, NEW t \in Instants
  PROVE  /\ CycleStart[u][t] \in Instants
         /\ CycleStart[u][t] <= t
BY CycleAssumption

\* What every step that claims a cycle row leaves behind is well typed.
LEMMA SetClaimedType ==
  ASSUME TypeOK, NEW r \in Requests, SetClaimed(r)
  PROVE  cycleState' \in [Users \X Vouchers -> CycleRow]
<1>1. ask[r].user \in Users /\ ask[r].voucher \in Vouchers /\ at[r] \in Instants
  BY DEF TypeOK, Asks
<1>2. StartOfCycle(r) \in Instants
  BY <1>1, CycleStartType DEF StartOfCycle
<1>3. [exists |-> TRUE, start |-> StartOfCycle(r), redeemed |-> TRUE] \in CycleRow
  BY <1>2 DEF CycleRow
<1> QED
  BY <1>3 DEF SetClaimed, TypeOK

LEMMA InsertRedemptionType ==
  ASSUME TypeOK, NEW r \in Requests, InsertRedemption(r)
  PROVE  redemptions' \subseteq RedemptionRow
<1>1. CodeOf[r] \in Codes
  BY ParameterAssumption
<1>2. [code |-> CodeOf[r], user |-> ask[r].user, voucher |-> ask[r].voucher,
       branch |-> ask[r].branch, at |-> at[r]] \in RedemptionRow
  BY <1>1 DEF TypeOK, Asks, RedemptionRow
<1> QED
  BY <1>2 DEF InsertRedemption, TypeOK

LEMMA GotoType ==
  ASSUME TypeOK, NEW r \in Requests, NEW s \in Steps \cup Answers, Goto(r, s)
  PROVE  stage' \in [Requests -> Steps \cup Answers]
BY DEF TypeOK, Goto

LEMMA TypeStep == TypeOK /\ [Next]_vars => TypeOK'
<1> SUFFICES ASSUME TypeOK, [Next]_vars PROVE TypeOK'
  OBVIOUS
<1> USE DEF Steps, Answers
<1>1. CASE UNCHANGED vars
  BY <1>1 DEF TypeOK, vars
<1>2. CASE Tick
  BY <1>2, NatAssumption DEF Tick, TypeOK, Instants
<1>3. ASSUME NEW S \in SUBSET Volatile, EligibilityChanges(S) PROVE TypeOK'
  BY <1>3, ParameterAssumption DEF EligibilityChanges, TypeOK
<1>4. ASSUME NEW u \in Users, ResetVoucherCycle(u) PROVE TypeOK'
  <2> DEFINE hit == {v \in Vouchers : cycleState[<<u, v>>].redeemed}
  <2>1. cycleState' \in [Users \X Vouchers -> CycleRow]
    BY <1>4, ZenonT(60) DEF ResetVoucherCycle, TypeOK, CycleRow
  <2>2. ASSUME NEW p \in Users \X Vouchers
        PROVE  (IF p[1] = u /\ p[2] \in hit THEN restored[p] + 1 ELSE restored[p])
                  \in 0 .. MaxRestores
    <3>1. restored[p] \in 0 .. MaxRestores
      BY DEF TypeOK
    <3>2. CASE p[1] = u /\ p[2] \in hit
      <4>1. p = <<u, p[2]>>
        BY <3>2
      <4>2. restored[p] < MaxRestores
        BY <1>4, <3>2, <4>1 DEF ResetVoucherCycle
      <4> QED
        BY <3>1, <3>2, <4>2, NatAssumption
    <3> QED
      BY <3>1, <3>2
  <2>3. restored' \in [Users \X Vouchers -> 0 .. MaxRestores]
    BY <1>4, <2>2 DEF ResetVoucherCycle
  <2> QED
    BY <1>4, <2>1, <2>3 DEF ResetVoucherCycle, TypeOK
<1>5. ASSUME NEW u \in Users, NEW v \in Vouchers, RefundCycle(u, v) PROVE TypeOK'
  <2>1. cycleState' \in [Users \X Vouchers -> CycleRow]
    BY <1>5, ZenonT(40) DEF RefundCycle, TypeOK, CycleRow
  <2>2. restored' \in [Users \X Vouchers -> 0 .. MaxRestores]
    <3>1. restored[<<u, v>>] + 1 \in 0 .. MaxRestores
      BY <1>5, NatAssumption DEF RefundCycle, TypeOK
    <3> QED
      BY <1>5, <3>1 DEF RefundCycle, TypeOK
  <2> QED
    BY <1>5, <2>1, <2>2 DEF RefundCycle, TypeOK
<1>6. ASSUME NEW r \in Requests, ReadVoucher(r) PROVE TypeOK'
  BY <1>6 DEF ReadVoucher, Goto, TypeOK
<1>7. ASSUME NEW r \in Requests, ReadBranch(r) PROVE TypeOK'
  BY <1>7 DEF ReadBranch, Goto, TypeOK
<1>8. ASSUME NEW r \in Requests, ReadSubscription(r) PROVE TypeOK'
  BY <1>8 DEF ReadSubscription, Goto, TypeOK
<1>9. ASSUME NEW r \in Requests, ReadHistory(r) PROVE TypeOK'
  BY <1>9 DEF ReadHistory, Goto, TypeOK
<1>10. ASSUME NEW r \in Requests, PassPin(r) PROVE TypeOK'
  BY <1>10 DEF PassPin, Goto, TypeOK
<1>11. ASSUME NEW r \in Requests, ClaimReusable(r) PROVE TypeOK'
  <2>1. redemptions' \subseteq RedemptionRow
    BY <1>11, InsertRedemptionType DEF ClaimReusable, TypeOK
  <2> QED
    BY <1>11, <2>1 DEF ClaimReusable, Goto, TypeOK
<1>12. ASSUME NEW r \in Requests, ClaimTimeLimited(r) PROVE TypeOK'
  <2>1. redemptions' \subseteq RedemptionRow
    BY <1>12, InsertRedemptionType DEF ClaimTimeLimited, TypeOK
  <2> QED
    BY <1>12, <2>1 DEF ClaimTimeLimited, Goto, TypeOK
<1>13. ASSUME NEW r \in Requests, ClaimCycle(r) PROVE TypeOK'
  <2>1. redemptions' \subseteq RedemptionRow
    BY <1>13, InsertRedemptionType DEF ClaimCycle, TypeOK
  <2>2. cycleState' \in [Users \X Vouchers -> CycleRow]
    BY <1>13, SetClaimedType DEF ClaimCycle, TypeOK
  <2> QED
    BY <1>13, <2>1, <2>2 DEF ClaimCycle, Goto, TypeOK
<1>14. ASSUME NEW r \in Requests, CreateCycleRow(r) PROVE TypeOK'
  <2>1. redemptions' \subseteq RedemptionRow
    BY <1>14, InsertRedemptionType DEF CreateCycleRow, TypeOK
  <2>2. cycleState' \in [Users \X Vouchers -> CycleRow]
    BY <1>14, SetClaimedType DEF CreateCycleRow, TypeOK
  <2> QED
    BY <1>14, <2>1, <2>2 DEF CreateCycleRow, Goto, TypeOK
<1>15. ASSUME NEW r \in Requests, RetryClaim(r) PROVE TypeOK'
  <2>1. redemptions' \subseteq RedemptionRow
    BY <1>15, InsertRedemptionType DEF RetryClaim, TypeOK
  <2>2. cycleState' \in [Users \X Vouchers -> CycleRow]
    BY <1>15, SetClaimedType DEF RetryClaim, TypeOK
  <2> QED
    BY <1>15, <2>1, <2>2 DEF RetryClaim, Goto, TypeOK
<1> QED
  BY <1>1, <1>2, <1>3, <1>4, <1>5, <1>6, <1>7, <1>8, <1>9, <1>10, <1>11,
     <1>12, <1>13, <1>14, <1>15, NextCases

\* The tables and the requests of createRedemption stay well typed.
THEOREM TypeCorrect == Spec => []TypeOK
<1>1. Init => TypeOK
  BY NatAssumption DEF Init, TypeOK, Instants, CycleRow, Steps
<1> QED
  BY <1>1, TypeStep, PTL DEF Spec

-----------------------------------------------------------------------------
(* The inductive invariant.                                                 *)

\* Only a cycle voucher reaches the create and the retry, and a request past
\* the first read of a TIME_LIMITED voucher captured its `now` in a window.
StageInv ==
  \A r \in Requests :
    /\ stage[r] \in {"create", "retry"} => Kind[ask[r].voucher] = "CYCLE"
    /\ (stage[r] \in Steps \ {"idle"} /\ Kind[ask[r].voucher] = "TIME_LIMITED")
         => WindowsAt(ask[r].voucher, at[r]) # {}

RowInv == \A p \in Users \X Vouchers : cycleState[p].redeemed => cycleState[p].exists

\* 1 when the row of (u, v) bars a claim in the cycle starting at c.
Barred(u, v, c) ==
  IF cycleState[<<u, v>>].redeemed /\ cycleState[<<u, v>>].start >= c THEN 1 ELSE 0

\* OncePerCycle made inductive: a cycle whose uses have reached the allowance
\* is barred by the row.
AllowanceInv ==
  \A u \in Users, v \in Vouchers : Kind[v] = "CYCLE" =>
    \A c \in Instants :
      Cardinality(InCycle(u, v, c)) <= restored[<<u, v>>] + Barred(u, v, c)

Inv ==
  /\ TypeOK
  /\ StageInv
  /\ RowInv
  /\ IsFiniteSet(redemptions)
  /\ AllowanceInv
  /\ CooldownSpacing
  /\ OncePerWindow

\* The row that request r inserts.
NewRow(r) ==
  [code |-> CodeOf[r], user |-> ask[r].user, voucher |-> ask[r].voucher,
   branch |-> ask[r].branch, at |-> at[r]]

\* The ledger is append-only, and it grows only by a claim that its kind allows.
ClaimOf(r) ==
  /\ redemptions' = redemptions \cup {NewRow(r)}
  /\ ~CodeTaken(r)
  /\ Goto(r, "REDEEMED")
  /\ stage[r] \in {"claim", "create", "retry"}
  /\ UNCHANGED <<ask, at, restored>>
  /\ \/ /\ Kind[ask[r].voucher] = "REUSABLE"
        /\ ~InCooldown(r) /\ UNCHANGED cycleState
     \/ /\ Kind[ask[r].voucher] = "TIME_LIMITED"
        /\ ~SlotTaken(r) /\ UNCHANGED cycleState
     \/ /\ Kind[ask[r].voucher] = "CYCLE"
        /\ Reclaimable(r) \/ ~Row(r).exists
        /\ SetClaimed(r)

\* A request changes the ledger or the cycle rows only as a claim.
LEMMA RequestStep ==
  ASSUME StageInv, NEW r \in Requests, CreateRedemption(r)
  PROVE  UNCHANGED <<redemptions, cycleState, restored>> \/ ClaimOf(r)
<1> DEFINE Same == UNCHANGED <<redemptions, cycleState, restored>>
<1> USE DEF NewRow, InsertRedemption, ClaimOf
<1>1. ASSUME \/ ReadVoucher(r) \/ ReadBranch(r) \/ ReadSubscription(r)
             \/ ReadHistory(r) \/ PassPin(r)
      PROVE  Same
  BY <1>1 DEF ReadVoucher, ReadBranch, ReadSubscription, ReadHistory, PassPin
<1>2. ASSUME ClaimReusable(r) PROVE Same \/ ClaimOf(r)
  BY <1>2 DEF ClaimReusable
<1>3. ASSUME ClaimTimeLimited(r) PROVE Same \/ ClaimOf(r)
  BY <1>3 DEF ClaimTimeLimited
<1>4. ASSUME ClaimCycle(r) PROVE Same \/ ClaimOf(r)
  BY <1>4 DEF ClaimCycle
<1>5. ASSUME CreateCycleRow(r) PROVE Same \/ ClaimOf(r)
  BY <1>5 DEF CreateCycleRow, StageInv
<1>6. ASSUME RetryClaim(r) PROVE Same \/ ClaimOf(r)
  BY <1>6 DEF RetryClaim, StageInv
<1> QED
  BY <1>1, <1>2, <1>3, <1>4, <1>5, <1>6 DEF CreateRedemption, Claim

\* A step changes the ledger or the cycle rows only as a claim, a reset or a refund.
LEMMA TableStep ==
  ASSUME StageInv, [Next]_vars
  PROVE  \/ UNCHANGED <<redemptions, cycleState, restored>>
         \/ \E r \in Requests : ClaimOf(r)
         \/ \E u \in Users : ResetVoucherCycle(u)
         \/ \E u \in Users, v \in Vouchers : RefundCycle(u, v)
<1> DEFINE Same == UNCHANGED <<redemptions, cycleState, restored>>
<1>1. CASE UNCHANGED vars
  BY <1>1 DEF vars
<1>2. CASE Tick
  BY <1>2 DEF Tick
<1>3. ASSUME NEW S \in SUBSET Volatile, EligibilityChanges(S) PROVE Same
  BY <1>3 DEF EligibilityChanges
<1>4. ASSUME NEW r \in Requests, CreateRedemption(r) PROVE Same \/ ClaimOf(r)
  BY <1>4, RequestStep
<1> QED
  BY <1>1, <1>2, <1>3, <1>4 DEF Next, Environment

LEMMA NewRowFields ==
  ASSUME TypeOK, NEW r \in Requests
  PROVE  /\ NewRow(r) \in RedemptionRow
         /\ NewRow(r).code = CodeOf[r]
         /\ NewRow(r).user = ask[r].user /\ ask[r].user \in Users
         /\ NewRow(r).voucher = ask[r].voucher /\ ask[r].voucher \in Vouchers
         /\ NewRow(r).at = at[r] /\ at[r] \in Instants
BY ParameterAssumption DEF TypeOK, Asks, NewRow, RedemptionRow

-----------------------------------------------------------------------------
(* Each part of the invariant is preserved.                                 *)

LEMMA StageStep == Inv /\ [Next]_vars => StageInv'
<1> SUFFICES ASSUME Inv, [Next]_vars PROVE StageInv'
  OBVIOUS
<1> USE DEF Inv, Goto, TypeOK, Asks
<1>1. CASE UNCHANGED vars
  BY <1>1 DEF vars, StageInv, WindowsAt, Steps
<1>2. CASE Tick
  BY <1>2 DEF Tick, StageInv, WindowsAt, Steps
<1>3. ASSUME NEW S \in SUBSET Volatile, EligibilityChanges(S) PROVE StageInv'
  BY <1>3 DEF EligibilityChanges, StageInv, WindowsAt, Steps
<1>4. ASSUME NEW u \in Users, ResetVoucherCycle(u) PROVE StageInv'
  BY <1>4 DEF ResetVoucherCycle, StageInv, WindowsAt, Steps
<1>5. ASSUME NEW u \in Users, NEW v \in Vouchers, RefundCycle(u, v) PROVE StageInv'
  BY <1>5 DEF RefundCycle, StageInv, WindowsAt, Steps
<1>6. ASSUME NEW r \in Requests, ReadVoucher(r) PROVE StageInv'
  <2> SUFFICES ASSUME NEW q \in Requests
               PROVE  /\ stage'[q] \in {"create", "retry"} => Kind[ask[q].voucher] = "CYCLE"
                      /\ (stage'[q] \in Steps \ {"idle"} /\ Kind[ask[q].voucher] = "TIME_LIMITED")
                           => WindowsAt(ask[q].voucher, at'[q]) # {}
    BY <1>6 DEF ReadVoucher, StageInv, WindowsAt
  <2>1. CASE q = r
    BY <1>6, <2>1 DEF ReadVoucher, Steps
  <2>2. CASE q # r
    BY <1>6, <2>2 DEF ReadVoucher, StageInv, Steps
  <2> QED
    BY <2>1, <2>2
<1>7. ASSUME NEW r \in Requests, ReadBranch(r) PROVE StageInv'
  BY <1>7 DEF ReadBranch, StageInv, WindowsAt, Steps
<1>8. ASSUME NEW r \in Requests, ReadSubscription(r) PROVE StageInv'
  BY <1>8 DEF ReadSubscription, StageInv, WindowsAt, Steps
<1>9. ASSUME NEW r \in Requests, ReadHistory(r) PROVE StageInv'
  BY <1>9 DEF ReadHistory, StageInv, WindowsAt, Steps
<1>10. ASSUME NEW r \in Requests, PassPin(r) PROVE StageInv'
  BY <1>10 DEF PassPin, StageInv, WindowsAt, Steps
<1>11. ASSUME NEW r \in Requests, ClaimReusable(r) PROVE StageInv'
  BY <1>11 DEF ClaimReusable, StageInv, WindowsAt, Steps
<1>12. ASSUME NEW r \in Requests, ClaimTimeLimited(r) PROVE StageInv'
  BY <1>12 DEF ClaimTimeLimited, StageInv, WindowsAt, Steps
<1>13. ASSUME NEW r \in Requests, ClaimCycle(r) PROVE StageInv'
  BY <1>13 DEF ClaimCycle, StageInv, WindowsAt, Steps
<1>14. ASSUME NEW r \in Requests, CreateCycleRow(r) PROVE StageInv'
  BY <1>14 DEF CreateCycleRow, StageInv, WindowsAt, Steps
<1>15. ASSUME NEW r \in Requests, RetryClaim(r) PROVE StageInv'
  BY <1>15 DEF RetryClaim, StageInv, WindowsAt, Steps
<1> QED
  BY <1>1, <1>2, <1>3, <1>4, <1>5, <1>6, <1>7, <1>8, <1>9, <1>10, <1>11,
     <1>12, <1>13, <1>14, <1>15, NextCases

LEMMA RowStep == Inv /\ [Next]_vars => RowInv'
<1> SUFFICES ASSUME Inv, [Next]_vars PROVE RowInv'
  OBVIOUS
<1> USE DEF Inv, TypeOK, RowInv, CycleRow
<1>1. CASE UNCHANGED <<redemptions, cycleState, restored>>
  BY <1>1
<1>2. ASSUME NEW r \in Requests, ClaimOf(r) PROVE RowInv'
  <2>1. CASE cycleState' = cycleState
    BY <2>1
  <2>2. CASE SetClaimed(r)
    <3>1. ASSUME NEW p \in Users \X Vouchers, cycleState'[p].redeemed
          PROVE  cycleState'[p].exists
      <4>1. CASE p = <<ask[r].user, ask[r].voucher>>
        BY <2>2, <4>1 DEF SetClaimed
      <4>2. CASE p # <<ask[r].user, ask[r].voucher>>
        BY <2>2, <3>1, <4>2 DEF SetClaimed
      <4> QED
        BY <4>1, <4>2
    <3> QED
      BY <3>1
  <2> QED
    BY <1>2, <2>1, <2>2 DEF ClaimOf
<1>3. ASSUME NEW u \in Users, ResetVoucherCycle(u) PROVE RowInv'
  BY <1>3, ZenonT(40) DEF ResetVoucherCycle
<1>4. ASSUME NEW u \in Users, NEW v \in Vouchers, RefundCycle(u, v) PROVE RowInv'
  BY <1>4 DEF RefundCycle
<1> QED
  BY <1>1, <1>2, <1>3, <1>4, TableStep

LEMMA FiniteStep == Inv /\ [Next]_vars => IsFiniteSet(redemptions)'
<1> SUFFICES ASSUME Inv, [Next]_vars PROVE IsFiniteSet(redemptions')
  OBVIOUS
<1>1. ASSUME NEW r \in Requests, ClaimOf(r) PROVE IsFiniteSet(redemptions')
  BY <1>1, FS_AddElement DEF ClaimOf, Inv
<1>2. CASE redemptions' = redemptions
  BY <1>2 DEF Inv
<1> QED
  BY <1>1, <1>2, TableStep DEF Inv, ResetVoucherCycle, RefundCycle

LEMMA CooldownStep == Inv /\ [Next]_vars => CooldownSpacing'
<1> SUFFICES ASSUME Inv, [Next]_vars PROVE CooldownSpacing'
  OBVIOUS
<1>1. ASSUME NEW r \in Requests, ClaimOf(r) PROVE CooldownSpacing'
  <2> SUFFICES ASSUME NEW x \in redemptions', NEW y \in redemptions',
                      x # y, x.user = y.user, x.voucher = y.voucher,
                      Kind[x.voucher] = "REUSABLE"
               PROVE  \/ x.at + Cooldown[x.voucher] <= y.at
                      \/ y.at + Cooldown[x.voucher] <= x.at
    BY DEF CooldownSpacing
  <2>1. ASSUME NEW z \in redemptions, z.user = ask[r].user, z.voucher = ask[r].voucher,
               Kind[ask[r].voucher] = "REUSABLE"
        PROVE  z.at + Cooldown[ask[r].voucher] <= at[r]
    <3>1. ~InCooldown(r)
      BY <1>1, <2>1 DEF ClaimOf
    <3>2. z.at \in Int /\ at[r] \in Int /\ Cooldown[ask[r].voucher] \in Int
      BY ParameterAssumption DEF Inv, TypeOK, RedemptionRow, Instants, Asks
    <3> QED
      BY <2>1, <3>1, <3>2 DEF InCooldown, Earlier
  <2>2. CASE x \in redemptions /\ y \in redemptions
    BY <2>2 DEF Inv, CooldownSpacing
  <2>3. CASE x = NewRow(r) /\ y \in redemptions
    BY <2>1, <2>3, NewRowFields DEF Inv
  <2>4. CASE y = NewRow(r) /\ x \in redemptions
    BY <2>1, <2>4, NewRowFields DEF Inv
  <2> QED
    BY <1>1, <2>2, <2>3, <2>4 DEF ClaimOf
<1> QED
  BY <1>1, TableStep DEF Inv, CooldownSpacing, ResetVoucherCycle, RefundCycle

LEMMA WindowStep == Inv /\ [Next]_vars => OncePerWindow'
<1> SUFFICES ASSUME Inv, [Next]_vars PROVE OncePerWindow'
  OBVIOUS
<1> USE DEF WindowsAt
<1>1. ASSUME NEW r \in Requests, ClaimOf(r) PROVE OncePerWindow'
  <2> SUFFICES ASSUME NEW x \in redemptions', Kind[x.voucher] = "TIME_LIMITED"
               PROVE  /\ WindowsAt(x.voucher, x.at) # {}
                      /\ \A y \in redemptions' :
                           (x.user = y.user /\ x.voucher = y.voucher
                              /\ WindowsAt(x.voucher, x.at) \cap WindowsAt(x.voucher, y.at) # {})
                             => x = y
    BY DEF OncePerWindow
  <2>1. Kind[ask[r].voucher] = "TIME_LIMITED" => WindowsAt(ask[r].voucher, at[r]) # {}
    BY <1>1 DEF ClaimOf, Inv, StageInv, Steps
  <2>2. WindowsAt(x.voucher, x.at) # {}
    BY <1>1, <2>1, NewRowFields DEF ClaimOf, Inv, OncePerWindow
  <2>3. ASSUME NEW y \in redemptions', x.user = y.user, x.voucher = y.voucher,
               WindowsAt(x.voucher, x.at) \cap WindowsAt(x.voucher, y.at) # {}
        PROVE  x = y
    <3>1. ASSUME NEW z \in redemptions, z.user = ask[r].user, z.voucher = ask[r].voucher,
                 Kind[ask[r].voucher] = "TIME_LIMITED"
          PROVE  WindowsAt(ask[r].voucher, at[r]) \cap WindowsAt(ask[r].voucher, z.at) = {}
      BY <1>1, <3>1 DEF ClaimOf, SlotTaken, Earlier
    <3>2. CASE x \in redemptions /\ y \in redemptions
      BY <2>3, <3>2 DEF Inv, OncePerWindow
    <3>3. CASE x = NewRow(r) /\ y \in redemptions
      BY <2>3, <3>1, <3>3, NewRowFields DEF Inv
    <3>4. CASE y = NewRow(r) /\ x \in redemptions
      BY <2>3, <3>1, <3>4, NewRowFields DEF Inv
    <3> QED
      BY <1>1, <3>2, <3>3, <3>4 DEF ClaimOf
  <2> QED
    BY <2>2, <2>3
<1> QED
  BY <1>1, TableStep DEF Inv, OncePerWindow, ResetVoucherCycle, RefundCycle

\* A claim adds its row to the uses of its cycle, and to those of no other.
LEMMA UsesAfterClaim ==
  ASSUME Inv, NEW r \in Requests, ClaimOf(r),
         NEW u \in Users, NEW v \in Vouchers, NEW c \in Instants
  PROVE  /\ IsFiniteSet(InCycle(u, v, c))
         /\ (u = ask[r].user /\ v = ask[r].voucher /\ c = StartOfCycle(r))
              => Cardinality(InCycle(u, v, c)') = Cardinality(InCycle(u, v, c)) + 1
         /\ ~(u = ask[r].user /\ v = ask[r].voucher /\ c = StartOfCycle(r))
              => InCycle(u, v, c)' = InCycle(u, v, c)
<1>1. IsFiniteSet(InCycle(u, v, c))
  BY FS_Subset DEF Inv, InCycle
<1>2. NewRow(r) \notin redemptions
  BY NewRowFields DEF ClaimOf, CodeTaken, Inv
<1>3. CASE u = ask[r].user /\ v = ask[r].voucher /\ c = StartOfCycle(r)
  <2>1. InCycle(u, v, c)' = InCycle(u, v, c) \cup {NewRow(r)}
    BY <1>3, NewRowFields DEF ClaimOf, InCycle, StartOfCycle, Inv
  <2>2. NewRow(r) \notin InCycle(u, v, c)
    BY <1>2 DEF InCycle
  <2>3. Cardinality(InCycle(u, v, c) \cup {NewRow(r)}) = Cardinality(InCycle(u, v, c)) + 1
    BY <1>1, <2>2, FS_AddElement
  <2> QED
    BY <1>1, <1>3, <2>1, <2>3
<1>4. CASE ~(u = ask[r].user /\ v = ask[r].voucher /\ c = StartOfCycle(r))
  BY <1>1, <1>4, NewRowFields DEF ClaimOf, InCycle, StartOfCycle, Inv
<1> QED
  BY <1>3, <1>4

LEMMA AllowanceStep == Inv /\ [Next]_vars => AllowanceInv'
<1> SUFFICES ASSUME Inv, [Next]_vars,
                    NEW u \in Users, NEW v \in Vouchers, Kind[v] = "CYCLE",
                    NEW c \in Instants
             PROVE  Cardinality(InCycle(u, v, c)') <= restored'[<<u, v>>] + Barred(u, v, c)'
  BY DEF AllowanceInv, InCycle
<1> DEFINE p == <<u, v>>
<1>1. /\ IsFiniteSet(InCycle(u, v, c))
      /\ Cardinality(InCycle(u, v, c)) \in Nat
      /\ Cardinality(InCycle(u, v, c)) <= restored[p] + Barred(u, v, c)
      /\ restored[p] \in Nat
      /\ cycleState[p] \in CycleRow
      /\ p \in Users \X Vouchers
  <2>1. IsFiniteSet(InCycle(u, v, c))
    BY FS_Subset DEF Inv, InCycle
  <2> QED
    BY <2>1, FS_CardinalityType DEF Inv, TypeOK, AllowanceInv
<1>2. CASE UNCHANGED <<redemptions, cycleState, restored>>
  BY <1>1, <1>2 DEF InCycle, Barred
<1>3. ASSUME NEW r \in Requests, ClaimOf(r)
      PROVE  Cardinality(InCycle(u, v, c)') <= restored'[p] + Barred(u, v, c)'
  <2> DEFINE mine == u = ask[r].user /\ v = ask[r].voucher
  <2>1. restored' = restored
    BY <1>3 DEF ClaimOf
  <2>2. CASE ~mine
    <3>1. cycleState'[p] = cycleState[p]
      BY <1>3, <2>2 DEF ClaimOf, SetClaimed, Inv, TypeOK, Asks
    <3>2. InCycle(u, v, c)' = InCycle(u, v, c)
      BY <1>3, <2>2, UsesAfterClaim
    <3> QED
      BY <1>1, <2>1, <3>1, <3>2 DEF Barred
  <2>3. CASE mine
    <3>1. /\ cycleState'[p] = [exists |-> TRUE, start |-> StartOfCycle(r), redeemed |-> TRUE]
          /\ StartOfCycle(r) \in Int
      <4>1. StartOfCycle(r) \in Instants
        BY CycleStartType DEF StartOfCycle, Inv, TypeOK, Asks
      <4> QED
        BY <1>1, <1>3, <2>3, <4>1 DEF ClaimOf, SetClaimed, Inv, TypeOK, Instants
    <3>2. cycleState[p].start < StartOfCycle(r) \/ ~cycleState[p].redeemed
      BY <1>1, <1>3, <2>3 DEF ClaimOf, Reclaimable, Row, Inv, RowInv
    <3>3. cycleState[p].start \in Int /\ cycleState[p].redeemed \in BOOLEAN /\ c \in Int
      BY <1>1 DEF CycleRow, Instants
    <3>4. CASE c = StartOfCycle(r)
      <4>1. Cardinality(InCycle(u, v, c)') = Cardinality(InCycle(u, v, c)) + 1
        BY <1>3, <2>3, <3>4, UsesAfterClaim
      <4>2. Barred(u, v, c) = 0
        BY <3>2, <3>3, <3>4 DEF Barred
      <4>3. Barred(u, v, c)' = 1
        BY <3>1, <3>4 DEF Barred
      <4> QED
        BY <1>1, <2>1, <4>1, <4>2, <4>3
    <3>5. CASE c # StartOfCycle(r)
      <4>1. InCycle(u, v, c)' = InCycle(u, v, c)
        BY <1>3, <3>5, UsesAfterClaim
      <4>2. Barred(u, v, c) <= Barred(u, v, c)'
        BY <3>1, <3>2, <3>3, <3>5 DEF Barred
      <4>3. Barred(u, v, c) \in {0, 1} /\ Barred(u, v, c)' \in {0, 1}
        BY DEF Barred
      <4> QED
        BY <1>1, <2>1, <4>1, <4>2, <4>3
    <3> QED
      BY <3>4, <3>5
  <2> QED
    BY <2>2, <2>3
<1>4. ASSUME NEW w \in Users, ResetVoucherCycle(w)
      PROVE  Cardinality(InCycle(u, v, c)') <= restored'[p] + Barred(u, v, c)'
  <2>1. InCycle(u, v, c)' = InCycle(u, v, c)
    BY <1>4 DEF ResetVoucherCycle, InCycle
  <2>2. CASE u = w /\ cycleState[p].redeemed
    <3>1. restored'[p] = restored[p] + 1
      BY <1>1, <1>4, <2>2 DEF ResetVoucherCycle
    <3>2. Barred(u, v, c) \in {0, 1} /\ Barred(u, v, c)' \in {0, 1}
      BY DEF Barred
    <3> QED
      BY <1>1, <2>1, <3>1, <3>2
  <2>3. CASE ~(u = w /\ cycleState[p].redeemed)
    <3>1. restored'[p] = restored[p] /\ cycleState'[p] = cycleState[p]
      BY <1>1, <1>4, <2>3 DEF ResetVoucherCycle
    <3> QED
      BY <1>1, <2>1, <3>1 DEF Barred
  <2> QED
    BY <2>2, <2>3
<1>5. ASSUME NEW w \in Users, NEW x \in Vouchers, RefundCycle(w, x)
      PROVE  Cardinality(InCycle(u, v, c)') <= restored'[p] + Barred(u, v, c)'
  <2>1. InCycle(u, v, c)' = InCycle(u, v, c)
    BY <1>5 DEF RefundCycle, InCycle
  <2>2. CASE u = w /\ v = x
    <3>1. restored'[p] = restored[p] + 1
      BY <1>1, <1>5, <2>2 DEF RefundCycle, Inv, TypeOK
    <3>2. Barred(u, v, c) \in {0, 1} /\ Barred(u, v, c)' \in {0, 1}
      BY DEF Barred
    <3> QED
      BY <1>1, <2>1, <3>1, <3>2
  <2>3. CASE ~(u = w /\ v = x)
    <3>1. restored'[p] = restored[p] /\ cycleState'[p] = cycleState[p]
      BY <1>1, <1>5, <2>3 DEF RefundCycle, Inv, TypeOK
    <3> QED
      BY <1>1, <2>1, <3>1 DEF Barred
  <2> QED
    BY <2>2, <2>3
<1> QED
  BY <1>2, <1>3, <1>4, <1>5, TableStep DEF Inv

-----------------------------------------------------------------------------
(* The theorems.                                                            *)

LEMMA InitInv == Init => Inv
<1> SUFFICES ASSUME Init PROVE Inv
  OBVIOUS
<1>1. TypeOK
  BY NatAssumption DEF Init, TypeOK, Instants, CycleRow, Steps
<1>2. IsFiniteSet(redemptions)
  BY FS_EmptySet DEF Init
<1>3. AllowanceInv
  <2> SUFFICES ASSUME NEW u \in Users, NEW v \in Vouchers, NEW c \in Instants
               PROVE  Cardinality(InCycle(u, v, c)) <= restored[<<u, v>>] + Barred(u, v, c)
    BY DEF AllowanceInv
  <2>1. InCycle(u, v, c) = {}
    BY DEF Init, InCycle
  <2>2. restored[<<u, v>>] = 0 /\ Barred(u, v, c) = 0
    BY DEF Init, Barred
  <2> QED
    BY <2>1, <2>2, FS_EmptySet
<1> QED
  BY <1>1, <1>2, <1>3
  DEF Init, Inv, StageInv, RowInv, CooldownSpacing, OncePerWindow, Steps

LEMMA InvStep == Inv /\ [Next]_vars => Inv'
BY TypeStep, StageStep, RowStep, FiniteStep, AllowanceStep, CooldownStep, WindowStep
   DEF Inv

THEOREM InvHolds == Spec => []Inv
BY InitInv, InvStep, PTL DEF Spec

\* A cycle voucher is redeemed in a cycle at most once more than its flag was
\* cleared from outside: createRedemption's claim is race-free for any number
\* of concurrent requests.
THEOREM OncePerCycleHolds == Spec => []OncePerCycle
<1>1. Inv => OncePerCycle
  <2> SUFFICES ASSUME Inv, NEW u \in Users, NEW v \in Vouchers, Kind[v] = "CYCLE",
                      NEW c \in Instants
               PROVE  Cardinality(InCycle(u, v, c)) <= 1 + restored[<<u, v>>]
    BY DEF OncePerCycle
  <2>1. Cardinality(InCycle(u, v, c)) <= restored[<<u, v>>] + Barred(u, v, c)
    BY DEF Inv, AllowanceInv
  <2>2. IsFiniteSet(InCycle(u, v, c))
    BY FS_Subset DEF Inv, InCycle
  <2>3. Cardinality(InCycle(u, v, c)) \in Nat /\ restored[<<u, v>>] \in Nat
    BY <2>2, FS_CardinalityType DEF Inv, TypeOK
  <2>4. Barred(u, v, c) \in {0, 1}
    BY DEF Barred
  <2> QED
    BY <2>1, <2>3, <2>4
<1> QED
  BY <1>1, InvHolds, PTL

\* Uses of a REUSABLE voucher are a cooldown apart, for any number of requests.
THEOREM CooldownSpacingHolds == Spec => []CooldownSpacing
<1>1. Inv => CooldownSpacing
  BY DEF Inv
<1> QED
  BY <1>1, InvHolds, PTL

\* A TIME_LIMITED voucher is used at most once in a window occurrence.
THEOREM OncePerWindowHolds == Spec => []OncePerWindow
<1>1. Inv => OncePerWindow
  BY DEF Inv
<1> QED
  BY <1>1, InvHolds, PTL

-----------------------------------------------------------------------------
(* Refinement: every step of createRedemption is a step of Entitlement or   *)
(* leaves its ledger alone.                                                 *)

\* A claim of a cycle voucher finds an unused allowance in its cycle.
LEMMA RoomInCycle ==
  ASSUME Inv, Inv', NEW r \in Requests, ClaimOf(r), Kind[ask[r].voucher] = "CYCLE"
  PROVE  Cardinality(InCycle(ask[r].user, ask[r].voucher, StartOfCycle(r)))
           <= restored[<<ask[r].user, ask[r].voucher>>]
<1>1. PICK u \in Users, v \in Vouchers, c \in Instants :
        u = ask[r].user /\ v = ask[r].voucher /\ c = StartOfCycle(r)
  BY CycleStartType DEF StartOfCycle, Inv, TypeOK, Asks
<1>2. /\ IsFiniteSet(InCycle(u, v, c))
      /\ Cardinality(InCycle(u, v, c)') = Cardinality(InCycle(u, v, c)) + 1
  BY <1>1, UsesAfterClaim
<1>3. Cardinality(InCycle(u, v, c)') <= restored'[<<u, v>>] + Barred(u, v, c)'
  <2>1. Kind[v] = "CYCLE"
    BY <1>1
  <2> QED
    BY <2>1 DEF Inv, AllowanceInv
<1>4. Barred(u, v, c)' \in {0, 1}
  BY DEF Barred
<1>5. restored' = restored /\ restored[<<u, v>>] \in Nat
  BY DEF ClaimOf, Inv, TypeOK
<1>6. Cardinality(InCycle(u, v, c)) \in Nat
  BY <1>2, FS_CardinalityType
<1>7. Cardinality(InCycle(u, v, c)) <= restored[<<u, v>>]
  BY <1>2, <1>3, <1>4, <1>5, <1>6
<1> QED
  BY <1>1, <1>7

LEMMA ClaimIsAllowed ==
  ASSUME Inv, Inv', NEW r \in Requests, ClaimOf(r)
  PROVE  Promise!Redeem(NewRow(r)) /\ NewRow(r) \in Promise!Redemptions
<1> DEFINE x == NewRow(r)
<1>1. /\ x.user = ask[r].user /\ x.voucher = ask[r].voucher /\ x.at = at[r]
      /\ x.user \in Users /\ x.voucher \in Vouchers /\ x.at \in Instants
      /\ x.code = CodeOf[r] /\ x \in RedemptionRow
  BY NewRowFields DEF Inv
<1>2. \A y \in redemptions : y.code # x.code
  BY <1>1 DEF ClaimOf, CodeTaken
<1>3. redemptions' = redemptions \cup {x} /\ UNCHANGED restored
  BY DEF ClaimOf
<1>4. Promise!Allowed(x)
  <2>1. CASE Kind[x.voucher] = "CYCLE"
    <3>1. CycleStart[x.user][x.at] = StartOfCycle(r)
      BY <1>1 DEF StartOfCycle
    <3>2. Cardinality(InCycle(x.user, x.voucher, StartOfCycle(r)))
            <= restored[<<x.user, x.voucher>>]
      BY <1>1, <2>1, RoomInCycle
    <3>3. InCycle(x.user, x.voucher, StartOfCycle(r))
            = {y \in Promise!UsesOf(x) : CycleStart[x.user][y.at] = CycleStart[x.user][x.at]}
      BY <3>1 DEF InCycle, Promise!UsesOf
    <3> QED
      BY <2>1, <3>2, <3>3
      DEF Promise!Allowed, Promise!WithinCycleAllowance, Promise!Cardinality, Cardinality
  <2>2. CASE Kind[x.voucher] = "REUSABLE"
    <3>1. ~InCooldown(r)
      BY <1>1, <2>2 DEF ClaimOf
    <3>2. \A y \in Promise!UsesOf(x) : y.at + Cooldown[x.voucher] <= x.at
      <4> SUFFICES ASSUME NEW y \in redemptions, y.user = x.user, y.voucher = x.voucher
                   PROVE  y.at + Cooldown[x.voucher] <= x.at
        BY DEF Promise!UsesOf
      <4>1. y.at \in Int /\ x.at \in Int /\ Cooldown[x.voucher] \in Int
        BY <1>1, ParameterAssumption DEF Inv, TypeOK, RedemptionRow, Instants
      <4> QED
        BY <1>1, <3>1, <4>1 DEF InCooldown, Earlier
    <3> QED
      BY <2>2, <3>2 DEF Promise!Allowed, Promise!OutsideCooldown
  <2>3. CASE Kind[x.voucher] = "TIME_LIMITED"
    <3>1. ~SlotTaken(r) /\ WindowsAt(x.voucher, x.at) # {}
      BY <1>1, <2>3 DEF ClaimOf, Inv, StageInv, Steps
    <3>2. PICK w \in Windows[x.voucher] : x.at \in w.open
      BY <3>1 DEF WindowsAt
    <3>3. ASSUME NEW y \in redemptions, y.user = x.user, y.voucher = x.voucher
          PROVE  y.at \notin w.open
      <4>1. w \in WindowsAt(x.voucher, x.at)
        BY <3>2 DEF WindowsAt
      <4>2. w \notin WindowsAt(x.voucher, y.at)
        BY <1>1, <3>1, <3>3, <4>1 DEF SlotTaken, Earlier
      <4> QED
        BY <4>2 DEF WindowsAt
    <3>4. Promise!AloneInWindow(x)
      BY <3>2, <3>3 DEF Promise!AloneInWindow, Promise!UsesOf
    <3> QED
      BY <2>3, <3>4 DEF Promise!Allowed
  <2> QED
    BY <1>1, <2>1, <2>2, <2>3, ParameterAssumption, SMTT(30)
<1>5. x \in Promise!Redemptions
  BY <1>1 DEF Promise!Redemptions, RedemptionRow
<1> QED
  BY <1>2, <1>3, <1>4, <1>5 DEF Promise!Redeem

LEMMA PromiseStep ==
  Inv /\ Inv' /\ [Next]_vars => [Promise!Next]_<<redemptions, restored>>
<1> SUFFICES ASSUME Inv, Inv', [Next]_vars
             PROVE  [Promise!Next]_<<redemptions, restored>>
  OBVIOUS
<1>1. ASSUME NEW r \in Requests, ClaimOf(r) PROVE Promise!Next
  BY <1>1, ClaimIsAllowed DEF Promise!Next
<1>2. ASSUME NEW u \in Users, ResetVoucherCycle(u) PROVE Promise!Next
  <2> DEFINE S == {p \in Users \X Vouchers :
                     p[1] = u /\ p[2] \in {v \in Vouchers : cycleState[<<u, v>>].redeemed}}
  <2>1. Promise!GiveBack(S)
    BY <1>2 DEF ResetVoucherCycle, Promise!GiveBack
  <2>2. S \in SUBSET (Users \X Vouchers)
    OBVIOUS
  <2> QED
    BY <2>1, <2>2 DEF Promise!Next
<1>3. ASSUME NEW u \in Users, NEW v \in Vouchers, RefundCycle(u, v) PROVE Promise!Next
  <2> DEFINE S == {<<u, v>>}
  <2>1. Promise!GiveBack(S)
    BY <1>3 DEF RefundCycle, Promise!GiveBack, Inv, TypeOK
  <2>2. S \in SUBSET (Users \X Vouchers)
    OBVIOUS
  <2> QED
    BY <2>1, <2>2 DEF Promise!Next
<1> QED
  BY <1>1, <1>2, <1>3, TableStep DEF Inv

\* createRedemption implements Entitlement, for any number of users, vouchers
\* and concurrent requests.
THEOREM RedemptionKeepsPromise == Spec => KeepsPromise
<1>1. Init => Promise!Init
  BY DEF Init, Promise!Init
<1> QED
  BY <1>1, PromiseStep, InvHolds, PTL DEF Spec, KeepsPromise, Promise!Spec

-----------------------------------------------------------------------------
(* An ALREADY_REDEEMED answer is honest.                                    *)

\* The row's mark was left by a redemption of that cycle.
WitnessInv ==
  \A u \in Users, v \in Vouchers : cycleState[<<u, v>>].redeemed =>
    \E x \in redemptions : /\ x.user = u /\ x.voucher = v
                           /\ CycleStart[u][x.at] = cycleState[<<u, v>>].start

\* A retry found a row, or its code taken.
RetryInv == \A r \in Requests : stage[r] = "retry" => Row(r).exists \/ CodeTaken(r)

HonestInv == Inv /\ WitnessInv /\ RetryInv /\ HonestRefusal

LEMMA WitnessStep == HonestInv /\ [Next]_vars => WitnessInv'
<1> SUFFICES ASSUME HonestInv, [Next]_vars,
                    NEW u \in Users, NEW v \in Vouchers, cycleState'[<<u, v>>].redeemed
             PROVE  \E x \in redemptions' :
                      /\ x.user = u /\ x.voucher = v
                      /\ CycleStart[u][x.at] = cycleState'[<<u, v>>].start
  BY DEF WitnessInv
<1> DEFINE p == <<u, v>>
<1> USE DEF HonestInv, Inv, TypeOK
<1>1. redemptions \subseteq redemptions'
  BY TableStep DEF ClaimOf, ResetVoucherCycle, RefundCycle
<1>2. CASE cycleState'[p] = cycleState[p]
  BY <1>1, <1>2 DEF WitnessInv
<1>3. ASSUME NEW r \in Requests, ClaimOf(r), cycleState'[p] # cycleState[p]
      PROVE  \E x \in redemptions' :
               /\ x.user = u /\ x.voucher = v
               /\ CycleStart[u][x.at] = cycleState'[<<u, v>>].start
  <2>1. SetClaimed(r) /\ u = ask[r].user /\ v = ask[r].voucher
    BY <1>3 DEF ClaimOf, SetClaimed, Asks
  <2>2. cycleState'[p].start = CycleStart[u][at[r]]
    BY <2>1 DEF SetClaimed, StartOfCycle
  <2>3. NewRow(r) \in redemptions'
    BY <1>3 DEF ClaimOf
  <2> QED
    BY <2>1, <2>2, <2>3, NewRowFields
<1>4. ASSUME NEW w \in Users, ResetVoucherCycle(w), cycleState'[p] # cycleState[p]
      PROVE  FALSE
  <2>1. u = w /\ cycleState[p].redeemed
    BY <1>4 DEF ResetVoucherCycle
  <2>2. cycleState'[p].redeemed = FALSE
    BY <1>4, <2>1 DEF ResetVoucherCycle, CycleRow
  <2> QED
    BY <2>2
<1>5. ASSUME NEW w \in Users, NEW y \in Vouchers, RefundCycle(w, y),
             cycleState'[p] # cycleState[p]
      PROVE  FALSE
  <2>1. u = w /\ v = y
    BY <1>5 DEF RefundCycle
  <2>2. cycleState'[p].redeemed = FALSE
    BY <1>5, <2>1 DEF RefundCycle, CycleRow
  <2> QED
    BY <2>2
<1> QED
  BY <1>2, <1>3, <1>4, <1>5, TableStep

\* Rows and redemptions are only ever added.
LEMMA TablesGrow ==
  ASSUME Inv, [Next]_vars
  PROVE  /\ redemptions \subseteq redemptions'
         /\ \A p \in Users \X Vouchers : cycleState[p].exists => cycleState'[p].exists
<1> USE DEF Inv, TypeOK, Asks
<1>1. redemptions \subseteq redemptions'
  BY TableStep DEF ClaimOf, ResetVoucherCycle, RefundCycle
<1> SUFFICES ASSUME NEW p \in Users \X Vouchers, cycleState[p].exists
             PROVE  cycleState'[p].exists
  BY <1>1
<1>2. ASSUME NEW r \in Requests, ClaimOf(r) PROVE cycleState'[p].exists
  <2>1. CASE p = <<ask[r].user, ask[r].voucher>> /\ SetClaimed(r)
    BY <2>1 DEF SetClaimed
  <2>2. CASE p # <<ask[r].user, ask[r].voucher>> /\ SetClaimed(r)
    BY <2>2 DEF SetClaimed
  <2> QED
    BY <1>2, <2>1, <2>2 DEF ClaimOf
<1>3. ASSUME NEW u \in Users, ResetVoucherCycle(u) PROVE cycleState'[p].exists
  BY <1>3 DEF ResetVoucherCycle, CycleRow
<1>4. ASSUME NEW u \in Users, NEW v \in Vouchers, RefundCycle(u, v)
      PROVE  cycleState'[p].exists
  BY <1>4 DEF RefundCycle, CycleRow
<1> QED
  BY <1>2, <1>3, <1>4, TableStep

\* No request changes what it asks for.
LEMMA AskIsFixed == [Next]_vars => ask' = ask
BY NextCases, ZenonT(60) DEF Tick, EligibilityChanges, ResetVoucherCycle, RefundCycle, ReadVoucher,
   ReadBranch, ReadSubscription, ReadHistory, PassPin, ClaimReusable, ClaimTimeLimited,
   ClaimCycle, CreateCycleRow, RetryClaim, vars

\* What sends a request to its second transaction.
LEMMA RetryCause ==
  ASSUME TypeOK, [Next]_vars, NEW r \in Requests, stage'[r] = "retry", stage[r] # "retry"
  PROVE  Row(r).exists \/ CodeTaken(r)
<1> USE DEF TypeOK
<1>1. ASSUME NEW q \in Requests,
             \/ ReadVoucher(q) \/ ReadBranch(q) \/ ReadSubscription(q)
             \/ ReadHistory(q) \/ PassPin(q) \/ ClaimReusable(q)
             \/ ClaimTimeLimited(q) \/ RetryClaim(q)
      PROVE  stage'[r] # "retry" \/ stage[r] = "retry"
  BY <1>1 DEF ReadVoucher, ReadBranch, ReadSubscription, ReadHistory, PassPin,
     ClaimReusable, ClaimTimeLimited, RetryClaim, Goto
<1>2. ASSUME NEW q \in Requests, ClaimCycle(q) \/ CreateCycleRow(q) PROVE q = r
  BY <1>2 DEF ClaimCycle, CreateCycleRow, Goto
<1>3. ASSUME stage' = stage PROVE FALSE
  BY <1>3
<1>4. ClaimCycle(r) \/ CreateCycleRow(r)
  BY <1>1, <1>2, <1>3, NextCases
  DEF Tick, EligibilityChanges, ResetVoucherCycle, RefundCycle, vars
<1> QED
  BY <1>4 DEF ClaimCycle, CreateCycleRow, Reclaimable, Goto

LEMMA RetryStep ==
  ASSUME Inv, RetryInv, [Next]_vars
  PROVE  RetryInv'
<1> SUFFICES ASSUME NEW r \in Requests, stage'[r] = "retry"
             PROVE  Row(r)'.exists \/ CodeTaken(r)'
  BY DEF RetryInv
<1>1. Row(r).exists \/ CodeTaken(r)
  BY RetryCause DEF RetryInv, Inv
<1>2. ask' = ask /\ <<ask[r].user, ask[r].voucher>> \in Users \X Vouchers
  BY AskIsFixed DEF Inv, TypeOK, Asks
<1> QED
  BY <1>1, <1>2, TablesGrow DEF Row, CodeTaken

\* Where an ALREADY_REDEEMED answer comes from.
LEMMA RefusalStep ==
  ASSUME TypeOK, [Next]_vars, NEW r \in Requests, stage'[r] = "ALREADY_REDEEMED"
  PROVE  /\ ask' = ask
         /\ at'[r] = at[r]
         /\ \/ stage[r] = "ALREADY_REDEEMED"
            \/ Kind[ask[r].voucher] = "TIME_LIMITED" /\ UsedThisWindow(r)
            \/ Kind[ask[r].voucher] = "TIME_LIMITED" /\ SlotTaken(r)
            \/ Kind[ask[r].voucher] = "CYCLE" /\ UsedThisCycle(r)
            \/ stage[r] = "retry" /\ ~Reclaimable(r)
BY NextCases, ZenonT(60) DEF TypeOK, Tick, EligibilityChanges, ResetVoucherCycle, RefundCycle, ReadVoucher,
   ReadBranch, ReadSubscription, ReadHistory, PassPin, ClaimReusable, ClaimTimeLimited,
   ClaimCycle, CreateCycleRow, RetryClaim, vars, Goto

\* A refusal that nothing excuses: what HonestRefusal says of request r.
Deserved(r) ==
  \/ LostToItsCode(r)
  \/ \E x \in Earlier(r) :
       IF Kind[ask[r].voucher] = "CYCLE"
         THEN StartOfCycle(r) <= CycleStart[ask[r].user][x.at]
         ELSE SameWindow(r, x) \/ ClocksChange(r, x)

\* Guard 7 and the unique index find a use in the window, when the instants computed
\* for both windows are those at which they are open.
LEMMA WindowRefusal ==
  ASSUME Inv, NEW r \in Requests, Kind[ask[r].voucher] = "TIME_LIMITED",
         UsedThisWindow(r) \/ SlotTaken(r)
  PROVE  Deserved(r)
<1> DEFINE v == ask[r].voucher
<1>1. PICK w \in WindowsAt(v, at[r]), x \in Earlier(r) :
        \/ w.startsAt <= x.at /\ x.at < w.endsAt
        \/ \E o \in WindowsAt(v, x.at) : o.startsAt = w.startsAt
  BY DEF UsedThisWindow, SlotTaken
<1>2. x.at \in Instants /\ v \in Vouchers
  BY DEF Earlier, Inv, TypeOK, RedemptionRow, Asks
<1>3. CASE ClocksChange(r, x)
  BY <1>1, <1>3 DEF Deserved
<1>4. CASE ~ClocksChange(r, x)
  <2>1. Exact(w) /\ \A o \in WindowsAt(v, x.at) : Exact(o)
    BY <1>1, <1>4 DEF ClocksChange
  <2>2. CASE w.startsAt <= x.at /\ x.at < w.endsAt
    <3>1. x.at \in w.open
      BY <1>2, <2>1, <2>2 DEF Exact
    <3> QED
      BY <1>1, <3>1 DEF Deserved, SameWindow, WindowsAt
  <2>3. ASSUME NEW o \in WindowsAt(v, x.at), o.startsAt = w.startsAt PROVE Deserved(r)
    <3>1. /\ Exact(o) /\ x.at \in o.open /\ o \in Windows[v]
          /\ at[r] \in w.open /\ w \in Windows[v]
      BY <1>1, <2>1 DEF WindowsAt
    <3>2. /\ w.startsAt \in Int /\ w.endsAt \in Int /\ o.endsAt \in Int
          /\ at[r] \in Instants
      BY <1>2, <3>1, WindowAssumption DEF Occurrences, Inv, TypeOK
    <3>3. \/ x.at \in w.open \/ at[r] \in o.open
      BY <1>2, <2>1, <2>3, <3>1, <3>2 DEF Exact, Instants
    <3> QED
      BY <1>1, <2>3, <3>1, <3>3 DEF Deserved, SameWindow, WindowsAt
  <2> QED
    BY <1>1, <2>2, <2>3
<1> QED
  BY <1>3, <1>4

\* A set flag of this cycle or a later one was left by a use.
LEMMA CycleRefusal ==
  ASSUME HonestInv, NEW r \in Requests, Kind[ask[r].voucher] = "CYCLE",
         Row(r).start >= StartOfCycle(r), Row(r).redeemed
  PROVE  Deserved(r)
<1>1. ask[r].user \in Users /\ ask[r].voucher \in Vouchers
  BY DEF HonestInv, Inv, TypeOK, Asks
<1>2. PICK x \in redemptions : /\ x.user = ask[r].user /\ x.voucher = ask[r].voucher
                               /\ CycleStart[ask[r].user][x.at] = Row(r).start
  BY <1>1 DEF HonestInv, WitnessInv, Row
<1> QED
  BY <1>2 DEF Earlier, Deserved

LEMMA RefusalIsHonest ==
  ASSUME HonestInv, [Next]_vars
  PROVE  HonestRefusal'
<1> SUFFICES ASSUME NEW r \in Requests, stage'[r] = "ALREADY_REDEEMED"
             PROVE  Deserved(r)'
  BY DEF HonestRefusal, Deserved
<1>1. ask' = ask /\ at'[r] = at[r]
  BY RefusalStep DEF HonestInv, Inv
<1>2. Deserved(r) => Deserved(r)'
  <2>1. redemptions \subseteq redemptions'
    BY TablesGrow DEF HonestInv
  <2>2. Earlier(r) \subseteq Earlier(r)' /\ (LostToItsCode(r) => LostToItsCode(r)')
    BY <1>1, <2>1 DEF Earlier, LostToItsCode, CodeTaken
  <2>3. /\ StartOfCycle(r)' = StartOfCycle(r)
        /\ \A x : SameWindow(r, x)' <=> SameWindow(r, x)
        /\ \A x : ClocksChange(r, x)' <=> ClocksChange(r, x)
    BY <1>1 DEF StartOfCycle, SameWindow, ClocksChange, WindowsAt, Exact
  <2> QED
    BY <1>1, <2>2, <2>3 DEF Deserved
<1>3. ASSUME stage[r] = "ALREADY_REDEEMED" PROVE Deserved(r)
  BY <1>3 DEF HonestInv, HonestRefusal, Deserved
<1>4. ASSUME Kind[ask[r].voucher] = "TIME_LIMITED", UsedThisWindow(r) \/ SlotTaken(r)
      PROVE  Deserved(r)
  BY <1>4, WindowRefusal DEF HonestInv
<1>5. ASSUME Kind[ask[r].voucher] = "CYCLE", UsedThisCycle(r) PROVE Deserved(r)
  BY <1>5, CycleRefusal DEF UsedThisCycle
<1>6. ASSUME stage[r] = "retry", ~Reclaimable(r) PROVE Deserved(r)
  <2>1. Kind[ask[r].voucher] = "CYCLE"
    BY <1>6 DEF HonestInv, Inv, StageInv
  <2>2. CASE CodeTaken(r)
    BY <2>1, <2>2 DEF Deserved, LostToItsCode
  <2>3. CASE Row(r).exists
    <3>1. Row(r).start \in Int /\ StartOfCycle(r) \in Int
      BY CycleStartType DEF HonestInv, Inv, TypeOK, Asks, Row, CycleRow, StartOfCycle, Instants
    <3> QED
      BY <1>6, <2>1, <2>3, <3>1, CycleRefusal DEF Reclaimable
  <2> QED
    BY <1>6, <2>2, <2>3 DEF HonestInv, RetryInv
<1>7. Deserved(r)
  BY <1>3, <1>4, <1>5, <1>6, RefusalStep DEF HonestInv, Inv
<1> QED
  BY <1>2, <1>7

\* Whoever is told ALREADY_REDEEMED has redeemed in that cycle or window, unless his
\* request drew a code that was taken or the clocks change in a window concerned.
THEOREM HonestRefusalHolds == Spec => []HonestRefusal
<1>1. Init => HonestInv
  <2> SUFFICES ASSUME Init PROVE HonestInv
    OBVIOUS
  <2>1. Inv
    BY InitInv
  <2> QED
    BY <2>1 DEF Init, HonestInv, WitnessInv, RetryInv, HonestRefusal
<1>2. HonestInv /\ [Next]_vars => HonestInv'
  BY InvStep, WitnessStep, RetryStep, RefusalIsHonest DEF HonestInv
<1>3. HonestInv => HonestRefusal
  BY DEF HonestInv
<1> QED
  BY <1>1, <1>2, <1>3, PTL DEF Spec
=============================================================================
