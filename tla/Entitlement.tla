----------------------------- MODULE Entitlement -----------------------------
(***************************************************************************)
(* What Redeemo promises of a voucher, said without requests, rows,        *)
(* transactions or locks: the ledger of redemptions grows one redemption   *)
(* at a time, each within its customer's allowance, and an allowance grows *)
(* only when a use is given back.  Redemption implements it.               *)
(***************************************************************************)
EXTENDS Integers, FiniteSets

CONSTANTS Users, Vouchers, Branches, Codes, Kind, Windows, Cooldown,
          CycleStart, Instants

VARIABLES
  ledger,    \* the redemptions made
  givenBack  \* how many uses of a cycle voucher a user was given back

Redemptions == [code: Codes, user: Users, voucher: Vouchers,
                branch: Branches, at: Instants]

Init ==
  /\ ledger = {}
  /\ givenBack = [p \in Users \X Vouchers |-> 0]

UsesOf(x) == {y \in ledger : y.user = x.user /\ y.voucher = x.voucher}

\* At most one use in a cycle, and one more for each use given back.
WithinCycleAllowance(x) ==
  Cardinality({y \in UsesOf(x) : CycleStart[x.user][y.at] = CycleStart[x.user][x.at]})
    <= givenBack[<<x.user, x.voucher>>]

\* At least the cooldown before or after every other use.
OutsideCooldown(x) ==
  \A y \in UsesOf(x) :
    \/ y.at + Cooldown[x.voucher] <= x.at
    \/ x.at + Cooldown[x.voucher] <= y.at

\* While a window is open that holds no other use.
AloneInWindow(x) ==
  \E w \in Windows[x.voucher] :
    /\ x.at \in w.open
    /\ \A y \in UsesOf(x) : y.at \notin w.open

Allowed(x) ==
  \/ Kind[x.voucher] = "CYCLE" /\ WithinCycleAllowance(x)
  \/ Kind[x.voucher] = "REUSABLE" /\ OutsideCooldown(x)
  \/ Kind[x.voucher] = "TIME_LIMITED" /\ AloneInWindow(x)

Redeem(x) ==
  /\ \A y \in ledger : y.code # x.code
  /\ Allowed(x)
  /\ ledger' = ledger \cup {x}
  /\ UNCHANGED givenBack

GiveBack(S) ==
  /\ givenBack' = [p \in Users \X Vouchers |->
                     IF p \in S THEN givenBack[p] + 1 ELSE givenBack[p]]
  /\ UNCHANGED ledger

Next ==
  \/ \E x \in Redemptions : Redeem(x)
  \/ \E S \in SUBSET (Users \X Vouchers) : GiveBack(S)

Spec == Init /\ [][Next]_<<ledger, givenBack>>
=============================================================================
