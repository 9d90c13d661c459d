------------------------------ MODULE Validation ------------------------------
(***************************************************************************)
(* A redemption's second half, composed with Redemption: staff validate    *)
(* the code (verifyRedemption of src/api/redemption/service.ts) while      *)
(* admins suspend and reactivate the merchant (suspendMerchant,            *)
(* reactivateMerchant and refundInflightCycles of                          *)
(* src/api/admin/merchants/service.ts).                                    *)
(*                                                                         *)
(* Vouchers and Branches are those of one merchant, whose status ACTIVE is *)
(* part of every voucher's eligibility.  A suspension is a transaction     *)
(* followed by a best-effort sweep that runs row by row, unlocked, while   *)
(* requests that passed their guards before it go on; it may stop anywhere. *)
(***************************************************************************)
EXTENDS Redemption

CONSTANTS
  Staff,      \* calls of verifyRedemption, each by an actor
  AllowedAt,  \* the branches at which each of those actors may validate
  Admins      \* calls of suspendMerchant

ASSUME StaffAssumption ==
  /\ AllowedAt \in [Staff -> SUBSET Branches]
  /\ Vouchers \subseteq Volatile

VARIABLES
  validated,  \* the codes with isValidated
  verify,     \* each validation: its step or answer, and the code it handles
  sweep,      \* each suspension: its step, the rows to visit, the row at hand
  listed,     \* history: the rows that each sweep found in flight
  cleared     \* history: the codes of uses made before a sweep cleared their flag

validationVars == <<validated, verify, sweep, listed, cleared>>
allVars == <<vars, validationVars>>

VerifySteps == {"idle", "update", "VALIDATED", "ALREADY_VALIDATED",
                "REFUSED", "MERCHANT_SUSPENDED"}
SweepSteps == {"idle", "list", "visit", "reset", "swept", "ALREADY_SUSPENDED"}

ValidationInit ==
  /\ Init
  /\ validated = {}
  /\ verify \in [Staff -> [step: {"idle"}, code: Codes]]
  /\ sweep = [a \in Admins |-> [step |-> "idle", todo |-> {}]]
  /\ listed = [a \in Admins |-> {}]
  /\ cleared = {}

-----------------------------------------------------------------------------
(* verifyRedemption                                                        *)

MerchantActive == Vouchers \subseteq eligible

Answer(s, a) == verify' = [verify EXCEPT ![s].step = a]

\* One read of the redemption with its voucher, merchant and branch, and every
\* check on it.  A merchant actor's scope is checked before ALREADY_VALIDATED, a
\* branch actor's after it.
ReadCode(s) ==
  /\ verify[s].step = "idle"
  /\ \E x \in redemptions :
       /\ x.code = verify[s].code
       /\ \/ x.branch \notin AllowedAt[s] /\ Answer(s, "REFUSED")
          \/ x.code \in validated /\ Answer(s, "ALREADY_VALIDATED")
          \/ /\ x.branch \in AllowedAt[s] /\ x.code \notin validated
             /\ \/ ~MerchantActive /\ Answer(s, "MERCHANT_SUSPENDED")
                \/ MerchantActive /\ x.branch \notin eligible /\ Answer(s, "REFUSED")
                \/ MerchantActive /\ x.branch \in eligible /\ Answer(s, "update")
  /\ UNCHANGED <<vars, validated, sweep, listed, cleared>>

\* voucherRedemption.update({ where: { id } }): no condition on isValidated.
MarkValidated(s) ==
  /\ verify[s].step = "update"
  /\ validated' = validated \cup {verify[s].code}
  /\ Answer(s, "VALIDATED")
  /\ UNCHANGED <<vars, sweep, listed, cleared>>

-----------------------------------------------------------------------------
(* suspendMerchant, its sweep, and reactivateMerchant                      *)

SweepGoes(a, s, todo) == sweep' = [sweep EXCEPT ![a] = [step |-> s, todo |-> todo]]

\* The status flip: one transaction, a no-op on a suspended merchant.
Suspend(a) ==
  /\ sweep[a].step = "idle"
  /\ \/ MerchantActive /\ eligible' = eligible \ Vouchers /\ SweepGoes(a, "list", {})
     \/ ~MerchantActive /\ UNCHANGED eligible /\ SweepGoes(a, "ALREADY_SUSPENDED", {})
  /\ UNCHANGED <<clock, ask, at, stage, cycleState, redemptions, restored,
                 validated, verify, listed, cleared>>

InFlight == {x \in redemptions : x.code \notin validated /\ Kind[x.voucher] = "CYCLE"}

\* refundInflightCycles: findMany of the un-validated redemptions.
ListInFlight(a) ==
  /\ sweep[a].step = "list"
  /\ SweepGoes(a, "visit", InFlight)
  /\ listed' = [listed EXCEPT ![a] = InFlight]
  /\ UNCHANGED <<vars, validated, verify, cleared>>

SamePair(x, y) == x.user = y.user /\ x.voucher = y.voucher

\* Mutant: redeemedAt { gte }, a redemption supersedes itself.
SupersededByItself(x) == \E y \in redemptions : SamePair(x, y) /\ y.at >= x.at

\* The count of newer redemptions of the same user and voucher.
Superseded(x) == \E y \in redemptions : SamePair(x, y) /\ y.at > x.at

\* A superseded row is skipped, the others go on to the reset.
Visit(a) ==
  /\ sweep[a].step = "visit"
  /\ \/ sweep[a].todo = {} /\ SweepGoes(a, "swept", {})
     \/ \E x \in sweep[a].todo :
          \/ Superseded(x) /\ SweepGoes(a, "visit", sweep[a].todo \ {x})
          \/ ~Superseded(x) /\ sweep' = [sweep EXCEPT ![a] =
               [step |-> "reset", todo |-> sweep[a].todo \ {x}, row |-> x]]
  /\ UNCHANGED <<vars, validated, verify, listed, cleared>>

UsesLike(x) == {y \in redemptions : SamePair(x, y)}
ClearedWith(x) == cleared' = cleared \cup {y.code : y \in UsesLike(x)}

\* Mutant: the cycle row is deleted instead of its flag being reset.
ResetDeletes(a) ==
  /\ sweep[a].step = "reset"
  /\ LET p == <<sweep[a].row.user, sweep[a].row.voucher>> IN
       /\ restored[p] < MaxRestores
       /\ cycleState' = [cycleState EXCEPT ![p].exists = FALSE, ![p].redeemed = FALSE]
       /\ restored' = [restored EXCEPT ![p] = @ + 1]
  /\ ClearedWith(sweep[a].row)
  /\ SweepGoes(a, "visit", sweep[a].todo)
  /\ UNCHANGED <<clock, eligible, ask, at, stage, redemptions, validated, verify, listed>>

\* The updateMany on the row's cycle state, if its flag is set.
Reset(a) ==
  /\ sweep[a].step = "reset"
  /\ LET x == sweep[a].row IN
       \/ /\ RefundCycle(x.user, x.voucher)
          /\ ClearedWith(x)
       \/ /\ ~cycleState[<<x.user, x.voucher>>].redeemed
          /\ UNCHANGED <<vars, cleared>>
  /\ SweepGoes(a, "visit", sweep[a].todo)
  /\ UNCHANGED <<validated, verify, listed>>

\* reactivateMerchant: one transaction, on a suspended merchant only.
Reactivate ==
  /\ ~MerchantActive
  /\ eligible' = eligible \cup Vouchers
  /\ UNCHANGED <<clock, ask, at, stage, cycleState, redemptions, restored, validationVars>>

\* Branches are closed and opened again.
BranchChanges ==
  /\ \E S \in SUBSET (Volatile \cap Branches) : EligibilityChanges(S)
  /\ UNCHANGED validationVars

Redeem(r) == CreateRedemption(r) /\ UNCHANGED validationVars
TimePasses == Tick /\ UNCHANGED validationVars

ValidationNext ==
  \/ TimePasses \/ Reactivate \/ BranchChanges
  \/ \E r \in Requests : Redeem(r)
  \/ \E s \in Staff : ReadCode(s) \/ MarkValidated(s)
  \/ \E a \in Admins : Suspend(a) \/ ListInFlight(a) \/ Visit(a) \/ Reset(a)

ValidationSpec == ValidationInit /\ [][ValidationNext]_allVars

-----------------------------------------------------------------------------
(* Properties.                                                             *)

\* The composition only does to createRedemption's rows what Redemption lets its
\* environment do, so whatever holds of Redemption holds here.
ImplementsRedemption == Spec

\* A sweep that ran to its end has freed every customer it found in flight: after
\* the use was made, a sweep cleared the flag that it set, or a later use owns it
\* (refundInflightCycles, racing with claims, other sweeps and reactivations).
SweepReachesAll ==
  \A a \in Admins : sweep[a].step = "swept" =>
    \A x \in listed[a] :
      \/ \E y \in redemptions : SamePair(x, y) /\ y.at > x.at
      \/ x.code \in cleared

\* Nobody has two uses of a cycle voucher in one cycle unless a sweep cleared the flag
\* after one of them was made: a clearing buys one use, even when the sweep's check is
\* stale or the merchant is reactivated under it, and it never buys one twice
\* (createRedemption's claimWhere against the updateMany of refundInflightCycles).
ClearedBetweenUses ==
  \A x, y \in redemptions :
    (x # y /\ SamePair(x, y) /\ Kind[x.voucher] = "CYCLE"
       /\ CycleStart[x.user][x.at] = CycleStart[x.user][y.at])
      => x.code \in cleared \/ y.code \in cleared
=============================================================================
