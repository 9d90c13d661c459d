------------------------------ MODULE Redemption ------------------------------
(***************************************************************************)
(* Customer redemption: createRedemption of src/api/redemption/service.ts. *)
(*                                                                         *)
(* Every HTTP request is a process of its own and every awaited database   *)
(* call is a step of its own, so the eligibility that a request has read   *)
(* may be stale by the time it claims.  Three kinds of voucher share the   *)
(* handler and guard "one use" in three different ways: the row of         *)
(* UserVoucherCycleState (cycle vouchers), a re-read under an advisory     *)
(* lock (REUSABLE) and a unique index on the window (TIME_LIMITED).        *)
(*                                                                         *)
(* The module is open: what other components do to the rows it reads       *)
(* (eligibility, resetVoucherCycleForUser, refundInflightCycles) are       *)
(* actions here at the grain of the one statement they execute, and the    *)
(* modules of those components say when they execute it.  The PIN gate     *)
(* (steps 9 and 10 of the handler) keeps its counter in PinGate; here it   *)
(* only lets a request through or not.                                     *)
(***************************************************************************)
EXTENDS Integers, FiniteSets

CONSTANTS
  Users, Vouchers, Branches, Requests,
  Codes,         \* redemption codes
  CodeOf,        \* the code that each request's generator draws
  Kind,          \* Voucher.type, the types that claim alike being one kind
  BranchesOf,    \* the branches of the voucher's merchant
  Windows,       \* the availability-window occurrences of a voucher
  Cooldown,      \* effectiveCooldownMs of a REUSABLE voucher
  CycleStart,    \* getCurrentCycleWindow(sub.cycleAnchorDate, t).cycleStart
  Volatile,      \* bound: the rows whose eligibility changes
  MaxClock,      \* bound: the last instant
  MaxRestores    \* bound: how often the flag of one row is cleared from outside

Instants == 0 .. MaxClock
\* An occurrence of a window: the instants at which it is open, which are found by
\* the minute on the clocks of London, and the two instants computed for it.  Those
\* are taken with the offset that London has at midnight UTC of the day
\* (londonDateAtMinute), so on the Sundays on which the clocks change they are an
\* hour off what is open, and two occurrences may be given the same start.
Occurrences == [open: SUBSET Instants, startsAt: Int, endsAt: Int]

ASSUME NatAssumption ==
  /\ MaxClock \in Nat
  /\ MaxRestores \in Nat

ASSUME ParameterAssumption ==
  /\ CodeOf \in [Requests -> Codes]
  /\ Kind \in [Vouchers -> {"CYCLE", "REUSABLE", "TIME_LIMITED"}]
  /\ BranchesOf \in [Vouchers -> SUBSET Branches]
  /\ Cooldown \in [Vouchers -> Nat \ {0}]
  /\ Volatile \subseteq Users \cup Vouchers \cup Branches

\* validateAvailabilityWindows of merchant/voucher/service.ts: no two windows of one
\* voucher are open at the same instant.
ASSUME WindowAssumption ==
  /\ Windows \in [Vouchers -> SUBSET Occurrences]
  /\ \A v \in Vouchers : \A w1, w2 \in Windows[v] :
       w1 = w2 \/ w1.open \cap w2.open = {}

\* What CycleWindow shows of getCurrentCycleWindow, and all that is used of it.
ASSUME CycleAssumption ==
  /\ CycleStart \in [Users -> [Instants -> Instants]]
  /\ \A u \in Users : \A s, t \in Instants :
       /\ CycleStart[u][t] <= t
       /\ s <= t => CycleStart[u][s] <= CycleStart[u][t]

VARIABLES
  clock,        \* new Date()
  eligible,     \* the vouchers, branches and users whose rows pass the guards
  ask,          \* what each request asks for (its body and its token)
  at,           \* the `now` that each request captured
  stage,        \* the step each request is at, or its answer
  cycleState,   \* the table UserVoucherCycleState
  redemptions,  \* the table VoucherRedemption
  restored      \* history: times the flag of a cycle row was cleared

vars == <<clock, eligible, ask, at, stage, cycleState, redemptions, restored>>

Answers == {"REDEEMED", "INELIGIBLE", "PIN_REFUSED", "ALREADY_REDEEMED",
            "COOLDOWN_ACTIVE", "INTERNAL_ERROR"}
Steps == {"idle", "branch", "subscription", "history", "pin", "claim",
          "create", "retry"}

Asks == [user: Users, voucher: Vouchers, branch: Branches]
CycleRow == [exists: BOOLEAN, start: Instants, redeemed: BOOLEAN]
RedemptionRow == [code: Codes, user: Users, voucher: Vouchers,
                  branch: Branches, at: Instants]

TypeOK ==
  /\ clock \in Instants
  /\ eligible \subseteq Users \cup Vouchers \cup Branches
  /\ ask \in [Requests -> Asks]
  /\ at \in [Requests -> Instants]
  /\ stage \in [Requests -> Steps \cup Answers]
  /\ cycleState \in [Users \X Vouchers -> CycleRow]
  /\ redemptions \subseteq RedemptionRow
  /\ restored \in [Users \X Vouchers -> 0 .. MaxRestores]

Init ==
  /\ clock = 0
  /\ eligible = Users \cup Vouchers \cup Branches
  /\ ask \in [Requests -> Asks]
  /\ at = [r \in Requests |-> 0]
  /\ stage = [r \in Requests |-> "idle"]
  /\ cycleState = [p \in Users \X Vouchers |->
                     [exists |-> FALSE, start |-> 0, redeemed |-> FALSE]]
  /\ redemptions = {}
  /\ restored = [p \in Users \X Vouchers |-> 0]

-----------------------------------------------------------------------------
(* The reads and guards of the handler, in the order of the source.        *)

Goto(r, s) == stage' = [stage EXCEPT ![r] = s]

\* The current window occurrence of voucher v at instant t, or none.
WindowsAt(v, t) == {w \in Windows[v] : t \in w.open}

\* Guards 1, 2 and 3: capture `now`, read the voucher with its merchant.
ReadVoucher(r) ==
  LET v == ask[r].voucher IN
  /\ stage[r] = "idle"
  /\ at' = [at EXCEPT ![r] = clock]
  /\ IF v \in eligible /\ (Kind[v] = "TIME_LIMITED" => WindowsAt(v, clock) # {})
       THEN Goto(r, "branch")
       ELSE Goto(r, "INELIGIBLE")
  /\ UNCHANGED <<clock, eligible, ask, cycleState, redemptions, restored>>

\* The branch is live and belongs to the voucher's merchant.
ReadBranch(r) ==
  /\ stage[r] = "branch"
  /\ IF ask[r].branch \in eligible \cap BranchesOf[ask[r].voucher]
       THEN Goto(r, "subscription")
       ELSE Goto(r, "INELIGIBLE")
  /\ UNCHANGED <<clock, eligible, ask, at, cycleState, redemptions, restored>>

\* Subscription ACTIVE or TRIALLING, phone verified.
ReadSubscription(r) ==
  /\ stage[r] = "subscription"
  /\ IF ask[r].user \in eligible THEN Goto(r, "history") ELSE Goto(r, "INELIGIBLE")
  /\ UNCHANGED <<clock, eligible, ask, at, cycleState, redemptions, restored>>

Row(r) == cycleState[<<ask[r].user, ask[r].voucher>>]
StartOfCycle(r) == CycleStart[ask[r].user][at[r]]

\* The redemptions that the request's user already has of its voucher.
Earlier(r) == {x \in redemptions : x.user = ask[r].user /\ x.voucher = ask[r].voucher}

InCooldown(r) == \E x \in Earlier(r) : at[r] < x.at + Cooldown[ask[r].voucher]
\* existing: a redemption made between the computed ends of the request's window.
UsedThisWindow(r) ==
  \E w \in WindowsAt(ask[r].voucher, at[r]), x \in Earlier(r) :
    w.startsAt <= x.at /\ x.at < w.endsAt
\* A redemption that holds the windowStartsAt of the request's window.
SlotTaken(r) ==
  \E w \in WindowsAt(ask[r].voucher, at[r]), x \in Earlier(r) :
    \E o \in WindowsAt(ask[r].voucher, x.at) : o.startsAt = w.startsAt
\* Mutant: the row's cycle alone bars, its flag is not read.
UsedThisCycleByDate(r) == Row(r).exists /\ Row(r).start >= StartOfCycle(r)
UsedThisCycle(r) == Row(r).exists /\ Row(r).start >= StartOfCycle(r) /\ Row(r).redeemed

\* Guard 7: the fast refusal before the PIN, by the voucher's kind.
ReadHistory(r) ==
  LET k == Kind[ask[r].voucher] IN
  /\ stage[r] = "history"
  /\ \/ /\ k = "REUSABLE" /\ InCooldown(r)
        /\ Goto(r, "COOLDOWN_ACTIVE")
     \/ /\ \/ k = "TIME_LIMITED" /\ UsedThisWindow(r)
           \/ k = "CYCLE" /\ UsedThisCycle(r)
        /\ Goto(r, "ALREADY_REDEEMED")
     \/ /\ k = "REUSABLE" => ~InCooldown(r)
        /\ k = "TIME_LIMITED" => ~UsedThisWindow(r)
        /\ k = "CYCLE" => ~UsedThisCycle(r)
        /\ Goto(r, "pin")
  /\ UNCHANGED <<clock, eligible, ask, at, cycleState, redemptions, restored>>

\* Guards 8 to 10, see PinGate: the right PIN within the limit, or a refusal.
PassPin(r) ==
  /\ stage[r] = "pin"
  /\ Goto(r, "claim") \/ Goto(r, "PIN_REFUSED")
  /\ UNCHANGED <<clock, eligible, ask, at, cycleState, redemptions, restored>>

-----------------------------------------------------------------------------
(* Step 11, the claim.                                                      *)

CodeTaken(r) == \E x \in redemptions : x.code = CodeOf[r]

\* voucherRedemption.create({ data: redemptionData })
InsertRedemption(r) ==
  redemptions' = redemptions \cup
    {[code |-> CodeOf[r], user |-> ask[r].user, voucher |-> ask[r].voucher,
      branch |-> ask[r].branch, at |-> at[r]]}

\* Mutant: no re-read under the lock.
ClaimReusableUnchecked(r) ==
  /\ stage[r] = "claim" /\ Kind[ask[r].voucher] = "REUSABLE"
  /\ ~CodeTaken(r) /\ Goto(r, "REDEEMED") /\ InsertRedemption(r)
  /\ UNCHANGED <<clock, eligible, ask, at, cycleState, restored>>

\* REUSABLE: one transaction under pg_advisory_xact_lock(user, voucher).
ClaimReusable(r) ==
  /\ stage[r] = "claim" /\ Kind[ask[r].voucher] = "REUSABLE"
  /\ \/ /\ InCooldown(r)
        /\ Goto(r, "COOLDOWN_ACTIVE") /\ UNCHANGED redemptions
     \/ /\ ~InCooldown(r) /\ CodeTaken(r)
        /\ Goto(r, "INTERNAL_ERROR") /\ UNCHANGED redemptions
     \/ /\ ~InCooldown(r) /\ ~CodeTaken(r)
        /\ Goto(r, "REDEEMED") /\ InsertRedemption(r)
  /\ UNCHANGED <<clock, eligible, ask, at, cycleState, restored>>

\* Mutant: no unique index on the window.
ClaimTimeLimitedUnchecked(r) ==
  /\ stage[r] = "claim" /\ Kind[ask[r].voucher] = "TIME_LIMITED"
  /\ ~CodeTaken(r) /\ Goto(r, "REDEEMED") /\ InsertRedemption(r)
  /\ UNCHANGED <<clock, eligible, ask, at, cycleState, restored>>

\* TIME_LIMITED: one insert, against @@unique([userId, voucherId, windowStartsAt]).
\* An insert that violates both unique indexes reports one of them.
ClaimTimeLimited(r) ==
  /\ stage[r] = "claim" /\ Kind[ask[r].voucher] = "TIME_LIMITED"
  /\ \/ /\ SlotTaken(r)
        /\ Goto(r, "ALREADY_REDEEMED") /\ UNCHANGED redemptions
     \/ /\ CodeTaken(r)
        /\ Goto(r, "INTERNAL_ERROR") /\ UNCHANGED redemptions
     \/ /\ ~SlotTaken(r) /\ ~CodeTaken(r)
        /\ Goto(r, "REDEEMED") /\ InsertRedemption(r)
  /\ UNCHANGED <<clock, eligible, ask, at, cycleState, restored>>

\* Mutant: cycleStartDate { lte: cycleStart }.
ReclaimableUpTo(r) == Row(r).exists /\ (Row(r).start <= StartOfCycle(r) \/ ~Row(r).redeemed)

\* claimWhere: stale, or of this cycle and not redeemed.
Reclaimable(r) ==
  Row(r).exists /\ (Row(r).start < StartOfCycle(r) \/ ~Row(r).redeemed)

\* Mutant: the claim forgets cycleStartDate.
SetClaimedNoDate(r) ==
  cycleState' = [cycleState EXCEPT ![<<ask[r].user, ask[r].voucher>>] =
                   [exists |-> TRUE, redeemed |-> TRUE]]

\* claimData, and the row that the create branch writes.
SetClaimed(r) ==
  cycleState' = [cycleState EXCEPT ![<<ask[r].user, ask[r].voucher>>] =
                   [exists |-> TRUE, start |-> StartOfCycle(r), redeemed |-> TRUE]]

\* Cycle voucher, first transaction: the conditional updateMany.  Its row lock
\* is held to the commit, so update and insert are one step.  A row that is
\* not updated leads to the create; a duplicate code rolls back and retries.
ClaimCycle(r) ==
  /\ stage[r] = "claim" /\ Kind[ask[r].voucher] = "CYCLE"
  /\ \/ /\ Reclaimable(r) /\ ~CodeTaken(r)
        /\ Goto(r, "REDEEMED") /\ SetClaimed(r) /\ InsertRedemption(r)
     \/ /\ Reclaimable(r) /\ CodeTaken(r)
        /\ Goto(r, "retry") /\ UNCHANGED <<cycleState, redemptions>>
     \/ /\ ~Reclaimable(r)
        /\ Goto(r, "create") /\ UNCHANGED <<cycleState, redemptions>>
  /\ UNCHANGED <<clock, eligible, ask, at, restored>>

\* First transaction, no row was updated: create the row.  A unique violation
\* (of the row, or then of the code) rolls the transaction back and retries.
CreateCycleRow(r) ==
  /\ stage[r] = "create"
  /\ \/ /\ ~Row(r).exists /\ ~CodeTaken(r)
        /\ Goto(r, "REDEEMED") /\ SetClaimed(r) /\ InsertRedemption(r)
     \/ /\ Row(r).exists \/ CodeTaken(r)
        /\ Goto(r, "retry") /\ UNCHANGED <<cycleState, redemptions>>
  /\ UNCHANGED <<clock, eligible, ask, at, restored>>

\* Mutant: the second transaction updates whatever row it finds.
RetryClaimAlways(r) ==
  /\ stage[r] = "retry" /\ ~CodeTaken(r)
  /\ Goto(r, "REDEEMED") /\ SetClaimed(r) /\ InsertRedemption(r)
  /\ UNCHANGED <<clock, eligible, ask, at, restored>>

\* Second transaction: the conditional updateMany alone.
RetryClaim(r) ==
  /\ stage[r] = "retry"
  /\ \/ /\ Reclaimable(r) /\ ~CodeTaken(r)
        /\ Goto(r, "REDEEMED") /\ SetClaimed(r) /\ InsertRedemption(r)
     \/ /\ Reclaimable(r) /\ CodeTaken(r)
        /\ Goto(r, "INTERNAL_ERROR") /\ UNCHANGED <<cycleState, redemptions>>
     \/ /\ ~Reclaimable(r)
        /\ Goto(r, "ALREADY_REDEEMED") /\ UNCHANGED <<cycleState, redemptions>>
  /\ UNCHANGED <<clock, eligible, ask, at, restored>>

-----------------------------------------------------------------------------
(* What the rest of the system does to the rows the handler reads.         *)

Tick ==
  /\ clock < MaxClock
  /\ clock' = clock + 1
  /\ UNCHANGED <<eligible, ask, at, stage, cycleState, redemptions, restored>>

\* Vouchers, branches or subscriptions become eligible or stop being so (a
\* merchant's vouchers all at once).
EligibilityChanges(S) ==
  /\ eligible' = (eligible \ S) \cup (S \ eligible)
  /\ UNCHANGED <<clock, ask, at, stage, cycleState, redemptions, restored>>

\* resetVoucherCycleForUser: one updateMany over the user's redeemed rows.
ResetVoucherCycle(u) ==
  LET hit == {v \in Vouchers : cycleState[<<u, v>>].redeemed} IN
  /\ hit # {}
  /\ \A v \in hit : restored[<<u, v>>] < MaxRestores
  /\ cycleState' = [p \in Users \X Vouchers |->
       IF p[1] = u /\ p[2] \in hit
         THEN [cycleState[p] EXCEPT !.redeemed = FALSE, !.start = clock]
         ELSE cycleState[p]]
  /\ restored' = [p \in Users \X Vouchers |->
       IF p[1] = u /\ p[2] \in hit THEN restored[p] + 1 ELSE restored[p]]
  /\ UNCHANGED <<clock, eligible, ask, at, stage, redemptions>>

\* refundInflightCycles, its updateMany for one (user, voucher).
RefundCycle(u, v) ==
  /\ Kind[v] = "CYCLE"
  /\ cycleState[<<u, v>>].redeemed
  /\ restored[<<u, v>>] < MaxRestores
  /\ cycleState' = [cycleState EXCEPT ![<<u, v>>].redeemed = FALSE]
  /\ restored' = [restored EXCEPT ![<<u, v>>] = @ + 1]
  /\ UNCHANGED <<clock, eligible, ask, at, stage, redemptions>>

Claim(r) == ClaimReusable(r) \/ ClaimTimeLimited(r) \/ ClaimCycle(r)

CreateRedemption(r) ==
  \/ ReadVoucher(r) \/ ReadBranch(r) \/ ReadSubscription(r) \/ ReadHistory(r)
  \/ PassPin(r)
  \/ Claim(r) \/ CreateCycleRow(r) \/ RetryClaim(r)

Environment ==
  \/ Tick
  \/ \E S \in SUBSET Volatile : EligibilityChanges(S)
  \/ \E u \in Users : ResetVoucherCycle(u)
  \/ \E u \in Users, v \in Vouchers : RefundCycle(u, v)

Next == Environment \/ \E r \in Requests : CreateRedemption(r)

Spec == Init /\ [][Next]_vars

-----------------------------------------------------------------------------
(* Properties.                                                             *)

\* The redemptions of u for v that were made in the cycle starting at c.
InCycle(u, v, c) ==
  {x \in redemptions : x.user = u /\ x.voucher = v /\ CycleStart[u][x.at] = c}

\* "One redemption per user per voucher per billing cycle, across all
\* branches": a cycle voucher is redeemed in a cycle at most once more than its
\* flag was cleared from outside, however many requests race through the claim
\* (createRedemption, steps 7 and 11).  With no reset and no refund: at most once.
OncePerCycle ==
  \A u \in Users, v \in Vouchers : Kind[v] = "CYCLE" =>
    \A c \in Instants : Cardinality(InCycle(u, v, c)) <= 1 + restored[<<u, v>>]

\* Two uses of a REUSABLE voucher by one user are at least the cooldown apart,
\* even when the requests raced past the fast check (the advisory lock's job).
CooldownSpacing ==
  \A x, y \in redemptions :
    (x # y /\ x.user = y.user /\ x.voucher = y.voucher /\ Kind[x.voucher] = "REUSABLE")
      => x.at + Cooldown[x.voucher] <= y.at \/ y.at + Cooldown[x.voucher] <= x.at

\* A TIME_LIMITED voucher is used at most once per user in one occurrence of
\* its window, and never outside one (guards 3 and 7, the unique index).
OncePerWindow ==
  \A x \in redemptions : Kind[x.voucher] = "TIME_LIMITED" =>
    /\ WindowsAt(x.voucher, x.at) # {}
    /\ \A y \in redemptions :
         (x.user = y.user /\ x.voucher = y.voucher
            /\ WindowsAt(x.voucher, x.at) \cap WindowsAt(x.voucher, y.at) # {})
           => x = y

\* The two ways in which a refusal may be wrong.  A first claim whose code somebody
\* else holds fails its insert, is taken for the loser of a race on the cycle row
\* and finds no row to update (service.ts:554, 566).
LostToItsCode(r) == Kind[ask[r].voucher] = "CYCLE" /\ CodeTaken(r)

\* The instants computed for a window are those at which it is open.
Exact(w) == w.open = {t \in Instants : w.startsAt <= t /\ t < w.endsAt}

SameWindow(r, x) ==
  WindowsAt(ask[r].voucher, at[r]) \cap WindowsAt(ask[r].voucher, x.at) # {}

\* The window of the request, or that of the use held against it, is on a day on which
\* the clocks change (service.ts:214, 505 with voucherAvailability.ts:53).
ClocksChange(r, x) ==
  \E w \in WindowsAt(ask[r].voucher, at[r]) \cup WindowsAt(ask[r].voucher, x.at) : ~Exact(w)

\* ALREADY_REDEEMED and ALREADY_REDEEMED_THIS_WINDOW are only ever told to a user who
\* has redeemed the voucher, in the request's cycle or a later one (cycle vouchers)
\* or in its window (TIME_LIMITED), however requests, resets and refunds interleave:
\* unless the request drew a code that was taken, or the clocks change.
HonestRefusal ==
  \A r \in Requests : stage[r] = "ALREADY_REDEEMED" =>
    \/ LostToItsCode(r)
    \/ \E x \in Earlier(r) :
         IF Kind[ask[r].voucher] = "CYCLE"
           THEN StartOfCycle(r) <= CycleStart[ask[r].user][x.at]
           ELSE SameWindow(r, x) \/ ClocksChange(r, x)

\* The promise this module keeps.  A redemption is the row itself, a use is
\* given back when its flag is cleared.
Promise == INSTANCE Entitlement WITH ledger <- redemptions, givenBack <- restored

\* createRedemption implements Entitlement: every claim that commits is within
\* the customer's allowance at that moment, whatever the request read before.
KeepsPromise == Promise!Spec
=============================================================================
