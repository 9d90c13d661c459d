# Redeemo: a TLA+ model of the API

Redeemo sells a subscription that lets a customer redeem merchants' vouchers: each
ordinary voucher once per billing cycle. The API (`src/src/api`, Fastify over Prisma/PostgreSQL, Redis,
BullMQ, Stripe, Resend and Twilio) holds all shared state; the four front ends under
`src/apps` only call it. Every handler is an `async` function, so any number of them interleave at
each `await`: between two queries, two Redis commands, two calls of a provider. What protects
the data is in single statements (`updateMany` with a `where` on the state, unique indexes,
one Redis script), one advisory lock, and the order of effects. These modules model that, and say of
each mechanism what it does guarantee and what it does not.

## 1. Inventory

| Component (source) | State | Operations | Talks to | What is hard | What makes it correct |
|---|---|---|---|---|---|
| Customer redemption (`redemption/service.ts`, `reusable.ts`) | `VoucherRedemption`, `UserVoucherCycleState` | `createRedemption`, with a claim per voucher kind | PIN gate, cycle window, subscription status | guards on reads that are stale at the claim; conditional `updateMany`, `create`, P2002, retry; advisory lock; unique index | once per cycle, cooldown, once per window, refusals honest but for two named cases |
| Cycle window (`subscription/cycle.ts`) | `cycleAnchorDate` of a user | `getCurrentCycleWindow` | redemption, savings | anchor day 29 to 31 in short months | windows tile time, no drift |
| PIN gate (`redemption/service.ts`, `shared/atomicLimiter.ts`) | one Redis counter per customer and branch, with a TTL | consume, compare, clear, refund | redemption | bursts; crash between INCR and EXPIRE; refund after clear or expiry | cap on compares, no permanent or undeserved lockout |
| Validation and suspension (`redemption/service.ts`, `admin/merchants/service.ts`) | `isValidated`, merchant status, cycle flags | `verifyRedemption`, `suspendMerchant` and its refund sweep, `reactivateMerchant` | redemption's rows | read, check, then update by id; a sweep racing with claims and validations, failing midway | every customer in flight refunded once the sweep has ended; a clearing buys one more use, no two |
| Subscription (`subscription/service.ts`, `webhook.ts`) | `Subscription`, `StripeWebhookEvent`, promo count, setup key in Redis | set-up, purchase, cancellation, four kinds of event | Stripe; redemption reads the status | two systems of record, no common transaction; events late, repeated, reordered; failure after the event's record | an event is handled once, statuses come from Stripe, a cancellation reached it, a promo code keeps its limit up to overlaps |
| Renewal (`webhook.ts`, `cycle.ts`) | the user's cycle flags | `invoice.payment_succeeded`, `resetVoucherCycleForUser` | redemption's rows | a reset that is late, concurrent with claims | every use is paid for |
| Outbox and e-mail (`shared/notify.ts`, `queues/processors/email.ts`, `outboxReconciler.ts`, `webhooks/resend.ts`) | `CommunicationLog`, BullMQ jobs | `notify`, worker, failure handler, two-phase sweep, bounce webhook | Resend, every component that writes e-mail | commit then enqueue; retained jobs; stalls and twin workers; crash between send and write | terminal statuses final, payload gone, nothing stranded but behind failed jobs, and not for ever |
| E-mail operations (`shared/emailOps.ts`, `admin/email-ops`) | pause flag, day counters | pause, clear, ratios | notify, webhook | counters beside the rows they count | a retry cannot pause sending |
| Sessions (`shared/session.ts`, `auth/*`) | refresh keys in Redis, `UserSession` | login, rotation, logout, revoke-all | suspension, team | KEYS then DEL; two rotations of one token | a revoked session stays revoked |
| OTP (`shared/otp.ts`) | attempt counter, lock | send, verify | Twilio, auth | checks that pass the lock together | bounded attempts |
| Limiter tiers (`atomicLimiter.ts`, `emailLimiter.ts`, `smsLimiter.ts`) | Redis counters | consume, refund | notify, auth | several keys in one script | a refused call consumes nothing |
| Review of vouchers, branches and merchants (`merchant/voucher`, `merchant/branch`, `merchant/onboarding`, `admin/approvals`, `admin/branches`) | `AdminApproval` and its claims; statuses of `Merchant`, `Voucher`, `Branch` | create, submit, withdraw, delete, close; claim, release, approve, reject, request changes; suspend, deactivate, go live | redemption's guards, discovery | merchants and admins on one row, each checking before it writes and never again | what is reviewed and its row tell one story, nothing is live unreviewed, a claim means work to do |
| Edits under review (`*PendingEdit`, `editApplier.ts`) | pending edits and their rows | request, withdraw, apply, reject | the same queue | an edit and its row written apart | applied once, or withdrawn |
| Maintenance and opening hours (`queues/maintenance*.ts`, `promotePendingHours.ts`, `worker.ts`, `workerShutdown.ts`, `merchant/branch`) | `BranchOpeningHoursPending`, live hours, in-process timers, advisory locks, delayed jobs | stage, withdraw; tick, sweep, promote, stop, exit | BullMQ | hosts sweeping together, nudge against sweep, stop between phases, poison rows | the cool-off is kept, one promotion per row, due rows are promoted, an orderly stop |
| Leads, agreement, moderation, documents, team, favourites, reviews, discovery, insights, encryption, front ends | rows edited by one actor, or none | forms, queries, I/O | | little | see `PROJECT.json` for why each is left out |

`Subscription.status` is read by `createRedemption` (guard), `cycleAnchorDate` gives the cycle, renewals and
suspensions write the cycle flags that redemptions claim, all of them send through the outbox.

## 2. Modules

| Module | Models | Composes |
|---|---|---|
| `Redemption` | `createRedemption`, one action per `await` that matters, and an environment (time, eligibility, resets, refunds) | |
| `Entitlement` | the abstract ledger: what a voucher promises, with no requests, locks or rows | refined by `Redemption` |
| `CycleWindow` | `clampedDate`, `getCurrentCycleWindow`, day by day | discharges `CycleAssumption` of `Redemption` |
| `PinGate` | the counter in front of the PIN compare | stands in for step `pin` of `Redemption` |
| `Validation` | `verifyRedemption`, suspension and its sweep, reactivation | EXTENDS `Redemption` |
| `Renewal` | renewal charges and their late events | EXTENDS `Redemption` |
| `Subscription` | set-up, purchase, cancellation, webhook, with Stripe as environment | |
| `Outbox` | `notify`, workers over BullMQ, sweep, bounces | |
| `Delivery` | what the log of e-mails promises, with no queue, workers or sweeps | refined by `Outbox` |
| `CoolOff` | the abstract promise of staged opening hours | refined by `Hours` |
| `Hours` | staging, withdrawal and promotion of opening hours, with the nudge | |
| `Maintenance` | the scheduler, its sweeps, stop, crash and restart of worker processes | EXTENDS `Hours` |
| `ReviewQueue` | the rows of the review queue and their claims, the merchant's status | |
| `VoucherReview`, `BranchReview` | vouchers and branches, and the decisions on them | EXTEND `ReviewQueue` |
| `EditReview` | edits of live vouchers, branches and the merchant | EXTENDS both |
| `Onboarding` | submission of a merchant and its going live | EXTENDS `EditReview` |
| `MC*` | constants of the TLC instances | |
| `CycleWindowProofs`, `RedemptionProofs`, `PinGateProofs`, `SubscriptionProofs`, `OutboxProofs`, `MaintenanceProofs` | the theorems of the module each is named after, and their proofs | EXTEND it |
| `CompositionProofs` | those of `Validation` and `Renewal` | EXTENDS `RedemptionProofs` |
| `ReviewProofs` | those of the five review modules | EXTENDS `Onboarding` |

### Redemption
`clock` is time; `eligible` holds the users with an active subscription and the active vouchers and branches of
active merchants (those in `Volatile` may change); a request has its arguments `ask`, the `now` it captured (`at`) and its
`stage`, the next step or its answer. `cycleState` is `UserVoucherCycleState`, `redemptions` is
`VoucherRedemption`; `restored` is a history variable that counts the flags cleared from outside.
`ReadVoucher`, `ReadBranch`, `ReadSubscription`, `ReadHistory` and `PassPin` are the guards in the
order of the code, each reading what is there at that moment. Then the kinds differ: `ClaimReusable` (transaction
under the advisory lock), `ClaimTimeLimited` (insert against the unique index on `windowStartsAt`), and for cycle
vouchers `ClaimCycle` (the conditional `updateMany`), `CreateCycleRow` (the `create` that may lose to a twin) and
`RetryClaim` (the second transaction after P2002). A transaction is one action: its statements are
atomic and its conflicts are decided by the row lock, the index or the advisory lock. The code
drawn by a request is a parameter, `CodeOf`, so that collisions can be provoked.

A window occurrence has the instants at which it is `open` and the computed `startsAt` and `endsAt`, which are not the same thing: whether it is
open is asked of the clocks of London, its ends are computed with the offset that London has at midnight UTC. Guard 7 looks for a redemption
between the computed ends (`UsedThisWindow`), the unique index compares computed starts (`SlotTaken`); on the two Sundays on which the clocks
change both can hit the use of another window. Nothing is assumed of the computed instants (only that no two windows of a voucher are
open at once), so the theorems hold for every error in them.

The environment does what the rest of the system may do to these tables: `ResetVoucherCycle` (the renewal's
reset) and `RefundCycle` (the suspension's). `Validation` and `Renewal` then replace it by the
code that really does it, and every step of theirs is one of `Redemption` (`ImplementsRedemption`, the lemma
`RenewalImplements`); what is proved of `Redemption` carries over to them.

### CycleWindow
Days are numbers and `FirstDay[m]` is the first of month `m`, for any calendar whose months have 28 to 31
days. The state is an anchor day, today, and the window returned today; `NextDay` advances. Days are enough because
every date of the code is cut to midnight UTC.

### PinGate
The Redis key has a presence, a value and whether it has an expiry. `Consume` is the limiter's script, `Compare` the PIN's
verdict (a parameter: right, wrong, or a fault of decryption), `Clear` the DEL after a right PIN, `ReadCount` the
GET behind the attempts-remaining answer, `Refund` and `Floor` the DECR and the repair of a value below zero. Each
Redis command is an action; a request may stop between any two. `admitted` and `refunded` are
histories since the counter was last forgotten.

### Validation
`ReadCode` reads a redemption with its merchant, branch and the actor's scope and takes all the early returns;
`MarkValidated` is the update by id, which repeats none of the checks. `Suspend` flips the status under its
guard; `ListInFlight`, `Visit` and `Reset` are the sweep's query, its check for a newer redemption and its conditional
reset, per row; it may stop anywhere. `Reactivate` and `BranchChanges` are the other ways in which the
status guards change. `cleared` is a history: a reset that clears a flag adds the codes of the uses made until then, so that a use
can be told to have been given back after it was made, and not by a clearing of long before.

### Subscription
Purchases and cancellations are calls, each at a step. `stripe` and `ending` are Stripe's side, `emitted` what it has
reported so far (answers and events alike), at most `MaxEvents` in all. A call to Stripe may fail, and `Charge` may succeed with the
answer lost. `recorded` is `StripeWebhookEvent`; `Receive` is the insert and its P2002,
`Handle` the switch on the type, `Fail` a handler that stops in between, `Stop` a purchase that does so once Stripe has answered. Any emitted event is
delivered at any time, any number of times, in any order. Stripe's status `paused` stands for every status that the code does not name and
translates to EXPIRED. `blind` is a history: the purchases that read the promo code's count while another one had read it and not yet
added to it. A row without a `stripeSubscriptionId`, of which cancellation tells Stripe nothing, is written by a development script only
(`prisma/grant-dev-subscription.ts`) and is not modelled.

### Renewal
`Renew` is Stripe charging the user once in a cycle, `RenewalEvent` the webhook running `Resets` at any later time. That an event runs
once is what `HandledOnce` of `Subscription` says.

### Outbox
`row` is the message's `CommunicationLog` (status, has a payload, has an `externalId`), `age` its
side of the two cut-offs. `job` is the BullMQ job with the row's id: state, `attemptsMade`, stalls, and the worker that
holds its lock. A worker goes `load`, `send`, write, `ack`; it can stall at any step and go on unaware while another worker has
the job. `Throw` is BullMQ's treatment of a rejected handler, `OnEmailJobFailed` the code's reaction, later and in any
order. `PhaseA` is the sweep's transaction: it expires the old rows and selects the stale ones with the earliest `SentAt`, at most `Batch`
(`RECONCILE_BATCH`) of which at most `MaxItems` (`phaseBMaxItems`) are started; `PhaseB` enqueues one again. A sweep that runs out of its time budget
(`phaseBBudgetMs`) is a stopped one, a fault. SENT may be written without an `externalId`, when the provider's answer had none. The e-mail provider applies the
Idempotency-Key, so a second send changes nothing. Faults (lost enqueue or answer, failed query, crash, early stall,
eviction of a retained job, stopped sweep, lost count) share one budget.

`Delivery` sees the statuses (`Log`), the messages the provider took, those with a reason to be given up (`Lapsed`: expired, skipped by a
dark worker or out of attempts) and those whose bounce was counted (`Counted`). Jobs, workers, failure events and the sweep's list are
none of its business: a step that only moves those is a stutter.

### Hours and Maintenance
A row of `BranchOpeningHoursPending` is a number, in the order of staging; `live[b]` names the row the live hours of a
branch come from. `Stage` and `CancelPendingHours` are the merchant's transactions, `EnqueueNudge` the delayed job added after
the commit under the branch's id (nothing happens while any job, a retained one included, has it), `NudgeStarts` and `NudgeClaims`
the two steps of `promoteOnePendingHours`: the gates, and the conditional claim with the replacement of the live hours. The same
`Promote` is the claim of the sweep.

Of a worker process `Maintenance` keeps whether it is up or stopping, its place in the tick (`step`), the time to each sweep's
`nextEligibleAt` and the sweeps left. `StartSweep` tries the advisory lock; `PhaseA` selects the due rows and releases the lock with its
transaction; `StartRow`, `ClaimRow`, `RowFails` and `EndRows` are `runBudgetedRows` with its three guards (stop, budget, number of
items). The other sweeps are one action with any outcome. `Stop` sets the flag, `Exit` is the end of an orderly
shutdown or of its patience, `Crash` any other end; `Boot` finds every sweep due. `Poison` are rows whose promotion fails every
time.

### ReviewQueue, VoucherReview, BranchReview, EditReview, Onboarding
`row` is the queue's row of each thing that can be reviewed: a custom voucher, the merchant, a new branch, a request to close
a branch (which has a number, because a branch may ask again), an edit. `edit` says of each row of the three `PendingEdit` tables what it would
change and its status; its contents are left out, so that of what `ApproveEdit` applies only the end of a custom voucher shows. An edit's foreign key
keeps its voucher or branch from being deleted (`HasEdit`). A branch's edit and its row of the queue are written one after the other
(`RequestBranchEdit`, `QueueBranchEdit`), the others' together (`RequestEdit`). `merchant` is its status and whether changes were asked for. A handler is two
actions: `Read...`, its reads and every check on them, puts what it is about to do into a slot of `call`; the action named after it
is its transaction, which repeats no check except where the code's `where` does (`ClaimApproval`, `ApproveMerchant`,
`ApproveBranchCreate`). `WithdrawVoucherSubmission` has a third step, the read of the row inside its transaction. What a handler
remembers besides is `noted`: `goLive` of an approval and `isMainBranch` of a creation. `Abort` ends a slot at any time. A row or
branch that was removed is `"deleted"` or `"gone"`, and an update by id of it fails, as Prisma's does.

Reads of one handler that follow each other directly are one step, and the writes of a transaction are
atomic; both hide overlaps of single statements (two set-main transactions that leave two main branches; two *first*
submissions of one voucher or merchant that each find no row and make one). Contents, the contract, confirmed locations and
`isTestData` only refuse, and are left out: a merchant of the model has signed, and its locations are confirmed.

## 3. Runs

All runs take less than three minutes with two workers.

| Run | Distinct states | Question and result |
|---|---|---|
| `redemption` | 1,914,510 | Three concurrent requests of one user, two of which draw the same code, one voucher of each kind, two cycles, the windows of the October night on which the clocks go back, one restoration, a lapsing subscription. `OncePerCycle`, `CooldownSpacing`, `OncePerWindow` hold; a refusal is wrong only for a taken code or on such a night (`HonestRefusal`); the whole implements `Entitlement` (`KeepsPromise`). |
| `cycle_window` | 13,175 | All anchor days 1 to 31 over fourteen months with a 28-day and a 29-day February: `HoldsNow`, `WindowsTile`, `NoDrift`. |
| `pin_gate` | 59,011 | Five attempts (a right PIN, two wrong ones, two faults) at a limit of two: `CapHolds`, `NoPermanentLockout`, `NoFalseLockout`. |
| `validation` | 2,485,276 | Two redemptions over two cycles, two actors of different scope, two suspensions and sweeps, reactivation, a closing branch: `SweepReachesAll`, `ClearedBetweenUses`, `ImplementsRedemption`. |
| `subscription` | 3,173,263 | Two purchases and one cancellation of a user, or a purchase by each of two users with a promo code of one use, against two webhook deliveries and three reports of Stripe: `HandledOnce`, `StatusWasReported`, `CancellingReachedStripe`, `PromoLimit`. |
| `subscription_lost` | counterexample | `RecordedIsProcessed` fails. |
| `renewal` | 1,227,283 | Three requests and renewals over three cycles: `UsesArePaidFor`. |
| `renewal_twice` | counterexample | `OncePerBillingCycle` fails. |
| `outbox` | 356,572 | One message and a second one behind it, two live workers and one in dark mode, a sweep with a batch of one, two faults of any kind: five invariants, `ImplementsDelivery`, and under fairness `RowIsSettled`, `OldRowExpires`. |
| `maintenance` | 412,226 | Two stages of hours, the first of which can never be promoted, one fault, and two processes with one branch or one process with two: `ImplementsCoolOff`, `NothingStartsAfterStop`, and under fairness `DueIsPromoted`. |
| `onboarding` | 1,217,161 | Merchants with a custom voucher, two flagships, two branches, two edits, and two requests under way at once: `VoucherLanesAgree`, `ClaimedIsPending`, `BranchesAwaitReview`, `EditLanesAgree`. |
| `onboarding_deleted` | counterexample | `DeletedIsHidden` fails, with one request at a time. |

Each property of a passing run has a mutant of the code (named in `PROJECT.json`, defined in front of the
operator it replaces) under which TLC finds it violated.

### Bounds
- `redemption`: a conflict is between two requests and a third can meet its outcome; the requests ask for at most two of the three vouchers (`MCInit`), so
  that two always meet. `Collision` gives two of them one code, so a claim can lose to a code as well as to a row. `MaxClock` 3 gives two cycles
  and the four hours of `OctoberNight`: a window before the change, one open in the hour that comes twice (computed to end after the first) and one
  after it, computed an hour early, in which guard 7 finds the use of the one before. Windows that share a start, as in spring, are left to the theorems. `MaxRestores` 1 lets one flag be
  cleared, after which `OncePerCycle` allows one more use.
- `pin_gate`: limit two and five requests put more than the limit's worth of every verdict in flight.
- `validation`: two cycles of one instant are enough for a newer redemption to own the flag while a sweep is under way; `MaxRestores` 2 lets both
  sweeps clear the flag of the one pair, so that the second is not excused by what the first did.
- `subscription`: three reports include created, changed and ended; two handlers are enough for a repeated event to meet
  itself. The calls of two stories do not meet (`MCInit` starts one of them with the other's calls refused): two purchases and a
  cancellation of one user, which meet on the unique `userId`, and purchases by two users with `MaxUses` 1, which reach the limit and exceed
  it, both when they overlap and when the first is never counted. Action constraints leave out set-up sessions that no purchase would read (`SetupIsUsed`), and
  in the second story the later life of the subscriptions at Stripe (`SecondIsQuiet`), on which the promo code does not depend.
- `outbox`: `Attempts` is 2 (3 in the code) and `MaxStalls` 1 (BullMQ's default), `MaxFaults` 2 of any kind, beside refusals of the
  provider, which are not bounded. Messages meet only in the sweep, where rows at the head of the batch keep later ones out. `Batch` is 1
  (200 in the code), so one stuck row fills it; the action constraint `SecondIsBehind` lets the second message be written when the first is stuck (stale, its
  job failed and retained) with the faults used up and the workers idle. It constrains only that `Commit`, of which no fairness is assumed, so it takes no fair
  behaviour of the others away. `RowIsSettled` without its last disjunct is violated on this instance: the second row waits behind the stuck
  first one until that expires.
- `maintenance`: two rows are the fewest that can replace each other, stand behind each other in a batch or belong to two branches; the
  first is in `Poison`, and `MaxItems` 2 is just enough to pass it (`DueIsPromoted` needs fewer poison rows than that, 20 by
  default). One other sweep runs before the one for hours. `MaxDelay` 2 lets them be due together or apart.
- `onboarding`: two requests are the fewest that overlap, and the properties speak of one voucher, row, branch or edit at a time. To
  keep these from multiplying, `MCInit` starts from four merchants the program can have: one with a main
  branch and all its vouchers to come, one (before or after it was live) with all its branches to come, one left with a
  branch that is not the main one, and a live one, with a draft, a flagship, a main branch and one sent back, to edit. `Bounds` names what
  each leaves out: the first leaves its branch as it is, the next two keep their status, only the third asks for a second closure of
  a branch, and only the fourth edits (two edits of one thing, so that they are open together or follow each other) while its draft is
  approved and its staged branch cancelled. `FlagshipCount` is 1 (2 in the code).

Symmetry is used in runs of safety properties only: the requests that draw the same code (`RequestsAlike`), deliveries and the
purchases of one story (`CallsAlike`), suspensions (`AdminsAlike`), branches, flagships and requests of `onboarding` (`Symmetry`). `maintenance` uses none: `MCInit` fixes
which process and which branch come first instead. `CHECK_DEADLOCK FALSE` is set
everywhere because every instance has finitely many calls, which all end.

### Fairness
`Outbox` and `Maintenance` assume some. In `Outbox` live workers go on (`WF` of each worker's step, refusals included: BullMQ workers poll), the
stalled-job checker finds the jobs of dead workers, rows age past the grace period, and sweeps run and go through their rows:
`maintenanceScheduler.ts` re-arms its timer after every outcome. Nothing is
assumed of the process that committed a row: it may never enqueue, and `RowIsSettled` holds all the same because the sweep
does. Faults are never fair, and bounded. `GoOld` is not fair either: `RowIsSettled` does not need it,
`OldRowExpires` starts from an old row.

In `Maintenance` a process that is up goes on, and one that is down is started again (`WF` of `Runs`: the timer is re-armed in every
case, and the worker runs under a supervisor). Nothing is assumed of the merchant, of the enqueue of the nudge or of the nudge itself:
`DueIsPromoted` holds by the sweep alone, from any state in which the cool-off of a row is over. Stops, crashes,
timeouts and failed transactions are bounded faults, and the failures of poison rows are not bounded.

## 4. Proofs

Every theorem is proved for all values of the constants that satisfy the `ASSUME`s of its module. Those are typings (that rows of
different tables are different subjects, `SubjectAssumption`, is one of them), and three facts about the system: the windows of one voucher do not overlap (`WindowAssumption`, enforced by `merchant/voucher/service.ts` when a voucher is
written), cycle starts are monotone and never in the future (`CycleAssumption`, which `CycleStartsAreMonotone` of
`CycleWindowProofs` proves of the code), and all vouchers are of the merchant that `Validation` suspends.

- `RedemptionProofs`. `OncePerCycle` is not inductive: it does not say what the row looks like when the allowance is used
  up. `AllowanceInv` does: the uses of a cycle are at most the uses given back, plus one if the row bars that cycle. A claim
  raises the count by one only if the row did not bar the cycle, and it leaves it barring; a restoration stops the row barring and adds to the
  count of uses given back. `CooldownSpacing` and `OncePerWindow` follow from the
  re-read under the lock and from the index; `StageInv` remembers what early guards established. `RedemptionKeepsPromise`
  shows that each step is a step of `Entitlement` or a stutter, the interesting part being that a claim that
  commits is `Allowed` (`ClaimIsAllowed`). `HonestRefusal` rests on `HonestInv`: a set flag was
  left by a redemption of its cycle (`WitnessInv`), and a claim is tried again only because it found a row or because its code is taken
  (`RetryInv`). Codes may collide and windows be computed wrongly in any way: `WindowRefusal` shows that a refusal without a use of that window needs a
  window that is not `Exact`.
- `CycleWindowProofs`: arithmetic on month lengths; clamped starts increase (`StartsIncrease`) and one cycle holds each day (`OneCycle`).
- `PinGateProofs`: besides the types (`TypeCorrect`), `CountInv`: the counter holds every admission not given back, and exceeds the admissions only when the limit has been
  reached.
- `CompositionProofs`: every step of `Validation` is a step of `Redemption` (`StepImplements`), with `SweepInv` to know what the
  sweep holds. `OncePerCycle` follows through `RedemptionProofs`. `ClearedBetweenUses` is not inductive: it says nothing of the flag
  that the second of two claims meets. `StandingInv` does: a use that no sweep has cleared since has its flag set, for its cycle or a later one, so no
  claim gets past it. `SweepReachesAll` speaks of the end of a sweep only; `ReachInv`
  says of one under way that whoever it listed and no longer has to do is `Freed`, the row it holds excepted. A reset that finds no flag
  frees nobody itself: that its use was then cleared before, after it was made, is `StandingInv` again, and that a sweep's work lasts is that uses and
  clearings are only ever added (`FreedStays`).
  `Renewal` likewise, with `ResetsArePaid`: no flag was cleared more often than renewals were handled. Both compositions therefore
  implement `Entitlement` (`SuspensionKeepsPromise`, `RenewalKeepsPromise`): the promise to the customer holds with admins, staff and billing at work.
- `SubscriptionProofs`: `HandledOnce`, `StatusWasReported` and `CancellingReachedStripe` with what is in flight: a delivery holds a recorded event, a
  purchase about to write its row has been reported, a row belongs to a purchase past its insert, a cancellation about to mark a
  row has told Stripe. `PromoLimit` needs `PromoInv`, which looks at the purchases that are still under way as well: those that have a row or have passed
  the check (`Takers`) exceed the limit by no more than the `blind` and the `Lost`. A purchase that passes the check with nobody in between sees a count that
  lacks the lost uses only; one that passes with somebody in between is blind and makes up for itself. That rows are as many as their purchases
  is a bijection (`RowsAreSubs`). The count is that of the rows whose use is neither lost nor still to come, so it is never ahead of them.
- `OutboxProofs`: the row's invariants with what workers, jobs and failure events know: a worker about to write SENT
  has been accepted, one about to acknowledge sees a settled row, a failed event of the last attempt is an excuse. That settled rows
  stay settled (`Onwards`) carries them through the steps of the other actors. From these, each step is a step of `Delivery` or a
  stutter (`ImplementsDeliveryHolds`): a worker's late write finds its row settled (`TerminalDelivers`), an attempt or a stall is a `Try` of a message
  that was recorded (`TryDelivers`, by `CommittedInv`), and only one handler per message is left to count (`CountBounceDelivers`). That no status is
  taken back (`StatusIsFinalHolds`) is then a fact about `Delivery`. `PayloadOnlyWhileQueued` (a row has its payload
  exactly while it is QUEUED) is proved and not among the runs' properties.
- `MaintenanceProofs`: `TypeOK` is inductive with `OnePending`, the partial unique index: a branch has one waiting row, so that what the
  abstract cool-off awaits is well defined (`AwaitingRow`, `AwaitingNone`). Each step of a merchant, a nudge or a sweep is then a step of
  `CoolOff` or a stutter; the claim publishes only what `Gates` lets through (`PromoteStep`). Steps of one process are shown to leave the
  others' part of the invariant alone (`OneStep`), for any number of them. From the refinement follows, by an invariant of `CoolOff` alone
  (`Newer`: what waits is newer than what is live), that live hours never go back to those of an earlier change
  (`HoursOnlyGetNewerHolds`; not among the runs' properties, TLC agrees on the instance of `maintenance`).

- `ReviewProofs`: one invariant, `Inv`, for all lanes of the review, because they lean on each other. It was checked by TLC on the instance of
  `onboarding` before it was proved. Beside the four properties of the run it holds
  - what a request under way may still rely on. Most rely on nothing: they write without looking again, and the properties hold because each
    transaction writes both sides. The exceptions are in `CloseCall` (only a branch that is through its review, `Placed`, is
    ever asked to be closed; branches never lose that) and `EditCall` (a decision has a row to decide, a branch's edit that is about to be queued has
    none yet, and no two requests are about to queue the same one);
  - of vouchers, `Story`, which is stronger than `VoucherLanesAgree`: a voucher that waits, approved, for its merchant has
    an approved row, or `ApproveMerchant` would take it live beside a row that still waits. That an edit only ever refers to a voucher that exists is why
    `ApproveEdit` cannot bring back a deleted one;
  - of branches, that a request to close one exists only for a `Placed` branch.

  A step of one lane leaves the others' rows alone (`QueueFrame`, `VoucherFrame`, `BranchFrame`, `EditFrame`, `OnboardingFrame`) and begins only
  its own kinds of request (`Begun`); what it does to its own is an effect (`VoucherEffect`, `BranchEffect`, `EditEffect`, `OnboardingEffect`), from which the
  steps of the invariant follow. The theorem is for any number of vouchers, branches, closures, edits and overlapping requests; the run has two requests, starts
  from four merchants and bounds what each does. An action property follows from `BranchInv` and `BranchEffect`: a staged branch becomes LIVE only by
  an approval, written with its row, and is never closed (`StagedUntilDecidedHolds`; not among the runs' properties).

Only model-checked: the liveness of `Outbox` and `Maintenance` (`RowIsSettled`, `OldRowExpires`, `DueIsPromoted`), which the prover does not
reach. Every other property of a passing run is stated by a theorem. No module with proofs uses a RECURSIVE operator.

## 5. Where the code departs from its own documentation

Shown by a run:

1. `subscription_lost`. The webhook records an event before it works on it, so a failure in between makes Stripe's redelivery a no-op
   (`webhook.ts:26` takes a record for a proof of processing).
2. `renewal_twice`. The cycle begins at midnight of the anchor day, the flags are reset when the event arrives: a voucher used in between
   can be used again in the same cycle.
3. `onboarding_deleted`. Deleting a staged branch leaves its approval in the queue, and approving it sets the deleted branch LIVE and
   active (`branchLifecycleApplier.ts:144`), though `schema.prisma:577` says a deleted branch is kept from customers by
   `isActive:false`. With two requests a late `isActive: true` does the same.

Without a run of their own:

- A duplicate `redemptionCode` is taken for a lost race on the cycle row: the request ends in an unhandled P2002, or tells a user who never
  redeemed that he has, though the comment on `generateRedemptionCode` says a collision retries (`redemption/service.ts:556`, `:30`). `HonestRefusal`
  names the case (`LostToItsCode`).
- On the two Sundays on which the clocks change, the start and end computed for a window are up to an hour away from when it is open
  (`voucherAvailability.ts:36-56`; the comment at line 153 calls them correct). A use of one window then lies between the computed ends of the next, which the user is
  told he has used; in spring Sunday's window of 23:00 and Monday's of 00:00 share a start, and the unique index refuses the second use. `HonestRefusal` names the case (`ClocksChange`);
  `OncePerWindow` holds on those days too.
- A status of Stripe that the code does not name, such as `paused`, is written as EXPIRED (`webhook.ts:175`, `subscription/service.ts:248`), from which nothing
  can be cancelled (`:208`), while the user may buy again: he is charged, and the insert fails on the unique `userId`.
- The refunded code of a suspended merchant can still be validated, by a call that read ACTIVE before the flip or after
  reactivation; `admin/merchants/service.ts:674` says it cannot.
- A user whose subscription is over is charged and then hits the unique `userId`; `schema.prisma:1478` promises a new row.
- A rejected BRANCH_CREATE becomes CHANGES_REQUESTED, which approval then answers with `alreadyDone`, without doing anything
  (`branchLifecycleApplier.ts:109`); the comment at line 37 says the same row can be approved again.
- A merchant becomes ACTIVE without any review: by deactivating and reactivating itself (`auth/merchant/routes.ts:198-229`), even
  while REGISTERED or after a rejection, or by a suspension and its end. `voucherApprover.ts:191` takes an ACTIVE merchant to have
  its flagships, `admin/merchants/service.ts:781` never to activate an unapproved one.
- A voucher approved while its merchant is not live goes live only with `approveApproval`: approved during a suspension, or between
  its read of the merchant and the go-live, or with a discarded flagship left INACTIVE, it waits for good (`voucherApprover.ts:299`
  tells its owner that it goes live automatically).
- A staged branch can be made the main one (`branch/service.ts:888`); line 287 says it never can.
- Two requests that overlap make two open edits of one voucher, branch or merchant; `voucher/service.ts:1248` says one PENDING per voucher.
- A branch's edit and its row are two writes (`branch/service.ts:1042`, `:1052`). A failure in between leaves an open edit that no admin
  can see and that refuses every other one until it is withdrawn; a withdrawal in between leaves a row that nobody can decide,
  the dangling row which the comment at line 1357 describes as past. `EditLanesAgree` leaves branches out for this reason.
- The nudge of a second stage of hours does not replace the first (`branch/service.ts:1479` says it does): BullMQ ignores
  an id it has. The sweep promotes the row.

Behaviour the models contain for which no property is stated, because nothing in the code prevents it:

- A PIN refund applied after the counter was cleared or expired takes away somebody else's failure (`redemption/service.ts:336`);
  `CapHolds` counts it in, and no property speaks of it.
- Two concurrent scans of one code may both be told that they validated it (`redemption/service.ts:657`).
- The sweep's check for a newer redemption is stale at the reset: a use made in between is given back (`admin/merchants/service.ts:711`).
  `ClearedBetweenUses` bounds what comes of it: one more use, and no two.
- An event that arrives before its row exists is recorded, acknowledged and dropped (`webhook.ts:56`); a late event overwrites a later status.
- Two concurrent purchases are both charged, as is a retry after a lost answer: there is no idempotency key
  (`subscription/service.ts:104`, `:138`). A promo code is sold beyond its limit by purchases that overlap (`:121`) and after one that stopped between its
  insert and its count (`:178`): `PromoLimit` allows these and nothing else.
- As many rows as the sweep's batch holds, each behind a failed job that BullMQ retains, keep newer rows from being enqueued again until they expire
  (`outboxReconciler.ts:123`): `RowIsSettled` says so (`BatchIsStuck`).
- A bounce that comes before the SENT write finds no row (`webhooks/resend.ts:80`); a message may be FAILED although the
  provider took it, when the answers of all attempts were lost or the sweep expired its row while a worker was sending; a job failed for
  stalling may arrive below the limit of attempts, so its row waits for its expiry (`email.ts:123`); an empty
  provider id leaves a SENT row that no bounce finds (`shared/email.ts:119`).
- Decisions, withdrawals and submissions that overlap are settled by the last writer (`voucherApprover.ts:257`): a late rejection undoes an
  approval, with the row of the queue. A late approval of a merchant, or a late deactivation, lifts a suspension; a
  late second submission takes a live merchant back to review (`onboarding/service.ts:539`), and a late one of a flagship takes that
  back (`voucher/service.ts:1170`). A release that overlaps a request for changes hides the request (`approvals/service.ts:547`).
  A withdrawal that overlaps the approval of an edit leaves it applied and WITHDRAWN (with its row APPROVED), or it is applied after it was withdrawn; a
  late rejection leaves an applied edit REJECTED (`editApplier.ts:349`, `:583`), and two approvals at once add its photos twice.
- A submission that overlaps the end of the voucher leaves its row waiting behind a voucher that is over (`voucher/service.ts:633`). A staged branch of
  which an edit was ever asked for cannot be cancelled: the foreign key refuses (`branch/service.ts:491`).
- A voucher deleted while it is submitted leaves its row in the queue (`voucher/service.ts:711`). A branch closed twice at once
  has two rows, and rejecting the second after the first was approved makes the deleted branch LIVE, though not active. A main branch can be deleted
  by a call that read it before it became the main one. Two first branches made at once are both main and unreviewed (`branch/service.ts:309`).

## 6. Not modelled, and the plan

Abstracted in the modelled parts: amounts, texts, audit entries and notifications written beside the modelled rows; the
order of tests that lead to the same refusal; the creation of the Stripe customer; the gates in front of `notify`; the
BullMQ producer's connection; the screenshot flag of a redemption.

Next, in this order:

1. `Sessions`: login, rotation with its hash compare, logout, revoke-all (KEYS then DEL) and account status, for the four
   roles. Properties: a token is rotated once; a revoked or suspended account has no session left once its requests have ended.
   Runs: two rotations of one token, a rotation against a revocation. Theorem: type correctness and single rotation.
2. `Otp`: verify, lock and attempts; then the limiter's three tiers as `Limiter`, of which `PinGate` uses one.
3. `Onboarding` in place of `EligibilityChanges` of `Redemption`, as `Validation` and `Renewal` replace its resets.
4. The sweeps of stale claims (one alert per claim) and of leads in `Maintenance`, with its alert sink; leads can be changed or converted by a
   request that read them before the sweep anonymised them (`admin/leads/service.ts`).
5. The send-pause of `Outbox` and its counters.
6. An abstract specification of one reviewed subject (drafted, waiting, decided, live), which the lanes of vouchers, branches and edits
   refine, with its proof from the effects of `ReviewProofs`.
