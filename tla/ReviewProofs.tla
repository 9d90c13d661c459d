----------------------------- MODULE ReviewProofs -----------------------------
(* The review lanes of a merchant, for any number of vouchers, branches,     *)
(* edits and overlapping requests: what the row of the queue says of each    *)
(* subject, and what the subject says of itself, stay together.              *)
EXTENDS Onboarding, TLAPS

-----------------------------------------------------------------------------
(* The inductive invariant, in the order of its lanes.                       *)

\* The operations that each component begins.
QueueOps == {"release", "suspend", "reactivate", "deactivate", "selfReactivate"}
VoucherOps == {"submit", "delete", "withdraw", "withdrawRow", "create", "submitRmv",
               "category", "approve", "reject", "requestChanges"}
CloseOps == {"close", "withdrawClose", "approveClose", "rejectClose"}
BranchOps == {"stage", "instant", "cancel", "setMain", "activate", "hide", "deleteBranch",
              "approveCreate", "rejectCreate"} \cup CloseOps
EditOps == {"requestEdit", "queueEdit", "withdrawEdit", "approveEdit", "rejectEdit"}
MerchantOps == {"submit", "approve", "reject", "requestChanges"}

\* The statuses of a voucher and of its row that tell one story: those of
\* VoucherLanesAgree, and a voucher that waits for the merchant is approved on both.
Story(s, a, q) ==
  /\ q = "PENDING" => a = "PENDING" /\ s \in {"PENDING_APPROVAL", "INACTIVE"}
  /\ s = "PENDING_APPROVAL" /\ a = "PENDING" => q = "PENDING"
  /\ s = "ACTIVE" => a = "APPROVED" /\ q = "APPROVED"
  /\ s = "PENDING_APPROVAL" /\ a = "APPROVED" => q = "APPROVED"

\* Nor has a voucher a row before it exists, and one that an edit refers to is never
\* deleted, so that the end of a voucher cannot bring it back.
VoucherInv ==
  \A v \in Vouchers :
    /\ Exists(v) => Story(voucher[v].status, voucher[v].approval, row[v].status)
    /\ voucher[v].status = "none" => row[v].status # "PENDING"
    /\ HasEdit(v) => Exists(v)

\* A branch that has been through its review, if it needed one.
Placed(b) == branch[b].life \notin {"none", "PENDING_CREATE"}

\* Only such a branch is ever asked, or under way, to be closed.
CloseCall(k) ==
  /\ k.op \in {"close", "withdrawClose"} => k.on \in Branches /\ Placed(k.on)
  /\ k.op \in {"approveClose", "rejectClose"} => k.on \in Closes /\ Placed(k.on[1])

BranchInv ==
  /\ BranchesAwaitReview
  /\ \A b \in Branches, n \in Requests : row[<<b, n>>].status # "none" => Placed(b)
  /\ \A c \in Calls : CloseCall(call[c])

\* What a request about an edit may still rely on when it writes.
EditCall(k) ==
  /\ k.op \in {"queueEdit", "withdrawEdit", "approveEdit", "rejectEdit"} =>
       k.on \in Edits /\ edit[k.on].status # "none"
  /\ k.op \in {"approveEdit", "rejectEdit"} => row[k.on].status # "none"
  /\ k.op = "queueEdit" =>
       /\ row[k.on].status = "none"
       /\ edit[k.on].on \in Branches /\ edit[k.on].status \in {"PENDING", "WITHDRAWN"}

EditInv ==
  /\ EditLanesAgree
  /\ \A e \in Edits : edit[e].status = "none" => row[e].status = "none"
  /\ \A c \in Calls : EditCall(call[c])
  /\ \A c, d \in Calls : (call[c].op = "queueEdit" /\ call[d].op = "queueEdit" /\ c # d) =>
       call[c].on # call[d].on

Inv == TypeOK /\ ClaimedIsPending /\ VoucherInv /\ BranchInv /\ EditInv

-----------------------------------------------------------------------------
(* What the steps are made of.                                              *)

RowType ==
  [status : {"none", "PENDING", "CHANGES_REQUESTED", "APPROVED", "REJECTED",
             "WITHDRAWN", "deleted"},
   claimed : BOOLEAN]
RowsOK == row \in [Subjects -> RowType]

CallType == [op : Operations, on : Subjects \cup Rmvs, noted : BOOLEAN]
Noting == {"approve", "instant"}
CallsOK ==
  /\ call \in [Calls -> CallType]
  /\ \A c \in Calls : call[c].noted => call[c].op \in Noting

MerchantStatuses == {"REGISTERED", "PENDING_APPROVAL", "ACTIVE", "SUSPENDED", "INACTIVE"}
MerchantType == [status : MerchantStatuses, needsChanges : BOOLEAN]
MerchantOK == merchant \in MerchantType

\* The types, variable by variable.
LEMMA TypeParts ==
  TypeOK <=> /\ RowsOK /\ CallsOK /\ MerchantOK
             /\ VoucherTypeOK /\ BranchTypeOK /\ EditTypeOK
BY DEF TypeOK, QueueTypeOK, RowsOK, RowType, CallsOK, CallType, Noting, MerchantOK,
   MerchantType, MerchantStatuses

\* Each part of the invariant speaks of the calls one by one: a step moves one of them.
Moves1(c, k) ==
  /\ call'[c] = k
  /\ \A d \in Calls : d # c => call'[d] = call[d]

\* The requests that a step moves, it moves to an operation of its component, or ends.
Begun(ops) == \A c \in Calls : call'[c] = call[c] \/ call'[c].op \in ops \cup {"none"}

\* A request that begins takes its note with it, and nothing else moves.
LEMMA BeginCall ==
  ASSUME TypeOK, NEW c \in Calls, NEW op \in Operations, NEW x \in Subjects \cup Rmvs,
         NEW noted \in BOOLEAN, noted => op \in Noting, BeginNoting(c, op, x, noted)
  PROVE  /\ Moves1(c, [op |-> op, on |-> x, noted |-> noted]) /\ CallsOK'
         /\ \A ops : op \in ops => Begun(ops)
<1> DEFINE k == [op |-> op, on |-> x, noted |-> noted]
<1>1. CallsOK /\ call' = [call EXCEPT ![c] = k] /\ k \in CallType
  BY TypeParts DEF BeginNoting, CallType
<1>2. k.noted => k.op \in Noting
  OBVIOUS
<1>3. k.op = op
  OBVIOUS
<1> HIDE DEF k
<1>4. Moves1(c, k) /\ CallsOK'
  BY <1>1, <1>2 DEF Moves1, CallsOK
<1>5. \A ops : op \in ops => Begun(ops)
  BY <1>3, <1>4 DEF Moves1, Begun
<1> QED
  BY <1>4, <1>5 DEF k

\* One that ends leaves nothing behind.
LEMMA CommitCall ==
  ASSUME TypeOK, NEW c \in Calls, call' = [call EXCEPT ![c] = Idle]
  PROVE  Moves1(c, Idle) /\ CallsOK' /\ \A ops : Begun(ops)
<1>1. CallsOK /\ Idle \in CallType /\ ~Idle.noted
  BY TypeParts DEF Idle, CallType, Operations, Subjects
<1> QED
  BY <1>1 DEF Moves1, CallsOK, Begun, Idle

\* What a step writes of the merchant is a merchant again.
LEMMA MerchantSet ==
  ASSUME NEW m \in MerchantType, NEW s \in MerchantStatuses, NEW b \in BOOLEAN
  PROVE  /\ [status |-> s, needsChanges |-> b] \in MerchantType
         /\ [m EXCEPT !.status = s] \in MerchantType
         /\ [m EXCEPT !.needsChanges = b] \in MerchantType
<1>1. m = [status |-> m.status, needsChanges |-> m.needsChanges]
  BY DEF MerchantType
<1>2. [m EXCEPT !.status = s] = [status |-> s, needsChanges |-> m.needsChanges]
  BY <1>1
<1>3. [m EXCEPT !.needsChanges = b] = [status |-> m.status, needsChanges |-> b]
  BY <1>1
<1> QED
  BY <1>1, <1>2, <1>3 DEF MerchantType

\* A write of a row writes no other.
LEMMA RowSet ==
  ASSUME TypeOK, NEW x \in Subjects,
         NEW s \in {"none", "PENDING", "CHANGES_REQUESTED", "APPROVED", "REJECTED",
                    "WITHDRAWN", "deleted"},
         SetRow(x, s)
  PROVE  /\ row'[x] = [status |-> s, claimed |-> FALSE]
         /\ \A y \in Subjects : y # x => row'[y] = row[y]
         /\ RowsOK'
BY TypeParts DEF SetRow, RowsOK, RowType

\* A claim moves without the status.
LEMMA ClaimSet ==
  ASSUME TypeOK, NEW x \in Subjects, NEW b \in BOOLEAN,
         row' = [row EXCEPT ![x].claimed = b]
  PROVE  /\ row'[x] = [status |-> row[x].status, claimed |-> b]
         /\ \A y \in Subjects : y # x => row'[y] = row[y]
         /\ RowsOK'
<1>1. RowsOK /\ row[x] \in RowType
  BY TypeParts DEF RowsOK
<1>2. row'[x] = [row[x] EXCEPT !.claimed = b] /\ DOMAIN row' = Subjects
      /\ \A y \in Subjects : y # x => row'[y] = row[y]
  BY <1>1 DEF RowsOK
<1>3. [row[x] EXCEPT !.claimed = b] = [status |-> row[x].status, claimed |-> b]
  BY <1>1 DEF RowType
<1>4. [status |-> row[x].status, claimed |-> b] \in RowType
  BY <1>1 DEF RowType
<1>5. row' \in [Subjects -> RowType]
  BY <1>1, <1>2, <1>3, <1>4 DEF RowsOK
<1> QED
  BY <1>2, <1>3, <1>5 DEF RowsOK

\* Every claim that a step leaves was there, or is on a row that waits.
ClaimsKept ==
  \A x \in Subjects : row'[x] = row[x] \/ (row'[x].claimed => row'[x].status = "PENDING")

\* It leaves no claim either.
LEMMA RowSetKeepsClaims ==
  ASSUME TypeOK, NEW x \in Subjects,
         NEW s \in {"none", "PENDING", "CHANGES_REQUESTED", "APPROVED", "REJECTED",
                    "WITHDRAWN", "deleted"},
         SetRow(x, s)
  PROVE  ClaimsKept
BY RowSet DEF ClaimsKept

-----------------------------------------------------------------------------
(* What each component leaves alone, and the types it keeps.                *)

\* Claims, releases and the merchant's status leave every row's status as it is.
LEMMA QueueFrame ==
  ASSUME TypeOK, QueueNext
  PROVE  /\ RowsOK' /\ CallsOK' /\ MerchantOK'
         /\ Begun(QueueOps)
         /\ \A x \in Subjects : row'[x].status = row[x].status
         /\ ClaimsKept
<1> DEFINE Kept1 == /\ RowsOK'
                    /\ \A x \in Subjects : row'[x].status = row[x].status
                    /\ ClaimsKept
<1>0. RowsOK /\ CallsOK /\ MerchantOK
  BY TypeParts
<1>1. UNCHANGED row => Kept1
  BY <1>0 DEF RowsOK, ClaimsKept
<1>2. UNCHANGED call => CallsOK' /\ Begun(QueueOps)
  BY <1>0 DEF CallsOK, Begun
<1>3. UNCHANGED merchant => MerchantOK'
  BY <1>0 DEF MerchantOK
<1>4. ASSUME NEW x \in Subjects, ClaimApproval(x)
      PROVE  Kept1 /\ MerchantOK' /\ UNCHANGED call
  <2>1. MerchantOK'
    BY <1>0, <1>4, MerchantSet DEF ClaimApproval, MoveStep, MerchantOK, MerchantStatuses
  <2>2. row' = [row EXCEPT ![x].claimed = TRUE] /\ UNCHANGED call /\ row[x].status = "PENDING"
    BY <1>4 DEF ClaimApproval
  <2>3. /\ row'[x] = [status |-> row[x].status, claimed |-> TRUE]
        /\ \A y \in Subjects : y # x => row'[y] = row[y]
        /\ RowsOK'
    BY <2>2, ClaimSet
  <2> QED
    BY <2>1, <2>2, <2>3 DEF ClaimsKept
<1>5. ASSUME NEW c \in Calls, NEW x \in Subjects, ReadRelease(c, x)
      PROVE  CallsOK' /\ Begun(QueueOps) /\ UNCHANGED <<merchant, row>>
  <2>1. BeginNoting(c, "release", x, FALSE)
    BY <1>5 DEF ReadRelease, Begin
  <2> QED
    BY <1>5, <2>1, BeginCall DEF ReadRelease, Operations, QueueOps
<1>6. ASSUME NEW c \in Calls, call' = [call EXCEPT ![c] = Idle]
      PROVE  CallsOK' /\ Begun(QueueOps)
  BY <1>6, CommitCall
<1>7. ASSUME NEW c \in Calls, NEW x \in Subjects, ReleaseApproval(c, x)
      PROVE  Kept1 /\ MerchantOK'
  <2>1. MerchantOK'
    BY <1>0, <1>7, MerchantSet DEF ReleaseApproval, MoveStep, MerchantOK, MerchantStatuses
  <2>2. row' = [row EXCEPT ![x].claimed = FALSE]
    BY <1>7 DEF ReleaseApproval
  <2>3. /\ row'[x] = [status |-> row[x].status, claimed |-> FALSE]
        /\ \A y \in Subjects : y # x => row'[y] = row[y]
        /\ RowsOK'
    BY <2>2, ClaimSet
  <2> QED
    BY <2>1, <2>3 DEF ClaimsKept
<1>8. ASSUME NEW c \in Calls, ReadStatus(c)
      PROVE  CallsOK' /\ Begun(QueueOps) /\ UNCHANGED <<merchant, row>>
  <2>1. PICK op \in {"suspend", "reactivate", "deactivate", "selfReactivate"} :
          BeginNoting(c, op, Merchant, FALSE)
    BY <1>8 DEF ReadStatus, Begin
  <2>2. op \in Operations /\ op \in QueueOps /\ Merchant \in Subjects \cup Rmvs
    BY DEF Operations, QueueOps, Subjects
  <2> QED
    BY <1>8, <2>1, <2>2, BeginCall DEF ReadStatus
<1>9. ASSUME NEW c \in Calls,
             \/ SuspendMerchant(c) \/ ReactivateMerchant(c)
             \/ Deactivate(c) \/ SelfReactivate(c)
      PROVE  MerchantOK' /\ UNCHANGED row /\ call' = [call EXCEPT ![c] = Idle]
  BY <1>0, <1>9, MerchantSet DEF SuspendMerchant, ReactivateMerchant, Deactivate, SelfReactivate, Commit,
     SetMerchant, MerchantOK, MerchantStatuses
<1> QED
  BY <1>1, <1>2, <1>3, <1>4, <1>5, <1>6, <1>7, <1>8, <1>9
     DEF QueueNext, ReleaseApproval, Commit, Abort

\* What a step of the voucher lane does to a voucher and its row.
Approvals == {"PENDING", "CHANGES_REQUESTED", "APPROVED", "REJECTED"}

Created(v) ==
  voucher[v].status = "none" /\ SetVoucher(v, "DRAFT", "PENDING") /\ UNCHANGED row

Deleted(v) ==
  /\ Exists(v) /\ ~HasEdit(v)
  /\ SetVoucher(v, "deleted", voucher[v].approval) /\ UNCHANGED row

Told(v) ==
  /\ Exists(v)
  /\ \E s \in Statuses \ {"none"}, a \in Approvals,
        q \in {"PENDING", "WITHDRAWN", "APPROVED", "REJECTED", "CHANGES_REQUESTED"} :
       Story(s, a, q) /\ SetVoucher(v, s, a) /\ SetRow(v, q)

\* A voucher is its status and its approvalStatus.
LEMMA VoucherFields ==
  ASSUME TypeOK, NEW v \in Vouchers
  PROVE  /\ voucher[v].status \in Statuses \cup {"deleted"} /\ voucher[v].approval \in Approvals
         /\ \A s : voucher' = [voucher EXCEPT ![v].status = s] <=>
                     SetVoucher(v, s, voucher[v].approval)
<1>1. /\ voucher[v].status \in Statuses \cup {"deleted"} /\ voucher[v].approval \in Approvals
      /\ voucher[v] = [status |-> voucher[v].status, approval |-> voucher[v].approval]
  BY TypeParts DEF VoucherTypeOK, Approvals
<1>2. \A s : [voucher[v] EXCEPT !.status = s] = [status |-> s, approval |-> voucher[v].approval]
  BY <1>1
<1> QED
  BY <1>1, <1>2 DEF SetVoucher

\* A read of the voucher lane begins one of its requests.
LEMMA VoucherReadsBegin ==
  ASSUME TypeOK, NEW c \in Calls, VoucherReads(c)
  PROVE  CallsOK' /\ Begun(VoucherOps)
<1>1. ASSUME NEW op \in VoucherOps, NEW x \in Vouchers \cup Rmvs \cup {Merchant},
             NEW noted \in BOOLEAN, noted => op = "approve", BeginNoting(c, op, x, noted)
      PROVE  CallsOK' /\ Begun(VoucherOps)
  <2>1. op \in Operations /\ x \in Subjects \cup Rmvs /\ (noted => op \in Noting)
    BY <1>1 DEF VoucherOps, Operations, Subjects, Noting
  <2> QED
    BY <1>1, <2>1, BeginCall
<1>2. ASSUME NEW v \in Vouchers, ReadSubmit(c, v) \/ ReadDelete(c, v) \/ ReadWithdraw(c, v)
      PROVE  CallsOK' /\ Begun(VoucherOps)
  BY <1>1, <1>2 DEF ReadSubmit, ReadDelete, ReadWithdraw, Begin, VoucherOps
<1>3. ASSUME NEW v \in Vouchers, ReadWithdrawRow(c, v)
      PROVE  CallsOK' /\ Begun(VoucherOps)
  <2> DEFINE k == [op |-> "withdrawRow", on |-> call[c].on, noted |-> call[c].noted]
  <2>1. CallsOK /\ call[c] \in CallType
    BY TypeParts DEF CallsOK
  <2>2. ~call[c].noted
    BY <1>3, <2>1 DEF ReadWithdrawRow, CallsOK, Noting
  <2>3. [call[c] EXCEPT !.op = "withdrawRow"] = k /\ k \in CallType
    BY <2>1 DEF CallType, Operations
  <2>4. call' = [call EXCEPT ![c] = k]
    BY <1>3, <2>1, <2>3 DEF ReadWithdrawRow, CallsOK
  <2>5. k.op = "withdrawRow" /\ ~k.noted
    BY <2>2
  <2> HIDE DEF k
  <2> QED
    BY <2>1, <2>3, <2>4, <2>5 DEF CallsOK, Begun, VoucherOps
<1>4. ASSUME NEW v \in Vouchers, ReadDecision(c, v)
      PROVE  CallsOK' /\ Begun(VoucherOps)
  <2> DEFINE goLive == merchant.status = "ACTIVE" /\ FlagshipLive
  <2>1. goLive \in BOOLEAN
    OBVIOUS
  <2> HIDE DEF goLive
  <2>2. BeginNoting(c, "approve", v, goLive) \/ Begin(c, "reject", v) \/ Begin(c, "requestChanges", v)
    BY <1>4 DEF ReadDecision, goLive
  <2> QED
    BY <1>1, <2>1, <2>2 DEF Begin, VoucherOps
<1>5. ASSUME NEW r \in Rmvs, ReadCreateFlagship(c, r) \/ ReadSubmitRmv(c, r)
      PROVE  CallsOK' /\ Begun(VoucherOps)
  BY <1>1, <1>5 DEF ReadCreateFlagship, ReadSubmitRmv, Begin, VoucherOps
<1>6. CASE ReadCategoryChange(c)
  BY <1>1, <1>6 DEF ReadCategoryChange, Begin, VoucherOps
<1> QED
  BY <1>2, <1>3, <1>4, <1>5, <1>6 DEF VoucherReads

\* A step of the voucher lane moves one voucher and its row at most, and what it tells
\* of the two is one story.
LEMMA VoucherEffect ==
  ASSUME TypeOK, VoucherNext
  PROVE  /\ CallsOK' /\ Begun(VoucherOps) /\ rmv' \in [Rmvs -> Statuses]
         /\ \/ UNCHANGED <<voucher, row>>
            \/ \E v \in Vouchers : Created(v) \/ Deleted(v) \/ Told(v)
<1>0. CallsOK /\ VoucherTypeOK
  BY TypeParts
<1>1. ASSUME NEW v \in Vouchers, CreateVoucher(v)
      PROVE  Created(v) /\ UNCHANGED <<rmv, call>>
  BY <1>1 DEF CreateVoucher, Created
<1>2. ASSUME NEW c \in Calls, NEW v \in Vouchers,
             \/ SubmitVoucher(c, v) \/ DeleteVoucher(c, v) \/ WithdrawVoucherSubmission(c, v)
             \/ ApproveVoucher(c, v) \/ RejectVoucher(c, v) \/ RequestVoucherChanges(c, v)
      PROVE  (Deleted(v) \/ Told(v)) /\ UNCHANGED rmv /\ call' = [call EXCEPT ![c] = Idle]
  <2>1. CASE SubmitVoucher(c, v)
    <3>1. Story("PENDING_APPROVAL", "PENDING", "PENDING")
      BY DEF Story
    <3> QED
      BY <2>1, <3>1 DEF SubmitVoucher, Commit, Told, Statuses, Approvals
  <2>2. CASE DeleteVoucher(c, v)
    BY <2>2, VoucherFields DEF DeleteVoucher, Commit, Deleted
  <2>3. CASE WithdrawVoucherSubmission(c, v)
    <3>1. Story("DRAFT", voucher[v].approval, "WITHDRAWN")
      BY DEF Story
    <3> QED
      BY <2>3, <3>1, VoucherFields DEF WithdrawVoucherSubmission, Commit, Told, Statuses
  <2>4. CASE ApproveVoucher(c, v)
    <3> DEFINE s == IF call[c].noted THEN "ACTIVE" ELSE voucher[v].status
    <3>1. s \in Statuses \ {"none"}
      BY <2>4, VoucherFields DEF ApproveVoucher, Exists, Statuses
    <3> HIDE DEF s
    <3>2. Story(s, "APPROVED", "APPROVED")
      BY DEF Story
    <3> QED
      BY <2>4, <3>1, <3>2 DEF ApproveVoucher, Commit, Told, Approvals, s
  <2>5. CASE RejectVoucher(c, v)
    <3>1. Story("INACTIVE", "REJECTED", "REJECTED")
      BY DEF Story
    <3> QED
      BY <2>5, <3>1 DEF RejectVoucher, Commit, Told, Statuses, Approvals
  <2>6. CASE RequestVoucherChanges(c, v)
    <3>1. Story("DRAFT", "CHANGES_REQUESTED", "CHANGES_REQUESTED")
      BY DEF Story
    <3> QED
      BY <2>6, <3>1 DEF RequestVoucherChanges, Commit, Told, Statuses, Approvals
  <2> QED
    BY <1>2, <2>1, <2>2, <2>3, <2>4, <2>5, <2>6
<1>3. ASSUME NEW c \in Calls, NEW r \in Rmvs,
             CreateFlagshipRmvVoucher(c, r) \/ SubmitRmvVoucher(c, r)
      PROVE  /\ rmv' \in [Rmvs -> Statuses] /\ UNCHANGED <<voucher, row>>
             /\ call' = [call EXCEPT ![c] = Idle]
  BY <1>0, <1>3 DEF CreateFlagshipRmvVoucher, SubmitRmvVoucher, Commit, VoucherTypeOK, Statuses
<1>4. ASSUME NEW c \in Calls, HandleCategoryChange(c)
      PROVE  /\ rmv' \in [Rmvs -> Statuses] /\ UNCHANGED <<voucher, row>>
             /\ call' = [call EXCEPT ![c] = Idle]
  BY <1>0, <1>4 DEF HandleCategoryChange, Commit, VoucherTypeOK, Statuses
<1>5. UNCHANGED call => CallsOK' /\ Begun(VoucherOps)
  BY <1>0 DEF CallsOK, Begun
<1>6. UNCHANGED rmv => rmv' \in [Rmvs -> Statuses]
  BY <1>0 DEF VoucherTypeOK
<1> QED
  BY <1>1, <1>2, <1>3, <1>4, <1>5, <1>6, CommitCall, VoucherReadsBegin
     DEF VoucherNext, VoucherWrites

\* It writes the rows of vouchers only.
LEMMA VoucherFrame ==
  ASSUME TypeOK, VoucherNext
  PROVE  /\ RowsOK' /\ VoucherTypeOK' /\ ClaimsKept
         /\ \A x \in Subjects \ Vouchers : row'[x] = row[x]
<1>0. RowsOK /\ VoucherTypeOK
  BY TypeParts
<1>1. ASSUME UNCHANGED row
      PROVE  RowsOK' /\ ClaimsKept /\ \A x \in Subjects \ Vouchers : row'[x] = row[x]
  BY <1>0, <1>1 DEF RowsOK, ClaimsKept
<1>2. ASSUME NEW v \in Vouchers, NEW s \in Statuses \cup {"deleted"}, NEW a \in Approvals,
             SetVoucher(v, s, a), rmv' \in [Rmvs -> Statuses]
      PROVE  VoucherTypeOK'
  BY <1>0, <1>2 DEF VoucherTypeOK, SetVoucher, Approvals
<1>3. ASSUME NEW v \in Vouchers, Told(v), rmv' \in [Rmvs -> Statuses]
      PROVE  /\ RowsOK' /\ VoucherTypeOK' /\ ClaimsKept
             /\ \A x \in Subjects \ Vouchers : row'[x] = row[x]
  <2>1. PICK s \in Statuses \ {"none"}, a \in Approvals,
             q \in {"PENDING", "WITHDRAWN", "APPROVED", "REJECTED", "CHANGES_REQUESTED"} :
          SetVoucher(v, s, a) /\ SetRow(v, q)
    BY <1>3 DEF Told
  <2>2. v \in Subjects
    BY DEF Subjects
  <2> QED
    BY <1>2, <1>3, <2>1, <2>2, RowSet, RowSetKeepsClaims
<1>4. ASSUME NEW v \in Vouchers, Created(v) \/ Deleted(v), rmv' \in [Rmvs -> Statuses]
      PROVE  VoucherTypeOK' /\ UNCHANGED row
  BY <1>2, <1>4, VoucherFields DEF Created, Deleted, Statuses, Approvals
<1>5. UNCHANGED voucher /\ rmv' \in [Rmvs -> Statuses] => VoucherTypeOK'
  BY <1>0 DEF VoucherTypeOK
<1> QED
  BY <1>1, <1>3, <1>4, <1>5, VoucherEffect

-----------------------------------------------------------------------------
(* Branches.                                                                *)

Life == {"PENDING_CREATE", "LIVE", "PENDING_CLOSE", "CLOSED"} \cup NoRow
BranchType == [life : Life, main : BOOLEAN, active : BOOLEAN, deleted : BOOLEAN]

\* The step leaves the other branches' lifecycleStatus alone.
Lives(b, life) ==
  /\ branch'[b].life = life
  /\ \A k \in Branches : k # b => branch'[k].life = branch[k].life

SameLives == \A k \in Branches : branch'[k].life = branch[k].life

\* What a step of the branch lane does to a branch and its rows.
Added(b) == branch[b].life = "none" /\ Lives(b, "LIVE") /\ UNCHANGED row
Staged(b) == branch[b].life = "none" /\ Lives(b, "PENDING_CREATE") /\ SetRow(b, "PENDING")
Cancelled(b) ==
  Lives(b, "gone") /\ IF row[b].status = "PENDING" THEN SetRow(b, "deleted") ELSE UNCHANGED row
Approved(b) ==
  branch[b].life = "PENDING_CREATE" /\ Lives(b, "LIVE") /\ SetRow(b, "APPROVED")
SentBack(b) == SameLives /\ SetRow(b, "CHANGES_REQUESTED")
Closing(c, b) ==
  /\ call[c].op = "close" /\ call[c].on = b /\ Lives(b, "PENDING_CLOSE")
  /\ \E n \in Requests : SetRow(<<b, n>>, "PENDING")
KeptOpen(c, b) ==
  /\ call[c].op = "withdrawClose" /\ call[c].on = b /\ Lives(b, "LIVE")
  /\ row' = [x \in Subjects |->
       IF x \in {b} \X Requests /\ row[x].status = "PENDING"
       THEN [status |-> "deleted", claimed |-> FALSE] ELSE row[x]]
Closed(c, x) ==
  /\ call[c].op \in {"approveClose", "rejectClose"} /\ call[c].on = x
  /\ \E s \in {"CLOSED", "LIVE"}, q \in {"APPROVED", "REJECTED"} :
       Lives(x[1], s) /\ SetRow(x, q)

\* A branch with one, two or three of its columns written: records, column by column.
LEMMA BranchSetOne ==
  ASSUME NEW k \in BranchType, NEW s, NEW a
  PROVE  /\ [k EXCEPT !.life = s] =
              [life |-> s, main |-> k.main, active |-> k.active, deleted |-> k.deleted]
         /\ [k EXCEPT !.active = a] =
              [life |-> k.life, main |-> k.main, active |-> a, deleted |-> k.deleted]
<1>1. k = [life |-> k.life, main |-> k.main, active |-> k.active, deleted |-> k.deleted]
  BY DEF BranchType
<1> QED
  BY <1>1

\* Approval of a new branch writes two.
LEMMA BranchSetLive ==
  ASSUME NEW k \in BranchType, NEW s, NEW a
  PROVE  [k EXCEPT !.life = s, !.active = a] =
           [life |-> s, main |-> k.main, active |-> a, deleted |-> k.deleted]
<1>1. PICK j : j = [k EXCEPT !.life = s]
  OBVIOUS
<1>2. j = [life |-> s, main |-> k.main, active |-> k.active, deleted |-> k.deleted]
  BY <1>1, BranchSetOne
<1>3. [j EXCEPT !.active = a] =
        [life |-> s, main |-> k.main, active |-> a, deleted |-> k.deleted]
  BY <1>2
<1> QED
  BY <1>1, <1>3

\* So does its deletion.
LEMMA BranchSetDeleted ==
  ASSUME NEW k \in BranchType, NEW a, NEW d
  PROVE  [k EXCEPT !.deleted = d, !.active = a] =
           [life |-> k.life, main |-> k.main, active |-> a, deleted |-> d]
<1>1. k = [life |-> k.life, main |-> k.main, active |-> k.active, deleted |-> k.deleted]
  BY DEF BranchType
<1>2. PICK j : j = [k EXCEPT !.deleted = d]
  OBVIOUS
<1>3. j = [life |-> k.life, main |-> k.main, active |-> k.active, deleted |-> d]
  BY <1>1, <1>2
<1>4. [j EXCEPT !.active = a] =
        [life |-> k.life, main |-> k.main, active |-> a, deleted |-> d]
  BY <1>3
<1> QED
  BY <1>2, <1>4

\* Approval of its closure writes three.
LEMMA BranchSetClosed ==
  ASSUME NEW k \in BranchType, NEW s, NEW a, NEW d
  PROVE  [k EXCEPT !.life = s, !.deleted = d, !.active = a] =
           [life |-> s, main |-> k.main, active |-> a, deleted |-> d]
<1>1. PICK i : i = [k EXCEPT !.life = s]
  OBVIOUS
<1>2. i = [life |-> s, main |-> k.main, active |-> k.active, deleted |-> k.deleted]
  BY <1>1, BranchSetOne
<1>3. PICK j : j = [i EXCEPT !.deleted = d]
  OBVIOUS
<1>4. j = [life |-> s, main |-> k.main, active |-> k.active, deleted |-> d]
  BY <1>2, <1>3
<1>5. [j EXCEPT !.active = a] =
        [life |-> s, main |-> k.main, active |-> a, deleted |-> d]
  BY <1>4
<1> QED
  BY <1>1, <1>3, <1>5

\* A branch is its four columns.
LEMMA BranchFields ==
  ASSUME TypeOK, NEW b \in Branches
  PROVE  /\ branch \in [Branches -> BranchType] /\ branch[b] \in BranchType
         /\ branch[b] = [life |-> branch[b].life, main |-> branch[b].main,
                         active |-> branch[b].active, deleted |-> branch[b].deleted]
<1>1. branch \in [Branches -> BranchType] /\ branch[b] \in BranchType
  BY TypeParts DEF BranchTypeOK, BranchType, Life
<1> QED
  BY <1>1 DEF BranchType

\* A write of one branch leaves the others' lifecycleStatus alone.
LEMMA BranchWrite ==
  ASSUME TypeOK, NEW b \in Branches, NEW k \in BranchType, branch' = [branch EXCEPT ![b] = k]
  PROVE  BranchTypeOK' /\ Lives(b, k.life)
<1>1. branch \in [Branches -> BranchType]
  BY BranchFields
<1> QED
  BY <1>1 DEF BranchTypeOK, BranchType, Life, Lives

\* A read of the branch lane asks for, or decides, the closure of a branch only if it is
\* through its review.
LEMMA BranchReadsBegin ==
  ASSUME TypeOK, NEW c \in Calls, BranchReads(c)
  PROVE  CallsOK' /\ Begun(BranchOps) /\ (BranchInv => \A d \in Calls : CloseCall(call'[d]))
<1> DEFINE Good == CallsOK' /\ Begun(BranchOps)
                     /\ (BranchInv => \A d \in Calls : CloseCall(call'[d]))
<1>1. ASSUME NEW op \in BranchOps, NEW x \in Branches \cup Closes, NEW noted \in BOOLEAN,
             noted => op = "instant", BeginNoting(c, op, x, noted),
             BranchInv => CloseCall([op |-> op, on |-> x, noted |-> noted])
      PROVE  Good
  <2>1. op \in Operations /\ x \in Subjects \cup Rmvs /\ (noted => op \in Noting)
    BY <1>1 DEF BranchOps, CloseOps, Operations, Subjects, Noting
  <2>2. CallsOK' /\ Begun(BranchOps) /\ Moves1(c, [op |-> op, on |-> x, noted |-> noted])
    BY <1>1, <2>1, BeginCall
  <2> QED
    BY <1>1, <2>2 DEF Moves1, BranchInv
<1>2. ASSUME NEW op \in BranchOps \ CloseOps, NEW x, NEW noted
      PROVE  CloseCall([op |-> op, on |-> x, noted |-> noted])
  BY <1>2 DEF CloseCall, CloseOps
<1>3. ASSUME NEW b \in Branches,
             \/ ReadCreateBranch(c, b) \/ ReadCancel(c, b) \/ ReadUpdate(c, b)
             \/ ReadDeleteBranch(c, b)
      PROVE  Good
  <2> DEFINE first == Reviewed = {}
  <2>1. first \in BOOLEAN
    OBVIOUS
  <2> HIDE DEF first
  <2>2. \/ BeginNoting(c, "instant", b, first)
        \/ \E op \in BranchOps \ CloseOps : BeginNoting(c, op, b, FALSE)
    BY <1>3 DEF ReadCreateBranch, ReadCancel, ReadUpdate, ReadDeleteBranch, Begin, first,
       BranchOps, CloseOps
  <2>3. "instant" \in BranchOps \ CloseOps
    BY DEF BranchOps, CloseOps
  <2> HIDE DEF Good
  <2> QED
    BY <1>1, <1>2, <2>1, <2>2, <2>3
<1>4. ASSUME NEW b \in Branches, ReadRequestClose(c, b) \/ ReadWithdrawClose(c, b)
      PROVE  Good
  <2>1. Placed(b)
    BY <1>4 DEF ReadRequestClose, ReadWithdrawClose, Kept, Rows, NoRow, Placed
  <2>2. PICK op \in {"close", "withdrawClose"} : BeginNoting(c, op, b, FALSE)
    BY <1>4 DEF ReadRequestClose, ReadWithdrawClose, Begin
  <2>3. op \in BranchOps /\ CloseCall([op |-> op, on |-> b, noted |-> FALSE])
    BY <2>1 DEF BranchOps, CloseOps, CloseCall
  <2> HIDE DEF Good
  <2> QED
    BY <1>1, <2>2, <2>3
<1>5. CASE ReadBranchDecision(c)
  <2>1. ASSUME NEW b \in Branches, Begin(c, "approveCreate", b) \/ Begin(c, "rejectCreate", b)
        PROVE  Good
    <3>1. PICK op \in {"approveCreate", "rejectCreate"} : BeginNoting(c, op, b, FALSE)
      BY <2>1 DEF Begin
    <3>2. op \in BranchOps \ CloseOps
      BY DEF BranchOps, CloseOps
    <3>3. CloseCall([op |-> op, on |-> b, noted |-> FALSE])
      BY <1>2, <3>2
    <3> HIDE DEF Good
    <3> QED
      BY <1>1, <3>1, <3>2, <3>3
  <2>2. ASSUME NEW x \in Closes, row[x].status = "PENDING",
               Begin(c, "approveClose", x) \/ Begin(c, "rejectClose", x)
        PROVE  Good
    <3>1. PICK op \in {"approveClose", "rejectClose"} : BeginNoting(c, op, x, FALSE)
      BY <2>2 DEF Begin
    <3>2. BranchInv => Placed(x[1])
      BY <2>2 DEF BranchInv, Closes
    <3>3. op \in BranchOps /\ (BranchInv => CloseCall([op |-> op, on |-> x, noted |-> FALSE]))
      BY <3>2 DEF BranchOps, CloseOps, CloseCall
    <3> HIDE DEF Good
    <3> QED
      BY <1>1, <3>1, <3>3
  <2> QED
    BY <1>5, <2>1, <2>2 DEF ReadBranchDecision, Rows
<1> QED
  BY <1>3, <1>4, <1>5 DEF BranchReads

\* A step of the branch lane begins a request, or ends one and moves one branch and its rows.
LEMMA BranchEffect ==
  ASSUME TypeOK, BranchNext
  PROVE  /\ CallsOK' /\ Begun(BranchOps) /\ BranchTypeOK'
         /\ \/ SameLives /\ UNCHANGED row /\ (BranchInv => \A d \in Calls : CloseCall(call'[d]))
            \/ /\ \A d \in Calls : call'[d] = call[d] \/ call'[d] = Idle
               /\ \/ SameLives /\ UNCHANGED row
                  \/ \E b \in Branches :
                       Added(b) \/ Staged(b) \/ Cancelled(b) \/ Approved(b) \/ SentBack(b)
                  \/ \E c \in Calls, b \in Branches : Closing(c, b) \/ KeptOpen(c, b)
                  \/ \E c \in Calls, x \in Closes : Closed(c, x)
<1>0. \A b \in Branches : branch[b] \in BranchType
  BY BranchFields
<1>1. ASSUME NEW c \in Calls, BranchReads(c), UNCHANGED <<branch, row>>
      PROVE  /\ CallsOK' /\ Begun(BranchOps) /\ BranchTypeOK'
             /\ SameLives /\ UNCHANGED row /\ (BranchInv => \A d \in Calls : CloseCall(call'[d]))
  BY <1>1, BranchReadsBegin, TypeParts DEF BranchTypeOK, SameLives
<1>2. ASSUME NEW c \in Calls, call' = [call EXCEPT ![c] = Idle]
      PROVE  CallsOK' /\ Begun(BranchOps) /\ \A d \in Calls : call'[d] = call[d] \/ call'[d] = Idle
  BY <1>2, CommitCall DEF Moves1
<1>3. ASSUME NEW b \in Branches, NEW life \in Life, NEW main \in BOOLEAN,
             NEW active \in BOOLEAN, NEW deleted \in BOOLEAN,
             branch' = [branch EXCEPT ![b] = [life |-> life, main |-> main,
                                              active |-> active, deleted |-> deleted]]
      PROVE  BranchTypeOK' /\ Lives(b, life)
  <2> DEFINE k == [life |-> life, main |-> main, active |-> active, deleted |-> deleted]
  <2>1. k \in BranchType /\ k.life = life
    BY DEF BranchType
  <2> HIDE DEF k
  <2>2. branch' = [branch EXCEPT ![b] = k]
    BY <1>3 DEF k
  <2> QED
    BY <2>1, <2>2, BranchWrite
<1>4. UNCHANGED branch => BranchTypeOK' /\ SameLives
  BY TypeParts DEF BranchTypeOK, SameLives
<1>5. ASSUME NEW b \in Branches
      PROVE  /\ branch[b].life \in Life /\ branch[b].main \in BOOLEAN
             /\ branch[b].active \in BOOLEAN /\ branch[b].deleted \in BOOLEAN
  BY BranchFields DEF BranchType
<1>6. ASSUME NEW b \in Branches, Lives(b, branch[b].life) PROVE SameLives
  BY <1>6 DEF Lives, SameLives
<1>7. ASSUME NEW c \in Calls, NEW b \in Branches, CreateInstant(c, b)
      PROVE  BranchTypeOK' /\ Added(b)
  <2>1. call[c].noted \in BOOLEAN
    BY TypeParts DEF CallsOK, CallType
  <2> QED
    BY <1>3, <1>7, <2>1 DEF CreateInstant, Added, Life
<1>8. ASSUME NEW c \in Calls, NEW b \in Branches, CreateStaged(c, b)
      PROVE  BranchTypeOK' /\ Staged(b)
  BY <1>3, <1>8 DEF CreateStaged, Staged, Life
<1>9. ASSUME NEW c \in Calls, NEW b \in Branches, CancelPendingCreate(c, b)
      PROVE  BranchTypeOK' /\ Cancelled(b)
  BY <1>3, <1>9 DEF CancelPendingCreate, Cancelled, Life, NoRow
<1>10. ASSUME NEW c \in Calls, NEW b \in Branches, SetMain(c, b)
       PROVE  BranchTypeOK' /\ SameLives /\ UNCHANGED row
  <2>1. \A k \in Branches :
          /\ branch'[k] = [life |-> branch[k].life, main |-> (k = b),
                           active |-> branch[k].active, deleted |-> branch[k].deleted]
          /\ branch'[k] \in BranchType
    <3> TAKE k \in Branches
    <3>1. branch'[k] = [branch[k] EXCEPT !.main = (k = b)]
      BY <1>10 DEF SetMain
    <3>2. branch'[k] = [life |-> branch[k].life, main |-> (k = b),
                        active |-> branch[k].active, deleted |-> branch[k].deleted]
      BY <3>1, BranchFields
    <3> QED
      BY <1>5, <3>2 DEF BranchType
  <2>2. DOMAIN branch' = Branches /\ branch' = [k \in Branches |-> branch'[k]]
    BY <1>10 DEF SetMain
  <2> QED
    BY <1>10, <2>1, <2>2, ZenonT(40) DEF SetMain, SameLives, BranchTypeOK, BranchType, Life
<1>11. ASSUME NEW c \in Calls, NEW b \in Branches, UpdateActive(c, b)
       PROVE  BranchTypeOK' /\ SameLives /\ UNCHANGED row
  <2>1. PICK a \in BOOLEAN : branch' = [branch EXCEPT ![b].active = a]
    BY <1>11 DEF UpdateActive
  <2>2. [branch[b] EXCEPT !.active = a] =
          [life |-> branch[b].life, main |-> branch[b].main,
           active |-> a, deleted |-> branch[b].deleted]
    BY <1>0, BranchSetOne, Zenon
  <2>3. branch' = [branch EXCEPT ![b] = [life |-> branch[b].life, main |-> branch[b].main,
                                         active |-> a, deleted |-> branch[b].deleted]]
    BY <2>1, <2>2
  <2> QED
    BY <1>3, <1>5, <1>6, <1>11, <2>3 DEF UpdateActive
<1>12. ASSUME NEW c \in Calls, NEW b \in Branches, SoftDeleteBranch(c, b)
       PROVE  BranchTypeOK' /\ SameLives /\ UNCHANGED row
  <2>1. [branch[b] EXCEPT !.deleted = TRUE, !.active = FALSE] =
          [life |-> branch[b].life, main |-> branch[b].main, active |-> FALSE, deleted |-> TRUE]
    BY <1>0, BranchSetDeleted, Zenon
  <2>2. branch' = [branch EXCEPT ![b] = [branch[b] EXCEPT !.deleted = TRUE, !.active = FALSE]]
    BY <1>12, BranchFields DEF SoftDeleteBranch
  <2>3. branch' = [branch EXCEPT ![b] = [life |-> branch[b].life, main |-> branch[b].main,
                                         active |-> FALSE, deleted |-> TRUE]]
    BY <2>1, <2>2
  <2> QED
    <3>1. BranchTypeOK' /\ Lives(b, branch[b].life)
      BY <1>3, <1>5, <2>3
    <3> QED
      BY <1>6, <1>12, <3>1 DEF SoftDeleteBranch
<1>13. ASSUME NEW b \in Branches, NEW s \in Life, branch' = [branch EXCEPT ![b].life = s]
       PROVE  BranchTypeOK' /\ Lives(b, s)
  <2>1. [branch[b] EXCEPT !.life = s] =
          [life |-> s, main |-> branch[b].main,
           active |-> branch[b].active, deleted |-> branch[b].deleted]
    BY <1>0, BranchSetOne, Zenon
  <2>2. branch' = [branch EXCEPT ![b] = [life |-> s, main |-> branch[b].main,
                                 active |-> branch[b].active, deleted |-> branch[b].deleted]]
    BY <1>13, <2>1
  <2> QED
    BY <1>3, <1>5, <2>2
<1>14. ASSUME NEW c \in Calls, NEW b \in Branches, RequestBranchClose(c, b)
       PROVE  BranchTypeOK' /\ Closing(c, b)
  BY <1>13, <1>14 DEF RequestBranchClose, Commit, Closing, Life
<1>15. ASSUME NEW c \in Calls, NEW b \in Branches, WithdrawBranchClose(c, b)
       PROVE  BranchTypeOK' /\ KeptOpen(c, b)
  BY <1>13, <1>15 DEF WithdrawBranchClose, Commit, KeptOpen, Life
<1>16. ASSUME NEW c \in Calls, NEW b \in Branches, ApproveBranchCreate(c, b)
       PROVE  BranchTypeOK' /\ (Approved(b) \/ (SameLives /\ UNCHANGED row))
  <2>1. CASE branch[b].life = "PENDING_CREATE"
    <3>1. [branch[b] EXCEPT !.life = "LIVE", !.active = TRUE] =
            [life |-> "LIVE", main |-> branch[b].main,
             active |-> TRUE, deleted |-> branch[b].deleted]
      BY <1>0, BranchSetLive, Zenon
    <3>2. branch' = [branch EXCEPT ![b] = [branch[b] EXCEPT !.life = "LIVE", !.active = TRUE]]
      BY <1>16, <2>1, BranchFields DEF ApproveBranchCreate
    <3>3. branch' = [branch EXCEPT ![b] = [life |-> "LIVE", main |-> branch[b].main,
                                         active |-> TRUE, deleted |-> branch[b].deleted]]
      BY <3>1, <3>2
    <3> QED
      BY <1>3, <1>5, <1>16, <2>1, <3>3 DEF ApproveBranchCreate, Approved, Life
  <2>2. CASE branch[b].life # "PENDING_CREATE"
    BY <1>4, <1>16, <2>2 DEF ApproveBranchCreate
  <2> QED
    BY <2>1, <2>2
<1>17. ASSUME NEW c \in Calls, NEW b \in Branches, RejectBranchCreate(c, b)
       PROVE  BranchTypeOK' /\ SentBack(b)
  BY <1>4, <1>17 DEF RejectBranchCreate, SentBack
<1>18. ASSUME NEW c \in Calls, NEW x \in Closes, ApproveBranchClose(c, x)
       PROVE  BranchTypeOK' /\ Closed(c, x)
  <2>1. PICK b \in Branches : b = x[1]
    BY DEF Closes
  <2>2. [branch[b] EXCEPT !.life = "CLOSED", !.deleted = TRUE, !.active = FALSE] =
          [life |-> "CLOSED", main |-> branch[b].main, active |-> FALSE, deleted |-> TRUE]
    BY <1>0, BranchSetClosed, Zenon
  <2>3. branch' = [branch EXCEPT ![b] =
          [branch[b] EXCEPT !.life = "CLOSED", !.deleted = TRUE, !.active = FALSE]]
    BY <1>18, <2>1, BranchFields DEF ApproveBranchClose
  <2>4. branch' = [branch EXCEPT ![b] = [life |-> "CLOSED", main |-> branch[b].main,
                                         active |-> FALSE, deleted |-> TRUE]]
    BY <2>2, <2>3
  <2>5. BranchTypeOK' /\ Lives(b, "CLOSED")
    BY <1>3, <1>5, <2>4 DEF Life
  <2> QED
    BY <1>18, <2>1, <2>5 DEF ApproveBranchClose, Commit, Closed
<1>19. ASSUME NEW c \in Calls, NEW x \in Closes, RejectBranchClose(c, x)
       PROVE  BranchTypeOK' /\ Closed(c, x)
  <2>1. x[1] \in Branches
    BY DEF Closes
  <2>2. BranchTypeOK' /\ Lives(x[1], "LIVE")
    BY <1>13, <1>19, <2>1 DEF RejectBranchClose, Life
  <2> QED
    BY <1>19, <2>2, ZenonT(40) DEF RejectBranchClose, Commit, Closed
<1>20. ASSUME NEW c \in Calls, BranchWrites(c) PROVE call' = [call EXCEPT ![c] = Idle]
  BY <1>20, ZenonT(40) DEF BranchWrites, CreateInstant, CreateStaged, CancelPendingCreate, SetMain,
     UpdateActive, SoftDeleteBranch, RequestBranchClose, WithdrawBranchClose,
     ApproveBranchCreate, RejectBranchCreate, ApproveBranchClose, RejectBranchClose, Commit
<1>21. ASSUME NEW c \in Calls, BranchWrites(c)
       PROVE  /\ BranchTypeOK'
              /\ \/ SameLives /\ UNCHANGED row
                 \/ \E b \in Branches :
                      Added(b) \/ Staged(b) \/ Cancelled(b) \/ Approved(b) \/ SentBack(b)
                 \/ \E b \in Branches : Closing(c, b) \/ KeptOpen(c, b)
                 \/ \E x \in Closes : Closed(c, x)
  BY <1>7, <1>8, <1>9, <1>10, <1>11, <1>12, <1>14, <1>15, <1>16, <1>17, <1>18, <1>19, <1>21
     DEF BranchWrites
<1> QED
  BY <1>1, <1>2, <1>20, <1>21 DEF BranchNext

\* It writes the rows of branches and of their closures only.
LEMMA BranchFrame ==
  ASSUME TypeOK, BranchNext
  PROVE  /\ RowsOK' /\ ClaimsKept
         /\ \A x \in Subjects \ (Branches \cup Closes) : row'[x] = row[x]
<1> DEFINE Kept1 == /\ RowsOK' /\ ClaimsKept
                    /\ \A x \in Subjects \ (Branches \cup Closes) : row'[x] = row[x]
<1>0. RowsOK /\ Branches \subseteq Subjects /\ Closes \subseteq Subjects
  BY TypeParts DEF Subjects
<1>1. UNCHANGED row => Kept1
  BY <1>0 DEF RowsOK, ClaimsKept
<1>2. ASSUME NEW x \in Branches \cup Closes,
             NEW s \in {"PENDING", "CHANGES_REQUESTED", "APPROVED", "REJECTED", "deleted"},
             SetRow(x, s)
      PROVE  Kept1
  BY <1>0, <1>2, RowSet, RowSetKeepsClaims
<1>3. ASSUME NEW b \in Branches, Added(b) \/ Staged(b) \/ Cancelled(b) \/ Approved(b) \/ SentBack(b)
      PROVE  Kept1
  <2> HIDE DEF Kept1
  <2> QED
    BY <1>1, <1>2, <1>3 DEF Added, Staged, Cancelled, Approved, SentBack
<1>4. ASSUME NEW c \in Calls, NEW b \in Branches, Closing(c, b) PROVE Kept1
  <2>1. PICK n \in Requests : SetRow(<<b, n>>, "PENDING")
    BY <1>4 DEF Closing
  <2>2. <<b, n>> \in Closes
    BY DEF Closes
  <2> HIDE DEF Kept1
  <2> QED
    BY <1>2, <2>1, <2>2
<1>5. ASSUME NEW c \in Calls, NEW b \in Branches, KeptOpen(c, b) PROVE Kept1
  <2>1. {b} \X Requests \subseteq Closes
    BY DEF Closes
  <2>2. row' = [x \in Subjects |->
           IF x \in {b} \X Requests /\ row[x].status = "PENDING"
           THEN [status |-> "deleted", claimed |-> FALSE] ELSE row[x]]
    BY <1>5 DEF KeptOpen
  <2>3. [status |-> "deleted", claimed |-> FALSE] \in RowType
    BY DEF RowType
  <2>4. RowsOK'
    BY <1>0, <2>2, <2>3 DEF RowsOK
  <2>5. \A x \in Subjects :
          row'[x] = row[x] \/ (x \in Closes /\ row'[x] = [status |-> "deleted", claimed |-> FALSE])
    BY <2>1, <2>2
  <2> QED
    BY <2>4, <2>5 DEF ClaimsKept
<1>6. ASSUME NEW c \in Calls, NEW x \in Closes, Closed(c, x) PROVE Kept1
  <2> HIDE DEF Kept1
  <2> QED
    BY <1>2, <1>6 DEF Closed
<1> HIDE DEF Kept1
<1>7. Kept1
  BY <1>1, <1>3, <1>4, <1>5, <1>6, BranchEffect
<1> QED
  BY <1>7 DEF Kept1

-----------------------------------------------------------------------------
(* Edits.                                                                   *)

EditStatuses == {"none", "PENDING", "WITHDRAWN", "APPROVED", "REJECTED"}
EditType == [on : Targets, status : EditStatuses]

\* What a step of the edit lane does to an edit and its row.
Asked(t, e) ==
  /\ t \notin Branches /\ (t \in Vouchers => Exists(t))
  /\ edit[e].status = "none" /\ edit' = [edit EXCEPT ![e] = [on |-> t, status |-> "PENDING"]]
  /\ SetRow(e, "PENDING") /\ UNCHANGED voucher
Queued(c, e) ==
  /\ call[c].op = "queueEdit" /\ call[c].on = e /\ call'[c] = Idle
  /\ SetRow(e, "PENDING") /\ UNCHANGED <<edit, voucher>>
Withdrawn(c, e) ==
  /\ call[c].op = "withdrawEdit" /\ call[c].on = e
  /\ SetEdit(e, "WITHDRAWN") /\ UNCHANGED voucher
  /\ IF row[e].status = "PENDING" THEN SetRow(e, "WITHDRAWN") ELSE UNCHANGED row
Decided(c, e, s) ==
  /\ call[c].op \in {"approveEdit", "rejectEdit"} /\ call[c].on = e
  /\ SetEdit(e, s) /\ SetRow(e, s)
  /\ \/ UNCHANGED voucher
     \/ voucher' = [v \in Vouchers |->
          IF v = edit[e].on THEN [voucher[v] EXCEPT !.status = "INACTIVE"] ELSE voucher[v]]

\* An edit is what it changes and its status.
LEMMA EditFields ==
  ASSUME TypeOK, NEW e \in Edits
  PROVE  /\ edit \in [Edits -> EditType]
         /\ edit[e].on \in Targets /\ edit[e].status \in EditStatuses
<1>1. edit \in [Edits -> EditType]
  BY TypeParts DEF EditTypeOK, EditType, EditStatuses
<1> QED
  BY <1>1 DEF EditType

\* A change of status leaves its subject, and every other edit.
LEMMA EditSet ==
  ASSUME TypeOK, NEW e \in Edits, NEW s \in EditStatuses, SetEdit(e, s)
  PROVE  /\ EditTypeOK'
         /\ edit'[e] = [on |-> edit[e].on, status |-> s]
         /\ \A d \in Edits : d # e => edit'[d] = edit[d]
<1>1. edit \in [Edits -> EditType] /\ edit[e] \in EditType
  BY EditFields DEF EditType
<1>2. [edit[e] EXCEPT !.status = s] = [on |-> edit[e].on, status |-> s]
  BY <1>1 DEF EditType
<1>3. edit' = [edit EXCEPT ![e] = [on |-> edit[e].on, status |-> s]]
  BY <1>1, <1>2 DEF SetEdit
<1>4. [on |-> edit[e].on, status |-> s] \in EditType
  BY <1>1 DEF EditType
<1>5. edit' \in [Edits -> EditType]
  BY <1>1, <1>3, <1>4
<1> QED
  BY <1>1, <1>3, <1>5 DEF EditTypeOK, EditType, EditStatuses

\* So does a new edit.
LEMMA EditNew ==
  ASSUME TypeOK, NEW e \in Edits, NEW t \in Targets,
         edit' = [edit EXCEPT ![e] = [on |-> t, status |-> "PENDING"]]
  PROVE  /\ EditTypeOK'
         /\ edit'[e] = [on |-> t, status |-> "PENDING"]
         /\ \A d \in Edits : d # e => edit'[d] = edit[d]
<1>1. edit \in [Edits -> EditType] /\ [on |-> t, status |-> "PENDING"] \in EditType
  BY EditFields DEF EditType, EditStatuses
<1>2. edit' \in [Edits -> EditType]
  BY <1>1
<1> QED
  BY <1>1, <1>2 DEF EditTypeOK, EditType, EditStatuses

\* Of what is read for an edit, the request that takes it keeps what it relies on.
LEMMA EditReadsBegin ==
  ASSUME TypeOK, NEW c \in Calls, EditReads(c)
  PROVE  /\ CallsOK' /\ Begun(EditOps)
         /\ \E k : Moves1(c, k) /\ k.op # "queueEdit" /\ (EditInv => EditCall(k))
<1> DEFINE Good == /\ CallsOK' /\ Begun(EditOps)
                   /\ \E k : Moves1(c, k) /\ k.op # "queueEdit" /\ (EditInv => EditCall(k))
<1>1. ASSUME NEW op \in EditOps \ {"queueEdit"}, NEW x \in Subjects \cup Rmvs, Begin(c, op, x),
             EditInv => EditCall([op |-> op, on |-> x, noted |-> FALSE])
      PROVE  Good
  <2>1. op \in Operations /\ op \in EditOps /\ BeginNoting(c, op, x, FALSE)
    BY <1>1 DEF EditOps, Operations, Begin
  <2>2. /\ CallsOK' /\ Begun(EditOps)
        /\ Moves1(c, [op |-> op, on |-> x, noted |-> FALSE])
    BY <2>1, BeginCall
  <2> QED
    BY <1>1, <2>2
<1>2. ASSUME NEW t \in Targets, ReadEditRequest(c, t) PROVE Good
  <2>1. EditCall([op |-> "requestEdit", on |-> t, noted |-> FALSE])
    BY DEF EditCall
  <2>2. Begin(c, "requestEdit", t) /\ t \in Subjects \cup Rmvs
        /\ "requestEdit" \in EditOps \ {"queueEdit"}
    BY <1>2 DEF ReadEditRequest, Targets, Subjects, EditOps
  <2> HIDE DEF Good
  <2> QED
    BY <1>1, <2>1, <2>2
<1>3. ASSUME NEW e \in Edits, ReadWithdrawEdit(c, e) PROVE Good
  <2>1. EditCall([op |-> "withdrawEdit", on |-> e, noted |-> FALSE])
    BY <1>3 DEF EditCall, ReadWithdrawEdit
  <2>2. Begin(c, "withdrawEdit", e) /\ e \in Subjects \cup Rmvs
        /\ "withdrawEdit" \in EditOps \ {"queueEdit"}
    BY <1>3 DEF ReadWithdrawEdit, Subjects, EditOps
  <2> HIDE DEF Good
  <2> QED
    BY <1>1, <2>1, <2>2
<1>4. ASSUME NEW e \in Edits, ReadEditDecision(c, e) PROVE Good
  <2>1. PICK op \in {"approveEdit", "rejectEdit"} : Begin(c, op, e)
    BY <1>4 DEF ReadEditDecision
  <2>2. EditCall([op |-> op, on |-> e, noted |-> FALSE])
    BY <1>4 DEF EditCall, ReadEditDecision
  <2>3. e \in Subjects \cup Rmvs /\ op \in EditOps \ {"queueEdit"}
    BY DEF Subjects, EditOps
  <2> HIDE DEF Good
  <2> QED
    BY <1>1, <2>1, <2>2, <2>3
<1> HIDE DEF Good
<1>5. Good
  BY <1>2, <1>3, <1>4 DEF EditReads
<1> QED
  BY <1>5 DEF Good

\* The request to edit a branch becomes the one that puts its edit in the queue.
LEMMA BranchEditCall ==
  ASSUME TypeOK, NEW c \in Calls, NEW e \in Edits,
         call' = [call EXCEPT ![c].op = "queueEdit", ![c].on = e], call[c].op = "requestEdit"
  PROVE  /\ Moves1(c, [op |-> "queueEdit", on |-> e, noted |-> FALSE])
         /\ CallsOK' /\ Begun(EditOps)
<1> DEFINE k == [op |-> "queueEdit", on |-> e, noted |-> FALSE]
<1>1. CallsOK /\ call[c] \in CallType
  BY TypeParts DEF CallsOK
<1>2. ~call[c].noted
  BY <1>1 DEF CallsOK, Noting
<1>3. PICK i : i = [call[c] EXCEPT !.op = "queueEdit"]
  OBVIOUS
<1>4. i = [op |-> "queueEdit", on |-> call[c].on, noted |-> call[c].noted]
  BY <1>1, <1>3 DEF CallType
<1>5. [i EXCEPT !.on = e] = k
  <2>1. [i EXCEPT !.on = e] = [op |-> "queueEdit", on |-> e, noted |-> call[c].noted]
    BY <1>4
  <2>2. call[c].noted = FALSE
    BY <1>1, <1>2 DEF CallType
  <2> QED
    BY <2>1, <2>2
<1>6. call' = [call EXCEPT ![c] = [call[c] EXCEPT !.op = "queueEdit", !.on = e]]
  BY <1>1 DEF CallsOK
<1>7. call' = [call EXCEPT ![c] = k]
  BY <1>3, <1>5, <1>6
<1>8. k \in CallType /\ ~k.noted /\ k.op = "queueEdit"
  BY DEF CallType, Operations, Subjects
<1> HIDE DEF k
<1>9. Moves1(c, k)
  BY <1>1, <1>7 DEF Moves1, CallsOK
<1>10. CallsOK'
  BY <1>1, <1>7, <1>8 DEF CallsOK
<1>11. Begun(EditOps)
  BY <1>8, <1>9 DEF Moves1, Begun, EditOps
<1> QED
  BY <1>9, <1>10, <1>11 DEF k

\* A step of the edit lane begins a request, stores a branch's edit before its row, or ends a
\* request and moves one edit and its row.
LEMMA EditEffect ==
  ASSUME TypeOK, EditNext
  PROVE  /\ CallsOK' /\ Begun(EditOps) /\ EditTypeOK'
         /\ \/ /\ UNCHANGED <<row, edit, voucher>>
               /\ \E c \in Calls : \E k :
                    Moves1(c, k) /\ k.op # "queueEdit" /\ (EditInv => EditCall(k))
            \/ \E c \in Calls, b \in Branches, e \in Edits :
                 /\ UNCHANGED <<row, voucher>> /\ edit[e].status = "none"
                 /\ edit' = [edit EXCEPT ![e] = [on |-> b, status |-> "PENDING"]]
                 /\ Moves1(c, [op |-> "queueEdit", on |-> e, noted |-> FALSE])
            \/ /\ \A d \in Calls : call'[d] = call[d] \/ call'[d] = Idle
               /\ \E c \in Calls, e \in Edits :
                    \/ \E t \in Targets : Asked(t, e)
                    \/ Queued(c, e) \/ Withdrawn(c, e)
                    \/ \E s \in {"APPROVED", "REJECTED"} : Decided(c, e, s)
<1> DEFINE Ended == CallsOK' /\ Begun(EditOps)
                    /\ \A d \in Calls : call'[d] = call[d] \/ call'[d] = Idle
<1>1. ASSUME NEW c \in Calls, call' = [call EXCEPT ![c] = Idle]
      PROVE  Ended /\ call'[c] = Idle
  BY <1>1, CommitCall DEF Moves1
<1>2. UNCHANGED edit => EditTypeOK'
  BY TypeParts DEF EditTypeOK
<1>3. ASSUME NEW e \in Edits, NEW t \in Targets, NewEdit(t, e)
      PROVE  /\ edit[e].status = "none" /\ EditTypeOK'
             /\ edit' = [edit EXCEPT ![e] = [on |-> t, status |-> "PENDING"]]
  BY <1>3, EditNew DEF NewEdit
<1>4. ASSUME NEW c \in Calls, NEW t \in Targets, RequestEdit(c, t), UNCHANGED voucher
      PROVE  Ended /\ EditTypeOK' /\ \E e \in Edits : Asked(t, e)
  <2>1. PICK e \in Edits : NewEdit(t, e) /\ SetRow(e, "PENDING")
    BY <1>4 DEF RequestEdit
  <2>2. Asked(t, e) /\ EditTypeOK'
    BY <1>3, <1>4, <2>1 DEF RequestEdit, Asked
  <2> QED
    BY <1>1, <1>4, <2>2 DEF RequestEdit, Commit
<1>5. ASSUME NEW c \in Calls, NEW b \in Branches, RequestBranchEdit(c, b), UNCHANGED voucher
      PROVE  /\ CallsOK' /\ Begun(EditOps) /\ EditTypeOK'
             /\ \E e \in Edits :
                 /\ UNCHANGED <<row, voucher>> /\ edit[e].status = "none"
                 /\ edit' = [edit EXCEPT ![e] = [on |-> b, status |-> "PENDING"]]
                 /\ Moves1(c, [op |-> "queueEdit", on |-> e, noted |-> FALSE])
  <2>1. PICK e \in Edits :
          NewEdit(b, e) /\ call' = [call EXCEPT ![c].op = "queueEdit", ![c].on = e]
    BY <1>5 DEF RequestBranchEdit
  <2>2. b \in Targets /\ call[c].op = "requestEdit"
    BY <1>5 DEF RequestBranchEdit, Targets
  <2> QED
    BY <1>3, <1>5, <2>1, <2>2, BranchEditCall DEF RequestBranchEdit
<1>6. ASSUME NEW c \in Calls, NEW e \in Edits, QueueBranchEdit(c, e), UNCHANGED voucher
      PROVE  Ended /\ EditTypeOK' /\ Queued(c, e)
  BY <1>1, <1>2, <1>6 DEF QueueBranchEdit, Commit, Queued
<1>7. ASSUME NEW c \in Calls, NEW e \in Edits, WithdrawEdit(c, e), UNCHANGED voucher
      PROVE  Ended /\ EditTypeOK' /\ Withdrawn(c, e)
  BY <1>1, <1>7, EditSet DEF WithdrawEdit, Commit, Withdrawn, EditStatuses
<1>8. ASSUME NEW c \in Calls, NEW e \in Edits,
             ApproveEdit(c, e) \/ (RejectEdit(c, e) /\ UNCHANGED voucher)
      PROVE  Ended /\ EditTypeOK' /\ \E s \in {"APPROVED", "REJECTED"} : Decided(c, e, s)
  BY <1>1, <1>8, EditSet DEF ApproveEdit, RejectEdit, Commit, Decided, EditStatuses
<1>9. ASSUME NEW c \in Calls, EditReads(c), UNCHANGED <<row, edit, voucher>>
      PROVE  /\ CallsOK' /\ Begun(EditOps) /\ EditTypeOK'
             /\ \E k : Moves1(c, k) /\ k.op # "queueEdit" /\ (EditInv => EditCall(k))
  BY <1>2, <1>9, EditReadsBegin
<1> DEFINE A == /\ UNCHANGED <<row, edit, voucher>>
                /\ \E c \in Calls : \E k :
                     Moves1(c, k) /\ k.op # "queueEdit" /\ (EditInv => EditCall(k))
           B == \E c \in Calls, b \in Branches, e \in Edits :
                  /\ UNCHANGED <<row, voucher>> /\ edit[e].status = "none"
                  /\ edit' = [edit EXCEPT ![e] = [on |-> b, status |-> "PENDING"]]
                  /\ Moves1(c, [op |-> "queueEdit", on |-> e, noted |-> FALSE])
           C == \E c \in Calls, e \in Edits :
                  \/ \E t \in Targets : Asked(t, e)
                  \/ Queued(c, e) \/ Withdrawn(c, e)
                  \/ \E s \in {"APPROVED", "REJECTED"} : Decided(c, e, s)
<1>10. ASSUME NEW c \in Calls, EditReads(c), UNCHANGED <<row, edit, voucher>>
       PROVE  CallsOK' /\ Begun(EditOps) /\ EditTypeOK' /\ A
  BY <1>9, <1>10
<1>11. ASSUME NEW c \in Calls, NEW b \in Branches, RequestBranchEdit(c, b), UNCHANGED voucher
       PROVE  CallsOK' /\ Begun(EditOps) /\ EditTypeOK' /\ B
  BY <1>5, <1>11
<1>12. ASSUME NEW c \in Calls, NEW e \in Edits,
              \/ QueueBranchEdit(c, e) /\ UNCHANGED voucher
              \/ WithdrawEdit(c, e) /\ UNCHANGED voucher
              \/ ApproveEdit(c, e) \/ (RejectEdit(c, e) /\ UNCHANGED voucher)
       PROVE  Ended /\ EditTypeOK' /\ C
  <2> HIDE DEF Ended
  <2> QED
    BY <1>6, <1>7, <1>8, <1>12
<1>13. ASSUME NEW c \in Calls, NEW t \in Targets, RequestEdit(c, t), UNCHANGED voucher
       PROVE  Ended /\ EditTypeOK' /\ C
  <2> HIDE DEF Ended
  <2> QED
    BY <1>4, <1>13
<1> HIDE DEF A, B, C
<1>14. CallsOK' /\ Begun(EditOps) /\ EditTypeOK'
      /\ (A \/ B \/ (C /\ \A d \in Calls : call'[d] = call[d] \/ call'[d] = Idle))
  BY <1>10, <1>11, <1>12, <1>13 DEF EditNext, EditWrites
<1> QED
  BY <1>14 DEF A, B, C

\* A voucher that an edit ends keeps its approvalStatus.
LEMMA VoucherEnds ==
  ASSUME TypeOK, NEW e \in Edits,
         voucher' = [v \in Vouchers |->
           IF v = edit[e].on THEN [voucher[v] EXCEPT !.status = "INACTIVE"] ELSE voucher[v]]
  PROVE  /\ voucher' \in [Vouchers -> [status : Statuses \cup {"deleted"}, approval : Approvals]]
         /\ \A v \in Vouchers : v # edit[e].on => voucher'[v] = voucher[v]
         /\ \A v \in Vouchers : v = edit[e].on =>
              voucher'[v] = [status |-> "INACTIVE", approval |-> voucher[v].approval]
<1>1. voucher \in [Vouchers -> [status : Statuses \cup {"deleted"}, approval : Approvals]]
  BY TypeParts DEF VoucherTypeOK, Approvals
<1>2. \A v \in Vouchers : [voucher[v] EXCEPT !.status = "INACTIVE"] =
                             [status |-> "INACTIVE", approval |-> voucher[v].approval]
  BY <1>1
<1>3. \A v \in Vouchers :
        /\ v # edit[e].on => voucher'[v] = voucher[v]
        /\ v = edit[e].on =>
             voucher'[v] = [status |-> "INACTIVE", approval |-> voucher[v].approval]
  BY <1>2
<1>4. \A v \in Vouchers : voucher'[v] \in [status : Statuses \cup {"deleted"}, approval : Approvals]
  BY <1>1, <1>3 DEF Statuses
<1>5. voucher' = [v \in Vouchers |-> voucher'[v]]
  OBVIOUS
<1> QED
  BY <1>3, <1>4, <1>5

\* It writes the rows of edits only, and of a voucher no more than its end.
LEMMA EditFrame ==
  ASSUME TypeOK, EditNext, UNCHANGED rmv
  PROVE  /\ RowsOK' /\ VoucherTypeOK' /\ ClaimsKept
         /\ \A x \in Subjects \ Edits : row'[x] = row[x]
<1> DEFINE Kept1 == /\ RowsOK' /\ ClaimsKept
                    /\ \A x \in Subjects \ Edits : row'[x] = row[x]
<1>0. RowsOK /\ Edits \subseteq Subjects
  BY TypeParts DEF Subjects
<1>1. UNCHANGED row => Kept1
  BY <1>0 DEF RowsOK, ClaimsKept
<1>2. ASSUME NEW e \in Edits, NEW s \in {"PENDING", "WITHDRAWN", "APPROVED", "REJECTED"},
             SetRow(e, s)
      PROVE  Kept1
  BY <1>0, <1>2, RowSet, RowSetKeepsClaims
<1> HIDE DEF Kept1
<1>3. Kept1
  BY <1>1, <1>2, EditEffect, ZenonT(40) DEF Asked, Queued, Withdrawn, Decided
<1>4. UNCHANGED <<rmv, voucher>> => VoucherTypeOK'
  BY TypeParts DEF VoucherTypeOK
<1>5. ASSUME NEW e \in Edits,
             voucher' = [v \in Vouchers |->
               IF v = edit[e].on THEN [voucher[v] EXCEPT !.status = "INACTIVE"] ELSE voucher[v]],
             UNCHANGED rmv
      PROVE  VoucherTypeOK'
  BY <1>5, VoucherEnds, TypeParts DEF VoucherTypeOK, Approvals
<1> QED
  BY <1>3, <1>4, <1>5, EditEffect DEF Asked, Queued, Withdrawn, Decided, Kept1

-----------------------------------------------------------------------------
(* The merchant.                                                            *)

\* The custom vouchers that were approved and waited for the merchant go live with it.
WentLive ==
  voucher' = [v \in Vouchers |->
    IF voucher[v] = [status |-> "PENDING_APPROVAL", approval |-> "APPROVED"]
    THEN [voucher[v] EXCEPT !.status = "ACTIVE"] ELSE voucher[v]]

\* Only vouchers that were approved and waited for the merchant go live with it.
LEMMA VouchersGoLive ==
  ASSUME TypeOK, WentLive
  PROVE  /\ voucher' \in [Vouchers -> [status : Statuses \cup {"deleted"}, approval : Approvals]]
         /\ \A v \in Vouchers :
              \/ voucher'[v] = voucher[v]
              \/ /\ voucher[v].status = "PENDING_APPROVAL" /\ voucher[v].approval = "APPROVED"
                 /\ voucher'[v] = [status |-> "ACTIVE", approval |-> "APPROVED"]
<1>1. voucher \in [Vouchers -> [status : Statuses \cup {"deleted"}, approval : Approvals]]
  BY TypeParts DEF VoucherTypeOK, Approvals
<1>2. \A v \in Vouchers : [voucher[v] EXCEPT !.status = "ACTIVE"] =
                             [status |-> "ACTIVE", approval |-> voucher[v].approval]
  BY <1>1
<1>3. \A v \in Vouchers :
        \/ voucher'[v] = voucher[v]
        \/ /\ voucher[v].status = "PENDING_APPROVAL" /\ voucher[v].approval = "APPROVED"
           /\ voucher'[v] = [status |-> "ACTIVE", approval |-> "APPROVED"]
  BY <1>2 DEF WentLive
<1>4. \A v \in Vouchers : voucher'[v] \in [status : Statuses \cup {"deleted"}, approval : Approvals]
  BY <1>1, <1>3 DEF Statuses, Approvals
<1>5. voucher' = [v \in Vouchers |-> voucher'[v]]
  BY DEF WentLive
<1> QED
  BY <1>3, <1>4, <1>5

\* A step of onboarding writes the merchant, its row, and the vouchers that waited for it.
LEMMA OnboardingEffect ==
  ASSUME TypeOK, OnboardingNext
  PROVE  /\ CallsOK' /\ Begun(MerchantOps) /\ MerchantOK'
         /\ UNCHANGED row \/ \E s \in {"PENDING", "APPROVED", "REJECTED", "CHANGES_REQUESTED"} :
                               SetRow(Merchant, s)
         /\ rmv' \in [Rmvs -> Statuses] /\ (UNCHANGED voucher \/ WentLive)
<1>0. CallsOK /\ MerchantOK /\ rmv \in [Rmvs -> Statuses]
  BY TypeParts DEF VoucherTypeOK
<1>1. ASSUME NEW c \in Calls, ReadSubmitMerchant(c) \/ ReadMerchantDecision(c)
      PROVE  CallsOK' /\ Begun(MerchantOps)
  <2>1. PICK op \in MerchantOps : BeginNoting(c, op, Merchant, FALSE)
    BY <1>1 DEF ReadSubmitMerchant, ReadMerchantDecision, Begin, MerchantOps
  <2>2. op \in Operations /\ Merchant \in Subjects \cup Rmvs
    BY DEF MerchantOps, Operations, Subjects
  <2> QED
    BY <2>1, <2>2, BeginCall
<1>2. ASSUME NEW c \in Calls,
             \/ SubmitForApproval(c) \/ ApproveMerchant(c)
             \/ RejectMerchant(c) \/ RequestMerchantChanges(c)
      PROVE  CallsOK' /\ Begun(MerchantOps)
  BY <1>2, CommitCall
     DEF SubmitForApproval, ApproveMerchant, RejectMerchant, RequestMerchantChanges, Commit
<1>3. ASSUME NEW c \in Calls,
             SubmitForApproval(c) \/ RejectMerchant(c) \/ RequestMerchantChanges(c)
      PROVE  MerchantOK' /\ \E s \in {"PENDING", "APPROVED", "REJECTED", "CHANGES_REQUESTED"} :
                              SetRow(Merchant, s)
  BY <1>0, <1>3, MerchantSet
     DEF SubmitForApproval, RejectMerchant, RequestMerchantChanges, SetMerchant, MerchantOK,
         MerchantStatuses
<1>4. ASSUME NEW c \in Calls, ApproveMerchant(c)
      PROVE  /\ MerchantOK' /\ (UNCHANGED row \/ SetRow(Merchant, "APPROVED"))
             /\ rmv' \in [Rmvs -> Statuses] /\ (UNCHANGED voucher \/ WentLive)
  <2>1. CASE merchant.status = "ACTIVE"
    BY <1>0, <1>4, <2>1 DEF ApproveMerchant, MerchantOK
  <2>2. CASE merchant.status # "ACTIVE"
    <3>1. MerchantOK'
      BY <1>0, <1>4, <2>2, MerchantSet DEF ApproveMerchant, SetMerchant, MerchantOK, MerchantStatuses
    <3>2. rmv' = [r \in Rmvs |-> IF r \in Standing THEN "ACTIVE" ELSE rmv[r]]
      BY <1>4, <2>2 DEF ApproveMerchant
    <3>3. rmv' \in [Rmvs -> Statuses]
      BY <1>0, <3>2 DEF Statuses
    <3> QED
      BY <1>4, <2>2, <3>1, <3>3 DEF ApproveMerchant, WentLive
  <2> QED
    BY <2>1, <2>2
<1>5. UNCHANGED merchant => MerchantOK'
  BY <1>0 DEF MerchantOK
<1> QED
  BY <1>0, <1>1, <1>2, <1>3, <1>4, <1>5 DEF OnboardingNext

\* It writes no other row.
LEMMA OnboardingFrame ==
  ASSUME TypeOK, OnboardingNext
  PROVE  /\ RowsOK' /\ VoucherTypeOK' /\ ClaimsKept
         /\ \A x \in Subjects : x # Merchant => row'[x] = row[x]
<1>0. RowsOK /\ VoucherTypeOK /\ Merchant \in Subjects
  BY TypeParts DEF Subjects
<1>1. UNCHANGED row => RowsOK' /\ ClaimsKept
  BY <1>0 DEF RowsOK, ClaimsKept
<1>2. ASSUME NEW s \in {"PENDING", "APPROVED", "REJECTED", "CHANGES_REQUESTED"},
             SetRow(Merchant, s)
      PROVE  RowsOK' /\ ClaimsKept /\ \A x \in Subjects : x # Merchant => row'[x] = row[x]
  BY <1>0, <1>2, RowSet, RowSetKeepsClaims
<1>3. VoucherTypeOK'
  BY <1>0, OnboardingEffect, VouchersGoLive DEF VoucherTypeOK, Approvals
<1> QED
  BY <1>1, <1>2, <1>3, OnboardingEffect

-----------------------------------------------------------------------------
(* Types, and claims.                                                       *)

\* Each step keeps the types.
LEMMA TypeStep == TypeOK /\ [Next]_vars => TypeOK'
<1> SUFFICES ASSUME TypeOK, [Next]_vars PROVE TypeOK'
  OBVIOUS
<1> DEFINE Parts == /\ RowsOK /\ CallsOK /\ MerchantOK
                    /\ VoucherTypeOK /\ BranchTypeOK /\ EditTypeOK
<1>0. Parts /\ (Parts' => TypeOK')
  BY TypeParts DEF TypeOK, QueueTypeOK, RowsOK, RowType, CallsOK, CallType, Noting, MerchantOK,
     MerchantType, MerchantStatuses
<1>1. UNCHANGED <<rmv, voucher>> => VoucherTypeOK'
  BY <1>0 DEF VoucherTypeOK
<1>2. UNCHANGED branch => BranchTypeOK'
  BY <1>0 DEF BranchTypeOK
<1>3. UNCHANGED edit => EditTypeOK'
  BY <1>0 DEF EditTypeOK
<1>4. UNCHANGED merchant => MerchantOK'
  BY <1>0 DEF MerchantOK
<1>5. CASE QueueNext /\ UNCHANGED <<rmv, voucher, branch, edit>>
  BY <1>0, <1>1, <1>2, <1>3, <1>5, QueueFrame
<1>6. CASE VoucherNext /\ UNCHANGED <<merchant, branch, edit>>
  BY <1>0, <1>2, <1>3, <1>4, <1>6, VoucherFrame, VoucherEffect
<1>7. CASE BranchNext /\ UNCHANGED <<merchant, rmv, voucher, edit>>
  BY <1>0, <1>1, <1>3, <1>4, <1>7, BranchFrame, BranchEffect
<1>8. CASE EditNext /\ UNCHANGED <<merchant, rmv, branch>>
  BY <1>0, <1>2, <1>4, <1>8, EditFrame, EditEffect
<1>9. CASE OnboardingNext /\ UNCHANGED <<branch, edit>>
  BY <1>0, <1>2, <1>3, <1>9, OnboardingFrame, OnboardingEffect
<1>10. CASE UNCHANGED vars
  BY <1>10 DEF vars, TypeOK, QueueTypeOK, VoucherTypeOK, BranchTypeOK, EditTypeOK
<1> QED
  BY <1>5, <1>6, <1>7, <1>8, <1>9, <1>10 DEF Next

\* Each step leaves claims on rows that wait only.
LEMMA ClaimStep == TypeOK /\ ClaimedIsPending /\ [Next]_vars => ClaimedIsPending'
<1> SUFFICES ASSUME TypeOK, ClaimedIsPending, [Next]_vars PROVE ClaimedIsPending'
  OBVIOUS
<1>1. ClaimsKept => ClaimedIsPending'
  BY DEF ClaimsKept, ClaimedIsPending, Subjects, Closes
<1>2. UNCHANGED vars => ClaimedIsPending'
  BY DEF vars, ClaimedIsPending, Subjects, Closes
<1> QED
  BY <1>1, <1>2, QueueFrame, VoucherFrame, BranchFrame, EditFrame, OnboardingFrame DEF Next

-----------------------------------------------------------------------------
(* Vouchers.                                                                *)

\* Steps of the other lanes: the end of a voucher by an edit and an approval of the
\* merchant apart, they leave vouchers, their rows and their edits as they are.
LEMMA VoucherStays ==
  ASSUME VoucherInv, UNCHANGED <<voucher, edit>>,
         \A v \in Vouchers : row'[v].status = row[v].status
  PROVE  VoucherInv'
BY DEF VoucherInv, Exists, HasEdit

\* Each step of the voucher lane keeps the story of its voucher.
LEMMA VoucherLaneStep ==
  ASSUME TypeOK, VoucherInv, VoucherNext, UNCHANGED edit
  PROVE  VoucherInv'
<1>0. Vouchers \subseteq Subjects /\ voucher \in
        [Vouchers -> [status : Statuses \cup {"deleted"}, approval : Approvals]]
  BY TypeParts DEF Subjects, VoucherTypeOK, Approvals
<1>1. CASE UNCHANGED <<voucher, row>>
  BY <1>1, VoucherStays
<1>2. ASSUME NEW v \in Vouchers,
             /\ Exists(v)' => Story(voucher'[v].status, voucher'[v].approval, row'[v].status)
             /\ voucher'[v].status # "none" \/ row'[v].status # "PENDING"
             /\ HasEdit(v) => Exists(v)',
             \A u \in Vouchers : u # v => voucher'[u] = voucher[u] /\ row'[u] = row[u]
      PROVE  VoucherInv'
  BY <1>2 DEF VoucherInv, Exists, HasEdit
<1>3. ASSUME NEW v \in Vouchers, NEW s, NEW a, SetVoucher(v, s, a)
      PROVE  /\ voucher'[v].status = s /\ voucher'[v].approval = a
             /\ \A u \in Vouchers : u # v => voucher'[u] = voucher[u]
  BY <1>0, <1>3 DEF SetVoucher
<1>4. ASSUME NEW v \in Vouchers, Created(v) PROVE VoucherInv'
  <2>1. /\ voucher'[v].status = "DRAFT" /\ voucher'[v].approval = "PENDING"
        /\ UNCHANGED row /\ row[v].status # "PENDING"
        /\ \A u \in Vouchers : u # v => voucher'[u] = voucher[u]
    BY <1>3, <1>4 DEF Created, VoucherInv
  <2>2. Exists(v)' /\ Story(voucher'[v].status, voucher'[v].approval, row'[v].status)
    BY <2>1 DEF Exists, Story
  <2> QED
    BY <1>2, <2>1, <2>2
<1>5. ASSUME NEW v \in Vouchers, Deleted(v) PROVE VoucherInv'
  <2>1. /\ voucher'[v].status = "deleted" /\ UNCHANGED row /\ ~HasEdit(v)
        /\ \A u \in Vouchers : u # v => voucher'[u] = voucher[u]
    BY <1>3, <1>5 DEF Deleted
  <2>2. ~Exists(v)'
    BY <2>1 DEF Exists
  <2> QED
    BY <1>2, <2>1, <2>2
<1>6. ASSUME NEW v \in Vouchers, Told(v) PROVE VoucherInv'
  <2>1. PICK s \in Statuses \ {"none"}, a \in Approvals,
             q \in {"PENDING", "WITHDRAWN", "APPROVED", "REJECTED", "CHANGES_REQUESTED"} :
          Story(s, a, q) /\ SetVoucher(v, s, a) /\ SetRow(v, q)
    BY <1>6 DEF Told
  <2>2. /\ voucher'[v].status = s /\ voucher'[v].approval = a
        /\ \A u \in Vouchers : u # v => voucher'[u] = voucher[u]
    BY <1>3, <2>1
  <2>3. row'[v].status = q /\ \A u \in Vouchers : u # v => row'[u] = row[u]
    BY <1>0, <2>1, RowSet
  <2>4. Exists(v)' /\ Story(voucher'[v].status, voucher'[v].approval, row'[v].status)
    BY <2>1, <2>2, <2>3 DEF Exists, Statuses
  <2>5. voucher'[v].status # "none"
    BY <2>2
  <2> QED
    BY <1>2, <2>2, <2>3, <2>4, <2>5
<1> QED
  BY <1>1, <1>4, <1>5, <1>6, VoucherEffect

\* An edit that a request has in hand is there, so its voucher is there to be ended.
LEMMA VoucherEditStep ==
  ASSUME TypeOK, VoucherInv, EditInv, EditNext, UNCHANGED rmv
  PROVE  VoucherInv'
<1>1. \A v \in Vouchers : row'[v] = row[v]
  BY EditFrame, SubjectAssumption DEF Subjects
<1>2. ASSUME NEW v \in Vouchers,
             /\ voucher'[v] = voucher[v]
             /\ HasEdit(v)' => HasEdit(v) \/ Exists(v)
      PROVE  /\ Exists(v)' => Story(voucher'[v].status, voucher'[v].approval, row'[v].status)
             /\ voucher'[v].status = "none" => row'[v].status # "PENDING"
             /\ HasEdit(v)' => Exists(v)'
  BY <1>1, <1>2 DEF VoucherInv, Exists
<1>3. ASSUME UNCHANGED voucher, \A v \in Vouchers : HasEdit(v)' => HasEdit(v) \/ Exists(v)
      PROVE  VoucherInv'
  BY <1>2, <1>3 DEF VoucherInv
<1>4. ASSUME NEW e \in Edits, edit[e].status # "none", NEW s \in EditStatuses, SetEdit(e, s)
      PROVE  \A v \in Vouchers : HasEdit(v)' => HasEdit(v)
  <2>1. edit'[e] = [on |-> edit[e].on, status |-> s]
        /\ \A d \in Edits : d # e => edit'[d] = edit[d]
    BY <1>4, EditSet
  <2>2. \A d \in Edits : edit'[d].on = edit[d].on
                        /\ (edit'[d].status # "none" => edit[d].status # "none")
    BY <1>4, <2>1
  <2> QED
    BY <2>2 DEF HasEdit
<1>5. ASSUME NEW e \in Edits, NEW t \in Targets, t \in Vouchers => Exists(t),
             edit' = [edit EXCEPT ![e] = [on |-> t, status |-> "PENDING"]]
      PROVE  \A v \in Vouchers : HasEdit(v)' => HasEdit(v) \/ Exists(v)
  BY <1>5, EditNew DEF HasEdit
<1>6. ASSUME NEW c \in Calls, NEW e \in Edits, NEW s \in {"APPROVED", "REJECTED"}, Decided(c, e, s)
      PROVE  VoucherInv'
  <2>1. edit[e].status # "none"
    BY <1>6 DEF Decided, EditInv, EditCall
  <2>2. \A v \in Vouchers : HasEdit(v)' => HasEdit(v)
    BY <1>4, <1>6, <2>1 DEF Decided, EditStatuses
  <2>3. CASE UNCHANGED voucher
    BY <1>3, <2>2, <2>3
  <2>4. CASE voucher' = [v \in Vouchers |->
               IF v = edit[e].on THEN [voucher[v] EXCEPT !.status = "INACTIVE"] ELSE voucher[v]]
    <3>1. ASSUME NEW v \in Vouchers, v = edit[e].on
          PROVE  /\ Exists(v)'
                 /\ Story(voucher'[v].status, voucher'[v].approval, row'[v].status)
                 /\ voucher'[v].status # "none"
      <4>1. voucher'[v].status = "INACTIVE" /\ voucher'[v].approval = voucher[v].approval
        BY <2>4, <3>1, VoucherEnds
      <4>2. HasEdit(v)
        BY <2>1, <3>1 DEF HasEdit
      <4>3. Story(voucher[v].status, voucher[v].approval, row[v].status)
        BY <4>2 DEF VoucherInv
      <4>4. Story(voucher'[v].status, voucher'[v].approval, row'[v].status)
        BY <1>1, <4>1, <4>3 DEF Story
      <4> QED
        BY <4>1, <4>4 DEF Exists
    <3>2. \A v \in Vouchers : v # edit[e].on => voucher'[v] = voucher[v]
      BY <2>4, VoucherEnds
    <3> QED
      BY <1>2, <2>2, <3>1, <3>2 DEF VoucherInv
  <2> QED
    BY <1>6, <2>3, <2>4 DEF Decided
<1>7. UNCHANGED <<edit, voucher>> => VoucherInv'
  BY <1>1, VoucherStays
<1>8. ASSUME NEW e \in Edits, NEW t \in Targets, Asked(t, e) PROVE VoucherInv'
  BY <1>3, <1>5, <1>8 DEF Asked
<1>9. ASSUME NEW c \in Calls, NEW e \in Edits, Queued(c, e) PROVE VoucherInv'
  BY <1>7, <1>9 DEF Queued
<1>10. ASSUME NEW c \in Calls, NEW e \in Edits, Withdrawn(c, e) PROVE VoucherInv'
  <2>1. edit[e].status # "none"
    BY <1>10 DEF Withdrawn, EditInv, EditCall
  <2> QED
    BY <1>3, <1>4, <1>10, <2>1 DEF Withdrawn, EditStatuses
<1>11. ASSUME NEW b \in Branches, NEW e \in Edits, UNCHANGED voucher,
              edit' = [edit EXCEPT ![e] = [on |-> b, status |-> "PENDING"]]
       PROVE  VoucherInv'
  <2>1. b \in Targets /\ b \notin Vouchers
    BY SubjectAssumption DEF Targets
  <2> QED
    BY <1>3, <1>5, <1>11, <2>1
<1> QED
  BY <1>6, <1>7, <1>8, <1>9, <1>10, <1>11, EditEffect

\* So does each step of the others.
LEMMA VoucherStep == TypeOK /\ VoucherInv /\ EditInv /\ [Next]_vars => VoucherInv'
<1> SUFFICES ASSUME TypeOK, VoucherInv, EditInv, [Next]_vars PROVE VoucherInv'
  OBVIOUS
<1>0. Vouchers \subseteq Subjects
  BY DEF Subjects
<1>1. CASE QueueNext /\ UNCHANGED <<rmv, voucher, branch, edit>>
  BY <1>0, <1>1, QueueFrame, VoucherStays
<1>2. CASE VoucherNext /\ UNCHANGED <<merchant, branch, edit>>
  BY <1>2, VoucherLaneStep
<1>3. CASE BranchNext /\ UNCHANGED <<merchant, rmv, voucher, edit>>
  <2>1. \A v \in Vouchers : row'[v] = row[v]
    BY <1>0, <1>3, BranchFrame, SubjectAssumption
  <2> QED
    BY <1>3, <2>1, VoucherStays
<1>4. CASE EditNext /\ UNCHANGED <<merchant, rmv, branch>>
  BY <1>4, VoucherEditStep
<1>5. CASE OnboardingNext /\ UNCHANGED <<branch, edit>>
  <2>1. \A v \in Vouchers : row'[v] = row[v]
    BY <1>0, <1>5, OnboardingFrame, SubjectAssumption
  <2>2. CASE UNCHANGED voucher
    BY <1>5, <2>1, <2>2, VoucherStays
  <2>3. CASE WentLive
    <3>1. ASSUME NEW v \in Vouchers
          PROVE  /\ Exists(v)' => Story(voucher'[v].status, voucher'[v].approval, row'[v].status)
                 /\ voucher'[v].status = "none" => row'[v].status # "PENDING"
                 /\ HasEdit(v) => Exists(v)'
      <4>1. CASE voucher'[v] = voucher[v]
        BY <2>1, <4>1 DEF VoucherInv, Exists
      <4>2. CASE /\ voucher[v].status = "PENDING_APPROVAL" /\ voucher[v].approval = "APPROVED"
                 /\ voucher'[v] = [status |-> "ACTIVE", approval |-> "APPROVED"]
        <5>1. row'[v].status = "APPROVED"
          BY <2>1, <4>2 DEF VoucherInv, Exists, Story
        <5> QED
          BY <4>2, <5>1 DEF Exists, Story
      <4> QED
        BY <2>3, <4>1, <4>2, VouchersGoLive
    <3>2. \A v \in Vouchers : HasEdit(v)' = HasEdit(v)
      BY <1>5 DEF HasEdit
    <3> QED
      BY <3>1, <3>2 DEF VoucherInv
  <2> QED
    BY <1>5, <2>2, <2>3, OnboardingEffect
<1>6. CASE UNCHANGED vars
  BY <1>6, VoucherStays DEF vars
<1> QED
  BY <1>1, <1>2, <1>3, <1>4, <1>5, <1>6 DEF Next

-----------------------------------------------------------------------------
(* Branches and their rows.                                                 *)

\* Steps of the other lanes leave branches, their rows and the requests that close one.
LEMMA BranchStays ==
  ASSUME BranchInv, UNCHANGED branch, NEW ops, ops \cap CloseOps = {}, Begun(ops),
         \A x \in Branches \cup Closes : row'[x].status = row[x].status
  PROVE  BranchInv'
<1>1. \A b \in Branches, n \in Requests : <<b, n>> \in Closes
  BY DEF Closes
<1>2. BranchesAwaitReview'
  BY <1>1 DEF BranchInv, BranchesAwaitReview, Actionable
<1>3. \A b \in Branches, n \in Requests : row'[<<b, n>>].status # "none" => Placed(b)'
  BY <1>1 DEF BranchInv, Placed
<1>4. ASSUME NEW c \in Calls PROVE CloseCall(call[c])'
  <2>1. CASE call'[c] = call[c]
    BY <2>1 DEF BranchInv, CloseCall, Placed, Closes
  <2>2. CASE call'[c].op \in ops \cup {"none"}
    BY <2>2 DEF CloseCall, CloseOps
  <2> QED
    BY <2>1, <2>2 DEF Begun
<1> QED
  BY <1>2, <1>3, <1>4 DEF BranchInv

\* What is enough when the lane itself moves: every branch that was placed still is, the
\* requests that closed a branch have only ended, and each branch and its rows agree.
LEMMA BranchMoves ==
  ASSUME BranchInv, \A b \in Branches : Placed(b) => Placed(b)',
         \A d \in Calls : call'[d] = call[d] \/ call'[d] = Idle,
         BranchesAwaitReview',
         \A b \in Branches, n \in Requests :
           row'[<<b, n>>].status # "none" => row[<<b, n>>].status # "none" \/ Placed(b)
  PROVE  BranchInv'
<1>1. \A b \in Branches, n \in Requests : row'[<<b, n>>].status # "none" => Placed(b)'
  BY DEF BranchInv
<1>2. ASSUME NEW c \in Calls PROVE CloseCall(call[c])'
  <2>1. CASE call'[c] = call[c]
    <3>1. call[c].op \in {"close", "withdrawClose"} =>
            call[c].on \in Branches /\ branch'[call[c].on].life \notin {"none", "PENDING_CREATE"}
      BY DEF BranchInv, CloseCall, Placed
    <3>2. call[c].op \in {"approveClose", "rejectClose"} =>
            /\ call[c].on \in Closes /\ call[c].on[1] \in Branches
            /\ branch'[call[c].on[1]].life \notin {"none", "PENDING_CREATE"}
      BY DEF BranchInv, CloseCall, Placed, Closes
    <3> QED
      BY <2>1, <3>1, <3>2 DEF CloseCall, Placed, Closes
  <2>2. CASE call'[c] = Idle
    BY <2>2 DEF CloseCall, Idle
  <2> QED
    BY <2>1, <2>2
<1> QED
  BY <1>1, <1>2 DEF BranchInv

\* One branch moves, and its rows with it.
LEMMA OneBranchMoves ==
  ASSUME BranchInv, NEW b \in Branches, NEW life, Lives(b, life),
         Placed(b) => life \notin {"none", "PENDING_CREATE"},
         \A d \in Calls : call'[d] = call[d] \/ call'[d] = Idle,
         \A k \in Branches : k # b =>
           /\ row'[k].status = row[k].status
           /\ \A n \in Requests : row'[<<k, n>>].status = row[<<k, n>>].status,
         life = "PENDING_CREATE" => row'[b].status \in {"PENDING", "CHANGES_REQUESTED"},
         life = "PENDING_CLOSE" => \E n \in Requests : row'[<<b, n>>].status = "PENDING",
         row'[b].status = "PENDING" => life = "PENDING_CREATE",
         \A n \in Requests :
           row'[<<b, n>>].status # "none" => row[<<b, n>>].status # "none" \/ Placed(b)
  PROVE  BranchInv'
<1>1. branch'[b].life = life /\ \A k \in Branches : k # b => branch'[k].life = branch[k].life
  BY DEF Lives
<1>2. \A k \in Branches : Placed(k) => Placed(k)'
  BY <1>1 DEF Placed
<1>3. ASSUME NEW k \in Branches
      PROVE  /\ branch'[k].life = "PENDING_CREATE" =>
                  row'[k].status \in {"PENDING", "CHANGES_REQUESTED"}
             /\ branch'[k].life = "PENDING_CLOSE" =>
                  \E n \in Requests : row'[<<k, n>>].status = "PENDING"
             /\ row'[k].status = "PENDING" => branch'[k].life = "PENDING_CREATE"
  <2>1. CASE k = b
    <3>1. /\ branch'[b].life = "PENDING_CREATE" =>
               row'[b].status \in {"PENDING", "CHANGES_REQUESTED"}
          /\ branch'[b].life = "PENDING_CLOSE" =>
               \E n \in Requests : row'[<<b, n>>].status = "PENDING"
          /\ row'[b].status = "PENDING" => branch'[b].life = "PENDING_CREATE"
      BY <1>1, Zenon
    <3> QED
      BY <2>1, <3>1, Zenon
  <2>2. CASE k # b
    <3>1. /\ branch'[k].life = branch[k].life /\ row'[k].status = row[k].status
          /\ \A n \in Requests : row'[<<k, n>>].status = row[<<k, n>>].status
      BY <1>1, <2>2
    <3>2. /\ branch[k].life = "PENDING_CREATE" =>
               row[k].status \in {"PENDING", "CHANGES_REQUESTED"}
          /\ branch[k].life = "PENDING_CLOSE" =>
               \E n \in Requests : row[<<k, n>>].status = "PENDING"
          /\ row[k].status = "PENDING" => branch[k].life = "PENDING_CREATE"
      BY Zenon DEF BranchInv, BranchesAwaitReview, Actionable
    <3> QED
      BY <3>1, <3>2, Zenon
  <2> QED
    BY <2>1, <2>2
<1>4. BranchesAwaitReview'
  BY <1>3 DEF BranchesAwaitReview, Actionable
<1>5. \A k \in Branches, n \in Requests :
        row'[<<k, n>>].status # "none" => row[<<k, n>>].status # "none" \/ Placed(k)
  OBVIOUS
<1> QED
  BY <1>2, <1>4, <1>5, BranchMoves

\* Each step of the branch lane keeps branches and their rows together.
LEMMA BranchLaneStep ==
  ASSUME TypeOK, BranchInv, BranchNext
  PROVE  BranchInv'
<1> DEFINE Ends == \A d \in Calls : call'[d] = call[d] \/ call'[d] = Idle
<1>0. /\ RowsOK /\ Branches \subseteq Subjects
      /\ \A b \in Branches, n \in Requests :
           <<b, n>> \in Closes /\ <<b, n>> \in Subjects /\ <<b, n>> \notin Branches
  BY TypeParts, SubjectAssumption DEF Subjects, Closes
<1>1. CASE SameLives /\ UNCHANGED row /\ \A d \in Calls : CloseCall(call'[d])
  <2>1. BranchesAwaitReview'
    BY <1>1 DEF BranchInv, BranchesAwaitReview, Actionable, SameLives
  <2>2. \A b \in Branches, n \in Requests : row'[<<b, n>>].status # "none" => Placed(b)'
    BY <1>1 DEF BranchInv, Placed, SameLives
  <2>3. \A d \in Calls : CloseCall(call[d])'
    BY <1>1 DEF CloseCall, Placed, SameLives, Closes
  <2> QED
    BY <2>1, <2>2, <2>3 DEF BranchInv
<1>2. CASE SameLives /\ UNCHANGED row /\ Ends
  <2>1. BranchesAwaitReview'
    BY <1>2, ZenonT(40) DEF BranchInv, BranchesAwaitReview, Actionable, SameLives
  <2>2. \A b \in Branches : Placed(b) => Placed(b)'
    BY <1>2 DEF Placed, SameLives
  <2> QED
    BY <1>2, <2>1, <2>2, BranchMoves
<1>3. ASSUME NEW b \in Branches, NEW s \in {"PENDING", "CHANGES_REQUESTED", "APPROVED", "deleted"},
             SetRow(b, s)
      PROVE  /\ row'[b].status = s
             /\ \A k \in Branches : k # b => row'[k] = row[k]
             /\ \A k \in Branches, n \in Requests : row'[<<k, n>>] = row[<<k, n>>]
  BY <1>0, <1>3, RowSet
<1>4. ASSUME NEW x \in Closes, NEW s \in {"PENDING", "APPROVED", "REJECTED"}, SetRow(x, s)
      PROVE  /\ row'[x].status = s
             /\ \A k \in Branches : row'[k] = row[k]
             /\ \A k \in Branches, n \in Requests : <<k, n>> # x => row'[<<k, n>>] = row[<<k, n>>]
  <2>1. x \in Subjects /\ x \notin Branches
    BY SubjectAssumption DEF Subjects
  <2> QED
    BY <1>0, <1>4, <2>1, RowSet
<1>5. ASSUME NEW b \in Branches, Added(b), Ends PROVE BranchInv'
  <2>1. ~Placed(b) /\ row[b].status # "PENDING"
    BY <1>5 DEF Added, Placed, BranchInv, BranchesAwaitReview
  <2> QED
    BY <1>5, <2>1, OneBranchMoves DEF Added
<1>6. ASSUME NEW b \in Branches, Staged(b), Ends PROVE BranchInv'
  <2>1. ~Placed(b)
    BY <1>6 DEF Staged, Placed
  <2>2. /\ row'[b].status = "PENDING"
        /\ \A k \in Branches : k # b => row'[k] = row[k]
        /\ \A k \in Branches, n \in Requests : row'[<<k, n>>] = row[<<k, n>>]
    BY <1>3, <1>6 DEF Staged
  <2> QED
    BY <1>6, <2>1, <2>2, OneBranchMoves DEF Staged
<1>7. ASSUME NEW b \in Branches, Cancelled(b), Ends PROVE BranchInv'
  <2>1. /\ row'[b].status # "PENDING"
        /\ \A k \in Branches : k # b => row'[k] = row[k]
        /\ \A k \in Branches, n \in Requests : row'[<<k, n>>] = row[<<k, n>>]
    BY <1>3, <1>7 DEF Cancelled
  <2> QED
    BY <1>7, <2>1, OneBranchMoves DEF Cancelled
<1>8. ASSUME NEW b \in Branches, Approved(b), Ends PROVE BranchInv'
  <2>1. /\ row'[b].status = "APPROVED"
        /\ \A k \in Branches : k # b => row'[k] = row[k]
        /\ \A k \in Branches, n \in Requests : row'[<<k, n>>] = row[<<k, n>>]
    BY <1>3, <1>8 DEF Approved
  <2> QED
    BY <1>8, <2>1, OneBranchMoves DEF Approved
<1>9. ASSUME NEW b \in Branches, SentBack(b), Ends PROVE BranchInv'
  <2>1. /\ row'[b].status = "CHANGES_REQUESTED"
        /\ \A k \in Branches : k # b => row'[k] = row[k]
        /\ \A k \in Branches, n \in Requests : row'[<<k, n>>] = row[<<k, n>>]
    BY <1>3, <1>9 DEF SentBack
  <2>2. BranchesAwaitReview'
    BY <1>9, <2>1 DEF SentBack, SameLives, BranchInv, BranchesAwaitReview, Actionable
  <2>3. \A k \in Branches : Placed(k) => Placed(k)'
    BY <1>9 DEF SentBack, Placed, SameLives
  <2> QED
    BY <1>9, <2>1, <2>2, <2>3, BranchMoves
<1>10. ASSUME NEW c \in Calls, NEW b \in Branches, Closing(c, b), Ends PROVE BranchInv'
  <2>1. Placed(b) /\ row[b].status # "PENDING"
    BY <1>10 DEF Closing, BranchInv, CloseCall, BranchesAwaitReview, Placed
  <2>2. PICK m \in Requests : SetRow(<<b, m>>, "PENDING")
    BY <1>10 DEF Closing
  <2>3. /\ row'[<<b, m>>].status = "PENDING"
        /\ \A k \in Branches : row'[k] = row[k]
        /\ \A k \in Branches, n \in Requests : k # b => row'[<<k, n>>] = row[<<k, n>>]
    BY <1>0, <1>4, <2>2
  <2> QED
    BY <1>10, <2>1, <2>3, OneBranchMoves DEF Closing
<1>11. ASSUME NEW c \in Calls, NEW b \in Branches, KeptOpen(c, b), Ends PROVE BranchInv'
  <2>1. Placed(b) /\ row[b].status # "PENDING"
    BY <1>11 DEF KeptOpen, BranchInv, CloseCall, BranchesAwaitReview, Placed
  <2>2. row' = [x \in Subjects |->
          IF x \in {b} \X Requests /\ row[x].status = "PENDING"
          THEN [status |-> "deleted", claimed |-> FALSE] ELSE row[x]]
    BY <1>11 DEF KeptOpen
  <2>3. \A k \in Branches : k \notin {b} \X Requests
    BY SubjectAssumption DEF Closes
  <2>4. /\ \A k \in Branches : row'[k] = row[k]
        /\ \A k \in Branches, n \in Requests : k # b => row'[<<k, n>>] = row[<<k, n>>]
    BY <1>0, <2>2, <2>3
  <2> QED
    BY <1>11, <2>1, <2>4, OneBranchMoves DEF KeptOpen
<1>12. ASSUME NEW c \in Calls, NEW x \in Closes, Closed(c, x), Ends PROVE BranchInv'
  <2>1. PICK b \in Branches, m \in Requests : x = <<b, m>>
    BY DEF Closes
  <2>2. Placed(b) /\ row[b].status # "PENDING"
    BY <1>12, <2>1 DEF Closed, BranchInv, CloseCall, BranchesAwaitReview, Placed
  <2>3. PICK s \in {"CLOSED", "LIVE"}, q \in {"APPROVED", "REJECTED"} : Lives(b, s) /\ SetRow(x, q)
    BY <1>12, <2>1 DEF Closed
  <2>4. /\ \A k \in Branches : row'[k] = row[k]
        /\ \A k \in Branches, n \in Requests : k # b => row'[<<k, n>>] = row[<<k, n>>]
    BY <1>4, <2>1, <2>3
  <2> QED
    BY <1>12, <2>2, <2>3, <2>4, OneBranchMoves
<1> QED
  BY <1>1, <1>2, <1>5, <1>6, <1>7, <1>8, <1>9, <1>10, <1>11, <1>12, BranchEffect

\* So does each step of the others.
LEMMA BranchStep == TypeOK /\ BranchInv /\ [Next]_vars => BranchInv'
<1> SUFFICES ASSUME TypeOK, BranchInv, [Next]_vars PROVE BranchInv'
  OBVIOUS
<1> DEFINE Same == \A x \in Branches \cup Closes : row'[x].status = row[x].status
<1>0. Branches \cup Closes \subseteq Subjects
  BY DEF Subjects
<1>1. CASE QueueNext /\ UNCHANGED <<rmv, voucher, branch, edit>>
  <2>1. QueueOps \cap CloseOps = {}
    BY DEF QueueOps, CloseOps
  <2> QED
    BY <1>0, <1>1, <2>1, QueueFrame, BranchStays
<1>2. CASE VoucherNext /\ UNCHANGED <<merchant, branch, edit>>
  <2>1. VoucherOps \cap CloseOps = {}
    BY DEF VoucherOps, CloseOps
  <2>2. Same
    BY <1>0, <1>2, VoucherFrame, SubjectAssumption
  <2> QED
    BY <1>2, <2>1, <2>2, VoucherEffect, BranchStays
<1>3. CASE BranchNext /\ UNCHANGED <<merchant, rmv, voucher, edit>>
  BY <1>3, BranchLaneStep
<1>4. CASE EditNext /\ UNCHANGED <<merchant, rmv, branch>>
  <2>1. EditOps \cap CloseOps = {}
    BY DEF EditOps, CloseOps
  <2>2. Same
    BY <1>0, <1>4, EditFrame, SubjectAssumption
  <2> QED
    BY <1>4, <2>1, <2>2, EditEffect, BranchStays
<1>5. CASE OnboardingNext /\ UNCHANGED <<branch, edit>>
  <2>1. MerchantOps \cap CloseOps = {}
    BY DEF MerchantOps, CloseOps
  <2>2. Same
    BY <1>0, <1>5, OnboardingFrame, SubjectAssumption
  <2> QED
    BY <1>5, <2>1, <2>2, OnboardingEffect, BranchStays
<1>6. CASE UNCHANGED vars
  <2>1. UNCHANGED <<row, branch>> /\ Begun({})
    BY <1>6 DEF vars, Begun
  <2> QED
    BY <2>1, BranchStays
<1> QED
  BY <1>1, <1>2, <1>3, <1>4, <1>5, <1>6 DEF Next

-----------------------------------------------------------------------------
(* Edits and their rows.                                                    *)

\* What one edit and its row say of each other.
EditAgrees(e) ==
  /\ edit[e].status \in {"APPROVED", "REJECTED"} => row[e].status = edit[e].status
  /\ edit[e].on \notin Branches =>
       (row[e].status = "PENDING" <=> edit[e].status = "PENDING")
  /\ edit[e].status = "none" => row[e].status = "none"

\* The invariant of edits, edit by edit.
LEMMA EditInvParts ==
  EditInv <=> /\ \A e \in Edits : EditAgrees(e)
              /\ \A c \in Calls : EditCall(call[c])
              /\ \A c, d \in Calls :
                   (call[c].op = "queueEdit" /\ call[d].op = "queueEdit" /\ c # d) =>
                     call[c].on # call[d].on
BY DEF EditInv, EditLanesAgree, EditAgrees

\* Steps of the other lanes leave edits, their rows and the requests about them.
LEMMA EditStays ==
  ASSUME EditInv, UNCHANGED edit, NEW ops, ops \cap EditOps = {}, Begun(ops),
         \A e \in Edits : row'[e].status = row[e].status
  PROVE  EditInv'
<1>1. \A e \in Edits : EditAgrees(e)'
  BY EditInvParts DEF EditAgrees
<1>2. ASSUME NEW c \in Calls
      PROVE  /\ EditCall(call[c])'
             /\ call'[c].op = "queueEdit" => call[c].op = "queueEdit" /\ call'[c].on = call[c].on
  <2>1. CASE call'[c] = call[c]
    BY <2>1 DEF EditInv, EditCall
  <2>2. CASE call'[c].op \in ops \cup {"none"}
    <3>1. call'[c].op \notin EditOps
      BY <2>2 DEF EditOps
    <3> QED
      BY <3>1 DEF EditCall, EditOps
  <2> QED
    BY <2>1, <2>2 DEF Begun
<1>3. \A c, d \in Calls :
        (call'[c].op = "queueEdit" /\ call'[d].op = "queueEdit" /\ c # d) =>
          call'[c].on # call'[d].on
  BY <1>2 DEF EditInv
<1> QED
  BY <1>1, <1>2, <1>3 DEF EditInv, EditLanesAgree, EditAgrees

\* One edit moves, or its row, and the requests about it have only ended.
LEMMA OneEditMoves ==
  ASSUME EditInv, NEW e \in Edits, EditAgrees(e)',
         \A d \in Edits : d # e => edit'[d] = edit[d] /\ row'[d].status = row[d].status,
         \A c \in Calls : call'[c] = call[c] \/ call'[c] = Idle,
         \A c \in Calls : call'[c] = call[c] /\ call[c].on = e => EditCall(call[c])'
  PROVE  EditInv'
<1>1. \A d \in Edits : EditAgrees(d)'
  BY EditInvParts DEF EditAgrees
<1>2. ASSUME NEW c \in Calls PROVE EditCall(call[c])'
  <2>1. CASE call'[c] = Idle
    BY <2>1 DEF EditCall, Idle
  <2>2. CASE call'[c] = call[c] /\ call[c].on = e
    BY <2>2
  <2>3. CASE call'[c] = call[c] /\ call[c].on # e
    <3>1. EditCall(call[c]) /\ (call[c].on \in Edits =>
            edit'[call[c].on] = edit[call[c].on] /\ row'[call[c].on].status = row[call[c].on].status)
      BY <2>3 DEF EditInv
    <3> QED
      BY <2>3, <3>1 DEF EditCall
  <2> QED
    BY <2>1, <2>2, <2>3
<1>3. \A c, d \in Calls :
        (call'[c].op = "queueEdit" /\ call'[d].op = "queueEdit" /\ c # d) =>
          call'[c].on # call'[d].on
  BY DEF EditInv, Idle
<1> QED
  BY <1>1, <1>2, <1>3 DEF EditInv, EditLanesAgree, EditAgrees

\* Each step of the edit lane keeps edits and their rows together.
LEMMA EditLaneStep ==
  ASSUME TypeOK, EditInv, EditNext
  PROVE  EditInv'
<1> DEFINE Ends == \A d \in Calls : call'[d] = call[d] \/ call'[d] = Idle
<1>0. Edits \subseteq Subjects /\ \A e \in Edits : EditAgrees(e)
  BY EditInvParts DEF Subjects
<1>1. ASSUME NEW e \in Edits,
             NEW s \in {"PENDING", "WITHDRAWN", "APPROVED", "REJECTED"}, SetRow(e, s)
      PROVE  row'[e].status = s /\ \A d \in Edits : d # e => row'[d].status = row[d].status
  BY <1>0, <1>1, RowSet
<1>2. ASSUME NEW c \in Calls, NEW k, Moves1(c, k), k.op # "queueEdit", EditCall(k),
             UNCHANGED <<row, edit>>
      PROVE  EditInv'
  <2>1. \A e \in Edits : EditAgrees(e)'
    BY <1>0, <1>2 DEF EditAgrees
  <2>2. \A d \in Calls : EditCall(call[d])'
    BY <1>2 DEF Moves1, EditInv, EditCall
  <2>3. \A d \in Calls : call'[d].op = "queueEdit" => call'[d] = call[d]
    BY <1>2 DEF Moves1
  <2> QED
    BY <2>1, <2>2, <2>3 DEF EditInv, EditLanesAgree, EditAgrees
\* A branch's edit is stored, and not yet in the queue: no other request is about it.
<1>3. ASSUME NEW c \in Calls, NEW b \in Branches, NEW e \in Edits,
             UNCHANGED row, edit[e].status = "none",
             edit' = [edit EXCEPT ![e] = [on |-> b, status |-> "PENDING"]],
             Moves1(c, [op |-> "queueEdit", on |-> e, noted |-> FALSE])
      PROVE  EditInv'
  <2>1. edit'[e] = [on |-> b, status |-> "PENDING"] /\ \A d \in Edits : d # e => edit'[d] = edit[d]
    BY <1>3, EditNew DEF Targets
  <2>2. row'[e].status = "none"
    BY <1>0, <1>3 DEF EditAgrees
  <2>3. \A d \in Edits : EditAgrees(d)'
    BY <1>0, <1>3, <2>1, <2>2 DEF EditAgrees
  <2>4. ASSUME NEW d \in Calls, d # c
        PROVE  EditCall(call[d])' /\ (call'[d].op = "queueEdit" => call'[d].on # e)
    <3>1. call'[d] = call[d] /\ EditCall(call[d])
      BY <1>3, <2>4 DEF Moves1, EditInv
    <3>2. call[d].op \in {"queueEdit", "withdrawEdit", "approveEdit", "rejectEdit"} =>
            call[d].on \in Edits /\ call[d].on # e
      BY <1>3, <3>1 DEF EditCall
    <3> QED
      BY <1>3, <2>1, <3>1, <3>2 DEF EditCall
  <2>5. EditCall(call[c])'
    BY <1>3, <2>1, <2>2 DEF Moves1, EditCall
  <2>6. call'[c].on = e
    BY <1>3 DEF Moves1
  <2>7. \A d, f \in Calls :
          (call'[d].op = "queueEdit" /\ call'[f].op = "queueEdit" /\ d # f) =>
            call'[d].on # call'[f].on
    <3> SUFFICES ASSUME NEW d \in Calls, NEW f \in Calls, d # f,
                        call'[d].op = "queueEdit", call'[f].op = "queueEdit"
                 PROVE  call'[d].on # call'[f].on
      OBVIOUS
    <3>1. CASE d = c \/ f = c
      BY <2>4, <2>6, <3>1
    <3>2. CASE d # c /\ f # c
      BY <1>3, <3>2 DEF Moves1, EditInv
    <3> QED
      BY <3>1, <3>2
  <2> QED
    BY <2>3, <2>4, <2>5, <2>7 DEF EditInv, EditLanesAgree, EditAgrees
<1>4. ASSUME NEW e \in Edits, NEW t \in Targets, Asked(t, e), Ends PROVE EditInv'
  <2>1. edit'[e] = [on |-> t, status |-> "PENDING"] /\ \A d \in Edits : d # e => edit'[d] = edit[d]
    BY <1>4, EditNew DEF Asked
  <2>2. row'[e].status = "PENDING" /\ \A d \in Edits : d # e => row'[d].status = row[d].status
    BY <1>1, <1>4 DEF Asked
  <2>3. EditAgrees(e)'
    BY <2>1, <2>2 DEF EditAgrees
  <2>4. \A c \in Calls : call'[c] = call[c] /\ call[c].on = e => EditCall(call[c])'
    BY <1>4 DEF Asked, EditInv, EditCall
  <2> QED
    BY <1>4, <2>1, <2>2, <2>3, <2>4, OneEditMoves
<1>5. ASSUME NEW c \in Calls, NEW e \in Edits, Queued(c, e), Ends PROVE EditInv'
  <2>1. /\ edit[e].on \in Branches /\ edit[e].status \in {"PENDING", "WITHDRAWN"}
        /\ UNCHANGED edit
    BY <1>5 DEF Queued, EditInv, EditCall
  <2>2. row'[e].status = "PENDING" /\ \A d \in Edits : d # e => row'[d].status = row[d].status
    BY <1>1, <1>5 DEF Queued
  <2>3. EditAgrees(e)'
    BY <2>1, <2>2 DEF EditAgrees
  <2>4. ASSUME NEW d \in Calls, call'[d] = call[d], call[d].on = e PROVE EditCall(call[d])'
    <3>1. call[d].op # "queueEdit"
      <4>1. CASE d = c
        BY <1>5, <2>4, <4>1 DEF Queued, Idle
      <4>2. CASE d # c
        BY <1>5, <2>4, <4>2 DEF Queued, EditInv
      <4> QED
        BY <4>1, <4>2
    <3>2. call'[d].op # "queueEdit" /\ call'[d].on = e /\ edit'[e].status # "none"
      BY <2>1, <2>4, <3>1
    <3> QED
      BY <2>2, <3>2 DEF EditCall
  <2> QED
    BY <1>5, <2>1, <2>2, <2>3, <2>4, OneEditMoves
<1>6. ASSUME NEW c \in Calls, NEW e \in Edits, Withdrawn(c, e), Ends PROVE EditInv'
  <2>1. edit'[e] = [on |-> edit[e].on, status |-> "WITHDRAWN"]
        /\ \A d \in Edits : d # e => edit'[d] = edit[d]
    BY <1>6, EditSet DEF Withdrawn, EditStatuses
  <2>2. CASE row[e].status = "PENDING"
    <3>1. row'[e].status = "WITHDRAWN" /\ \A d \in Edits : d # e => row'[d].status = row[d].status
      BY <1>1, <1>6, <2>2 DEF Withdrawn
    <3>2. EditAgrees(e)'
      BY <2>1, <3>1 DEF EditAgrees
    <3>3. ASSUME NEW d \in Calls, call'[d] = call[d], call[d].on = e PROVE EditCall(call[d])'
      <4>1. call[d].op # "queueEdit"
        BY <2>2, <3>3 DEF EditInv, EditCall
      <4> QED
        BY <2>1, <3>1, <3>3, <4>1 DEF EditCall
    <3> QED
      BY <1>6, <2>1, <3>1, <3>2, <3>3, OneEditMoves
  <2>3. CASE row[e].status # "PENDING"
    <3>1. UNCHANGED row
      BY <1>6, <2>3 DEF Withdrawn
    <3>2. EditAgrees(e)'
      BY <2>1, <2>3, <3>1 DEF EditAgrees
    <3>3. ASSUME NEW d \in Calls, call'[d] = call[d], call[d].on = e PROVE EditCall(call[d])'
      BY <2>1, <3>1, <3>3 DEF EditInv, EditCall
    <3> QED
      BY <1>6, <2>1, <3>1, <3>2, <3>3, OneEditMoves
  <2> QED
    BY <2>2, <2>3
<1>7. ASSUME NEW c \in Calls, NEW e \in Edits, NEW s \in {"APPROVED", "REJECTED"},
             Decided(c, e, s), Ends
      PROVE  EditInv'
  <2>1. edit'[e] = [on |-> edit[e].on, status |-> s] /\ \A d \in Edits : d # e => edit'[d] = edit[d]
    BY <1>7, EditSet, ZenonT(40) DEF Decided, EditStatuses
  <2>2. row'[e].status = s /\ \A d \in Edits : d # e => row'[d].status = row[d].status
    BY <1>1, <1>7 DEF Decided
  <2>3. EditAgrees(e)'
    BY <2>1, <2>2 DEF EditAgrees
  <2>4. row[e].status # "none"
    BY <1>7 DEF Decided, EditInv, EditCall
  <2>5. ASSUME NEW d \in Calls, call'[d] = call[d], call[d].on = e PROVE EditCall(call[d])'
    <3>1. call[d].op # "queueEdit"
      BY <2>4, <2>5 DEF EditInv, EditCall
    <3> QED
      BY <2>1, <2>2, <2>5, <3>1 DEF EditCall
  <2> QED
    BY <1>7, <2>1, <2>2, <2>3, <2>5, OneEditMoves
<1> QED
  BY <1>2, <1>3, <1>4, <1>5, <1>6, <1>7, EditEffect

\* So does each step of the others.
LEMMA EditStep == TypeOK /\ EditInv /\ [Next]_vars => EditInv'
<1> SUFFICES ASSUME TypeOK, EditInv, [Next]_vars PROVE EditInv'
  OBVIOUS
<1> DEFINE Same == \A e \in Edits : row'[e].status = row[e].status
<1>0. Edits \subseteq Subjects
  BY DEF Subjects
<1>1. CASE QueueNext /\ UNCHANGED <<rmv, voucher, branch, edit>>
  <2>1. QueueOps \cap EditOps = {}
    BY DEF QueueOps, EditOps
  <2> QED
    BY <1>0, <1>1, <2>1, QueueFrame, EditStays
<1>2. CASE VoucherNext /\ UNCHANGED <<merchant, branch, edit>>
  <2>1. VoucherOps \cap EditOps = {}
    BY DEF VoucherOps, EditOps
  <2>2. Same
    BY <1>0, <1>2, VoucherFrame, SubjectAssumption
  <2> QED
    BY <1>2, <2>1, <2>2, VoucherEffect, EditStays
<1>3. CASE BranchNext /\ UNCHANGED <<merchant, rmv, voucher, edit>>
  <2>1. BranchOps \cap EditOps = {}
    BY DEF BranchOps, CloseOps, EditOps
  <2>2. Same
    BY <1>0, <1>3, BranchFrame, SubjectAssumption
  <2> QED
    BY <1>3, <2>1, <2>2, BranchEffect, EditStays
<1>4. CASE EditNext /\ UNCHANGED <<merchant, rmv, branch>>
  BY <1>4, EditLaneStep
<1>5. CASE OnboardingNext /\ UNCHANGED <<branch, edit>>
  <2>1. MerchantOps \cap EditOps = {}
    BY DEF MerchantOps, EditOps
  <2>2. Same
    BY <1>0, <1>5, OnboardingFrame, SubjectAssumption
  <2> QED
    BY <1>5, <2>1, <2>2, OnboardingEffect, EditStays
<1>6. CASE UNCHANGED vars
  <2>1. UNCHANGED <<row, edit>> /\ Begun({})
    BY <1>6 DEF vars, Begun
  <2> QED
    BY <2>1, EditStays
<1> QED
  BY <1>1, <1>2, <1>3, <1>4, <1>5, <1>6 DEF Next

-----------------------------------------------------------------------------
(* The invariant, and what it is for.                                       *)

\* It holds at first,
LEMMA InvStart == Init => Inv
<1> SUFFICES ASSUME Init PROVE Inv
  OBVIOUS
<1>1. RowsOK /\ \A x \in Subjects : row[x] = [status |-> "none", claimed |-> FALSE]
  BY DEF Init, RowsOK, RowType
<1>2. CallsOK /\ \A c \in Calls : call[c].op = "none"
  BY DEF Init, Idle, CallsOK, CallType, Operations, Subjects
<1>3. MerchantOK /\ VoucherTypeOK /\ BranchTypeOK /\ EditTypeOK
  BY DEF Init, MerchantOK, MerchantType, MerchantStatuses, VoucherTypeOK, Statuses, BranchTypeOK,
     NoRow, EditTypeOK, Targets
<1>4. TypeOK /\ ClaimedIsPending
  BY <1>1, <1>2, <1>3, TypeParts DEF ClaimedIsPending
<1>5. \A e \in Edits : edit[e] = [on |-> Merchant, status |-> "none"]
  BY DEF Init
<1>6. VoucherInv
  <2>1. \A v \in Vouchers : voucher[v].status = "none" /\ row[v].status = "none" /\ ~HasEdit(v)
    BY <1>1, <1>5 DEF Init, Subjects, HasEdit
  <2> QED
    BY <2>1 DEF VoucherInv, Exists
<1>7. BranchInv
  <2>1. \A b \in Branches : branch[b].life = "none" /\ row[b].status = "none"
    BY <1>1 DEF Init, Subjects
  <2>2. \A b \in Branches, n \in Requests : row[<<b, n>>].status = "none"
    BY <1>1 DEF Subjects, Closes
  <2> QED
    BY <1>2, <2>1, <2>2 DEF BranchInv, BranchesAwaitReview, CloseCall
<1>8. EditInv
  <2>1. \A e \in Edits : row[e].status = "none"
    BY <1>1 DEF Subjects
  <2> QED
    BY <1>2, <1>5, <2>1 DEF EditInv, EditLanesAgree, EditCall
<1> QED
  BY <1>4, <1>6, <1>7, <1>8 DEF Inv

\* and for good, for any number of vouchers, branches, edits and overlapping requests
\* (merchant/voucher, merchant/branch, merchant/profile, admin/approvals).
THEOREM InvHolds == Spec => []Inv
<1>1. Inv /\ [Next]_vars => Inv'
  BY TypeStep, ClaimStep, VoucherStep, BranchStep, EditStep DEF Inv
<1> QED
  BY InvStart, <1>1, PTL DEF Spec

\* The types of the variables: whatever is noted of a request ends with it (prisma/schema.prisma).
THEOREM TypeCorrect == Spec => []TypeOK
<1>1. Inv => TypeOK
  BY DEF Inv
<1> QED
  BY InvHolds, <1>1, PTL

\* However many requests overlap, no claim outlasts what it was taken for
\* (admin/approvals/service.ts:454-595, queues/processors/claimStaleSweep.ts:10-11).
THEOREM ClaimedIsPendingHolds == Spec => []ClaimedIsPending
<1>1. Inv => ClaimedIsPending
  BY DEF Inv
<1> QED
  BY InvHolds, <1>1, PTL

\* However decisions, withdrawals, resubmissions and edits of it overlap, a voucher and
\* its row of the queue tell one story (voucherApprover.ts:219-473,
\* merchant/voucher/service.ts:578-690, 1413-1473).
THEOREM VoucherLanesAgreeHolds == Spec => []VoucherLanesAgree
<1>1. Inv => VoucherLanesAgree
  BY DEF Inv, VoucherInv, VoucherLanesAgree, Story
<1> QED
  BY InvHolds, <1>1, PTL

\* A branch that waits for a reviewer is in the queue, and a row that waits for a new
\* branch finds it (merchant/branch/service.ts:399-403, 1690-1706,
\* branchLifecycleApplier.ts:87-395).
THEOREM BranchesAwaitReviewHolds == Spec => []BranchesAwaitReview
<1>1. Inv => BranchesAwaitReview
  BY DEF Inv, BranchInv
<1> QED
  BY InvHolds, <1>1, PTL

\* A staged branch leaves its stage by a decision that its row tells of, or with its end.
StagedUntilDecided ==
  [][\A b \in Branches : branch[b].life = "PENDING_CREATE" =>
       \/ branch'[b].life \in {"PENDING_CREATE", "gone"}
       \/ branch'[b].life = "LIVE" /\ row'[b].status = "APPROVED"]_vars

\* Nothing but an approval makes a staged branch LIVE, and nothing closes one: no update,
\* closure or withdrawal of it, however early it read (merchant/branch/service.ts:1690-1706,
\* branchLifecycleApplier.ts:87-395).
THEOREM StagedUntilDecidedHolds == Spec => StagedUntilDecided
<1> DEFINE Leaves(b) == \/ branch'[b].life \in {"PENDING_CREATE", "gone"}
                        \/ branch'[b].life = "LIVE" /\ row'[b].status = "APPROVED"
<1>1. ASSUME Inv, [Next]_vars, NEW b \in Branches, branch[b].life = "PENDING_CREATE"
      PROVE  Leaves(b)
  <2>1. TypeOK /\ BranchInv /\ ~Placed(b) /\ RowsOK /\ b \in Subjects
    BY <1>1, TypeParts DEF Inv, Placed, Subjects
  <2>2. CASE BranchNext
    <3>1. ASSUME NEW k \in Branches, Added(k) \/ Staged(k) \/ SentBack(k) PROVE Leaves(b)
      BY <1>1, <3>1 DEF Added, Staged, SentBack, Lives, SameLives
    <3>2. ASSUME NEW k \in Branches, Cancelled(k) PROVE Leaves(b)
      BY <1>1, <3>2 DEF Cancelled, Lives
    <3>3. ASSUME NEW k \in Branches, Approved(k) PROVE Leaves(b)
      <4>1. row'[k].status = "APPROVED"
        BY <2>1, <3>3, RowSet DEF Approved, Subjects
      <4> QED
        BY <1>1, <3>3, <4>1 DEF Approved, Lives
    <3>4. ASSUME NEW c \in Calls, NEW k \in Branches, Closing(c, k) \/ KeptOpen(c, k)
          PROVE  Leaves(b)
      <4>1. Placed(k)
        BY <2>1, <3>4 DEF Closing, KeptOpen, BranchInv, CloseCall
      <4> QED
        BY <1>1, <2>1, <3>4, <4>1 DEF Closing, KeptOpen, Lives
    <3>5. ASSUME NEW c \in Calls, NEW x \in Closes, Closed(c, x) PROVE Leaves(b)
      <4>1. Placed(x[1])
        BY <2>1, <3>5 DEF Closed, BranchInv, CloseCall
      <4> QED
        BY <1>1, <2>1, <3>5, <4>1 DEF Closed, Lives
    <3>6. SameLives => Leaves(b)
      BY <1>1 DEF SameLives
    <3> HIDE DEF Leaves
    <3> QED
      BY <2>1, <2>2, <3>1, <3>2, <3>3, <3>4, <3>5, <3>6, BranchEffect
  <2>3. CASE ~BranchNext
    BY <1>1, <2>3 DEF Next, vars
  <2> QED
    BY <2>2, <2>3
<1>2. Inv /\ [Next]_vars =>
        [\A b \in Branches : branch[b].life = "PENDING_CREATE" => Leaves(b)]_vars
  BY <1>1
<1> QED
  BY InvHolds, <1>2, PTL DEF Spec, StagedUntilDecided

\* An edit and its row are decided alike, and, of a merchant or a voucher, wait as long
\* as each other (editApplier.ts:215-460, voucher/service.ts:1475-1523).
THEOREM EditLanesAgreeHolds == Spec => []EditLanesAgree
<1>1. Inv => EditLanesAgree
  BY DEF Inv, EditInv
<1> QED
  BY InvHolds, <1>1, PTL
=============================================================================
