--------------------------- MODULE VoucherReview ---------------------------
(***************************************************************************)
(* A merchant's vouchers and their review: custom vouchers                   *)
(* (merchant/voucher/service.ts, admin/approvals/voucherApprover.ts), each    *)
(* with its row of the queue, and the flagship vouchers (RMVs), which are     *)
(* reviewed with the merchant.                                              *)
(***************************************************************************)
EXTENDS ReviewQueue

CONSTANTS
  Rmvs,          \* the flagships, those the merchant may still create included
  FlagshipCount  \* the flagships a merchant needs, which is also FLAGSHIP_RMV_CAP

ASSUME VoucherAssumption == IsFiniteSet(Rmvs) /\ FlagshipCount \in Nat \ {0}

VARIABLES
  rmv,     \* the status of each flagship
  voucher  \* status and approvalStatus of each custom voucher

Statuses == {"none", "DRAFT", "PENDING_APPROVAL", "ACTIVE", "INACTIVE"}

VoucherTypeOK ==
  /\ rmv \in [Rmvs -> Statuses]
  /\ voucher \in [Vouchers ->
       [status : Statuses \cup {"deleted"},
        approval : {"PENDING", "CHANGES_REQUESTED", "APPROVED", "REJECTED"}]]

Exists(v) == voucher[v].status \notin {"none", "deleted"}

SetVoucher(v, s, a) == voucher' = [voucher EXCEPT ![v] = [status |-> s, approval |-> a]]

-----------------------------------------------------------------------------
(* The merchant and its custom vouchers                                     *)

CreateVoucher(v) ==
  /\ ByMerchant /\ voucher[v].status = "none"
  /\ SetVoucher(v, "DRAFT", "PENDING")
  /\ UNCHANGED <<rmv, row, call>>

ReadSubmit(c, v) ==
  /\ ByMerchant /\ voucher[v].status = "DRAFT"
  /\ Begin(c, "submit", v)

\* Mutant: a voucher sent back for changes keeps its approvalStatus.
ResubmitKeepsApproval(c, v) ==
  /\ Commit(c, "submit", v) /\ Exists(v)
  /\ SetVoucher(v, "PENDING_APPROVAL", voucher[v].approval) /\ SetRow(v, "PENDING")
  /\ UNCHANGED rmv

\* The same row is opened again.
SubmitVoucher(c, v) ==
  /\ Commit(c, "submit", v) /\ Exists(v)
  /\ SetVoucher(v, "PENDING_APPROVAL", "PENDING") /\ SetRow(v, "PENDING")
  /\ UNCHANGED rmv

ReadDelete(c, v) ==
  /\ ByMerchant /\ voucher[v].status = "DRAFT"
  /\ Begin(c, "delete", v)

\* Its row of the queue stays.
DeleteVoucher(c, v) ==
  /\ Commit(c, "delete", v) /\ Exists(v) /\ ~HasEdit(v)
  /\ voucher' = [voucher EXCEPT ![v].status = "deleted"]
  /\ UNCHANGED <<rmv, row>>

ReadWithdraw(c, v) ==
  /\ ByMerchant
  /\ voucher[v].status = "PENDING_APPROVAL" /\ voucher[v].approval # "APPROVED"
  /\ Begin(c, "withdraw", v)

\* The transaction opens with a read of the row.
ReadWithdrawRow(c, v) ==
  /\ call[c].op = "withdraw" /\ call[c].on = v /\ Actionable(v)
  /\ call' = [call EXCEPT ![c].op = "withdrawRow"]

\* Mutant: a claimed row stays claimed when its submission is withdrawn.
WithdrawKeepsClaim(c, v) ==
  /\ Commit(c, "withdrawRow", v) /\ Exists(v)
  /\ voucher' = [voucher EXCEPT ![v].status = "DRAFT"]
  /\ row' = [row EXCEPT ![v].status = "WITHDRAWN"]
  /\ UNCHANGED rmv

\* approvalStatus stays as it is.
WithdrawVoucherSubmission(c, v) ==
  /\ Commit(c, "withdrawRow", v) /\ Exists(v)
  /\ voucher' = [voucher EXCEPT ![v].status = "DRAFT"]
  /\ SetRow(v, "WITHDRAWN")
  /\ UNCHANGED rmv

-----------------------------------------------------------------------------
(* The merchant, or an admin for it, and its flagships                       *)

Standing == {r \in Rmvs : rmv[r] \in {"PENDING_APPROVAL", "ACTIVE"}}
Occupied == Standing \cup {r \in Rmvs : rmv[r] = "DRAFT"}

ReadCreateFlagship(c, r) ==
  /\ ByMerchant /\ rmv[r] = "none" /\ Cardinality(Occupied) < FlagshipCount
  /\ Begin(c, "create", r)

CreateFlagshipRmvVoucher(c, r) ==
  /\ Commit(c, "create", r) /\ rmv[r] = "none"
  /\ rmv' = [rmv EXCEPT ![r] = "DRAFT"]
  /\ UNCHANGED <<voucher, row>>

ReadSubmitRmv(c, r) ==
  /\ rmv[r] = "DRAFT"
  /\ Begin(c, "submitRmv", r)

SubmitRmvVoucher(c, r) ==
  /\ Commit(c, "submitRmv", r)
  /\ rmv' = [rmv EXCEPT ![r] = "PENDING_APPROVAL"]
  /\ UNCHANGED <<voucher, row>>

ReadCategoryChange(c) ==
  /\ Standing = {}
  /\ Begin(c, "category", Merchant)

\* Drafts are discarded, and as many as the merchant needs are made anew.
HandleCategoryChange(c) ==
  /\ Commit(c, "category", Merchant)
  /\ \E new \in SUBSET {r \in Rmvs : rmv[r] = "none"} :
       /\ Cardinality(new) = FlagshipCount
       /\ rmv' = [r \in Rmvs |-> IF r \in new THEN "DRAFT"
                                 ELSE IF rmv[r] = "DRAFT" THEN "INACTIVE" ELSE rmv[r]]
  /\ UNCHANGED <<voucher, row>>

-----------------------------------------------------------------------------
(* Decisions on a custom voucher                                            *)

Submitted(v) == Actionable(v) /\ voucher[v].status = "PENDING_APPROVAL"

\* isFlagshipLive: no flagship of the merchant is in another status.
FlagshipLive == \A r \in Rmvs : rmv[r] \in {"none", "ACTIVE"}

ReadDecision(c, v) ==
  /\ Submitted(v)
  /\ \/ BeginNoting(c, "approve", v, merchant.status = "ACTIVE" /\ FlagshipLive)
     \/ Begin(c, "reject", v)
     \/ Begin(c, "requestChanges", v)

\* Without goLive the status is left as it is by then.
ApproveVoucher(c, v) ==
  /\ Commit(c, "approve", v) /\ Exists(v)
  /\ SetVoucher(v, IF call[c].noted THEN "ACTIVE" ELSE voucher[v].status, "APPROVED")
  /\ SetRow(v, "APPROVED")
  /\ UNCHANGED rmv

RejectVoucher(c, v) ==
  /\ Commit(c, "reject", v) /\ Exists(v)
  /\ SetVoucher(v, "INACTIVE", "REJECTED") /\ SetRow(v, "REJECTED")
  /\ UNCHANGED rmv

RequestVoucherChanges(c, v) ==
  /\ Commit(c, "requestChanges", v) /\ Exists(v)
  /\ SetVoucher(v, "DRAFT", "CHANGES_REQUESTED") /\ SetRow(v, "CHANGES_REQUESTED")
  /\ UNCHANGED rmv

VoucherReads(c) ==
  \/ \E v \in Vouchers :
       \/ ReadSubmit(c, v) \/ ReadDelete(c, v) \/ ReadWithdraw(c, v) \/ ReadWithdrawRow(c, v)
       \/ ReadDecision(c, v)
  \/ \E r \in Rmvs : ReadCreateFlagship(c, r) \/ ReadSubmitRmv(c, r)
  \/ ReadCategoryChange(c)

VoucherWrites(c) ==
  \/ \E v \in Vouchers :
       \/ SubmitVoucher(c, v) \/ DeleteVoucher(c, v) \/ WithdrawVoucherSubmission(c, v)
       \/ ApproveVoucher(c, v) \/ RejectVoucher(c, v) \/ RequestVoucherChanges(c, v)
  \/ \E r \in Rmvs : CreateFlagshipRmvVoucher(c, r) \/ SubmitRmvVoucher(c, r)
  \/ HandleCategoryChange(c)

VoucherNext ==
  \/ \E v \in Vouchers : CreateVoucher(v)
  \/ \E c \in Calls : (VoucherReads(c) /\ UNCHANGED <<rmv, voucher, row>>) \/ VoucherWrites(c)

-----------------------------------------------------------------------------
\* However decisions, withdrawals and resubmissions overlap, a voucher and its row of
\* the queue tell one story: a voucher that is submitted and undecided has a row that
\* waits for a reviewer; such a row is of such a voucher, or of one that an edit, asked
\* for while it was live, has ended since; and a voucher is live only with its approval
\* on both (voucherApprover.ts:219-473, merchant/voucher/service.ts:578-690, 1413-1473).
VoucherLanesAgree ==
  \A v \in Vouchers : Exists(v) =>
    /\ row[v].status = "PENDING" =>
         voucher[v].approval = "PENDING" /\ voucher[v].status \in {"PENDING_APPROVAL", "INACTIVE"}
    /\ voucher[v] = [status |-> "PENDING_APPROVAL", approval |-> "PENDING"] =>
         row[v].status = "PENDING"
    /\ voucher[v].status = "ACTIVE" =>
         voucher[v].approval = "APPROVED" /\ row[v].status = "APPROVED"
=============================================================================
