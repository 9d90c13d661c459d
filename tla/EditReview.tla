----------------------------- MODULE EditReview -----------------------------
(***************************************************************************)
(* Edits of what is live, which wait for review (MerchantPendingEdit,         *)
(* BranchPendingEdit, VoucherPendingEdit): asked for and withdrawn by the     *)
(* merchant (profile, branch and voucher/service.ts), decided and applied by  *)
(* admins (admin/approvals/editApplier.ts).  The values an edit proposes are  *)
(* left out: of what it applies, only the end of a voucher shows.             *)
(***************************************************************************)
EXTENDS VoucherReview, BranchReview

\* The end of a custom voucher, the change of a flagship, the identity of the merchant,
\* the identity or the photos of a branch.
Targets == Vouchers \cup Rmvs \cup {Merchant} \cup Branches

EditTypeOK ==
  edit \in [Edits ->
    [on : Targets, status : {"none", "PENDING", "WITHDRAWN", "APPROVED", "REJECTED"}]]

SetEdit(e, s) == edit' = [edit EXCEPT ![e].status = s]

\* A voucher must be live to be changed or ended.
Editable(t) ==
  /\ t \in Vouchers => voucher[t].status = "ACTIVE"
  /\ t \in Rmvs => rmv[t] = "ACTIVE"

-----------------------------------------------------------------------------
(* The merchant                                                             *)

\* PENDING_EDIT_EXISTS is decided here.  An admin, too, may ask to edit the merchant,
\* and one that is suspended.
ReadEditRequest(c, t) ==
  /\ t = Merchant \/ ByMerchant
  /\ Editable(t)
  /\ t \in Branches => t \in Kept
  /\ ~\E e \in Edits : edit[e] = [on |-> t, status |-> "PENDING"]
  /\ Begin(c, "requestEdit", t)

\* The id of an edit that is not there yet.
NewEdit(t, e) ==
  /\ edit[e].status = "none" /\ e = CHOOSE x \in Edits : edit[x].status = "none"
  /\ edit' = [edit EXCEPT ![e] = [on |-> t, status |-> "PENDING"]]

\* The edit and its row together.
RequestEdit(c, t) ==
  /\ Commit(c, "requestEdit", t) /\ t \notin Branches
  /\ t \in Vouchers => Exists(t)
  /\ \E e \in Edits : NewEdit(t, e) /\ SetRow(e, "PENDING")

\* A branch's edit is stored first, and its row is a write of its own.
RequestBranchEdit(c, b) ==
  /\ call[c].op = "requestEdit" /\ call[c].on = b /\ b \in Rows
  /\ \E e \in Edits :
       /\ NewEdit(b, e)
       /\ call' = [call EXCEPT ![c].op = "queueEdit", ![c].on = e]
  /\ UNCHANGED row

QueueBranchEdit(c, e) ==
  /\ Commit(c, "queueEdit", e)
  /\ SetRow(e, "PENDING")
  /\ UNCHANGED edit

ReadWithdrawEdit(c, e) ==
  /\ ByMerchant /\ edit[e].status = "PENDING"
  /\ edit[e].on \in Branches => edit[e].on \in Kept
  /\ Begin(c, "withdrawEdit", e)

\* Mutant: the withdrawal of an edit leaves its row in the queue.
WithdrawLeavesRow(c, e) ==
  /\ Commit(c, "withdrawEdit", e)
  /\ SetEdit(e, "WITHDRAWN")
  /\ UNCHANGED row

\* Whatever the edit has become meanwhile; of its row, only one that waits.
WithdrawEdit(c, e) ==
  /\ Commit(c, "withdrawEdit", e)
  /\ SetEdit(e, "WITHDRAWN")
  /\ IF row[e].status = "PENDING" THEN SetRow(e, "WITHDRAWN") ELSE UNCHANGED row

-----------------------------------------------------------------------------
(* Decisions                                                                *)

ReadEditDecision(c, e) ==
  /\ row[e].status = "PENDING" /\ edit[e].status = "PENDING"
  /\ \/ Editable(edit[e].on) /\ Begin(c, "approveEdit", e)
     \/ Begin(c, "rejectEdit", e)

ApproveEdit(c, e) ==
  /\ Commit(c, "approveEdit", e)
  /\ SetEdit(e, "APPROVED") /\ SetRow(e, "APPROVED")
  /\ voucher' = [v \in Vouchers |->
       IF v = edit[e].on THEN [voucher[v] EXCEPT !.status = "INACTIVE"] ELSE voucher[v]]

RejectEdit(c, e) ==
  /\ Commit(c, "rejectEdit", e)
  /\ SetEdit(e, "REJECTED") /\ SetRow(e, "REJECTED")

EditReads(c) ==
  \/ \E t \in Targets : ReadEditRequest(c, t)
  \/ \E e \in Edits : ReadWithdrawEdit(c, e) \/ ReadEditDecision(c, e)

EditWrites(c) ==
  \/ \E t \in Targets : RequestEdit(c, t)
  \/ \E b \in Branches : RequestBranchEdit(c, b)
  \/ \E e \in Edits : QueueBranchEdit(c, e) \/ WithdrawEdit(c, e) \/ RejectEdit(c, e)

EditNext ==
  \E c \in Calls :
    \/ EditReads(c) /\ UNCHANGED <<row, edit, voucher>>
    \/ EditWrites(c) /\ UNCHANGED voucher
    \/ \E e \in Edits : ApproveEdit(c, e)

-----------------------------------------------------------------------------
\* However requests, withdrawals and decisions overlap, an edit that is decided has the
\* same decision in the queue, and, of a merchant or a voucher, it waits in the queue
\* exactly as long as it is open (editApplier.ts:215-460, voucher/service.ts:1475-1523,
\* profile/service.ts:657-698).
EditLanesAgree ==
  \A e \in Edits :
    /\ edit[e].status \in {"APPROVED", "REJECTED"} => row[e].status = edit[e].status
    /\ edit[e].on \notin Branches =>
         (row[e].status = "PENDING" <=> edit[e].status = "PENDING")
=============================================================================
