---------------------------- MODULE BranchReview ----------------------------
(***************************************************************************)
(* A merchant's branches (merchant/branch/service.ts) and the review of a     *)
(* branch it adds or wants to close                                         *)
(* (admin/approvals/branchLifecycleApplier.ts).                             *)
(***************************************************************************)
EXTENDS ReviewQueue

VARIABLE branch  \* lifecycleStatus, isMainBranch, isActive, and deletedAt not null

\* No row yet, and the row removed again.
NoRow == {"none", "gone"}

BranchTypeOK ==
  branch \in [Branches ->
    [life : {"PENDING_CREATE", "LIVE", "PENDING_CLOSE", "CLOSED"} \cup NoRow,
     main : BOOLEAN, active : BOOLEAN, deleted : BOOLEAN]]

Rows == {b \in Branches : branch[b].life \notin NoRow}
Kept == {b \in Rows : ~branch[b].deleted}

\* existingCount: a staged branch is not counted.
Reviewed == {b \in Kept : branch[b].life # "PENDING_CREATE"}

\* BRANCH_IS_MAIN and BRANCH_LAST_ACTIVE.
MayGo(b) ==
  /\ ~branch[b].main
  /\ merchant.status = "ACTIVE" => Cardinality({k \in Kept : branch[k].active}) > 1

-----------------------------------------------------------------------------
(* Adding a branch                                                          *)

\* The first is live at once; every other one a merchant adds is staged.  An admin
\* adds branches without the review.
ReadCreateBranch(c, b) ==
  /\ branch[b].life = "none"
  /\ \/ ByMerchant /\ Reviewed # {} /\ Begin(c, "stage", b)
     \/ BeginNoting(c, "instant", b, Reviewed = {})

CreateInstant(c, b) ==
  /\ Commit(c, "instant", b) /\ branch[b].life = "none"
  /\ branch' = [branch EXCEPT ![b] =
       [life |-> "LIVE", main |-> call[c].noted, active |-> TRUE, deleted |-> FALSE]]
  /\ UNCHANGED row

\* Mutant: the approval of a staged branch is made after its transaction, and is lost.
StageWithoutRow(c, b) ==
  /\ Commit(c, "stage", b) /\ branch[b].life = "none"
  /\ branch' = [branch EXCEPT ![b] =
       [life |-> "PENDING_CREATE", main |-> FALSE, active |-> FALSE, deleted |-> FALSE]]
  /\ UNCHANGED row

CreateStaged(c, b) ==
  /\ Commit(c, "stage", b) /\ branch[b].life = "none"
  /\ branch' = [branch EXCEPT ![b] =
       [life |-> "PENDING_CREATE", main |-> FALSE, active |-> FALSE, deleted |-> FALSE]]
  /\ SetRow(b, "PENDING")

ReadCancel(c, b) ==
  /\ ByMerchant /\ b \in Kept /\ branch[b].life = "PENDING_CREATE"
  /\ Begin(c, "cancel", b)

\* A row with changes requested outlives its branch.
CancelPendingCreate(c, b) ==
  /\ Commit(c, "cancel", b) /\ b \in Rows /\ ~HasEdit(b)
  /\ branch' = [branch EXCEPT ![b] =
       [life |-> "gone", main |-> FALSE, active |-> FALSE, deleted |-> FALSE]]
  /\ IF row[b].status = "PENDING" THEN SetRow(b, "deleted") ELSE UNCHANGED row

-----------------------------------------------------------------------------
(* The merchant and a branch it has                                         *)

\* updateBranch reads only that the branch is there.
ReadUpdate(c, b) ==
  /\ b \in Kept
  /\ \/ ByMerchant /\ Begin(c, "setMain", b)
     \/ Begin(c, "activate", b)
     \/ Begin(c, "hide", b)

SetMain(c, b) ==
  /\ Commit(c, "setMain", b) /\ b \in Rows
  /\ branch' = [k \in Branches |-> [branch[k] EXCEPT !.main = (k = b)]]
  /\ UNCHANGED row

\* isActive is one of the DIRECT_FIELDS.
UpdateActive(c, b) ==
  /\ \/ Commit(c, "activate", b) /\ branch' = [branch EXCEPT ![b].active = TRUE]
     \/ Commit(c, "hide", b) /\ branch' = [branch EXCEPT ![b].active = FALSE]
  /\ b \in Rows
  /\ UNCHANGED row

\* An admin can delete too.
ReadDeleteBranch(c, b) ==
  /\ b \in Kept /\ MayGo(b)
  /\ Begin(c, "deleteBranch", b)

\* A row that waits for review is left waiting.
SoftDeleteBranch(c, b) ==
  /\ Commit(c, "deleteBranch", b) /\ b \in Rows
  /\ branch' = [branch EXCEPT ![b].deleted = TRUE, ![b].active = FALSE]
  /\ UNCHANGED row

-----------------------------------------------------------------------------
(* Closing a branch                                                         *)

ReadRequestClose(c, b) ==
  /\ ByMerchant /\ b \in Kept /\ MayGo(b)
  /\ branch[b].life \notin {"PENDING_CREATE", "PENDING_CLOSE"}
  /\ Begin(c, "close", b)

RequestBranchClose(c, b) ==
  /\ Commit(c, "close", b) /\ b \in Rows
  /\ branch' = [branch EXCEPT ![b].life = "PENDING_CLOSE"]
  /\ \E n \in Requests :
       /\ row[<<b, n>>].status = "none"
       /\ \A i \in Requests : i < n => row[<<b, i>>].status # "none"
       /\ SetRow(<<b, n>>, "PENDING")

ReadWithdrawClose(c, b) ==
  /\ ByMerchant /\ b \in Kept /\ branch[b].life = "PENDING_CLOSE"
  /\ Begin(c, "withdrawClose", b)

WithdrawBranchClose(c, b) ==
  /\ Commit(c, "withdrawClose", b) /\ b \in Rows
  /\ branch' = [branch EXCEPT ![b].life = "LIVE"]
  /\ row' = [x \in Subjects |->
       IF x \in {b} \X Requests /\ row[x].status = "PENDING"
       THEN [status |-> "deleted", claimed |-> FALSE] ELSE row[x]]

-----------------------------------------------------------------------------
(* Decisions on a branch.  Only a PENDING row can be decided.               *)

ReadBranchDecision(c) ==
  \/ \E b \in Rows :
       /\ row[b].status = "PENDING"
       /\ Begin(c, "approveCreate", b) \/ Begin(c, "rejectCreate", b)
  \/ \E x \in Closes :
       /\ x[1] \in Rows /\ row[x].status = "PENDING"
       /\ \/ branch[x[1]].life = "PENDING_CLOSE" /\ MayGo(x[1]) /\ Begin(c, "approveClose", x)
          \/ Begin(c, "rejectClose", x)

\* The flip is conditional on PENDING_CREATE; without it nothing is written.  Nobody
\* asks whether the branch was deleted.
ApproveBranchCreate(c, b) ==
  /\ Commit(c, "approveCreate", b)
  /\ IF branch[b].life = "PENDING_CREATE"
     THEN /\ branch' = [branch EXCEPT ![b].life = "LIVE", ![b].active = TRUE]
          /\ SetRow(b, "APPROVED")
     ELSE UNCHANGED <<branch, row>>

\* The branch stays staged.
RejectBranchCreate(c, b) ==
  /\ Commit(c, "rejectCreate", b) /\ row[b].status # "deleted"
  /\ SetRow(b, "CHANGES_REQUESTED")
  /\ UNCHANGED branch

ApproveBranchClose(c, x) ==
  /\ Commit(c, "approveClose", x) /\ x[1] \in Rows /\ row[x].status # "deleted"
  /\ branch' = [branch EXCEPT ![x[1]].life = "CLOSED", ![x[1]].deleted = TRUE,
                              ![x[1]].active = FALSE]
  /\ SetRow(x, "APPROVED")

RejectBranchClose(c, x) ==
  /\ Commit(c, "rejectClose", x) /\ x[1] \in Rows /\ row[x].status # "deleted"
  /\ branch' = [branch EXCEPT ![x[1]].life = "LIVE"]
  /\ SetRow(x, "REJECTED")

BranchReads(c) ==
  \/ \E b \in Branches :
       \/ ReadCreateBranch(c, b) \/ ReadCancel(c, b) \/ ReadUpdate(c, b)
       \/ ReadDeleteBranch(c, b) \/ ReadRequestClose(c, b) \/ ReadWithdrawClose(c, b)
  \/ ReadBranchDecision(c)

BranchWrites(c) ==
  \/ \E b \in Branches :
       \/ CreateInstant(c, b) \/ CreateStaged(c, b) \/ CancelPendingCreate(c, b)
       \/ SetMain(c, b) \/ UpdateActive(c, b) \/ SoftDeleteBranch(c, b)
       \/ RequestBranchClose(c, b) \/ WithdrawBranchClose(c, b)
       \/ ApproveBranchCreate(c, b) \/ RejectBranchCreate(c, b)
  \/ \E x \in Closes : ApproveBranchClose(c, x) \/ RejectBranchClose(c, x)

BranchNext ==
  \E c \in Calls : (BranchReads(c) /\ UNCHANGED <<branch, row>>) \/ BranchWrites(c)

-----------------------------------------------------------------------------
\* However requests, withdrawals, deletions and decisions overlap, a branch that waits
\* for a reviewer is in the queue: a staged branch has its row, waiting or sent back, a
\* branch to be closed has a request that waits, and a row that waits for a new branch
\* finds it staged (service.ts:399-403, 1690-1706, branchLifecycleApplier.ts:87-395).
BranchesAwaitReview ==
  \A b \in Branches :
    /\ branch[b].life = "PENDING_CREATE" => Actionable(b)
    /\ branch[b].life = "PENDING_CLOSE" => \E n \in Requests : row[<<b, n>>].status = "PENDING"
    /\ row[b].status = "PENDING" => branch[b].life = "PENDING_CREATE"

\* A branch that has been deleted is not active, which is what keeps it from customers
\* (prisma/schema.prisma:577-581, service.ts:1613-1616).
DeletedIsHidden == \A b \in Branches : branch[b].deleted => ~branch[b].active
=============================================================================
