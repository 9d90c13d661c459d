----------------------------- MODULE Onboarding -----------------------------
(***************************************************************************)
(* A merchant with its vouchers and its branches, and the review that takes   *)
(* it live (merchant/onboarding/service.ts, admin/approvals/service.ts).      *)
(***************************************************************************)
EXTENDS EditReview

vars == <<merchant, row, edit, call, rmv, voucher, branch>>

\* The branch and flagship gates of the checklist; admin approval counts deleted
\* branches too.
ChecklistComplete(branches) == branches # {} /\ Cardinality(Standing) >= FlagshipCount

-----------------------------------------------------------------------------
ReadSubmitMerchant(c) ==
  /\ \/ merchant.status = "REGISTERED"
     \/ merchant.status = "PENDING_APPROVAL" /\ merchant.needsChanges
  /\ ChecklistComplete(Kept)
  /\ Begin(c, "submit", Merchant)

SubmitForApproval(c) ==
  /\ Commit(c, "submit", Merchant)
  /\ SetMerchant("PENDING_APPROVAL")
  /\ SetRow(Merchant, "PENDING")

ReadMerchantDecision(c) ==
  /\ Actionable(Merchant) /\ merchant.status # "ACTIVE"
  /\ \/ /\ ChecklistComplete(Rows)
        /\ \E b \in Rows : branch[b].main /\ branch[b].active
        /\ Begin(c, "approve", Merchant)
     \/ Begin(c, "reject", Merchant)
     \/ Begin(c, "requestChanges", Merchant)

\* Won once.  The flagships go live with the merchant, and so do the custom vouchers
\* that were approved and waited for it.
ApproveMerchant(c) ==
  /\ Commit(c, "approve", Merchant)
  /\ IF merchant.status = "ACTIVE"
     THEN UNCHANGED <<merchant, row, rmv, voucher>>
     ELSE /\ SetMerchant("ACTIVE") /\ SetRow(Merchant, "APPROVED")
          /\ rmv' = [r \in Rmvs |-> IF r \in Standing THEN "ACTIVE" ELSE rmv[r]]
          /\ voucher' = [v \in Vouchers |->
               IF voucher[v] = [status |-> "PENDING_APPROVAL", approval |-> "APPROVED"]
               THEN [voucher[v] EXCEPT !.status = "ACTIVE"] ELSE voucher[v]]

RejectMerchant(c) ==
  /\ Commit(c, "reject", Merchant)
  /\ SetMerchant("INACTIVE")
  /\ SetRow(Merchant, "REJECTED")

\* The status stays.
RequestMerchantChanges(c) ==
  /\ Commit(c, "requestChanges", Merchant)
  /\ merchant' = [merchant EXCEPT !.needsChanges = TRUE]
  /\ SetRow(Merchant, "CHANGES_REQUESTED")

OnboardingNext ==
  \E c \in Calls :
    \/ /\ ReadSubmitMerchant(c) \/ ReadMerchantDecision(c)
       /\ UNCHANGED <<merchant, row, rmv, voucher>>
    \/ SubmitForApproval(c) /\ UNCHANGED <<rmv, voucher>>
    \/ ApproveMerchant(c)
    \/ (RejectMerchant(c) \/ RequestMerchantChanges(c)) /\ UNCHANGED <<rmv, voucher>>

Init ==
  /\ merchant = [status |-> "REGISTERED", needsChanges |-> FALSE]
  /\ row = [x \in Subjects |-> [status |-> "none", claimed |-> FALSE]]
  /\ edit = [e \in Edits |-> [on |-> Merchant, status |-> "none"]]
  /\ call = [c \in Calls |-> Idle]
  /\ rmv = [r \in Rmvs |-> "none"]
  /\ voucher = [v \in Vouchers |-> [status |-> "none", approval |-> "PENDING"]]
  /\ branch = [b \in Branches |->
       [life |-> "none", main |-> FALSE, active |-> FALSE, deleted |-> FALSE]]

Next ==
  \/ QueueNext /\ UNCHANGED <<rmv, voucher, branch, edit>>
  \/ VoucherNext /\ UNCHANGED <<merchant, branch, edit>>
  \/ BranchNext /\ UNCHANGED <<merchant, rmv, voucher, edit>>
  \/ EditNext /\ UNCHANGED <<merchant, rmv, branch>>
  \/ OnboardingNext /\ UNCHANGED <<branch, edit>>

Spec == Init /\ [][Next]_vars

-----------------------------------------------------------------------------
Operations ==
  {"none", "release", "suspend", "reactivate", "deactivate", "selfReactivate", "submit",
   "delete", "withdraw", "withdrawRow", "create", "submitRmv", "category", "approve",
   "reject", "requestChanges", "stage", "instant", "cancel", "setMain", "activate", "hide",
   "deleteBranch", "close", "withdrawClose", "approveCreate", "rejectCreate",
   "approveClose", "rejectClose", "requestEdit", "queueEdit", "withdrawEdit", "approveEdit",
   "rejectEdit"}

\* The types of the variables, the statuses those of the schema's enums: what a request
\* has noted it keeps for the operations that note something (prisma/schema.prisma).
TypeOK ==
  /\ QueueTypeOK /\ VoucherTypeOK /\ BranchTypeOK /\ EditTypeOK
  /\ call \in [Calls -> [op : Operations, on : Subjects \cup Rmvs, noted : BOOLEAN]]

\* A row that an admin holds waits for a decision: no decision, withdrawal or
\* resubmission that overlaps another leaves a claim on a row that needs no one
\* (queues/processors/claimStaleSweep.ts:10-11, admin/approvals/service.ts:454-595).
ClaimedIsPending == \A x \in Subjects : row[x].claimed => row[x].status = "PENDING"
=============================================================================
