---------------------------- MODULE ReviewQueue ----------------------------
(***************************************************************************)
(* The review queue (AdminApproval, admin/approvals/service.ts) and the       *)
(* status of the merchant whose submissions are in it.                       *)
(*                                                                         *)
(* Every handler reads, checks what it read, and then writes in one           *)
(* transaction without looking again, and two of them overlap freely.  The    *)
(* writes of a transaction take effect together.                             *)
(***************************************************************************)
EXTENDS Naturals, FiniteSets

CONSTANTS
  Merchant,
  Vouchers,  \* its custom vouchers
  Branches,
  Requests,  \* numbers of the requests to close a branch
  Edits,     \* the edits that can be asked for
  Calls      \* requests of merchants and admins that can be under way at once

VARIABLES
  merchant,  \* its status, and whether its onboardingStep is NEEDS_CHANGES
  row,       \* the AdminApproval of each subject: status, and claimedById not null
  edit,      \* what each edit would change, and its status
  call       \* what each request under way has read and is about to write

Closes == Branches \X Requests

\* A voucher, the merchant, a new branch, a request to close one, or an edit.
Subjects == Vouchers \cup {Merchant} \cup Branches \cup Closes \cup Edits

\* entityType: rows of different tables are different subjects.
ASSUME SubjectAssumption ==
  /\ Merchant \notin Vouchers \cup Branches \cup Closes \cup Edits
  /\ Vouchers \cap (Branches \cup Closes \cup Edits) = {}
  /\ Branches \cap (Closes \cup Edits) = {}
  /\ Closes \cap Edits = {}

\* "noted": goLive of approveVoucher, isMainBranch of createBranchCore.
Idle == [op |-> "none", on |-> Merchant, noted |-> FALSE]

QueueTypeOK ==
  /\ merchant \in [status : {"REGISTERED", "PENDING_APPROVAL", "ACTIVE", "SUSPENDED", "INACTIVE"},
                   needsChanges : BOOLEAN]
  /\ row \in [Subjects -> [status : {"none", "PENDING", "CHANGES_REQUESTED", "APPROVED", "REJECTED",
                                     "WITHDRAWN", "deleted"},
                           claimed : BOOLEAN]]
  /\ \A c \in Calls : call[c].noted => call[c].op \in {"approve", "instant"}

-----------------------------------------------------------------------------
\* A request has read what it needs and its checks have passed.
BeginNoting(c, op, x, noted) ==
  /\ call[c] = Idle
  /\ call' = [call EXCEPT ![c] = [op |-> op, on |-> x, noted |-> noted]]

Begin(c, op, x) == BeginNoting(c, op, x, FALSE)

\* Mutant: what was noted for one request is still noted for the next.
CommitKeepsNote(c, op, x) ==
  /\ call[c].op = op /\ call[c].on = x
  /\ call' = [call EXCEPT ![c].op = "none", ![c].on = Merchant]

\* Its transaction commits.
Commit(c, op, x) ==
  /\ call[c].op = op /\ call[c].on = x
  /\ call' = [call EXCEPT ![c] = Idle]

\* The transaction fails, the process dies, or an update finds no row.
Abort(c) ==
  /\ call[c] # Idle
  /\ call' = [call EXCEPT ![c] = Idle]

\* resolveAdminMerchant, resolveMerchantContext: a suspended merchant can do nothing.
ByMerchant == merchant.status # "SUSPENDED"

\* Every write of a row's status clears its claim.
SetRow(x, s) == row' = [row EXCEPT ![x] = [status |-> s, claimed |-> FALSE]]

SetMerchant(s) == merchant' = [status |-> s, needsChanges |-> FALSE]

Actionable(x) == row[x].status \in {"PENDING", "CHANGES_REQUESTED"}

\* An edit refers to it, whatever became of that: a foreign key that restricts deletion.
HasEdit(x) == \E e \in Edits : edit[e].status # "none" /\ edit[e].on = x

-----------------------------------------------------------------------------
(* Claims                                                                   *)

\* onboardingStep becomes UNDER_REVIEW, or SUBMITTED again.
MoveStep(x) ==
  merchant' = IF x = Merchant THEN [merchant EXCEPT !.needsChanges = FALSE] ELSE merchant

\* One conditional update.
ClaimApproval(x) ==
  /\ row[x] = [status |-> "PENDING", claimed |-> FALSE]
  /\ row' = [row EXCEPT ![x].claimed = TRUE]
  /\ MoveStep(x)
  /\ UNCHANGED call

ReadRelease(c, x) ==
  /\ row[x].claimed
  /\ Begin(c, "release", x)
  /\ UNCHANGED <<merchant, row>>

ReleaseApproval(c, x) ==
  /\ Commit(c, "release", x) /\ row[x].status # "deleted"
  /\ row' = [row EXCEPT ![x].claimed = FALSE]
  /\ MoveStep(x)

-----------------------------------------------------------------------------
(* Suspension by an admin, deactivation by the merchant                      *)

ReadStatus(c) ==
  /\ \/ merchant.status # "SUSPENDED" /\ Begin(c, "suspend", Merchant)
     \/ merchant.status = "SUSPENDED" /\ Begin(c, "reactivate", Merchant)
     \/ merchant.status # "SUSPENDED" /\ Begin(c, "deactivate", Merchant)
     \/ merchant.status = "INACTIVE" /\ Begin(c, "selfReactivate", Merchant)
  /\ UNCHANGED <<merchant, row>>

SuspendMerchant(c) ==
  /\ Commit(c, "suspend", Merchant)
  /\ SetMerchant("SUSPENDED")
  /\ UNCHANGED row

ReactivateMerchant(c) ==
  /\ Commit(c, "reactivate", Merchant)
  /\ SetMerchant("ACTIVE")
  /\ UNCHANGED row

\* The merchant's own routes leave onboardingStep as it is.
Deactivate(c) ==
  /\ Commit(c, "deactivate", Merchant)
  /\ merchant' = [merchant EXCEPT !.status = "INACTIVE"]
  /\ UNCHANGED row

SelfReactivate(c) ==
  /\ Commit(c, "selfReactivate", Merchant)
  /\ merchant' = [merchant EXCEPT !.status = "ACTIVE"]
  /\ UNCHANGED row

QueueNext ==
  \/ \E x \in Subjects : ClaimApproval(x)
  \/ \E c \in Calls :
       \/ \E x \in Subjects : ReadRelease(c, x) \/ ReleaseApproval(c, x)
       \/ ReadStatus(c) \/ SuspendMerchant(c) \/ ReactivateMerchant(c)
       \/ Deactivate(c) \/ SelfReactivate(c)
       \/ Abort(c) /\ UNCHANGED <<merchant, row>>
=============================================================================
