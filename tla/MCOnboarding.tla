---------------------------- MODULE MCOnboarding ----------------------------
EXTENDS Onboarding, TLC

Only(b, one) ==
  [k \in Branches |->
     IF k = b THEN one ELSE [life |-> "gone", main |-> FALSE, active |-> FALSE, deleted |-> FALSE]]

Live(isMain) == [life |-> "LIVE", main |-> isMain, active |-> TRUE, deleted |-> FALSE]

\* The custom voucher deleted, the flagships discarded by a change of category.
NoVouchers ==
  /\ voucher = [v \in Vouchers |-> [status |-> "deleted", approval |-> "PENDING"]]
  /\ rmv = [r \in Rmvs |-> "INACTIVE"]

Row(s) == [status |-> s, claimed |-> FALSE]

\* Four merchants, so that vouchers, branches and edits are not multiplied: one with a
\* main branch and all its vouchers to come; one, before or after it was live, with all
\* its branches to come; one whose staged main branch was cancelled, left with a branch
\* that is not the main one; and one that is live, with a draft, a flagship, a main
\* branch and a staged one, sent back, to edit.
MCInit ==
  /\ edit = [e \in Edits |-> [on |-> Merchant, status |-> "none"]]
  /\ call = [c \in Calls |-> Idle]
  /\ merchant \in [status : {"REGISTERED", "ACTIVE"}, needsChanges : {FALSE}]
  /\ \/ /\ merchant.status = "REGISTERED"
        /\ row = [x \in Subjects |-> Row("none")]
        /\ rmv = [r \in Rmvs |-> "none"]
        /\ voucher = [v \in Vouchers |-> [status |-> "none", approval |-> "PENDING"]]
        /\ \E b \in Branches : branch = Only(b, Live(TRUE))
     \/ /\ NoVouchers
        /\ row = [x \in Subjects |-> Row("none")]
        /\ branch = [b \in Branches |->
             [life |-> "none", main |-> FALSE, active |-> FALSE, deleted |-> FALSE]]
     \/ /\ merchant.status = "REGISTERED" /\ NoVouchers
        /\ row = [x \in Subjects |-> Row("none")]
        /\ \E b \in Branches : branch = Only(b, Live(FALSE))
     \/ /\ merchant.status = "ACTIVE"
        /\ voucher = [v \in Vouchers |-> [status |-> "DRAFT", approval |-> "PENDING"]]
        /\ \E r \in Rmvs : rmv = [k \in Rmvs |-> IF k = r THEN "ACTIVE" ELSE "none"]
        /\ \E b \in Branches :
             /\ branch = [k \in Branches |-> IF k = b THEN Live(TRUE) ELSE
                  [life |-> "PENDING_CREATE", main |-> FALSE, active |-> FALSE, deleted |-> FALSE]]
             /\ row = [x \in Subjects |->
                  IF x = Merchant THEN Row("APPROVED")
                  ELSE IF x \in Branches \ {b} THEN Row("CHANGES_REQUESTED") ELSE Row("none")]

MCSpec == MCInit /\ [][Next]_vars

\* The operations that each merchant leaves out.
OfBranches == {"setMain", "activate", "hide"}
OfStatus == {"suspend", "reactivate", "deactivate", "selfReactivate"}
OfEdits == {"requestEdit", "queueEdit", "withdrawEdit", "approveEdit", "rejectEdit"}

\* The bounds: the first merchant leaves its branch as it is, the next two keep their
\* status, only the third asks for a second closure, and only the fourth edits, one
\* thing or another, which otherwise has its draft approved and its staged branch cancelled.
Bounds ==
  /\ \A c \in Calls :
       IF NoVouchers THEN call[c].op \notin OfStatus \cup OfEdits
       ELSE IF \A b \in Branches : row[b].status = "none" THEN call[c].op \notin OfBranches \cup OfEdits
       ELSE call[c].op \in {"none", "release", "submit", "approve", "cancel"} \cup OfEdits
  /\ \A b, k \in Branches :
       b # k /\ row[<<b, 2>>].status # "none" => branch[k].life = "gone" /\ row[k].status = "none"
  /\ \A d, e \in Edits : "none" \notin {edit[d].status, edit[e].status} => edit[d].on = edit[e].on

Symmetry == Permutations(Branches) \cup Permutations(Rmvs) \cup Permutations(Calls)
=============================================================================
