------------------------------ MODULE MCRenewal ------------------------------
(* One user, one cycle voucher, three requests, two renewals.               *)
EXTENDS Renewal

CONSTANTS r1, r2, r3, c1, c2, c3, v1, b1, u1

TwoInstantCycles == [u \in Users |-> [t \in Instants |-> (t \div 2) * 2]]
NoWindows == [v \in Vouchers |-> {}]
CooldownOne == [v \in Vouchers |-> 1]
AllBranches == [v \in Vouchers |-> Branches]
AllCycle == [v \in Vouchers |-> "CYCLE"]
OwnCode == [r \in Requests |-> CASE r = r1 -> c1 [] r = r2 -> c2 [] OTHER -> c3]
=============================================================================
