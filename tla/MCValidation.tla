---------------------------- MODULE MCValidation ----------------------------
(* Two requests of one user for one voucher, before and after a cycle       *)
(* rollover, two members of staff and one or two suspensions.               *)
EXTENDS Validation, TLC

CONSTANTS r1, r2, c1, c2, v1, b1, b2, u1, s1, s2, a1, a2

TwoInstantCycles == [u \in Users |-> [t \in Instants |-> (t \div 2) * 2]]
OneInstantCycles == [u \in Users |-> [t \in Instants |-> t]]
NoWindows == [v \in Vouchers |-> {}]
CooldownOne == [v \in Vouchers |-> 1]
AllBranches == [v \in Vouchers |-> Branches]
AllCycle == [v \in Vouchers |-> "CYCLE"]
OwnCode == [r \in Requests |-> IF r = r1 THEN c1 ELSE c2]
SecondStaffAtB1 == [s \in Staff |-> IF s = s1 THEN Branches ELSE {b1}]
\* No two suspensions are told apart, and all three properties are safety properties.
AdminsAlike == Permutations(Admins)
=============================================================================
