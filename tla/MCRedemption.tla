---------------------------- MODULE MCRedemption ----------------------------
(* Small instances of Redemption for TLC.                                  *)
EXTENDS Redemption, TLC

CONSTANTS r1, r2, r3, c1, c2, v1, v2, v3, b1, u1, u2

\* Cycles of two instants: [0, 2), [2, 4), ...
TwoInstantCycles == [u \in Users |-> [t \in Instants |-> (t \div 2) * 2]]
\* The night in October on which the clocks go back, by the hour from midnight: a
\* window that is open before, one that is open in the hour that comes twice, and one
\* after it.  The end computed for the second and both ends of the third are an hour early.
Hour(open, start) == [open |-> open, startsAt |-> start, endsAt |-> start + 1]
OctoberNight == [v \in Vouchers |-> {Hour({0}, 0), Hour({1, 2}, 1), Hour({3}, 2)}]
CooldownTwo == [v \in Vouchers |-> 2]
AllBranches == [v \in Vouchers |-> Branches]

KindOf == [v \in Vouchers |->
  CASE v = v1 -> "CYCLE" [] v = v2 -> "REUSABLE" [] v = v3 -> "TIME_LIMITED"]

\* Two requests draw the same code.
Collision == [r \in Requests |-> IF r = r1 THEN c1 ELSE c2]

\* Two requests at least ask for the same voucher: there is a conflict to be won.
MCInit == Init /\ Cardinality({ask[r].voucher : r \in Requests}) <= 2
MCSpec == MCInit /\ [][Next]_vars

\* Requests are told apart by their codes alone: those that draw the same one may be
\* exchanged.  All properties are safety properties.
RequestsAlike == Permutations({r2, r3})
=============================================================================
