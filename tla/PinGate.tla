------------------------------- MODULE PinGate -------------------------------
(***************************************************************************)
(* The PIN gate of createRedemption (steps 8 to 10 of                      *)
(* src/api/redemption/service.ts), for one user at one branch: the failure *)
(* counter pin:fail:{user}:{branch} in Redis, which consume() of           *)
(* src/api/shared/atomicLimiter.ts reserves and the handler clears, keeps  *)
(* or refunds once the PIN has been compared.                              *)
(*                                                                         *)
(* consume() is one Lua script, hence one step; every other Redis command  *)
(* is a step of its own, and a request may stop for good between two of    *)
(* them (a crash, a lost connection).  Redemption sees this gate as its    *)
(* action PassPin.                                                         *)
(***************************************************************************)
EXTENDS Integers, FiniteSets

CONSTANTS
  Requests,
  Verdict,   \* what comparing each request's PIN yields
  Limit      \* PIN_FAIL_LIMIT

Verdicts == {"right", "wrong", "fault"}

ASSUME GateAssumption ==
  /\ Verdict \in [Requests -> Verdicts]
  /\ Limit \in Nat \ {0}
  /\ IsFiniteSet(Requests)

VARIABLES
  key,       \* the counter's key in Redis: present, its value, its expiry
  stage,     \* the step each request is at, or its answer
  admitted,  \* history: the requests admitted since the key was last absent
  refunded   \* history: the requests refunded since the key was last absent

vars == <<key, stage, admitted, refunded>>

Steps == {"idle", "compare", "clear", "count", "refund", "floor"}
Answers == {"PASSED", "INVALID_PIN", "RATE_LIMITED", "FAULT"}

Key == [present: BOOLEAN, value: Int, expires: BOOLEAN]
Absent == [present |-> FALSE, value |-> 0, expires |-> FALSE]

TypeOK ==
  /\ key \in Key
  /\ ~key.present => key = Absent
  /\ stage \in [Requests -> Steps \cup Answers]
  /\ admitted \subseteq Requests
  /\ refunded \subseteq Requests

Init ==
  /\ key = Absent
  /\ stage = [r \in Requests |-> "idle"]
  /\ admitted = {} /\ refunded = {}

Goto(r, s) == stage' = [stage EXCEPT ![r] = s]

\* Redis: INCR and DECR of an absent key start from 0 and set no expiry.
Stepped(n) == [present |-> TRUE, value |-> key.value + n, expires |-> key.expires]

\* Mutant: the count is reset, the rest of the key stays.
ForgetCount ==
  key' = [Absent EXCEPT !.expires = key.expires] /\ admitted' = {} /\ refunded' = {}

\* The key is gone, by DEL or by its expiry: the count starts anew.
Forget == key' = Absent /\ admitted' = {} /\ refunded' = {}

\* Mutant: the expiry is left to a second command, which is lost.
IncrementNoExpire == Stepped(1)

\* INCR; if v == 1 then EXPIRE.
Increment ==
  IF key.value + 1 = 1 THEN [Stepped(1) EXCEPT !.expires = TRUE] ELSE Stepped(1)

\* Mutants: the count is checked as it was before the increment; v >= limit blocks.
WithinLimitBefore == key.value <= Limit
BelowLimit == key.value + 1 < Limit

\* if v > limit then blocked.
WithinLimit == key.value + 1 <= Limit

\* Step 9: consume({ abuserKeys: [failKey] }).  A blocked attempt counts too.
Consume(r) ==
  /\ stage[r] = "idle"
  /\ key' = Increment
  /\ \/ WithinLimit /\ Goto(r, "compare") /\ admitted' = admitted \cup {r}
     \/ ~WithinLimit /\ Goto(r, "RATE_LIMITED") /\ UNCHANGED admitted
  /\ UNCHANGED refunded

\* Step 10: decrypt the stored PIN and compare.
Compare(r) ==
  /\ stage[r] = "compare"
  /\ \/ Verdict[r] = "right" /\ Goto(r, "clear")
     \/ Verdict[r] = "wrong" /\ Goto(r, "count")
     \/ Verdict[r] = "fault" /\ Goto(r, "refund")
  /\ UNCHANGED <<key, admitted, refunded>>

\* A wrong PIN keeps its reservation; the GET only words the answer.
ReadCount(r) ==
  /\ stage[r] = "count"
  /\ Goto(r, "INVALID_PIN")
  /\ UNCHANGED <<key, admitted, refunded>>

\* A right PIN: redis.del(failKey).
Clear(r) ==
  /\ stage[r] = "clear"
  /\ Forget
  /\ Goto(r, "PASSED")

\* A server fault: v = redis.decr(failKey), best-effort ...
Refund(r) ==
  /\ stage[r] = "refund"
  /\ \/ /\ key' = Stepped(-1)
        /\ refunded' = refunded \cup {r}
        /\ Goto(r, IF key.value - 1 < 0 THEN "floor" ELSE "FAULT")
     \/ /\ UNCHANGED <<key, refunded>>
        /\ Goto(r, "FAULT")
  /\ UNCHANGED admitted

\* ... and, if v < 0, redis.del(failKey), best-effort too.
Floor(r) ==
  /\ stage[r] = "floor"
  /\ Forget \/ UNCHANGED <<key, admitted, refunded>>
  /\ Goto(r, "FAULT")

\* Redis drops the key when its window (PIN_FAIL_WINDOW) has passed.
Expire ==
  /\ key.expires
  /\ Forget
  /\ UNCHANGED stage

Attempt(r) ==
  Consume(r) \/ Compare(r) \/ ReadCount(r) \/ Clear(r) \/ Refund(r) \/ Floor(r)

Next == Expire \/ \E r \in Requests : Attempt(r)

Spec == Init /\ [][Next]_vars

-----------------------------------------------------------------------------
(* Properties.                                                             *)

\* "Concurrent redeem requests can NEVER overshoot the cap": between two resets
\* of the counter at most Limit PINs are compared, and one more for each server
\* fault that gave its reservation back, however the requests interleave.
CapHolds == Cardinality(admitted) <= Limit + Cardinality(refunded)

\* A counter that could block somebody expires on its own, also when a request
\* crashes between any two commands (the permanent lockout of audit L5).
NoPermanentLockout == key.value >= 1 => key.expires

\* Nobody is locked out before Limit attempts were let through to the compare.
NoFalseLockout ==
  [][\A r \in Requests : stage[r] = "idle" /\ stage'[r] = "RATE_LIMITED"
       => Cardinality(admitted) >= Limit]_vars
=============================================================================
