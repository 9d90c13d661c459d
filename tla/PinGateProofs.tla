---------------------------- MODULE PinGateProofs ----------------------------
(* The PIN gate's cap holds for every limit and any number of requests.     *)
EXTENDS PinGate, FiniteSetTheorems, TLAPS

\* Where the requests of the two histories are.
StageInv ==
  /\ \A r \in admitted : stage[r] # "idle"
  /\ \A r \in refunded : stage[r] \in {"floor", "FAULT"}

\* The counter holds every admission that was not given back, and it exceeds
\* the admissions only once the limit has been reached.
CountInv ==
  /\ Cardinality(admitted) - Cardinality(refunded) <= key.value
  /\ key.value <= Cardinality(admitted) \/ Limit <= Cardinality(admitted)

Inv == TypeOK /\ StageInv /\ CountInv /\ CapHolds /\ NoPermanentLockout

\* Sizes of the histories, and how a new member changes them.
LEMMA Sizes ==
  ASSUME TypeOK
  PROVE  /\ IsFiniteSet(admitted) /\ IsFiniteSet(refunded)
         /\ Cardinality(admitted) \in Nat /\ Cardinality(refunded) \in Nat
         /\ \A r \in Requests :
              /\ r \notin admitted => Cardinality(admitted \cup {r}) = Cardinality(admitted) + 1
              /\ r \notin refunded => Cardinality(refunded \cup {r}) = Cardinality(refunded) + 1
<1>1. IsFiniteSet(admitted) /\ IsFiniteSet(refunded)
  BY FS_Subset, GateAssumption DEF TypeOK
<1> QED
  BY <1>1, FS_CardinalityType, FS_AddElement

LEMMA ForgetKeeps ==
  ASSUME Inv, Forget, stage' \in [Requests -> Steps \cup Answers]
  PROVE  Inv'
<1>1. Cardinality({}) = 0
  BY FS_EmptySet
<1> QED
  BY <1>1, GateAssumption
  DEF Inv, TypeOK, StageInv, CountInv, CapHolds, NoPermanentLockout, Forget, Absent, Key

LEMMA InvInit == Init => Inv
<1>1. Cardinality({}) = 0
  BY FS_EmptySet
<1> QED
  BY <1>1, GateAssumption
  DEF Init, Inv, TypeOK, StageInv, CountInv, CapHolds, NoPermanentLockout, Absent, Key,
      Steps, Answers

LEMMA InvStep == Inv /\ [Next]_vars => Inv'
<1> SUFFICES ASSUME Inv, [Next]_vars PROVE Inv'
  OBVIOUS
<1>1. CASE UNCHANGED vars
  BY <1>1 DEF vars, Inv, TypeOK, StageInv, CountInv, CapHolds, NoPermanentLockout
<1>2. CASE Expire
  BY <1>2, ForgetKeeps DEF Expire, Inv, TypeOK
<1>3. ASSUME NEW r \in Requests, Consume(r) PROVE Inv'
  <2>1. r \notin admitted /\ r \notin refunded
    BY <1>3 DEF Inv, StageInv, Consume
  <2>2. key'.value = key.value + 1 /\ key' \in Key /\ key'.present /\ key.value \in Int
    <3>1. key' = Increment /\ key.value \in Int /\ key.expires \in BOOLEAN
      BY <1>3 DEF Consume, Inv, TypeOK, Key
    <3>2. Stepped(1) \in Key /\ Stepped(1).value = key.value + 1 /\ Stepped(1).present
      BY <3>1 DEF Stepped, Key
    <3>3. CASE key.value + 1 = 1
      BY <3>1, <3>2, <3>3 DEF Increment, Stepped, Key
    <3>4. CASE key.value + 1 # 1
      BY <3>1, <3>2, <3>4 DEF Increment
    <3> QED
      BY <3>1, <3>3, <3>4
  <2>3. NoPermanentLockout'
    BY <1>3, <2>2 DEF Consume, Increment, Stepped, Inv, TypeOK, Key, NoPermanentLockout
  <2>4. TypeOK' /\ StageInv'
    BY <1>3, <2>1, <2>2 DEF Consume, Goto, Inv, TypeOK, StageInv, Steps, Answers
  <2>5. CountInv' /\ CapHolds'
    <3>1. CASE WithinLimit /\ admitted' = admitted \cup {r} /\ UNCHANGED refunded
      <4>1. Cardinality(admitted') = Cardinality(admitted) + 1
        BY <2>1, <3>1, Sizes DEF Inv
      <4> QED
        BY <2>2, <3>1, <4>1, Sizes, GateAssumption
        DEF Inv, CountInv, CapHolds, WithinLimit
    <3>2. CASE ~WithinLimit /\ UNCHANGED <<admitted, refunded>>
      BY <2>2, <3>2, Sizes, GateAssumption DEF Inv, CountInv, CapHolds, WithinLimit
    <3> QED
      BY <1>3, <3>1, <3>2 DEF Consume
  <2> QED
    BY <2>3, <2>4, <2>5 DEF Inv
<1>4. ASSUME NEW r \in Requests, Compare(r) \/ ReadCount(r) PROVE Inv'
  <2>1. UNCHANGED <<key, admitted, refunded>>
    BY <1>4 DEF Compare, ReadCount
  <2>2. TypeOK' /\ StageInv'
    BY <1>4, <2>1 DEF Compare, ReadCount, Goto, Inv, TypeOK, StageInv, Steps, Answers
  <2> QED
    BY <2>1, <2>2 DEF Inv, CountInv, CapHolds, NoPermanentLockout
<1>5. ASSUME NEW r \in Requests, Clear(r) \/ Floor(r), Forget PROVE Inv'
  BY <1>5, ForgetKeeps DEF Clear, Floor, Goto, Inv, TypeOK, Steps, Answers
<1>6. ASSUME NEW r \in Requests, stage[r] # "idle", Goto(r, "FAULT"),
             UNCHANGED <<key, admitted, refunded>>
      PROVE  Inv'
  <2>1. TypeOK' /\ StageInv'
    BY <1>6 DEF Goto, Inv, TypeOK, StageInv, Steps, Answers
  <2> QED
    BY <1>6, <2>1 DEF Inv, CountInv, CapHolds, NoPermanentLockout
<1>7. ASSUME NEW r \in Requests, Refund(r), key' = Stepped(-1), refunded' = refunded \cup {r},
             Goto(r, IF key.value - 1 < 0 THEN "floor" ELSE "FAULT")
      PROVE  Inv'
  <2>1. r \notin refunded
    BY <1>7 DEF Refund, Inv, StageInv
  <2>2. /\ key'.value = key.value - 1 /\ key'.expires = key.expires
        /\ key' \in Key /\ key'.present /\ key.value \in Int
    BY <1>7 DEF Stepped, Inv, TypeOK, Key
  <2>3. NoPermanentLockout'
    BY <2>2 DEF Inv, NoPermanentLockout
  <2>4. TypeOK' /\ StageInv'
    BY <1>7, <2>2 DEF Refund, Goto, Inv, TypeOK, StageInv, Steps, Answers
  <2>5. Cardinality(refunded') = Cardinality(refunded) + 1 /\ UNCHANGED admitted
    BY <1>7, <2>1, Sizes DEF Refund, Inv
  <2>6. CountInv' /\ CapHolds'
    BY <2>2, <2>5, Sizes, GateAssumption DEF Inv, CountInv, CapHolds
  <2> QED
    BY <2>3, <2>4, <2>6 DEF Inv
<1>8. ASSUME NEW r \in Requests, Clear(r) \/ Refund(r) \/ Floor(r) PROVE Inv'
  BY <1>5, <1>6, <1>7, <1>8 DEF Clear, Refund, Floor
<1> QED
  BY <1>1, <1>2, <1>3, <1>4, <1>8 DEF Next, Attempt

LEMMA InvHolds == Spec => []Inv
BY InvInit, InvStep, PTL DEF Spec

\* The counter is absent or a key with a value and an expiry, and an absent one
\* holds nothing: every request is at a step of the handler or has its answer.
THEOREM TypeCorrect == Spec => []TypeOK
<1>1. Inv => TypeOK
  BY DEF Inv
<1> QED
  BY <1>1, InvHolds, PTL

\* Between two resets at most Limit PINs are compared, and one more per fault.
THEOREM CapAlwaysHolds == Spec => []CapHolds
<1>1. Inv => CapHolds
  BY DEF Inv
<1> QED
  BY <1>1, InvHolds, PTL

\* A counter that could block somebody expires on its own.
THEOREM NoPermanentLockoutHolds == Spec => []NoPermanentLockout
<1>1. Inv => NoPermanentLockout
  BY DEF Inv
<1> QED
  BY <1>1, InvHolds, PTL

\* Nobody is locked out before Limit attempts were let through to the compare.
THEOREM NoFalseLockoutHolds == Spec => NoFalseLockout
<1> DEFINE Fair == \A r \in Requests :
                     stage[r] = "idle" /\ stage'[r] = "RATE_LIMITED"
                       => Cardinality(admitted) >= Limit
<1>1. ASSUME Inv, Next, NEW r \in Requests, stage[r] = "idle", stage'[r] = "RATE_LIMITED"
      PROVE  Cardinality(admitted) >= Limit
  <2>1. ASSUME NEW q \in Requests, Compare(q) \/ ReadCount(q) \/ Clear(q) \/ Refund(q) \/ Floor(q)
        PROVE  FALSE
    BY <1>1, <2>1 DEF Compare, ReadCount, Clear, Refund, Floor, Goto, Inv, TypeOK
  <2>2. ~Expire
    BY <1>1 DEF Expire
  <2>3. Consume(r)
    BY <1>1, <2>1, <2>2 DEF Next, Attempt, Consume, Goto, Inv, TypeOK
  <2>4. ~WithinLimit
    BY <1>1, <2>3 DEF Consume, Goto, Inv, TypeOK
  <2> QED
    BY <1>1, <2>4, Sizes, GateAssumption DEF WithinLimit, Inv, CountInv, TypeOK, Key
<1>2. Inv /\ [Next]_vars => [Fair]_vars
  BY <1>1
<1> QED
  BY <1>2, InvHolds, PTL DEF Spec, NoFalseLockout
=============================================================================
