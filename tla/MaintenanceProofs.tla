-------------------------- MODULE MaintenanceProofs --------------------------
(***************************************************************************)
(* The safety of Maintenance, for any number of branches, rows, sweeps,      *)
(* processes and faults: its types, what a stopped process may still do,     *)
(* and that the hours table with all its promoters implements CoolOff.  The *)
(* refinement rests on the partial unique index: one PENDING row per branch. *)
(***************************************************************************)
EXTENDS Maintenance, TLAPS

Inv == TypeOK /\ OnePending

-----------------------------------------------------------------------------
(* The abstract change that waits is the branch's only PENDING row.          *)

LEMMA AwaitingRow ==
  ASSUME OnePending, NEW b \in Branches, NEW p \in PendingOf(b)
  PROVE  Awaiting[b] = [change |-> p, over |-> row[p].due]
<1>1. (CHOOSE q \in PendingOf(b) : TRUE) = p
  BY DEF OnePending
<1> QED
  BY <1>1 DEF Awaiting

LEMMA AwaitingNone ==
  ASSUME NEW b \in Branches, PendingOf(b) = {}
  PROVE  Awaiting[b] = NoChange
BY DEF Awaiting

LEMMA AwaitingRowNext ==
  ASSUME OnePending', NEW b \in Branches, NEW p \in PendingOf(b)'
  PROVE  Awaiting'[b] = [change |-> p, over |-> row'[p].due]
<1>1. (CHOOSE q \in PendingOf(b)' : TRUE) = p
  BY DEF OnePending
<1> QED
  BY <1>1 DEF Awaiting

LEMMA AwaitingNoneNext ==
  ASSUME NEW b \in Branches, PendingOf(b)' = {}
  PROVE  Awaiting'[b] = NoChange
BY DEF Awaiting

LEMMA AwaitingIsFunction ==
  /\ Awaiting = [b \in Branches |-> Awaiting[b]]
  /\ Awaiting' = [b \in Branches |-> Awaiting'[b]]
BY DEF Awaiting

\* Where no row of a branch changes, what waits for it does not.
LEMMA AwaitingStays ==
  ASSUME OnePending, OnePending', NEW b \in Branches,
         \A p \in PendingOf(b) \cup PendingOf(b)' : p \in Rows /\ row'[p] = row[p],
         UNCHANGED place
  PROVE  Awaiting'[b] = Awaiting[b]
<1>1. PendingOf(b)' = PendingOf(b)
  BY DEF PendingOf
<1>2. CASE PendingOf(b) = {}
  BY <1>1, <1>2, AwaitingNone, AwaitingNoneNext
<1>3. CASE PendingOf(b) # {}
  <2>1. PICK p \in PendingOf(b) : TRUE
    BY <1>3
  <2>2. row'[p] = row[p] /\ p \in PendingOf(b)'
    BY <1>1, <2>1
  <2>3. Awaiting[b] = [change |-> p, over |-> row[p].due]
    BY <2>1, AwaitingRow
  <2>4. Awaiting'[b] = [change |-> p, over |-> row'[p].due]
    BY <2>2, AwaitingRowNext
  <2> QED
    BY <2>2, <2>3, <2>4
<1> QED
  BY <1>2, <1>3

\* A waiting change is never the absent one.
LEMMA ChangeIsSome ==
  ASSUME HoursTypeOK, NEW p \in Rows, NEW d \in BOOLEAN
  PROVE  [change |-> p, over |-> d] # NoChange
BY HoursAssumption DEF Rows

-----------------------------------------------------------------------------
(* The operations on the table                                              *)

Table == <<row, place, created, live>>
TableOK ==
  /\ row \in [Rows -> [status : Statuses, due : BOOLEAN]]
  /\ place \in [Rows -> Branches] /\ created \in 0 .. MaxStages
  /\ \A p \in Rows : row[p].status = "none" <=> p > created
  /\ live \in [Branches -> Rows \cup {0}]

TableStep == TableOK' /\ OnePending' /\ [CO!Next]_(CO!vars)

\* Cancelling what a branch waits for leaves a table of rows.
LEMMA CancelTyped ==
  ASSUME HoursTypeOK, NEW b \in Branches
  PROVE  CancelPending(b) \in [Rows -> [status : Statuses, due : BOOLEAN]]
<1>1. ASSUME NEW q \in Rows
      PROVE  /\ row[q] \in [status : Statuses, due : BOOLEAN]
             /\ [row[q] EXCEPT !.status = "CANCELLED"] \in [status : Statuses, due : BOOLEAN]
  BY DEF HoursTypeOK, Statuses
<1> QED
  BY <1>1 DEF CancelPending

LEMMA StageStep ==
  ASSUME HoursTypeOK, OnePending, NEW b \in Branches, Stage(b)
  PROVE  TableStep
<1> DEFINE p == created + 1
<1>1. /\ p \in Rows /\ created' = p /\ place[p] = b /\ UNCHANGED <<place, live>>
      /\ p # 0 /\ row[p].status = "none"
  BY HoursAssumption DEF Stage, HoursTypeOK, Rows
<1>2. /\ row'[p] = [status |-> "PENDING", due |-> FALSE]
      /\ \A q \in Rows \ {p} : row'[q] = IF q \in PendingOf(b)
                                           THEN [row[q] EXCEPT !.status = "CANCELLED"] ELSE row[q]
      /\ row' \in [Rows -> [status : Statuses, due : BOOLEAN]]
  <2>1. row' = [CancelPending(b) EXCEPT ![p] = [status |-> "PENDING", due |-> FALSE]]
    BY <1>1 DEF Stage
  <2>2. CancelPending(b) \in [Rows -> [status : Statuses, due : BOOLEAN]]
    BY CancelTyped
  <2>3. [status |-> "PENDING", due |-> FALSE] \in [status : Statuses, due : BOOLEAN]
    BY DEF Statuses
  <2>4. \A q \in Rows \ {p} : row'[q] = CancelPending(b)[q]
    BY <2>1, <2>2
  <2> QED
    BY <1>1, <2>1, <2>2, <2>3, <2>4 DEF CancelPending
<1>3. TableOK'
  <2>1. \A q \in Rows : row'[q].status = "none" <=> q > created'
    <3>1. row'[p].status # "none" /\ ~(p > created')
      BY <1>1, <1>2, HoursAssumption DEF Rows
    <3>2. ASSUME NEW q \in Rows \ {p}
          PROVE  row'[q].status = "none" <=> q > created'
      <4>1. row'[q].status = "none" <=> row[q].status = "none"
        BY <1>2, ZenonT(40) DEF HoursTypeOK, PendingOf
      <4>2. q > created <=> q > created'
        BY <1>1, HoursAssumption DEF HoursTypeOK, Rows
      <4> QED
        BY <4>1, <4>2 DEF HoursTypeOK
    <3> QED
      BY <3>1, <3>2
  <2> QED
    BY <1>1, <1>2, <2>1, HoursAssumption DEF TableOK, HoursTypeOK, Rows
<1>4. /\ PendingOf(b)' = {p}
      /\ \A c \in Branches \ {b} : PendingOf(c)' = PendingOf(c) /\ p \notin PendingOf(c)
                                   /\ \A q \in PendingOf(c) : row'[q] = row[q]
  BY <1>1, <1>2, SMTT(30) DEF PendingOf, HoursTypeOK
<1>5. OnePending'
  BY <1>4 DEF OnePending
<1>6. Awaiting'[b] = [change |-> p, over |-> FALSE]
  <2>1. p \in PendingOf(b)' /\ row'[p].due = FALSE
    BY <1>2, <1>4
  <2>2. Awaiting'[b] = [change |-> p, over |-> row'[p].due]
    BY <1>5, <2>1, AwaitingRowNext
  <2> QED
    BY <2>1, <2>2
<1>7. \A c \in Branches \ {b} : Awaiting'[c] = Awaiting[c]
  BY <1>1, <1>4, <1>5, AwaitingStays DEF PendingOf
<1>8. CO!Change(b)
  BY <1>1, <1>6, <1>7, AwaitingIsFunction DEF CO!Change
<1> QED
  BY <1>3, <1>5, <1>8 DEF TableStep, CO!Next

LEMMA CancelStep ==
  ASSUME HoursTypeOK, OnePending, NEW b \in Branches, CancelPendingHours(b)
  PROVE  TableStep
<1>1. UNCHANGED <<place, created, live>>
  BY DEF CancelPendingHours
<1>2. /\ \A q \in Rows : row'[q] = IF q \in PendingOf(b)
                                     THEN [row[q] EXCEPT !.status = "CANCELLED"] ELSE row[q]
      /\ row' \in [Rows -> [status : Statuses, due : BOOLEAN]]
  BY CancelTyped DEF CancelPendingHours, CancelPending
<1>3. TableOK'
  <2>1. \A q \in Rows : row'[q].status = "none" <=> row[q].status = "none"
    BY <1>2 DEF HoursTypeOK, PendingOf
  <2> QED
    BY <1>1, <1>2, <2>1 DEF TableOK, HoursTypeOK
<1>4. /\ PendingOf(b)' = {}
      /\ \A c \in Branches \ {b} : PendingOf(c)' = PendingOf(c)
                                   /\ \A q \in PendingOf(c) : row'[q] = row[q]
  BY <1>1, <1>2 DEF PendingOf, HoursTypeOK
<1>5. OnePending'
  BY <1>4 DEF OnePending
<1>6. Awaiting'[b] = NoChange
  BY <1>4, AwaitingNoneNext
<1>7. \A c \in Branches \ {b} : Awaiting'[c] = Awaiting[c]
  BY <1>1, <1>4, <1>5, AwaitingStays DEF PendingOf
<1>8. Awaiting[b] # NoChange
  <2>1. PICK p \in PendingOf(b) : TRUE
    BY DEF CancelPendingHours
  <2>2. p \in Rows /\ row[p].due \in BOOLEAN
    BY <2>1 DEF PendingOf, HoursTypeOK
  <2> QED
    BY <2>1, <2>2, AwaitingRow, ChangeIsSome
<1>9. CO!Withdraw(b)
  BY <1>1, <1>6, <1>7, <1>8, AwaitingIsFunction DEF CO!Withdraw
<1> QED
  BY <1>3, <1>5, <1>9 DEF TableStep, CO!Next

LEMMA CoolOffStep ==
  ASSUME HoursTypeOK, OnePending, NEW p \in Rows, CoolOffPasses(p)
  PROVE  TableStep
<1> DEFINE b == place[p]
<1>1. UNCHANGED <<place, created, live>> /\ b \in Branches /\ p \in PendingOf(b) /\ ~row[p].due
  BY DEF CoolOffPasses, HoursTypeOK, PendingOf
<1>2. /\ row'[p] = [row[p] EXCEPT !.due = TRUE]
      /\ row'[p].due = TRUE /\ row'[p].status = "PENDING"
      /\ \A q \in Rows \ {p} : row'[q] = row[q]
      /\ row' \in [Rows -> [status : Statuses, due : BOOLEAN]]
  <2>1. row' = [row EXCEPT ![p] = [row[p] EXCEPT !.due = TRUE]] /\ row[p].status = "PENDING"
    <3>1. row' = [row EXCEPT ![p].due = TRUE] /\ row[p].status = "PENDING"
      BY DEF CoolOffPasses
    <3> QED
      BY <3>1, ZenonT(40) DEF HoursTypeOK
  <2>2. [row[p] EXCEPT !.due = TRUE] \in [status : Statuses, due : BOOLEAN]
    <3>1. row[p] \in [status : Statuses, due : BOOLEAN]
      BY DEF HoursTypeOK
    <3> QED
      BY <3>1
  <2>3. [row[p] EXCEPT !.due = TRUE].due = TRUE /\ [row[p] EXCEPT !.due = TRUE].status = "PENDING"
    BY <2>1 DEF HoursTypeOK
  <2> QED
    BY <2>1, <2>2, <2>3 DEF HoursTypeOK
<1>3. TableOK'
  BY <1>1, <1>2 DEF TableOK, HoursTypeOK, PendingOf
<1>4. \A c \in Branches : PendingOf(c)' = PendingOf(c)
  BY <1>1, <1>2 DEF PendingOf
<1>5. OnePending'
  BY <1>4 DEF OnePending
<1>6. Awaiting[b] = [change |-> p, over |-> FALSE] /\ Awaiting'[b] = [change |-> p, over |-> TRUE]
  <2>1. p \in PendingOf(b) /\ p \in PendingOf(b)' /\ row[p].due = FALSE /\ row'[p].due = TRUE
    BY <1>1, <1>2, <1>4 DEF HoursTypeOK
  <2>2. Awaiting[b] = [change |-> p, over |-> row[p].due]
    BY <1>1, <2>1, AwaitingRow
  <2>3. Awaiting'[b] = [change |-> p, over |-> row'[p].due]
    BY <1>1, <1>5, <2>1, AwaitingRowNext
  <2> QED
    BY <2>1, <2>2, <2>3
<1>7. \A c \in Branches \ {b} : Awaiting'[c] = Awaiting[c]
  BY <1>1, <1>2, <1>4, <1>5, AwaitingStays DEF PendingOf
<1>8. Awaiting[b] # NoChange
  BY <1>6, ChangeIsSome
<1>9. Awaiting' = [Awaiting EXCEPT ![b] = [change |-> Awaiting[b].change, over |-> TRUE]]
  BY <1>1, <1>6, <1>7, AwaitingIsFunction
<1>10. CO!CoolOffEnds(b)
  BY <1>1, <1>6, <1>8, <1>9 DEF CO!CoolOffEnds
<1> QED
  BY <1>1, <1>3, <1>5, <1>10 DEF TableStep, CO!Next

LEMMA TableStays ==
  ASSUME HoursTypeOK, OnePending, UNCHANGED Table
  PROVE  TableStep
<1>1. TableOK' /\ OnePending'
  BY DEF Table, TableOK, HoursTypeOK, OnePending, PendingOf
<1>2. UNCHANGED (CO!vars)
  BY DEF Table, CO!vars, Awaiting, PendingOf
<1> QED
  BY <1>1, <1>2 DEF TableStep

LEMMA PromoteStep ==
  ASSUME HoursTypeOK, OnePending, NEW p \in Rows, Promote(p), UNCHANGED <<place, created>>
  PROVE  TableStep
<1>1. CASE Gates(p)
  <2> DEFINE b == place[p]
  <2>1. b \in Branches /\ p \in PendingOf(b) /\ row[p].due
    BY <1>1 DEF Gates, HoursTypeOK, PendingOf
  <2>2. /\ row'[p].status = "PROMOTED"
        /\ \A q \in Rows \ {p} : row'[q] = row[q]
        /\ row' \in [Rows -> [status : Statuses, due : BOOLEAN]]
        /\ live' = [live EXCEPT ![b] = p]
    BY <1>1, SMTT(30) DEF Promote, HoursTypeOK, Statuses
  <2>3. TableOK'
    BY <2>1, <2>2 DEF TableOK, HoursTypeOK, PendingOf
  <2>4. /\ PendingOf(b)' = {}
        /\ \A c \in Branches \ {b} : PendingOf(c)' = PendingOf(c)
                                     /\ \A q \in PendingOf(c) : row'[q] = row[q]
    BY <2>1, <2>2 DEF PendingOf, OnePending
  <2>5. OnePending'
    BY <2>4 DEF OnePending
  <2>6. Awaiting[b] = [change |-> p, over |-> TRUE] /\ Awaiting'[b] = NoChange
    BY <2>1, <2>4, AwaitingRow, AwaitingNoneNext DEF HoursTypeOK
  <2>7. \A c \in Branches \ {b} : Awaiting'[c] = Awaiting[c]
    BY <2>1, <2>4, <2>5, AwaitingStays DEF PendingOf
  <2>8. Awaiting[b] # NoChange
    BY <2>6, ChangeIsSome
  <2>9. CO!Publish(b)
    BY <2>1, <2>2, <2>6, <2>7, <2>8, AwaitingIsFunction DEF CO!Publish
  <2> QED
    BY <2>1, <2>3, <2>5, <2>9 DEF TableStep, CO!Next
<1>2. CASE ~Gates(p)
  <2>1. UNCHANGED Table
    BY <1>2 DEF Promote, Table
  <2> QED
    BY <2>1, TableStays
<1> QED
  BY <1>1, <1>2

-----------------------------------------------------------------------------
(* Initial states and steps                                                 *)

LEMMA InitOK ==
  ASSUME Init
  PROVE  Inv /\ CO!Init
<1>1. HoursTypeOK
  BY HoursAssumption DEF Init, HoursInit, HoursTypeOK, NoRow, NoNudge, Statuses, NudgeStates, Rows
<1>2. TypeOK
  BY <1>1, MaintenanceAssumption DEF Init, TypeOK, Steps
<1>3. \A b \in Branches : PendingOf(b) = {}
  BY DEF Init, HoursInit, PendingOf, NoRow
<1>4. OnePending
  BY <1>3 DEF OnePending
<1>5. CO!Init
  BY <1>3, AwaitingNone, AwaitingIsFunction DEF CO!Init, Init, HoursInit
<1> QED
  BY <1>2, <1>4, <1>5 DEF Inv

\* A step of the merchant or of a nudge.
LEMMA HoursNextStep ==
  ASSUME HoursTypeOK, OnePending, HoursNext
  PROVE  HoursTypeOK' /\ TableStep
<1> DEFINE RestOK ==
      /\ callers \subseteq Rows
      /\ nudge \in [Branches -> [state : NudgeStates, id : Rows \cup {0}]]
      /\ \A b \in Branches : nudge[b].state \in {"delayed", "claiming"} => nudge[b].id \in Rows
      /\ faults \in 0 .. MaxFaults
<1>1. SUFFICES TableStep /\ RestOK'
  BY DEF TableStep, TableOK, HoursTypeOK
<1>2. RestOK
  BY DEF HoursTypeOK
<1>3. ASSUME NEW b \in Branches, Stage(b)
      PROVE  TableStep /\ RestOK'
  <2>1. RestOK'
    BY <1>2, <1>3, HoursAssumption DEF Stage, HoursTypeOK, Rows
  <2> QED
    BY <1>3, <2>1, StageStep
<1>4. ASSUME NEW b \in Branches, CancelPendingHours(b)
      PROVE  TableStep /\ RestOK'
  BY <1>2, <1>4, CancelStep DEF CancelPendingHours
<1>5. ASSUME NEW p \in Rows, CoolOffPasses(p)
      PROVE  TableStep /\ RestOK'
  BY <1>2, <1>5, CoolOffStep DEF CoolOffPasses
<1>6. ASSUME NEW b \in Branches, NudgeClaims(b)
      PROVE  TableStep /\ RestOK'
  <2>1. nudge[b].id \in Rows
    BY <1>2, <1>6 DEF NudgeClaims
  <2>2. TableStep
    BY <1>6, <2>1, PromoteStep DEF NudgeClaims
  <2>3. RestOK'
    BY <1>2, <1>6 DEF NudgeClaims, NudgeStates
  <2> QED
    BY <2>2, <2>3
<1>7. ASSUME NEW b \in Branches, NudgeStarts(b) \/ NudgeFails(b) \/ NudgeEvicted(b)
      PROVE  TableStep /\ RestOK'
  <2>1. TableStep
    BY <1>7, TableStays DEF NudgeStarts, NudgeFails, NudgeEvicted, Table
  <2>2. CASE NudgeStarts(b)
    BY <1>2, <2>1, <2>2 DEF NudgeStarts, NudgeStates
  <2>3. CASE NudgeFails(b)
    BY <1>2, <2>1, <2>3, HoursAssumption DEF NudgeFails, NudgeStates, Fault
  <2>4. CASE NudgeEvicted(b)
    BY <1>2, <2>1, <2>4, HoursAssumption DEF NudgeEvicted, NudgeStates, NoNudge, Fault
  <2> QED
    BY <1>7, <2>2, <2>3, <2>4
<1>8. ASSUME NEW p \in Rows, EnqueueNudge(p)
      PROVE  TableStep /\ RestOK'
  <2>1. TableStep
    BY <1>8, TableStays DEF EnqueueNudge, Table
  <2>2. place[p] \in Branches
    BY DEF HoursTypeOK
  <2>3. RestOK'
    BY <1>2, <1>8, <2>2, HoursAssumption DEF EnqueueNudge, NudgeStates, Fault
  <2> QED
    BY <2>1, <2>3
<1> QED
  BY <1>3, <1>4, <1>5, <1>6, <1>7, <1>8 DEF HoursNext

WorkersOK ==
  /\ proc \in [Workers -> {"absent", "down", "up", "stopping"}]
  /\ step \in [Workers -> Steps]
  /\ wait \in [Workers -> [Sweeps -> 0 .. MaxDelay]]
  /\ left \in [Workers -> SUBSET Sweeps]
  /\ todo \in [Workers -> SUBSET Rows]
  /\ started \in [Workers -> 0 .. MaxItems]
  /\ lock \in [Sweeps -> Workers \cup {Nobody}]

HoldsLock(w) == \E s \in Sweeps : lock[s] = w

\* What a process' step has to do with the rest of its state.
StepOK(w) ==
  /\ proc[w] \in {"absent", "down"} => step[w] = "settled"
  /\ step[w] \in {"phaseA", "rows", "claiming"} => First(left[w]) # {}
  /\ step[w] = "claiming" => First(todo[w]) # {}
  /\ (step[w] = "phaseA") <=> HoldsLock(w)

LEMMA TypeSplit == TypeOK <=> HoursTypeOK /\ WorkersOK /\ \A w \in Workers : StepOK(w)
BY DEF TypeOK, WorkersOK, StepOK, HoldsLock

LEMMA TypeSplitNext == TypeOK' <=> HoursTypeOK' /\ WorkersOK' /\ \A w \in Workers : StepOK(w)'
BY DEF TypeOK, WorkersOK, StepOK, HoldsLock

\* What a step of one process leaves alone.
Others(w) ==
  \A v \in Workers \ {w} :
    /\ proc'[v] = proc[v] /\ step'[v] = step[v] /\ left'[v] = left[v] /\ todo'[v] = todo[v]
    /\ HoldsLock(v)' <=> HoldsLock(v)

LEMMA OneStep ==
  ASSUME TypeOK, NEW w \in Workers, Others(w), StepOK(w)'
  PROVE  \A v \in Workers : StepOK(v)'
<1>1. ASSUME NEW v \in Workers \ {w}
      PROVE  StepOK(v)'
  BY TypeSplit DEF Others, StepOK
<1> QED
  BY <1>1

LEMMA UnlockOne ==
  ASSUME WorkersOK, NEW w \in Workers, Unlock(w)
  PROVE  /\ lock' \in [Sweeps -> Workers \cup {Nobody}]
         /\ ~HoldsLock(w)'
         /\ \A v \in Workers \ {w} : HoldsLock(v)' <=> HoldsLock(v)
BY MaintenanceAssumption DEF WorkersOK, Unlock, HoldsLock

LEMMA FinishOne ==
  ASSUME WorkersOK, NEW w \in Workers, FinishSweep(w)
  PROVE  /\ step' \in [Workers -> Steps] /\ wait' \in [Workers -> [Sweeps -> 0 .. MaxDelay]]
         /\ left' \in [Workers -> SUBSET Sweeps] /\ todo' \in [Workers -> SUBSET Rows]
         /\ started' \in [Workers -> 0 .. MaxItems]
         /\ step'[w] = "next" /\ todo'[w] = {} /\ started'[w] = 0
         /\ \A v \in Workers \ {w} :
              /\ step'[v] = step[v] /\ left'[v] = left[v] /\ todo'[v] = todo[v]
              /\ started'[v] = started[v]
<1>1. step' \in [Workers -> Steps] /\ todo' \in [Workers -> SUBSET Rows]
  BY DEF WorkersOK, FinishSweep, Goto, Steps
<1>2. started' \in [Workers -> 0 .. MaxItems]
  BY MaintenanceAssumption DEF WorkersOK, FinishSweep
<1>3. PICK s \in First(left[w]), d \in 1 .. MaxDelay :
        wait' = [wait EXCEPT ![w][s] = d] /\ left' = [left EXCEPT ![w] = @ \ {s}]
  BY DEF FinishSweep
<1>4. left' \in [Workers -> SUBSET Sweeps]
  BY <1>3 DEF WorkersOK
<1>5. wait' \in [Workers -> [Sweeps -> 0 .. MaxDelay]]
  <2>1. s \in Sweeps /\ d \in 0 .. MaxDelay
    BY <1>3, MaintenanceAssumption DEF WorkersOK, First
  <2>2. [wait[w] EXCEPT ![s] = d] \in [Sweeps -> 0 .. MaxDelay]
    BY <2>1 DEF WorkersOK
  <2> QED
    BY <1>3, <2>2 DEF WorkersOK
<1> QED
  BY <1>1, <1>2, <1>3, <1>4, <1>5 DEF WorkersOK, FinishSweep, Goto

-----------------------------------------------------------------------------
(* The steps of a process                                                   *)

LEMMA HoursStay ==
  ASSUME HoursTypeOK, OnePending, UNCHANGED hoursVars, faults' = faults \/ Fault
  PROVE  HoursTypeOK' /\ TableStep
<1>1. faults' \in 0 .. MaxFaults
  BY HoursAssumption DEF HoursTypeOK, Fault
<1> QED
  BY <1>1, TableStays DEF hoursVars, Table, HoursTypeOK

\* The scheduler's own steps.
LEMMA SchedulerStep ==
  ASSUME TypeOK, NEW w \in Workers, Boot(w) \/ Tick(w) \/ EndTick(w) \/ Stop(w)
  PROVE  WorkersOK' /\ \A v \in Workers : StepOK(v)'
<1> USE TypeSplit
<1>1. CASE Boot(w)
  <2>1. WorkersOK' /\ Others(w)
    BY <1>1 DEF Boot, Goto, WorkersOK, Steps, Others, HoldsLock
  <2>2. StepOK(w)'
    BY <1>1 DEF Boot, Goto, WorkersOK, StepOK, HoldsLock
  <2> QED
    BY <2>1, <2>2, OneStep
<1>2. CASE Tick(w)
  <2>1. PICK t \in 0 .. MaxDelay :
          /\ left' = [left EXCEPT ![w] = {s \in Sweeps : wait[w][s] <= t}]
          /\ wait' = [wait EXCEPT ![w] = [s \in Sweeps |-> IF @[s] <= t THEN 0 ELSE @[s] - t]]
    BY <1>2 DEF Tick
  <2>2. wait' \in [Workers -> [Sweeps -> 0 .. MaxDelay]]
    <3>1. [s \in Sweeps |-> IF wait[w][s] <= t THEN 0 ELSE wait[w][s] - t] \in [Sweeps -> 0 .. MaxDelay]
      <4>1. ASSUME NEW s \in Sweeps
            PROVE  (IF wait[w][s] <= t THEN 0 ELSE wait[w][s] - t) \in 0 .. MaxDelay
        <5>1. wait[w][s] \in 0 .. MaxDelay
          BY DEF WorkersOK
        <5> QED
          BY <5>1, MaintenanceAssumption
      <4> QED
        BY <4>1
    <3> QED
      BY <2>1, <3>1 DEF WorkersOK
  <2>3. WorkersOK' /\ Others(w) /\ StepOK(w)'
    BY <1>2, <2>1, <2>2, SMTT(30) DEF Tick, Goto, WorkersOK, Steps, Others, StepOK, HoldsLock
  <2> QED
    BY <2>3, OneStep
<1>3. CASE EndTick(w)
  <2>1. WorkersOK' /\ Others(w) /\ StepOK(w)'
    BY <1>3 DEF EndTick, Goto, WorkersOK, Steps, Others, StepOK, HoldsLock
  <2> QED
    BY <2>1, OneStep
<1>4. CASE Stop(w)
  <2>1. WorkersOK' /\ Others(w) /\ StepOK(w)'
    BY <1>4 DEF Stop, Goto, WorkersOK, Steps, Others, StepOK, HoldsLock
  <2> QED
    BY <2>1, OneStep
<1> QED
  BY <1>1, <1>2, <1>3, <1>4

\* The steps of a sweep, and those that end it or its process.
LEMMA SweepStep ==
  ASSUME TypeOK, NEW w \in Workers,
         \/ StartSweep(w) \/ PhaseA(w) \/ OtherSweep(w) \/ PhaseAFails(w) \/ EndRows(w)
         \/ Exit(w) \/ Crash(w)
  PROVE  WorkersOK' /\ \A v \in Workers : StepOK(v)'
<1> USE TypeSplit
<1>1. CASE StartSweep(w)
  <2>1. PICK s \in First(left[w]) :
          IF lock[s] = Nobody
            THEN /\ lock' = [lock EXCEPT ![s] = w]
                 /\ Goto(w, "phaseA")
                 /\ UNCHANGED <<wait, left, todo, started>>
            ELSE FinishSweep(w) /\ UNCHANGED lock
    BY <1>1 DEF StartSweep
  <2>2. s \in Sweeps
    BY <2>1 DEF First, WorkersOK
  <2>3. CASE lock[s] = Nobody
    <3>1. WorkersOK'
      <4>1. lock' \in [Sweeps -> Workers \cup {Nobody}]
        BY <2>1, <2>2, <2>3 DEF WorkersOK
      <4>2. step' \in [Workers -> Steps]
        BY <2>1, <2>3 DEF WorkersOK, Goto, Steps
      <4>3. UNCHANGED <<proc, wait, left, todo, started>>
        BY <1>1, <2>1, <2>3 DEF StartSweep
      <4> QED
        BY <4>1, <4>2, <4>3 DEF WorkersOK
    <3>2. Others(w)
      <4>1. \A v \in Workers \ {w} : HoldsLock(v)' <=> HoldsLock(v)
        BY <2>1, <2>2, <2>3, MaintenanceAssumption DEF WorkersOK, HoldsLock
      <4> QED
        BY <1>1, <2>1, <2>3, <4>1 DEF StartSweep, Goto, WorkersOK, Others
    <3>3. StepOK(w)'
      <4>1. HoldsLock(w)'
        BY <2>1, <2>2, <2>3 DEF WorkersOK, HoldsLock
      <4>2. step'[w] = "phaseA" /\ left'[w] = left[w] /\ First(left[w]) # {} /\ proc'[w] = "up"
        BY <1>1, <2>1, <2>3 DEF StartSweep, Goto, WorkersOK
      <4> QED
        BY <4>1, <4>2 DEF StepOK
    <3> QED
      BY <3>1, <3>2, <3>3, OneStep
  <2>4. CASE lock[s] # Nobody
    <3>1. FinishSweep(w) /\ UNCHANGED <<lock, proc>> /\ step[w] = "next"
      BY <1>1, <2>1, <2>4 DEF StartSweep
    <3>2. WorkersOK'
      BY <3>1, FinishOne DEF WorkersOK
    <3>3. Others(w) /\ StepOK(w)'
      BY <3>1, FinishOne DEF Others, StepOK, HoldsLock
    <3> QED
      BY <3>2, <3>3, OneStep
  <2> QED
    BY <2>3, <2>4
<1>2. ASSUME FinishSweep(w), Unlock(w), UNCHANGED proc, step[w] = "phaseA"
      PROVE  WorkersOK' /\ \A v \in Workers : StepOK(v)'
  <2>1. WorkersOK'
    BY <1>2, FinishOne, UnlockOne DEF WorkersOK
  <2>2. Others(w) /\ StepOK(w)'
    BY <1>2, FinishOne, UnlockOne DEF Others, StepOK
  <2> QED
    BY <2>1, <2>2, OneStep
<1>3. CASE PhaseA(w)
  <2>1. CASE proc[w] = "up"
    <3>1. WorkersOK'
      <4>1. {p \in Rows : Gates(p)} \in SUBSET Rows
        OBVIOUS
      <4> QED
        BY <1>3, <2>1, <4>1, UnlockOne DEF PhaseA, Goto, WorkersOK, Steps
    <3>2. Others(w)
      BY <1>3, <2>1, UnlockOne DEF PhaseA, Goto, WorkersOK, Others
    <3>3. StepOK(w)'
      <4>1. ~HoldsLock(w)' /\ First(left[w]) # {} /\ left'[w] = left[w] /\ step'[w] = "rows"
              /\ proc'[w] = "up"
        BY <1>3, <2>1, UnlockOne DEF PhaseA, Goto, WorkersOK
      <4> QED
        BY <4>1 DEF StepOK
    <3> QED
      BY <3>1, <3>2, <3>3, OneStep
  <2>2. CASE proc[w] # "up"
    BY <1>2, <1>3, <2>2 DEF PhaseA
  <2> QED
    BY <2>1, <2>2
<1>4. CASE OtherSweep(w) \/ PhaseAFails(w)
  BY <1>2, <1>4 DEF OtherSweep, PhaseAFails
<1>5. CASE EndRows(w)
  <2>1. FinishSweep(w) /\ UNCHANGED <<lock, proc>> /\ step[w] = "rows"
    BY <1>5 DEF EndRows
  <2>2. WorkersOK'
    BY <2>1, FinishOne DEF WorkersOK
  <2>3. Others(w) /\ StepOK(w)'
    BY <2>1, FinishOne DEF Others, StepOK, HoldsLock
  <2> QED
    BY <2>2, <2>3, OneStep
<1>6. CASE Exit(w) \/ Crash(w)
  <2>1. Dies(w)
    BY <1>6 DEF Exit, Crash
  <2>2. WorkersOK'
    <3>1. wait' \in [Workers -> [Sweeps -> 0 .. MaxDelay]] /\ started' \in [Workers -> 0 .. MaxItems]
      BY <2>1, MaintenanceAssumption DEF Dies, WorkersOK
    <3> QED
      BY <2>1, <3>1, UnlockOne DEF Dies, Goto, WorkersOK, Steps
  <2>3. Others(w) /\ StepOK(w)'
    BY <2>1, UnlockOne DEF Dies, Goto, WorkersOK, Others, StepOK
  <2> QED
    BY <2>2, <2>3, OneStep
<1> QED
  BY <1>1, <1>3, <1>4, <1>5, <1>6

\* The steps of a row in Phase B.
LEMMA RowStep ==
  ASSUME TypeOK, NEW w \in Workers, StartRow(w) \/ ClaimRow(w) \/ RowFails(w)
  PROVE  WorkersOK' /\ \A v \in Workers : StepOK(v)'
<1> USE TypeSplit
<1>1. /\ UNCHANGED <<proc, wait, left, lock>>
      /\ step[w] \in {"rows", "claiming"}
      /\ step'[w] \in {"rows", "claiming"}
      /\ \A v \in Workers \ {w} : step'[v] = step[v] /\ todo'[v] = todo[v]
      /\ step' \in [Workers -> Steps]
  <2>1. /\ UNCHANGED <<proc, wait, left, lock>>
        /\ step[w] \in {"rows", "claiming"}
        /\ step' = step \/ Goto(w, "claiming") \/ Goto(w, "rows")
        /\ todo' = todo \/ \E p \in First(todo[w]) : NextRow(w, p)
    <3>1. CASE StartRow(w)
      BY <3>1 DEF StartRow
    <3>2. CASE ClaimRow(w)
      BY <3>2 DEF ClaimRow
    <3>3. CASE RowFails(w)
      BY <3>3 DEF RowFails
    <3> QED
      BY <3>1, <3>2, <3>3
  <2>2. /\ step'[w] \in {"rows", "claiming"}
        /\ \A v \in Workers \ {w} : step'[v] = step[v]
        /\ step' \in [Workers -> Steps]
    BY <2>1 DEF Goto, WorkersOK, Steps
  <2>3. \A v \in Workers \ {w} : todo'[v] = todo[v]
    BY <2>1 DEF NextRow, WorkersOK
  <2> QED
    BY <2>1, <2>2, <2>3
<1>2. todo' \in [Workers -> SUBSET Rows] /\ started' \in [Workers -> 0 .. MaxItems]
  <2>1. todo' \in [Workers -> SUBSET Rows]
    BY DEF StartRow, ClaimRow, RowFails, NextRow, WorkersOK
  <2>0. started \in [Workers -> 0 .. MaxItems]
    BY DEF WorkersOK
  <2>2. CASE StartRow(w)
    <3>1. started[w] < MaxItems /\ started' = [started EXCEPT ![w] = started[w] + 1]
      BY <2>2 DEF StartRow
    <3>2. started[w] + 1 \in 0 .. MaxItems
      BY <2>0, <3>1, MaintenanceAssumption
    <3> QED
      BY <2>0, <2>1, <3>1, <3>2
  <2>3. CASE ClaimRow(w) \/ RowFails(w)
    <3>1. started' = started
      BY <2>3 DEF ClaimRow, RowFails
    <3> QED
      BY <2>0, <2>1, <3>1
  <2> QED
    BY <2>1, <2>2, <2>3
<1>3. step'[w] = "claiming" => First(todo'[w]) # {}
  <2>1. CASE StartRow(w)
    BY <2>1 DEF StartRow, Goto, WorkersOK
  <2>2. CASE ClaimRow(w) \/ RowFails(w)
    <3>1. Goto(w, "rows")
      BY <2>2 DEF ClaimRow, RowFails
    <3> QED
      BY <3>1 DEF Goto, WorkersOK
  <2> QED
    BY <2>1, <2>2
<1>4. WorkersOK'
  BY <1>1, <1>2 DEF WorkersOK
<1>5. Others(w)
  BY <1>1 DEF Others, HoldsLock
<1>6. StepOK(w)'
  BY <1>1, <1>3 DEF StepOK, HoldsLock
<1> QED
  BY <1>4, <1>5, <1>6, OneStep

-----------------------------------------------------------------------------

LEMMA NextOK ==
  ASSUME Inv, [Next]_vars
  PROVE  Inv' /\ [CO!Next]_(CO!vars)
<1> USE TypeSplit, TypeSplitNext DEF Inv
<1>1. CASE HoursNext /\ UNCHANGED workerVars
  <2>1. HoursTypeOK' /\ TableStep
    BY <1>1, HoursNextStep
  <2>2. WorkersOK' /\ \A w \in Workers : StepOK(w)'
    BY <1>1 DEF workerVars, WorkersOK, StepOK, HoldsLock
  <2> QED
    BY <2>1, <2>2 DEF TableStep
<1>2. ASSUME NEW w \in Workers, ClaimRow(w)
      PROVE  Inv' /\ [CO!Next]_(CO!vars)
  <2>1. PICK p \in First(todo[w]) \ Poison : Promote(p)
    BY <1>2 DEF ClaimRow
  <2>2. p \in Rows
    BY <2>1 DEF First, WorkersOK
  <2>3. TableStep
    BY <1>2, <2>1, <2>2, PromoteStep DEF ClaimRow
  <2>4. HoursTypeOK'
    BY <1>2, <2>3 DEF ClaimRow, TableStep, TableOK, HoursTypeOK
  <2> QED
    BY <1>2, <2>3, <2>4, RowStep DEF TableStep
<1>3. ASSUME NEW w \in Workers,
             \/ Boot(w) \/ Tick(w) \/ EndTick(w) \/ StartSweep(w) \/ PhaseA(w)
             \/ OtherSweep(w) \/ StartRow(w) \/ RowFails(w) \/ EndRows(w) \/ Exit(w)
             \/ PhaseAFails(w) \/ Stop(w) \/ Crash(w)
      PROVE  Inv' /\ [CO!Next]_(CO!vars)
  <2>1. UNCHANGED hoursVars /\ (faults' = faults \/ Fault)
    BY <1>3 DEF Boot, Tick, EndTick, StartSweep, PhaseA, OtherSweep, StartRow, RowFails,
       EndRows, Exit, PhaseAFails, Stop, Crash
  <2>2. HoursTypeOK' /\ TableStep
    BY <2>1, HoursStay
  <2>3. WorkersOK' /\ \A v \in Workers : StepOK(v)'
    BY <1>3, SchedulerStep, SweepStep, RowStep
  <2> QED
    BY <2>2, <2>3 DEF TableStep
<1>4. CASE UNCHANGED vars
  <2>1. HoursTypeOK' /\ TableStep
    BY <1>4, HoursStay DEF vars
  <2>2. WorkersOK' /\ \A w \in Workers : StepOK(w)'
    BY <1>4 DEF vars, workerVars, WorkersOK, StepOK, HoldsLock
  <2> QED
    BY <2>1, <2>2 DEF TableStep
<1> QED
  BY <1>1, <1>2, <1>3, <1>4 DEF Next, Runs

\* A started row's transaction, a sweep's lock and the schedulers' bookkeeping are
\* well typed; a process holds a lock exactly while it is in Phase A
\* (maintenanceSweep.ts:171-196).
THEOREM TypeCorrect == Spec => []TypeOK
<1>1. Init => Inv
  BY InitOK
<1>2. Inv /\ [Next]_vars => Inv'
  BY NextOK
<1>3. Inv => TypeOK
  BY DEF Inv
<1> QED
  BY <1>1, <1>2, <1>3, PTL DEF Spec

\* The hours table, the nudges and any number of sweeping processes implement the
\* cool-off: no change is published early, twice, after its withdrawal or over a
\* newer one (promotePendingHours.ts:105-172).
THEOREM ImplementsCoolOffHolds == Spec => ImplementsCoolOff
<1>1. Init => Inv /\ CO!Init
  BY InitOK
<1>2. Inv /\ [Next]_vars => Inv' /\ [CO!Next]_(CO!vars)
  BY NextOK
<1> QED
  BY <1>1, <1>2, PTL DEF Spec, ImplementsCoolOff, CO!Spec

\* What waits is newer than what is live, and nothing is newer than the last row.
Newer ==
  /\ created \in Nat /\ live \in [Branches -> Nat]
  /\ \A b \in Branches : live[b] <= created
  /\ \A b \in Branches : Awaiting[b] # NoChange =>
       /\ Awaiting[b].change \in Nat
       /\ live[b] < Awaiting[b].change /\ Awaiting[b].change <= created

\* A branch's live hours never go back to those of an earlier change.
HoursOnlyGetNewer == [][\A b \in Branches : live'[b] >= live[b]]_vars

\* This is so of the cool-off, whoever implements it.
LEMMA CoolOffNewer ==
  ASSUME Newer, [CO!Next]_(CO!vars)
  PROVE  Newer' /\ \A b \in Branches : live'[b] >= live[b]
<1> DEFINE Good == Newer' /\ \A b \in Branches : live'[b] >= live[b]
<1>1. ASSUME NEW b \in Branches, CO!Change(b)
      PROVE  Good
  <2>1. created' = created + 1 /\ UNCHANGED live
    BY <1>1 DEF CO!Change
  <2>2. /\ Awaiting'[b] = [change |-> created + 1, over |-> FALSE]
        /\ \A c \in Branches \ {b} : Awaiting'[c] = Awaiting[c]
    BY <1>1, AwaitingIsFunction DEF CO!Change
  <2>3. ASSUME NEW c \in Branches, Awaiting'[c] # NoChange
        PROVE  /\ Awaiting'[c].change \in Nat
               /\ live[c] < Awaiting'[c].change /\ Awaiting'[c].change <= created + 1
    <3>1. CASE c = b
      BY <2>2, <3>1 DEF Newer
    <3>2. CASE c # b
      BY <2>2, <2>3, <3>2 DEF Newer
    <3> QED
      BY <3>1, <3>2
  <2> QED
    BY <2>1, <2>3 DEF Newer
<1>2. ASSUME NEW b \in Branches, CO!Withdraw(b)
      PROVE  Good
  <2>1. \A c \in Branches : Awaiting'[c] # NoChange => Awaiting'[c] = Awaiting[c]
    BY <1>2, AwaitingIsFunction DEF CO!Withdraw
  <2> QED
    BY <1>2, <2>1 DEF CO!Withdraw, Newer
<1>3. ASSUME NEW b \in Branches, CO!CoolOffEnds(b)
      PROVE  Good
  <2>1. \A c \in Branches : Awaiting'[c] # NoChange =>
          Awaiting[c] # NoChange /\ Awaiting'[c].change = Awaiting[c].change
    BY <1>3, AwaitingIsFunction DEF CO!CoolOffEnds
  <2> QED
    BY <1>3, <2>1 DEF CO!CoolOffEnds, Newer
<1>4. ASSUME NEW b \in Branches, CO!Publish(b)
      PROVE  Good
  <2>1. /\ Awaiting[b] # NoChange /\ UNCHANGED created
        /\ live' = [live EXCEPT ![b] = Awaiting[b].change]
    BY <1>4 DEF CO!Publish
  <2>2. \A c \in Branches : Awaiting'[c] # NoChange => c # b /\ Awaiting'[c] = Awaiting[c]
    BY <1>4, AwaitingIsFunction DEF CO!Publish
  <2>3. /\ live' \in [Branches -> Nat] /\ live'[b] = Awaiting[b].change
        /\ \A c \in Branches \ {b} : live'[c] = live[c]
    BY <2>1 DEF Newer
  <2>4. \A c \in Branches : live'[c] >= live[c] /\ live'[c] <= created
    BY <2>1, <2>3 DEF Newer
  <2> QED
    BY <2>1, <2>2, <2>3, <2>4 DEF Newer
<1>5. CASE UNCHANGED (CO!vars)
  <2>1. UNCHANGED <<live, created, Awaiting>>
    BY <1>5 DEF CO!vars
  <2> QED
    BY <2>1 DEF Newer
<1> QED
  BY <1>1, <1>2, <1>3, <1>4, <1>5 DEF CO!Next

\* Whatever nudges, sweeps and merchants do, and in whatever order their claims commit, an older
\* change never replaces a newer one (promotePendingHours.ts:105-172).
THEOREM HoursOnlyGetNewerHolds == Spec => HoursOnlyGetNewer
<1>1. Init => Inv /\ Newer
  <2> SUFFICES ASSUME Init PROVE Inv /\ Newer
    OBVIOUS
  <2>1. Inv /\ CO!Init
    BY InitOK
  <2> QED
    BY <2>1 DEF CO!Init, Newer
<1>2. Inv /\ Newer /\ [Next]_vars => (Inv /\ Newer)'
  BY NextOK, CoolOffNewer
<1>3. Inv /\ Newer /\ [Next]_vars => [\A b \in Branches : live'[b] >= live[b]]_vars
  BY NextOK, CoolOffNewer
<1> QED
  BY <1>1, <1>2, <1>3, PTL DEF Spec, HoursOnlyGetNewer

\* After the stop signal a process starts no tick, sweep or row
\* (maintenanceScheduler.ts:277-303, maintenanceSweep.ts:136-157).
THEOREM NothingStartsAfterStopHolds == Spec => NothingStartsAfterStop
<1> DEFINE Quiet == \A w \in Workers : proc[w] = "stopping" =>
                      /\ step'[w] \in {"phaseA", "claiming"} => step'[w] = step[w]
                      /\ started'[w] <= started[w]
                      /\ todo'[w] # {} => todo[w] # {}
<1>1. ASSUME TypeOK, [Next]_vars
      PROVE  Quiet
  <2> SUFFICES ASSUME NEW w \in Workers, proc[w] = "stopping"
               PROVE  /\ step'[w] \in {"phaseA", "claiming"} => step'[w] = step[w]
                      /\ started'[w] <= started[w]
                      /\ todo'[w] # {} => todo[w] # {}
    OBVIOUS
  <2> USE <1>1
  <2>0. started[w] \in Nat
    BY TypeSplit DEF WorkersOK
  <2>1. CASE UNCHANGED <<step, started, todo>>
    BY <2>0, <2>1
  <2>2. ASSUME NEW v \in Workers \ {w}, Runs(v) \/ PhaseAFails(v) \/ Stop(v) \/ Crash(v)
        PROVE  step'[w] = step[w] /\ started'[w] = started[w] /\ todo'[w] = todo[w]
    BY <2>2, TypeSplit DEF WorkersOK, Runs, Boot, Tick, EndTick, StartSweep, PhaseA, OtherSweep,
       StartRow, ClaimRow, RowFails, EndRows, Exit, PhaseAFails, Stop, Crash, FinishSweep,
       Dies, Goto, NextRow
  <2>3. ASSUME Runs(w) \/ PhaseAFails(w) \/ Stop(w) \/ Crash(w)
        PROVE  /\ step'[w] \notin {"phaseA", "claiming"}
               /\ started'[w] = started[w] \/ started'[w] = 0
               /\ todo'[w] \subseteq todo[w]
    <3>1. ~Boot(w) /\ ~Tick(w) /\ ~StartSweep(w) /\ ~StartRow(w) /\ ~Stop(w)
      BY DEF Boot, Tick, StartSweep, StartRow, Stop
    <3>2. CASE FinishSweep(w)
      BY <3>2, TypeSplit DEF WorkersOK, FinishSweep, Goto
    <3>3. CASE Dies(w)
      BY <3>3, TypeSplit DEF WorkersOK, Dies, Goto
    <3>4. CASE EndTick(w)
      BY <3>4, TypeSplit DEF WorkersOK, EndTick, Goto
    <3>5. CASE ClaimRow(w) \/ RowFails(w)
      BY <3>5, TypeSplit DEF WorkersOK, ClaimRow, RowFails, NextRow, Goto
    <3>6. CASE PhaseA(w)
      BY <3>2, <3>6 DEF PhaseA
    <3>7. OtherSweep(w) \/ PhaseAFails(w) \/ EndRows(w) => FinishSweep(w)
      BY DEF OtherSweep, PhaseAFails, EndRows
    <3>8. Exit(w) \/ Crash(w) => Dies(w)
      BY DEF Exit, Crash
    <3> QED
      BY <2>3, <3>1, <3>2, <3>3, <3>4, <3>5, <3>6, <3>7, <3>8 DEF Runs
  <2>4. CASE HoursNext /\ UNCHANGED workerVars
    BY <2>1, <2>4 DEF workerVars
  <2>5. CASE UNCHANGED vars
    BY <2>1, <2>5 DEF vars, workerVars
  <2>6. CASE \E v \in Workers : Runs(v) \/ PhaseAFails(v) \/ Stop(v) \/ Crash(v)
    BY <2>0, <2>2, <2>3, <2>6
  <2> QED
    BY <2>4, <2>5, <2>6 DEF Next
<1>2. TypeOK /\ [Next]_vars => [Quiet]_vars
  BY <1>1
<1> QED
  BY <1>2, TypeCorrect, PTL DEF Spec, NothingStartsAfterStop
=============================================================================
