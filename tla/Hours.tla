-------------------------------- MODULE Hours --------------------------------
(***************************************************************************)
(* Staged opening hours: a merchant stages a week for a branch, withdraws    *)
(* it or replaces it (merchant/branch/service.ts); after the cool-off it is  *)
(* promoted to the live hours, by a delayed job of its own, the nudge, or by *)
(* the maintenance sweep (queues/processors/promotePendingHours.ts).         *)
(*                                                                         *)
(* A promotion is one transaction in two steps: the gates are read, then    *)
(* the row is claimed and the live hours are replaced.  The number of a row  *)
(* is its place in the order of staging, which is the order of effectiveAt.  *)
(***************************************************************************)
EXTENDS Naturals

CONSTANTS
  Branches,
  MaxStages,  \* bound on the rows
  Poison,     \* the rows whose promotion the database refuses every time
  MaxFaults,  \* bound on lost calls, failed transactions, evictions, stops and crashes
  NoChange

Rows == 1 .. MaxStages

ASSUME HoursAssumption ==
  /\ MaxStages \in Nat /\ MaxFaults \in Nat
  /\ Poison \subseteq Rows
  /\ NoChange \notin [change : Nat, over : BOOLEAN]

VARIABLES
  row,     \* BranchOpeningHoursPending: status, and whether effectiveAt has passed
  place,   \* the branch of each row, fixed from the start
  created, \* the rows so far
  live,    \* BranchOpeningHours: the row each branch's live hours come from, 0 the first
  callers, \* the rows whose setOpeningHours has yet to enqueue the nudge
  nudge,   \* BullMQ: the job of each branch's id, and the row it was made for
  faults

hoursVars == <<row, place, created, live, callers, nudge>>

Statuses == {"none", "PENDING", "CANCELLED", "PROMOTED"}

\* "claiming" is an active job between its two steps; "ended" a completed or failed
\* one that BullMQ retains.
NudgeStates == {"none", "delayed", "claiming", "ended"}

NoRow == [status |-> "none", due |-> FALSE]
NoNudge == [state |-> "none", id |-> 0]

HoursInit ==
  /\ row = [p \in Rows |-> NoRow] /\ place \in [Rows -> Branches] /\ created = 0
  /\ live = [b \in Branches |-> 0]
  /\ callers = {}
  /\ nudge = [b \in Branches |-> NoNudge]
  /\ faults = 0

HoursTypeOK ==
  /\ row \in [Rows -> [status : Statuses, due : BOOLEAN]]
  /\ place \in [Rows -> Branches] /\ created \in 0 .. MaxStages
  /\ \A p \in Rows : row[p].status = "none" <=> p > created
  /\ live \in [Branches -> Rows \cup {0}]
  /\ callers \subseteq Rows
  /\ nudge \in [Branches -> [state : NudgeStates, id : Rows \cup {0}]]
  /\ \A b \in Branches : nudge[b].state \in {"delayed", "claiming"} => nudge[b].id \in Rows
  /\ faults \in 0 .. MaxFaults

Fault == faults < MaxFaults /\ faults' = faults + 1

PendingOf(b) == {p \in Rows : row[p].status = "PENDING" /\ place[p] = b}
CancelPending(b) ==
  [p \in Rows |-> IF p \in PendingOf(b) THEN [row[p] EXCEPT !.status = "CANCELLED"] ELSE row[p]]

-----------------------------------------------------------------------------
(* The merchant                                                             *)

\* setOpeningHours: one transaction cancels the row that waits and creates the new
\* one.  Of two at once the second fails on the partial unique index, its
\* cancellation rolled back with it.
Stage(b) ==
  LET p == created + 1 IN
  /\ created < MaxStages /\ created' = p /\ place[p] = b
  /\ row' = [CancelPending(b) EXCEPT ![p] = [status |-> "PENDING", due |-> FALSE]]
  /\ callers' = callers \cup {p}
  /\ UNCHANGED <<place, live, nudge, faults>>

\* The nudge is added after the commit; nothing happens while a job has the branch's
\* id, a retained one included.  The call may fail, or its process.
EnqueueNudge(p) ==
  LET b == place[p] IN
  /\ p \in callers
  /\ callers' = callers \ {p}
  /\ \/ /\ nudge' = IF nudge[b].state = "none"
                      THEN [nudge EXCEPT ![b] = [state |-> "delayed", id |-> p]] ELSE nudge
        /\ UNCHANGED faults
     \/ Fault /\ UNCHANGED nudge
  /\ UNCHANGED <<row, place, created, live>>

CancelPendingHours(b) ==
  /\ PendingOf(b) # {}
  /\ row' = CancelPending(b)
  /\ UNCHANGED <<place, created, live, callers, nudge, faults>>

CoolOffPasses(p) ==
  /\ row[p].status = "PENDING" /\ ~row[p].due
  /\ row' = [row EXCEPT ![p].due = TRUE]
  /\ UNCHANGED <<place, created, live, callers, nudge, faults>>

-----------------------------------------------------------------------------
(* promoteOnePendingHours                                                   *)

Gates(p) == row[p].status = "PENDING" /\ row[p].due

\* Mutant: the claim is an update by id.
PromoteAnyRow(p) ==
  /\ row' = [row EXCEPT ![p].status = "PROMOTED"]
  /\ live' = [live EXCEPT ![place[p]] = p]

\* The claim repeats the gates; only its winner replaces the live hours.
Promote(p) ==
  IF Gates(p)
    THEN /\ row' = [row EXCEPT ![p].status = "PROMOTED"]
         /\ live' = [live EXCEPT ![place[p]] = p]
    ELSE UNCHANGED <<row, live>>

\* The nudge fires.  Nothing ties it to the cool-off but a clock of its own.
NudgeStarts(b) ==
  /\ nudge[b].state = "delayed"
  /\ nudge' = [nudge EXCEPT ![b].state = IF Gates(nudge[b].id) THEN "claiming" ELSE "ended"]
  /\ UNCHANGED <<row, place, created, live, callers, faults>>

NudgeClaims(b) ==
  /\ nudge[b].state = "claiming" /\ nudge[b].id \notin Poison
  /\ Promote(nudge[b].id)
  /\ nudge' = [nudge EXCEPT ![b].state = "ended"]
  /\ UNCHANGED <<place, created, callers, faults>>

\* The transaction fails and rolls back, or its worker dies: the job is tried again,
\* or has no attempts left.
NudgeFails(b) ==
  /\ \/ nudge[b].state = "claiming" /\ nudge[b].id \in Poison /\ UNCHANGED faults
     \/ nudge[b].state \in {"delayed", "claiming"} /\ Fault
  /\ \E s \in {"delayed", "ended"} : nudge' = [nudge EXCEPT ![b].state = s]
  /\ UNCHANGED <<row, place, created, live, callers>>

\* Enough other jobs have ended.
NudgeEvicted(b) ==
  /\ nudge[b].state = "ended" /\ Fault
  /\ nudge' = [nudge EXCEPT ![b] = NoNudge]
  /\ UNCHANGED <<row, place, created, live, callers>>

HoursNext ==
  \/ \E b \in Branches :
       \/ Stage(b) \/ CancelPendingHours(b)
       \/ NudgeStarts(b) \/ NudgeClaims(b) \/ NudgeFails(b) \/ NudgeEvicted(b)
  \/ \E p \in Rows : EnqueueNudge(p) \/ CoolOffPasses(p)

-----------------------------------------------------------------------------
(* The partial unique index: one PENDING row per branch.                     *)
OnePending == \A b \in Branches : \A p, q \in PendingOf(b) : p = q

Awaiting ==
  [b \in Branches |->
     IF PendingOf(b) = {} THEN NoChange
     ELSE LET p == CHOOSE p \in PendingOf(b) : TRUE
          IN [change |-> p, over |-> row[p].due]]

CO == INSTANCE CoolOff WITH published <- live, awaiting <- Awaiting, made <- created

\* Whoever promotes, however often and in whatever order, merchants see the
\* abstract cool-off: a withdrawn or replaced change is never published, a change
\* never twice, an older one never over a newer one (promotePendingHours.ts:105-172,
\* branch/service.ts:1429-1525).
ImplementsCoolOff == CO!Spec
=============================================================================
