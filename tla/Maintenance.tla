----------------------------- MODULE Maintenance -----------------------------
(***************************************************************************)
(* The maintenance scheduler of each worker process                         *)
(* (queues/maintenanceScheduler.ts) runs its sweeps one after the other,     *)
(* each under an advisory lock of the database (queues/maintenanceSweep.ts); *)
(* one of them promotes staged opening hours.  Processes are told to stop    *)
(* (workerShutdown.ts), die, and are started again, two at a time during a   *)
(* deployment.                                                              *)
(***************************************************************************)
EXTENDS Hours

CONSTANTS
  Workers,
  Sweeps,     \* the enabled sweeps, numbered in the order in which a tick takes them
  HoursSweep,
  MaxItems,   \* MAINTENANCE_PHASE_B_MAX_ITEMS
  MaxDelay,   \* the longest delay between two runs of a sweep
  Nobody

ASSUME MaintenanceAssumption ==
  /\ Sweeps \subseteq Nat /\ HoursSweep \in Sweeps
  /\ MaxItems \in Nat \ {0} /\ MaxDelay \in Nat \ {0}
  /\ Nobody \notin Workers

VARIABLES
  proc,    \* each worker process: not deployed, down, up, or stopping, its stop flag set
  step,    \* what its scheduler does
  wait,    \* the time to each sweep's nextEligibleAt
  left,    \* the sweeps left in the tick, the one that runs included
  todo,    \* Phase B: the selected rows left, the one under way included
  started, \* Phase B: rows started in this run
  lock     \* the advisory lock of each sweep

workerVars == <<proc, step, wait, left, todo, started, lock>>
vars == <<hoursVars, faults, workerVars>>

\* "armed" between ticks, the timer set; "next" between the sweeps of a tick;
\* "phaseA" in the transaction that holds the lock; "rows" between the rows of
\* Phase B; "claiming" in a row's transaction; "settled" after a stop.
Steps == {"armed", "next", "phaseA", "rows", "claiming", "settled"}

First(S) == {x \in S : \A y \in S : x <= y}

TypeOK ==
  /\ HoursTypeOK
  /\ proc \in [Workers -> {"absent", "down", "up", "stopping"}]
  /\ step \in [Workers -> Steps]
  /\ wait \in [Workers -> [Sweeps -> 0 .. MaxDelay]]
  /\ left \in [Workers -> SUBSET Sweeps]
  /\ todo \in [Workers -> SUBSET Rows]
  /\ started \in [Workers -> 0 .. MaxItems]
  /\ lock \in [Sweeps -> Workers \cup {Nobody}]
  /\ \A w \in Workers :
       /\ proc[w] \in {"absent", "down"} => step[w] = "settled"
       /\ step[w] \in {"phaseA", "rows", "claiming"} => First(left[w]) # {}
       /\ step[w] = "claiming" => First(todo[w]) # {}
       /\ (step[w] = "phaseA") <=> \E s \in Sweeps : lock[s] = w

Init ==
  /\ HoursInit
  /\ proc \in [Workers -> {"absent", "down"}] /\ \E w \in Workers : proc[w] = "down"
  /\ step = [w \in Workers |-> "settled"]
  /\ wait = [w \in Workers |-> [s \in Sweeps |-> 0]] /\ left = [w \in Workers |-> {}]
  /\ todo = [w \in Workers |-> {}] /\ started = [w \in Workers |-> 0]
  /\ lock = [s \in Sweeps |-> Nobody]

Goto(w, s) == step' = [step EXCEPT ![w] = s]

-----------------------------------------------------------------------------
(* startMaintenanceScheduler: the timer and the tick                         *)

\* At boot every sweep is due: the first scan is the recovery.
Boot(w) ==
  /\ proc[w] = "down"
  /\ proc' = [proc EXCEPT ![w] = "up"]
  /\ Goto(w, "armed")
  /\ UNCHANGED <<hoursVars, faults, wait, left, todo, started, lock>>

\* The timer is set for the first sweep to become due; it may fire late, or the last
\* tick may have taken long, and more of them are due.
Tick(w) ==
  /\ proc[w] = "up" /\ step[w] = "armed"
  /\ \E t \in 0 .. MaxDelay :
       /\ \E s \in Sweeps : wait[w][s] <= t
       /\ left' = [left EXCEPT ![w] = {s \in Sweeps : wait[w][s] <= t}]
       /\ wait' = [wait EXCEPT ![w] = [s \in Sweeps |-> IF @[s] <= t THEN 0 ELSE @[s] - t]]
  /\ Goto(w, "next")
  /\ UNCHANGED <<hoursVars, faults, proc, todo, started, lock>>

\* The loop is over, or broken off by a stop; the timer is only set again if there
\* was none.
EndTick(w) ==
  /\ step[w] = "next"
  /\ left[w] = {} \/ proc[w] = "stopping"
  /\ Goto(w, IF proc[w] = "up" THEN "armed" ELSE "settled")
  /\ left' = [left EXCEPT ![w] = {}]
  /\ UNCHANGED <<hoursVars, faults, proc, wait, todo, started, lock>>

\* runOne: whatever the outcome, nextEligibleAt moves on, by the active or the idle
\* cadence or by a backoff.
FinishSweep(w) ==
  /\ \E s \in First(left[w]), d \in 1 .. MaxDelay :
       /\ wait' = [wait EXCEPT ![w][s] = d]
       /\ left' = [left EXCEPT ![w] = @ \ {s}]
  /\ Goto(w, "next")
  /\ todo' = [todo EXCEPT ![w] = {}]
  /\ started' = [started EXCEPT ![w] = 0]

-----------------------------------------------------------------------------
(* runBoundedSweep                                                          *)

\* pg_try_advisory_xact_lock: got, or LOCK_SKIPPED.
StartSweep(w) ==
  /\ proc[w] = "up" /\ step[w] = "next"
  /\ \E s \in First(left[w]) :
       IF lock[s] = Nobody
         THEN /\ lock' = [lock EXCEPT ![s] = w]
              /\ Goto(w, "phaseA")
              /\ UNCHANGED <<wait, left, todo, started>>
         ELSE FinishSweep(w) /\ UNCHANGED lock
  /\ UNCHANGED <<hoursVars, faults, proc>>

\* Mutant: a lock of the session, which the end of a transaction does not release.
UnlockSession(w) == UNCHANGED lock

\* The lock is the transaction's.
Unlock(w) == lock' = [s \in Sweeps |-> IF lock[s] = w THEN Nobody ELSE lock[s]]

\* pendingHoursDbPhase, committed with the lock released: the due rows.  Phase B is
\* left out if a stop came meanwhile.
PhaseA(w) ==
  /\ step[w] = "phaseA" /\ HoursSweep \in First(left[w])
  /\ Unlock(w)
  /\ IF proc[w] = "up"
       THEN /\ todo' = [todo EXCEPT ![w] = {p \in Rows : Gates(p)}]
            /\ Goto(w, "rows")
            /\ UNCHANGED <<wait, left, started>>
       ELSE FinishSweep(w)
  /\ UNCHANGED <<hoursVars, faults, proc>>

\* Any other sweep, with any outcome, every time it runs.
OtherSweep(w) ==
  /\ step[w] = "phaseA" /\ HoursSweep \notin First(left[w])
  /\ Unlock(w) /\ FinishSweep(w)
  /\ UNCHANGED <<hoursVars, faults, proc>>

\* TIMEOUT or FAILURE.
PhaseAFails(w) ==
  /\ step[w] = "phaseA" /\ HoursSweep \in First(left[w])
  /\ Fault
  /\ Unlock(w) /\ FinishSweep(w)
  /\ UNCHANGED <<hoursVars, proc>>

NextRow(w, p) == todo' = [todo EXCEPT ![w] = @ \ {p}]

\* Mutant: the stop flag is not looked at between two rows.
StartRowUnstopped(w) ==
  /\ step[w] = "rows" /\ started[w] < MaxItems
  /\ started' = [started EXCEPT ![w] = @ + 1]
  /\ \E p \in First(todo[w]) :
       IF Gates(p) THEN Goto(w, "claiming") /\ UNCHANGED todo
                   ELSE NextRow(w, p) /\ UNCHANGED step
  /\ UNCHANGED <<hoursVars, faults, proc, wait, left, lock>>

\* runBudgetedRows starts a row, the oldest first: the gates of its transaction.
StartRow(w) ==
  /\ proc[w] = "up" /\ step[w] = "rows" /\ started[w] < MaxItems
  /\ started' = [started EXCEPT ![w] = @ + 1]
  /\ \E p \in First(todo[w]) :
       IF Gates(p) THEN Goto(w, "claiming") /\ UNCHANGED todo
                   ELSE NextRow(w, p) /\ UNCHANGED step
  /\ UNCHANGED <<hoursVars, faults, proc, wait, left, lock>>

ClaimRow(w) ==
  /\ step[w] = "claiming"
  /\ \E p \in First(todo[w]) \ Poison : Promote(p) /\ NextRow(w, p)
  /\ Goto(w, "rows")
  /\ UNCHANGED <<place, created, callers, nudge, faults, proc, wait, left, started, lock>>

\* Mutant: a failed row ends the run.
RowFailsTheRun(w) ==
  /\ step[w] = "claiming"
  /\ \E p \in First(todo[w]) : (p \in Poison /\ UNCHANGED faults) \/ Fault
  /\ FinishSweep(w)
  /\ UNCHANGED <<hoursVars, proc, lock>>

\* The row's transaction fails and rolls back; the later rows still run.
RowFails(w) ==
  /\ step[w] = "claiming"
  /\ \E p \in First(todo[w]) :
       /\ (p \in Poison /\ UNCHANGED faults) \/ Fault
       /\ NextRow(w, p)
  /\ Goto(w, "rows")
  /\ UNCHANGED <<hoursVars, proc, wait, left, started, lock>>

\* No row is left, MaxItems have been started, a stop came, or the time is used up
\* after at least one row.
EndRows(w) ==
  /\ step[w] = "rows"
  /\ \/ (todo[w] = {} \/ started[w] = MaxItems \/ proc[w] = "stopping") /\ UNCHANGED faults
     \/ started[w] > 0 /\ Fault
  /\ FinishSweep(w)
  /\ UNCHANGED <<hoursVars, proc, lock>>

-----------------------------------------------------------------------------
(* stop(), the end of a process, and its supervisor                          *)

\* SIGTERM: the flag is set before anything else; without a tick there is nothing
\* to drain.
Stop(w) ==
  /\ proc[w] = "up" /\ Fault
  /\ proc' = [proc EXCEPT ![w] = "stopping"]
  /\ Goto(w, IF step[w] = "armed" THEN "settled" ELSE step[w])
  /\ UNCHANGED <<hoursVars, wait, left, todo, started, lock>>

Dies(w) ==
  /\ proc' = [proc EXCEPT ![w] = "down"]
  /\ Goto(w, "settled")
  /\ wait' = [wait EXCEPT ![w] = [s \in Sweeps |-> 0]] /\ left' = [left EXCEPT ![w] = {}]
  /\ todo' = [todo EXCEPT ![w] = {}] /\ started' = [started EXCEPT ![w] = 0]
  /\ Unlock(w)

\* The tick has settled, or one of the bounds of the shutdown has run out: the
\* connections are destroyed and an open transaction rolls back.
Exit(w) ==
  /\ proc[w] = "stopping"
  /\ Dies(w)
  /\ UNCHANGED <<hoursVars, faults>>

Crash(w) ==
  /\ proc[w] \in {"up", "stopping"} /\ Fault
  /\ Dies(w)
  /\ UNCHANGED <<hoursVars>>

Runs(w) ==
  \/ Boot(w) \/ Tick(w) \/ EndTick(w) \/ StartSweep(w)
  \/ PhaseA(w) \/ OtherSweep(w) \/ StartRow(w) \/ ClaimRow(w) \/ RowFails(w) \/ EndRows(w)
  \/ Exit(w)

Next ==
  \/ HoursNext /\ UNCHANGED workerVars
  \/ \E w \in Workers :
       Runs(w) \/ PhaseAFails(w) \/ Stop(w) \/ Crash(w)

\* A process runs, and its supervisor starts it again.  Nothing is assumed of
\* merchants, of the nudges or of the faults.
Fairness == \A w \in Workers : WF_vars(Runs(w))

Spec == Init /\ [][Next]_vars /\ Fairness

-----------------------------------------------------------------------------
\* After the stop signal no tick, sweep or row begins, whatever was running: a
\* process that is told to stop finishes at most the one transaction it is in
\* (maintenanceScheduler.ts:277-303, maintenanceSweep.ts:136-157, 200-202).
NothingStartsAfterStop ==
  [][\A w \in Workers : proc[w] = "stopping" =>
       /\ step'[w] \in {"phaseA", "claiming"} => step'[w] = step[w]
       /\ started'[w] <= started[w]
       /\ todo'[w] # {} => todo[w] # {}]_vars

\* A row whose cool-off is over is promoted, withdrawn or replaced, though its nudge
\* is lost, other sweeps fail each time, older rows fail each time (fewer than
\* MaxItems), and processes stop, die and come back (promotePendingHours.ts:182-215).
DueIsPromoted == \A p \in Rows \ Poison : Gates(p) ~> ~Gates(p)
=============================================================================
