-------------------------------- MODULE Outbox --------------------------------
(***************************************************************************)
(* The e-mail outbox: a row of CommunicationLog is committed QUEUED, a job  *)
(* with the row's id is enqueued afterwards (src/api/shared/notify.ts), a   *)
(* worker sends the message and writes the row's terminal status            *)
(* (queues/processors/email.ts), a sweep expires old rows and enqueues      *)
(* stale ones again (queues/processors/outboxReconciler.ts), and the        *)
(* provider reports bounces (webhooks/resend.ts).                           *)
(*                                                                         *)
(* Workers die and stall, answers and database writes fail, enqueues are    *)
(* lost: together at most MaxFaults times.  The provider may refuse a        *)
(* message as often as it is asked.                                         *)
(***************************************************************************)
EXTENDS Naturals, FiniteSets

CONSTANTS
  Messages,
  Workers,    \* worker processes, one job at a time each
  Dark,       \* those started with EMAIL_ENABLED off
  Attempts,   \* DEFAULT_JOB_OPTIONS.attempts
  MaxStalls,  \* BullMQ's maxStalledCount
  SentAt,     \* the row's sentAt, by which the sweep takes the oldest first
  Batch,      \* RECONCILE_BATCH
  MaxItems,   \* phaseBMaxItems
  MaxFaults   \* bound on faults

Nobody == "nobody"
NoMessage == "none"

ASSUME OutboxAssumption ==
  /\ Nobody \notin Workers /\ NoMessage \notin Messages
  /\ Dark \subseteq Workers
  /\ Attempts \in Nat \ {0} /\ MaxStalls \in Nat /\ MaxFaults \in Nat
  /\ SentAt \in [Messages -> Nat]
  /\ Batch \in Nat \ {0} /\ MaxItems \in Nat \ {0}

VARIABLES
  row,       \* CommunicationLog: status, and whether payload and externalId are set
  age,       \* of the row: under RECONCILE_GRACE_MS, under RECONCILE_MAX_AGE_MS, older
  callers,   \* the messages whose notify() has yet to enqueue
  job,       \* BullMQ: the job with the row's id
  worker,    \* each worker: its step and its message
  failures,  \* each worker: the 'failed' events it has yet to handle
  todo,      \* the sweep: rows selected for Phase B
  accepted,  \* the provider: messages it has taken
  counting,  \* the bounce handlers between the flip and the count
  bounces,   \* the bounces counted, per message
  excused,   \* history: the messages of which a job used all its attempts, or that
             \* a worker skipped
  faults

tableVars == <<row, age>>
queueVars == <<callers, job, todo>>
workerVars == <<worker, failures>>
bounceVars == <<counting, bounces>>
vars == <<tableVars, queueVars, workerVars, accepted, bounceVars, excused, faults>>

Statuses == {"none", "QUEUED", "SENT", "FAILED", "BOUNCED"}
JobStates == {"none", "waiting", "active", "completed", "failed"}
Steps == {"idle", "load", "send", "SENT", "FAILED", "ack"}
Ages == {"fresh", "stale", "old"}

NoRow == [status |-> "none", payload |-> FALSE, externalId |-> FALSE]
NoJob == [state |-> "none", made |-> 0, stalls |-> 0, holder |-> Nobody]
NewJob == [state |-> "waiting", made |-> 0, stalls |-> 0, holder |-> Nobody]
Idle == [step |-> "idle", msg |-> NoMessage]

Rows == [status : Statuses, payload : BOOLEAN, externalId : BOOLEAN]
Jobs == [state : JobStates, made : 0 .. Attempts, stalls : 0 .. MaxStalls,
         holder : Workers \cup {Nobody}]

TypeOK ==
  /\ row \in [Messages -> Rows] /\ age \in [Messages -> Ages]
  /\ callers \subseteq Messages /\ todo \subseteq Messages
  /\ accepted \subseteq Messages /\ excused \subseteq Messages
  /\ job \in [Messages -> Jobs]
  /\ worker \in [Workers -> [step : Steps, msg : Messages \cup {NoMessage}]]
  /\ \A w \in Workers : worker[w].step # "idle" => worker[w].msg \in Messages
  /\ failures \in [Workers -> SUBSET (Messages \X (0 .. Attempts))]
  /\ counting \in [Messages -> Nat] /\ bounces \in [Messages -> Nat]
  /\ faults \in 0 .. MaxFaults

Init ==
  /\ row = [m \in Messages |-> NoRow] /\ age = [m \in Messages |-> "fresh"]
  /\ callers = {} /\ todo = {} /\ accepted = {} /\ excused = {}
  /\ job = [m \in Messages |-> NoJob]
  /\ worker = [w \in Workers |-> Idle] /\ failures = [w \in Workers |-> {}]
  /\ counting = [m \in Messages |-> 0] /\ bounces = [m \in Messages |-> 0]
  /\ faults = 0

Queued(m) == row[m].status = "QUEUED"
Fault == faults < MaxFaults /\ faults' = faults + 1

-----------------------------------------------------------------------------
(* notify()                                                                 *)

Commit(m) ==
  /\ row[m].status = "none"
  /\ row' = [row EXCEPT ![m] = [status |-> "QUEUED", payload |-> TRUE, externalId |-> FALSE]]
  /\ callers' = callers \cup {m}
  /\ UNCHANGED <<age, job, todo, workerVars, accepted, bounceVars, excused, faults>>

\* queue.add with jobId = the row's id: nothing happens while a job has that id,
\* a completed or failed one that BullMQ retains included.
AddJob(m) ==
  job' = IF job[m].state = "none" THEN [job EXCEPT ![m] = NewJob] ELSE job

\* The add may be lost, or its process: the row stays QUEUED.
Enqueue(m) ==
  /\ m \in callers
  /\ callers' = callers \ {m}
  /\ \/ AddJob(m) /\ UNCHANGED faults
     \/ Fault /\ UNCHANGED job
  /\ UNCHANGED <<tableVars, todo, workerVars, accepted, bounceVars, excused>>

-----------------------------------------------------------------------------
(* The worker: processEmailJob and onEmailJobFailed                          *)

Goto(w, s) == worker' = [worker EXCEPT ![w].step = s]

\* The payload goes; the externalId comes with SENT, unless the answer had none.
TerminalRows(st) ==
  [status : {st}, payload : {FALSE}, externalId : {FALSE, st = "SENT"}]

\* Mutant: updateMany by id alone.
SetTerminalAnyRow(m, st) ==
  \E x \in TerminalRows(st) : row' = [row EXCEPT ![m] = x]

\* updateMany where status = QUEUED.
SetTerminal(m, st) ==
  IF Queued(m) THEN \E x \in TerminalRows(st) : row' = [row EXCEPT ![m] = x]
               ELSE row' = row

\* BullMQ hands out a waiting job.
Take(w) ==
  /\ worker[w].step = "idle"
  /\ \E m \in Messages :
       /\ job[m].state = "waiting"
       /\ job' = [job EXCEPT ![m].state = "active", ![m].holder = w]
       /\ worker' = [worker EXCEPT ![w] = [step |-> "load", msg |-> m]]
  /\ UNCHANGED <<tableVars, callers, todo, failures, accepted, bounceVars, excused, faults>>

\* Skip a terminal row; give up a row without a payload.
Load(w) ==
  LET m == worker[w].msg IN
  /\ worker[w].step = "load"
  /\ Goto(w, IF ~Queued(m) THEN "ack" ELSE IF row[m].payload THEN "send" ELSE "FAILED")
  /\ UNCHANGED <<tableVars, queueVars, failures, accepted, bounceVars, excused, faults>>

\* Mutant: the provider's error is not thrown.
SendUnchecked(w) ==
  LET m == worker[w].msg IN
  /\ worker[w].step = "send"
  /\ \/ /\ w \in Dark /\ Goto(w, "FAILED")
        /\ excused' = excused \cup {m} /\ UNCHANGED accepted
     \/ /\ w \notin Dark /\ Goto(w, "SENT")
        /\ accepted' \in {accepted, accepted \cup {m}} /\ UNCHANGED excused
  /\ UNCHANGED <<tableVars, queueVars, failures, bounceVars, faults>>

\* sendEmail: skipped in dark mode, or taken by the provider.  A second send of a
\* message has the same Idempotency-Key and changes nothing.
Send(w) ==
  LET m == worker[w].msg IN
  /\ worker[w].step = "send"
  /\ \/ /\ w \in Dark /\ Goto(w, "FAILED")
        /\ excused' = excused \cup {m} /\ UNCHANGED accepted
     \/ /\ w \notin Dark /\ Goto(w, "SENT")
        /\ accepted' = accepted \cup {m} /\ UNCHANGED excused
  /\ UNCHANGED <<tableVars, queueVars, failures, bounceVars, faults>>

\* Mutant: a failed write is logged and the handler returns.
WriteUnchecked(w) ==
  /\ worker[w].step \in {"SENT", "FAILED"}
  /\ SetTerminal(worker[w].msg, worker[w].step) \/ UNCHANGED row
  /\ Goto(w, "ack")
  /\ UNCHANGED <<age, queueVars, failures, accepted, bounceVars, excused, faults>>

Write(w) ==
  /\ worker[w].step \in {"SENT", "FAILED"}
  /\ SetTerminal(worker[w].msg, worker[w].step)
  /\ Goto(w, "ack")
  /\ UNCHANGED <<age, queueVars, failures, accepted, bounceVars, excused, faults>>

\* The handler returned: BullMQ completes the job if it is still this worker's.
Ack(w) ==
  LET m == worker[w].msg IN
  /\ worker[w].step = "ack"
  /\ job' = IF job[m].holder = w
              THEN [job EXCEPT ![m].state = "completed", ![m].holder = Nobody] ELSE job
  /\ worker' = [worker EXCEPT ![w] = Idle]
  /\ UNCHANGED <<tableVars, callers, todo, failures, accepted, bounceVars, excused, faults>>

\* Mutant: one attempt too many.
ThrowLate(w) ==
  LET m == worker[w].msg
      k == job[m].made + 1
  IN
  /\ worker' = [worker EXCEPT ![w] = Idle]
  /\ IF job[m].holder = w
       THEN /\ job' = [job EXCEPT ![m] = [@ EXCEPT
                         !.state = IF k <= Attempts THEN "waiting" ELSE "failed",
                         !.made = k, !.holder = Nobody]]
            /\ failures' = [failures EXCEPT ![w] = @ \cup {<<m, k>>}]
            /\ excused' = IF k < Attempts THEN excused ELSE excused \cup {m}
       ELSE UNCHANGED <<job, failures, excused>>
  /\ UNCHANGED <<tableVars, callers, todo, bounceVars>>

\* The handler threw: another attempt, or none is left.  BullMQ emits 'failed'
\* either way.  A job taken away meanwhile is not this worker's to fail.
Throw(w) ==
  LET m == worker[w].msg
      k == job[m].made + 1
  IN
  /\ worker' = [worker EXCEPT ![w] = Idle]
  /\ IF job[m].holder = w
       THEN /\ job' = [job EXCEPT ![m] = [@ EXCEPT
                         !.state = IF k < Attempts THEN "waiting" ELSE "failed",
                         !.made = k, !.holder = Nobody]]
            /\ failures' = [failures EXCEPT ![w] = @ \cup {<<m, k>>}]
            /\ excused' = IF k < Attempts THEN excused ELSE excused \cup {m}
       ELSE UNCHANGED <<job, failures, excused>>
  /\ UNCHANGED <<tableVars, callers, todo, bounceVars>>

\* The provider refuses the message.
Refuse(w) ==
  /\ worker[w].step = "send" /\ w \notin Dark
  /\ Throw(w)
  /\ UNCHANGED <<accepted, faults>>

\* The provider takes the message and its answer is lost.
LoseAnswer(w) ==
  /\ worker[w].step = "send" /\ w \notin Dark
  /\ Fault /\ Throw(w)
  /\ accepted' = accepted \cup {worker[w].msg}

\* The read or the write of the row fails.
DatabaseFails(w) ==
  /\ worker[w].step \in {"load", "SENT", "FAILED"}
  /\ Fault /\ Throw(w)
  /\ UNCHANGED accepted

\* Mutant: every failed attempt is taken for the last one.
OnEmailJobFailedEachTime(w) ==
  \E f \in failures[w] :
    /\ failures' = [failures EXCEPT ![w] = @ \ {f}]
    /\ SetTerminal(f[1], "FAILED")
    /\ UNCHANGED <<age, queueVars, worker, accepted, bounceVars, excused, faults>>

\* Only the last attempt is terminal; a failed write is only logged.
OnEmailJobFailed(w) ==
  \E f \in failures[w] :
    /\ failures' = [failures EXCEPT ![w] = @ \ {f}]
    /\ \/ f[2] < Attempts /\ UNCHANGED <<row, faults>>
       \/ f[2] >= Attempts /\ SetTerminal(f[1], "FAILED") /\ UNCHANGED faults
       \/ f[2] >= Attempts /\ Fault /\ UNCHANGED row
    /\ UNCHANGED <<age, queueVars, worker, accepted, bounceVars, excused>>

Crash(w) ==
  /\ Fault
  /\ worker' = [worker EXCEPT ![w] = Idle]
  /\ failures' = [failures EXCEPT ![w] = {}]
  /\ job' = [m \in Messages |-> IF job[m].holder = w THEN [job[m] EXCEPT !.holder = Nobody]
                                                    ELSE job[m]]
  /\ UNCHANGED <<tableVars, callers, todo, accepted, bounceVars, excused>>

-----------------------------------------------------------------------------
(* BullMQ                                                                   *)

\* The lock of an active job runs out, its worker dead or only slow: it waits
\* again, or has stalled too often and fails, whether or not that counts as an
\* attempt.
Stall(m) ==
  /\ job[m].state = "active"
  /\ \/ job[m].holder = Nobody /\ UNCHANGED faults
     \/ job[m].holder # Nobody /\ Fault
  /\ \/ /\ job[m].stalls < MaxStalls
        /\ job' = [job EXCEPT ![m] = [@ EXCEPT !.state = "waiting", !.holder = Nobody,
                                               !.stalls = job[m].stalls + 1]]
        /\ UNCHANGED <<failures, excused>>
     \/ /\ job[m].stalls = MaxStalls
        /\ \E k \in {job[m].made, job[m].made + 1}, w \in Workers :
             /\ job' = [job EXCEPT ![m] = [@ EXCEPT !.state = "failed", !.made = k,
                                                    !.holder = Nobody]]
             /\ failures' = [failures EXCEPT ![w] = @ \cup {<<m, k>>}]
             /\ excused' = IF k < Attempts THEN excused ELSE excused \cup {m}
  /\ UNCHANGED <<tableVars, callers, todo, worker, accepted, bounceVars>>

\* removeOnComplete, removeOnFail: enough other jobs have ended.
Evict(m) ==
  /\ job[m].state \in {"completed", "failed"}
  /\ Fault
  /\ job' = [job EXCEPT ![m] = NoJob]
  /\ UNCHANGED <<tableVars, callers, todo, workerVars, accepted, bounceVars, excused>>

-----------------------------------------------------------------------------
(* The sweep: outboxDbPhase and outboxSideEffects                            *)

\* Rows age in the order of their sentAt.
OldestOf(m, g) ==
  \A k \in Messages : SentAt[k] < SentAt[m] => ~(Queued(k) /\ age[k] = g)

GoStale(m) ==
  /\ Queued(m) /\ age[m] = "fresh" /\ OldestOf(m, "fresh")
  /\ age' = [age EXCEPT ![m] = "stale"]
  /\ UNCHANGED <<row, queueVars, workerVars, accepted, bounceVars, excused, faults>>

GoOld(m) ==
  /\ Queued(m) /\ age[m] = "stale" /\ OldestOf(m, "stale")
  /\ age' = [age EXCEPT ![m] = "old"]
  /\ UNCHANGED <<row, queueVars, workerVars, accepted, bounceVars, excused, faults>>

\* orderBy sentAt, take RECONCILE_BATCH.  Phase B starts no more than phaseBMaxItems
\* of them, in that order: the others are left out of todo at once.
Limit == IF MaxItems < Batch THEN MaxItems ELSE Batch
Stale == {m \in Messages : Queued(m) /\ age[m] = "stale"}
Selections ==
  {S \in SUBSET Stale :
     /\ Cardinality(S) = Limit \/ (S = Stale /\ Cardinality(S) < Limit)
     /\ \A m \in S, k \in Stale \ S : SentAt[m] <= SentAt[k]}

\* Mutant: old rows are only no longer selected.
PhaseAWithoutExpiry ==
  /\ \E S \in Selections : todo' = todo \cup S
  /\ UNCHANGED <<row, age, callers, job, workerVars, accepted, bounceVars, excused, faults>>

\* One transaction: old rows are FAILED, the oldest stale ones selected.  A sweep
\* starts before another's Phase B has ended if they run on two hosts.
PhaseA ==
  /\ row' = [m \in Messages |->
               IF Queued(m) /\ age[m] = "old"
                 THEN [row[m] EXCEPT !.status = "FAILED", !.payload = FALSE] ELSE row[m]]
  /\ \E S \in Selections : todo' = todo \cup S
  /\ UNCHANGED <<age, callers, job, workerVars, accepted, bounceVars, excused, faults>>

\* Mutant: a row is only enqueued again by the request that wrote it.
PhaseBIdle(m) ==
  /\ m \in todo
  /\ todo' = todo \ {m}
  /\ UNCHANGED <<tableVars, callers, job, workerVars, accepted, bounceVars, excused, faults>>

\* A selected row is enqueued again; the add may fail.
PhaseB(m) ==
  /\ m \in todo
  /\ todo' = todo \ {m}
  /\ \/ AddJob(m) /\ UNCHANGED faults
     \/ Fault /\ UNCHANGED job
  /\ UNCHANGED <<tableVars, callers, workerVars, accepted, bounceVars, excused>>

\* Out of phaseBBudgetMs, stopping, or dead: the rest waits for the next sweep.
SweepStops ==
  /\ todo # {} /\ todo' = {}
  /\ Fault
  /\ UNCHANGED <<tableVars, callers, job, workerVars, accepted, bounceVars, excused>>

-----------------------------------------------------------------------------
(* The provider's bounces: handleResendWebhookEvent                          *)

\* Mutant: the flip does not ask whether the row is BOUNCED already.
BounceAgain(m) ==
  /\ m \in accepted /\ row[m].externalId
  /\ row' = [row EXCEPT ![m].status = "BOUNCED"]
  /\ counting' = [counting EXCEPT ![m] = @ + 1]
  /\ UNCHANGED <<age, queueVars, workerVars, accepted, bounces, excused, faults>>

\* Delivered any number of times.  It finds the row by its externalId; an event
\* that comes before the SENT write, or again, changes nothing.
Bounce(m) ==
  /\ m \in accepted /\ row[m].externalId /\ row[m].status # "BOUNCED"
  /\ row' = [row EXCEPT ![m].status = "BOUNCED"]
  /\ counting' = [counting EXCEPT ![m] = @ + 1]
  /\ UNCHANGED <<age, queueVars, workerVars, accepted, bounces, excused, faults>>

\* recordEmailBounce, unless the handler dies first.
CountBounce(m) ==
  /\ counting[m] > 0
  /\ counting' = [counting EXCEPT ![m] = @ - 1]
  /\ \/ bounces' = [bounces EXCEPT ![m] = @ + 1] /\ UNCHANGED faults
     \/ Fault /\ UNCHANGED bounces
  /\ UNCHANGED <<tableVars, queueVars, workerVars, accepted, excused>>

-----------------------------------------------------------------------------

ProcessEmailJob(w) == Take(w) \/ Load(w) \/ Send(w) \/ Write(w) \/ Ack(w)

Next ==
  \/ \E m \in Messages : Commit(m) \/ Enqueue(m) \/ Stall(m) \/ Evict(m)
  \/ \E m \in Messages : GoStale(m) \/ GoOld(m) \/ PhaseB(m) \/ Bounce(m) \/ CountBounce(m)
  \/ \E w \in Workers : \/ ProcessEmailJob(w) \/ Refuse(w) \/ LoseAnswer(w)
                        \/ DatabaseFails(w) \/ OnEmailJobFailed(w) \/ Crash(w)
  \/ PhaseA \/ SweepStops

Spec == Init /\ [][Next]_vars

\* Live workers work, lost locks are noticed, rows reach the grace age, and sweeps
\* run and go through their rows.  Nothing is assumed of the request that enqueues.
Fairness ==
  /\ \A w \in Workers : WF_vars(ProcessEmailJob(w) \/ Refuse(w))
  /\ \A m \in Messages : WF_vars(Stall(m) /\ job[m].holder = Nobody)
  /\ \A m \in Messages : WF_vars(GoStale(m)) /\ WF_vars(PhaseB(m))
  /\ WF_vars(PhaseA)

FairSpec == Spec /\ Fairness

-----------------------------------------------------------------------------
(* Properties.                                                              *)

\* A reset link or a branch PIN is in the table exactly as long as it may still be
\* sent: no writer, the bounce webhook included, leaves a terminal row with its
\* payload, none a QUEUED row without it.
PayloadOnlyWhileQueued == \A m \in Messages : row[m].payload <=> Queued(m)

\* A row is SENT, or BOUNCED, only if the provider took the message.
SentWasAccepted ==
  \A m \in Messages : row[m].status \in {"SENT", "BOUNCED"} => m \in accepted

\* A message is given up only when it is a day old, a worker in dark mode had it, or
\* a job's attempts are used up: one failed attempt, or a stall, is no reason.
GivenUpForAReason ==
  \A m \in Messages : row[m].status = "FAILED" =>
    age[m] = "old" \/ m \in excused

\* BullMQ never holds a completed job of a row that is still QUEUED: its id would
\* turn every later enqueue into a no-op.
CompletedIsSettled ==
  \A m \in Messages : job[m].state = "completed" => ~Queued(m)

\* However often a bounce is reported, it is counted once, and only for a row that
\* it flipped: retries cannot pause all sending.
BounceCountedOnce ==
  \A m \in Messages :
    /\ counting[m] + bounces[m] <= 1
    /\ counting[m] + bounces[m] > 0 => row[m].status = "BOUNCED"

\* What Delivery sees of the table, the provider and the webhook.
Log == [m \in Messages |-> row[m].status]
Lapsed == excused \cup {m \in Messages : age[m] = "old"}
Counted == {m \in Messages : bounces[m] > 0}

D == INSTANCE Delivery WITH log <- Log, taken <- accepted, lapsed <- Lapsed, counted <- Counted

\* Workers on the same message, the sweep and the webhook never undo a status, and take
\* each step only when what Delivery asks for it has happened, wherever a worker dies or
\* stalls (email.ts:48-110, outboxReconciler.ts:97-132, webhooks/resend.ts:78-108).
ImplementsDelivery == D!Spec

\* A lost enqueue, a dead worker or a stall strands a message, until its expiry, only
\* when its job failed for good, or when the sweep's batch is filled by older rows
\* whose failed jobs BullMQ retains (outboxReconciler.ts:120-125, index.ts:59).
Stuck(m) == m \in Stale /\ job[m].state = "failed"
BatchIsStuck(m) ==
  Cardinality({k \in Messages \ {m} : Stuck(k) /\ SentAt[k] <= SentAt[m]}) >= Limit

RowIsSettled ==
  \A m \in Messages :
    Queued(m) ~> \/ ~Queued(m) \/ age[m] = "old"
                 \/ job[m].state = "failed" \/ BatchIsStuck(m)

\* And none stays QUEUED for ever, whatever became of its job.
OldRowExpires == \A m \in Messages : (Queued(m) /\ age[m] = "old") ~> ~Queued(m)
=============================================================================
