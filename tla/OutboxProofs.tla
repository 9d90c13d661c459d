----------------------------- MODULE OutboxProofs -----------------------------
(***************************************************************************)
(* The safety of Outbox, for any number of messages, workers and faults.    *)
(*                                                                         *)
(* What the workers hold between two steps is what the properties rest on:  *)
(* a worker about to write SENT has been answered by the provider, one      *)
(* about to write FAILED was in dark mode, one about to acknowledge has     *)
(* left its row terminal; and a job has a holder only while it is active.   *)
(***************************************************************************)
EXTENDS Outbox, TLAPS

Settled(m) == row[m].status \in {"SENT", "FAILED", "BOUNCED"}

RowInv ==
  /\ PayloadOnlyWhileQueued /\ SentWasAccepted /\ GivenUpForAReason
  /\ BounceCountedOnce
  /\ \A m \in Messages : row[m].externalId => row[m].status \in {"SENT", "BOUNCED"}

\* Nothing is known of a message before its row is committed.
CommittedInv ==
  \A m \in Messages : row[m].status = "none" =>
    /\ m \notin callers /\ m \notin todo /\ job[m].state = "none"
    /\ \A w \in Workers : worker[w].msg # m

WorkerInv ==
  \A w \in Workers :
    /\ worker[w].step = "SENT" => worker[w].msg \in accepted
    /\ worker[w].step = "FAILED" => worker[w].msg \in excused
    /\ worker[w].step = "ack" => Settled(worker[w].msg)

JobInv ==
  \A m \in Messages :
    /\ job[m].state \in {"waiting", "active"} => job[m].made < Attempts
    /\ job[m].holder # Nobody => job[m].state = "active"
    /\ job[m].state = "completed" => Settled(m)

FailureInv ==
  \A w \in Workers : \A f \in failures[w] : f[2] >= Attempts => f[1] \in excused

Inv == TypeOK /\ RowInv /\ CommittedInv /\ WorkerInv /\ JobInv /\ FailureInv

\* What the steps of the table promise to the rest.
Onwards ==
  /\ accepted \subseteq accepted' /\ excused \subseteq excused'
  /\ \A m \in Messages : Settled(m) => Settled(m)'
  /\ \A m \in Messages : row'[m].status = "none" => row[m].status = "none"

-----------------------------------------------------------------------------

\* The table changes as SetTerminal does, for a reason that holds.
LEMMA TerminalKeeps ==
  ASSUME Inv, NEW m \in Messages, NEW st \in {"SENT", "FAILED"}, SetTerminal(m, st),
         row[m].status # "none",
         st = "SENT" => m \in accepted, st = "FAILED" => m \in excused,
         UNCHANGED <<age, accepted, counting, bounces, excused>>
  PROVE  row' \in [Messages -> Rows] /\ RowInv' /\ Onwards /\ Settled(m)'
<1>1. CASE Queued(m)
  <2>1. /\ row'[m].status = st /\ row'[m].payload = FALSE
        /\ row'[m].externalId => st = "SENT"
        /\ \A x \in Messages \ {m} : row'[x] = row[x]
        /\ row' \in [Messages -> Rows]
    <3>1. PICK t \in TerminalRows(st) : row' = [row EXCEPT ![m] = t]
      BY <1>1 DEF SetTerminal
    <3>2. t \in Rows /\ t.status = st /\ t.payload = FALSE /\ (t.externalId => st = "SENT")
      BY DEF TerminalRows, Rows, Statuses
    <3>3. row \in [Messages -> Rows]
      BY DEF Inv, TypeOK
    <3> QED
      BY <3>1, <3>2, <3>3
  <2>2. PayloadOnlyWhileQueued' /\ SentWasAccepted' /\ GivenUpForAReason'
    <3>1. PayloadOnlyWhileQueued'
      BY <2>1 DEF Inv, RowInv, PayloadOnlyWhileQueued, Queued
    <3>2. SentWasAccepted'
      BY <2>1 DEF Inv, RowInv, SentWasAccepted
    <3>3. GivenUpForAReason'
      BY <2>1 DEF Inv, RowInv, GivenUpForAReason
    <3> QED
      BY <3>1, <3>2, <3>3
  <2>3. BounceCountedOnce'
    BY <1>1, <2>1 DEF Inv, RowInv, BounceCountedOnce, Queued
  <2>4. \A x \in Messages : row'[x].externalId => row'[x].status \in {"SENT", "BOUNCED"}
    BY <2>1 DEF Inv, RowInv
  <2>5. Onwards /\ Settled(m)'
    BY <1>1, <2>1 DEF Onwards, Settled, Queued
  <2> QED
    BY <2>1, <2>2, <2>3, <2>4, <2>5 DEF RowInv
<1>2. CASE ~Queued(m)
  <2>1. row' = row
    BY <1>2 DEF SetTerminal
  <2>2. Settled(m)'
    BY <1>2, <2>1 DEF Settled, Queued, Inv, TypeOK, Rows, Statuses
  <2> QED
    BY <2>1, <2>2 DEF Inv, TypeOK, RowInv, PayloadOnlyWhileQueued, SentWasAccepted,
       GivenUpForAReason, BounceCountedOnce, Queued, Settled, Onwards
<1> QED
  BY <1>1, <1>2

\* The table stays, what it is compared with may grow.
LEMMA RowsStay ==
  ASSUME Inv, UNCHANGED <<row, age, counting, bounces>>, accepted \subseteq accepted',
         excused \subseteq excused'
  PROVE  RowInv' /\ Onwards
BY DEF Inv, RowInv, PayloadOnlyWhileQueued, SentWasAccepted, GivenUpForAReason,
   BounceCountedOnce, Queued, Settled, Onwards

\* Steps of neither a worker nor the queue.
LEMMA OthersStay ==
  ASSUME Inv, UNCHANGED <<worker, failures, job>>, Onwards
  PROVE  WorkerInv' /\ JobInv' /\ FailureInv'
<1>1. WorkerInv'
  BY DEF Inv, TypeOK, WorkerInv, Onwards
<1>2. JobInv'
  BY DEF Inv, JobInv, Onwards
<1>3. FailureInv'
  BY DEF Inv, FailureInv, Onwards
<1> QED
  BY <1>1, <1>2, <1>3

-----------------------------------------------------------------------------

LEMMA CommitKeeps ==
  ASSUME Inv, NEW m \in Messages, Commit(m)
  PROVE  Inv'
<1>1. /\ row'[m] = [status |-> "QUEUED", payload |-> TRUE, externalId |-> FALSE]
      /\ \A x \in Messages \ {m} : row'[x] = row[x]
      /\ row' \in [Messages -> Rows]
      /\ row[m].status = "none"
  BY DEF Commit, Inv, TypeOK, Rows, Statuses
<1>2. /\ UNCHANGED <<age, job, todo, worker, failures, accepted, counting, bounces, excused, faults>>
      /\ callers' = callers \cup {m}
  BY DEF Commit, workerVars, bounceVars
<1>3. TypeOK'
  BY <1>1, <1>2 DEF Inv, TypeOK
<1>4. RowInv'
  BY <1>1, <1>2 DEF Inv, RowInv, PayloadOnlyWhileQueued, SentWasAccepted,
     GivenUpForAReason, BounceCountedOnce, Queued
<1>5. Onwards
  BY <1>1, <1>2 DEF Onwards, Settled
<1>6. CommittedInv'
  BY <1>1, <1>2 DEF Inv, CommittedInv
<1> QED
  BY <1>2, <1>3, <1>4, <1>5, <1>6, OthersStay DEF Inv

LEMMA NewJobType == NewJob \in Jobs /\ NoJob \in Jobs
BY OutboxAssumption DEF NewJob, NoJob, Jobs, JobStates

\* A job is added, or not: notify() and Phase B.
LEMMA AddJobKeeps ==
  ASSUME Inv, NEW m \in Messages, AddJob(m) \/ UNCHANGED job, row[m].status # "none",
         UNCHANGED <<row, age, worker, failures, accepted, counting, bounces, excused>>,
         callers' \subseteq callers, todo' \subseteq todo, faults' \in 0 .. MaxFaults
  PROVE  Inv'
<1>1. /\ job' \in [Messages -> Jobs]
      /\ \A x \in Messages : job'[x] = job[x] \/ (x = m /\ job'[x] = NewJob)
  <2>1. job \in [Messages -> Jobs]
    BY DEF Inv, TypeOK
  <2>2. CASE job' = job
    BY <2>1, <2>2
  <2>3. CASE job' = [job EXCEPT ![m] = NewJob]
    BY <2>1, <2>3, NewJobType
  <2> QED
    BY <2>2, <2>3 DEF AddJob
<1>2. TypeOK'
  BY <1>1 DEF Inv, TypeOK
<1>3. RowInv' /\ Onwards
  BY RowsStay
<1>4. JobInv'
  <2> SUFFICES ASSUME NEW x \in Messages, job'[x] = NewJob \/ job'[x] = job[x]
               PROVE  /\ job'[x].state \in {"waiting", "active"} => job'[x].made < Attempts
                      /\ job'[x].holder # Nobody => job'[x].state = "active"
                      /\ job'[x].state = "completed" => Settled(x)'
    BY <1>1 DEF JobInv
  <2>1. CASE job'[x] = NewJob
    BY <2>1, OutboxAssumption DEF NewJob
  <2>2. CASE job'[x] = job[x]
    BY <2>2, <1>3 DEF Inv, JobInv, Onwards
  <2> QED
    BY <2>1, <2>2
<1>5. CommittedInv'
  BY <1>1 DEF Inv, CommittedInv
<1>6. WorkerInv'
  BY <1>3 DEF Inv, TypeOK, WorkerInv, Onwards
<1>7. FailureInv'
  BY DEF Inv, FailureInv
<1> QED
  BY <1>2, <1>3, <1>4, <1>5, <1>6, <1>7 DEF Inv

-----------------------------------------------------------------------------
(* The worker.                                                              *)

LEMMA TakeKeeps ==
  ASSUME Inv, NEW w \in Workers, Take(w)
  PROVE  Inv'
<1>1. PICK m \in Messages :
        /\ job[m].state = "waiting"
        /\ job' = [job EXCEPT ![m].state = "active", ![m].holder = w]
        /\ worker' = [worker EXCEPT ![w] = [step |-> "load", msg |-> m]]
  BY DEF Take
<1>2. UNCHANGED <<row, age, callers, todo, failures, accepted, counting, bounces, excused, faults>>
  BY DEF Take, tableVars, bounceVars
<1>3. /\ job'[m].state = "active" /\ job'[m].made = job[m].made
      /\ \A x \in Messages \ {m} : job'[x] = job[x]
      /\ job' \in [Messages -> Jobs]
  <2> DEFINE j == [job[m] EXCEPT !.state = "active", !.holder = w]
  <2>1. job[m] \in Jobs /\ job' = [job EXCEPT ![m] = j]
    BY <1>1 DEF Inv, TypeOK
  <2>2. j \in Jobs /\ j.state = "active" /\ j.made = job[m].made
    BY <2>1 DEF Jobs, JobStates
  <2> HIDE DEF j
  <2> QED
    BY <2>1, <2>2 DEF Inv, TypeOK
<1>4. /\ worker'[w] = [step |-> "load", msg |-> m]
      /\ \A v \in Workers \ {w} : worker'[v] = worker[v]
      /\ worker' \in [Workers -> [step : Steps, msg : Messages \cup {NoMessage}]]
  BY <1>1 DEF Inv, TypeOK, Steps
<1>5. TypeOK'
  <2>1. \A v \in Workers : worker'[v].step # "idle" => worker'[v].msg \in Messages
    BY <1>4 DEF Inv, TypeOK
  <2> QED
    BY <1>2, <1>3, <1>4, <2>1 DEF Inv, TypeOK
<1>6. RowInv' /\ Onwards
  BY <1>2, RowsStay
<1>7. JobInv'
  BY <1>1, <1>2, <1>3 DEF Inv, JobInv, Settled
<1>8. WorkerInv'
  BY <1>2, <1>4 DEF Inv, WorkerInv, Settled
<1>9. FailureInv'
  BY <1>2 DEF Inv, FailureInv
<1>10. CommittedInv'
  BY <1>1, <1>2, <1>3, <1>4 DEF Inv, CommittedInv
<1> QED
  BY <1>5, <1>6, <1>7, <1>8, <1>9, <1>10 DEF Inv

\* A worker goes on with its message.
LEMMA GotoKeeps ==
  ASSUME Inv, NEW w \in Workers, NEW s \in Steps, worker[w].step # "idle", Goto(w, s),
         NEW m \in Messages, worker[w].msg = m,
         Onwards, UNCHANGED <<failures, job, callers, todo>>,
         s = "SENT" => m \in accepted', s = "FAILED" => m \in excused',
         s = "ack" => Settled(m)'
  PROVE  /\ worker' \in [Workers -> [step : Steps, msg : Messages \cup {NoMessage}]]
         /\ \A v \in Workers : worker'[v].step # "idle" => worker'[v].msg \in Messages
         /\ CommittedInv' /\ WorkerInv' /\ JobInv' /\ FailureInv'
<1>1. /\ worker'[w].step = s
      /\ \A v \in Workers : worker'[v].msg = worker[v].msg
      /\ \A v \in Workers \ {w} : worker'[v] = worker[v]
      /\ worker' \in [Workers -> [step : Steps, msg : Messages \cup {NoMessage}]]
  BY DEF Goto, Inv, TypeOK
<1>2. \A v \in Workers : worker'[v].step # "idle" => worker'[v].msg \in Messages
  BY <1>1 DEF Inv, TypeOK
<1>3. WorkerInv'
  <2>1. \A v \in Workers \ {w} : worker[v].step = "ack" => worker[v].msg \in Messages
    BY DEF Inv, TypeOK
  <2> QED
    BY <1>1, <2>1 DEF Inv, WorkerInv, Onwards
<1>4. FailureInv'
  BY DEF Inv, FailureInv, Onwards
<1>5. JobInv'
  BY DEF Inv, JobInv, Onwards
<1>6. CommittedInv'
  BY <1>1 DEF Inv, CommittedInv, Onwards
<1> QED
  BY <1>1, <1>2, <1>3, <1>4, <1>5, <1>6

LEMMA LoadKeeps ==
  ASSUME Inv, NEW w \in Workers, Load(w)
  PROVE  Inv'
<1> PICK m \in Messages : m = worker[w].msg
  BY DEF Load, Inv, TypeOK
<1> DEFINE s == IF ~Queued(m) THEN "ack"
                ELSE IF row[m].payload THEN "send" ELSE "FAILED"
<1>1. UNCHANGED <<row, age, callers, job, todo, failures, accepted, counting, bounces, excused,
                  faults>>
  BY DEF Load, tableVars, queueVars, bounceVars
<1>2. worker[w].step = "load" /\ Goto(w, s)
  BY DEF Load
<1>3. RowInv' /\ Onwards
  BY <1>1, RowsStay
<1>4. s \in {"ack", "send"}
  BY <1>2 DEF Inv, RowInv, PayloadOnlyWhileQueued
<1>5. row[m].status # "none"
  BY <1>2 DEF Inv, CommittedInv
<1>6. s = "ack" => Settled(m)'
  BY <1>1, <1>2, <1>5 DEF Inv, TypeOK, Rows, Statuses, Queued, Settled
<1>7. /\ worker' \in [Workers -> [step : Steps, msg : Messages \cup {NoMessage}]]
      /\ \A v \in Workers : worker'[v].step # "idle" => worker'[v].msg \in Messages
      /\ CommittedInv' /\ WorkerInv' /\ JobInv' /\ FailureInv'
  <2> HIDE DEF s
  <2> QED
    BY <1>1, <1>2, <1>3, <1>4, <1>6, GotoKeeps DEF Steps
<1> QED
  BY <1>1, <1>3, <1>7 DEF Inv, TypeOK

LEMMA SendKeeps ==
  ASSUME Inv, NEW w \in Workers, Send(w)
  PROVE  Inv'
<1> PICK m \in Messages : m = worker[w].msg
  BY DEF Send, Inv, TypeOK
<1>1. UNCHANGED <<row, age, callers, job, todo, failures, counting, bounces, faults>>
  BY DEF Send, tableVars, queueVars, bounceVars
<1>2. worker[w].step = "send"
  BY DEF Send
<1>3. \/ Goto(w, "FAILED") /\ excused' = excused \cup {m} /\ accepted' = accepted
      \/ Goto(w, "SENT") /\ accepted' = accepted \cup {m} /\ excused' = excused
  BY DEF Send
<1>4. RowInv' /\ Onwards
  BY <1>1, <1>3, RowsStay
<1>5. /\ worker' \in [Workers -> [step : Steps, msg : Messages \cup {NoMessage}]]
      /\ \A v \in Workers : worker'[v].step # "idle" => worker'[v].msg \in Messages
      /\ CommittedInv' /\ WorkerInv' /\ JobInv' /\ FailureInv'
  <2>1. CASE Goto(w, "FAILED") /\ excused' = excused \cup {m}
    BY <1>1, <1>2, <1>4, <2>1, GotoKeeps DEF Steps
  <2>2. CASE Goto(w, "SENT") /\ accepted' = accepted \cup {m}
    BY <1>1, <1>2, <1>4, <2>2, GotoKeeps DEF Steps
  <2> QED
    BY <1>3, <2>1, <2>2
<1> QED
  BY <1>1, <1>2, <1>3, <1>4, <1>5 DEF Inv, TypeOK

LEMMA WriteKeeps ==
  ASSUME Inv, NEW w \in Workers, Write(w)
  PROVE  Inv'
<1> PICK m \in Messages : m = worker[w].msg
  BY DEF Write, Inv, TypeOK
<1> PICK st \in {"SENT", "FAILED"} : st = worker[w].step
  BY DEF Write
<1>1. UNCHANGED <<age, callers, job, todo, failures, accepted, counting, bounces, excused, faults>>
  BY DEF Write, queueVars, bounceVars
<1>2. SetTerminal(m, st) /\ Goto(w, "ack")
  BY DEF Write
<1>3. /\ row[m].status # "none"
      /\ st = "SENT" => m \in accepted
      /\ st = "FAILED" => m \in excused
  BY <1>2 DEF Inv, CommittedInv, WorkerInv
<1>4. row' \in [Messages -> Rows] /\ RowInv' /\ Onwards /\ Settled(m)'
  BY <1>1, <1>2, <1>3, TerminalKeeps
<1>5. /\ worker' \in [Workers -> [step : Steps, msg : Messages \cup {NoMessage}]]
      /\ \A v \in Workers : worker'[v].step # "idle" => worker'[v].msg \in Messages
      /\ CommittedInv' /\ WorkerInv' /\ JobInv' /\ FailureInv'
  BY <1>1, <1>2, <1>4, GotoKeeps DEF Steps
<1> QED
  BY <1>1, <1>4, <1>5 DEF Inv, TypeOK

\* A worker lets go of its message; the jobs change for a reason that holds.
LEMMA IdleKeeps ==
  ASSUME Inv, NEW w \in Workers, worker' = [worker EXCEPT ![w] = Idle], Onwards,
         callers' \subseteq callers, todo' \subseteq todo,
         \A m \in Messages : job[m].state = "none" => job'[m].state = "none"
  PROVE  /\ worker' \in [Workers -> [step : Steps, msg : Messages \cup {NoMessage}]]
         /\ \A v \in Workers : worker'[v].step # "idle" => worker'[v].msg \in Messages
         /\ CommittedInv' /\ WorkerInv'
<1>1. /\ worker'[w] = Idle
      /\ \A v \in Workers \ {w} : worker'[v] = worker[v]
      /\ worker' \in [Workers -> [step : Steps, msg : Messages \cup {NoMessage}]]
  BY DEF Inv, TypeOK, Idle, Steps
<1>2. \A v \in Workers : worker'[v].step # "idle" => worker'[v].msg \in Messages
  BY <1>1 DEF Inv, TypeOK, Idle
<1>3. CommittedInv'
  BY <1>1, OutboxAssumption DEF Inv, CommittedInv, Onwards, Idle
<1>4. WorkerInv'
  <2>1. \A v \in Workers \ {w} : worker[v].step = "ack" => worker[v].msg \in Messages
    BY DEF Inv, TypeOK
  <2> QED
    BY <1>1, <2>1 DEF Inv, WorkerInv, Onwards, Idle
<1> QED
  BY <1>1, <1>2, <1>3, <1>4

LEMMA AckKeeps ==
  ASSUME Inv, NEW w \in Workers, Ack(w)
  PROVE  Inv'
<1> PICK m \in Messages : m = worker[w].msg
  BY DEF Ack, Inv, TypeOK
<1>1. /\ UNCHANGED <<row, age, callers, todo, failures, accepted, counting, bounces, excused, faults>>
      /\ worker' = [worker EXCEPT ![w] = Idle]
      /\ \/ job' = [job EXCEPT ![m].state = "completed", ![m].holder = Nobody]
         \/ job' = job
      /\ job' # job => job[m].holder = w
  BY DEF Ack, tableVars, bounceVars
<1>2. RowInv' /\ Onwards
  BY <1>1, RowsStay
<1>3. /\ job' \in [Messages -> Jobs]
      /\ \A x \in Messages : \/ job'[x] = job[x]
                             \/ /\ x = m /\ job'[x].state = "completed"
                                /\ job'[x].holder = Nobody /\ job[m].holder = w
  <2>1. job \in [Messages -> Jobs]
    BY DEF Inv, TypeOK
  <2>2. CASE job' = job
    BY <2>1, <2>2, SMTT(30)
  <2>3. CASE job' # job
    <3>1. job' = [job EXCEPT ![m].state = "completed", ![m].holder = Nobody]
      BY <1>1, <2>3
    <3> QED
      BY <1>1, <2>1, <2>3, <3>1 DEF Jobs, JobStates
  <2> QED
    BY <2>2, <2>3
<1>4. Settled(m)
  BY DEF Ack, Inv, WorkerInv
<1>5. \A x \in Messages : job[x].state = "none" => job'[x].state = "none"
  BY <1>3, OutboxAssumption DEF Inv, JobInv
<1>6. JobInv'
  BY <1>1, <1>3, <1>4 DEF Inv, JobInv, Settled
<1>7. /\ worker' \in [Workers -> [step : Steps, msg : Messages \cup {NoMessage}]]
      /\ \A v \in Workers : worker'[v].step # "idle" => worker'[v].msg \in Messages
      /\ CommittedInv' /\ WorkerInv'
  BY <1>1, <1>2, <1>5, IdleKeeps
<1>8. FailureInv'
  BY <1>1 DEF Inv, FailureInv
<1> QED
  BY <1>1, <1>2, <1>3, <1>6, <1>7, <1>8 DEF Inv, TypeOK

\* The job of m takes the record j, and fails or waits again.
LEMMA JobChanges ==
  ASSUME Inv, NEW m \in Messages, NEW j \in Jobs, job' = [job EXCEPT ![m] = j], Onwards,
         job[m].state # "none", j.state \in {"waiting", "failed"}, j.holder = Nobody,
         j.state = "waiting" => j.made < Attempts
  PROVE  /\ job' \in [Messages -> Jobs] /\ JobInv'
         /\ \A x \in Messages : job[x].state = "none" => job'[x].state = "none"
<1>1. /\ job'[m] = j /\ \A x \in Messages \ {m} : job'[x] = job[x]
      /\ job' \in [Messages -> Jobs]
  BY DEF Inv, TypeOK
<1>2. JobInv'
  BY <1>1 DEF Inv, JobInv, Onwards
<1> QED
  BY <1>1, <1>2

\* An attempt is noted with its number.
LEMMA FailureNoted ==
  ASSUME Inv, NEW v \in Workers, NEW m \in Messages, NEW k \in 0 .. Attempts,
         failures' = [failures EXCEPT ![v] = @ \cup {<<m, k>>}],
         excused' = IF k < Attempts THEN excused ELSE excused \cup {m}
  PROVE  /\ failures' \in [Workers -> SUBSET (Messages \X (0 .. Attempts))]
         /\ FailureInv' /\ excused \subseteq excused' /\ excused' \subseteq Messages
<1>1. /\ failures'[v] = failures[v] \cup {<<m, k>>}
      /\ \A x \in Workers \ {v} : failures'[x] = failures[x]
      /\ failures' \in [Workers -> SUBSET (Messages \X (0 .. Attempts))]
  BY DEF Inv, TypeOK
<1>2. FailureInv'
  <2> SUFFICES ASSUME NEW x \in Workers, NEW f \in failures'[x], f[2] >= Attempts
               PROVE  f[1] \in excused'
    BY DEF FailureInv
  <2>1. CASE f \in failures[x]
    BY <2>1 DEF Inv, FailureInv
  <2>2. CASE f = <<m, k>>
    BY <2>2, OutboxAssumption
  <2> QED
    BY <1>1, <2>1, <2>2
<1> QED
  BY <1>1, <1>2 DEF Inv, TypeOK

LEMMA ThrowKeeps ==
  ASSUME Inv, NEW w \in Workers, Throw(w), worker[w].step # "idle",
         accepted' = accepted \/ accepted' = accepted \cup {worker[w].msg},
         faults' \in 0 .. MaxFaults
  PROVE  Inv'
<1> PICK m \in Messages : m = worker[w].msg
  BY DEF Inv, TypeOK
<1> DEFINE k == job[m].made + 1
           j == [job[m] EXCEPT !.state = IF k < Attempts THEN "waiting" ELSE "failed",
                               !.made = k, !.holder = Nobody]
<1>1. /\ UNCHANGED <<row, age, callers, todo, counting, bounces>>
      /\ worker' = [worker EXCEPT ![w] = Idle]
  BY DEF Throw, tableVars, bounceVars
<1>2. accepted \subseteq accepted' /\ accepted' \subseteq Messages
  BY DEF Inv, TypeOK
<1>3. /\ job' \in [Messages -> Jobs] /\ JobInv'
      /\ failures' \in [Workers -> SUBSET (Messages \X (0 .. Attempts))]
      /\ FailureInv' /\ excused \subseteq excused' /\ excused' \subseteq Messages
      /\ \A x \in Messages : job[x].state = "none" => job'[x].state = "none"
  <2>1. CASE job[m].holder = w
    <3>1. job[m].state = "active" /\ job[m].made < Attempts /\ job[m] \in Jobs
      BY <2>1, OutboxAssumption DEF Inv, JobInv, TypeOK
    <3>2. k \in 0 .. Attempts
      BY <3>1, OutboxAssumption DEF Jobs
    <3>3. /\ j \in Jobs /\ j.state \in {"waiting", "failed"} /\ j.holder = Nobody
          /\ j.state = "waiting" => j.made < Attempts
      BY <3>1, <3>2 DEF Jobs, JobStates
    <3>4. /\ job' = [job EXCEPT ![m] = j]
          /\ failures' = [failures EXCEPT ![w] = @ \cup {<<m, k>>}]
          /\ excused' = IF k < Attempts THEN excused ELSE excused \cup {m}
      BY <2>1 DEF Throw
    <3>5. /\ failures' \in [Workers -> SUBSET (Messages \X (0 .. Attempts))]
          /\ FailureInv' /\ excused \subseteq excused' /\ excused' \subseteq Messages
      BY <3>2, <3>4, FailureNoted
    <3>6. Onwards
      BY <1>1, <1>2, <3>5, RowsStay
    <3> HIDE DEF j, k
    <3> QED
      BY <3>1, <3>3, <3>4, <3>5, <3>6, JobChanges
  <2>2. CASE job[m].holder # w
    <3>1. UNCHANGED <<job, failures, excused>>
      BY <2>2 DEF Throw
    <3> QED
      BY <1>1, <3>1 DEF Inv, TypeOK, JobInv, FailureInv, Settled
  <2> QED
    BY <2>1, <2>2
<1>4. RowInv' /\ Onwards
  BY <1>1, <1>2, <1>3, RowsStay
<1>5. /\ worker' \in [Workers -> [step : Steps, msg : Messages \cup {NoMessage}]]
      /\ \A v \in Workers : worker'[v].step # "idle" => worker'[v].msg \in Messages
      /\ CommittedInv' /\ WorkerInv'
  BY <1>1, <1>3, <1>4, IdleKeeps
<1> QED
  BY <1>1, <1>2, <1>3, <1>4, <1>5 DEF Inv, TypeOK

LEMMA FaultBounded == ASSUME Inv, Fault PROVE faults' \in 0 .. MaxFaults
BY OutboxAssumption DEF Fault, Inv, TypeOK

LEMMA AttemptFailsKeeps ==
  ASSUME Inv, NEW w \in Workers, Refuse(w) \/ LoseAnswer(w) \/ DatabaseFails(w)
  PROVE  Inv'
<1>1. faults' \in 0 .. MaxFaults
  BY FaultBounded DEF Refuse, LoseAnswer, DatabaseFails, Inv, TypeOK
<1>2. /\ Throw(w) /\ worker[w].step # "idle"
      /\ accepted' = accepted \/ accepted' = accepted \cup {worker[w].msg}
  BY DEF Refuse, LoseAnswer, DatabaseFails
<1> QED
  BY <1>1, <1>2, ThrowKeeps

LEMMA OnFailedKeeps ==
  ASSUME Inv, NEW w \in Workers, OnEmailJobFailed(w)
  PROVE  Inv'
<1>1. PICK f \in failures[w] :
        /\ failures' = [failures EXCEPT ![w] = @ \ {f}]
        /\ \/ f[2] < Attempts /\ UNCHANGED <<row, faults>>
           \/ f[2] >= Attempts /\ SetTerminal(f[1], "FAILED") /\ UNCHANGED faults
           \/ f[2] >= Attempts /\ Fault /\ UNCHANGED row
  BY DEF OnEmailJobFailed
<1>2. UNCHANGED <<age, callers, job, todo, worker, accepted, counting, bounces, excused>>
  BY DEF OnEmailJobFailed, queueVars, bounceVars
<1>3. f[1] \in Messages /\ f[2] \in 0 .. Attempts
  BY DEF Inv, TypeOK
<1>4. faults' \in 0 .. MaxFaults
  BY <1>1, FaultBounded DEF Inv, TypeOK
<1>5. /\ failures' \in [Workers -> SUBSET (Messages \X (0 .. Attempts))]
      /\ \A v \in Workers : failures'[v] \subseteq failures[v]
  BY <1>1 DEF Inv, TypeOK
<1>6. FailureInv'
  BY <1>2, <1>5 DEF Inv, FailureInv
<1>7. row' \in [Messages -> Rows] /\ RowInv' /\ Onwards
  <2>1. CASE UNCHANGED row
    BY <1>2, <2>1, RowsStay DEF Inv, TypeOK
  <2>2. CASE f[2] >= Attempts /\ SetTerminal(f[1], "FAILED") /\ row[f[1]].status # "none"
    <3>1. f[1] \in excused
      BY <2>2 DEF Inv, FailureInv
    <3> QED
      BY <1>2, <1>3, <2>2, <3>1, TerminalKeeps
  <2>3. CASE SetTerminal(f[1], "FAILED") /\ row[f[1]].status = "none"
    <3>1. row' = row
      BY <2>3 DEF SetTerminal, Queued
    <3> QED
      BY <2>1, <3>1
  <2> QED
    BY <1>1, <2>1, <2>2, <2>3
<1>8. WorkerInv' /\ JobInv'
  BY <1>2, <1>7 DEF Inv, TypeOK, WorkerInv, JobInv, Onwards
<1>9. CommittedInv'
  BY <1>2, <1>7 DEF Inv, CommittedInv, Onwards
<1> QED
  BY <1>2, <1>4, <1>5, <1>6, <1>7, <1>8, <1>9 DEF Inv, TypeOK

LEMMA CrashKeeps ==
  ASSUME Inv, NEW w \in Workers, Crash(w)
  PROVE  Inv'
<1>1. /\ UNCHANGED <<row, age, callers, todo, accepted, counting, bounces, excused>>
      /\ worker' = [worker EXCEPT ![w] = Idle]
      /\ failures' = [failures EXCEPT ![w] = {}]
  BY DEF Crash, tableVars, bounceVars
<1>2. RowInv' /\ Onwards
  BY <1>1, RowsStay
<1>3. \A x \in Messages : /\ job'[x] \in Jobs /\ job'[x].state = job[x].state
                          /\ job'[x].made = job[x].made
                          /\ job'[x].holder = job[x].holder \/ job'[x].holder = Nobody
  <2> SUFFICES ASSUME NEW x \in Messages
               PROVE  /\ job'[x] \in Jobs /\ job'[x].state = job[x].state
                      /\ job'[x].made = job[x].made
                      /\ job'[x].holder = job[x].holder \/ job'[x].holder = Nobody
    OBVIOUS
  <2>1. job'[x] = IF job[x].holder = w THEN [job[x] EXCEPT !.holder = Nobody] ELSE job[x]
    BY DEF Crash
  <2>2. job[x] \in Jobs
    BY DEF Inv, TypeOK
  <2> QED
    BY <2>1, <2>2 DEF Jobs
<1>4. job' \in [Messages -> Jobs]
  BY <1>3 DEF Crash
<1>5. JobInv'
  BY <1>2, <1>3 DEF Inv, JobInv, Onwards
<1>6. /\ worker' \in [Workers -> [step : Steps, msg : Messages \cup {NoMessage}]]
      /\ \A v \in Workers : worker'[v].step # "idle" => worker'[v].msg \in Messages
      /\ CommittedInv' /\ WorkerInv'
  BY <1>1, <1>2, <1>3, IdleKeeps
<1>7. /\ failures' \in [Workers -> SUBSET (Messages \X (0 .. Attempts))]
      /\ \A v \in Workers : failures'[v] \subseteq failures[v]
  BY <1>1 DEF Inv, TypeOK
<1>8. FailureInv'
  BY <1>1, <1>7 DEF Inv, FailureInv
<1>9. faults' \in 0 .. MaxFaults
  BY FaultBounded DEF Crash
<1> QED
  BY <1>1, <1>2, <1>4, <1>5, <1>6, <1>7, <1>8, <1>9 DEF Inv, TypeOK

-----------------------------------------------------------------------------
(* BullMQ.                                                                  *)

LEMMA StallKeeps ==
  ASSUME Inv, NEW m \in Messages, Stall(m)
  PROVE  Inv'
<1>1. UNCHANGED <<row, age, callers, todo, worker, accepted, counting, bounces>>
  BY DEF Stall, tableVars, bounceVars
<1>2. /\ job[m].state = "active" /\ job[m].made < Attempts /\ job[m] \in Jobs
      /\ job[m].made \in Nat /\ job[m].stalls \in 0 .. MaxStalls
  BY DEF Stall, Inv, JobInv, TypeOK, Jobs
<1>3. faults' \in 0 .. MaxFaults
  BY FaultBounded DEF Stall, Inv, TypeOK
<1>4. /\ job' \in [Messages -> Jobs] /\ JobInv'
      /\ failures' \in [Workers -> SUBSET (Messages \X (0 .. Attempts))]
      /\ FailureInv' /\ excused \subseteq excused' /\ excused' \subseteq Messages
      /\ \A x \in Messages : job[x].state = "none" => job'[x].state = "none"
  <2>1. CASE /\ job[m].stalls < MaxStalls
             /\ job' = [job EXCEPT ![m] = [@ EXCEPT !.state = "waiting", !.holder = Nobody,
                                                    !.stalls = job[m].stalls + 1]]
             /\ UNCHANGED <<failures, excused>>
    <3> DEFINE j == [job[m] EXCEPT !.state = "waiting", !.stalls = job[m].stalls + 1,
                               !.holder = Nobody]
    <3>1. job' = [job EXCEPT ![m] = j]
      BY <2>1
    <3>2. j \in Jobs /\ j.state = "waiting" /\ j.holder = Nobody /\ j.made < Attempts
      <4>1. job[m].stalls + 1 \in 0 .. MaxStalls
        BY <1>2, <2>1, OutboxAssumption
      <4> QED
        BY <1>2, <4>1 DEF Jobs, JobStates
    <3>3. Onwards
      BY <1>1, <2>1, RowsStay
    <3>4. job' \in [Messages -> Jobs] /\ JobInv'
          /\ \A x \in Messages : job[x].state = "none" => job'[x].state = "none"
      <4> HIDE DEF j
      <4> QED
        BY <1>2, <3>1, <3>2, <3>3, JobChanges
    <3> QED
      BY <2>1, <3>4 DEF Inv, TypeOK, FailureInv
  <2>2. CASE /\ job[m].stalls = MaxStalls
             /\ \E k \in {job[m].made, job[m].made + 1}, w \in Workers :
                  /\ job' = [job EXCEPT ![m] = [@ EXCEPT !.state = "failed", !.made = k,
                                                         !.holder = Nobody]]
                  /\ failures' = [failures EXCEPT ![w] = @ \cup {<<m, k>>}]
                  /\ excused' = IF k < Attempts THEN excused ELSE excused \cup {m}
    <3>1. PICK k \in {job[m].made, job[m].made + 1}, w \in Workers :
            /\ job' = [job EXCEPT ![m] = [@ EXCEPT !.state = "failed", !.made = k,
                                                   !.holder = Nobody]]
            /\ failures' = [failures EXCEPT ![w] = @ \cup {<<m, k>>}]
            /\ excused' = IF k < Attempts THEN excused ELSE excused \cup {m}
      BY <2>2
    <3>2. k \in 0 .. Attempts
      BY <1>2, OutboxAssumption
    <3>3. /\ failures' \in [Workers -> SUBSET (Messages \X (0 .. Attempts))]
          /\ FailureInv' /\ excused \subseteq excused' /\ excused' \subseteq Messages
      BY <3>1, <3>2, FailureNoted
    <3> DEFINE j == [job[m] EXCEPT !.state = "failed", !.made = k, !.holder = Nobody]
    <3>4. j \in Jobs /\ j.state = "failed" /\ j.holder = Nobody
      BY <1>2, <3>2 DEF Jobs, JobStates
    <3>5. job' = [job EXCEPT ![m] = j]
      BY <3>1
    <3>6. Onwards
      BY <1>1, <3>3, RowsStay
    <3> HIDE DEF j
    <3> QED
      BY <1>2, <3>3, <3>4, <3>5, <3>6, JobChanges
  <2> QED
    BY <2>1, <2>2 DEF Stall
<1>5. RowInv' /\ Onwards
  BY <1>1, <1>4, RowsStay
<1>6. CommittedInv' /\ WorkerInv'
  BY <1>1, <1>4, <1>5 DEF Inv, TypeOK, CommittedInv, WorkerInv, Onwards
<1> QED
  BY <1>1, <1>3, <1>4, <1>5, <1>6 DEF Inv, TypeOK

LEMMA EvictKeeps ==
  ASSUME Inv, NEW m \in Messages, Evict(m)
  PROVE  Inv'
<1>1. /\ UNCHANGED <<row, age, callers, todo, worker, failures, accepted, counting, bounces, excused>>
      /\ job' = [job EXCEPT ![m] = NoJob]
  BY DEF Evict, tableVars, workerVars, bounceVars
<1>2. RowInv' /\ Onwards
  BY <1>1, RowsStay
<1>3. /\ job' \in [Messages -> Jobs] /\ job'[m] = NoJob
      /\ \A x \in Messages \ {m} : job'[x] = job[x]
  BY <1>1, NewJobType DEF Inv, TypeOK
<1>4. JobInv'
  BY <1>2, <1>3 DEF Inv, JobInv, NoJob, Onwards
<1>5. CommittedInv'
  BY <1>1, <1>3 DEF Inv, CommittedInv, NoJob
<1>6. WorkerInv' /\ FailureInv'
  BY <1>1 DEF Inv, WorkerInv, FailureInv, Settled
<1>7. faults' \in 0 .. MaxFaults
  BY FaultBounded DEF Evict
<1> QED
  BY <1>1, <1>2, <1>3, <1>4, <1>5, <1>6, <1>7 DEF Inv, TypeOK

-----------------------------------------------------------------------------
(* notify(), the sweep and the webhook.                                     *)

LEMMA EnqueueKeeps ==
  ASSUME Inv, NEW m \in Messages, Enqueue(m) \/ PhaseB(m)
  PROVE  Inv'
<1>1. /\ UNCHANGED <<row, age, worker, failures, accepted, counting, bounces, excused>>
      /\ callers' \subseteq callers /\ todo' \subseteq todo
      /\ AddJob(m) \/ UNCHANGED job
  BY DEF Enqueue, PhaseB, tableVars, workerVars, bounceVars
<1>2. row[m].status # "none"
  BY DEF Enqueue, PhaseB, Inv, CommittedInv
<1>3. faults' \in 0 .. MaxFaults
  BY FaultBounded DEF Enqueue, PhaseB, Inv, TypeOK
<1> QED
  BY <1>1, <1>2, <1>3, AddJobKeeps

LEMMA AgeKeeps ==
  ASSUME Inv, NEW m \in Messages, GoStale(m) \/ GoOld(m)
  PROVE  Inv'
<1>1. /\ UNCHANGED <<row, callers, job, todo, worker, failures, accepted, counting, bounces,
                     excused, faults>>
      /\ Queued(m)
      /\ \E g \in {"stale", "old"} : age' = [age EXCEPT ![m] = g]
  BY DEF GoStale, GoOld, queueVars, workerVars, bounceVars
<1>2. age' \in [Messages -> Ages] /\ \A x \in Messages \ {m} : age'[x] = age[x]
  BY <1>1 DEF Inv, TypeOK, Ages
<1>3. GivenUpForAReason'
  BY <1>1, <1>2 DEF Inv, RowInv, GivenUpForAReason, Queued
<1>4. RowInv'
  BY <1>1, <1>3 DEF Inv, RowInv, PayloadOnlyWhileQueued, SentWasAccepted, BounceCountedOnce,
     Queued
<1>5. CommittedInv' /\ WorkerInv' /\ JobInv' /\ FailureInv'
  BY <1>1 DEF Inv, CommittedInv, WorkerInv, JobInv, FailureInv, Settled
<1> QED
  BY <1>1, <1>2, <1>4, <1>5 DEF Inv, TypeOK

LEMMA PhaseAKeeps ==
  ASSUME Inv, PhaseA
  PROVE  Inv'
<1>1. /\ UNCHANGED <<age, callers, job, worker, failures, accepted, counting, bounces, excused,
                     faults>>
      /\ \E S \in SUBSET Stale : todo' = todo \cup S
  BY DEF PhaseA, Selections, workerVars, bounceVars
<1>2. \A x \in Messages :
        \/ row'[x] = row[x]
        \/ /\ Queued(x) /\ age[x] = "old" /\ row'[x].status = "FAILED"
           /\ row'[x].payload = FALSE /\ row'[x].externalId = row[x].externalId
           /\ row'[x] \in Rows
  <2> SUFFICES ASSUME NEW x \in Messages, Queued(x), age[x] = "old"
               PROVE  /\ row'[x].status = "FAILED" /\ row'[x].payload = FALSE
                      /\ row'[x].externalId = row[x].externalId /\ row'[x] \in Rows
    BY DEF PhaseA
  <2>1. row'[x] = [row[x] EXCEPT !.status = "FAILED", !.payload = FALSE]
    BY DEF PhaseA
  <2>2. row[x] \in Rows
    BY DEF Inv, TypeOK
  <2> QED
    BY <2>1, <2>2 DEF Rows, Statuses
<1>3. row' \in [Messages -> Rows]
  BY <1>2 DEF PhaseA, Inv, TypeOK
<1>4. RowInv'
  <2>1. PayloadOnlyWhileQueued' /\ SentWasAccepted'
    BY <1>1, <1>2 DEF Inv, RowInv, PayloadOnlyWhileQueued, SentWasAccepted, Queued
  <2>2. GivenUpForAReason'
    BY <1>1, <1>2 DEF Inv, RowInv, GivenUpForAReason
  <2>3. BounceCountedOnce'
    BY <1>1, <1>2 DEF Inv, RowInv, BounceCountedOnce, Queued
  <2>4. \A x \in Messages : row'[x].externalId => row'[x].status \in {"SENT", "BOUNCED"}
    BY <1>2 DEF Inv, RowInv, Queued
  <2> QED
    BY <2>1, <2>2, <2>3, <2>4 DEF RowInv
<1>5. Onwards
  BY <1>1, <1>2 DEF Onwards, Settled, Queued
<1>6. WorkerInv' /\ JobInv' /\ FailureInv'
  BY <1>1, <1>5, OthersStay
<1>7. CommittedInv'
  BY <1>1, <1>2 DEF Inv, CommittedInv, Queued, Stale
<1>8. todo' \subseteq Messages
  BY <1>1 DEF Stale, Inv, TypeOK
<1> QED
  BY <1>1, <1>3, <1>4, <1>6, <1>7, <1>8 DEF Inv, TypeOK

LEMMA SweepStopsKeeps ==
  ASSUME Inv, SweepStops
  PROVE  Inv'
<1>1. /\ UNCHANGED <<row, age, callers, job, worker, failures, accepted, counting, bounces, excused>>
      /\ todo' = {}
  BY DEF SweepStops, tableVars, workerVars, bounceVars
<1>2. RowInv' /\ Onwards
  BY <1>1, RowsStay
<1>3. WorkerInv' /\ JobInv' /\ FailureInv'
  BY <1>1, <1>2, OthersStay
<1>4. CommittedInv'
  BY <1>1 DEF Inv, CommittedInv
<1>5. faults' \in 0 .. MaxFaults
  BY FaultBounded DEF SweepStops
<1> QED
  BY <1>1, <1>2, <1>3, <1>4, <1>5 DEF Inv, TypeOK

LEMMA BounceKeeps ==
  ASSUME Inv, NEW m \in Messages, Bounce(m)
  PROVE  Inv'
<1>1. /\ UNCHANGED <<age, callers, job, todo, worker, failures, accepted, bounces, excused, faults>>
      /\ m \in accepted /\ row[m].externalId /\ row[m].status = "SENT"
      /\ row' = [row EXCEPT ![m].status = "BOUNCED"]
      /\ counting' = [counting EXCEPT ![m] = @ + 1]
  BY DEF Bounce, queueVars, workerVars, Inv, RowInv
<1>2. /\ row'[m].status = "BOUNCED" /\ row'[m].payload = row[m].payload
      /\ row'[m].externalId = row[m].externalId
      /\ \A x \in Messages \ {m} : row'[x] = row[x]
      /\ row' \in [Messages -> Rows]
  <2> DEFINE k == [row[m] EXCEPT !.status = "BOUNCED"]
  <2>1. row[m] \in Rows /\ row' = [row EXCEPT ![m] = k]
    BY <1>1 DEF Inv, TypeOK
  <2>2. k \in Rows /\ k.status = "BOUNCED" /\ k.payload = row[m].payload
        /\ k.externalId = row[m].externalId
    BY <2>1 DEF Rows, Statuses
  <2> HIDE DEF k
  <2> QED
    BY <2>1, <2>2 DEF Inv, TypeOK
<1>3. RowInv'
  <2>1. PayloadOnlyWhileQueued'
    BY <1>1, <1>2 DEF Inv, RowInv, PayloadOnlyWhileQueued, Queued
  <2>2. SentWasAccepted' /\ GivenUpForAReason'
    BY <1>1, <1>2 DEF Inv, RowInv, SentWasAccepted, GivenUpForAReason
  <2>3. BounceCountedOnce'
    <3>1. counting[m] = 0 /\ bounces[m] = 0
      <4>1. counting[m] \in Nat /\ bounces[m] \in Nat
        BY DEF Inv, TypeOK
      <4>2. ~(counting[m] + bounces[m] > 0)
        BY <1>1 DEF Inv, RowInv, BounceCountedOnce
      <4> QED
        BY <4>1, <4>2
    <3>2. counting'[m] = 1 /\ \A x \in Messages \ {m} : counting'[x] = counting[x]
      BY <1>1, <3>1 DEF Inv, TypeOK
    <3>3. counting'[m] + bounces'[m] = 1 /\ row'[m].status = "BOUNCED"
      BY <1>1, <1>2, <3>1, <3>2
    <3>4. \A x \in Messages \ {m} :
            /\ counting'[x] + bounces'[x] <= 1
            /\ counting'[x] + bounces'[x] > 0 => row'[x].status = "BOUNCED"
      BY <1>1, <1>2, <3>2 DEF Inv, RowInv, BounceCountedOnce
    <3> QED
      BY <3>3, <3>4 DEF BounceCountedOnce
  <2>4. \A x \in Messages : row'[x].externalId => row'[x].status \in {"SENT", "BOUNCED"}
    BY <1>2 DEF Inv, RowInv
  <2> QED
    BY <2>1, <2>2, <2>3, <2>4 DEF RowInv
<1>4. Onwards
  BY <1>1, <1>2 DEF Onwards, Settled
<1>5. WorkerInv' /\ JobInv' /\ FailureInv'
  BY <1>1, <1>4, OthersStay
<1>6. CommittedInv'
  BY <1>1, <1>2 DEF Inv, CommittedInv
<1>7. counting' \in [Messages -> Nat]
  BY <1>1 DEF Inv, TypeOK
<1> QED
  BY <1>1, <1>2, <1>3, <1>5, <1>6, <1>7 DEF Inv, TypeOK

LEMMA CountBounceKeeps ==
  ASSUME Inv, NEW m \in Messages, CountBounce(m)
  PROVE  Inv'
<1>1. /\ UNCHANGED <<row, age, callers, job, todo, worker, failures, accepted, excused>>
      /\ counting[m] > 0
      /\ counting' = [counting EXCEPT ![m] = @ - 1]
      /\ bounces' = [bounces EXCEPT ![m] = @ + 1] \/ UNCHANGED bounces
  BY DEF CountBounce, tableVars, queueVars, workerVars
<1>2. /\ counting' \in [Messages -> Nat] /\ bounces' \in [Messages -> Nat]
      /\ counting'[m] = counting[m] - 1
      /\ bounces'[m] \in {bounces[m], bounces[m] + 1}
      /\ \A x \in Messages \ {m} : counting'[x] = counting[x] /\ bounces'[x] = bounces[x]
  BY <1>1 DEF Inv, TypeOK
<1>3. BounceCountedOnce'
  BY <1>1, <1>2 DEF Inv, TypeOK, RowInv, BounceCountedOnce
<1>4. RowInv' /\ Onwards
  BY <1>1, <1>3 DEF Inv, RowInv, PayloadOnlyWhileQueued, SentWasAccepted, GivenUpForAReason,
     Queued, Onwards, Settled
<1>5. WorkerInv' /\ JobInv' /\ FailureInv'
  BY <1>1, <1>4, OthersStay
<1>6. CommittedInv'
  BY <1>1 DEF Inv, CommittedInv
<1>7. faults' \in 0 .. MaxFaults
  BY FaultBounded DEF CountBounce, Inv, TypeOK
<1> QED
  BY <1>1, <1>2, <1>4, <1>5, <1>6, <1>7 DEF Inv, TypeOK

-----------------------------------------------------------------------------
(* The theorems.                                                            *)

LEMMA InitInv == Init => Inv
<1> SUFFICES ASSUME Init PROVE Inv
  OBVIOUS
<1>1. \A m \in Messages : row[m] = NoRow /\ job[m] = NoJob /\ counting[m] = 0 /\ bounces[m] = 0
  BY DEF Init
<1>2. \A w \in Workers : worker[w] = Idle /\ failures[w] = {}
  BY DEF Init
<1>3. NoRow \in Rows
  BY DEF NoRow, Rows, Statuses
<1>4. TypeOK
  BY <1>2, <1>3, NewJobType, OutboxAssumption DEF Init, TypeOK, Idle, Steps, Ages
<1>5. RowInv
  BY <1>1 DEF RowInv, PayloadOnlyWhileQueued, SentWasAccepted, GivenUpForAReason,
     BounceCountedOnce, NoRow, Queued
<1>6. CommittedInv
  BY <1>1, <1>2, OutboxAssumption DEF Init, CommittedInv, NoJob, Idle
<1>7. WorkerInv /\ JobInv /\ FailureInv
  BY <1>1, <1>2 DEF WorkerInv, JobInv, FailureInv, Idle, NoJob
<1> QED
  BY <1>4, <1>5, <1>6, <1>7 DEF Inv

LEMMA NextInv == Inv /\ [Next]_vars => Inv'
<1> SUFFICES ASSUME Inv, [Next]_vars PROVE Inv'
  OBVIOUS
<1>1. ASSUME NEW m \in Messages, Commit(m) \/ Enqueue(m) \/ Stall(m) \/ Evict(m) PROVE Inv'
  BY <1>1, CommitKeeps, EnqueueKeeps, StallKeeps, EvictKeeps
<1>2. ASSUME NEW m \in Messages,
             GoStale(m) \/ GoOld(m) \/ PhaseB(m) \/ Bounce(m) \/ CountBounce(m)
      PROVE  Inv'
  BY <1>2, AgeKeeps, EnqueueKeeps, BounceKeeps, CountBounceKeeps
<1>3. ASSUME NEW w \in Workers, ProcessEmailJob(w) PROVE Inv'
  BY <1>3, TakeKeeps, LoadKeeps, SendKeeps, WriteKeeps, AckKeeps DEF ProcessEmailJob
<1>4. ASSUME NEW w \in Workers,
             \/ Refuse(w) \/ LoseAnswer(w) \/ DatabaseFails(w)
             \/ OnEmailJobFailed(w) \/ Crash(w)
      PROVE  Inv'
  BY <1>4, AttemptFailsKeeps, OnFailedKeeps, CrashKeeps
<1>5. CASE PhaseA \/ SweepStops
  BY <1>5, PhaseAKeeps, SweepStopsKeeps
<1>6. CASE UNCHANGED vars
  BY <1>6 DEF vars, tableVars, queueVars, workerVars, bounceVars, Inv, TypeOK, RowInv,
     CommittedInv, WorkerInv, JobInv, FailureInv, PayloadOnlyWhileQueued, SentWasAccepted,
     GivenUpForAReason, BounceCountedOnce, Queued, Settled
<1> QED
  BY <1>1, <1>2, <1>3, <1>4, <1>5, <1>6 DEF Next

THEOREM InvHolds == Spec => []Inv
<1> QED
  BY InitInv, NextInv, PTL DEF Spec

\* Every column of Outbox, and what the queue and the workers hold, stays well typed.
THEOREM TypeCorrect == Spec => []TypeOK
<1>1. Inv => TypeOK
  BY DEF Inv
<1> QED
  BY <1>1, InvHolds, PTL

\* No writer of CommunicationLog leaves a terminal row with its payload, however the
\* worker's, the sweep's and the webhook's writes interleave.
THEOREM PayloadOnlyWhileQueuedHolds == Spec => []PayloadOnlyWhileQueued
<1>1. Inv => PayloadOnlyWhileQueued
  BY DEF Inv, RowInv
<1> QED
  BY <1>1, InvHolds, PTL

\* setTerminal SENT and the bounce's flip only follow the provider's acceptance.
THEOREM SentWasAcceptedHolds == Spec => []SentWasAccepted
<1>1. Inv => SentWasAccepted
  BY DEF Inv, RowInv
<1> QED
  BY <1>1, InvHolds, PTL

\* setTerminal FAILED and the expiry only give up for one of the three reasons.
THEOREM GivenUpForAReasonHolds == Spec => []GivenUpForAReason
<1>1. Inv => GivenUpForAReason
  BY DEF Inv, RowInv
<1> QED
  BY <1>1, InvHolds, PTL

\* processEmailJob never returns, and so completes its job, with the row QUEUED.
THEOREM CompletedIsSettledHolds == Spec => []CompletedIsSettled
<1>1. Inv => CompletedIsSettled
  BY DEF Inv, JobInv, CompletedIsSettled, Settled, Queued
<1> QED
  BY <1>1, InvHolds, PTL

\* recordEmailBounce runs at most once per row, for any number of deliveries.
THEOREM BounceCountedOnceHolds == Spec => []BounceCountedOnce
<1>1. Inv => BounceCountedOnce
  BY DEF Inv, RowInv
<1> QED
  BY <1>1, InvHolds, PTL

-----------------------------------------------------------------------------
(* Every step is a step of Delivery, or none of its business.                *)

Delivers == [D!Next]_(D!vars)

LEMMA QuietDelivers ==
  ASSUME UNCHANGED <<row, age, accepted, excused, bounces>>
  PROVE  Delivers
BY DEF Delivers, D!vars, Log, Lapsed, Counted

\* A message is worked on: the provider may take it, a reason to give it up may come.
LEMMA TryDelivers ==
  ASSUME UNCHANGED <<row, age, bounces>>, NEW m \in Messages, row[m].status # "none",
         accepted' \in {accepted, accepted \cup {m}}, excused' \in {excused, excused \cup {m}}
  PROVE  Delivers
<1>1. UNCHANGED <<Log, Counted>> /\ Log[m] # "none"
  BY DEF Log, Counted
<1>2. Lapsed' \in {Lapsed, Lapsed \cup {m}}
  BY DEF Lapsed
<1>3. D!Try(m)
  BY <1>1, <1>2 DEF D!Try
<1> QED
  BY <1>3 DEF Delivers, D!Next

\* One row gets another status.
LEMMA LogStep ==
  ASSUME NEW m \in Messages, NEW st, row'[m].status = st,
         \A x \in Messages \ {m} : row'[x] = row[x]
  PROVE  Log' = [Log EXCEPT ![m] = st]
BY DEF Log

LEMMA TerminalDelivers ==
  ASSUME Inv, NEW m \in Messages, NEW st \in {"SENT", "FAILED"}, SetTerminal(m, st),
         st = "SENT" => m \in accepted, st = "FAILED" => m \in excused,
         UNCHANGED <<age, accepted, excused, bounces>>
  PROVE  Delivers
<1>1. CASE ~Queued(m)
  BY <1>1, QuietDelivers DEF SetTerminal
<1>2. CASE Queued(m)
  <2>1. /\ Log[m] = "QUEUED"
        /\ Log' = [Log EXCEPT ![m] = st]
        /\ UNCHANGED <<Lapsed, Counted>>
    <3>1. row'[m] \in TerminalRows(st) /\ \A x \in Messages \ {m} : row'[x] = row[x]
      BY <1>2 DEF SetTerminal, Inv, TypeOK
    <3>2. row'[m].status = st
      BY <3>1 DEF TerminalRows
    <3> QED
      BY <1>2, <3>1, <3>2, LogStep DEF Log, Lapsed, Counted, Queued
  <2>2. CASE st = "SENT"
    <3>1. D!Deliver(m)
      BY <2>1, <2>2 DEF D!Deliver
    <3> QED
      BY <3>1 DEF Delivers, D!Next
  <2>3. CASE st = "FAILED"
    <3>1. m \in Lapsed /\ \A x \in {m} : Log[x] = "QUEUED"
      BY <2>1, <2>3 DEF Lapsed
    <3>2. Log' = [x \in Messages |-> IF x \in {m} THEN "FAILED" ELSE Log[x]]
      BY <2>1, <2>3 DEF Log
    <3>3. D!GiveUp({m})
      BY <2>1, <3>1, <3>2 DEF D!GiveUp
    <3> QED
      BY <3>3 DEF Delivers, D!Next
  <2> QED
    BY <2>2, <2>3
<1> QED
  BY <1>1, <1>2

\* A failed attempt, and the stall that is one too many, may be the last of the job.
LEMMA ThrowDelivers ==
  ASSUME Inv, NEW w \in Workers, worker[w].step # "idle", Throw(w),
         accepted' \in {accepted, accepted \cup {worker[w].msg}}
  PROVE  Delivers
<1>1. worker[w].msg \in Messages /\ row[worker[w].msg].status # "none"
  BY DEF Inv, TypeOK, CommittedInv
<1>2. UNCHANGED <<row, age, bounces>>
  BY DEF Throw, tableVars, bounceVars
<1>3. excused' \in {excused, excused \cup {worker[w].msg}}
  BY DEF Throw
<1> QED
  BY <1>1, <1>2, <1>3, TryDelivers

LEMMA StallDelivers ==
  ASSUME Inv, NEW m \in Messages, Stall(m)
  PROVE  Delivers
<1>1. UNCHANGED <<row, age, accepted, bounces>> /\ job[m].state = "active"
  BY DEF Stall, tableVars, bounceVars
<1>2. excused' \in {excused, excused \cup {m}}
  BY DEF Stall
<1>3. row[m].status # "none"
  BY <1>1 DEF Inv, CommittedInv
<1> QED
  BY <1>1, <1>2, <1>3, TryDelivers

LEMMA CommitDelivers ==
  ASSUME Inv, NEW m \in Messages, Commit(m)
  PROVE  Delivers
<1>1. /\ row[m].status = "none" /\ row'[m].status = "QUEUED"
      /\ \A x \in Messages \ {m} : row'[x] = row[x]
  BY DEF Commit, Inv, TypeOK
<1>2. UNCHANGED <<accepted, Lapsed, Counted>>
  BY DEF Commit, bounceVars, Lapsed, Counted
<1>3. Log[m] = "none" /\ Log' = [Log EXCEPT ![m] = "QUEUED"]
  BY <1>1, LogStep DEF Log
<1>4. D!Record(m)
  BY <1>2, <1>3 DEF D!Record
<1> QED
  BY <1>4 DEF Delivers, D!Next

LEMMA AgeDelivers ==
  ASSUME Inv, NEW m \in Messages, GoStale(m) \/ GoOld(m)
  PROVE  Delivers
<1>1. /\ UNCHANGED <<row, accepted, excused, bounces>> /\ Queued(m)
      /\ age[m] # "old"
      /\ \E g \in {"stale", "old"} : age' = [age EXCEPT ![m] = g]
  BY DEF GoStale, GoOld, bounceVars
<1>2. UNCHANGED <<Log, Counted>> /\ Log[m] # "none"
  BY <1>1 DEF Log, Counted, Queued
<1>3. \A x \in Messages \ {m} : age'[x] = age[x]
  BY <1>1 DEF Inv, TypeOK
<1>4. Lapsed' \in {Lapsed, Lapsed \cup {m}}
  <2>1. CASE age'[m] = "old"
    BY <1>1, <1>3, <2>1 DEF Lapsed
  <2>2. CASE age'[m] # "old"
    BY <1>1, <1>3, <2>2 DEF Lapsed
  <2> QED
    BY <2>1, <2>2
<1>5. D!Try(m)
  BY <1>1, <1>2, <1>4 DEF D!Try
<1> QED
  BY <1>5 DEF Delivers, D!Next

LEMMA PhaseADelivers ==
  ASSUME Inv, PhaseA
  PROVE  Delivers
<1> DEFINE S == {m \in Messages : Queued(m) /\ age[m] = "old"}
<1>1. UNCHANGED <<accepted, Lapsed, Counted>>
  BY DEF PhaseA, bounceVars, Lapsed, Counted
<1>2. \A m \in Messages : row'[m].status = IF m \in S THEN "FAILED" ELSE row[m].status
  <2> SUFFICES ASSUME NEW m \in Messages
               PROVE  row'[m].status = IF m \in S THEN "FAILED" ELSE row[m].status
    OBVIOUS
  <2>1. row[m] \in Rows
    BY DEF Inv, TypeOK
  <2>2. row'[m] = IF m \in S THEN [row[m] EXCEPT !.status = "FAILED", !.payload = FALSE]
                             ELSE row[m]
    BY DEF PhaseA
  <2>3. [row[m] EXCEPT !.status = "FAILED", !.payload = FALSE].status = "FAILED"
    BY <2>1 DEF Rows
  <2> QED
    BY <2>2, <2>3
<1>3. Log' = [m \in Messages |-> IF m \in S THEN "FAILED" ELSE Log[m]]
  BY <1>2 DEF Log
<1>4. \A m \in S : Log[m] = "QUEUED" /\ m \in Lapsed
  BY DEF Log, Lapsed, Queued
<1>5. D!GiveUp(S)
  BY <1>1, <1>3, <1>4 DEF D!GiveUp
<1> QED
  BY <1>5 DEF Delivers, D!Next

LEMMA BounceDelivers ==
  ASSUME Inv, NEW m \in Messages, Bounce(m)
  PROVE  Delivers
<1>1. row[m].status = "SENT" /\ UNCHANGED <<accepted, Lapsed, Counted>>
  BY DEF Bounce, Inv, RowInv, Lapsed, Counted
<1>2. row'[m].status = "BOUNCED" /\ \A x \in Messages \ {m} : row'[x] = row[x]
  <2>1. row[m] \in Rows
    BY DEF Inv, TypeOK
  <2>2. row' = [row EXCEPT ![m] = [row[m] EXCEPT !.status = "BOUNCED"]]
    BY DEF Bounce, Inv, TypeOK
  <2>3. [row[m] EXCEPT !.status = "BOUNCED"].status = "BOUNCED"
    BY <2>1 DEF Rows
  <2> QED
    BY <2>2, <2>3 DEF Inv, TypeOK
<1>3. Log[m] = "SENT" /\ Log' = [Log EXCEPT ![m] = "BOUNCED"]
  BY <1>1, <1>2, LogStep DEF Log
<1>4. D!Bounce(m)
  BY <1>1, <1>3 DEF D!Bounce
<1> QED
  BY <1>4 DEF Delivers, D!Next

\* The handler that counts is the only one of its message.
LEMMA CountBounceDelivers ==
  ASSUME Inv, NEW m \in Messages, CountBounce(m)
  PROVE  Delivers
<1>1. UNCHANGED <<row, age, accepted, excused>> /\ counting[m] > 0
  BY DEF CountBounce, tableVars, queueVars, workerVars
<1>2. CASE UNCHANGED bounces
  BY <1>1, <1>2, QuietDelivers
<1>3. CASE bounces' = [bounces EXCEPT ![m] = @ + 1]
  <2>1. counting[m] \in Nat /\ bounces[m] \in Nat
    BY DEF Inv, TypeOK
  <2>2. row[m].status = "BOUNCED" /\ bounces[m] = 0
    BY <1>1, <2>1 DEF Inv, RowInv, BounceCountedOnce
  <2>3. bounces'[m] = 1 /\ \A x \in Messages \ {m} : bounces'[x] = bounces[x]
    BY <1>3, <2>2 DEF Inv, TypeOK
  <2>4. m \notin Counted /\ Counted' = Counted \cup {m}
    BY <2>2, <2>3 DEF Counted
  <2>5. UNCHANGED <<Log, Lapsed>> /\ Log[m] = "BOUNCED"
    BY <1>1, <2>2 DEF Log, Lapsed
  <2>6. D!CountBounce(m)
    BY <1>1, <2>4, <2>5 DEF D!CountBounce
  <2> QED
    BY <2>6 DEF Delivers, D!Next
<1> QED
  BY <1>2, <1>3 DEF CountBounce

LEMMA WorkerDelivers ==
  ASSUME Inv, NEW w \in Workers,
         ProcessEmailJob(w) \/ Refuse(w) \/ LoseAnswer(w) \/ DatabaseFails(w)
  PROVE  Delivers
<1>1. CASE Take(w) \/ Load(w) \/ Ack(w)
  <2>1. UNCHANGED <<row, age, accepted, excused, bounces>>
    BY <1>1 DEF Take, Load, Ack, tableVars, bounceVars
  <2> QED
    BY <2>1, QuietDelivers
<1>2. CASE Send(w)
  <2>1. UNCHANGED <<row, age, bounces>> /\ worker[w].step = "send"
    BY <1>2 DEF Send, tableVars, bounceVars
  <2>2. /\ accepted' \in {accepted, accepted \cup {worker[w].msg}}
        /\ excused' \in {excused, excused \cup {worker[w].msg}}
    BY <1>2 DEF Send
  <2>3. worker[w].msg \in Messages /\ row[worker[w].msg].status # "none"
    BY <2>1 DEF Inv, TypeOK, CommittedInv
  <2> QED
    BY <2>1, <2>2, <2>3, TryDelivers
<1>3. CASE Write(w)
  <2>1. /\ worker[w].step \in {"SENT", "FAILED"} /\ SetTerminal(worker[w].msg, worker[w].step)
        /\ UNCHANGED <<age, accepted, excused, bounces>>
    BY <1>3 DEF Write, bounceVars
  <2>2. worker[w].msg \in Messages
    BY <2>1 DEF Inv, TypeOK
  <2>3. /\ worker[w].step = "SENT" => worker[w].msg \in accepted
        /\ worker[w].step = "FAILED" => worker[w].msg \in excused
    BY DEF Inv, WorkerInv
  <2> QED
    BY <2>1, <2>2, <2>3, TerminalDelivers
<1>4. CASE Refuse(w) \/ LoseAnswer(w) \/ DatabaseFails(w)
  <2>1. /\ worker[w].step # "idle" /\ Throw(w)
        /\ accepted' \in {accepted, accepted \cup {worker[w].msg}}
    BY <1>4 DEF Refuse, LoseAnswer, DatabaseFails
  <2> QED
    BY <2>1, ThrowDelivers
<1> QED
  BY <1>1, <1>2, <1>3, <1>4 DEF ProcessEmailJob

LEMMA OnFailedDelivers ==
  ASSUME Inv, NEW w \in Workers, OnEmailJobFailed(w)
  PROVE  Delivers
<1>1. PICK f \in failures[w] :
        row' = row \/ (f[2] >= Attempts /\ SetTerminal(f[1], "FAILED"))
  BY DEF OnEmailJobFailed
<1>2. UNCHANGED <<age, accepted, excused, bounces>>
  BY DEF OnEmailJobFailed, bounceVars
<1>3. CASE row' = row
  BY <1>2, <1>3, QuietDelivers
<1>4. CASE f[2] >= Attempts /\ SetTerminal(f[1], "FAILED")
  <2>1. f[1] \in Messages /\ f[1] \in excused
    BY <1>4 DEF Inv, TypeOK, FailureInv
  <2> QED
    BY <1>2, <1>4, <2>1, TerminalDelivers
<1> QED
  BY <1>1, <1>3, <1>4

LEMMA InitDelivers == Init => D!Init
<1> SUFFICES ASSUME Init PROVE D!Init
  OBVIOUS
<1>1. Log = [m \in Messages |-> "none"]
  BY DEF Init, Log, NoRow
<1>2. Lapsed = {} /\ Counted = {} /\ accepted = {}
  BY DEF Init, Lapsed, Counted
<1> QED
  BY <1>1, <1>2 DEF D!Init

LEMMA NextDelivers ==
  ASSUME Inv, [Next]_vars
  PROVE  Delivers
<1>1. ASSUME NEW m \in Messages, Enqueue(m) \/ Evict(m) \/ PhaseB(m) PROVE Delivers
  <2>1. UNCHANGED <<row, age, accepted, excused, bounces>>
    BY <1>1 DEF Enqueue, Evict, PhaseB, tableVars, bounceVars
  <2> QED
    BY <2>1, QuietDelivers
<1>2. ASSUME NEW w \in Workers, Crash(w) PROVE Delivers
  BY <1>2, QuietDelivers DEF Crash, tableVars, bounceVars
<1>3. CASE SweepStops \/ UNCHANGED vars
  BY <1>3, QuietDelivers DEF SweepStops, vars, tableVars, bounceVars
<1> QED
  BY <1>1, <1>2, <1>3, CommitDelivers, StallDelivers, AgeDelivers, PhaseADelivers, BounceDelivers,
     CountBounceDelivers, WorkerDelivers, OnFailedDelivers DEF Next

\* notify(), processEmailJob, onEmailJobFailed, the reconciler and the bounce webhook
\* together implement Delivery, for any number of messages, workers and faults.
THEOREM ImplementsDeliveryHolds == Spec => ImplementsDelivery
<1>1. Inv /\ [Next]_vars => [D!Next]_(D!vars)
  BY NextDelivers DEF Delivers
<1> QED
  BY <1>1, InitDelivers, InvHolds, PTL DEF Spec, ImplementsDelivery, D!Spec

Follows == [none |-> {"QUEUED"}, QUEUED |-> {"SENT", "FAILED"}, SENT |-> {"BOUNCED"},
            FAILED |-> {}, BOUNCED |-> {}]

\* A terminal status is final but for SENT, which a bounce may still correct.
StatusIsFinal ==
  [][\A m \in Messages :
       row'[m].status # row[m].status => row'[m].status \in Follows[row[m].status]]_vars

\* Delivery changes the log only along Follows.
LEMMA StatusFollows ==
  ASSUME Delivers, NEW m \in Messages, row'[m].status # row[m].status
  PROVE  row'[m].status \in Follows[row[m].status]
<1>1. Log[m] = row[m].status /\ Log'[m] = row'[m].status
  BY DEF Log
<1>2. Log \in [Messages -> {row[x].status : x \in Messages}]
  BY DEF Log
<1>3. D!Next /\ Log' # Log
  BY <1>1 DEF Delivers, D!vars
<1>4. ASSUME NEW x \in Messages, D!Record(x) \/ D!Deliver(x) \/ D!Bounce(x)
      PROVE  Log'[m] \in Follows[Log[m]]
  BY <1>1, <1>2, <1>4 DEF D!Record, D!Deliver, D!Bounce, Follows
<1>5. ASSUME NEW S \in SUBSET Messages, D!GiveUp(S)
      PROVE  Log'[m] \in Follows[Log[m]]
  BY <1>1, <1>5 DEF D!GiveUp, Follows
<1>6. ASSUME NEW x \in Messages, D!Try(x) \/ D!CountBounce(x)
      PROVE  FALSE
  BY <1>3, <1>6 DEF D!Try, D!CountBounce
<1> QED
  BY <1>1, <1>3, <1>4, <1>5, <1>6 DEF D!Next

\* Neither two workers on one message (email.ts:42-65) nor the sweep undo a status.
THEOREM StatusIsFinalHolds == Spec => StatusIsFinal
<1>1. Inv /\ [Next]_vars =>
        [\A m \in Messages :
           row'[m].status # row[m].status => row'[m].status \in Follows[row[m].status]]_vars
  BY NextDelivers, StatusFollows
<1> QED
  BY <1>1, InvHolds, PTL DEF Spec, StatusIsFinal
=============================================================================
