------------------------------- MODULE Delivery -------------------------------
(***************************************************************************)
(* What the outbox promises of every e-mail the API commits: it is SENT      *)
(* only if the provider took it, given up only for a reason, and whatever    *)
(* its log says last stays, but that a SENT one may turn out to have bounced, *)
(* which counts once.                                                        *)
(***************************************************************************)

CONSTANT Messages

VARIABLES
  log,     \* the status the log has of each message
  taken,   \* the messages the provider has taken
  lapsed,  \* the messages there is a reason to give up
  counted  \* the messages whose bounce has been counted

vars == <<log, taken, lapsed, counted>>

Init ==
  /\ log = [m \in Messages |-> "none"]
  /\ taken = {} /\ lapsed = {} /\ counted = {}

Record(m) ==
  /\ log[m] = "none"
  /\ log' = [log EXCEPT ![m] = "QUEUED"]
  /\ UNCHANGED <<taken, lapsed, counted>>

\* Whatever is tried, and however often, with a message that was recorded: the
\* provider takes it, a reason to give it up arises, both or neither.
Try(m) ==
  /\ log[m] # "none"
  /\ taken' \in {taken, taken \cup {m}}
  /\ lapsed' \in {lapsed, lapsed \cup {m}}
  /\ UNCHANGED <<log, counted>>

Deliver(m) ==
  /\ log[m] = "QUEUED" /\ m \in taken
  /\ log' = [log EXCEPT ![m] = "SENT"]
  /\ UNCHANGED <<taken, lapsed, counted>>

\* One message, or all that are too old at once.
GiveUp(S) ==
  /\ \A m \in S : log[m] = "QUEUED" /\ m \in lapsed
  /\ log' = [m \in Messages |-> IF m \in S THEN "FAILED" ELSE log[m]]
  /\ UNCHANGED <<taken, lapsed, counted>>

Bounce(m) ==
  /\ log[m] = "SENT"
  /\ log' = [log EXCEPT ![m] = "BOUNCED"]
  /\ UNCHANGED <<taken, lapsed, counted>>

CountBounce(m) ==
  /\ log[m] = "BOUNCED" /\ m \notin counted
  /\ counted' = counted \cup {m}
  /\ UNCHANGED <<log, taken, lapsed>>

Next ==
  \/ \E m \in Messages : Record(m) \/ Try(m) \/ Deliver(m) \/ Bounce(m) \/ CountBounce(m)
  \/ \E S \in SUBSET Messages : GiveUp(S)

Spec == Init /\ [][Next]_vars
=============================================================================
