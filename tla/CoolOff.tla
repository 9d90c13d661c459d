------------------------------- MODULE CoolOff -------------------------------
(***************************************************************************)
(* What a change of a branch's opening hours promises a merchant and the    *)
(* customers: it is published only after the cool-off, as a whole, at most   *)
(* once, and never after it was withdrawn or replaced by a later change.     *)
(***************************************************************************)
EXTENDS Naturals

CONSTANTS Branches, NoChange

VARIABLES
  published,  \* the change each branch's live hours come from, 0 the first hours
  awaiting,   \* the change each branch has waiting: its number, and whether the
              \* cool-off is over
  made        \* the changes made so far

vars == <<published, awaiting, made>>

Init ==
  /\ published = [b \in Branches |-> 0]
  /\ awaiting = [b \in Branches |-> NoChange]
  /\ made = 0

Change(b) ==
  /\ made' = made + 1
  /\ awaiting' = [awaiting EXCEPT ![b] = [change |-> made + 1, over |-> FALSE]]
  /\ UNCHANGED published

Withdraw(b) ==
  /\ awaiting[b] # NoChange
  /\ awaiting' = [awaiting EXCEPT ![b] = NoChange]
  /\ UNCHANGED <<published, made>>

CoolOffEnds(b) ==
  /\ awaiting[b] # NoChange /\ ~awaiting[b].over
  /\ awaiting' = [awaiting EXCEPT ![b] = [change |-> @.change, over |-> TRUE]]
  /\ UNCHANGED <<published, made>>

Publish(b) ==
  /\ awaiting[b] # NoChange /\ awaiting[b].over
  /\ published' = [published EXCEPT ![b] = awaiting[b].change]
  /\ awaiting' = [awaiting EXCEPT ![b] = NoChange]
  /\ UNCHANGED made

Next == \E b \in Branches : Change(b) \/ Withdraw(b) \/ CoolOffEnds(b) \/ Publish(b)

Spec == Init /\ [][Next]_vars
=============================================================================
