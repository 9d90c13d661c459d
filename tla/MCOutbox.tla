------------------------------- MODULE MCOutbox -------------------------------
(* Two workers that send and one in dark mode; a message, and a second one     *)
(* behind it when its job has failed and left its row to the sweep.           *)
EXTENDS Outbox

CONSTANTS m1, m2, w1, w2, w3

InTurn == [m \in Messages |-> IF m = m1 THEN 1 ELSE 2]

\* The second message is written when nothing but the sweep is left for the first
\* and the faults are used up: its request may still never enqueue it.
SecondIsBehind ==
  row[m2].status = "none" /\ row'[m2].status # "none" =>
    /\ Stuck(m1) /\ faults = MaxFaults
    /\ \A w \in Workers : worker[w] = Idle /\ failures[w] = {}
=============================================================================
