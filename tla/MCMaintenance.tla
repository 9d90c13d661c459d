---------------------------- MODULE MCMaintenance ----------------------------
(* Instance of Maintenance: two processes and one branch, or one process and two *)
(* branches.                                                                *)
EXTENDS Maintenance

CONSTANTS w1, b1

\* Processes are interchangeable, and so are branches.
MCInit ==
  /\ Init
  /\ proc[w1] = "down" /\ place[1] = b1
  /\ (\A w \in Workers \ {w1} : proc[w] = "absent") \/ (\A p \in Rows : place[p] = b1)

MCSpec == MCInit /\ [][Next]_vars /\ Fairness
=============================================================================
