------------------------------ MODULE MCPinGate ------------------------------
(* Five requests at a limit of two: more than the limit of every verdict.   *)
EXTENDS PinGate

CONSTANTS right, wrong1, wrong2, fault1, fault2

AllVerdicts == [r \in Requests |->
  IF r = right THEN "right" ELSE IF r \in {fault1, fault2} THEN "fault" ELSE "wrong"]
=============================================================================
