----------------------------- MODULE MCTaskAgent -----------------------------
(* TLC instances of TaskAgent: the tasks, the operator, what may fail.     *)
EXTENDS TaskAgent

CONSTANTS k1, k2

OneTask == {k1}
TwoTasks == {k1, k2}
SecondUnsupported == {k2}
AllSupported == {}

CancelAndComplete == {"cancel", "complete"}
CancelOnly == {"cancel"}
CompleteOnly == {"complete"}

EveryFault == AgentFaultKinds

(* Calls that raise have had no effect; the agent may die.                 *)
CleanFaults == {"action", "crash"}

NoFaults == {}
=============================================================================
